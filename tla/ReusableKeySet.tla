--------------------------- MODULE ReusableKeySet ---------------------------
(***************************************************************************)
(* BasicIncrementalBFS::ReusableKeySet: a hash set with linear probing     *)
(* that is emptied by moving to the next generation: a slot is in use when *)
(* its stamp is the current generation.                                    *)
(***************************************************************************)
EXTENDS Integers, FiniteSets

CONSTANTS Keys,
          ZeroKey,         \* the key 0, which cleared slots contain
          Hash,            \* mix(), taken modulo the table size
          TableSizes,      \* sizes of tables: 8 and what doubling makes of it
          Generations,     \* values of the unsigned generation_ (2^32)
          MaxExpected      \* bound on reset()'s argument

ASSUME KeySetConstants ==
  /\ IsFiniteSet(Keys) /\ ZeroKey \in Keys
  /\ Hash \in [Keys -> Nat]
  /\ TableSizes \subseteq Nat
  /\ \E s \in TableSizes : s >= 2 * MaxExpected + 1
  /\ Generations \in Nat /\ Generations > 1
  /\ MaxExpected \in Nat

VARIABLES keys,         \* keys_
          stamps,       \* stamps_
          size,         \* keys_.size(), mask_ + 1
          generation,
          expected,     \* what the caller announced
          content       \* history: the keys inserted since the last reset

keySet == <<keys, stamps, size, generation, expected, content>>

-----------------------------------------------------------------------------
InitKeys ==
  /\ size = 0
  /\ keys = [s \in {} |-> ZeroKey] /\ stamps = [s \in {} |-> 0]
  /\ generation = 0 /\ expected = 0
  /\ content = {}

(* The doubling ends at the first size above twice the announced keys.     *)
Required(n) ==
  LET enough == {s \in TableSizes : s >= 2 * n + 1}
  IN  CHOOSE s \in enough : \A t \in enough : s <= t

(* Mutant: old stamps survive the wrap. *)
NextGenerationKeepsStamps ==
  /\ generation' = IF generation + 1 = Generations THEN 1 ELSE generation + 1
  /\ UNCHANGED stamps

(* ++generation_, and what happens when it wraps to the stamp of unused    *)
(* slots.                                                                  *)
NextGeneration ==
  \/ /\ (generation + 1) % Generations # 0
     /\ generation' = generation + 1
     /\ UNCHANGED stamps
  \/ /\ (generation + 1) % Generations = 0
     /\ generation' = 1
     /\ stamps' = [s \in 0 .. size - 1 |-> 0]

Reset(n) ==
  /\ \/ /\ size < Required(n)
        /\ size' = Required(n)
        /\ keys' = [s \in 0 .. size' - 1 |-> ZeroKey]
        /\ stamps' = [s \in 0 .. size' - 1 |-> 0]
        /\ generation' = 1
     \/ /\ size >= Required(n)
        /\ NextGeneration
        /\ UNCHANGED <<size, keys>>
  /\ expected' = n
  /\ content' = {}

Slot(k, i) == (Hash[k] + i) % size

(* Where probing for k stops: at k, or at a slot that is not in use. *)
Stops(k, i) == stamps[Slot(k, i)] # generation \/ keys[Slot(k, i)] = k

Probe(k) ==
  Slot(k, CHOOSE i \in 0 .. size - 1 :
            Stops(k, i) /\ \A j \in 0 .. i - 1 : ~Stops(k, j))

ContainsKey(k) == size # 0 /\ stamps[Probe(k)] = generation

(* insert(): a batch inserts at most the number of updates it announced. *)
Insert(k) ==
  /\ size # 0
  /\ k \in content \/ Cardinality(content) < expected
  /\ content' = content \cup {k}
  /\ \/ ContainsKey(k) /\ UNCHANGED <<keys, stamps>>
     \/ /\ ~ContainsKey(k)
        /\ keys' = [keys EXCEPT ![Probe(k)] = k]
        /\ stamps' = [stamps EXCEPT ![Probe(k)] = generation]
  /\ UNCHANGED <<size, generation, expected>>

NextKeys ==
  \/ \E n \in 1 .. MaxExpected : Reset(n)
  \/ \E k \in Keys : Insert(k)

-----------------------------------------------------------------------------
(* Every probe finds a slot to stop at: the loops of insert() and          *)
(* contains() end.                                                         *)
ProbesEnd == size # 0 => \A k \in Keys : \E i \in 0 .. size - 1 : Stops(k, i)

(* The set holds what was inserted since the last reset, however many      *)
(* batches ago the table was filled and whatever collides.                 *)
HoldsContent == \A k \in Keys : ContainsKey(k) <=> k \in content

(* Both: the set answers, and answers rightly.                             *)
KeySetSound == ProbesEnd /\ HoldsContent
=============================================================================
