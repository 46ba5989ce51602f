------------------------- MODULE StandalonePartsProofs -------------------------
(***************************************************************************)
(* Proofs about six of the StandaloneParts, for all values of their        *)
(* constants: the consolidation controller, the reusable key set, the      *)
(* vertex ranges with their queues, the partition cache, the loader and    *)
(* the thread pool.  The parts share no variable but the loader's cache,   *)
(* so each has an inductive invariant of its own, which steps of the       *)
(* others leave alone.  Remainders, quotients, least elements and removal  *)
(* from sequences are lemmas of this module where first needed.            *)
(***************************************************************************)
EXTENDS StandaloneParts, FiniteSetTheorems, FunctionTheorems, SequenceTheorems,
        WellFoundedInduction, TLAPS

-----------------------------------------------------------------------------
(* The consolidation controller.                                           *)

Epoch == [signal : Signal, consolidated : BOOLEAN]

ControllerTypeOK ==
  /\ lastEpoch \in Nat /\ streak \in Nat /\ asked \in BOOLEAN
  /\ epochs \in Seq(Epoch)

(* last_consolidation_epoch_ is the latest cutover, or 0. *)
LatestCutover ==
  /\ lastEpoch <= Len(epochs)
  /\ lastEpoch # 0 => epochs[lastEpoch].consolidated
  /\ \A e \in 1 .. Len(epochs) : epochs[e].consolidated => e <= lastEpoch /\ lastEpoch # 0

(* The streak is the longest run of bad epochs that reaches the present.   *)
LongestRun ==
  /\ streak <= Len(epochs)
  /\ \A e \in Len(epochs) - streak + 1 .. Len(epochs) : Bad(e)
  /\ streak < Len(epochs) => ~Bad(Len(epochs) - streak)

AskedFor ==
  /\ asked => Len(epochs) > 0
  /\ Len(epochs) > 0 /\ ~epochs[Len(epochs)].consolidated =>
       (asked <=> epochs[Len(epochs)].signal.storage \/ streak >= Samples)

ControllerInv == ControllerTypeOK /\ LatestCutover /\ LongestRun /\ AskedFor

LEMMA OnlyController == [Next]_vars => [NextController]_controller
BY DEF Next, vars, Storage, Computation, controller, NextController, Observe, MarkConsolidated

LEMMA ControllerStarts == Init => ControllerInv
<1>. SUFFICES ASSUME InitController
              PROVE  ControllerInv
  BY DEF Init
<1>1. lastEpoch = 0 /\ streak = 0 /\ asked = FALSE /\ epochs = <<>> /\ Len(epochs) = 0
  BY DEF InitController
<1>2. ControllerTypeOK
  <2>1. <<>> \in Seq(Epoch)
    OBVIOUS
  <2>. QED  BY <1>1, <2>1 DEF ControllerTypeOK
<1>3. LatestCutover /\ AskedFor
  BY <1>1 DEF LatestCutover, AskedFor
<1>4. LongestRun
  BY <1>1 DEF LongestRun
<1>. QED  BY <1>2, <1>3, <1>4 DEF ControllerInv

(* An epoch that is over stays as bad as it was. *)
LEMMA EarlierEpochs ==
  ASSUME ControllerInv, NEW signal \in Signals, Observe(signal)
  PROVE  /\ Len(epochs') = Len(epochs) + 1
         /\ epochs' \in Seq(Epoch)
         /\ epochs'[Len(epochs) + 1] = [signal |-> signal, consolidated |-> FALSE]
         /\ \A e \in 1 .. Len(epochs) : epochs'[e] = epochs[e] /\ (Bad(e)' <=> Bad(e))
<1>1. [signal |-> signal, consolidated |-> FALSE] \in Epoch
  BY ControllerConstants DEF Epoch
<1>2. epochs' = Append(epochs, [signal |-> signal, consolidated |-> FALSE])
  BY DEF Observe
<1>3. epochs \in Seq(Epoch)
  BY DEF ControllerInv, ControllerTypeOK
<1>4. /\ Len(epochs') = Len(epochs) + 1
      /\ epochs' \in Seq(Epoch)
      /\ epochs'[Len(epochs) + 1] = [signal |-> signal, consolidated |-> FALSE]
      /\ \A e \in 1 .. Len(epochs) : epochs'[e] = epochs[e]
  BY <1>1, <1>2, <1>3
<1>5. ASSUME NEW e \in 1 .. Len(epochs) PROVE Bad(e)' <=> Bad(e)
  <2>1. \A c \in 1 .. e : epochs'[c] = epochs[c]
    BY <1>3, <1>4
  <2>. QED  BY <2>1, <1>4 DEF Bad
<1>. QED  BY <1>4, <1>5

LEMMA ObserveKeeps ==
  ASSUME ControllerInv, NEW signal \in Signals, Observe(signal)
  PROVE  ControllerInv'
<1>0. PICK last \in Nat : last = Len(epochs)
  BY DEF ControllerInv, ControllerTypeOK
<1>1. /\ last \in Nat /\ streak \in Nat /\ lastEpoch \in Nat /\ lastEpoch <= last /\ streak <= last
      /\ Cooldown \in Nat /\ Samples \in Nat \ {0} /\ epochs \in Seq(Epoch)
  BY <1>0, ControllerConstants DEF ControllerInv, ControllerTypeOK, LatestCutover, LongestRun
<1>2. signal.storage \in BOOLEAN /\ signal.slow \in BOOLEAN /\ signal.grown \in BOOLEAN
  BY ControllerConstants DEF Signal
<1>3. /\ Len(epochs') = last + 1 /\ epochs' \in Seq(Epoch)
      /\ epochs'[last + 1] = [signal |-> signal, consolidated |-> FALSE]
      /\ \A e \in 1 .. last : epochs'[e] = epochs[e] /\ (Bad(e)' <=> Bad(e))
  BY <1>0, EarlierEpochs
<1>4. lastEpoch' = lastEpoch /\ streak' = StreakAfter(signal, last + 1)
  BY <1>0 DEF Observe
<1>5. LatestCutover'
  BY <1>0, <1>1, <1>3, <1>4 DEF LatestCutover, ControllerInv
<1>6. \A c \in 1 .. last + 1 : epochs'[c].consolidated => c <= lastEpoch /\ lastEpoch # 0
  BY <1>3, <1>4, <1>5 DEF LatestCutover
<1>7. /\ epochs'[last + 1].signal = signal /\ epochs'[last + 1].consolidated = FALSE
  BY <1>3
<1>8. Bad(last + 1)' <=> ~signal.storage /\ Cooled(last + 1) /\ signal.slow /\ signal.grown
  <2>1. CASE Cooled(last + 1)
    <3>1. \A c \in 1 .. last + 1 : epochs'[c].consolidated => last + 1 >= c + Cooldown
      BY <2>1, <1>1, <1>6 DEF Cooled
    <3>. QED  BY <2>1, <3>1, <1>2, <1>7 DEF Bad
  <2>2. CASE ~Cooled(last + 1)
    <3>1. lastEpoch # 0 /\ last + 1 < lastEpoch + Cooldown
      BY <2>2, <1>1 DEF Cooled
    <3>2. epochs'[lastEpoch].consolidated /\ lastEpoch \in 1 .. last + 1
      BY <3>1, <1>1, <1>4, <1>5 DEF LatestCutover
    <3>3. ~ \A c \in 1 .. last + 1 : epochs'[c].consolidated => last + 1 >= c + Cooldown
      BY <3>1, <3>2, <1>1
    <3>. QED  BY <2>2, <3>3 DEF Bad
  <2>. QED  BY <2>1, <2>2
<1>9. streak' = IF Bad(last + 1)' THEN streak + 1 ELSE 0
  BY <1>4, <1>8 DEF StreakAfter
<1>10. LongestRun'
  <2>0. PICK run \in Nat : run = streak
    BY <1>1
  <2>1. /\ \A e \in last - run + 1 .. last : Bad(e)
        /\ run < last => ~Bad(last - run)
    BY <1>0, <2>0 DEF ControllerInv, LongestRun
  <2>2. CASE Bad(last + 1)'
    <3>1. streak' = run + 1
      BY <2>0, <2>2, <1>9
    <3>2. ASSUME NEW e \in last - run + 1 .. last + 1 PROVE Bad(e)'
      <4>1. e = last + 1 \/ (e \in last - run + 1 .. last /\ e \in 1 .. last)
        BY <1>1, <2>0
      <4>. QED  BY <4>1, <2>1, <2>2, <1>3
    <3>3. run < last => ~Bad(last - run)'
      <4>1. run < last => last - run \in 1 .. last
        BY <1>1
      <4>. QED  BY <4>1, <2>1, <1>3
    <3>4. (last + 1) - (run + 1) = last - run /\ (run + 1 < last + 1 <=> run < last)
      BY <1>1
    <3>. QED  BY <3>1, <3>2, <3>3, <3>4, <2>0, <1>1, <1>3 DEF LongestRun
  <2>3. CASE ~Bad(last + 1)'
    <3>1. streak' = 0
      BY <2>3, <1>9
    <3>. QED  BY <3>1, <2>3, <1>1, <1>3 DEF LongestRun
  <2>. QED  BY <2>2, <2>3
<1>11. AskedFor'
  <2>1. asked' <=> signal.storage \/ (Cooled(last + 1) /\ streak' >= Samples)
    BY <1>0, <1>2 DEF Observe
  <2>2. streak' >= Samples => Cooled(last + 1)
    BY <1>1, <1>8, <1>9
  <2>. QED  BY <2>1, <2>2, <1>1, <1>3, <1>7 DEF AskedFor
<1>12. ControllerTypeOK'
  BY <1>1, <1>2, <1>3, <1>4, <1>9 DEF ControllerTypeOK, Observe
<1>. QED  BY <1>5, <1>10, <1>11, <1>12 DEF ControllerInv

LEMMA MarkConsolidatedKeeps ==
  ASSUME ControllerInv, MarkConsolidated
  PROVE  ControllerInv'
<1>0. PICK last \in Nat : last = Len(epochs)
  BY DEF ControllerInv, ControllerTypeOK
<1>1. last \in Nat \ {0} /\ epochs \in Seq(Epoch) /\ last \in DOMAIN epochs
  BY <1>0 DEF ControllerInv, ControllerTypeOK, AskedFor, MarkConsolidated
<1>2. epochs' = [epochs EXCEPT ![last] = [@ EXCEPT !.consolidated = TRUE]]
  BY <1>0 DEF MarkConsolidated
<1>3. epochs[last] \in Epoch
  BY <1>1
<1>4. [epochs[last] EXCEPT !.consolidated = TRUE] \in Epoch
  BY <1>3 DEF Epoch
<1>5. epochs' \in Seq(Epoch) /\ Len(epochs') = last
  BY <1>0, <1>1, <1>2, <1>4
<1>6. /\ epochs'[last].consolidated
      /\ \A e \in 1 .. last - 1 : epochs'[e] = epochs[e]
  BY <1>1, <1>2, <1>3 DEF Epoch
<1>7. lastEpoch' = last /\ streak' = 0 /\ asked' = FALSE
  BY <1>0 DEF MarkConsolidated
<1>8. LatestCutover'
  BY <1>1, <1>5, <1>6, <1>7 DEF LatestCutover
<1>9. ~Bad(last)'
  BY <1>1, <1>6 DEF Bad
<1>10. LongestRun'
  BY <1>1, <1>5, <1>7, <1>9 DEF LongestRun
<1>11. AskedFor'
  BY <1>5, <1>6, <1>7 DEF AskedFor
<1>12. ControllerTypeOK'
  BY <1>1, <1>5, <1>7 DEF ControllerTypeOK
<1>. QED  BY <1>8, <1>10, <1>11, <1>12 DEF ControllerInv

LEMMA ControllerKept == ControllerInv /\ [Next]_vars => ControllerInv'
<1>. SUFFICES ASSUME ControllerInv, [NextController]_controller
              PROVE  ControllerInv'
  BY OnlyController
<1>1. CASE MarkConsolidated
  BY <1>1, MarkConsolidatedKeeps
<1>2. CASE \E signal \in Signals : Observe(signal)
  BY <1>2, ObserveKeeps
<1>3. CASE UNCHANGED controller
  BY <1>3 DEF controller, ControllerInv, ControllerTypeOK, LatestCutover, LongestRun, AskedFor, Bad
<1>. QED  BY <1>1, <1>2, <1>3 DEF NextController

LEMMA ControllerJustified == ControllerInv => RequestsJustified
<1>. SUFFICES ASSUME ControllerInv, Len(epochs) > 0, ~epochs[Len(epochs)].consolidated
              PROVE  asked <=> \/ epochs[Len(epochs)].signal.storage
                               \/ /\ Len(epochs) >= Samples
                                  /\ \A e \in Len(epochs) - Samples + 1 .. Len(epochs) : Bad(e)
  BY DEF RequestsJustified
<1>. DEFINE last == Len(epochs)
<1>1. last \in Nat /\ streak \in Nat /\ Samples \in Nat /\ streak <= last
  BY ControllerConstants DEF ControllerInv, ControllerTypeOK, LongestRun
<1>2. /\ \A e \in last - streak + 1 .. last : Bad(e)
      /\ streak < last => ~Bad(last - streak)
  BY DEF ControllerInv, LongestRun
<1>3. streak >= Samples => last >= Samples /\ \A e \in last - Samples + 1 .. last : Bad(e)
  BY <1>1, <1>2
<1>4. ASSUME last >= Samples, \A e \in last - Samples + 1 .. last : Bad(e), streak < Samples
      PROVE  FALSE
  BY <1>1, <1>2, <1>4
<1>. QED  BY <1>1, <1>3, <1>4 DEF ControllerInv, AskedFor

(* Whatever epochs bring and whenever the caller consolidates, observe()   *)
(* asks for latency exactly when the last Samples epochs were all slow,    *)
(* grown, below the storage limit and past every cooldown, and always at   *)
(* the storage limit: the two counters lose nothing of the history.        *)
THEOREM RequestsHold == Spec => []RequestsJustified
<1>1. Spec => []ControllerInv
  BY ControllerStarts, ControllerKept, PTL DEF Spec
<1>. QED  BY <1>1, ControllerJustified, PTL

-----------------------------------------------------------------------------
(* The reusable key set.                                                   *)

SlotSet == 0 .. size - 1

InUse == {s \in SlotSet : stamps[s] = generation}

KeysTypeOK ==
  /\ size \in Nat /\ generation \in Nat /\ expected \in Nat
  /\ keys \in [SlotSet -> Keys] /\ stamps \in [SlotSet -> Nat]
  /\ content \in SUBSET Keys

(* No slot has a stamp of a generation to come. *)
Stamped ==
  IF size = 0 THEN content = {}
  ELSE /\ generation < Generations
       /\ \A s \in SlotSet : stamps[s] <= generation

(* The slots in use hold the content, each key once, and leave room. *)
Stored ==
  /\ \A s \in InUse : keys[s] \in content
  /\ \A s, t \in InUse : keys[s] = keys[t] => s = t
  /\ Cardinality(InUse) = Cardinality(content)
  /\ Cardinality(content) <= expected
  /\ size # 0 => expected < size

Reaches(k, i) == Slot(k, i) \in InUse /\ keys[Slot(k, i)] = k /\ \A j \in 0 .. i - 1 : ~Stops(k, j)

(* Each key is where probing for it gets to. *)
Reachable == \A k \in content : \E i \in SlotSet : Reaches(k, i)

KeysInv == KeysTypeOK /\ Stamped /\ Stored /\ Reachable

LEMMA OnlyKeys == [Next]_vars => [NextKeys]_keySet
BY DEF Next, vars, Storage, Computation, keySet

(* Numbers. *)
LEMMA ModUnique ==
  ASSUME NEW b \in Nat \ {0}, NEW q \in Nat, NEW r \in 0 .. b - 1
  PROVE  (b * q + r) % b = r
OBVIOUS

LEMMA DivUnique ==
  ASSUME NEW b \in Nat \ {0}, NEW q \in Nat, NEW r \in 0 .. b - 1
  PROVE  (b * q + r) \div b = q
OBVIOUS

LEMMA DivMod ==
  ASSUME NEW b \in Nat \ {0}, NEW a \in Nat
  PROVE  a \div b \in Nat /\ a % b \in 0 .. b - 1 /\ a = b * (a \div b) + (a % b)
OBVIOUS

LEMMA LeastOf ==
  ASSUME NEW L \in SUBSET Nat, L # {}
  PROVE  \E m \in L : \A x \in L : m <= x
<1>1. PICK m \in L : \A x \in L : ~(<<x, m>> \in OpToRel(<, Nat))
  BY NatLessThanWellFounded, WFMin, Zenon
<1>2. ASSUME NEW x \in L PROVE m <= x
  <2>1. m \in Nat /\ x \in Nat
    OBVIOUS
  <2>2. ~(x < m)
    BY <1>1, <2>1 DEF OpToRel
  <2>. QED  BY <2>1, <2>2
<1>. QED  BY <1>2

(* Counting on from any number meets every remainder. *)
LEMMA EveryRemainder ==
  ASSUME NEW b \in Nat \ {0}, NEW h \in Nat, NEW s \in 0 .. b - 1
  PROVE  \E i \in 0 .. b - 1 : (h + i) % b = s
<1>1. PICK q \in Nat, r \in 0 .. b - 1 : h = b * q + r
  BY DivMod
<1>2. CASE s >= r
  <2>1. s - r \in 0 .. b - 1 /\ h + (s - r) = b * q + s
    BY <1>1, <1>2
  <2>2. (b * q + s) % b = s
    BY <1>1, ModUnique
  <2>. QED  BY <2>1, <2>2
<1>3. CASE s < r
  <2>1. s - r + b \in 0 .. b - 1
    BY <1>1, <1>3
  <2>2. h + (s - r + b) = b * (q + 1) + s
    BY <1>1
  <2>3. (b * (q + 1) + s) % b = s
    <3>1. q + 1 \in Nat
      BY <1>1
    <3>. QED  BY <3>1, ModUnique
  <2>. QED  BY <2>1, <2>2, <2>3
<1>. QED  BY <1>1, <1>2, <1>3

LEMMA KeysStart == Init => KeysInv
<1>. SUFFICES ASSUME InitKeys
              PROVE  KeysInv
  BY DEF Init
<1>1. /\ size = 0 /\ generation = 0 /\ expected = 0 /\ content = {}
      /\ keys = [s \in {} |-> ZeroKey] /\ stamps = [s \in {} |-> 0]
  BY DEF InitKeys
<1>2. SlotSet = {} /\ InUse = {}
  BY <1>1 DEF SlotSet, InUse
<1>3. KeysTypeOK
  BY <1>1, <1>2 DEF KeysTypeOK
<1>4. Stamped /\ Reachable
  BY <1>1 DEF Stamped, Reachable
<1>5. Cardinality(InUse) = Cardinality(content) /\ Cardinality(content) = 0
  BY <1>1, <1>2, FS_EmptySet
<1>6. Stored
  BY <1>1, <1>2, <1>5 DEF Stored
<1>. QED  BY <1>3, <1>4, <1>6 DEF KeysInv

(* Slots along a probe. *)
LEMMA SlotType ==
  ASSUME KeysInv, size # 0, NEW k \in Keys, NEW i \in SlotSet
  PROVE  Slot(k, i) \in SlotSet
<1>1. Hash[k] \in Nat /\ i \in Nat /\ size \in Nat \ {0}
  BY KeySetConstants DEF KeysInv, KeysTypeOK, SlotSet
<1>. QED  BY <1>1, DivMod DEF Slot, SlotSet

(* A probe passes every slot. *)
LEMMA EverySlot ==
  ASSUME KeysInv, size # 0, NEW k \in Keys, NEW s \in SlotSet
  PROVE  \E i \in SlotSet : Slot(k, i) = s
<1>1. Hash[k] \in Nat /\ size \in Nat \ {0} /\ s \in 0 .. size - 1
  BY KeySetConstants DEF KeysInv, KeysTypeOK, SlotSet
<1>. QED  BY <1>1, EveryRemainder DEF Slot, SlotSet

LEMMA UseFinite ==
  ASSUME KeysInv
  PROVE  /\ IsFiniteSet(InUse) /\ IsFiniteSet(content)
         /\ Cardinality(InUse) \in Nat /\ Cardinality(content) \in Nat
<1>1. IsFiniteSet(SlotSet)
  BY FS_Interval DEF SlotSet, KeysInv, KeysTypeOK
<1>2. IsFiniteSet(InUse)
  BY <1>1, FS_Subset DEF InUse
<1>3. IsFiniteSet(content)
  BY KeySetConstants, FS_Subset DEF KeysInv, KeysTypeOK
<1>. QED  BY <1>2, <1>3, FS_CardinalityType

(* Some slot is free, so probing stops. *)
LEMMA RoomLeft ==
  ASSUME KeysInv
  PROVE  ProbesEnd
<1>. SUFFICES ASSUME size # 0, NEW k \in Keys,
                     \A i \in SlotSet : ~Stops(k, i)
              PROVE  FALSE
  BY DEF ProbesEnd, SlotSet
<1>1. \A s \in SlotSet : s \in InUse
  BY EverySlot DEF Stops, InUse
<1>2. InUse = SlotSet
  BY <1>1 DEF InUse
<1>3. size \in Nat /\ size > 0
  BY DEF KeysInv, KeysTypeOK
<1>4. Cardinality(0 .. size - 1) = size
  <2>1. Cardinality(0 .. size - 1) = IF 0 > size - 1 THEN 0 ELSE (size - 1) - 0 + 1
    BY <1>3, FS_Interval
  <2>. QED  BY <1>3, <2>1
<1>5. Cardinality(InUse) = size
  BY <1>2, <1>4 DEF SlotSet
<1>. QED  BY <1>5, <1>3 DEF KeysInv, Stored, KeysTypeOK

(* The first place where probing stops. *)
LEMMA ProbeStops ==
  ASSUME KeysInv, size # 0, NEW k \in Keys
  PROVE  \E i \in SlotSet : /\ Probe(k) = Slot(k, i)
                            /\ Stops(k, i)
                            /\ \A j \in 0 .. i - 1 : ~Stops(k, j)
<1>. DEFINE halts == {i \in SlotSet : Stops(k, i)}
            first(i) == i \in SlotSet /\ Stops(k, i) /\ \A j \in 0 .. i - 1 : ~Stops(k, j)
<1>1. halts # {} /\ halts \in SUBSET Nat
  BY RoomLeft DEF ProbesEnd, SlotSet
<1>2. PICK n \in halts : \A m \in halts : n <= m
  BY <1>1, LeastOf
<1>3. ASSUME NEW j \in 0 .. n - 1 PROVE j \in SlotSet /\ ~(n <= j)
  <2>1. n \in 0 .. size - 1 /\ size \in Nat
    BY <1>2 DEF SlotSet, KeysInv, KeysTypeOK
  <2>. QED  BY <2>1 DEF SlotSet
<1>4. first(n)
  BY <1>2, <1>3
<1>5. \E i \in 0 .. size - 1 : Stops(k, i) /\ \A j \in 0 .. i - 1 : ~Stops(k, j)
  BY <1>4 DEF SlotSet
<1>. DEFINE c == CHOOSE i \in 0 .. size - 1 : Stops(k, i) /\ \A j \in 0 .. i - 1 : ~Stops(k, j)
<1>6. c \in 0 .. size - 1 /\ Stops(k, c) /\ \A j \in 0 .. c - 1 : ~Stops(k, j)
  BY <1>5, Zenon
<1>. QED  BY <1>6 DEF Probe, SlotSet

(* contains() answers rightly. *)
LEMMA ContentFound ==
  ASSUME KeysInv
  PROVE  HoldsContent
<1>. SUFFICES ASSUME NEW k \in Keys
              PROVE  ContainsKey(k) <=> k \in content
  BY DEF HoldsContent
<1>1. CASE size = 0
  BY <1>1 DEF KeysInv, Stamped, ContainsKey
<1>2. CASE size # 0
  <2>1. PICK i \in SlotSet : /\ Probe(k) = Slot(k, i)
                             /\ Stops(k, i)
                             /\ \A j \in 0 .. i - 1 : ~Stops(k, j)
    BY <1>2, ProbeStops
  <2>2. Slot(k, i) \in SlotSet
    BY <1>2, SlotType
  <2>3. ASSUME ContainsKey(k) PROVE k \in content
    <3>1. Slot(k, i) \in InUse /\ keys[Slot(k, i)] = k
      BY <2>1, <2>2, <2>3 DEF ContainsKey, InUse, Stops
    <3>. QED  BY <3>1 DEF KeysInv, Stored
  <2>4. ASSUME k \in content PROVE ContainsKey(k)
    <3>1. PICK m \in SlotSet : Reaches(k, m)
      BY <2>4 DEF KeysInv, Reachable
    <3>2. Stops(k, m)
      BY <3>1 DEF Reaches, Stops
    <3>3. i \in Nat /\ m \in Nat
      BY DEF SlotSet
    <3>4. i = m
      BY <2>1, <3>1, <3>2, <3>3 DEF Reaches
    <3>. QED  BY <1>2, <2>1, <3>1, <3>4 DEF Reaches, ContainsKey, InUse
  <2>. QED  BY <2>3, <2>4
<1>. QED  BY <1>1, <1>2

LEMMA RequiredSize ==
  ASSUME NEW n \in 1 .. MaxExpected
  PROVE  Required(n) \in Nat /\ Required(n) >= 2 * n + 1
<1>. DEFINE enough == {s \in TableSizes : s >= 2 * n + 1}
<1>1. n \in Nat /\ n <= MaxExpected /\ MaxExpected \in Nat
  BY KeySetConstants
<1>2. PICK large \in TableSizes : large >= 2 * MaxExpected + 1
  BY KeySetConstants
<1>3. enough \in SUBSET Nat
  BY KeySetConstants
<1>4. large \in enough
  BY <1>1, <1>2, <1>3, KeySetConstants
<1>5. \E s \in enough : \A t \in enough : s <= t
  BY <1>3, <1>4, LeastOf
<1>6. Required(n) = CHOOSE s \in enough : \A t \in enough : s <= t
  BY DEF Required
<1>7. Required(n) \in enough
  BY <1>5, <1>6, Zenon
<1>. QED  BY <1>3, <1>7

(* A new generation, or a new table, has no slot in use. *)
LEMMA ResetKeeps ==
  ASSUME KeysInv, NEW n \in 1 .. MaxExpected, Reset(n)
  PROVE  KeysInv'
<1>1. n \in Nat /\ expected' = n /\ content' = {}
  BY DEF Reset
<1>2. Required(n) \in Nat /\ Required(n) >= 2 * n + 1
  BY RequiredSize
<1>3. /\ size' \in Nat /\ size' >= 2 * n + 1
      /\ generation' \in Nat /\ generation' < Generations
      /\ keys' \in [0 .. size' - 1 -> Keys] /\ stamps' \in [0 .. size' - 1 -> Nat]
      /\ \A s \in 0 .. size' - 1 : stamps'[s] < generation'
  <2>1. CASE size < Required(n)
    <3>1. /\ size' = Required(n) /\ generation' = 1
          /\ keys' = [s \in 0 .. size' - 1 |-> ZeroKey]
          /\ stamps' = [s \in 0 .. size' - 1 |-> 0]
      BY <2>1, <1>2 DEF Reset, KeysInv, KeysTypeOK
    <3>. QED  BY <3>1, <1>2, KeySetConstants
  <2>2. CASE ~(size < Required(n))
    <3>1. /\ size \in Nat /\ size >= 2 * n + 1 /\ size # 0 /\ size' = size /\ keys' = keys
          /\ NextGeneration /\ generation \in Nat
          /\ keys \in [0 .. size - 1 -> Keys] /\ stamps \in [0 .. size - 1 -> Nat]
      BY <2>2, <1>1, <1>2 DEF Reset, KeysInv, KeysTypeOK, SlotSet
    <3>2. generation < Generations /\ \A s \in 0 .. size - 1 : stamps[s] <= generation
      BY <3>1 DEF KeysInv, Stamped, SlotSet
    <3>3. Generations \in Nat /\ Generations > 1
      BY KeySetConstants
    <3>4. CASE (generation + 1) % Generations # 0
      <4>1. generation' = generation + 1 /\ stamps' = stamps
        BY <3>1, <3>4 DEF NextGeneration
      <4>2. generation + 1 # Generations
        <5>1. (Generations * 1 + 0) % Generations = 0
          BY <3>3, ModUnique
        <5>. QED  BY <3>3, <3>4, <5>1
      <4>. QED  BY <3>1, <3>2, <3>3, <4>1, <4>2
    <3>5. CASE (generation + 1) % Generations = 0
      <4>1. generation' = 1 /\ stamps' = [s \in 0 .. size - 1 |-> 0]
        BY <3>1, <3>5 DEF NextGeneration
      <4>. QED  BY <3>1, <3>3, <4>1
    <3>. QED  BY <3>4, <3>5
  <2>. QED  BY <2>1, <2>2
<1>4. KeysTypeOK'
  BY <1>1, <1>3 DEF KeysTypeOK, SlotSet
<1>5. \A s \in SlotSet' : stamps'[s] <= generation' /\ stamps'[s] # generation'
  <2>1. SUFFICES ASSUME NEW s \in 0 .. size' - 1
                 PROVE  stamps'[s] <= generation' /\ stamps'[s] # generation'
    BY DEF SlotSet
  <2>2. stamps'[s] \in Nat /\ stamps'[s] < generation' /\ generation' \in Nat
    BY <1>3
  <2>. QED  BY <2>2
<1>6. Stamped' /\ InUse' = {}
  BY <1>1, <1>3, <1>5 DEF Stamped, InUse
<1>7. Cardinality(InUse') = 0 /\ Cardinality(content') = 0
  BY <1>1, <1>6, FS_EmptySet
<1>8. Stored'
  BY <1>1, <1>3, <1>6, <1>7 DEF Stored
<1>9. Reachable'
  BY <1>1 DEF Reachable
<1>. QED  BY <1>4, <1>6, <1>8, <1>9 DEF KeysInv

(* A new key takes the slot its probe stops at, which no other probe passes. *)
LEMMA InsertKeeps ==
  ASSUME KeysInv, NEW k \in Keys, Insert(k)
  PROVE  KeysInv'
<1>1. /\ size # 0 /\ size \in Nat /\ generation \in Nat
      /\ size' = size /\ generation' = generation /\ expected' = expected
      /\ content' = content \cup {k}
      /\ k \in content \/ Cardinality(content) < expected
      /\ SlotSet' = SlotSet
  BY DEF Insert, KeysInv, KeysTypeOK, SlotSet
<1>2. ContainsKey(k) <=> k \in content
  BY ContentFound DEF HoldsContent
<1>3. CASE k \in content
  <2>1. keys' = keys /\ stamps' = stamps /\ content' = content
    BY <1>1, <1>2, <1>3 DEF Insert
  <2>2. \A x, i : (Stops(x, i)' <=> Stops(x, i)) /\ Slot(x, i)' = Slot(x, i)
    BY <1>1, <2>1 DEF Stops, Slot
  <2>3. InUse' = InUse
    BY <1>1, <2>1 DEF InUse
  <2>4. Reachable'
    BY <1>1, <2>1, <2>2, <2>3 DEF KeysInv, Reachable, Reaches
  <2>. QED  BY <1>1, <2>1, <2>3, <2>4 DEF KeysInv, KeysTypeOK, Stamped, Stored
<1>4. CASE k \notin content
  <2>. DEFINE p == Probe(k)
  <2>1. PICK first \in SlotSet : /\ p = Slot(k, first)
                                 /\ Stops(k, first)
                                 /\ \A j \in 0 .. first - 1 : ~Stops(k, j)
    BY <1>1, ProbeStops
  <2>2. p \in SlotSet
    BY <1>1, <2>1, SlotType
  <2>3. p \notin InUse
    BY <1>1, <1>2, <1>4 DEF ContainsKey, InUse
  <2>4. keys' = [keys EXCEPT ![p] = k] /\ stamps' = [stamps EXCEPT ![p] = generation]
    BY <1>2, <1>4 DEF Insert
  <2>5. keys \in [SlotSet -> Keys] /\ stamps \in [SlotSet -> Nat] /\ content \subseteq Keys
    BY DEF KeysInv, KeysTypeOK
  <2>. HIDE DEF p
  <2>6. /\ keys' \in [SlotSet -> Keys] /\ stamps' \in [SlotSet -> Nat]
        /\ keys'[p] = k /\ stamps'[p] = generation
        /\ \A s \in SlotSet : s # p => keys'[s] = keys[s] /\ stamps'[s] = stamps[s]
    BY <1>1, <2>2, <2>4, <2>5
  <2>7. KeysTypeOK'
    BY <1>1, <2>5, <2>6 DEF KeysInv, KeysTypeOK
  <2>8. Stamped'
    BY <1>1, <2>6 DEF KeysInv, Stamped
  <2>9. InUse' = InUse \cup {p}
    BY <1>1, <2>2, <2>6 DEF InUse
  <2>10. /\ \A s \in InUse' : keys'[s] \in content'
         /\ \A s, t \in InUse' : keys'[s] = keys'[t] => s = t
    <3>1. \A s \in InUse : s \in SlotSet /\ s # p /\ keys'[s] = keys[s] /\ keys[s] \in content /\ keys[s] # k
      BY <1>4, <2>3, <2>6 DEF KeysInv, Stored, InUse
    <3>2. \A s, t \in InUse : keys[s] = keys[t] => s = t
      BY DEF KeysInv, Stored
    <3>. QED  BY <1>1, <2>6, <2>9, <3>1, <3>2
  <2>11. Cardinality(InUse') = Cardinality(InUse) + 1
    BY <2>3, <2>9, UseFinite, FS_AddElement
  <2>12. Cardinality(content') = Cardinality(content) + 1
    BY <1>1, <1>4, UseFinite, FS_AddElement
  <2>13. /\ Cardinality(InUse') = Cardinality(content') /\ Cardinality(content') <= expected'
         /\ (size' # 0 => expected' < size')
    <3>1. /\ Cardinality(InUse) = Cardinality(content)
          /\ expected \in Nat /\ expected < size
      BY <1>1 DEF KeysInv, Stored, KeysTypeOK
    <3>. QED  BY <1>1, <1>4, <2>11, <2>12, <3>1, UseFinite
  <2>14. Stored'
    BY <2>10, <2>13 DEF Stored
  <2>15. \A x, i : Slot(x, i)' = Slot(x, i)
    BY <1>1 DEF Slot
  <2>16. ASSUME NEW x \in Keys, NEW i \in SlotSet, ~Stops(x, i)
         PROVE  ~Stops(x, i)'
    <3>1. Slot(x, i) \in InUse /\ keys[Slot(x, i)] # x
      BY <1>1, <2>16, SlotType DEF Stops, InUse
    <3>2. Slot(x, i) \in SlotSet /\ Slot(x, i) # p
      BY <3>1, <2>3 DEF InUse
    <3>3. stamps[Slot(x, i)] = generation
      BY <3>1 DEF InUse
    <3>. QED  BY <1>1, <2>6, <2>15, <3>1, <3>2, <3>3 DEF Stops
  <2>17. ASSUME NEW i \in SlotSet, NEW j \in 0 .. i - 1
         PROVE  j \in SlotSet
    BY <1>1 DEF SlotSet
  <2>18. ASSUME NEW x \in content PROVE \E i \in SlotSet : Reaches(x, i)'
    <3>1. PICK i \in SlotSet : Reaches(x, i)
      BY <2>18 DEF KeysInv, Reachable
    <3>2. Slot(x, i)' \in InUse' /\ keys'[Slot(x, i)'] = x
      BY <3>1, <2>3, <2>6, <2>9, <2>15 DEF Reaches, InUse
    <3>3. \A j \in 0 .. i - 1 : ~Stops(x, j)'
      BY <3>1, <2>5, <2>16, <2>17 DEF Reaches
    <3>. QED  BY <3>2, <3>3 DEF Reaches
  <2>19. Reaches(k, first)'
    <3>1. Slot(k, first)' \in InUse' /\ keys'[Slot(k, first)'] = k
      BY <2>1, <2>6, <2>9, <2>15
    <3>2. \A j \in 0 .. first - 1 : ~Stops(k, j)'
      BY <2>1, <2>16, <2>17
    <3>. QED  BY <3>1, <3>2 DEF Reaches
  <2>20. Reachable'
    BY <1>1, <2>18, <2>19 DEF Reachable
  <2>. QED  BY <2>7, <2>8, <2>14, <2>20 DEF KeysInv
<1>. QED  BY <1>3, <1>4

LEMMA KeysKept == KeysInv /\ [Next]_vars => KeysInv'
<1>. SUFFICES ASSUME KeysInv, [NextKeys]_keySet
              PROVE  KeysInv'
  BY OnlyKeys
<1>1. CASE \E n \in 1 .. MaxExpected : Reset(n)
  BY <1>1, ResetKeeps
<1>2. CASE \E k \in Keys : Insert(k)
  BY <1>2, InsertKeeps
<1>3. CASE UNCHANGED keySet
  BY <1>3 DEF keySet, KeysInv, KeysTypeOK, Stamped, Stored, InUse, SlotSet, Reachable, Reaches, Stops, Slot
<1>. QED  BY <1>1, <1>2, <1>3 DEF NextKeys

(* For every hash function, table growth and width of the generation       *)
(* counter: insert() and contains() end, and contains() answers for what   *)
(* was inserted since the last reset(), wrapped generations included.      *)
THEOREM KeySetAnswers == Spec => []KeySetSound
<1>1. Spec => []KeysInv
  BY KeysStart, KeysKept, PTL DEF Spec
<1>2. KeysInv => KeySetSound
  BY RoomLeft, ContentFound DEF KeySetSound
<1>. QED  BY <1>1, <1>2, PTL

-----------------------------------------------------------------------------
(* Vertex ranges and the queues of their tasks.                            *)

(* What a plan of the given number of partitions is. *)
Planned(parts) ==
  planned.parts =
    [p \in 1 .. parts |->
       [range |-> [begin |-> RangeEnd(planned.n, parts, p - 1), end |-> RangeEnd(planned.n, parts, p)],
        node |-> Placement(machine.topology, planned.mode, p - 1)]]

PartitionsInv ==
  /\ machine.topology \in Seq(Nat) /\ machine.workers \in Nat \ {0}
  /\ planned.n \in Nat
  /\ \/ planned.parts = <<>> /\ planned.n = 0
     \/ \E parts \in Nat \ {0} : Planned(parts)

LEMMA OnlyPartitions == [Next]_vars => [NextPartitions]_vertexPartitions
BY DEF Next, vars, Storage, Computation, vertexPartitions

LEMMA MaxOfTwo ==
  ASSUME NEW a \in Nat, NEW b \in Nat
  PROVE  Max({a, b}) \in {a, b} /\ Max({a, b}) >= a /\ Max({a, b}) >= b
<1>1. \E x \in {a, b} : \A y \in {a, b} : x >= y
  <2>1. CASE a >= b
    BY <2>1
  <2>2. CASE b >= a
    BY <2>2
  <2>. QED  BY <2>1, <2>2
<1>2. Max({a, b}) \in {a, b} /\ \A y \in {a, b} : Max({a, b}) >= y
  BY <1>1, Zenon DEF Max
<1>. QED  BY <1>2

LEMMA MinOfTwo ==
  ASSUME NEW a \in Nat, NEW b \in Nat
  PROVE  Min({a, b}) \in {a, b}
<1>1. \E x \in {a, b} : \A y \in {a, b} : x =< y
  <2>1. CASE a <= b
    BY <2>1
  <2>2. CASE b <= a
    BY <2>2
  <2>. QED  BY <2>1, <2>2
<1>. QED  BY <1>1, Zenon DEF Min

LEMMA PlanKeeps ==
  ASSUME PartitionsInv, NextPartitions
  PROVE  PartitionsInv'
<1>1. PICK m \in [topology : Topologies, workers : PoolSizes], mode \in {"off", "auto"},
           n \in 0 .. MaxRanged, requested \in 0 .. MaxRanged : Plan(m, n, mode, requested)
  BY DEF NextPartitions
<1>2. m.topology \in Seq(Nat) /\ m.workers \in Nat \ {0}
  BY PartitionConstants
<1>. DEFINE wanted == IF requested = 0 THEN Max({1, Len(m.topology)}) ELSE requested
            parts == Max({1, Min({wanted, Max({1, n})})})
<1>3. n \in Nat /\ wanted \in Nat
  <2>1. Len(m.topology) \in Nat
    BY <1>2
  <2>2. Max({1, Len(m.topology)}) \in Nat
    BY <2>1, MaxOfTwo
  <2>. QED  BY <2>2, PartitionConstants
<1>4. parts \in Nat \ {0}
  <2>. HIDE DEF wanted
  <2>1. Max({1, n}) \in Nat
    BY <1>3, MaxOfTwo
  <2>2. Min({wanted, Max({1, n})}) \in Nat
    BY <1>3, <2>1, MinOfTwo
  <2>. HIDE DEF parts
  <2>3. Max({1, Min({wanted, Max({1, n})})}) \in Nat /\ Max({1, Min({wanted, Max({1, n})})}) >= 1
    BY <2>2, MaxOfTwo
  <2>. QED  BY <2>3 DEF parts
<1>5. ContiguousPartitions(n, wanted) =
        [p \in 1 .. parts |-> [begin |-> RangeEnd(n, parts, p - 1), end |-> RangeEnd(n, parts, p)]]
  BY DEF ContiguousPartitions
<1>6. /\ machine' = m
      /\ planned' = [n |-> n, mode |-> mode,
                     parts |-> [p \in DOMAIN ContiguousPartitions(n, wanted) |->
                                  [range |-> ContiguousPartitions(n, wanted)[p],
                                   node |-> Placement(m.topology, mode, p - 1)]]]
  BY <1>1 DEF Plan
<1>. HIDE DEF wanted, parts
<1>7. planned'.parts = [p \in 1 .. parts |->
                          [range |-> [begin |-> RangeEnd(n, parts, p - 1), end |-> RangeEnd(n, parts, p)],
                           node |-> Placement(m.topology, mode, p - 1)]]
  BY <1>5, <1>6
<1>8. planned'.n = n /\ planned'.mode = mode
  BY <1>6
<1>9. PICK count \in Nat \ {0} : count = parts
  BY <1>4
<1>10. Planned(count)'
  BY <1>6, <1>7, <1>8, <1>9 DEF Planned, RangeEnd, Placement
<1>. QED  BY <1>2, <1>3, <1>6, <1>8, <1>10 DEF PartitionsInv

LEMMA PartitionsKept == PartitionsInv /\ [Next]_vars => PartitionsInv'
<1>. SUFFICES ASSUME PartitionsInv, [NextPartitions]_vertexPartitions
              PROVE  PartitionsInv'
  BY OnlyPartitions
<1>1. CASE NextPartitions
  BY <1>1, PlanKeeps
<1>2. CASE UNCHANGED vertexPartitions
  BY <1>2 DEF vertexPartitions, PartitionsInv, Planned
<1>. QED  BY <1>1, <1>2

LEMMA PartitionsStart == Init => PartitionsInv
<1>1. <<>> \in Seq(Nat)
  OBVIOUS
<1>. QED  BY <1>1 DEF Init, InitPartitions, PartitionsInv

(* Division of a number that grows by n. *)
LEMMA DivStep ==
  ASSUME NEW b \in Nat \ {0}, NEW a \in Nat, NEW n \in Nat
  PROVE  (a + n) \div b \in {(a \div b) + (n \div b), (a \div b) + (n \div b) + 1}
<1>1. PICK x \in Nat, r \in 0 .. b - 1 : a = b * x + r /\ x = a \div b
  BY DivMod
<1>2. PICK d \in Nat, e \in 0 .. b - 1 : n = b * d + e /\ d = n \div b
  BY DivMod
<1>3. CASE r + e < b
  <2>1. a + n = b * (x + d) + (r + e) /\ x + d \in Nat /\ r + e \in 0 .. b - 1
    BY <1>1, <1>2, <1>3
  <2>2. (b * (x + d) + (r + e)) \div b = x + d
    BY <2>1, DivUnique
  <2>. QED  BY <1>1, <1>2, <2>1, <2>2
<1>4. CASE r + e >= b
  <2>1. a + n = b * (x + d + 1) + (r + e - b) /\ x + d + 1 \in Nat /\ r + e - b \in 0 .. b - 1
    BY <1>1, <1>2, <1>4
  <2>2. (b * (x + d + 1) + (r + e - b)) \div b = x + d + 1
    BY <2>1, DivUnique
  <2>. QED  BY <1>1, <1>2, <2>1, <2>2
<1>. QED  BY <1>1, <1>2, <1>3, <1>4

LEMMA RangeEndType ==
  ASSUME NEW n \in Nat, NEW parts \in Nat \ {0}, NEW p \in Nat
  PROVE  RangeEnd(n, parts, p) \in Nat
<1>1. n * p \in Nat
  OBVIOUS
<1>. QED  BY <1>1, DivMod DEF RangeEnd

LEMMA RangeEndAscends ==
  ASSUME NEW n \in Nat, NEW parts \in Nat \ {0}, NEW p \in Nat, NEW q \in Nat, p <= q
  PROVE  RangeEnd(n, parts, p) <= RangeEnd(n, parts, q)
<1>. DEFINE a == n * p
            c == n * (q - p)
<1>1. a \in Nat /\ c \in Nat /\ n * q = a + c
  <2>1. q - p \in Nat /\ n * q = n * p + n * (q - p)
    OBVIOUS
  <2>2. n * (q - p) \in Nat /\ n * p \in Nat
    BY <2>1
  <2>. QED  BY <2>1, <2>2
<1>. HIDE DEF a, c
<1>2. (a + c) \div parts \in {(a \div parts) + (c \div parts), (a \div parts) + (c \div parts) + 1}
  BY <1>1, DivStep
<1>3. a \div parts \in Nat /\ c \div parts \in Nat
  BY <1>1, DivMod
<1>4. (a + c) \div parts >= a \div parts
  BY <1>2, <1>3
<1>. QED  BY <1>1, <1>4 DEF RangeEnd, a

(* The first range begins at 0, the last one ends at n. *)
LEMMA RangeEnds ==
  ASSUME NEW n \in Nat, NEW parts \in Nat \ {0}
  PROVE  RangeEnd(n, parts, 0) = 0 /\ RangeEnd(n, parts, parts) = n
<1>1. n * 0 = parts * 0 + 0 /\ n * parts = parts * n + 0
  OBVIOUS
<1>2. (parts * 0 + 0) \div parts = 0 /\ (parts * n + 0) \div parts = n
  BY DivUnique
<1>. QED  BY <1>1, <1>2 DEF RangeEnd

LEMMA RangeSize ==
  ASSUME NEW n \in Nat, NEW parts \in Nat \ {0}, NEW p \in 1 .. parts
  PROVE  RangeEnd(n, parts, p) - RangeEnd(n, parts, p - 1) \in {n \div parts, (n \div parts) + 1}
<1>. DEFINE a == n * (p - 1)
<1>1. a \in Nat /\ n * p = a + n
  <2>1. p - 1 \in Nat /\ n * p = n * (p - 1) + n
    OBVIOUS
  <2>. QED  BY <2>1
<1>. HIDE DEF a
<1>2. (a + n) \div parts \in {(a \div parts) + (n \div parts), (a \div parts) + (n \div parts) + 1}
  BY <1>1, DivStep
<1>3. a \div parts \in Nat /\ n \div parts \in Nat
  BY <1>1, DivMod
<1>4. (a + n) \div parts - (a \div parts) \in {n \div parts, (n \div parts) + 1}
  BY <1>2, <1>3
<1>5. RangeEnd(n, parts, p) = (a + n) \div parts /\ RangeEnd(n, parts, p - 1) = a \div parts
  BY <1>1 DEF RangeEnd, a
<1>. QED  BY <1>4, <1>5

(* Each vertex is in exactly one range. *)
LEMMA OneRange ==
  ASSUME PartitionsInv, NEW parts \in Nat \ {0}, Planned(parts), NEW v \in 0 .. planned.n - 1
  PROVE  \E p \in 1 .. parts : {q \in 1 .. parts : Within(v, planned.parts[q])} = {p}
<1>. DEFINE n == planned.n
            End(p) == RangeEnd(n, parts, p)
<1>1. n \in Nat /\ v \in Nat /\ v < n
  BY DEF PartitionsInv
<1>2. \A q \in 1 .. parts : Within(v, planned.parts[q]) <=> End(q - 1) <= v /\ v < End(q)
  BY DEF Planned, Within
<1>3. \A p \in Nat : End(p) \in Nat
  BY <1>1, RangeEndType
<1>4. \A p, q \in Nat : p <= q => End(p) <= End(q)
  BY <1>1, RangeEndAscends
<1>5. End(0) = 0 /\ End(parts) = n
  BY <1>1, RangeEnds
<1>. HIDE DEF n, End
<1>. DEFINE beyond == {p \in Nat : v < End(p)}
<1>6. parts \in beyond /\ beyond \in SUBSET Nat
  BY <1>1, <1>5
<1>7. PICK p \in beyond : \A q \in beyond : p <= q
  BY <1>6, LeastOf
<1>8. p \in 1 .. parts /\ v < End(p)
  <2>1. p # 0
    BY <1>1, <1>5, <1>7
  <2>. QED  BY <1>6, <1>7, <2>1
<1>9. End(p - 1) <= v
  <2>1. p - 1 \in Nat /\ p - 1 \notin beyond
    BY <1>7, <1>8
  <2>. QED  BY <1>1, <1>3, <2>1
<1>10. ASSUME NEW q \in 1 .. parts, End(q - 1) <= v, v < End(q)
       PROVE  q = p
  <2>1. p <= q
    BY <1>7, <1>10
  <2>2. CASE p < q
    <3>1. End(p) <= End(q - 1) /\ End(p) \in Nat /\ End(q - 1) \in Nat
      BY <1>3, <1>4, <1>8, <2>2
    <3>. QED  BY <1>1, <1>8, <1>10, <3>1
  <2>. QED  BY <1>8, <2>1, <2>2
<1>. QED  BY <1>2, <1>8, <1>9, <1>10

LEMMA NodeOfVertex ==
  ASSUME PartitionsInv, NEW parts \in Nat \ {0}, Planned(parts), NEW v, NEW p \in 1 .. parts,
         {q \in 1 .. parts : Within(v, planned.parts[q])} = {p}
  PROVE  NumaNodeForVertex(v) = planned.parts[p].node
<1>1. DOMAIN planned.parts = 1 .. parts
  BY DEF Planned
<1>2. Min({p}) = p
  <2>1. \E x \in {p} : \A y \in {p} : x =< y
    OBVIOUS
  <2>. QED  BY <2>1, Zenon DEF Min
<1>3. {q \in DOMAIN planned.parts : Within(v, planned.parts[q])} = {p}
  BY <1>1
<1>. QED  BY <1>2, <1>3, Zenon DEF NumaNodeForVertex

LEMMA RangesHold ==
  ASSUME PartitionsInv
  PROVE  RangesDivide
<1>. SUFFICES ASSUME planned.parts # <<>>
              PROVE  RangesDivide
  BY DEF RangesDivide
<1>1. PICK parts \in Nat \ {0} : Planned(parts)
  BY DEF PartitionsInv
<1>2. DOMAIN planned.parts = 1 .. parts
  BY <1>1 DEF Planned
<1>3. ASSUME NEW v \in 0 .. planned.n - 1
      PROVE  \E p \in DOMAIN planned.parts :
               /\ {q \in DOMAIN planned.parts : Within(v, planned.parts[q])} = {p}
               /\ NumaNodeForVertex(v) = Placement(machine.topology, planned.mode, p - 1)
  <2>1. PICK p \in 1 .. parts : {q \in 1 .. parts : Within(v, planned.parts[q])} = {p}
    BY <1>1, OneRange
  <2>2. NumaNodeForVertex(v) = planned.parts[p].node
    BY <1>1, <2>1, NodeOfVertex
  <2>3. planned.parts[p].node = Placement(machine.topology, planned.mode, p - 1)
    BY <1>1 DEF Planned
  <2>. QED  BY <1>2, <2>1, <2>2, <2>3
<1>4. ASSUME NEW p \in 1 .. parts, NEW q \in 1 .. parts
      PROVE  planned.parts[p].range.end - planned.parts[p].range.begin
               <= (planned.parts[q].range.end - planned.parts[q].range.begin) + 1
  <2>1. planned.n \in Nat
    BY DEF PartitionsInv
  <2>2. \A k \in 1 .. parts : /\ planned.parts[k].range.end = RangeEnd(planned.n, parts, k)
                              /\ planned.parts[k].range.begin = RangeEnd(planned.n, parts, k - 1)
    BY <1>1 DEF Planned
  <2>3. \A k \in 1 .. parts :
          planned.parts[k].range.end - planned.parts[k].range.begin
            \in {planned.n \div parts, (planned.n \div parts) + 1}
    BY <2>1, <2>2, RangeSize
  <2>4. planned.n \div parts \in Nat
    BY <2>1, DivMod
  <2>. QED  BY <2>3, <2>4
<1>. QED  BY <1>2, <1>3, <1>4 DEF RangesDivide

LEMMA NodesKnown ==
  ASSUME PartitionsInv
  PROVE  /\ IsFiniteSet(NodeIds) /\ NodeIds \subseteq Nat
         /\ \A p \in DOMAIN planned.parts : planned.parts[p].node \in NodeIds \cup {NoNode}
<1>1. CASE planned.parts = <<>>
  <2>1. NodeIds = {} /\ DOMAIN planned.parts = {}
    BY <1>1 DEF NodeIds
  <2>. QED  BY <2>1, FS_EmptySet
<1>2. CASE \E parts \in Nat \ {0} : Planned(parts)
  <2>1. PICK parts \in Nat \ {0} : Planned(parts)
    BY <1>2
  <2>2. DOMAIN planned.parts = 1 .. parts
    BY <2>1 DEF Planned
  <2>3. ASSUME NEW p \in 1 .. parts
        PROVE  planned.parts[p].node \in Nat \cup {NoNode}
    <3>1. planned.parts[p].node = Placement(machine.topology, planned.mode, p - 1)
      BY <2>1 DEF Planned
    <3>2. CASE planned.mode = "off" \/ machine.topology = <<>>
      BY <3>1, <3>2 DEF Placement
    <3>3. CASE ~(planned.mode = "off" \/ machine.topology = <<>>)
      <4>1. machine.topology \in Seq(Nat) /\ Len(machine.topology) \in Nat \ {0}
        BY <3>3 DEF PartitionsInv
      <4>2. (p - 1) % Len(machine.topology) \in 0 .. Len(machine.topology) - 1
        <5>1. PICK l \in Nat \ {0}, k \in Nat : l = Len(machine.topology) /\ k = p - 1
          BY <4>1
        <5>2. k % l \in 0 .. l - 1
          BY DivMod
        <5>. QED  BY <5>1, <5>2, Zenon
      <4>3. machine.topology[((p - 1) % Len(machine.topology)) + 1] \in Nat
        <5>1. PICK l \in Nat \ {0}, j \in Nat :
                /\ l = Len(machine.topology) /\ j = (p - 1) % Len(machine.topology)
                /\ j \in 0 .. l - 1
          <6>1. \A l \in Nat : \A j \in 0 .. l - 1 : j \in Nat
            OBVIOUS
          <6>2. Len(machine.topology) \in Nat
            BY <4>1
          <6>. QED  BY <4>1, <4>2, <6>1, <6>2, Zenon
        <5>2. j + 1 \in 1 .. Len(machine.topology)
          <6>1. \A a \in Nat, b \in Nat \ {0} : a \in 0 .. b - 1 => a + 1 \in 1 .. b
            OBVIOUS
          <6>. QED  BY <5>1, <6>1, Zenon
        <5>3. machine.topology[j + 1] \in Nat
          BY <4>1, <5>2
        <5>. QED  BY <5>1, <5>3, Zenon
      <4>. QED  BY <3>1, <3>3, <4>3, Zenon DEF Placement
    <3>. QED  BY <3>2, <3>3
  <2>4. IsFiniteSet({planned.parts[p].node : p \in DOMAIN planned.parts})
    <3>1. IsFiniteSet(DOMAIN planned.parts)
      <4>1. IsFiniteSet(1 .. parts)
        BY FS_Interval
      <4>. QED  BY <2>2, <4>1, Zenon
    <3>2. [p \in DOMAIN planned.parts |-> planned.parts[p].node]
            \in Surjection(DOMAIN planned.parts, {planned.parts[p].node : p \in DOMAIN planned.parts})
      BY DEF Surjection
    <3>. QED  BY <3>1, <3>2, FS_Surjection
  <2>5. IsFiniteSet(NodeIds)
    BY <2>4, FS_Subset DEF NodeIds
  <2>. QED  BY <2>2, <2>3, <2>5 DEF NodeIds
<1>. QED  BY <1>1, <1>2 DEF PartitionsInv

(* Queues exist, whatever the node and however many tasks came before. *)
LEMMA QueueInPool ==
  ASSUME PartitionsInv, NEW node \in Nat, NEW sequence \in Nat
  PROVE  /\ QueueForNode(node, sequence) \in 0 .. machine.workers - 1
         /\ sequence % machine.workers \in 0 .. machine.workers - 1
<1>. DEFINE w == machine.workers
            count == Cardinality(NodeIds)
            local == (w + count - 1) \div count
<1>1. w \in Nat \ {0} /\ count \in Nat
  BY NodesKnown, FS_CardinalityType DEF PartitionsInv
<1>2. sequence % w \in 0 .. w - 1
  BY <1>1, DivMod
<1>3. CASE count = 0
  BY <1>2, <1>3 DEF QueueForNode
<1>4. CASE count # 0
  <2>1. Rank(node) \in Nat
    <3>1. CASE node \in NodeIds
      <4>1. Cardinality({m \in NodeIds : m < node}) \in Nat
        BY NodesKnown, FS_Subset, FS_CardinalityType
      <4>. QED  BY <3>1, <4>1 DEF Rank
    <3>2. CASE node \notin NodeIds
      <4>1. node % count \in Nat
        BY <1>1, <1>4, DivMod
      <4>. QED  BY <3>2, <4>1 DEF Rank
    <3>. QED  BY <3>1, <3>2
  <2>. HIDE DEF w, count
  <2>2. local \in Nat \ {0}
    <3>1. w + count - 1 \in Nat /\ w + count - 1 >= count
      BY <1>1, <1>4
    <3>2. PICK r \in 0 .. count - 1 : w + count - 1 = count * local + r /\ local \in Nat
      BY <1>1, <1>4, <3>1, DivMod
    <3>. HIDE DEF local
    <3>3. local # 0
      BY <1>1, <1>4, <3>1, <3>2
    <3>. QED  BY <3>2, <3>3
  <2>. HIDE DEF local
  <2>3. sequence % local \in Nat
    BY <2>2, DivMod
  <2>4. (sequence % local) * count \in Nat
    BY <1>1, <2>3
  <2>5. Rank(node) + (sequence % local) * count \in Nat
    BY <2>1, <2>4
  <2>6. (Rank(node) + (sequence % local) * count) % w \in 0 .. w - 1
    BY <1>1, <2>5, DivMod
  <2>. QED  BY <1>2, <1>4, <2>6 DEF QueueForNode, w, count, local
<1>. QED  BY <1>3, <1>4

(* As many values as positions in an ascending sequence. *)
LEMMA AscendingCount ==
  ASSUME NEW s \in Seq(Nat), \A i, j \in 1 .. Len(s) : i < j => s[i] < s[j],
         NEW k \in 0 .. Len(s)
  PROVE  Cardinality({s[j] : j \in 1 .. k}) = k
<1>. DEFINE f == [j \in 1 .. k |-> s[j]]
            S == {s[j] : j \in 1 .. k}
<1>1. \A i, j \in 1 .. k : s[i] = s[j] => i = j
  <2>1. SUFFICES ASSUME NEW i \in 1 .. k, NEW j \in 1 .. k, s[i] = s[j], i # j
                 PROVE  FALSE
    OBVIOUS
  <2>2. s[i] \in Nat /\ s[j] \in Nat /\ i \in 1 .. Len(s) /\ j \in 1 .. Len(s)
    OBVIOUS
  <2>3. i < j \/ j < i
    BY <2>1
  <2>. QED  BY <2>1, <2>2, <2>3
<1>2. f \in [1 .. k -> S] /\ \A i \in 1 .. k : f[i] = s[i]
  OBVIOUS
<1>3. \A t \in S : \E i \in 1 .. k : f[i] = t
  BY <1>2
<1>4. IsInjective(f)
  BY <1>1, <1>2 DEF IsInjective
<1>. HIDE DEF f, S
<1>5. f \in Bijection(1 .. k, S)
  BY <1>2, <1>3, <1>4 DEF Bijection, Injection, Surjection
<1>6. ExistsBijection(1 .. k, S)
  BY <1>5 DEF ExistsBijection
<1>7. Cardinality(S) = k
  BY <1>6, FS_CountingElements
<1>. QED  BY <1>7 DEF S

LEMMA AscendingRank ==
  ASSUME NEW s \in Seq(Nat), \A i, j \in 1 .. Len(s) : i < j => s[i] < s[j],
         NEW i \in 1 .. Len(s), NEW S, S = {s[j] : j \in 1 .. Len(s)}
  PROVE  Cardinality({m \in S : m < s[i]}) = i - 1
<1>1. \A j \in 1 .. Len(s) : s[j] < s[i] <=> j \in 1 .. i - 1
  <2>1. SUFFICES ASSUME NEW j \in 1 .. Len(s)
                 PROVE  s[j] < s[i] <=> j \in 1 .. i - 1
    OBVIOUS
  <2>2. s[j] \in Nat /\ s[i] \in Nat
    OBVIOUS
  <2>3. j < i \/ j = i \/ i < j
    OBVIOUS
  <2>. QED  BY <2>2, <2>3
<1>2. {m \in S : m < s[i]} = {s[j] : j \in 1 .. i - 1}
  <2>1. \A m : m \in S /\ m < s[i] <=> \E j \in 1 .. i - 1 : m = s[j]
    BY <1>1
  <2>. QED  BY <2>1
<1>3. Cardinality({s[j] : j \in 1 .. i - 1}) = i - 1
  <2>1. i - 1 \in 0 .. Len(s)
    OBVIOUS
  <2>. QED  BY <2>1, AscendingCount
<1>. QED  BY <1>2, <1>3, Zenon

LEMMA Multiple ==
  ASSUME NEW l \in Nat \ {0}, NEW w \in Nat \ {0}, w % l = 0
  PROVE  w \div l \in Nat \ {0} /\ w = l * (w \div l)
<1>1. w \div l \in Nat /\ w = l * (w \div l) + (w % l)
  BY DivMod
<1>2. PICK share \in Nat : share = w \div l
  BY <1>1
<1>3. w = l * share
  BY <1>1, <1>2
<1>4. share # 0
  BY <1>3
<1>. QED  BY <1>2, <1>3, <1>4

(* How many workers a node has, and which is the next one's queue. *)
LEMMA Share ==
  ASSUME NEW l \in Nat \ {0}, NEW share \in Nat \ {0}
  PROVE  (l * share + l - 1) \div l = share
<1>1. l * share + l - 1 = l * share + (l - 1) /\ l - 1 \in 0 .. l - 1
  OBVIOUS
<1>. QED  BY <1>1, DivUnique

LEMMA Stride ==
  ASSUME NEW l \in Nat \ {0}, NEW share \in Nat \ {0},
         NEW r \in 0 .. l - 1, NEW turn \in 0 .. share - 1
  PROVE  ((r + turn * l) % (l * share)) % l = r
<1>1. r + turn * l \in 0 .. l * share - 1
  <2>1. turn * l <= (share - 1) * l
    OBVIOUS
  <2>2. (share - 1) * l = l * share - l
    OBVIOUS
  <2>3. turn * l \in Nat /\ l * share \in Nat
    OBVIOUS
  <2>. QED  BY <2>1, <2>2, <2>3
<1>2. PICK x \in Nat, w \in Nat \ {0} : x = r + turn * l /\ w = l * share
  BY <1>1
<1>3. x % w = x
  <2>1. x \in 0 .. w - 1
    BY <1>1, <1>2
  <2>2. (w * 0 + x) % w = x
    BY <2>1, ModUnique
  <2>. QED  BY <2>2
<1>4. x % l = r
  <2>1. x = l * turn + r /\ turn \in Nat
    BY <1>2
  <2>2. (l * turn + r) % l = r
    BY <2>1, ModUnique
  <2>. QED  BY <2>1, <2>2
<1>. QED  BY <1>2, <1>3, <1>4, Zenon

(* The queue's worker is on the node, whatever came before. *)
LEMMA QueueOnNode ==
  ASSUME PartitionsInv, EvenMachine, NEW i \in 1 .. Len(machine.topology), NEW sequence \in Nat
  PROVE  Placement(machine.topology, planned.mode, QueueForNode(machine.topology[i], sequence))
           = machine.topology[i]
<1>1. /\ machine.topology \in Seq(Nat) /\ Len(machine.topology) \in Nat \ {0}
      /\ machine.workers \in Nat \ {0} /\ machine.workers % Len(machine.topology) = 0
      /\ i - 1 \in 0 .. Len(machine.topology) - 1
  BY DEF PartitionsInv, EvenMachine
<1>2. \A j, k \in 1 .. Len(machine.topology) : j < k => machine.topology[j] < machine.topology[k]
  BY <1>1 DEF EvenMachine
<1>3. NodeIds = {machine.topology[j] : j \in 1 .. Len(machine.topology)}
  BY <1>1 DEF EvenMachine, ToSet
<1>4. Cardinality(NodeIds) = Len(machine.topology)
  <2>1. Len(machine.topology) \in 0 .. Len(machine.topology)
    BY <1>1
  <2>2. Cardinality({machine.topology[j] : j \in 1 .. Len(machine.topology)}) = Len(machine.topology)
    BY <1>1, <1>2, <2>1, AscendingCount
  <2>. QED  BY <1>3, <2>2, Zenon
<1>5. Rank(machine.topology[i]) = i - 1
  <2>1. Cardinality({m \in NodeIds : m < machine.topology[i]}) = i - 1
    BY <1>1, <1>2, <1>3, AscendingRank
  <2>2. machine.topology[i] \in NodeIds
    BY <1>1, <1>3
  <2>. QED  BY <2>1, <2>2, Zenon DEF Rank
<1>6. PICK queue : queue = QueueForNode(machine.topology[i], sequence)
  OBVIOUS
<1>7. queue % Len(machine.topology) = i - 1
  <2>1. PICK l \in Nat \ {0}, w \in Nat \ {0}, r \in Nat :
          /\ l = Len(machine.topology) /\ w = machine.workers /\ w % l = 0
          /\ r = i - 1 /\ r \in 0 .. l - 1
    BY <1>1
  <2>2. queue = (r + (sequence % ((w + l - 1) \div l)) * l) % w
    BY <1>1, <1>4, <1>5, <1>6, <2>1 DEF QueueForNode
  <2>3. PICK share \in Nat \ {0} : w = l * share
    <3>1. w \div l \in Nat \ {0} /\ w = l * (w \div l)
      BY <2>1, Multiple
    <3>. QED  BY <3>1, Zenon
  <2>4. (w + l - 1) \div l = share
    BY <2>3, Share
  <2>5. PICK turn \in 0 .. share - 1 : turn = sequence % share
    <3>1. sequence % share \in 0 .. share - 1
      BY DivMod
    <3>. QED  BY <3>1, Zenon
  <2>6. queue = (r + turn * l) % (l * share)
    BY <2>2, <2>3, <2>4, <2>5, Zenon
  <2>7. queue % l = r
    <3>1. r \in 0 .. l - 1
      BY <2>1
    <3>2. ((r + turn * l) % (l * share)) % l = r
      BY <3>1, Stride, Zenon
    <3>. QED  BY <2>6, <3>2, Zenon
  <2>. QED  BY <2>1, <2>7
<1>8. planned.mode # "off" /\ machine.topology # <<>>
  BY DEF EvenMachine
<1>9. Placement(machine.topology, planned.mode, queue) = machine.topology[(i - 1) + 1]
  BY <1>7, <1>8 DEF Placement
<1>10. (i - 1) + 1 = i
  BY <1>1
<1>. QED  BY <1>6, <1>9, <1>10

LEMMA QueuesHold ==
  ASSUME PartitionsInv
  PROVE  QueuesLocal
<1>. DEFINE w == machine.workers
            good(queue, node) ==
              /\ queue \in 0 .. w - 1
              /\ EvenMachine => Placement(machine.topology, planned.mode, queue) = node
<1>1. w \in Nat \ {0}
  BY DEF PartitionsInv
<1>2. ASSUME NEW p \in DOMAIN planned.parts, NEW sequence \in Nat
      PROVE  good(IF planned.parts[p].node = NoNode THEN sequence % w
                  ELSE QueueForNode(planned.parts[p].node, sequence), planned.parts[p].node)
  <2>1. PICK parts \in Nat \ {0} : Planned(parts) /\ p \in 1 .. parts
    <3>1. planned.parts # <<>>
      OBVIOUS
    <3>2. PICK parts \in Nat \ {0} : Planned(parts)
      BY <3>1 DEF PartitionsInv
    <3>. QED  BY <3>2 DEF Planned
  <2>2. planned.parts[p].node = Placement(machine.topology, planned.mode, p - 1)
    BY <2>1 DEF Planned
  <2>3. planned.parts[p].node \in Nat \cup {NoNode}
    BY NodesKnown
  <2>4. ASSUME EvenMachine
        PROVE  \E i \in 1 .. Len(machine.topology) : planned.parts[p].node = machine.topology[i]
    <3>1. planned.mode # "off" /\ machine.topology # <<>> /\ machine.topology \in Seq(Nat)
      BY <2>4 DEF EvenMachine, PartitionsInv
    <3>2. Len(machine.topology) \in Nat \ {0} /\ p - 1 \in Nat
      BY <2>1, <3>1
    <3>3. (p - 1) % Len(machine.topology) \in 0 .. Len(machine.topology) - 1
      BY <3>2, DivMod
    <3>4. planned.parts[p].node = machine.topology[((p - 1) % Len(machine.topology)) + 1]
      BY <2>2, <3>1 DEF Placement
    <3>. QED  BY <3>2, <3>3, <3>4
  <2>5. NoNode \notin Nat
    BY DEF NoNode
  <2>6. CASE planned.parts[p].node = NoNode
    <3>1. ~EvenMachine
      <4>1. ASSUME EvenMachine, NEW i \in 1 .. Len(machine.topology)
            PROVE  machine.topology[i] \in Nat
        BY DEF PartitionsInv
      <4>. QED  BY <2>4, <2>5, <2>6, <4>1
    <3>2. sequence % w \in 0 .. w - 1
      BY <1>1, DivMod
    <3>. QED  BY <2>6, <3>1, <3>2
  <2>7. CASE planned.parts[p].node # NoNode
    <3>1. QueueForNode(planned.parts[p].node, sequence) \in 0 .. w - 1
      BY <2>3, <2>7, QueueInPool
    <3>2. EvenMachine => Placement(machine.topology, planned.mode,
                                   QueueForNode(planned.parts[p].node, sequence)) = planned.parts[p].node
      BY <2>4, QueueOnNode
    <3>. QED  BY <2>7, <3>1, <3>2
  <2>. QED  BY <2>6, <2>7
<1>3. ASSUME NEW v \in 0 .. planned.n - 1, NEW sequence \in Nat
      PROVE  good(QueueForVertex(v, sequence), NumaNodeForVertex(v))
  <2>1. planned.n \in Nat /\ planned.n # 0
    BY DEF PartitionsInv
  <2>2. PICK parts \in Nat \ {0} : Planned(parts)
    BY <2>1 DEF PartitionsInv
  <2>3. PICK p \in 1 .. parts : {q \in 1 .. parts : Within(v, planned.parts[q])} = {p}
    BY <2>2, OneRange
  <2>4. NumaNodeForVertex(v) = planned.parts[p].node
    BY <2>2, <2>3, NodeOfVertex
  <2>5. p \in DOMAIN planned.parts
    BY <2>2 DEF Planned
  <2>6. QueueForVertex(v, sequence) = IF planned.parts[p].node = NoNode THEN sequence % w
                                      ELSE QueueForNode(planned.parts[p].node, sequence)
    BY <2>4 DEF QueueForVertex
  <2>. HIDE DEF good
  <2>. QED  BY <1>2, <2>4, <2>5, <2>6
<1>4. ASSUME NEW p \in DOMAIN planned.parts
      PROVE  good(PartitionQueue(p), planned.parts[p].node)
  <2>1. p - 1 \in Nat
    <3>1. planned.parts # <<>>
      OBVIOUS
    <3>2. PICK parts \in Nat \ {0} : Planned(parts)
      BY <3>1 DEF PartitionsInv
    <3>. QED  BY <3>2 DEF Planned
  <2>2. PartitionQueue(p) = IF planned.parts[p].node = NoNode THEN (p - 1) % w
                            ELSE QueueForNode(planned.parts[p].node, p - 1)
    BY DEF PartitionQueue
  <2>. HIDE DEF good
  <2>. QED  BY <1>2, <2>1, <2>2
<1>5. \A sequence \in 0 .. 2 * w : sequence \in Nat
  BY <1>1
<1>. QED  BY <1>3, <1>4, <1>5 DEF QueuesLocal

(* For every number of vertices, partitions, nodes and workers: the ranges *)
(* divide the vertices almost evenly, a vertex's node is its range's, each *)
(* queue is one of the pool, and on an even machine the queue's worker     *)
(* runs on the node of the task's data.                                    *)
THEOREM PlacementHolds == Spec => []PlacementSound
<1>1. Spec => []PartitionsInv
  BY PartitionsStart, PartitionsKept, PTL DEF Spec
<1>2. PartitionsInv => PlacementSound
  BY RangesHold, QueuesHold DEF PlacementSound
<1>. QED  BY <1>1, <1>2, PTL

-----------------------------------------------------------------------------
(* The partition cache.                                                    *)

Distinct(s) == \A i, j \in 1 .. Len(s) : s[i] = s[j] => i = j

(* An entry is removed at its one place. *)
LEMMA WithoutAt ==
  ASSUME NEW S, NEW s \in Seq(S), Distinct(s), NEW i \in 1 .. Len(s)
  PROVE  /\ Without(s, s[i]) \in Seq(S)
         /\ Len(Without(s, s[i])) = Len(s) - 1
         /\ \A j \in 1 .. Len(s) - 1 : Without(s, s[i])[j] = IF j < i THEN s[j] ELSE s[j + 1]
<1>. DEFINE here == {k \in 1 .. Len(s) : s[k] = s[i]}
<1>1. here = {i}
  BY DEF Distinct
<1>2. Min(here) = i
  <2>1. \E x \in {i} : \A y \in {i} : x =< y
    OBVIOUS
  <2>. QED  BY <1>1, <2>1, Zenon DEF Min
<1>3. SelectInSeq(s, LAMBDA v : v = s[i]) = i
  BY <1>1, <1>2 DEF SelectInSeq
<1>4. Without(s, s[i]) = RemoveAt(s, i)
  BY <1>3 DEF Without, RemoveFirst
<1>5. /\ SubSeq(s, 1, i - 1) \in Seq(S) /\ SubSeq(s, i + 1, Len(s)) \in Seq(S)
      /\ Len(SubSeq(s, 1, i - 1)) = i - 1 /\ Len(SubSeq(s, i + 1, Len(s))) = Len(s) - i
      /\ \A j \in 1 .. i - 1 : SubSeq(s, 1, i - 1)[j] = s[j]
      /\ \A j \in 1 .. Len(s) - i : SubSeq(s, i + 1, Len(s))[j] = s[i + j]
  OBVIOUS
<1>6. PICK left \in Seq(S), right \in Seq(S) :
        /\ left = SubSeq(s, 1, i - 1) /\ right = SubSeq(s, i + 1, Len(s))
        /\ Len(left) = i - 1 /\ Len(right) = Len(s) - i
        /\ \A j \in 1 .. i - 1 : left[j] = s[j]
        /\ \A j \in 1 .. Len(s) - i : right[j] = s[i + j]
  BY <1>5
<1>7. Without(s, s[i]) = left \o right
  BY <1>4, <1>6 DEF RemoveAt
<1>8. /\ left \o right \in Seq(S) /\ Len(left \o right) = Len(left) + Len(right)
      /\ \A j \in 1 .. Len(left) + Len(right) :
           (left \o right)[j] = IF j <= Len(left) THEN left[j] ELSE right[j - Len(left)]
  BY ConcatProperties, Zenon
<1>. DEFINE both == left \o right
<1>. HIDE DEF both
<1>9. /\ both \in Seq(S) /\ Len(both) = Len(s) - 1
      /\ \A j \in 1 .. Len(s) - 1 : both[j] = IF j <= i - 1 THEN left[j] ELSE right[j - (i - 1)]
  <2>1. Len(left) + Len(right) = Len(s) - 1
    <3>1. PICK a \in Nat, b \in Nat : a = Len(left) /\ b = Len(right)
      OBVIOUS
    <3>2. a = i - 1 /\ b = Len(s) - i
      BY <1>6, <3>1
    <3>. QED  BY <3>1, <3>2
  <2>. QED  BY <1>6, <1>8, <2>1 DEF both
<1>10. ASSUME NEW j \in 1 .. Len(s) - 1
       PROVE  both[j] = IF j < i THEN s[j] ELSE s[j + 1]
  <2>1. CASE j < i
    <3>1. j <= i - 1 /\ j \in 1 .. i - 1
      BY <2>1
    <3>. QED  BY <1>6, <1>9, <2>1, <3>1
  <2>2. CASE ~(j < i)
    <3>1. ~(j <= i - 1) /\ j - (i - 1) \in 1 .. Len(s) - i /\ i + (j - (i - 1)) = j + 1
      BY <2>2
    <3>2. both[j] = right[j - (i - 1)] /\ right[j - (i - 1)] = s[i + (j - (i - 1))]
      BY <1>6, <1>9, <3>1
    <3>. QED  BY <2>2, <3>1, <3>2
  <2>. QED  BY <2>1, <2>2
<1>. QED  BY <1>7, <1>9, <1>10 DEF both

Leads(s, t) == Len(s) <= Len(t) /\ \A i \in 1 .. Len(s) : s[i] = t[i]

LEMMA Elements ==
  ASSUME NEW S, NEW s \in Seq(S)
  PROVE  /\ DOMAIN s = 1 .. Len(s) /\ Len(s) \in Nat
         /\ ToSet(s) = {s[i] : i \in 1 .. Len(s)}
         /\ \A x : x \in ToSet(s) <=> \E i \in 1 .. Len(s) : s[i] = x
BY DEF ToSet

LEMMA WithoutAbsent ==
  ASSUME NEW S, NEW s \in Seq(S), NEW p, p \notin ToSet(s)
  PROVE  Without(s, p) = s
<1>1. ~ \E i \in 1 .. Len(s) : s[i] = p
  BY Elements
<1>. QED  BY <1>1 DEF Without, RemoveFirst

LEMMA WithoutElements ==
  ASSUME NEW S, NEW s \in Seq(S), Distinct(s), NEW p
  PROVE  /\ Without(s, p) \in Seq(S) /\ Distinct(Without(s, p))
         /\ ToSet(Without(s, p)) = ToSet(s) \ {p}
<1>1. CASE p \notin ToSet(s)
  BY <1>1, WithoutAbsent, Zenon
<1>2. CASE p \in ToSet(s)
  <2>1. PICK i \in 1 .. Len(s) : s[i] = p
    BY <1>2, Elements
  <2>2. PICK w : w = Without(s, p)
    OBVIOUS
  <2>3. /\ w \in Seq(S) /\ Len(w) = Len(s) - 1
        /\ \A j \in 1 .. Len(s) - 1 : w[j] = IF j < i THEN s[j] ELSE s[j + 1]
    BY <2>1, <2>2, WithoutAt
  <2>4. Distinct(w)
    <3>1. SUFFICES ASSUME NEW j \in 1 .. Len(s) - 1, NEW k \in 1 .. Len(s) - 1, w[j] = w[k]
                   PROVE  j = k
      BY <2>3 DEF Distinct
    <3>2. PICK a \in 1 .. Len(s), b \in 1 .. Len(s) :
            /\ a = (IF j < i THEN j ELSE j + 1) /\ b = (IF k < i THEN k ELSE k + 1)
      OBVIOUS
    <3>3. s[a] = w[j] /\ s[b] = w[k]
      BY <2>3, <3>2
    <3>4. a = b
      BY <3>1, <3>3 DEF Distinct
    <3>. QED  BY <3>2, <3>4
  <2>5. ASSUME NEW x PROVE x \in ToSet(w) <=> x \in ToSet(s) \ {p}
    <3>1. ASSUME NEW j \in 1 .. Len(s) - 1 PROVE w[j] \in ToSet(s) /\ w[j] # p
      <4>1. PICK a \in 1 .. Len(s) : a = (IF j < i THEN j ELSE j + 1) /\ w[j] = s[a] /\ a # i
        BY <2>3
      <4>. QED  BY <2>1, <4>1, Elements DEF Distinct
    <3>2. ASSUME NEW a \in 1 .. Len(s), s[a] # p PROVE \E j \in 1 .. Len(s) - 1 : w[j] = s[a]
      <4>1. CASE a < i
        BY <2>3, <4>1
      <4>2. CASE a > i
        <5>1. a - 1 \in 1 .. Len(s) - 1 /\ ~(a - 1 < i) /\ (a - 1) + 1 = a
          BY <4>2
        <5>2. w[a - 1] = s[(a - 1) + 1]
          BY <2>3, <5>1
        <5>. QED  BY <5>1, <5>2
      <4>. QED  BY <2>1, <3>2, <4>1, <4>2
    <3>3. x \in ToSet(w) <=> \E j \in 1 .. Len(s) - 1 : w[j] = x
      BY <2>3, Elements
    <3>4. x \in ToSet(s) <=> \E a \in 1 .. Len(s) : s[a] = x
      BY Elements
    <3>. QED  BY <3>1, <3>2, <3>3, <3>4
  <2>. QED  BY <2>2, <2>3, <2>4, <2>5
<1>. QED  BY <1>1, <1>2

(* Removing an entry from both lists keeps one ahead in the other. *)
LEMMA WithoutLeads ==
  ASSUME NEW S, NEW s \in Seq(S), NEW t \in Seq(S), Distinct(t), Leads(s, t), NEW p
  PROVE  Distinct(s) /\ Leads(Without(s, p), Without(t, p))
<1>1. Distinct(s)
  BY DEF Distinct, Leads
<1>2. CASE p \notin ToSet(t)
  <2>1. p \notin ToSet(s)
    BY <1>2, Elements DEF Leads
  <2>. QED  BY <1>1, <1>2, <2>1, WithoutAbsent, Zenon
<1>3. CASE p \in ToSet(t)
  <2>1. PICK i \in 1 .. Len(t) : t[i] = p
    BY <1>3, Elements
  <2>2. PICK u : u = Without(t, p)
    OBVIOUS
  <2>3. /\ Len(u) = Len(t) - 1
        /\ \A j \in 1 .. Len(t) - 1 : u[j] = IF j < i THEN t[j] ELSE t[j + 1]
    BY <2>1, <2>2, WithoutAt
  <2>4. CASE i <= Len(s)
    <3>1. i \in 1 .. Len(s) /\ s[i] = p
      BY <2>1, <2>4 DEF Leads
    <3>2. PICK w : w = Without(s, p)
      OBVIOUS
    <3>3. /\ Len(w) = Len(s) - 1
          /\ \A j \in 1 .. Len(s) - 1 : w[j] = IF j < i THEN s[j] ELSE s[j + 1]
      BY <1>1, <3>1, <3>2, WithoutAt
    <3>4. Leads(w, u)
      <4>1. Len(s) \in Nat /\ Len(t) \in Nat /\ Len(s) <= Len(t) /\ \A j \in 1 .. Len(s) : s[j] = t[j]
        BY DEF Leads
      <4>2. ASSUME NEW j \in 1 .. Len(s) - 1 PROVE w[j] = u[j]
        BY <2>3, <3>3, <4>1
      <4>. QED  BY <2>3, <3>3, <4>1, <4>2 DEF Leads
    <3>. QED  BY <1>1, <2>2, <3>2, <3>4
  <2>5. CASE i > Len(s)
    <3>1. p \notin ToSet(s)
      <4>1. ASSUME NEW j \in 1 .. Len(s) PROVE s[j] # p
        <5>1. t[j] = s[j] /\ j \in 1 .. Len(t) /\ j # i
          BY <2>5 DEF Leads
        <5>. QED  BY <2>1, <5>1 DEF Distinct
      <4>. QED  BY <4>1, Elements
    <3>2. Without(s, p) = s
      BY <3>1, WithoutAbsent
    <3>3. Leads(s, u)
      BY <2>3, <2>5 DEF Leads
    <3>. QED  BY <1>1, <2>2, <3>2, <3>3
  <2>. QED  BY <2>4, <2>5
<1>. QED  BY <1>2, <1>3

(* Putting an entry in front of a list. *)
LEMMA InFront ==
  ASSUME NEW S, NEW s \in Seq(S), NEW p \in S
  PROVE  /\ <<p>> \o s \in Seq(S) /\ Len(<<p>> \o s) = Len(s) + 1
         /\ (<<p>> \o s)[1] = p
         /\ \A i \in 1 .. Len(s) : (<<p>> \o s)[i + 1] = s[i]
         /\ ToSet(<<p>> \o s) = {p} \cup ToSet(s)
<1>1. PICK one \in Seq(S) : one = <<p>> /\ Len(one) = 1 /\ one[1] = p
  <2>1. <<p>> \in Seq(S) /\ Len(<<p>>) = 1 /\ <<p>>[1] = p
    OBVIOUS
  <2>. QED  BY <2>1
<1>2. PICK both : both = one \o s
  OBVIOUS
<1>3. /\ both \in Seq(S) /\ Len(both) = Len(one) + Len(s)
      /\ \A i \in 1 .. Len(one) + Len(s) : both[i] = IF i <= Len(one) THEN one[i] ELSE s[i - Len(one)]
  BY <1>2, ConcatProperties, Zenon
<1>4. both \in Seq(S) /\ Len(both) = Len(s) + 1
  BY <1>1, <1>3
<1>5. both[1] = p
  BY <1>1, <1>3
<1>6. ASSUME NEW i \in 1 .. Len(s) PROVE both[i + 1] = s[i]
  <2>1. i + 1 \in 1 .. Len(one) + Len(s) /\ ~(i + 1 <= Len(one)) /\ (i + 1) - Len(one) = i
    BY <1>1
  <2>. QED  BY <1>3, <2>1
<1>7. ToSet(both) = {p} \cup ToSet(s)
  <2>1. ASSUME NEW x PROVE x \in ToSet(both) <=> x = p \/ x \in ToSet(s)
    <3>1. x \in ToSet(both) <=> \E i \in 1 .. Len(s) + 1 : both[i] = x
      BY <1>4, Elements
    <3>2. x \in ToSet(s) <=> \E i \in 1 .. Len(s) : s[i] = x
      BY Elements
    <3>3. \A i \in 1 .. Len(s) + 1 : i = 1 \/ \E j \in 1 .. Len(s) : i = j + 1
      <4>1. ASSUME NEW i \in 1 .. Len(s) + 1, i # 1 PROVE i - 1 \in 1 .. Len(s) /\ i = (i - 1) + 1
        BY <4>1
      <4>. QED  BY <4>1
    <3>4. \A j \in 1 .. Len(s) : j + 1 \in 1 .. Len(s) + 1
      OBVIOUS
    <3>5. ASSUME x \in ToSet(both) PROVE x = p \/ x \in ToSet(s)
      <4>1. PICK i \in 1 .. Len(s) + 1 : both[i] = x
        BY <3>1, <3>5
      <4>2. CASE i = 1
        BY <1>5, <4>1, <4>2
      <4>3. CASE \E j \in 1 .. Len(s) : i = j + 1
        <5>1. PICK j \in 1 .. Len(s) : i = j + 1
          BY <4>3
        <5>2. s[j] = x
          BY <1>6, <4>1, <5>1
        <5>. QED  BY <3>2, <5>2
      <4>. QED  BY <3>3, <4>2, <4>3
    <3>6. ASSUME x = p PROVE x \in ToSet(both)
      <4>1. 1 \in 1 .. Len(s) + 1
        OBVIOUS
      <4>. QED  BY <1>5, <3>1, <3>6, <4>1
    <3>7. ASSUME x \in ToSet(s) PROVE x \in ToSet(both)
      <4>1. PICK j \in 1 .. Len(s) : s[j] = x
        BY <3>2, <3>7
      <4>2. both[j + 1] = x /\ j + 1 \in 1 .. Len(s) + 1
        BY <1>6, <3>4, <4>1
      <4>. QED  BY <3>1, <4>2
    <3>. QED  BY <3>5, <3>6, <3>7
  <2>. QED  BY <2>1
<1>. QED  BY <1>1, <1>2, <1>4, <1>5, <1>6, <1>7

LEMMA InFrontLeads ==
  ASSUME NEW S, NEW s \in Seq(S), NEW t \in Seq(S), Leads(s, t), Distinct(t),
         NEW p \in S, p \notin ToSet(t)
  PROVE  Distinct(<<p>> \o t) /\ Leads(<<p>> \o s, <<p>> \o t)
<1>1. PICK u \in Seq(S), v \in Seq(S) : u = <<p>> \o s /\ v = <<p>> \o t
  BY InFront
<1>2. /\ Len(u) = Len(s) + 1 /\ u[1] = p /\ \A i \in 1 .. Len(s) : u[i + 1] = s[i]
      /\ Len(v) = Len(t) + 1 /\ v[1] = p /\ \A i \in 1 .. Len(t) : v[i + 1] = t[i]
  BY <1>1, InFront
<1>3. Len(s) \in Nat /\ Len(t) \in Nat /\ Len(s) <= Len(t) /\ \A i \in 1 .. Len(s) : s[i] = t[i]
  BY DEF Leads
<1>4. \A n \in Nat : \A i \in 1 .. n + 1 : i = 1 \/ (i - 1 \in 1 .. n /\ i = (i - 1) + 1)
  OBVIOUS
<1>5. \A i \in 1 .. Len(t) : t[i] # p
  BY Elements
<1>6. Leads(u, v)
  <2>1. ASSUME NEW i \in 1 .. Len(s) + 1 PROVE u[i] = v[i]
    <3>1. i = 1 \/ (i - 1 \in 1 .. Len(s) /\ i = (i - 1) + 1)
      BY <1>3, <1>4
    <3>2. ASSUME i - 1 \in 1 .. Len(s), i = (i - 1) + 1 PROVE u[i] = v[i]
      <4>1. i - 1 \in 1 .. Len(t)
        BY <1>3, <3>2
      <4>2. u[(i - 1) + 1] = s[i - 1] /\ v[(i - 1) + 1] = t[i - 1] /\ s[i - 1] = t[i - 1]
        BY <1>2, <1>3, <3>2, <4>1
      <4>. QED  BY <3>2, <4>2
    <3>. QED  BY <1>2, <3>1, <3>2
  <2>. QED  BY <1>2, <1>3, <2>1 DEF Leads
<1>7. Distinct(v)
  <2>1. SUFFICES ASSUME NEW i \in 1 .. Len(t) + 1, NEW j \in 1 .. Len(t) + 1, v[i] = v[j]
                 PROVE  i = j
    BY <1>2 DEF Distinct
  <2>2. ASSUME NEW k \in 1 .. Len(t) + 1, k # 1
        PROVE  k - 1 \in 1 .. Len(t) /\ v[k] = t[k - 1]
    <3>1. k - 1 \in 1 .. Len(t) /\ k = (k - 1) + 1
      BY <1>3, <2>2
    <3>2. v[(k - 1) + 1] = t[k - 1]
      BY <1>2, <3>1
    <3>. QED  BY <3>1, <3>2
  <2>3. CASE i = 1 /\ j # 1
    BY <1>2, <1>5, <2>1, <2>2, <2>3
  <2>4. CASE i # 1 /\ j = 1
    BY <1>2, <1>5, <2>1, <2>2, <2>4
  <2>5. CASE i # 1 /\ j # 1
    <3>1. i - 1 \in 1 .. Len(t) /\ j - 1 \in 1 .. Len(t) /\ t[i - 1] = t[j - 1]
      BY <2>1, <2>2, <2>5
    <3>2. i - 1 = j - 1
      BY <3>1 DEF Distinct
    <3>. QED  BY <3>2
  <2>. QED  BY <2>3, <2>4, <2>5
<1>. QED  BY <1>1, <1>6, <1>7

(* The bytes of finitely many entries are finitely many. *)
LEMMA BytesFinite ==
  ASSUME NEW f, NEW S, IsFiniteSet(S), \A p \in S : f[p] \in Nat
  PROVE  IsFiniteSet(Bytes(f, S))
<1>. DEFINE each == {{p} \X (1 .. f[p]) : p \in S}
            image == [p \in S |-> {p} \X (1 .. f[p])]
<1>1. image \in Surjection(S, each)
  BY DEF Surjection
<1>2. IsFiniteSet(each)
  <2>. HIDE DEF image, each
  <2>. QED  BY <1>1, FS_Surjection
<1>3. ASSUME NEW b \in each PROVE IsFiniteSet(b)
  <2>1. PICK p \in S : b = {p} \X (1 .. f[p])
    OBVIOUS
  <2>2. IsFiniteSet({p}) /\ IsFiniteSet(1 .. f[p])
    <3>1. IsFiniteSet({p})
      BY FS_Singleton, Zenon
    <3>2. PICK n \in Nat : n = f[p]
      OBVIOUS
    <3>3. IsFiniteSet(1 .. n)
      BY FS_Interval
    <3>. QED  BY <3>1, <3>2, <3>3
  <2>3. IsFiniteSet({p} \X (1 .. f[p]))
    BY <2>2, FS_Product
  <2>. QED  BY <2>1, <2>3
<1>4. IsFiniteSet(UNION each)
  <2>. HIDE DEF each
  <2>. QED  BY <1>2, <1>3, FS_UNION
<1>. QED  BY <1>4 DEF Bytes

LEMMA SizeType ==
  ASSUME NEW f, NEW S, IsFiniteSet(S), \A p \in S : f[p] \in Nat
  PROVE  Size(f, S) \in Nat
BY BytesFinite, FS_CardinalityType DEF Size

(* The size of two sets of entries, and of one entry. *)
LEMMA SizeSplit ==
  ASSUME NEW f, NEW S, NEW T, IsFiniteSet(S), IsFiniteSet(T), S \cap T = {},
         \A p \in S \cup T : f[p] \in Nat
  PROVE  Size(f, S \cup T) = Size(f, S) + Size(f, T)
<1>1. IsFiniteSet(Bytes(f, S)) /\ IsFiniteSet(Bytes(f, T))
  BY BytesFinite
<1>2. Bytes(f, S \cup T) = Bytes(f, S) \cup Bytes(f, T)
  BY DEF Bytes
<1>3. Bytes(f, S) \cap Bytes(f, T) = {}
  BY DEF Bytes
<1>. DEFINE A == Bytes(f, S)
            B == Bytes(f, T)
<1>4. Cardinality(A) \in Nat /\ Cardinality(B) \in Nat
  BY <1>1, FS_CardinalityType
<1>5. Cardinality(A \cup B) = Cardinality(A) + Cardinality(B) - Cardinality(A \cap B)
  BY <1>1, FS_Union, Zenon
<1>6. Cardinality(A \cap B) = 0
  BY <1>3, FS_EmptySet, Zenon
<1>7. Cardinality(A \cup B) = Cardinality(A) + Cardinality(B)
  BY <1>4, <1>5, <1>6
<1>. QED  BY <1>2, <1>7, Zenon DEF Size

LEMMA SizeOne ==
  ASSUME NEW f, NEW p, f[p] \in Nat
  PROVE  Size(f, {p}) = f[p]
<1>1. Bytes(f, {p}) = {p} \X (1 .. f[p])
  BY DEF Bytes
<1>2. /\ IsFiniteSet({p}) /\ Cardinality({p}) = 1
      /\ IsFiniteSet(1 .. f[p]) /\ Cardinality(1 .. f[p]) = f[p]
  <2>1. IsFiniteSet({p}) /\ Cardinality({p}) = 1
    BY FS_Singleton, Zenon
  <2>2. PICK n \in Nat : n = f[p]
    OBVIOUS
  <2>3. IsFiniteSet(1 .. n) /\ Cardinality(1 .. n) = n
    BY FS_Interval
  <2>. QED  BY <2>1, <2>2, <2>3, Zenon
<1>3. Cardinality({p} \X (1 .. f[p])) = Cardinality({p}) * Cardinality(1 .. f[p])
  BY <1>2, FS_Product, Zenon
<1>4. Cardinality({p} \X (1 .. f[p])) = 1 * f[p]
  BY <1>2, <1>3, Zenon
<1>5. 1 * f[p] = f[p]
  OBVIOUS
<1>. QED  BY <1>1, <1>4, <1>5, Zenon DEF Size

LEMMA SizeNone ==
  ASSUME NEW f
  PROVE  Size(f, {}) = 0
<1>1. Bytes(f, {}) = {}
  BY DEF Bytes
<1>. QED  BY <1>1, FS_EmptySet, Zenon DEF Size

LEMMA SizeSame ==
  ASSUME NEW f, NEW g, NEW S, \A p \in S : f[p] = g[p]
  PROVE  Size(f, S) = Size(g, S)
<1>1. Bytes(f, S) = Bytes(g, S)
  <2>1. ASSUME NEW x PROVE x \in Bytes(f, S) <=> x \in Bytes(g, S)
    BY DEF Bytes
  <2>. QED  BY <2>1, Zenon
<1>. QED  BY <1>1, Zenon DEF Size

(* Less an entry. *)
LEMMA SizeLess ==
  ASSUME NEW f, NEW S, IsFiniteSet(S), \A q \in S : f[q] \in Nat, NEW p \in S
  PROVE  Size(f, S \ {p}) = Size(f, S) - f[p] /\ Size(f, S) >= f[p]
<1>. DEFINE rest == S \ {p}
<1>1. IsFiniteSet(rest) /\ IsFiniteSet({p}) /\ rest \cap {p} = {} /\ rest \cup {p} = S
  <2>1. IsFiniteSet(rest)
    BY FS_RemoveElement, Zenon
  <2>2. IsFiniteSet({p})
    BY FS_Singleton, Zenon
  <2>3. rest \cap {p} = {} /\ rest \cup {p} = S
    OBVIOUS
  <2>. QED  BY <2>1, <2>2, <2>3
<1>2. Size(f, rest) \in Nat
  BY <1>1, SizeType
<1>3. Size(f, rest \cup {p}) = Size(f, rest) + Size(f, {p})
  <2>1. \A q \in rest \cup {p} : f[q] \in Nat
    OBVIOUS
  <2>. HIDE DEF rest
  <2>. QED  BY <1>1, <2>1, SizeSplit
<1>4. Size(f, {p}) = f[p]
  BY SizeOne
<1>5. Size(f, S) = Size(f, rest) + f[p]
  BY <1>1, <1>3, <1>4, Zenon
<1>. QED  BY <1>2, <1>5

LEMMA LeadsOn ==
  ASSUME NEW S, NEW s \in Seq(S), NEW t \in Seq(S), NEW u \in Seq(S), Leads(s, t), Leads(t, u)
  PROVE  Leads(s, u)
<1>1. Len(s) \in Nat /\ Len(t) \in Nat /\ Len(u) \in Nat
  OBVIOUS
<1>. QED  BY <1>1 DEF Leads

(* What eviction keeps: the front of the list, and it leaves room for n.   *)
LEMMA FittingKeeps ==
  ASSUME NEW S, IsFiniteSet(S), NEW order \in Seq(S), NEW f,
         \A p \in ToSet(order) : f[p] \in Nat,
         NEW total, total = Size(f, ToSet(order)),
         NEW n \in Nat, n <= Capacity
  PROVE  LET room == Fitting(f, order, total, n)
         IN  /\ room.order \in Seq(S) /\ room.total \in Nat
             /\ Leads(room.order, order)
             /\ room.total = Size(f, ToSet(room.order)) /\ room.total + n <= Capacity
<1>. DEFINE rest(k) == SubSeq(order, 1, Len(order) - k)
            left(k) == total - Size(f, ToSet(order) \ ToSet(rest(k)))
            fits(k) == left(k) + n <= Capacity \/ k = Len(order)
            evicted == CHOOSE k \in 0 .. Len(order) : fits(k) /\ \A j \in 0 .. k - 1 : ~fits(j)
<1>1. Len(order) \in Nat /\ Capacity \in Nat
  BY CacheConstants
<1>2. \E k \in 0 .. Len(order) : fits(k) /\ \A j \in 0 .. k - 1 : ~fits(j)
  <2>. DEFINE some == {k \in 0 .. Len(order) : fits(k)}
  <2>1. some \in SUBSET Nat /\ Len(order) \in some
    BY <1>1
  <2>2. PICK m \in some : \A x \in some : m <= x
    <3>. HIDE DEF some
    <3>. QED  BY <2>1, LeastOf
  <2>3. m \in 0 .. Len(order) /\ fits(m)
    OBVIOUS
  <2>4. ASSUME NEW j \in 0 .. m - 1 PROVE ~fits(j)
    <3>1. j \in 0 .. Len(order) /\ ~(m <= j)
      BY <1>1, <2>3
    <3>. QED  BY <2>2, <3>1
  <2>. HIDE DEF fits
  <2>. QED  BY <2>3, <2>4
<1>3. PICK e : e = evicted
  OBVIOUS
<1>4. e \in 0 .. Len(order) /\ fits(e)
  <2>. HIDE DEF fits
  <2>. QED  BY <1>2, <1>3
<1>5. PICK kept : kept = rest(e)
  OBVIOUS
<1>6. kept \in Seq(S) /\ Len(kept) = Len(order) - e /\ \A i \in 1 .. Len(order) - e : kept[i] = order[i]
  BY <1>1, <1>4, <1>5
<1>7. Leads(kept, order)
  BY <1>1, <1>4, <1>6 DEF Leads
<1>. DEFINE gone == ToSet(order) \ ToSet(kept)
<1>8. /\ ToSet(kept) \subseteq ToSet(order) /\ ToSet(order) \subseteq S
      /\ IsFiniteSet(ToSet(kept)) /\ IsFiniteSet(gone)
  <2>1. ToSet(kept) \subseteq ToSet(order)
    BY <1>6, <1>7, Elements DEF Leads
  <2>2. ToSet(order) \subseteq S
    BY Elements
  <2>3. ToSet(kept) \in SUBSET S /\ gone \in SUBSET S
    BY <2>1, <2>2
  <2>. HIDE DEF gone
  <2>. QED  BY <2>1, <2>2, <2>3, FS_Subset
<1>9. /\ Size(f, gone) \in Nat /\ Size(f, ToSet(kept)) \in Nat
      /\ total = Size(f, gone) + Size(f, ToSet(kept))
  <2>1. gone \cup ToSet(kept) = ToSet(order) /\ gone \cap ToSet(kept) = {}
    BY <1>8
  <2>2. \A p \in gone \cup ToSet(kept) : f[p] \in Nat
    BY <1>8
  <2>. HIDE DEF gone
  <2>3. Size(f, gone \cup ToSet(kept)) = Size(f, gone) + Size(f, ToSet(kept))
    BY <1>8, <2>1, <2>2, SizeSplit
  <2>4. Size(f, gone) \in Nat /\ Size(f, ToSet(kept)) \in Nat
    BY <1>8, <2>2, SizeType
  <2>5. total = Size(f, gone) + Size(f, ToSet(kept))
    BY <2>1, <2>3, Zenon
  <2>. QED  BY <2>4, <2>5
<1>10. left(e) = total - Size(f, gone)
  BY <1>5
<1>11. PICK l \in Nat : l = left(e) /\ l = Size(f, ToSet(kept))
  <2>. DEFINE a == Size(f, gone)
              b == Size(f, ToSet(kept))
  <2>. HIDE DEF a, b, left
  <2>1. left(e) = b
    BY <1>9, <1>10 DEF a, b
  <2>. QED  BY <1>9, <2>1 DEF b
<1>12. l + n <= Capacity
  <2>1. CASE left(e) + n <= Capacity
    BY <1>11, <2>1
  <2>2. CASE e = Len(order)
    <3>1. Len(kept) = 0
      BY <1>1, <1>6, <2>2
    <3>2. ToSet(kept) = {}
      <4>1. \A x : x \in ToSet(kept) <=> \E i \in 1 .. Len(kept) : kept[i] = x
        BY <1>6, Elements
      <4>. QED  BY <3>1, <4>1
    <3>3. l = 0
      BY <1>11, <3>2, SizeNone
    <3>. QED  BY <3>3
  <2>. QED  BY <1>4, <2>1, <2>2
<1>13. Fitting(f, order, total, n) = [order |-> kept, total |-> l]
  <2>1. Fitting(f, order, total, n) = [order |-> rest(evicted), total |-> left(evicted)]
    BY DEF Fitting
  <2>. HIDE DEF rest, left, evicted
  <2>. QED  BY <1>3, <1>5, <1>11, <2>1
<1>. QED  BY <1>6, <1>7, <1>11, <1>12, <1>13

(* The list of the cache is the front of the list of all uses: eviction    *)
(* shortens it at the back and nothing else parts the two.                 *)
CacheInv ==
  /\ \A p \in Cached : bytes[p] \in Nat
  /\ lru \in Seq(Partitions) /\ used \in Seq(Partitions)
  /\ Distinct(used) /\ Leads(lru, used)
  /\ Cached = ToSet(lru)
  /\ resident = Size(bytes, Cached) /\ resident <= Capacity

LEMMA CacheFinite ==
  ASSUME CacheInv
  PROVE  /\ Cached \subseteq Partitions /\ IsFiniteSet(Cached) /\ Distinct(lru)
         /\ resident \in Nat
<1>1. Cached \subseteq Partitions
  BY Elements DEF CacheInv
<1>2. IsFiniteSet(Cached)
  BY <1>1, CacheConstants, FS_Subset
<1>3. Distinct(lru)
  <2>1. Len(lru) \in Nat /\ Len(used) \in Nat
    BY DEF CacheInv
  <2>. QED  BY <2>1 DEF CacheInv, Distinct, Leads
<1>4. Size(bytes, Cached) \in Nat
  BY <1>2, SizeType DEF CacheInv
<1>. QED  BY <1>1, <1>2, <1>3, <1>4 DEF CacheInv

(* An entry that is used moves to the front of both lists. *)
LEMMA Touched ==
  ASSUME NEW S, NEW s \in Seq(S), NEW t \in Seq(S), Distinct(t), NEW p \in S,
         NEW u, u = Without(t, p), Leads(s, u)
  PROVE  /\ <<p>> \o s \in Seq(S) /\ <<p>> \o u \in Seq(S)
         /\ Distinct(<<p>> \o u) /\ Leads(<<p>> \o s, <<p>> \o u)
         /\ ToSet(<<p>> \o s) = {p} \cup ToSet(s)
<1>1. u \in Seq(S) /\ Distinct(u) /\ p \notin ToSet(u)
  BY WithoutElements
<1>2. /\ <<p>> \o s \in Seq(S) /\ <<p>> \o u \in Seq(S)
      /\ ToSet(<<p>> \o s) = {p} \cup ToSet(s)
  BY <1>1, InFront
<1>3. Distinct(<<p>> \o u) /\ Leads(<<p>> \o s, <<p>> \o u)
  BY <1>1, InFrontLeads
<1>. QED  BY <1>2, <1>3

LEMMA GetKeeps ==
  ASSUME CacheInv, NEW p, Get(p)
  PROVE  CacheInv'
<1>1. p \in Cached /\ bytes' = bytes /\ resident' = resident /\ Cached' = Cached
  BY DEF Get, Cached
<1>2. /\ lru \in Seq(Partitions) /\ used \in Seq(Partitions) /\ Distinct(used)
      /\ Leads(lru, used) /\ Distinct(lru) /\ p \in Partitions /\ Cached = ToSet(lru)
  BY <1>1, CacheFinite DEF CacheInv
<1>3. PICK s : s = Without(lru, p)
  OBVIOUS
<1>4. s \in Seq(Partitions) /\ ToSet(s) = ToSet(lru) \ {p}
  BY <1>2, <1>3, WithoutElements
<1>5. Leads(s, Without(used, p))
  BY <1>2, <1>3, WithoutLeads
<1>6. lru' = <<p>> \o s /\ used' = <<p>> \o Without(used, p)
  BY <1>3 DEF Get
<1>7. /\ lru' \in Seq(Partitions) /\ used' \in Seq(Partitions) /\ Distinct(used') /\ Leads(lru', used')
      /\ ToSet(lru') = {p} \cup ToSet(s)
  <2>1. PICK t, u : t \in Seq(Partitions) /\ t = used /\ Distinct(t) /\ u = Without(t, p) /\ Leads(s, u)
    BY <1>2, <1>5
  <2>2. s \in Seq(Partitions) /\ p \in Partitions
    BY <1>2, <1>4
  <2>3. /\ <<p>> \o s \in Seq(Partitions) /\ <<p>> \o u \in Seq(Partitions)
        /\ Distinct(<<p>> \o u) /\ Leads(<<p>> \o s, <<p>> \o u)
        /\ ToSet(<<p>> \o s) = {p} \cup ToSet(s)
    BY <2>1, <2>2, Touched
  <2>4. lru' = <<p>> \o s /\ used' = <<p>> \o u
    BY <1>6, <2>1
  <2>. QED  BY <2>3, <2>4, Zenon
<1>8. Cached' = ToSet(lru')
  BY <1>1, <1>2, <1>4, <1>7
<1>9. Size(bytes, Cached)' = Size(bytes, Cached)
  <2>1. Size(bytes', Cached') = Size(bytes, Cached)
    BY <1>1
  <2>. QED  BY <2>1
<1>10. \A q \in Cached' : bytes'[q] \in Nat
  BY <1>1 DEF CacheInv
<1>11. (resident = Size(bytes, Cached))' /\ resident' <= Capacity
  BY <1>1, <1>9 DEF CacheInv
<1>. QED  BY <1>7, <1>8, <1>10, <1>11 DEF CacheInv, Distinct, Leads

LEMMA PutKeeps ==
  ASSUME CacheInv, NEW p \in Partitions, NEW n \in Nat, Put(p, n)
  PROVE  /\ CacheInv'
         /\ p \in Cached' /\ bytes'[p] = n
         /\ \A q \in Cached' \ {p} : q \in Cached /\ bytes'[q] = bytes[q]
<1>1. /\ lru \in Seq(Partitions) /\ used \in Seq(Partitions) /\ Distinct(used)
      /\ Leads(lru, used) /\ Distinct(lru) /\ Cached = ToSet(lru)
      /\ IsFiniteSet(Cached) /\ resident \in Nat /\ resident = Size(bytes, Cached)
      /\ \A q \in Cached : bytes[q] \in Nat
  BY CacheFinite DEF CacheInv
<1>2. PICK old : old = IF p \in Cached THEN bytes[p] ELSE 0
  OBVIOUS
<1>3. PICK order : order = Without(lru, p)
  OBVIOUS
<1>4. order \in Seq(Partitions) /\ ToSet(order) = Cached \ {p}
  BY <1>1, <1>3, WithoutElements
<1>5. PICK total : total = resident - old
  OBVIOUS
<1>6. total = Size(bytes, ToSet(order))
  <2>1. CASE p \in Cached
    <3>1. Size(bytes, Cached \ {p}) = Size(bytes, Cached) - bytes[p]
      <4>. HIDE DEF Cached
      <4>. QED  BY <1>1, <2>1, SizeLess
    <3>. QED  BY <1>1, <1>2, <1>4, <1>5, <2>1, <3>1
  <2>2. CASE p \notin Cached
    <3>1. Cached \ {p} = Cached
      BY <2>2
    <3>2. total = resident
      BY <1>1, <1>2, <1>5, <2>2
    <3>. QED  BY <1>1, <1>4, <3>1, <3>2
  <2>. QED  BY <2>1, <2>2
<1>7. n <= Capacity
  BY DEF Put
<1>8. PICK kept \in Seq(Partitions), left \in Nat :
        /\ kept = Fitting(bytes, order, total, n).order
        /\ left = Fitting(bytes, order, total, n).total
        /\ Leads(kept, order)
        /\ left = Size(bytes, ToSet(kept)) /\ left + n <= Capacity
  <2>1. \A q \in ToSet(order) : bytes[q] \in Nat
    BY <1>1, <1>4
  <2>2. IsFiniteSet(Partitions) /\ order \in Seq(Partitions)
    BY <1>4, CacheConstants
  <2>3. PICK room : room = Fitting(bytes, order, total, n)
    OBVIOUS
  <2>4. /\ room.order \in Seq(Partitions) /\ room.total \in Nat
        /\ Leads(room.order, order)
        /\ room.total = Size(bytes, ToSet(room.order)) /\ room.total + n <= Capacity
    BY <1>6, <1>7, <2>1, <2>2, <2>3, FittingKeeps
  <2>. QED  BY <2>3, <2>4
<1>9. /\ lru' = <<p>> \o kept
      /\ bytes' = [q \in ToSet(lru') |-> IF q = p THEN n ELSE bytes[q]]
      /\ resident' = left + n
      /\ used' = <<p>> \o Without(used, p)
  <2>1. PICK room : room = Fitting(bytes, Without(lru, p), resident - (IF p \in Cached THEN bytes[p] ELSE 0), n)
    OBVIOUS
  <2>2. room.order = kept /\ room.total = left
    BY <1>2, <1>3, <1>5, <1>8, <2>1
  <2>3. /\ lru' = <<p>> \o room.order
        /\ bytes' = [q \in ToSet(lru') |-> IF q = p THEN n ELSE bytes[q]]
        /\ resident' = room.total + n
        /\ used' = <<p>> \o Without(used, p)
    BY <2>1, Zenon DEF Put
  <2>. QED  BY <2>2, <2>3
<1>10. PICK t \in Seq(Partitions), u \in Seq(Partitions) :
         t = used /\ Distinct(t) /\ u = Without(t, p) /\ Leads(kept, u)
  <2>1. Without(used, p) \in Seq(Partitions) /\ Leads(order, Without(used, p))
    BY <1>1, <1>3, WithoutElements, WithoutLeads
  <2>2. Leads(kept, Without(used, p))
    BY <1>4, <1>8, <2>1, LeadsOn
  <2>. QED  BY <1>1, <2>1, <2>2
<1>11. /\ lru' \in Seq(Partitions) /\ used' \in Seq(Partitions) /\ Distinct(used') /\ Leads(lru', used')
       /\ ToSet(lru') = {p} \cup ToSet(kept)
  <2>1. /\ <<p>> \o kept \in Seq(Partitions) /\ <<p>> \o u \in Seq(Partitions)
        /\ Distinct(<<p>> \o u) /\ Leads(<<p>> \o kept, <<p>> \o u)
        /\ ToSet(<<p>> \o kept) = {p} \cup ToSet(kept)
    BY <1>10, Touched
  <2>2. lru' = <<p>> \o kept /\ used' = <<p>> \o u
    BY <1>9, <1>10
  <2>. QED  BY <2>1, <2>2, Zenon
<1>12. Cached' = ToSet(lru')
  BY <1>9 DEF Cached
<1>13. ToSet(kept) \subseteq Cached \ {p}
  <2>1. Len(kept) \in Nat /\ Len(order) \in Nat
    BY <1>4
  <2>2. ASSUME NEW x \in ToSet(kept) PROVE x \in ToSet(order)
    <3>1. PICK i \in 1 .. Len(kept) : kept[i] = x
      BY Elements
    <3>2. i \in 1 .. Len(order) /\ order[i] = x
      BY <1>8, <2>1, <3>1 DEF Leads
    <3>. QED  BY <1>4, <3>2, Elements
  <2>. QED  BY <1>4, <2>2
<1>14. /\ bytes'[p] = n
       /\ \A q \in ToSet(kept) : q \in Cached /\ bytes'[q] = bytes[q] /\ bytes[q] \in Nat
  BY <1>1, <1>9, <1>11, <1>13
<1>15. Size(bytes', Cached') = resident'
  <2>1. PICK g, K : g = bytes' /\ K = ToSet(kept)
    OBVIOUS
  <2>2. /\ g[p] = n /\ \A q \in K : g[q] = bytes[q] /\ g[q] \in Nat
        /\ p \notin K /\ K \subseteq Cached
    BY <1>13, <1>14, <2>1
  <2>3. IsFiniteSet(K) /\ IsFiniteSet({p})
    <3>1. IsFiniteSet(K)
      <4>. HIDE DEF Cached
      <4>. QED  BY <1>1, <2>2, FS_Subset
    <3>2. IsFiniteSet({p})
      BY FS_Singleton, Zenon
    <3>. QED  BY <3>1, <3>2
  <2>4. Size(g, {p} \cup K) = Size(g, {p}) + Size(g, K)
    <3>1. {p} \cap K = {} /\ \A q \in {p} \cup K : g[q] \in Nat
      BY <2>2
    <3>. QED  BY <2>3, <3>1, SizeSplit
  <2>5. Size(g, {p}) = n
    BY <2>2, SizeOne
  <2>6. Size(g, K) = left
    BY <1>8, <2>1, <2>2, SizeSame
  <2>7. Size(g, {p} \cup K) = left + n
    BY <2>4, <2>5, <2>6
  <2>8. Cached' = {p} \cup K
    BY <1>11, <1>12, <2>1
  <2>. QED  BY <1>9, <2>1, <2>7, <2>8
<1>16. (resident = Size(bytes, Cached))' /\ resident' <= Capacity
  BY <1>8, <1>9, <1>15
<1>17. \A q \in Cached' : bytes'[q] \in Nat
  BY <1>11, <1>12, <1>14
<1>18. CacheInv'
  BY <1>11, <1>12, <1>16, <1>17 DEF CacheInv, Distinct, Leads
<1>. QED  BY <1>11, <1>12, <1>14, <1>18

LEMMA EraseKeeps ==
  ASSUME CacheInv, NEW p, Erase(p)
  PROVE  CacheInv'
<1>1. /\ lru \in Seq(Partitions) /\ used \in Seq(Partitions) /\ Distinct(used)
      /\ Leads(lru, used) /\ Distinct(lru) /\ Cached = ToSet(lru)
      /\ IsFiniteSet(Cached) /\ resident \in Nat /\ resident = Size(bytes, Cached)
      /\ resident <= Capacity /\ \A q \in Cached : bytes[q] \in Nat
  BY CacheFinite DEF CacheInv
<1>2. /\ p \in Cached /\ resident' = resident - bytes[p]
      /\ lru' = Without(lru, p) /\ used' = Without(used, p)
      /\ Cached' = Cached \ {p} /\ \A q \in Cached \ {p} : bytes'[q] = bytes[q]
  BY DEF Erase, Restricted, Cached
<1>3. /\ Without(lru, p) \in Seq(Partitions) /\ Without(used, p) \in Seq(Partitions)
      /\ Distinct(Without(used, p)) /\ Leads(Without(lru, p), Without(used, p))
      /\ ToSet(Without(lru, p)) = ToSet(lru) \ {p}
  BY <1>1, WithoutElements, WithoutLeads
<1>4. /\ lru' \in Seq(Partitions) /\ used' \in Seq(Partitions) /\ Distinct(used') /\ Leads(lru', used')
      /\ Cached' = ToSet(lru')
  BY <1>1, <1>2, <1>3
<1>5. Size(bytes', Cached') = resident' /\ resident' <= Capacity
  <2>1. PICK g, K : g = bytes' /\ K = Cached \ {p}
    OBVIOUS
  <2>2. Size(bytes, K) = Size(bytes, Cached) - bytes[p]
    <3>. HIDE DEF Cached
    <3>. QED  BY <1>1, <1>2, <2>1, SizeLess
  <2>3. Size(g, K) = Size(bytes, K)
    BY <1>2, <2>1, SizeSame
  <2>4. Size(g, K) = resident'
    BY <1>1, <1>2, <2>2, <2>3
  <2>5. resident' <= Capacity
    BY <1>1, <1>2, CacheConstants
  <2>. QED  BY <1>2, <2>1, <2>4, <2>5
<1>6. \A q \in Cached' : bytes'[q] \in Nat
  BY <1>1, <1>2
<1>7. (resident = Size(bytes, Cached))'
  BY <1>5
<1>. QED  BY <1>4, <1>5, <1>6, <1>7 DEF CacheInv, Distinct, Leads

LEMMA EmptyCache ==
  ASSUME bytes = <<>>, lru = <<>>, resident = 0, used = <<>>
  PROVE  CacheInv
<1>1. Cached = {}
  BY DEF Cached
<1>2. <<>> \in Seq(Partitions) /\ Len(<<>>) = 0
  OBVIOUS
<1>3. ToSet(lru) = {}
  <2>1. \A x : x \in ToSet(lru) <=> \E i \in 1 .. Len(lru) : lru[i] = x
    BY <1>2, Elements
  <2>. QED  BY <1>2, <2>1
<1>4. Size(bytes, Cached) = 0
  BY <1>1, SizeNone
<1>5. Distinct(used) /\ Leads(lru, used)
  BY <1>2 DEF Distinct, Leads
<1>. QED  BY <1>1, <1>2, <1>3, <1>4, <1>5, CacheConstants DEF CacheInv

LEMMA CacheStarts == Init => CacheInv
BY EmptyCache DEF Init, InitCache

(* The sizes a file can have, and what a call of the loader puts. *)
FilesOK ==
  \A path \in DOMAIN file :
    /\ file[path].id \in Ids /\ file[path].size \in Nat
    /\ file[path].length \in 0 .. HeaderParts + file[path].size

LEMMA FilesStart == Init => FilesOK
BY DEF Init, InitLoader, FilesOK

LEMMA OnlyLoader ==
  [Next]_vars =>
    \/ part = "cache" /\ NextCache /\ UNCHANGED <<part, file, held>>
    \/ part = "loader" /\ NextLoader /\ UNCHANGED part
    \/ UNCHANGED <<part, loader>>
BY DEF Next, Storage, Computation, vars, loader

LEMMA FilesKept == FilesOK /\ [Next]_vars => FilesOK'
<1>. SUFFICES ASSUME FilesOK, [Next]_vars
              PROVE  FilesOK'
  OBVIOUS
<1>1. CASE UNCHANGED file
  BY <1>1 DEF FilesOK
<1>2. ASSUME NEW path, NEW id \in Ids, NEW n \in Sizes, Truncate(path, id, n)
      PROVE  FilesOK'
  <2>1. n \in Nat
    BY CacheConstants
  <2>. QED  BY <1>2, <2>1 DEF Truncate, FilesOK, HeaderParts
<1>3. ASSUME NEW path \in DOMAIN file, Extend(path)
      PROVE  FilesOK'
  <2>1. PICK n \in file[path].length + 1 .. HeaderParts + file[path].size :
          file' = [file EXCEPT ![path].length = n]
    BY <1>3 DEF Extend
  <2>2. ASSUME NEW q \in DOMAIN file'
        PROVE  /\ file'[q].id \in Ids /\ file'[q].size \in Nat
               /\ file'[q].length \in 0 .. HeaderParts + file'[q].size
    <3>1. q \in DOMAIN file
      BY <2>1
    <3>2. CASE q # path
      BY <2>1, <3>1, <3>2 DEF FilesOK
    <3>3. CASE q = path
      <4>1. file'[q] = [file[path] EXCEPT !.length = n]
        BY <2>1, <3>3
      <4>2. n \in 0 .. HeaderParts + file[path].size
        BY <2>1 DEF FilesOK, HeaderParts
      <4>. QED  BY <3>3, <4>1, <4>2 DEF FilesOK
    <3>. QED  BY <3>2, <3>3
  <2>. QED  BY <2>2 DEF FilesOK
<1>4. CASE NextLoader
  <2>1. ASSUME NEW path, NEW id, Load(id, path) PROVE UNCHANGED file
    BY <2>1 DEF Load
  <2>. QED  BY <1>1, <1>2, <1>3, <1>4, <2>1 DEF NextLoader
<1>. QED  BY <1>1, <1>4, OnlyLoader DEF loader

(* What an accepted file promises. *)
LEMMA WholeWhenAccepted ==
  ASSUME FilesOK, NEW path \in DOMAIN file, NEW id, Accepted(file[path], id)
  PROVE  /\ file[path].length = HeaderParts + file[path].size
         /\ Header(file[path]).size = file[path].size /\ file[path].id = id
<1>1. PICK f : f = file[path]
  OBVIOUS
<1>2. f.size \in Nat /\ f.length \in 0 .. 3 + f.size
  BY <1>1 DEF FilesOK, HeaderParts
<1>3. f.length >= 3 + f.size \/ f.length < 3
  BY <1>1, <1>2 DEF Accepted, Streamed, Mapped, Header, HeaderParts
<1>4. f.length >= 3
  BY <1>1, <1>2 DEF Accepted, Streamed, Mapped, Header, HeaderParts
<1>5. f.length = 3 + f.size
  BY <1>2, <1>3, <1>4
<1>6. Header(f).size = f.size /\ Header(f).id = f.id
  BY <1>2, <1>4 DEF Header
<1>7. f.id = id
  BY <1>1, <1>6 DEF Accepted, Streamed, Mapped
<1>. QED  BY <1>1, <1>5, <1>6, <1>7 DEF HeaderParts

LEMMA CacheKept == CacheInv /\ FilesOK /\ [Next]_vars => CacheInv'
<1>. SUFFICES ASSUME CacheInv, FilesOK, [Next]_vars
              PROVE  CacheInv'
  OBVIOUS
<1>1. CASE UNCHANGED cache
  BY <1>1 DEF CacheInv, cache, Cached, Leads, Distinct
<1>2. CASE NextCache
  <2>1. CASE Clear
    <3>1. (bytes = <<>> /\ lru = <<>> /\ resident = 0 /\ used = <<>>)'
      BY <2>1 DEF Clear
    <3>2. (bytes = <<>> /\ lru = <<>> /\ resident = 0 /\ used = <<>> => CacheInv)'
      BY EmptyCache, PTL
    <3>. QED  BY <3>1, <3>2
  <2>2. Sizes \subseteq Nat
    BY CacheConstants
  <2>. QED  BY <1>2, <2>1, <2>2, GetKeeps, PutKeeps, EraseKeeps DEF NextCache
<1>3. ASSUME NEW path \in Paths, NEW id \in Ids, Load(id, path)
      PROVE  CacheInv'
  <2>1. id % CacheIds \in Partitions
    BY LoaderConstants
  <2>2. CASE Get(id % CacheIds)
    BY <2>2, GetKeeps
  <2>3. CASE /\ path \in DOMAIN file /\ Accepted(file[path], id)
             /\ Put(id % CacheIds, Header(file[path]).size)
    <3>1. Header(file[path]).size \in Nat
      BY <2>3, WholeWhenAccepted DEF FilesOK
    <3>. QED  BY <2>1, <2>3, <3>1, PutKeeps
  <2>. QED  BY <1>3, <2>2, <2>3 DEF Load
<1>4. CASE NextLoader
  BY <1>1, <1>3, <1>4 DEF NextLoader, Truncate, Extend
<1>5. CASE UNCHANGED loader
  BY <1>1, <1>5 DEF loader, cache
<1>. QED  BY <1>2, <1>4, <1>5, OnlyLoader

LEMMA CacheIsSound == CacheInv => CacheSound
<1>. SUFFICES ASSUME CacheInv
              PROVE  CacheSound
  OBVIOUS
<1>1. /\ lru \in Seq(Partitions) /\ used \in Seq(Partitions) /\ Distinct(used) /\ Distinct(lru)
      /\ Leads(lru, used) /\ Cached = ToSet(lru)
  BY CacheFinite DEF CacheInv
<1>2. Len(lru) = Cardinality(Cached)
  <2>1. PICK n \in Nat : n = Len(lru)
    BY <1>1
  <2>2. \A x : x \in ToSet(lru) <=> \E i \in 1 .. n : lru[i] = x
    BY <1>1, <2>1, Elements
  <2>3. PICK g : g = [i \in 1 .. n |-> lru[i]]
    OBVIOUS
  <2>4. g \in [1 .. n -> ToSet(lru)] /\ \A x \in ToSet(lru) : \E i \in 1 .. n : g[i] = x
    BY <2>2, <2>3
  <2>5. \A i, j \in 1 .. n : g[i] = g[j] => i = j
    BY <1>1, <2>1, <2>3 DEF Distinct
  <2>6. g \in Bijection(1 .. n, ToSet(lru))
    BY <2>4, <2>5 DEF Bijection, Injection, Surjection, IsInjective
  <2>7. IsFiniteSet(1 .. n) /\ Cardinality(1 .. n) = n
    BY FS_Interval
  <2>8. Cardinality(ToSet(lru)) = Cardinality(1 .. n)
    BY <2>6, <2>7, FS_Bijection DEF ExistsBijection
  <2>. QED  BY <1>1, <2>1, <2>7, <2>8
<1>3. CacheAccounted
  BY <1>1, <1>2 DEF CacheInv, CacheAccounted
<1>4. RecentKept
  <2>1. DOMAIN used = 1 .. Len(used) /\ Len(used) \in Nat /\ Len(lru) \in Nat /\ Len(lru) <= Len(used)
    BY <1>1, Elements DEF Leads
  <2>2. ASSUME NEW i \in 1 .. Len(used), NEW j \in 1 .. Len(used), i < j, used[j] \in Cached
        PROVE  used[i] \in Cached
    <3>1. PICK k \in 1 .. Len(lru) : lru[k] = used[j]
      BY <1>1, <2>2, Elements
    <3>2. k \in 1 .. Len(used) /\ used[k] = used[j]
      BY <1>1, <2>1, <3>1 DEF Leads
    <3>3. k = j
      BY <1>1, <3>2 DEF Distinct
    <3>4. i \in 1 .. Len(lru) /\ lru[i] = used[i]
      BY <1>1, <2>1, <2>2, <3>3 DEF Leads
    <3>. QED  BY <1>1, <3>4, Elements
  <2>. QED  BY <2>1, <2>2 DEF RecentKept
<1>. QED  BY <1>3, <1>4 DEF CacheSound

(* Whatever partitions, sizes and budget, and however calls of the cache   *)
(* and of the loader that fills it follow each other, the accounts of the  *)
(* cache are exact and within the budget, and nothing is evicted before    *)
(* something used less recently.                                           *)
THEOREM CacheHolds == Spec => []CacheSound
<1>1. Init => CacheInv /\ FilesOK
  BY CacheStarts, FilesStart
<1>2. CacheInv /\ FilesOK /\ [Next]_vars => (CacheInv /\ FilesOK)'
  BY CacheKept, FilesKept
<1>3. CacheInv /\ FilesOK => CacheSound
  BY CacheIsSound
<1>. QED  BY <1>1, <1>2, <1>3, PTL DEF Spec

(* What the cache holds while the loader alone fills it. *)
LoaderInv == CacheInv /\ FilesOK /\ LoadedWhole

LEMMA LoaderKept == LoaderInv /\ [Next]_vars => LoaderInv'
<1>. SUFFICES ASSUME LoaderInv, [Next]_vars
              PROVE  LoaderInv'
  OBVIOUS
<1>1. CacheInv' /\ FilesOK'
  BY CacheKept, FilesKept DEF LoaderInv
<1>2. ASSUME part = "loader", UNCHANGED <<part, held, cache>> PROVE LoadedWhole'
  BY <1>2 DEF LoaderInv, LoadedWhole, PayloadsWhole, cache, Cached
<1>3. ASSUME part = "loader", part' = part, NEW path \in Paths, NEW id \in Ids, Load(id, path)
      PROVE  LoadedWhole'
  <2>. DEFINE c == id % CacheIds
  <2>1. PayloadsWhole
    BY <1>3 DEF LoaderInv, LoadedWhole
  <2>2. CASE Get(c) /\ UNCHANGED held
    BY <2>1, <2>2, <1>3 DEF Get, LoadedWhole, PayloadsWhole, Cached
  <2>3. CASE /\ c \notin Cached
             /\ path \in DOMAIN file /\ Accepted(file[path], id)
             /\ Put(c, Header(file[path]).size)
             /\ held' = [p \in DOMAIN bytes' |-> IF p = c THEN file[path] ELSE held[p]]
    <3>1. /\ file[path].length = HeaderParts + file[path].size
          /\ Header(file[path]).size = file[path].size /\ file[path].id = id
      BY <2>3, WholeWhenAccepted DEF LoaderInv
    <3>2. c \in Partitions /\ file[path].size \in Nat
      BY <2>3, LoaderConstants DEF LoaderInv, FilesOK
    <3>3. /\ bytes'[c] = file[path].size
          /\ \A q \in Cached' \ {c} : q \in Cached /\ bytes'[q] = bytes[q]
      <4>. HIDE DEF c, Cached
      <4>. QED  BY <2>3, <3>1, <3>2, PutKeeps DEF LoaderInv
    <3>4. DOMAIN held' = Cached'
      BY <2>3 DEF Cached
    <3>5. ASSUME NEW q \in Cached'
          PROVE  /\ held'[q].length = HeaderParts + held'[q].size
                 /\ bytes'[q] = held'[q].size
                 /\ held'[q].id % CacheIds = q
      <4>1. q \in DOMAIN bytes'
        BY <3>5 DEF Cached
      <4>2. CASE q = c
        <5>1. held'[q] = file[path]
          BY <2>3, <4>1, <4>2
        <5>. QED  BY <3>1, <3>3, <4>2, <5>1
      <4>3. CASE q # c
        <5>1. held'[q] = held[q]
          BY <2>3, <4>1, <4>3
        <5>2. q \in Cached /\ bytes'[q] = bytes[q]
          BY <3>3, <4>3
        <5>. QED  BY <2>1, <5>1, <5>2 DEF PayloadsWhole
      <4>. QED  BY <4>2, <4>3
    <3>. QED  BY <3>4, <3>5 DEF LoadedWhole, PayloadsWhole, HeaderParts
  <2>. QED  BY <1>3, <2>2, <2>3 DEF Load
<1>4. LoadedWhole'
  <2>1. CASE part # "loader" /\ part' = part
    BY <2>1 DEF LoadedWhole
  <2>2. CASE part = "loader" /\ NextLoader /\ part' = part
    BY <1>2, <1>3, <2>2 DEF NextLoader, Truncate, Extend, LoaderInv, LoadedWhole, PayloadsWhole, Cached, cache
  <2>3. CASE UNCHANGED <<part, loader>>
    BY <1>2, <2>1, <2>3 DEF loader
  <2>. QED  BY <2>1, <2>2, <2>3, OnlyLoader
<1>. QED  BY <1>1, <1>4 DEF LoaderInv

(* Whatever files, sizes, identifiers and interruptions of writes, every   *)
(* payload that load() can take from the cache is a whole file, at the     *)
(* size it was written with and for the requested partition's lower bits.  *)
THEOREM LoadedHolds == Spec => []LoadedWhole
<1>1. Init => LoaderInv
  <2>1. Init => CacheInv /\ FilesOK
    BY CacheStarts, FilesStart
  <2>2. Init => LoadedWhole
    BY DEF Init, InitCache, InitLoader, LoadedWhole, PayloadsWhole, Cached
  <2>. QED  BY <2>1, <2>2 DEF LoaderInv
<1>2. LoaderInv => LoadedWhole
  BY DEF LoaderInv
<1>. QED  BY <1>1, <1>2, LoaderKept, PTL DEF Spec

-----------------------------------------------------------------------------
(* The thread pool, for every number of workers, callers and tasks.        *)
(*                                                                         *)
(* A task that has not run is in the queue or run by a worker              *)
(* (Whereabouts), so an idle pool has run everything.  Wake-ups are a      *)
(* matter of counting: every step that adds a task adds a thread to Ready, *)
(* and every step that takes a thread from Ready takes a task, or hands    *)
(* over to another one.                                                    *)

Running == {w \in Threads : at[w] \in {"runs", "notifies inside"}}

InWorker == {"awake", "asleep", "runs", "notifies inside", "left"}

InCaller == {"out", "notifies", "told", "waits", "returned", "notifies all", "joins", "destroyed"}

PlacesOK ==
  /\ at \in [Threads \cup Callers -> InWorker \cup InCaller]
  /\ \A t \in Threads \cup Callers : at[t] \in InWorker <=> t \in Threads

(* Values the variables may have; tasks are numbered by submission. *)
ThreadPoolTypeOK ==
  /\ PlacesOK
  /\ submitted \in Nat /\ activeTasks \in Nat
  /\ tasks \in Seq(Nat)
  /\ busy \in [Threads -> Nat]
  /\ stopping \in BOOLEAN
  /\ awaited \in [Callers -> SUBSET Nat]

Numbered ==
  /\ \A i \in 1 .. Len(tasks) : tasks[i] \in 1 .. submitted
  /\ \A w \in Running : busy[w] \in 1 .. submitted
  /\ finished \subseteq 1 .. submitted
  /\ \A c \in Callers : awaited[c] \subseteq 1 .. submitted

Counted == activeTasks = Cardinality(Running)

(* A task has run, waits in the queue, or is run by a worker. *)
Whereabouts ==
  \A t \in 1 .. submitted :
    \/ t \in finished
    \/ \E i \in 1 .. Len(tasks) : tasks[i] = t
    \/ \E w \in Running : busy[w] = t

(* Workers leave a stopping pool, the last one an empty queue. *)
Leaving ==
  /\ \A w \in Threads : at[w] = "left" => stopping
  /\ (\A w \in Threads : at[w] = "left") => tasks = <<>>
  /\ at[Destroyer] = "destroyed" => \A w \in Threads : at[w] = "left"

Covering == \A c \in Callers : at[c] = "returned" => awaited[c] \subseteq finished

Work == Numbered /\ Counted /\ Whereabouts

IInv == ThreadPoolTypeOK /\ Work /\ NobodyForgotten /\ Leaving /\ Covering

-----------------------------------------------------------------------------
LEMMA FiniteSets == /\ IsFiniteSet(Running) /\ IsFiniteSet(Threads \cup Callers)
                    /\ ThreadPoolTypeOK => IsFiniteSet(Ready)
<1>1. IsFiniteSet(Threads \cup Callers)
  BY ThreadPoolConstants, FS_Union
<1>2. Running \subseteq Threads \cup Callers
  BY DEF Running
<1>3. ThreadPoolTypeOK => Ready \subseteq Threads \cup Callers
  BY DEF ThreadPoolTypeOK, PlacesOK, Ready, Notifying
<1>. QED  BY <1>1, <1>2, <1>3, FS_Subset

(* The number of elements after a step that adds or takes one. *)
LEMMA OneMore ==
  ASSUME NEW S, NEW x, IsFiniteSet(S), x \notin S
  PROVE  Cardinality(S \cup {x}) = Cardinality(S) + 1 /\ Cardinality(S) \in Nat
BY FS_AddElement, FS_CardinalityType

LEMMA OneLess ==
  ASSUME NEW S, NEW x, IsFiniteSet(S), x \in S
  PROVE  Cardinality(S \ {x}) = Cardinality(S) - 1 /\ Cardinality(S) \in Nat \ {0}
<1>1. Cardinality(S) # 0
  BY FS_EmptySet
<1>. QED  BY <1>1, FS_RemoveElement, FS_CardinalityType

(* An idle pool has run every task. *)
LEMMA IdleMeansDone ==
  ASSUME IInv, Idle
  PROVE  1 .. submitted \subseteq finished
<1>1. Running = {}
  BY FiniteSets, FS_EmptySet DEF IInv, Work, Counted, Idle
<1>. QED  BY <1>1 DEF IInv, Work, Whereabouts, Idle

LEMMA InitiallyInv == InitThreadPool => IInv
<1>. SUFFICES ASSUME InitThreadPool PROVE IInv
  OBVIOUS
<1>1. /\ \A t \in Threads \cup Callers : at[t] = IF t \in Threads THEN "awake" ELSE "out"
      /\ at \in [Threads \cup Callers -> InWorker \cup InCaller]
      /\ tasks = <<>> /\ submitted = 0 /\ activeTasks = 0 /\ finished = {} /\ stopping = FALSE
      /\ busy \in [Threads -> Nat]
      /\ awaited \in [Callers -> SUBSET Nat] /\ \A c \in Callers : awaited[c] = {}
  BY DEF InitThreadPool, InWorker, InCaller
<1>2. ThreadPoolTypeOK
  BY <1>1, EmptySeq DEF ThreadPoolTypeOK, PlacesOK, InWorker
<1>3. Running = {} /\ Asleep = {} /\ Len(tasks) = 0 /\ 1 .. submitted = {}
  <2>1. Running = {} /\ Asleep = {}
    BY <1>1 DEF Running, Asleep
  <2>. QED  BY <1>1, <2>1, EmptySeq
<1>4. Work
  BY <1>1, <1>3, FS_EmptySet DEF Work, Counted, Whereabouts, Numbered
<1>5. \A c \in Callers : at[c] = "out"
  BY <1>1, ThreadPoolConstants
<1>6. NobodyForgotten
  BY <1>3, <1>5 DEF NobodyForgotten
<1>7. Leaving /\ Covering
  BY <1>1, <1>5, ThreadPoolConstants DEF Leaving, Covering
<1>. QED  BY <1>2, <1>4, <1>6, <1>7 DEF IInv

(* Steps that only move threads around the work. *)
LEMMA SameWork ==
  ASSUME Work, Running' = Running, UNCHANGED <<tasks, busy, activeTasks, submitted, finished>>,
         \A c \in Callers : awaited'[c] \subseteq 1 .. submitted
  PROVE  Work'
BY DEF Work, Numbered, Counted, Whereabouts

-----------------------------------------------------------------------------
LEMMA SubmitKeeps ==
  ASSUME IInv, NEW t \in Threads \cup Callers, Submit(t)
  PROVE  IInv'
<1>. USE DEF IInv
<1>1. /\ tasks' = Append(tasks, submitted + 1) /\ submitted' = submitted + 1
      /\ UNCHANGED <<busy, activeTasks, stopping, finished, awaited>>
      /\ at[t] = "runs" \/ (at[t] = "out" /\ ~stopping)
  BY DEF Submit
<1>2. /\ at'[t] = IF t \in Threads THEN "notifies inside" ELSE "notifies"
      /\ at' \in [Threads \cup Callers -> InWorker \cup InCaller]
      /\ \A u \in Threads \cup Callers : u # t => at'[u] = at[u]
  BY DEF ThreadPoolTypeOK, PlacesOK, Submit, Goes, InWorker, InCaller
<1>3. /\ tasks' \in Seq(Nat) /\ Len(tasks) \in Nat /\ Len(tasks') = Len(tasks) + 1
      /\ \A i \in 1 .. Len(tasks) : tasks'[i] = tasks[i]
      /\ tasks'[Len(tasks')] = submitted + 1 /\ submitted \in Nat
  BY <1>1, AppendProperties, LenProperties DEF ThreadPoolTypeOK
<1>4. ThreadPoolTypeOK'
  <2>1. PlacesOK'
    BY <1>2 DEF ThreadPoolTypeOK, PlacesOK, InWorker
  <2>2. tasks' \in Seq(Nat) /\ submitted' \in Nat
    BY <1>1, <1>3
  <2>. QED  BY <1>1, <2>1, <2>2 DEF ThreadPoolTypeOK
<1>5. Running' = Running
  BY <1>1, <1>2, ThreadPoolConstants DEF ThreadPoolTypeOK, PlacesOK, Running, InWorker
<1>6. Work'
  <2>1. Counted'
    BY <1>1, <1>5 DEF Work, Counted
  <2>2. Numbered'
    <3>1. \A i \in 1 .. Len(tasks') : tasks'[i] \in 1 .. submitted'
      BY <1>1, <1>3 DEF Work, Numbered
    <3>2. 1 .. submitted \subseteq 1 .. submitted'
      BY <1>1, <1>3
    <3>. QED  BY <1>1, <1>5, <3>1, <3>2 DEF Work, Numbered
  <2>3. ASSUME NEW k \in 1 .. submitted'
        PROVE  \/ k \in finished'
               \/ \E i \in 1 .. Len(tasks') : tasks'[i] = k
               \/ \E w \in Running' : busy'[w] = k
    <3>1. CASE k = submitted + 1
      <4>1. Len(tasks') \in 1 .. Len(tasks')
        BY <1>3
      <4>. QED  BY <1>3, <3>1, <4>1
    <3>2. CASE k \in 1 .. submitted
      <4>1. 1 .. Len(tasks) \subseteq 1 .. Len(tasks')
        BY <1>3
      <4>. QED  BY <1>1, <1>3, <1>5, <3>2, <4>1 DEF Work, Whereabouts
    <3>. QED  BY <1>1, <1>3, <3>1, <3>2
  <2>. QED  BY <2>1, <2>2, <2>3 DEF Work, Whereabouts
<1>7. NobodyForgotten'
  <2>1. Asleep' = Asleep
    BY <1>1, <1>2 DEF Asleep
  <2>2. Ready' = Ready \cup {t} /\ t \notin Ready
    BY <1>1, <1>2 DEF ThreadPoolTypeOK, PlacesOK, Ready, Notifying
  <2>3. Cardinality(Ready') = Cardinality(Ready) + 1 /\ Cardinality(Ready) \in Nat
    BY <2>2, FiniteSets, OneMore
  <2>4. Asleep' # {} => Len(tasks') <= Cardinality(Ready')
    <3>1. Asleep # {} => Len(tasks) <= Cardinality(Ready)
      BY DEF NobodyForgotten
    <3>. QED  BY <1>3, <2>1, <2>3, <3>1
  <2>5. Asleep' # {} /\ stopping' => at'[Destroyer] = "notifies all"
    BY <1>1, <1>2, <2>1, ThreadPoolConstants DEF NobodyForgotten
  <2>6. ~Idle'
    BY <1>3 DEF Idle
  <2>. QED  BY <2>4, <2>5, <2>6 DEF NobodyForgotten
<1>8. Leaving' /\ Covering'
  <2>1. \E w \in Threads : at[w] # "left" /\ at'[w] # "left"
    <3>1. CASE t \in Threads
      BY <1>1, <1>2, <3>1 DEF ThreadPoolTypeOK, PlacesOK, InWorker
    <3>2. CASE t \notin Threads
      <4>1. ~stopping
        BY <1>1, <3>2 DEF ThreadPoolTypeOK, PlacesOK, InWorker
      <4>. QED  BY <1>2, <3>2, <4>1, ThreadPoolConstants DEF Leaving
    <3>. QED  BY <3>1, <3>2
  <2>2. at'[Destroyer] # "destroyed"
    BY <1>2, <2>1, ThreadPoolConstants DEF Leaving
  <2>3. \A w \in Threads : at'[w] = "left" => stopping'
    BY <1>1, <1>2 DEF Leaving
  <2>4. Covering'
    BY <1>1, <1>2 DEF Covering
  <2>. QED  BY <2>1, <2>2, <2>3, <2>4 DEF Leaving
<1>. QED  BY <1>4, <1>6, <1>7, <1>8

LEMMA NotifyOneKeeps ==
  ASSUME IInv, NEW t \in Threads \cup Callers, NotifyOne(t)
  PROVE  IInv'
<1>. USE DEF IInv
<1>1. /\ UNCHANGED <<tasks, busy, activeTasks, stopping, submitted, finished, awaited>>
      /\ at[t] \in {"notifies", "notifies inside"}
  BY DEF NotifyOne, Notifying
<1>2. at[t] = IF t \in Threads THEN "notifies inside" ELSE "notifies"
  BY <1>1 DEF ThreadPoolTypeOK, PlacesOK, InWorker
<1>3. CASE Asleep = {}
  <2>1. /\ at'[t] = Back(t)
        /\ \A u \in Threads \cup Callers : u # t => at'[u] = at[u]
        /\ at' \in [Threads \cup Callers -> InWorker \cup InCaller]
    BY <1>3 DEF NotifyOne, Goes, Back, ThreadPoolTypeOK, PlacesOK, InWorker, InCaller
  <2>2. Running' = Running /\ Asleep' = {}
    BY <1>2, <1>3, <2>1 DEF Running, Asleep, Back
  <2>3. ThreadPoolTypeOK'
    BY <1>1, <2>1 DEF ThreadPoolTypeOK, PlacesOK, InWorker, Back
  <2>4. Work'
    BY <1>1, <2>2, SameWork DEF Work, Numbered
  <2>5. NobodyForgotten'
    BY <1>1, <2>1, <2>2 DEF NobodyForgotten, Idle, Back
  <2>6. Leaving'
    BY <1>1, <1>2, <2>1, ThreadPoolConstants DEF Leaving, Back
  <2>7. Covering'
    BY <1>1, <2>1 DEF Covering, Back
  <2>. QED  BY <2>3, <2>4, <2>5, <2>6, <2>7
<1>4. CASE \E w \in Asleep : at' = [at EXCEPT ![t] = Back(t), ![w] = "awake"]
  <2>. PICK w \in Asleep : at' = [at EXCEPT ![t] = Back(t), ![w] = "awake"]
    BY <1>4
  <2>1. /\ w \in Threads /\ w # t /\ at[w] = "asleep"
        /\ at'[t] = Back(t) /\ at'[w] = "awake"
        /\ \A u \in Threads \cup Callers : u # t /\ u # w => at'[u] = at[u]
        /\ at' \in [Threads \cup Callers -> InWorker \cup InCaller]
    BY <1>2 DEF Asleep, Back, ThreadPoolTypeOK, PlacesOK, InWorker, InCaller
  <2>2. Running' = Running /\ Asleep' \subseteq Asleep
    BY <1>2, <2>1 DEF Running, Asleep, Back
  <2>3. ThreadPoolTypeOK'
    BY <1>1, <2>1, ThreadPoolConstants DEF ThreadPoolTypeOK, PlacesOK, InWorker, Back
  <2>4. Work'
    BY <1>1, <2>2, SameWork DEF Work, Numbered
  <2>5. NobodyForgotten'
    <3>1. Ready' = (Ready \ {t}) \cup {w} /\ t \in Ready /\ w \notin Ready
      <4>1. /\ Ready \subseteq Threads \cup Callers /\ Ready' \subseteq Threads \cup Callers
            /\ t \in Ready /\ t \notin Ready' /\ w \notin Ready /\ w \in Ready'
        BY <1>1, <1>2, <2>1 DEF Ready, Notifying, Back, ThreadPoolTypeOK, PlacesOK
      <4>2. \A u \in Threads \cup Callers : u # t /\ u # w => (u \in Ready' <=> u \in Ready)
        BY <2>1 DEF Ready, Notifying, ThreadPoolTypeOK, PlacesOK
      <4>. QED  BY <4>1, <4>2
    <3>2. Cardinality(Ready \ {t}) = Cardinality(Ready) - 1 /\ IsFiniteSet(Ready \ {t})
      BY <3>1, FiniteSets, OneLess, FS_RemoveElement
    <3>3. Cardinality(Ready) \in Nat
      BY FiniteSets, FS_CardinalityType
    <3>4. Cardinality(Ready') = Cardinality(Ready)
      BY <3>1, <3>2, <3>3, OneMore
    <3>5. Asleep' # {} => Len(tasks') <= Cardinality(Ready')
      BY <1>1, <2>2, <3>4 DEF NobodyForgotten
    <3>6. Asleep' # {} /\ stopping' => at'[Destroyer] = "notifies all"
      BY <1>1, <2>1, <2>2, ThreadPoolConstants DEF NobodyForgotten
    <3>7. Idle' => \A c \in Callers : at'[c] # "waits"
      BY <1>1, <2>1 DEF NobodyForgotten, Idle, Back
    <3>. QED  BY <3>5, <3>6, <3>7 DEF NobodyForgotten
  <2>6. Leaving'
    BY <1>1, <1>2, <2>1, ThreadPoolConstants DEF Leaving, Back
  <2>7. Covering'
    BY <1>1, <2>1 DEF Covering, Back
  <2>. QED  BY <2>3, <2>4, <2>5, <2>6, <2>7
<1>. QED  BY <1>3, <1>4 DEF NotifyOne

LEMMA TakeTaskKeeps ==
  ASSUME IInv, NEW w \in Threads, TakeTask(w)
  PROVE  IInv'
<1>. USE DEF IInv
<1>1. /\ UNCHANGED <<stopping, submitted, finished, awaited>>
      /\ activeTasks' = activeTasks + 1
      /\ tasks # <<>> /\ tasks' = Tail(tasks) /\ at[w] = "awake"
  BY DEF TakeTask
<1>2. /\ at'[w] = "runs"
      /\ \A u \in Threads \cup Callers : u # w => at'[u] = at[u]
      /\ at' \in [Threads \cup Callers -> InWorker \cup InCaller]
  BY DEF TakeTask, Goes, ThreadPoolTypeOK, PlacesOK, InWorker, InCaller
<1>3. /\ tasks' \in Seq(Nat) /\ Len(tasks') = Len(tasks) - 1
      /\ Len(tasks) \in Nat \ {0} /\ Len(tasks') \in Nat
      /\ \A i \in 1 .. Len(tasks') : tasks'[i] = tasks[i + 1]
  BY <1>1, HeadTailProperties, LenProperties, EmptySeq DEF ThreadPoolTypeOK
<1>4. /\ busy' \in [Threads -> Nat] /\ busy'[w] = tasks[1]
      /\ \A v \in Threads : v # w => busy'[v] = busy[v]
  <2>1. Head(tasks) = tasks[1] /\ Head(tasks) \in Nat
    BY <1>1, HeadTailProperties DEF ThreadPoolTypeOK
  <2>. QED  BY <2>1 DEF TakeTask, ThreadPoolTypeOK
<1>5. Running' = Running \cup {w} /\ w \notin Running
  BY <1>1, <1>2 DEF Running
<1>6. ThreadPoolTypeOK'
  <2>1. PlacesOK'
    BY <1>2 DEF ThreadPoolTypeOK, PlacesOK, InWorker
  <2>2. activeTasks' \in Nat
    BY <1>1 DEF ThreadPoolTypeOK
  <2>. QED  BY <1>1, <1>3, <1>4, <2>1, <2>2 DEF ThreadPoolTypeOK
<1>7. Work'
  <2>1. Counted'
    BY <1>1, <1>5, FiniteSets, OneMore DEF Work, Counted
  <2>2. Numbered'
    <3>1. \A i \in 1 .. Len(tasks') : tasks'[i] \in 1 .. submitted
      BY <1>3 DEF Work, Numbered
    <3>2. tasks[1] \in 1 .. submitted
      BY <1>3 DEF Work, Numbered
    <3>3. \A v \in Running' : busy'[v] \in 1 .. submitted
      BY <1>4, <1>5, <3>2 DEF Work, Numbered, Running
    <3>. QED  BY <1>1, <3>1, <3>3 DEF Work, Numbered
  <2>3. ASSUME NEW k \in 1 .. submitted
        PROVE  \/ k \in finished
               \/ \E i \in 1 .. Len(tasks') : tasks'[i] = k
               \/ \E v \in Running' : busy'[v] = k
    <3>1. CASE k \in finished
      BY <3>1
    <3>2. ASSUME NEW i \in 1 .. Len(tasks), tasks[i] = k
          PROVE  \/ \E j \in 1 .. Len(tasks') : tasks'[j] = k
                 \/ \E v \in Running' : busy'[v] = k
      <4>1. CASE i = 1
        BY <1>4, <1>5, <3>2, <4>1
      <4>2. CASE i # 1
        <5>1. i - 1 \in 1 .. Len(tasks') /\ (i - 1) + 1 = i
          BY <1>3, <4>2
        <5>. QED  BY <1>3, <3>2, <5>1
      <4>. QED  BY <4>1, <4>2
    <3>3. ASSUME NEW v \in Running, busy[v] = k
          PROVE  \E u \in Running' : busy'[u] = k
      BY <1>4, <1>5, <3>3 DEF Running
    <3>. QED  BY <3>1, <3>2, <3>3 DEF Work, Whereabouts
  <2>4. Whereabouts'
    BY <1>1, <2>3 DEF Whereabouts
  <2>. QED  BY <2>1, <2>2, <2>4 DEF Work
<1>8. NobodyForgotten'
  <2>1. Asleep' = Asleep
    BY <1>1, <1>2 DEF Asleep
  <2>2. Ready' = Ready \ {w} /\ w \in Ready
    BY <1>1, <1>2 DEF Ready, Notifying, ThreadPoolTypeOK, PlacesOK
  <2>3. Cardinality(Ready') = Cardinality(Ready) - 1 /\ Cardinality(Ready) \in Nat
    BY <2>2, FiniteSets, OneLess
  <2>4. Asleep' # {} => Len(tasks') <= Cardinality(Ready')
    <3>1. Asleep # {} => Len(tasks) <= Cardinality(Ready)
      BY DEF NobodyForgotten
    <3>. QED  BY <1>3, <2>1, <2>3, <3>1
  <2>5. Asleep' # {} /\ stopping' => at'[Destroyer] = "notifies all"
    BY <1>1, <1>2, <2>1, ThreadPoolConstants DEF NobodyForgotten
  <2>6. ~Idle'
    BY <1>1 DEF Idle, ThreadPoolTypeOK
  <2>. QED  BY <2>4, <2>5, <2>6 DEF NobodyForgotten
<1>9. Leaving' /\ Covering'
  BY <1>1, <1>2, ThreadPoolConstants DEF Leaving, Covering
<1>. QED  BY <1>6, <1>7, <1>8, <1>9

LEMMA SleepOrLeaveKeeps ==
  ASSUME IInv, NEW w \in Threads, SleepOrLeave(w)
  PROVE  IInv'
<1>. USE DEF IInv
<1>1. /\ UNCHANGED <<tasks, busy, activeTasks, stopping, submitted, finished, awaited>>
      /\ tasks = <<>> /\ at[w] = "awake"
  BY DEF SleepOrLeave
<1>2. /\ at'[w] = IF stopping THEN "left" ELSE "asleep"
      /\ \A u \in Threads \cup Callers : u # w => at'[u] = at[u]
      /\ at' \in [Threads \cup Callers -> InWorker \cup InCaller]
  BY DEF SleepOrLeave, Goes, ThreadPoolTypeOK, PlacesOK, InWorker, InCaller
<1>3. Running' = Running
  BY <1>1, <1>2 DEF Running
<1>4. ThreadPoolTypeOK'
  BY <1>1, <1>2 DEF ThreadPoolTypeOK, PlacesOK, InWorker
<1>5. Work'
  BY <1>1, <1>3, SameWork DEF Work, Numbered
<1>6. NobodyForgotten'
  <2>1. Ready' = Ready \ {w}
    BY <1>1, <1>2 DEF Ready, Notifying, ThreadPoolTypeOK, PlacesOK
  <2>2. Cardinality(Ready') \in Nat /\ Len(tasks') = 0
    BY <1>1, <2>1, EmptySeq, FiniteSets, FS_Subset, FS_CardinalityType
  <2>3. stopping => Asleep' = Asleep
    BY <1>1, <1>2 DEF Asleep
  <2>4. Asleep' # {} /\ stopping' => at'[Destroyer] = "notifies all"
    BY <1>1, <1>2, <2>3, ThreadPoolConstants DEF NobodyForgotten
  <2>5. Idle' => \A c \in Callers : at'[c] # "waits"
    BY <1>1, <1>2, ThreadPoolConstants DEF NobodyForgotten, Idle
  <2>6. Asleep' # {} => Len(tasks') <= Cardinality(Ready')
    BY <2>2
  <2>. QED  BY <2>4, <2>5, <2>6 DEF NobodyForgotten
<1>7. Leaving' /\ Covering'
  BY <1>1, <1>2, ThreadPoolConstants DEF Leaving, Covering
<1>. QED  BY <1>4, <1>5, <1>6, <1>7

LEMMA EndTaskKeeps ==
  ASSUME IInv, NEW w \in Threads, EndTask(w)
  PROVE  IInv'
<1>. USE DEF IInv
<1>1. /\ UNCHANGED <<tasks, stopping, submitted, awaited>>
      /\ finished' = finished \cup {busy[w]}
      /\ activeTasks' = activeTasks - 1 /\ at[w] = "runs"
  BY DEF EndTask
<1>2. /\ at'[w] = "awake"
      /\ \A u \in Threads \cup Callers : u # w =>
           at'[u] = IF Idle' /\ at[u] = "waits" THEN "told" ELSE at[u]
      /\ DOMAIN at' = Threads \cup Callers /\ at' = [u \in DOMAIN at' |-> at'[u]]
  BY DEF EndTask, ThreadPoolTypeOK, PlacesOK
<1>3. \A v \in Threads : v # w => at'[v] = at[v]
  BY <1>2 DEF ThreadPoolTypeOK, PlacesOK, InWorker
<1>4. busy' \in [Threads -> Nat] /\ \A v \in Threads : v # w => busy'[v] = busy[v]
  BY DEF EndTask, ThreadPoolTypeOK
<1>5. Running' = Running \ {w} /\ w \in Running
  BY <1>1, <1>2, <1>3 DEF Running
<1>6. Cardinality(Running') = Cardinality(Running) - 1 /\ Cardinality(Running) \in Nat \ {0}
  BY <1>5, FiniteSets, OneLess
<1>7. ThreadPoolTypeOK'
  <2>1. \A u \in Threads \cup Callers :
          /\ at'[u] \in InWorker \cup InCaller
          /\ at'[u] \in InWorker <=> u \in Threads
    BY <1>2, <1>3 DEF ThreadPoolTypeOK, PlacesOK, InWorker, InCaller
  <2>2. PlacesOK'
    BY <1>2, <2>1 DEF PlacesOK
  <2>3. activeTasks' \in Nat
    BY <1>1, <1>6 DEF Work, Counted
  <2>. QED  BY <1>1, <1>4, <2>2, <2>3 DEF ThreadPoolTypeOK
<1>8. Work'
  <2>1. Counted'
    BY <1>1, <1>6 DEF Work, Counted
  <2>2. Numbered'
    BY <1>1, <1>4, <1>5 DEF Work, Numbered, Running
  <2>3. ASSUME NEW v \in Running, v # w
        PROVE  v \in Running' /\ busy'[v] = busy[v]
    BY <1>4, <1>5, <2>3 DEF Running
  <2>4. Whereabouts'
    BY <1>1, <2>3 DEF Work, Whereabouts
  <2>. QED  BY <2>1, <2>2, <2>4 DEF Work
<1>9. NobodyForgotten'
  <2>1. Asleep' = Asleep
    BY <1>1, <1>2, <1>3 DEF Asleep
  <2>2. Ready' = Ready \cup {w} /\ w \notin Ready
    <3>1. /\ Ready \subseteq Threads \cup Callers /\ Ready' \subseteq Threads \cup Callers
          /\ w \notin Ready /\ w \in Ready'
      BY <1>1, <1>2 DEF Ready, Notifying, ThreadPoolTypeOK, PlacesOK
    <3>2. \A u \in Threads \cup Callers : u # w => (u \in Ready' <=> u \in Ready)
      BY <1>2, <1>3 DEF Ready, Notifying, ThreadPoolTypeOK, PlacesOK
    <3>. QED  BY <3>1, <3>2
  <2>3. Cardinality(Ready') = Cardinality(Ready) + 1 /\ Cardinality(Ready) \in Nat
    BY <2>2, FiniteSets, OneMore
  <2>4. Asleep' # {} => Len(tasks') <= Cardinality(Ready')
    <3>1. Asleep # {} => Len(tasks) <= Cardinality(Ready)
      BY DEF NobodyForgotten
    <3>2. Len(tasks) \in Nat
      BY LenProperties DEF ThreadPoolTypeOK
    <3>. QED  BY <1>1, <2>1, <2>3, <3>1, <3>2
  <2>5. Asleep' # {} /\ stopping' => at'[Destroyer] = "notifies all"
    BY <1>1, <1>2, <2>1, ThreadPoolConstants DEF NobodyForgotten
  <2>6. Idle' => \A c \in Callers : at'[c] # "waits"
    BY <1>2, ThreadPoolConstants
  <2>. QED  BY <2>4, <2>5, <2>6 DEF NobodyForgotten
<1>10. Leaving'
  BY <1>1, <1>2, <1>3, ThreadPoolConstants DEF Leaving
<1>11. Covering'
  BY <1>1, <1>2, ThreadPoolConstants DEF Covering
<1>. QED  BY <1>7, <1>8, <1>9, <1>10, <1>11

-----------------------------------------------------------------------------
(* What every step keeps in which one caller moves and the work stays.     *)
LEMMA CallerMoves ==
  ASSUME IInv, NEW c \in Callers, NEW place \in InCaller \ {"notifies"}, at[c] # "notifies",
         Goes(c, place), UNCHANGED <<tasks, busy, activeTasks, submitted, finished>>,
         stopping' \in BOOLEAN, awaited' \in [Callers -> SUBSET Nat],
         \A d \in Callers : awaited'[d] \subseteq 1 .. submitted
  PROVE  /\ ThreadPoolTypeOK' /\ Work'
         /\ Asleep' = Asleep /\ Ready' = Ready
         /\ at'[c] = place /\ \A u \in Threads \cup Callers : u # c => at'[u] = at[u]
<1>. USE DEF IInv
<1>1. /\ at'[c] = place
      /\ \A u \in Threads \cup Callers : u # c => at'[u] = at[u]
      /\ at' \in [Threads \cup Callers -> InWorker \cup InCaller]
  BY DEF Goes, ThreadPoolTypeOK, PlacesOK
<1>2. \A w \in Threads : at'[w] = at[w]
  BY <1>1, ThreadPoolConstants
<1>3. Asleep' = Asleep /\ Running' = Running
  BY <1>2 DEF Asleep, Running
<1>4. Ready' = Ready
  <2>1. at[c] \notin {"notifies", "notifies inside"} /\ at'[c] \notin {"notifies", "notifies inside"}
    BY <1>1, ThreadPoolConstants DEF ThreadPoolTypeOK, PlacesOK, InWorker, InCaller
  <2>2. Notifying' = Notifying
    BY <1>1, <2>1 DEF Notifying, ThreadPoolTypeOK, PlacesOK
  <2>. QED  BY <1>2, <2>2 DEF Ready
<1>5. ThreadPoolTypeOK'
  <2>1. place \notin InWorker
    BY DEF InWorker, InCaller
  <2>2. PlacesOK'
    BY <1>1, <2>1, ThreadPoolConstants DEF ThreadPoolTypeOK, PlacesOK
  <2>. QED  BY <2>2 DEF ThreadPoolTypeOK
<1>6. Work'
  BY <1>3, SameWork
<1>. QED  BY <1>1, <1>3, <1>4, <1>5, <1>6

LEMMA StartWaitingKeeps ==
  ASSUME IInv, NEW c \in Callers, StartWaiting(c)
  PROVE  IInv'
<1>. USE DEF IInv
<1>1. /\ UNCHANGED <<tasks, busy, activeTasks, stopping, submitted, finished>>
      /\ at[c] = "out" /\ ~stopping /\ Goes(c, "told")
  BY DEF StartWaiting
<1>2. /\ awaited' \in [Callers -> SUBSET Nat]
      /\ awaited'[c] = 1 .. submitted /\ \A d \in Callers : d # c => awaited'[d] = awaited[d]
  BY DEF StartWaiting, ThreadPoolTypeOK
<1>3. /\ ThreadPoolTypeOK' /\ Work' /\ Asleep' = Asleep /\ Ready' = Ready
      /\ at'[c] = "told" /\ \A u \in Threads \cup Callers : u # c => at'[u] = at[u]
  <2>1. \A d \in Callers : awaited'[d] \subseteq 1 .. submitted
    BY <1>2 DEF Work, Numbered
  <2>2. stopping' \in BOOLEAN
    BY <1>1 DEF ThreadPoolTypeOK
  <2>. QED  BY <1>1, <1>2, <2>1, <2>2, CallerMoves DEF InCaller
<1>4. NobodyForgotten'
  BY <1>1, <1>3, ThreadPoolConstants DEF NobodyForgotten, Idle
<1>5. Leaving' /\ Covering'
  BY <1>1, <1>2, <1>3, ThreadPoolConstants DEF Leaving, Covering
<1>. QED  BY <1>3, <1>4, <1>5

LEMMA CheckIdleKeeps ==
  ASSUME IInv, NEW c \in Callers, CheckIdle(c)
  PROVE  IInv'
<1>. USE DEF IInv
<1>1. /\ UNCHANGED <<tasks, busy, activeTasks, stopping, submitted, finished, awaited>>
      /\ at[c] = "told" /\ Goes(c, IF Idle THEN "returned" ELSE "waits")
  BY DEF CheckIdle
<1>2. /\ ThreadPoolTypeOK' /\ Work' /\ Asleep' = Asleep /\ Ready' = Ready
      /\ at'[c] = IF Idle THEN "returned" ELSE "waits"
      /\ \A u \in Threads \cup Callers : u # c => at'[u] = at[u]
  <2>1. \A d \in Callers : awaited'[d] \subseteq 1 .. submitted
    BY <1>1 DEF Work, Numbered
  <2>2. stopping' \in BOOLEAN /\ awaited' \in [Callers -> SUBSET Nat]
    BY <1>1 DEF ThreadPoolTypeOK
  <2>3. (IF Idle THEN "returned" ELSE "waits") \in InCaller \ {"notifies"}
    BY DEF InCaller
  <2>. QED  BY <1>1, <2>1, <2>2, <2>3, CallerMoves
<1>3. NobodyForgotten'
  BY <1>1, <1>2, ThreadPoolConstants DEF NobodyForgotten, Idle
<1>4. Leaving'
  BY <1>1, <1>2, ThreadPoolConstants DEF Leaving
<1>5. Idle => awaited[c] \subseteq finished
  BY IdleMeansDone DEF Work, Numbered
<1>6. Covering'
  BY <1>1, <1>2, <1>5 DEF Covering
<1>. QED  BY <1>2, <1>3, <1>4, <1>6

LEMMA LeaveKeeps ==
  ASSUME IInv, NEW c \in Callers, Leave(c)
  PROVE  IInv'
<1>. USE DEF IInv
<1>1. /\ UNCHANGED <<tasks, busy, activeTasks, stopping, submitted, finished>>
      /\ at[c] = "returned" /\ Goes(c, "out")
  BY DEF Leave
<1>2. /\ awaited' \in [Callers -> SUBSET Nat]
      /\ awaited'[c] = {} /\ \A d \in Callers : d # c => awaited'[d] = awaited[d]
  BY DEF Leave, ThreadPoolTypeOK
<1>3. /\ ThreadPoolTypeOK' /\ Work' /\ Asleep' = Asleep /\ Ready' = Ready
      /\ at'[c] = "out" /\ \A u \in Threads \cup Callers : u # c => at'[u] = at[u]
  <2>1. \A d \in Callers : awaited'[d] \subseteq 1 .. submitted
    BY <1>2 DEF Work, Numbered
  <2>2. stopping' \in BOOLEAN
    BY <1>1 DEF ThreadPoolTypeOK
  <2>. QED  BY <1>1, <1>2, <2>1, <2>2, CallerMoves DEF InCaller
<1>4. NobodyForgotten'
  BY <1>1, <1>3, ThreadPoolConstants DEF NobodyForgotten, Idle
<1>5. Leaving' /\ Covering'
  BY <1>1, <1>2, <1>3, ThreadPoolConstants DEF Leaving, Covering
<1>. QED  BY <1>3, <1>4, <1>5

LEMMA StopKeeps ==
  ASSUME IInv, Stop
  PROVE  IInv'
<1>. USE DEF IInv
<1>1. /\ UNCHANGED <<tasks, busy, activeTasks, submitted, finished, awaited>>
      /\ \A c \in Callers : at[c] = "out"
      /\ stopping' = TRUE /\ Goes(Destroyer, "notifies all")
  BY DEF Stop
<1>2. /\ ThreadPoolTypeOK' /\ Work' /\ Asleep' = Asleep /\ Ready' = Ready
      /\ at'[Destroyer] = "notifies all"
      /\ \A u \in Threads \cup Callers : u # Destroyer => at'[u] = at[u]
  <2>1. \A d \in Callers : awaited'[d] \subseteq 1 .. submitted
    BY <1>1 DEF Work, Numbered
  <2>2. stopping' \in BOOLEAN /\ awaited' \in [Callers -> SUBSET Nat]
    BY <1>1 DEF ThreadPoolTypeOK
  <2>3. at[Destroyer] # "notifies"
    BY <1>1, ThreadPoolConstants
  <2>. QED  BY <1>1, <2>1, <2>2, <2>3, CallerMoves, ThreadPoolConstants DEF InCaller
<1>3. NobodyForgotten'
  BY <1>1, <1>2 DEF NobodyForgotten, Idle
<1>4. Leaving' /\ Covering'
  BY <1>1, <1>2, ThreadPoolConstants DEF Leaving, Covering
<1>. QED  BY <1>2, <1>3, <1>4

LEMMA NotifyAllKeeps ==
  ASSUME IInv, NotifyAll
  PROVE  IInv'
<1>. USE DEF IInv
<1>1. /\ UNCHANGED <<tasks, busy, activeTasks, stopping, submitted, finished, awaited>>
      /\ at[Destroyer] = "notifies all"
  BY DEF NotifyAll
<1>2. /\ at'[Destroyer] = "joins"
      /\ \A u \in Threads \cup Callers : u # Destroyer =>
           at'[u] = IF u \in Asleep THEN "awake" ELSE at[u]
      /\ DOMAIN at' = Threads \cup Callers /\ at' = [u \in DOMAIN at' |-> at'[u]]
  BY ThreadPoolConstants DEF NotifyAll, ThreadPoolTypeOK, PlacesOK
<1>3. \A w \in Threads : at'[w] = IF at[w] = "asleep" THEN "awake" ELSE at[w]
  BY <1>2, ThreadPoolConstants DEF Asleep
<1>4. \A c \in Callers : c # Destroyer => at'[c] = at[c]
  BY <1>2, ThreadPoolConstants DEF Asleep
<1>5. Asleep' = {} /\ Running' = Running
  BY <1>3 DEF Asleep, Running
<1>6. ThreadPoolTypeOK'
  <2>1. \A u \in Threads \cup Callers :
          /\ at'[u] \in InWorker \cup InCaller
          /\ at'[u] \in InWorker <=> u \in Threads
    <3>1. \A w \in Threads : at'[w] \in InWorker
      BY <1>3 DEF ThreadPoolTypeOK, PlacesOK, InWorker
    <3>2. \A c \in Callers : at'[c] \in InCaller /\ at'[c] \notin InWorker
      BY <1>2, <1>4, ThreadPoolConstants DEF ThreadPoolTypeOK, PlacesOK, InWorker, InCaller
    <3>. QED  BY <3>1, <3>2, ThreadPoolConstants
  <2>2. PlacesOK'
    BY <1>2, <2>1 DEF PlacesOK
  <2>. QED  BY <1>1, <2>2 DEF ThreadPoolTypeOK
<1>7. Work'
  BY <1>1, <1>5, SameWork DEF Work, Numbered
<1>8. NobodyForgotten'
  BY <1>1, <1>2, <1>4, <1>5 DEF NobodyForgotten, Idle
<1>9. Leaving' /\ Covering'
  BY <1>1, <1>2, <1>3, <1>4 DEF Leaving, Covering
<1>. QED  BY <1>6, <1>7, <1>8, <1>9

LEMMA JoinKeeps ==
  ASSUME IInv, Join
  PROVE  IInv'
<1>. USE DEF IInv
<1>1. /\ UNCHANGED <<tasks, busy, activeTasks, stopping, submitted, finished, awaited>>
      /\ at[Destroyer] = "joins" /\ \A w \in Threads : at[w] = "left"
      /\ Goes(Destroyer, "destroyed")
  BY DEF Join
<1>2. /\ ThreadPoolTypeOK' /\ Work' /\ Asleep' = Asleep /\ Ready' = Ready
      /\ at'[Destroyer] = "destroyed"
      /\ \A u \in Threads \cup Callers : u # Destroyer => at'[u] = at[u]
  <2>1. \A d \in Callers : awaited'[d] \subseteq 1 .. submitted
    BY <1>1 DEF Work, Numbered
  <2>2. stopping' \in BOOLEAN /\ awaited' \in [Callers -> SUBSET Nat]
    BY <1>1 DEF ThreadPoolTypeOK
  <2>3. at[Destroyer] # "notifies"
    BY <1>1
  <2>. QED  BY <1>1, <2>1, <2>2, <2>3, CallerMoves, ThreadPoolConstants DEF InCaller
<1>3. Asleep = {}
  BY <1>1 DEF Asleep
<1>4. NobodyForgotten'
  BY <1>1, <1>2, <1>3, ThreadPoolConstants DEF NobodyForgotten, Idle
<1>5. Leaving' /\ Covering'
  BY <1>1, <1>2, ThreadPoolConstants DEF Leaving, Covering
<1>. QED  BY <1>2, <1>4, <1>5

-----------------------------------------------------------------------------
(* IInv is inductive: no critical section, notification or wake-up of      *)
(* thread_pool.hpp leads out of it.                                        *)
THEOREM InvariantInductive == ThreadPoolSpec => []IInv
<1>1. InitThreadPool => IInv
  BY InitiallyInv
<1>2. ASSUME IInv, [NextThreadPool]_threadPool PROVE IInv'
  <2>1. DOMAIN at = Threads \cup Callers
    BY <1>2 DEF IInv, ThreadPoolTypeOK, PlacesOK
  <2>2. CASE \E t \in DOMAIN at : Submit(t) \/ NotifyOne(t)
    BY <1>2, <2>1, <2>2, SubmitKeeps, NotifyOneKeeps
  <2>3. CASE \E w \in Threads : TakeTask(w) \/ SleepOrLeave(w) \/ EndTask(w)
    BY <1>2, <2>3, TakeTaskKeeps, SleepOrLeaveKeeps, EndTaskKeeps
  <2>4. CASE \E c \in Callers : StartWaiting(c) \/ CheckIdle(c) \/ Leave(c)
    BY <1>2, <2>4, StartWaitingKeeps, CheckIdleKeeps, LeaveKeeps
  <2>5. CASE Stop \/ NotifyAll \/ Join
    BY <1>2, <2>5, StopKeeps, NotifyAllKeeps, JoinKeeps
  <2>6. CASE UNCHANGED threadPool
    BY <1>2, <2>6 DEF threadPool, IInv, ThreadPoolTypeOK, PlacesOK, Work, Numbered, Counted,
       Whereabouts, Running, NobodyForgotten, Asleep, Ready, Notifying, Idle, Leaving, Covering
  <2>. QED  BY <1>2, <2>2, <2>3, <2>4, <2>5, <2>6 DEF NextThreadPool
<1>. QED  BY <1>1, <1>2, PTL DEF ThreadPoolSpec

(* No wake-up is lost: while a worker sleeps, as many threads are awake or *)
(* about to notify as there are tasks in the queue.                        *)
THEOREM NoWakeUpLost == ThreadPoolSpec => []NobodyForgotten
<1>1. IInv => NobodyForgotten
  BY DEF IInv
<1>. QED  BY <1>1, InvariantInductive, PTL

(* wait_idle() and the destructor return after the work they promise to    *)
(* wait for.                                                               *)
THEOREM WaitingCoversWork == ThreadPoolSpec => []ReturnsAfterWork
<1>1. ASSUME IInv PROVE ReturnsAfterWork
  <2>1. ASSUME at[Destroyer] = "destroyed" PROVE finished = 1 .. submitted
    <3>1. tasks = <<>> /\ Running = {}
      BY <1>1, <2>1 DEF IInv, Leaving, Running
    <3>2. 1 .. Len(tasks) = {}
      BY <3>1, EmptySeq
    <3>. QED  BY <1>1, <3>1, <3>2 DEF IInv, Work, Whereabouts, Numbered
  <2>. QED  BY <1>1, <2>1 DEF IInv, Covering, ReturnsAfterWork
<1>. QED  BY <1>1, InvariantInductive, PTL
=============================================================================
