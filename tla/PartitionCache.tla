----------------------------- MODULE PartitionCache -----------------------------
(***************************************************************************)
(* PartitionCache: payloads by partition id within a budget of bytes, the  *)
(* least recently used ones evicted.  Used by one thread at a time; the    *)
(* hit and miss counters are left out.                                     *)
(***************************************************************************)
EXTENDS Integers, Sequences, FiniteSets, SequencesExt, FiniteSetsExt

CONSTANTS Partitions,    \* partition ids
          Sizes,         \* sizes of payloads
          Capacity       \* capacity_

ASSUME CacheConstants ==
  /\ IsFiniteSet(Partitions)
  /\ Sizes \subseteq Nat /\ Capacity \in Nat

VARIABLES bytes,         \* entries_: the bytes of each cached partition
          lru,           \* lru_, most recently used first
          resident,      \* stats_.resident_bytes
          used           \* history: partitions put or found and not erased
                         \* since, most recent first

cache == <<bytes, lru, resident, used>>

InitCache == bytes = <<>> /\ lru = <<>> /\ resident = 0 /\ used = <<>>

-----------------------------------------------------------------------------
Cached == DOMAIN bytes

(* erase(lru_it): an entry knows its place in the list. *)
Without(s, p) == RemoveFirst(s, p)

Restricted(f, ids) == [p \in ids |-> f[p]]

(* The bytes of the payloads of some entries, one by one. *)
Bytes(entries, ids) == UNION {{p} \X (1 .. entries[p]) : p \in ids}

Size(entries, ids) == Cardinality(Bytes(entries, ids))

(* evict_one until n more bytes fit: from the back of the list. *)
Fitting(entries, order, total, n) ==
  LET rest(k) == SubSeq(order, 1, Len(order) - k)
      left(k) == total - Size(entries, ToSet(order) \ ToSet(rest(k)))
      fits(k) == left(k) + n <= Capacity \/ k = Len(order)
      evicted == CHOOSE k \in 0 .. Len(order) : fits(k) /\ \A j \in 0 .. k - 1 : ~fits(j)
  IN  [order |-> rest(evicted), total |-> left(evicted)]

(* Mutant: a lookup does not count as a use. *)
GetUntouched(p) ==
  /\ p \in Cached
  /\ used' = <<p>> \o Without(used, p)
  /\ UNCHANGED <<bytes, lru, resident>>

Get(p) ==
  /\ p \in Cached
  /\ lru' = <<p>> \o Without(lru, p)
  /\ used' = <<p>> \o Without(used, p)
  /\ UNCHANGED <<bytes, resident>>

(* An existing entry is removed first; a payload above the capacity is     *)
(* refused with the cache unchanged.                                       *)
Put(p, n) ==
  /\ n <= Capacity
  /\ LET old  == IF p \in Cached THEN bytes[p] ELSE 0
         room == Fitting(bytes, Without(lru, p), resident - old, n)
     IN  /\ lru' = <<p>> \o room.order
         /\ bytes' = [q \in ToSet(lru') |-> IF q = p THEN n ELSE bytes[q]]
         /\ resident' = room.total + n
  /\ used' = <<p>> \o Without(used, p)

Erase(p) ==
  /\ p \in Cached
  /\ resident' = resident - bytes[p]
  /\ lru' = Without(lru, p)
  /\ bytes' = Restricted(bytes, Cached \ {p})
  /\ used' = Without(used, p)

Clear == bytes' = <<>> /\ lru' = <<>> /\ resident' = 0 /\ used' = <<>>

NextCache ==
  \/ \E p \in Partitions : Get(p) \/ Erase(p) \/ \E n \in Sizes : Put(p, n)
  \/ Clear

-----------------------------------------------------------------------------
(* resident_bytes is the size of what is cached and stays within budget,   *)
(* and the list that decides on eviction names every entry once.           *)
CacheAccounted ==
  /\ resident = Size(bytes, Cached)
  /\ resident <= Capacity
  /\ ToSet(lru) = Cached /\ Len(lru) = Cardinality(Cached)

(* A partition is only evicted after every one used before it, through     *)
(* replacements with other sizes, lookups and erasures.                    *)
RecentKept ==
  \A i, j \in DOMAIN used : i < j /\ used[j] \in Cached => used[i] \in Cached

(* The cache stays within its budget and evicts by recency.                *)
CacheSound == CacheAccounted /\ RecentKept
=============================================================================
