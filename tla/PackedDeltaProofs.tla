--------------------------- MODULE PackedDeltaProofs ---------------------------
(***************************************************************************)
(* Proofs about PackedDelta for every set of rows and destinations and     *)
(* every arena: what the operations do to the slots (InsertEffect,         *)
(* EraseEffect, FlipEffect, RepackEffect), hence to the sorted rows        *)
(* (InsertRow, EraseRow, FlipRow), hence to the overlay entries and their  *)
(* counts (InsertKeeps, EraseKeeps, FlipKeeps, ClearRowKeeps,              *)
(* RepackKeeps), hence to the map of DeltaMap (StepKeeps).                 *)
(*                                                                         *)
(* IInv says three things of a state: rows own disjoint slots of the arena *)
(* (Layout), rows list known destinations in strictly ascending order      *)
(* (Sorted, Named), and each counter is the size of the set it stands for  *)
(* (EntriesCounted).  The binary search is right because rows are sorted   *)
(* (FoundIs), and packing is right because live_entries_ is the number of  *)
(* used slots, so that the rows' new extents follow one another up to the  *)
(* end of the new arena (PackedOrder, PackedCovers).                       *)
(***************************************************************************)
EXTENDS PackedDelta, FiniteSetTheorems, FunctionTheorems, SequenceTheorems,
        WellFoundedInduction, TLAPS

(* A finite, non-empty set of numbers has a largest element: otherwise a   *)
(* smallest subset without one would have one.                             *)
LEMMA LargestOf ==
  ASSUME NEW L, IsFiniteSet(L), L \subseteq Int, L # {}
  PROVE  \E m \in L : \A x \in L : x <= m
<1>. DEFINE Bad == {S \in SUBSET L : S # {} /\ ~ \E m \in S : \A x \in S : x <= m}
<1>. SUFFICES ASSUME L \in Bad PROVE FALSE
  OBVIOUS
<1>1. Bad \subseteq FiniteSubsetsOf(L) /\ Bad # {}
  BY FS_Subset DEF FiniteSubsetsOf
<1>2. PICK S \in Bad : \A T \in Bad : ~(<<T, S>> \in StrictSubsetOrdering(L))
  <2>. HIDE DEF Bad
  <2>. QED  BY <1>1, FS_StrictSubsetOrderingWellFounded, WFMin
<1>3. PICK x \in S : TRUE
  OBVIOUS
<1>4. S \ {x} \in Bad
  <2>1. CASE S \ {x} = {}
    BY <2>1
  <2>2. ASSUME NEW m \in S \ {x}, \A y \in S \ {x} : y <= m PROVE FALSE
    <3>1. m \in Int /\ x \in Int /\ m \in S
      OBVIOUS
    <3>2. CASE x <= m
      BY <2>2, <3>1, <3>2
    <3>3. CASE m <= x
      <4>1. \A y \in S : y <= x
        BY <2>2, <3>1, <3>3
      <4>. QED  BY <4>1
    <3>. QED  BY <3>1, <3>2, <3>3
  <2>. QED  BY <2>1, <2>2
<1>5. <<S \ {x}, S>> \in StrictSubsetOrdering(L)
  BY DEF StrictSubsetOrdering
<1>. QED  BY <1>2, <1>4, <1>5

(* A set that holds every number below its elements is an interval.        *)
LEMMA InitialSegment ==
  ASSUME NEW n \in Nat, NEW S \in SUBSET (1 .. n),
         \A i \in S, j \in 1 .. n : j <= i => j \in S
  PROVE  Cardinality(S) \in 0 .. n /\ S = 1 .. Cardinality(S)
<1>1. IsFiniteSet(S) /\ S \subseteq Int
  <2>1. IsFiniteSet(1 .. n)
    BY FS_Interval
  <2>2. IsFiniteSet(S)
    BY <2>1, FS_Subset
  <2>. QED  BY <2>2
<1>2. CASE S = {}
  BY <1>2, FS_EmptySet
<1>3. CASE S # {}
  <2>1. PICK m \in S : \A x \in S : x <= m
    BY <1>1, <1>3, LargestOf
  <2>2. S = 1 .. m
    <3>1. m \in 1 .. n
      OBVIOUS
    <3>2. \A j \in 1 .. m : j \in S
      BY <3>1
    <3>3. \A j \in S : j \in 1 .. m
      BY <2>1, <3>1
    <3>. QED  BY <3>2, <3>3
  <2>3. Cardinality(1 .. m) = m /\ m \in 1 .. n
    BY FS_Interval
  <2>. QED  BY <2>2, <2>3
<1>. QED  BY <1>2, <1>3

-----------------------------------------------------------------------------
Cell == [dst : Targets \cup {0}, present : BOOLEAN]

(* The arena is a sequence, and rows have slots of their own in it. *)
Layout ==
  /\ arena \in Seq(Cell)
  /\ meta \in [Rows -> [offset : Nat \cup {NoOffset}, count : Nat, capacity : Nat]]
  /\ \A u \in Rows :
       /\ meta[u].count <= meta[u].capacity
       /\ meta[u].capacity > 0 =>
            meta[u].offset \in Nat /\ meta[u].offset + meta[u].capacity <= Len(arena)
  /\ \A u, w \in Rows : u # w => Extent(u) \cap Extent(w) = {}

Sorted ==
  \A u \in Rows : \A i, j \in 1 .. meta[u].count : i < j => Row(u)[i].dst < Row(u)[j].dst

(* The cells of a row are slots of its extent. *)
RowsAreCells ==
  \A u \in Rows : \A i \in 1 .. meta[u].count :
    /\ meta[u].offset \in Nat /\ meta[u].offset + i \in Extent(u)
    /\ meta[u].offset + i \in 1 .. Len(arena)
    /\ Row(u)[i] = arena[meta[u].offset + i] /\ Row(u)[i] \in Cell

LEMMA RowCells == Layout => RowsAreCells
<1>. SUFFICES ASSUME Layout, NEW u \in Rows, NEW i \in 1 .. meta[u].count
              PROVE  /\ meta[u].offset \in Nat /\ meta[u].offset + i \in Extent(u)
                     /\ meta[u].offset + i \in 1 .. Len(arena)
                     /\ Row(u)[i] = arena[meta[u].offset + i] /\ Row(u)[i] \in Cell
  BY DEF RowsAreCells
<1>. DEFINE o == meta[u].offset  n == meta[u].count
<1>1. /\ o \in Nat /\ n \in Nat \ {0} /\ meta[u].capacity \in Nat
      /\ n <= meta[u].capacity /\ o + meta[u].capacity <= Len(arena)
      /\ arena \in Seq(Cell)
  BY DEF Layout
<1>2. Len(arena) \in Nat /\ \A k \in 1 .. Len(arena) : arena[k] \in Cell
  BY <1>1, LenProperties
<1>3. \A j \in 1 .. n : o + j \in 1 .. Len(arena)
  BY <1>1, <1>2
<1>4. \A k \in (o + 1) .. (o + n) : arena[k] \in Cell
  <2>. SUFFICES ASSUME NEW k \in (o + 1) .. (o + n) PROVE arena[k] \in Cell
    OBVIOUS
  <2>1. k - o \in 1 .. n /\ o + (k - o) = k
    BY <1>1
  <2>. QED  BY <1>2, <1>3, <2>1
<1>5. Row(u) = SubSeq(arena, o + 1, o + n)
  BY <1>1 DEF Row
<1>6. (o + n) - (o + 1) + 1 = n /\ (o + 1) + i - 1 = o + i /\ o + 1 \in Int /\ o + n \in Int
  <2>1. o \in Nat /\ n \in Nat /\ i \in Int
    BY <1>1
  <2>. HIDE DEF o, n
  <2>. QED  BY <2>1
<1>7. Row(u)[i] = arena[o + i]
  <2>. HIDE DEF o, n
  <2>1. i \in 1 .. (o + n) - (o + 1) + 1
    BY <1>6 DEF n
  <2>2. SubSeq(arena, o + 1, o + n)[i] = arena[(o + 1) + i - 1]
    BY <1>4, <1>6, <2>1, SubSeqProperties
  <2>. QED  BY <1>5, <1>6, <2>2
<1>8. o + i \in Extent(u)
  BY <1>1 DEF Extent
<1>. QED  BY <1>1, <1>2, <1>3, <1>7, <1>8

LEMMA RowCellsAfter == Layout' => RowsAreCells'
BY RowCells, PTL

(* lower_bound: the entries before Position are those below v. *)
LEMMA PositionIs ==
  ASSUME Layout, Sorted, NEW u \in Rows, NEW v \in Targets
  PROVE  /\ Position(u, v) \in 0 .. meta[u].count
         /\ \A i \in 1 .. meta[u].count : i <= Position(u, v) <=> Row(u)[i].dst < v
<1>. DEFINE n == meta[u].count  S == {i \in 1 .. n : Row(u)[i].dst < v}
<1>1. n \in Nat
  BY DEF Layout
<1>2. v \in Nat /\ \A i \in 1 .. n : Row(u)[i].dst \in Nat
  <2>1. \A i \in 1 .. n : Row(u)[i] \in Cell
    BY RowCells DEF RowsAreCells
  <2>2. v \in Nat /\ \A c \in Cell : c.dst \in Nat
    <3>1. Targets \subseteq Nat /\ Targets \cup {0} \subseteq Nat
      BY DeltaConstants
    <3>2. ASSUME NEW c \in Cell PROVE c.dst \in Targets \cup {0}
      BY DEF Cell
    <3>. QED  BY <3>1, <3>2
  <2>. QED  BY <2>1, <2>2
<1>3. \A i \in S, j \in 1 .. n : j <= i => j \in S
  <2>. SUFFICES ASSUME NEW i \in S, NEW j \in 1 .. n, j <= i PROVE Row(u)[j].dst < v
    OBVIOUS
  <2>1. CASE j = i
    BY <2>1
  <2>2. CASE j # i
    <3>1. Row(u)[j].dst < Row(u)[i].dst
      BY <1>1, <2>2 DEF Sorted
    <3>. QED  BY <1>2, <3>1
  <2>. QED  BY <2>1, <2>2
<1>4. Cardinality(S) \in 0 .. n /\ S = 1 .. Cardinality(S)
  <2>1. S \in SUBSET (1 .. n)
    OBVIOUS
  <2>. HIDE DEF S
  <2>. QED  BY <1>1, <1>3, <2>1, InitialSegment
<1>5. Position(u, v) = Cardinality(S)
  BY DEF Position
<1>6. ASSUME NEW i \in 1 .. n PROVE i <= Position(u, v) <=> Row(u)[i].dst < v
  <2>1. i \in S <=> Row(u)[i].dst < v
    OBVIOUS
  <2>. HIDE DEF S
  <2>2. i <= Cardinality(S) <=> i \in S
    BY <1>1, <1>4
  <2>. QED  BY <1>5, <2>1, <2>2
<1>. QED  BY <1>4, <1>5, <1>6

-----------------------------------------------------------------------------
LEMMA SeqOfFunction ==
  ASSUME NEW S, NEW n \in Nat, NEW f \in [1 .. n -> S]
  PROVE  f \in Seq(S) /\ Len(f) = n
BY SeqDef, LenProperties

(* ensure_capacity: the row fits in slots no other row owns, with its      *)
(* entries, and the rest of the arena is as it was.                        *)
LEMMA GrownIs ==
  ASSUME Layout, NEW u \in Rows
  PROVE  /\ Grown(u).arena \in Seq(Cell) /\ Len(arena) <= Len(Grown(u).arena)
         /\ \A k \in 1 .. Len(arena) : Grown(u).arena[k] = arena[k]
         /\ Grown(u).offset \in Nat /\ Grown(u).capacity \in Nat
         /\ meta[u].count + 1 <= Grown(u).capacity
         /\ Grown(u).offset + Grown(u).capacity <= Len(Grown(u).arena)
         /\ \A i \in 1 .. meta[u].count :
              Grown(u).arena[Grown(u).offset + i] = arena[meta[u].offset + i]
         /\ \A w \in Rows \ {u} :
              Extent(w) \cap ((Grown(u).offset + 1) .. (Grown(u).offset + Grown(u).capacity)) = {}
<1>. DEFINE m == meta[u]
<1>1. /\ arena \in Seq(Cell) /\ Len(arena) \in Nat
      /\ m.count \in Nat /\ m.capacity \in Nat /\ m.count <= m.capacity
  BY LenProperties DEF Layout
<1>2. CASE m.capacity >= m.count + 1
  <2>1. Grown(u) = [arena |-> arena, offset |-> m.offset, capacity |-> m.capacity]
    BY <1>2 DEF Grown
  <2>2. m.offset \in Nat /\ m.offset + m.capacity <= Len(arena)
    BY <1>1, <1>2 DEF Layout
  <2>3. \A w \in Rows \ {u} : Extent(w) \cap ((m.offset + 1) .. (m.offset + m.capacity)) = {}
    BY DEF Layout, Extent
  <2>. QED  BY <1>1, <1>2, <2>1, <2>2, <2>3
<1>3. CASE ~(m.capacity >= m.count + 1)
  <2>. DEFINE old == IF 2 * m.capacity > 1 THEN 2 * m.capacity ELSE 1
              cap == IF m.count + 1 > old THEN m.count + 1 ELSE old
              new == [k \in 1 .. cap |->
                        IF k <= m.count THEN arena[m.offset + k] ELSE FreshSlot]
  <2>1. Grown(u) = [arena |-> arena \o new, offset |-> Len(arena), capacity |-> cap]
    BY <1>3 DEF Grown
  <2>2. cap \in Nat /\ m.count + 1 <= cap
    BY <1>1
  <2>3. new \in [1 .. cap -> Cell]
    <3>1. FreshSlot \in Cell
      BY DEF FreshSlot, Cell
    <3>2. \A k \in 1 .. m.count : arena[m.offset + k] \in Cell
      BY RowCells DEF RowsAreCells
    <3>3. \A k \in 1 .. cap : k <= m.count => k \in 1 .. m.count
      BY <1>1
    <3>. HIDE DEF cap, m
    <3>. QED  BY <3>1, <3>2, <3>3
  <2>4. new \in Seq(Cell) /\ Len(new) = cap
    <3>. HIDE DEF new, cap
    <3>. QED  BY <2>2, <2>3, SeqOfFunction
  <2>5. \A i \in 1 .. m.count : i \in 1 .. cap /\ new[i] = arena[m.offset + i]
    <3>1. \A i \in 1 .. m.count : i \in 1 .. cap /\ i <= m.count
      BY <1>1, <2>2
    <3>. HIDE DEF cap, m
    <3>. QED  BY <3>1
  <2>. HIDE DEF new, cap
  <2>6. /\ arena \o new \in Seq(Cell) /\ Len(arena \o new) = Len(arena) + cap
        /\ \A i \in 1 .. Len(arena) + cap :
             (arena \o new)[i] = IF i <= Len(arena) THEN arena[i] ELSE new[i - Len(arena)]
    BY <1>1, <2>4, ConcatProperties
  <2>7. \A k \in 1 .. Len(arena) : (arena \o new)[k] = arena[k]
    BY <1>1, <2>2, <2>6
  <2>8. \A i \in 1 .. m.count : (arena \o new)[Len(arena) + i] = arena[m.offset + i]
    <3>. SUFFICES ASSUME NEW i \in 1 .. m.count
                  PROVE  (arena \o new)[Len(arena) + i] = arena[m.offset + i]
      OBVIOUS
    <3>1. i \in 1 .. cap
      BY <2>5
    <3>. HIDE DEF m
    <3>2. /\ Len(arena) + i \in 1 .. Len(arena) + cap /\ ~(Len(arena) + i <= Len(arena))
          /\ (Len(arena) + i) - Len(arena) = i
      BY <1>1, <2>2, <3>1
    <3>. QED  BY <2>5, <2>6, <3>2
  <2>9. \A w \in Rows : Extent(w) \cap ((Len(arena) + 1) .. (Len(arena) + cap)) = {}
    <3>. SUFFICES ASSUME NEW w \in Rows, NEW k \in Extent(w)
                  PROVE  k <= Len(arena)
      BY <1>1, <2>2
    <3>1. meta[w].offset \in Int /\ meta[w].capacity \in Nat
      BY DEF Layout, NoOffset
    <3>2. k \in Int /\ k <= meta[w].offset + meta[w].capacity /\ meta[w].capacity > 0
      BY <3>1 DEF Extent
    <3>3. meta[w].offset + meta[w].capacity <= Len(arena)
      BY <3>2 DEF Layout
    <3>. QED  BY <1>1, <3>1, <3>2, <3>3
  <2>. QED  BY <1>1, <2>1, <2>2, <2>6, <2>7, <2>8, <2>9
<1>. QED  BY <1>2, <1>3

-----------------------------------------------------------------------------
SameRow(w) ==
  /\ meta'[w] = meta[w]
  /\ \A i \in 1 .. meta[w].count : Row(w)'[i] = Row(w)[i]

(* Inserting shifts the row's successors up and touches no other row.      *)
LEMMA InsertEffect ==
  ASSUME Layout, NEW u \in Rows, NEW v \in Targets, NEW present \in BOOLEAN,
         Position(u, v) \in 0 .. meta[u].count, InsertAt(u, v, present)
  PROVE  /\ Layout' /\ meta'[u].count = meta[u].count + 1
         /\ \A i \in 1 .. meta[u].count + 1 :
              Row(u)'[i] = IF i = Position(u, v) + 1 THEN [dst |-> v, present |-> present]
                           ELSE IF i <= Position(u, v) THEN Row(u)[i] ELSE Row(u)[i - 1]
         /\ \A w \in Rows \ {u} : SameRow(w)
<1>. DEFINE n == meta[u].count  p == Position(u, v)
            a == Grown(u).arena  o == Grown(u).offset  c == Grown(u).capacity
            cell == [dst |-> v, present |-> present]
<1>1. /\ n \in Nat /\ p \in 0 .. n /\ p \in Nat
      /\ a \in Seq(Cell) /\ Len(a) \in Nat /\ DOMAIN a = 1 .. Len(a)
      /\ \A k \in 1 .. Len(a) : a[k] \in Cell
      /\ o \in Nat /\ c \in Nat /\ n + 1 <= c /\ o + c <= Len(a)
      /\ Len(arena) \in Nat /\ Len(arena) <= Len(a)
      /\ cell \in Cell
  <2>1. a \in Seq(Cell) /\ arena \in Seq(Cell) /\ n \in Nat
    BY GrownIs DEF Layout
  <2>2. /\ Len(a) \in Nat /\ DOMAIN a = 1 .. Len(a) /\ Len(arena) \in Nat
        /\ \A k \in 1 .. Len(a) : a[k] \in Cell
    <3>. HIDE DEF a
    <3>. QED  BY <2>1, LenProperties
  <2>3. cell \in Cell
    BY DEF Cell
  <2>4. p \in 0 .. n /\ p \in Nat
    BY <2>1
  <2>. HIDE DEF p, cell
  <2>. QED  BY <2>1, <2>2, <2>3, <2>4, GrownIs
<1>2. /\ DOMAIN arena' = 1 .. Len(a) /\ arena' = [k \in 1 .. Len(a) |-> arena'[k]]
      /\ \A k \in 1 .. Len(a) :
           arena'[k] = IF k = o + p + 1 THEN cell
                       ELSE IF o + p + 1 < k /\ k <= o + n + 1 THEN a[k - 1] ELSE a[k]
  BY <1>1 DEF InsertAt
<1>3. /\ meta'[u] = [offset |-> o, count |-> n + 1, capacity |-> c]
      /\ \A w \in Rows \ {u} : meta'[w] = meta[w]
      /\ meta' \in [Rows -> [offset : Nat \cup {NoOffset}, count : Nat, capacity : Nat]]
  BY <1>1 DEF InsertAt, Layout
<1>. HIDE DEF n, p, a, o, c, cell
<1>4. arena' \in Seq(Cell) /\ Len(arena') = Len(a)
  <2>1. ASSUME NEW k \in 1 .. Len(a) PROVE arena'[k] \in Cell
    <3>1. o + p + 1 < k => k - 1 \in 1 .. Len(a)
      BY <1>1
    <3>. QED  BY <1>1, <1>2, <3>1
  <2>2. arena' \in [1 .. Len(a) -> Cell]
    BY <1>2, <2>1
  <2>. QED  BY <1>1, <2>2, SeqOfFunction
<1>5. /\ Extent(u)' = (o + 1) .. (o + c)
      /\ \A w \in Rows \ {u} : Extent(w)' = Extent(w)
      /\ \A w \in Rows \ {u} : Extent(w) \cap ((o + 1) .. (o + c)) = {}
  BY <1>3, GrownIs DEF Extent, o, c
<1>6. Layout'
  <2>1. ASSUME NEW w \in Rows
        PROVE  /\ meta'[w].count <= meta'[w].capacity
               /\ meta'[w].capacity > 0 =>
                    meta'[w].offset \in Nat /\ meta'[w].offset + meta'[w].capacity <= Len(arena')
    <3>1. CASE w = u
      BY <1>1, <1>3, <1>4, <3>1
    <3>2. CASE w # u
      <4>1. /\ meta'[w] = meta[w] /\ meta[w].count <= meta[w].capacity
            /\ meta[w].offset \in Int /\ meta[w].capacity \in Nat
            /\ meta[w].capacity > 0 =>
                 meta[w].offset \in Nat /\ meta[w].offset + meta[w].capacity <= Len(arena)
        BY <1>3, <3>2 DEF Layout, NoOffset
      <4>. QED  BY <1>1, <1>4, <4>1
    <3>. QED  BY <3>1, <3>2
  <2>2. \A w, x \in Rows : w # x => Extent(w)' \cap Extent(x)' = {}
    <3>1. \A w, x \in Rows \ {u} : w # x => Extent(w)' \cap Extent(x)' = {}
      BY <1>5 DEF Layout
    <3>2. \A w \in Rows \ {u} : Extent(w)' \cap Extent(u)' = {}
      BY <1>5
    <3>. QED  BY <3>1, <3>2
  <2>. QED  BY <1>3, <1>4, <2>1, <2>2 DEF Layout
<1>7. \A i \in 1 .. n : Row(u)[i] = a[o + i]
  BY RowCells, GrownIs DEF RowsAreCells, n, a, o
<1>8. ASSUME NEW i \in 1 .. n + 1
      PROVE  Row(u)'[i] = IF i = p + 1 THEN cell ELSE IF i <= p THEN Row(u)[i] ELSE Row(u)[i - 1]
  <2>1. Row(u)'[i] = arena'[o + i]
    BY <1>3, <1>6, RowCellsAfter DEF RowsAreCells
  <2>2. o + i \in 1 .. Len(a) /\ o + i <= o + n + 1
    BY <1>1
  <2>3. CASE i = p + 1
    <3>1. o + i = o + p + 1
      BY <1>1, <2>3
    <3>. QED  BY <1>2, <2>1, <2>2, <2>3, <3>1
  <2>4. CASE i <= p
    <3>1. i \in 1 .. n /\ i # p + 1 /\ o + i # o + p + 1 /\ ~(o + p + 1 < o + i)
      BY <1>1, <2>4
    <3>. QED  BY <1>2, <1>7, <2>1, <2>2, <2>4, <3>1
  <2>5. CASE i > p + 1
    <3>1. /\ i - 1 \in 1 .. n /\ i # p + 1 /\ ~(i <= p) /\ o + p + 1 < o + i
          /\ o + i # o + p + 1 /\ (o + i) - 1 = o + (i - 1)
      BY <1>1, <2>5
    <3>. QED  BY <1>2, <1>7, <2>1, <2>2, <3>1
  <2>. QED  BY <1>1, <2>3, <2>4, <2>5
<1>9. ASSUME NEW w \in Rows \ {u}, NEW i \in 1 .. meta[w].count
      PROVE  Row(w)'[i] = Row(w)[i]
  <2>. DEFINE k == meta[w].offset + i
  <2>1. k \in Extent(w) /\ k \in 1 .. Len(arena) /\ Row(w)[i] = arena[k]
    BY RowCells DEF RowsAreCells
  <2>2. Row(w)'[i] = arena'[k]
    BY <1>3, <1>6, RowCellsAfter DEF RowsAreCells
  <2>. HIDE DEF k
  <2>3. k \in 1 .. Len(a) /\ ~(o + 1 <= k /\ k <= o + c)
    BY <1>1, <1>5, <2>1
  <2>4. k # o + p + 1 /\ ~(o + p + 1 < k /\ k <= o + n + 1)
    BY <1>1, <2>3
  <2>5. a[k] = arena[k]
    BY <2>1, GrownIs DEF a
  <2>. QED  BY <1>2, <2>1, <2>2, <2>3, <2>4, <2>5
<1>. QED  BY <1>3, <1>6, <1>8, <1>9 DEF SameRow, n, p, cell

(* Steps that rewrite a row in its slots. *)
LEMMA InPlace ==
  ASSUME Layout, NEW u \in Rows, NEW n \in 0 .. meta[u].count,
         meta' = [meta EXCEPT ![u].count = n],
         DOMAIN arena' = DOMAIN arena, arena' = [k \in DOMAIN arena |-> arena'[k]],
         \A k \in 1 .. Len(arena) :
           arena'[k] \in Cell /\ (k \notin Extent(u) => arena'[k] = arena[k])
  PROVE  /\ Layout' /\ meta'[u].count = n
         /\ \A w \in Rows \ {u} : SameRow(w)
         /\ \A i \in 1 .. n : Row(u)'[i] = arena'[meta[u].offset + i]
<1>1. arena \in Seq(Cell) /\ Len(arena) \in Nat /\ DOMAIN arena = 1 .. Len(arena)
  BY LenProperties DEF Layout
<1>2. arena' \in Seq(Cell) /\ Len(arena') = Len(arena)
  <2>1. arena' \in [1 .. Len(arena) -> Cell]
    BY <1>1
  <2>. QED  BY <1>1, <2>1, SeqOfFunction
<1>3. /\ meta' \in [Rows -> [offset : Nat \cup {NoOffset}, count : Nat, capacity : Nat]]
      /\ meta'[u].count = n
      /\ \A w \in Rows : meta'[w].offset = meta[w].offset /\ meta'[w].capacity = meta[w].capacity
      /\ \A w \in Rows \ {u} : meta'[w] = meta[w]
  <2>. DEFINE Descriptor == [offset : Nat \cup {NoOffset}, count : Nat, capacity : Nat]
  <2>1. meta \in [Rows -> Descriptor] /\ n \in Nat
    BY DEF Layout
  <2>2. [meta[u] EXCEPT !.count = n] \in Descriptor
    BY <2>1
  <2>3. /\ meta'[u] = [meta[u] EXCEPT !.count = n]
        /\ \A w \in Rows \ {u} : meta'[w] = meta[w]
    BY <2>1
  <2>4. meta' \in [Rows -> Descriptor]
    <3>. HIDE DEF Descriptor
    <3>. QED  BY <2>1, <2>2
  <2>5. /\ meta'[u].count = n
        /\ meta'[u].offset = meta[u].offset /\ meta'[u].capacity = meta[u].capacity
    BY <2>1, <2>3
  <2>. QED  BY <2>3, <2>4, <2>5
<1>4. \A w \in Rows : Extent(w)' = Extent(w)
  BY <1>3 DEF Extent
<1>5. Layout'
  <2>1. ASSUME NEW w \in Rows
        PROVE  /\ meta'[w].count <= meta'[w].capacity
               /\ meta'[w].capacity > 0 =>
                    meta'[w].offset \in Nat /\ meta'[w].offset + meta'[w].capacity <= Len(arena')
    <3>1. /\ meta[w].count <= meta[w].capacity
          /\ meta[w].count \in Nat /\ meta[w].capacity \in Nat
          /\ meta[w].capacity > 0 =>
               meta[w].offset \in Nat /\ meta[w].offset + meta[w].capacity <= Len(arena)
      BY DEF Layout
    <3>2. meta'[w].count \in Nat /\ meta'[w].count <= meta[w].count
      BY <1>3, <3>1
    <3>. QED  BY <1>2, <1>3, <3>1, <3>2
  <2>. QED  BY <1>2, <1>3, <1>4, <2>1 DEF Layout
<1>6. ASSUME NEW w \in Rows \ {u}, NEW i \in 1 .. meta[w].count
      PROVE  Row(w)'[i] = Row(w)[i]
  <2>. DEFINE k == meta[w].offset + i
  <2>1. k \in Extent(w) /\ k \in 1 .. Len(arena) /\ Row(w)[i] = arena[k]
    BY RowCells DEF RowsAreCells
  <2>2. Row(w)'[i] = arena'[k]
    BY <1>3, <1>5, RowCellsAfter DEF RowsAreCells
  <2>. HIDE DEF k
  <2>3. k \notin Extent(u)
    BY <2>1 DEF Layout
  <2>. QED  BY <2>1, <2>2, <2>3
<1>7. \A i \in 1 .. n : Row(u)'[i] = arena'[meta[u].offset + i]
  BY <1>3, <1>5, RowCellsAfter DEF RowsAreCells
<1>. QED  BY <1>3, <1>5, <1>6, <1>7 DEF SameRow

(* Erasing shifts the row's successors down and touches no other row.      *)
LEMMA EraseEffect ==
  ASSUME Layout, NEW u \in Rows, NEW v \in Targets,
         Position(u, v) \in 0 .. meta[u].count - 1, EraseAt(u, v)
  PROVE  /\ Layout' /\ meta'[u].count = meta[u].count - 1
         /\ \A i \in 1 .. meta[u].count - 1 :
              Row(u)'[i] = IF i <= Position(u, v) THEN Row(u)[i] ELSE Row(u)[i + 1]
         /\ \A w \in Rows \ {u} : SameRow(w)
<1>. DEFINE n == meta[u].count  p == Position(u, v)  o == meta[u].offset
<1>1. /\ n \in Nat \ {0} /\ p \in 0 .. n - 1 /\ p \in Nat /\ n - 1 \in 0 .. n
      /\ o \in Nat /\ n <= meta[u].capacity /\ meta[u].capacity \in Nat
      /\ o + meta[u].capacity <= Len(arena)
  BY DEF Layout
<1>2. /\ DOMAIN arena = 1 .. Len(arena) /\ Len(arena) \in Nat
      /\ \A k \in 1 .. Len(arena) : arena[k] \in Cell
  BY LenProperties DEF Layout
<1>3. /\ meta' = [meta EXCEPT ![u].count = n - 1]
      /\ DOMAIN arena' = DOMAIN arena /\ arena' = [k \in DOMAIN arena |-> arena'[k]]
      /\ \A k \in 1 .. Len(arena) :
           arena'[k] = IF o + p + 1 <= k /\ k < o + n THEN arena[k + 1] ELSE arena[k]
  BY <1>2 DEF EraseAt, Layout
<1>4. Extent(u) = (o + 1) .. (o + meta[u].capacity)
  BY DEF Extent
<1>. HIDE DEF n, p, o
<1>5. ASSUME NEW k \in 1 .. Len(arena)
      PROVE  arena'[k] \in Cell /\ (k \notin Extent(u) => arena'[k] = arena[k])
  <2>1. CASE o + p + 1 <= k /\ k < o + n
    <3>. DEFINE c == meta[u].capacity  l == Len(arena)
    <3>1. /\ n \in Nat /\ p \in Nat /\ o \in Nat /\ c \in Nat /\ l \in Nat /\ k \in 1 .. l
          /\ n <= c /\ o + c <= l
      BY <1>1, <1>2
    <3>2. Extent(u) = (o + 1) .. (o + c)
      BY <1>4
    <3>. HIDE DEF c, l
    <3>3. k \in Nat /\ k + 1 <= o + n /\ o + n <= o + c /\ o + 1 <= k
      BY <2>1, <3>1
    <3>4. k + 1 \in 1 .. l /\ k \in (o + 1) .. (o + c)
      BY <3>1, <3>3
    <3>5. k + 1 \in 1 .. Len(arena) /\ k \in Extent(u)
      BY <3>2, <3>4 DEF l
    <3>. QED  BY <1>2, <1>3, <2>1, <3>5
  <2>2. CASE ~(o + p + 1 <= k /\ k < o + n)
    BY <1>2, <1>3, <2>2
  <2>. QED  BY <2>1, <2>2
<1>6. /\ Layout' /\ meta'[u].count = n - 1
      /\ \A w \in Rows \ {u} : SameRow(w)
      /\ \A i \in 1 .. n - 1 : Row(u)'[i] = arena'[o + i]
  BY <1>1, <1>3, <1>5, InPlace DEF n, o
<1>7. \A i \in 1 .. n : Row(u)[i] = arena[o + i]
  BY RowCells DEF RowsAreCells, n, o
<1>8. ASSUME NEW i \in 1 .. n - 1
      PROVE  Row(u)'[i] = IF i <= p THEN Row(u)[i] ELSE Row(u)[i + 1]
  <2>1. o + i \in 1 .. Len(arena) /\ i \in 1 .. n /\ i + 1 \in 1 .. n /\ (o + i) + 1 = o + (i + 1)
    <3>. DEFINE l == Len(arena)
    <3>1. n \in Nat /\ o \in Nat /\ l \in Nat /\ o + n <= l
      <4>. DEFINE c == meta[u].capacity
      <4>1. n \in Nat /\ o \in Nat /\ c \in Nat /\ l \in Nat /\ n <= c /\ o + c <= l
        BY <1>1, <1>2
      <4>. HIDE DEF c, l
      <4>. QED  BY <4>1
    <3>. HIDE DEF l
    <3>2. o + i \in 1 .. l /\ i \in 1 .. n /\ i + 1 \in 1 .. n /\ (o + i) + 1 = o + (i + 1)
      BY <3>1
    <3>. QED  BY <3>2 DEF l
  <2>2. (o + p + 1 <= o + i /\ o + i < o + n) <=> ~(i <= p)
    BY <1>1
  <2>. QED  BY <1>3, <1>6, <1>7, <2>1, <2>2
<1>. QED  BY <1>6, <1>8 DEF n, p

(* Flipping changes one flag of one row.                                   *)
LEMMA FlipEffect ==
  ASSUME Layout, NEW u \in Rows, NEW v \in Targets, NEW present \in BOOLEAN,
         Position(u, v) \in 0 .. meta[u].count - 1, FlipAt(u, v, present)
  PROVE  /\ Layout' /\ meta'[u].count = meta[u].count
         /\ \A i \in 1 .. meta[u].count :
              Row(u)'[i] = IF i = Position(u, v) + 1
                           THEN [dst |-> Row(u)[i].dst, present |-> present] ELSE Row(u)[i]
         /\ \A w \in Rows \ {u} : SameRow(w)
<1>. DEFINE n == meta[u].count  p == Position(u, v)  o == meta[u].offset
<1>1. /\ n \in Nat \ {0} /\ p \in 0 .. n - 1 /\ p \in Nat
      /\ o \in Nat /\ n <= meta[u].capacity /\ meta[u].capacity \in Nat
      /\ o + meta[u].capacity <= Len(arena)
  BY DEF Layout
<1>2. /\ DOMAIN arena = 1 .. Len(arena) /\ Len(arena) \in Nat
      /\ \A k \in 1 .. Len(arena) : arena[k] \in Cell
  BY LenProperties DEF Layout
<1>3. arena' = [arena EXCEPT ![o + p + 1].present = present] /\ meta' = meta
  BY DEF FlipAt
<1>4. Extent(u) = (o + 1) .. (o + meta[u].capacity)
  BY DEF Extent
<1>5. meta' = [meta EXCEPT ![u].count = n]
  BY <1>3 DEF Layout
<1>. HIDE DEF n, p, o
<1>6. /\ DOMAIN arena' = DOMAIN arena /\ arena' = [k \in DOMAIN arena |-> arena'[k]]
      /\ \A k \in 1 .. Len(arena) :
           arena'[k] = IF k = o + p + 1 THEN [arena[k] EXCEPT !.present = present] ELSE arena[k]
  BY <1>2, <1>3
<1>7. \A cell \in Cell : /\ [cell EXCEPT !.present = present] \in Cell
                         /\ [cell EXCEPT !.present = present] =
                              [dst |-> cell.dst, present |-> present]
  BY DEF Cell
<1>8. ASSUME NEW k \in 1 .. Len(arena)
      PROVE  arena'[k] \in Cell /\ (k \notin Extent(u) => arena'[k] = arena[k])
  <2>1. k = o + p + 1 => k \in Extent(u)
    BY <1>1, <1>4
  <2>. QED  BY <1>2, <1>6, <1>7, <2>1
<1>9. /\ Layout' /\ meta'[u].count = n
      /\ \A w \in Rows \ {u} : SameRow(w)
      /\ \A i \in 1 .. n : Row(u)'[i] = arena'[o + i]
  <2>1. n \in 0 .. meta[u].count
    BY <1>1 DEF n
  <2>. QED  BY <1>5, <1>6, <1>8, <2>1, InPlace DEF o
<1>10. \A i \in 1 .. n : Row(u)[i] = arena[o + i] /\ arena[o + i] \in Cell
  BY RowCells DEF RowsAreCells, n, o
<1>11. ASSUME NEW i \in 1 .. n
       PROVE  Row(u)'[i] = IF i = p + 1 THEN [dst |-> Row(u)[i].dst, present |-> present]
                           ELSE Row(u)[i]
  <2>1. o + i \in 1 .. Len(arena) /\ (o + i = o + p + 1 <=> i = p + 1)
    BY <1>1, <1>2
  <2>2. Row(u)'[i] = IF i = p + 1 THEN [arena[o + i] EXCEPT !.present = present]
                     ELSE arena[o + i]
    BY <1>6, <1>9, <2>1
  <2>3. [arena[o + i] EXCEPT !.present = present] = [dst |-> arena[o + i].dst, present |-> present]
    BY <1>7, <1>10
  <2>. QED  BY <1>10, <2>2, <2>3
<1>. QED  BY <1>9, <1>11 DEF n, p

-----------------------------------------------------------------------------
LEMMA SmallestOf ==
  ASSUME NEW L, IsFiniteSet(L), L \subseteq Int, L # {}
  PROVE  \E m \in L : \A x \in L : m <= x
<1>. DEFINE neg == [x \in L |-> -x]  N == {neg[x] : x \in L}
<1>1. IsFiniteSet(N)
  <2>1. neg \in Surjection(L, N)
    BY DEF Surjection
  <2>. HIDE DEF neg, N
  <2>. QED  BY <2>1, FS_Surjection
<1>2. N \subseteq Int /\ N # {}
  OBVIOUS
<1>3. PICK m \in N : \A x \in N : x <= m
  <2>. HIDE DEF N
  <2>. QED  BY <1>1, <1>2, LargestOf
<1>4. PICK l \in L : m = -l
  OBVIOUS
<1>5. \A x \in L : -x <= -l
  BY <1>3, <1>4
<1>6. \A x \in L : l <= x
  BY <1>4, <1>5
<1>. QED  BY <1>6

(* The slots in use, counted by sets of rows. *)
LEMMA UsedIs ==
  ASSUME Layout, NEW rows \in SUBSET Rows
  PROVE  /\ UsedSlots(rows) = {s \in rows \X (Nat \ {0}) : s[2] <= meta[s[1]].count}
         /\ IsFiniteSet(UsedSlots(rows)) /\ Cardinality(UsedSlots(rows)) \in Nat
<1>1. Len(arena) \in Nat /\ IsFiniteSet(rows)
  BY LenProperties, DeltaConstants, FS_Subset DEF Layout
<1>2. \A u \in Rows : meta[u].count \in Nat /\ meta[u].count <= Len(arena)
  <2>. SUFFICES ASSUME NEW u \in Rows
                PROVE  meta[u].count \in Nat /\ meta[u].count <= Len(arena)
    OBVIOUS
  <2>1. /\ meta[u].count \in Nat /\ meta[u].capacity \in Nat /\ meta[u].count <= meta[u].capacity
        /\ meta[u].capacity > 0 =>
             meta[u].offset \in Nat /\ meta[u].offset + meta[u].capacity <= Len(arena)
    BY DEF Layout
  <2>. QED  BY <1>1, <2>1
<1>3. UsedSlots(rows) = {s \in rows \X (Nat \ {0}) : s[2] <= meta[s[1]].count}
  BY <1>1, <1>2 DEF UsedSlots
<1>4. IsFiniteSet(rows \X (1 .. Len(arena)))
  <2>1. IsFiniteSet(1 .. Len(arena))
    BY <1>1, FS_Interval
  <2>. QED  BY <1>1, <2>1, FS_Product
<1>5. UsedSlots(rows) \subseteq rows \X (1 .. Len(arena))
  BY DEF UsedSlots
<1>. QED  BY <1>3, <1>4, <1>5, FS_Subset, FS_CardinalityType

(* Used slots of disjoint sets of rows add up.                             *)
LEMMA UsedSplit ==
  ASSUME Layout, NEW A \in SUBSET Rows, NEW B \in SUBSET Rows, A \cap B = {}
  PROVE  Cardinality(UsedSlots(A \cup B)) = Cardinality(UsedSlots(A)) + Cardinality(UsedSlots(B))
<1>1. UsedSlots(A \cup B) = UsedSlots(A) \cup UsedSlots(B)
  BY DEF UsedSlots
<1>2. UsedSlots(A) \cap UsedSlots(B) = {}
  BY DEF UsedSlots
<1>3. /\ IsFiniteSet(UsedSlots(A)) /\ IsFiniteSet(UsedSlots(B))
      /\ Cardinality(UsedSlots(A)) \in Nat /\ Cardinality(UsedSlots(B)) \in Nat
  BY UsedIs
<1>4. Cardinality(UsedSlots(A) \cap UsedSlots(B)) = 0
  BY <1>2, FS_EmptySet
<1>5. Cardinality(UsedSlots(A) \cup UsedSlots(B)) =
        Cardinality(UsedSlots(A)) + Cardinality(UsedSlots(B))
          - Cardinality(UsedSlots(A) \cap UsedSlots(B))
  BY <1>3, FS_Union
<1>6. Cardinality(UsedSlots(A \cup B)) = Cardinality(UsedSlots(A) \cup UsedSlots(B))
  BY <1>1, Zenon
<1>. QED  BY <1>3, <1>4, <1>5, <1>6

(* A row uses as many slots as it has entries.                             *)
LEMMA UsedByRow ==
  ASSUME Layout, NEW u \in Rows
  PROVE  Cardinality(UsedSlots({u})) = meta[u].count
<1>. DEFINE n == meta[u].count
<1>1. n \in Nat
  BY DEF Layout
<1>2. UsedSlots({u}) = {u} \X (1 .. n)
  BY <1>1, UsedIs
<1>. HIDE DEF n
<1>3. IsFiniteSet(1 .. n) /\ Cardinality(1 .. n) = n
  BY <1>1, FS_Interval
<1>4. IsFiniteSet({u}) /\ Cardinality({u}) = 1
  BY FS_Singleton
<1>5. Cardinality({u} \X (1 .. n)) = Cardinality({u}) * Cardinality(1 .. n)
  BY <1>3, <1>4, FS_Product
<1>6. 1 * n = n
  BY <1>1
<1>7. Cardinality(UsedSlots({u})) = n
  BY <1>2, <1>3, <1>4, <1>5, <1>6
<1>. QED  BY <1>7 DEF n

(* Rows are packed one behind the other. *)
LEMMA PackedOrder ==
  ASSUME Layout, NEW u \in Rows
  PROVE  /\ PackedBefore(u) \in Nat
         /\ PackedBefore(u) + meta[u].count = Cardinality(UsedSlots({w \in Rows : w <= u}))
         /\ PackedBefore(u) + meta[u].count <= Cardinality(UsedSlots(Rows))
         /\ \A w \in Rows : u < w => PackedBefore(u) + meta[u].count <= PackedBefore(w)
<1>. DEFINE Below == {w \in Rows : w < u}  UpTo == {w \in Rows : w <= u}
<1>1. u \in Int /\ \A w \in Rows : w \in Int
  BY DeltaConstants
<1>2. UpTo = Below \cup {u} /\ Below \cap {u} = {}
  <2>1. \A w \in Rows : (w <= u <=> (w < u \/ w = u)) /\ ~(u < u)
    BY <1>1
  <2>. QED  BY <2>1
<1>3. PackedBefore(u) \in Nat
  BY UsedIs DEF PackedBefore
<1>4. PackedBefore(u) + meta[u].count = Cardinality(UsedSlots(UpTo))
  <2>. HIDE DEF UpTo
  <2>1. Cardinality(UsedSlots(Below \cup {u})) =
          Cardinality(UsedSlots(Below)) + Cardinality(UsedSlots({u}))
    BY <1>2, UsedSplit
  <2>. QED  BY <1>2, <2>1, UsedByRow DEF PackedBefore
<1>5. ASSUME NEW A \in SUBSET Rows, UpTo \subseteq A
      PROVE  Cardinality(UsedSlots(UpTo)) <= Cardinality(UsedSlots(A))
  <2>1. UsedSlots(UpTo) \subseteq UsedSlots(A)
    BY <1>5 DEF UsedSlots
  <2>. QED  BY <2>1, UsedIs, FS_Subset
<1>6. ASSUME NEW w \in Rows, u < w
      PROVE  PackedBefore(u) + meta[u].count <= PackedBefore(w)
  <2>1. w \in Int /\ \A x \in Rows : x <= u => x < w
    BY <1>1, <1>6
  <2>2. UpTo \subseteq {x \in Rows : x < w}
    BY <2>1
  <2>3. Cardinality(UsedSlots(UpTo)) <= Cardinality(UsedSlots({x \in Rows : x < w}))
    BY <1>5, <2>2
  <2>. QED  BY <1>4, <2>3 DEF PackedBefore
<1>. QED  BY <1>3, <1>4, <1>5, <1>6

(* Every place of the packed arena belongs to the row that is packed there. *)
LEMMA PackedCovers ==
  ASSUME Layout, NEW k \in 1 .. Cardinality(UsedSlots(Rows))
  PROVE  \E u \in Rows : PackedBefore(u) < k /\ k <= PackedBefore(u) + meta[u].count
<1>. DEFINE Before == {w \in Rows : PackedBefore(w) < k}
<1>1. IsFiniteSet(Rows) /\ \A w \in Rows : w \in Int
  BY DeltaConstants
<1>2. k \in Nat \ {0} /\ k <= Cardinality(UsedSlots(Rows)) /\ Cardinality(UsedSlots(Rows)) \in Nat
  BY UsedIs
<1>3. \A w \in Rows : PackedBefore(w) \in Nat /\ meta[w].count \in Nat
  BY PackedOrder DEF Layout
<1>4. Rows # {}
  <2>1. Rows = {} => UsedSlots(Rows) = {}
    BY DEF UsedSlots
  <2>. QED  BY <1>2, <2>1, FS_EmptySet
<1>5. PICK first \in Rows : \A w \in Rows : first <= w
  BY <1>1, <1>4, SmallestOf
<1>6. PackedBefore(first) = 0
  <2>1. {w \in Rows : w < first} = {}
    BY <1>1, <1>5
  <2>2. UsedSlots({w \in Rows : w < first}) = {}
    BY <2>1 DEF UsedSlots
  <2>. QED  BY <2>2, FS_EmptySet DEF PackedBefore
<1>7. PICK u \in Before : \A w \in Before : w <= u
  <2>1. Before \subseteq Int /\ Before # {} /\ IsFiniteSet(Before)
    BY <1>1, <1>2, <1>5, <1>6, FS_Subset
  <2>. HIDE DEF Before
  <2>. QED  BY <2>1, LargestOf
<1>8. u \in Rows /\ PackedBefore(u) < k /\ \A w \in Rows : u < w => ~(PackedBefore(w) < k)
  BY <1>1, <1>7
<1>9. k <= Cardinality(UsedSlots({w \in Rows : w <= u}))
  <2>. DEFINE Above == {w \in Rows : u < w}
  <2>1. CASE Above = {}
    <3>1. {w \in Rows : w <= u} = Rows
      BY <1>1, <1>8, <2>1
    <3>. QED  BY <1>2, <3>1
  <2>2. CASE Above # {}
    <3>1. PICK next \in Above : \A w \in Above : next <= w
      <4>1. Above \subseteq Int /\ IsFiniteSet(Above)
        BY <1>1, FS_Subset
      <4>. HIDE DEF Above
      <4>. QED  BY <2>2, <4>1, SmallestOf
    <3>2. \A w \in Rows : w < next <=> w <= u
      BY <1>1, <1>8, <3>1
    <3>3. {w \in Rows : w < next} = {w \in Rows : w <= u}
      BY <3>2
    <3>4. ~(PackedBefore(next) < k)
      BY <1>8, <3>1
    <3>5. PackedBefore(next) = Cardinality(UsedSlots({w \in Rows : w <= u}))
      BY <3>3, Zenon DEF PackedBefore
    <3>6. next \in Rows
      BY <3>1
    <3>. QED  BY <1>2, <1>3, <3>4, <3>5, <3>6
  <2>. QED  BY <2>1, <2>2
<1>. QED  BY <1>8, <1>9, PackedOrder

(* Row u's entries are packed behind those of the rows below it. *)
LEMMA PackedIs ==
  ASSUME Layout, live = Cardinality(UsedSlots(Rows))
  PROVE  /\ Packed \in Seq(Cell) /\ Len(Packed) = live
         /\ \A u \in Rows : \A i \in 1 .. meta[u].count :
              Packed[PackedBefore(u) + i] = Row(u)[i]
<1>. DEFINE At(u, k) == PackedBefore(u) < k /\ k <= PackedBefore(u) + meta[u].count
            owner(k) == CHOOSE u \in Rows : At(u, k)
<1>1. live \in Nat
  BY UsedIs
<1>2. Packed = [k \in 1 .. live |-> Row(owner(k))[k - PackedBefore(owner(k))]]
  BY DEF Packed
<1>3. ASSUME NEW k \in 1 .. live
      PROVE  owner(k) \in Rows /\ At(owner(k), k)
  <2>1. \E u \in Rows : At(u, k)
    BY PackedCovers
  <2>. HIDE DEF At
  <2>. QED  BY <2>1
<1>4. \A u \in Rows : PackedBefore(u) \in Nat /\ meta[u].count \in Nat
  BY PackedOrder DEF Layout
<1>5. ASSUME NEW u \in Rows, NEW k \in 1 .. live, At(u, k)
      PROVE  owner(k) = u
  <2>. DEFINE w == owner(k)
  <2>1. w \in Rows /\ At(w, k) /\ u \in Int /\ w \in Int
    <3>1. w \in Rows /\ At(w, k)
      BY <1>3
    <3>2. \A x \in Rows : x \in Int
      BY DeltaConstants
    <3>. HIDE DEF w, At
    <3>. QED  BY <3>1, <3>2
  <2>. HIDE DEF w
  <2>2. /\ w < u => PackedBefore(w) + meta[w].count <= PackedBefore(u)
        /\ u < w => PackedBefore(u) + meta[u].count <= PackedBefore(w)
    BY <2>1, PackedOrder
  <2>3. ~(w < u) /\ ~(u < w)
    BY <1>4, <1>5, <2>1, <2>2
  <2>4. w = u
    BY <2>1, <2>3
  <2>. QED  BY <2>4 DEF w
<1>. HIDE DEF owner
<1>6. ASSUME NEW u \in Rows, NEW i \in 1 .. meta[u].count
      PROVE  PackedBefore(u) + i \in 1 .. live /\ Packed[PackedBefore(u) + i] = Row(u)[i]
  <2>. DEFINE k == PackedBefore(u) + i
  <2>1. PackedBefore(u) + meta[u].count <= live
    BY PackedOrder
  <2>2. k \in 1 .. live /\ At(u, k) /\ k - PackedBefore(u) = i
    BY <1>1, <1>4, <2>1
  <2>3. owner(k) = u
    BY <1>5, <2>2
  <2>. QED  BY <1>2, <2>2, <2>3
<1>7. Packed \in [1 .. live -> Cell]
  <2>1. ASSUME NEW k \in 1 .. live PROVE Row(owner(k))[k - PackedBefore(owner(k))] \in Cell
    <3>1. owner(k) \in Rows /\ At(owner(k), k)
      BY <1>3
    <3>2. k - PackedBefore(owner(k)) \in 1 .. meta[owner(k)].count
      BY <1>1, <1>4, <3>1
    <3>. QED  BY <3>1, <3>2, RowCells DEF RowsAreCells
  <2>. QED  BY <1>2, <2>1
<1>. QED  BY <1>1, <1>6, <1>7, SeqOfFunction

(* repack() changes where rows are and nothing they hold. *)
LEMMA RepackEffect ==
  ASSUME Layout, live = Cardinality(UsedSlots(Rows)), Repack
  PROVE  /\ Layout'
         /\ \A u \in Rows : /\ meta'[u].count = meta[u].count
                            /\ \A i \in 1 .. meta[u].count : Row(u)'[i] = Row(u)[i]
<1>1. /\ live \in Nat
      /\ \A u \in Rows : /\ meta[u].count \in Nat
                         /\ PackedBefore(u) \in Nat /\ PackedBefore(u) + meta[u].count <= live
  BY UsedIs, PackedOrder DEF Layout
<1>2. CASE live = 0
  <2>1. arena' = <<>> /\ meta' = [u \in Rows |-> NoRow]
    BY <1>2 DEF Repack
  <2>2. \A u \in Rows : meta[u].count = 0
    BY <1>1, <1>2
  <2>3. arena' \in Seq(Cell)
    BY <2>1, EmptySeq
  <2>4. /\ meta' \in [Rows -> [offset : Nat \cup {NoOffset}, count : Nat, capacity : Nat]]
        /\ \A u \in Rows : meta'[u].count = 0 /\ meta'[u].capacity = 0 /\ meta'[u].offset = -1
    BY <2>1 DEF NoRow, NoOffset
  <2>5. \A u \in Rows : Extent(u)' = {}
    BY <2>4 DEF Extent
  <2>6. Layout'
    BY <2>3, <2>4, <2>5 DEF Layout
  <2>. QED  BY <2>2, <2>4, <2>6
<1>3. CASE live # 0
  <2>1. /\ arena' = Packed /\ arena' \in Seq(Cell) /\ Len(arena') = live
        /\ \A u \in Rows : \A i \in 1 .. meta[u].count :
             arena'[PackedBefore(u) + i] = Row(u)[i]
    BY <1>3, PackedIs DEF Repack
  <2>2. /\ meta' \in [Rows -> [offset : Nat \cup {NoOffset}, count : Nat, capacity : Nat]]
        /\ \A u \in Rows :
             /\ meta[u].count = 0 => meta'[u] = NoRow
             /\ meta[u].count # 0 => meta'[u] = [offset |-> PackedBefore(u),
                                                 count |-> meta[u].count, capacity |-> meta[u].count]
    BY <1>1, <1>3 DEF Repack, NoRow
  <2>3. \A u \in Rows :
          /\ meta'[u].count = meta[u].count /\ meta'[u].capacity = meta[u].count
          /\ meta[u].count = 0 => meta'[u].offset = -1
          /\ meta[u].count # 0 => meta'[u].offset = PackedBefore(u)
    BY <2>2 DEF NoRow, NoOffset
  <2>4. \A u \in Rows : meta[u].count = 0 => Extent(u)' = {}
    BY <2>3 DEF Extent
  <2>5. \A u \in Rows : meta[u].count # 0 =>
          Extent(u)' = (PackedBefore(u) + 1) .. (PackedBefore(u) + meta[u].count)
    BY <2>3 DEF Extent
  <2>6. ASSUME NEW u \in Rows, NEW w \in Rows, u # w
        PROVE  Extent(u)' \cap Extent(w)' = {}
    <3>1. CASE meta[u].count = 0 \/ meta[w].count = 0
      BY <2>4, <3>1
    <3>2. CASE meta[u].count # 0 /\ meta[w].count # 0
      <4>1. u < w \/ w < u
        BY <2>6, DeltaConstants
      <4>2. \/ PackedBefore(u) + meta[u].count <= PackedBefore(w)
            \/ PackedBefore(w) + meta[w].count <= PackedBefore(u)
        BY <4>1, PackedOrder
      <4>3. /\ Extent(u)' = (PackedBefore(u) + 1) .. (PackedBefore(u) + meta[u].count)
            /\ Extent(w)' = (PackedBefore(w) + 1) .. (PackedBefore(w) + meta[w].count)
        BY <2>5, <3>2
      <4>. QED  BY <1>1, <4>2, <4>3
    <3>. QED  BY <3>1, <3>2
  <2>7. ASSUME NEW u \in Rows
        PROVE  /\ meta'[u].count <= meta'[u].capacity
               /\ meta'[u].capacity > 0 =>
                    meta'[u].offset \in Nat /\ meta'[u].offset + meta'[u].capacity <= Len(arena')
    BY <1>1, <2>1, <2>3
  <2>8. Layout'
    BY <2>1, <2>2, <2>6, <2>7 DEF Layout
  <2>9. ASSUME NEW u \in Rows, NEW i \in 1 .. meta[u].count
        PROVE  Row(u)'[i] = Row(u)[i]
    <3>1. meta[u].count # 0
      BY <1>1
    <3>2. Row(u)'[i] = arena'[meta'[u].offset + i]
      BY <2>3, <2>8, RowCellsAfter DEF RowsAreCells
    <3>. QED  BY <2>1, <2>3, <3>1, <3>2
  <2>. QED  BY <2>3, <2>8, <2>9
<1>. QED  BY <1>2, <1>3

(* Clearing a row empties it and touches no other row.                     *)
LEMMA ClearRowEffect ==
  ASSUME Layout, NEW u \in Rows, ClearRow(u)
  PROVE  /\ Layout' /\ meta'[u].count = 0
         /\ \A w \in Rows \ {u} : SameRow(w)
<1>1. arena' = arena /\ meta' = [meta EXCEPT ![u] = NoRow]
  BY DEF ClearRow
<1>2. /\ meta' \in [Rows -> [offset : Nat \cup {NoOffset}, count : Nat, capacity : Nat]]
      /\ meta'[u].count = 0 /\ meta'[u].capacity = 0 /\ meta'[u].offset = -1
      /\ \A w \in Rows \ {u} : meta'[w] = meta[w]
  BY <1>1 DEF Layout, NoRow, NoOffset
<1>3. Extent(u)' = {} /\ \A w \in Rows \ {u} : Extent(w)' = Extent(w)
  BY <1>2 DEF Extent
<1>4. Layout'
  <2>1. ASSUME NEW w \in Rows
        PROVE  /\ meta'[w].count <= meta'[w].capacity
               /\ meta'[w].capacity > 0 =>
                    meta'[w].offset \in Nat /\ meta'[w].offset + meta'[w].capacity <= Len(arena')
    <3>1. CASE w = u
      BY <1>2, <3>1
    <3>2. CASE w # u
      BY <1>1, <1>2, <3>2 DEF Layout
    <3>. QED  BY <3>1, <3>2
  <2>2. \A w, x \in Rows : w # x => Extent(w)' \cap Extent(x)' = {}
    BY <1>3 DEF Layout
  <2>3. arena' \in Seq(Cell)
    BY <1>1 DEF Layout
  <2>. QED  BY <1>2, <2>1, <2>2, <2>3 DEF Layout
<1>5. ASSUME NEW w \in Rows \ {u}, NEW i \in 1 .. meta[w].count
      PROVE  Row(w)'[i] = Row(w)[i]
  <2>1. meta'[w] = meta[w]
    BY <1>2
  <2>2. Row(w)[i] = arena[meta[w].offset + i]
    BY RowCells DEF RowsAreCells
  <2>3. Row(w)'[i] = arena'[meta'[w].offset + i]
    BY <1>4, <2>1, RowCellsAfter DEF RowsAreCells
  <2>. QED  BY <1>1, <2>1, <2>2, <2>3
<1>. QED  BY <1>2, <1>4, <1>5 DEF SameRow

-----------------------------------------------------------------------------
Named == \A u \in Rows : \A i \in 1 .. meta[u].count : Row(u)[i].dst \in Targets

Rowed == Layout /\ Sorted /\ Named

HoldsEntry(u, v, flag) ==
  \E i \in 1 .. meta[u].count : Row(u)[i] = [dst |-> v, present |-> flag]

(* The types of the entries of a row.                                      *)
LEMMA RowedTypes ==
  ASSUME Rowed, NEW u \in Rows
  PROVE  /\ meta[u].count \in Nat
         /\ \A i \in 1 .. meta[u].count :
              /\ Row(u)[i].dst \in Targets /\ Row(u)[i].dst \in Int
              /\ Row(u)[i].present \in BOOLEAN
              /\ Row(u)[i] = [dst |-> Row(u)[i].dst, present |-> Row(u)[i].present]
<1>1. meta[u].count \in Nat
  BY DEF Rowed, Layout
<1>2. \A i \in 1 .. meta[u].count : Row(u)[i] \in Cell /\ Row(u)[i].dst \in Targets
  BY RowCells DEF Rowed, Named, RowsAreCells
<1>3. \A c \in Cell : c.present \in BOOLEAN /\ c = [dst |-> c.dst, present |-> c.present]
  BY DEF Cell
<1>4. \A v \in Targets : v \in Int
  BY DeltaConstants
<1>. QED  BY <1>1, <1>2, <1>3, <1>4

(* The binary search finds the entry of v if there is one. *)
LEMMA FoundIs ==
  ASSUME Rowed, NEW u \in Rows, NEW v \in Targets
  PROVE  /\ Position(u, v) \in 0 .. meta[u].count
         /\ Found(u, v) => /\ Position(u, v) \in 0 .. meta[u].count - 1
                           /\ Row(u)[Position(u, v) + 1] = [dst |-> v, present |-> FlagOf(u, v)]
                           /\ FlagOf(u, v) \in BOOLEAN
         /\ \A i \in 1 .. meta[u].count :
              /\ i <= Position(u, v) => Row(u)[i].dst < v
              /\ i > Position(u, v) /\ ~Found(u, v) => v < Row(u)[i].dst
              /\ i > Position(u, v) + 1 /\ Found(u, v) => v < Row(u)[i].dst
<1>. DEFINE n == meta[u].count  p == Position(u, v)  d(i) == Row(u)[i].dst
<1>1. n \in Nat /\ v \in Int /\ \A i \in 1 .. n : d(i) \in Int
  <2>1. v \in Int
    BY DeltaConstants
  <2>. QED  BY <2>1, RowedTypes
<1>2. p \in 0 .. n /\ \A i \in 1 .. n : i <= p <=> d(i) < v
  BY PositionIs DEF Rowed
<1>3. \A i, j \in 1 .. n : i < j => d(i) < d(j)
  BY DEF Rowed, Sorted
<1>4. Found(u, v) <=> p < n /\ d(p + 1) = v
  BY DEF Found
<1>5. Found(u, v) => /\ p \in 0 .. n - 1 /\ FlagOf(u, v) \in BOOLEAN
                     /\ Row(u)[p + 1] = [dst |-> v, present |-> FlagOf(u, v)]
  <2>. SUFFICES ASSUME Found(u, v)
                PROVE  /\ p \in 0 .. n - 1 /\ FlagOf(u, v) \in BOOLEAN
                       /\ Row(u)[p + 1] = [dst |-> v, present |-> FlagOf(u, v)]
    OBVIOUS
  <2>1. p \in 0 .. n - 1 /\ p + 1 \in 1 .. n /\ Row(u)[p + 1].dst = v
    BY <1>1, <1>2, <1>4
  <2>. HIDE DEF p
  <2>2. FlagOf(u, v) = Row(u)[p + 1].present
    BY DEF FlagOf, p
  <2>. QED  BY <2>1, <2>2, RowedTypes
<1>. HIDE DEF n, p, d
<1>6. ASSUME NEW i \in 1 .. n
      PROVE  /\ i <= p => d(i) < v
             /\ i > p /\ ~Found(u, v) => v < d(i)
             /\ i > p + 1 /\ Found(u, v) => v < d(i)
  <2>1. i <= p => d(i) < v
    BY <1>2
  <2>2. ASSUME i > p + 1 PROVE p + 1 \in 1 .. n /\ d(p + 1) < d(i)
    BY <1>1, <1>2, <1>3, <2>2
  <2>3. ASSUME i > p, ~Found(u, v) PROVE v < d(i)
    <3>1. p + 1 \in 1 .. n /\ ~(p + 1 <= p) /\ p < n
      BY <1>1, <1>2, <2>3
    <3>2. ~(d(p + 1) < v) /\ d(p + 1) # v /\ d(p + 1) \in Int
      BY <1>1, <1>2, <1>4, <2>3, <3>1
    <3>3. v < d(p + 1)
      BY <1>1, <3>2
    <3>4. CASE i = p + 1
      BY <3>3, <3>4
    <3>5. CASE i # p + 1
      <4>1. i > p + 1
        BY <1>1, <1>2, <2>3, <3>5
      <4>. QED  BY <1>1, <2>2, <3>2, <3>3, <4>1
    <3>. QED  BY <3>4, <3>5
  <2>4. ASSUME i > p + 1, Found(u, v) PROVE v < d(i)
    BY <1>4, <2>2, <2>4
  <2>. QED  BY <2>1, <2>3, <2>4
<1>. QED  BY <1>2, <1>5, <1>6 DEF n, p, d

(* What SameRow keeps of a row. *)
LEMMA SameRowKeeps ==
  ASSUME Rowed, NEW w \in Rows, SameRow(w)
  PROVE  /\ meta'[w].count = meta[w].count
         /\ \A i, j \in 1 .. meta'[w].count : i < j => Row(w)'[i].dst < Row(w)'[j].dst
         /\ \A i \in 1 .. meta'[w].count : Row(w)'[i].dst \in Targets
         /\ \A v \in Targets, flag \in BOOLEAN : HoldsEntry(w, v, flag)' <=> HoldsEntry(w, v, flag)
BY DEF Rowed, SameRow, Sorted, Named, HoldsEntry

(* Inserting a missing destination keeps the rows sorted and adds one      *)
(* entry.                                                                  *)
LEMMA InsertRow ==
  ASSUME Rowed, NEW u \in Rows, NEW v \in Targets, NEW present \in BOOLEAN,
         ~Found(u, v), InsertAt(u, v, present)
  PROVE  /\ Rowed' /\ meta'[u].count = meta[u].count + 1
         /\ \A w \in Rows \ {u} : SameRow(w)
         /\ \A flag \in BOOLEAN : ~HoldsEntry(u, v, flag)
         /\ \A x \in Targets, flag \in BOOLEAN :
              HoldsEntry(u, x, flag)' <=> HoldsEntry(u, x, flag) \/ (x = v /\ flag = present)
<1>. DEFINE n == meta[u].count  p == Position(u, v)  cell == [dst |-> v, present |-> present]
<1>1. /\ n \in Nat /\ p \in 0 .. n /\ p \in Nat /\ v \in Int
      /\ \A i \in 1 .. n : Row(u)[i].dst \in Targets /\ Row(u)[i].dst \in Int
      /\ \A i \in 1 .. n : /\ i <= p => Row(u)[i].dst < v
                           /\ i > p => v < Row(u)[i].dst
      /\ \A i, j \in 1 .. n : i < j => Row(u)[i].dst < Row(u)[j].dst
  <2>1. n \in Nat /\ p \in 0 .. n
    BY RowedTypes, FoundIs
  <2>2. v \in Int
    BY DeltaConstants
  <2>3. \A i \in 1 .. n : Row(u)[i].dst \in Targets /\ Row(u)[i].dst \in Int
    BY RowedTypes
  <2>4. \A i \in 1 .. n : /\ i <= p => Row(u)[i].dst < v
                          /\ i > p => v < Row(u)[i].dst
    BY FoundIs
  <2>5. \A i, j \in 1 .. n : i < j => Row(u)[i].dst < Row(u)[j].dst
    BY DEF Rowed, Sorted
  <2>. HIDE DEF n, p
  <2>. QED  BY <2>1, <2>2, <2>3, <2>4, <2>5
<1>2. /\ Layout' /\ meta'[u].count = n + 1
      /\ \A i \in 1 .. n + 1 : Row(u)'[i] = IF i = p + 1 THEN cell
                                           ELSE IF i <= p THEN Row(u)[i] ELSE Row(u)[i - 1]
      /\ \A w \in Rows \ {u} : SameRow(w)
  BY <1>1, InsertEffect DEF Rowed
<1>3. cell.dst = v /\ \A x, flag : cell = [dst |-> x, present |-> flag] <=> x = v /\ flag = present
  OBVIOUS
<1>. HIDE DEF n, p, cell
<1>4. ASSUME NEW i \in 1 .. n + 1
      PROVE  \/ i = p + 1 /\ Row(u)'[i] = cell
             \/ i \in 1 .. n /\ i <= p /\ Row(u)'[i] = Row(u)[i]
             \/ i - 1 \in 1 .. n /\ i - 1 > p /\ Row(u)'[i] = Row(u)[i - 1]
  BY <1>1, <1>2
<1>5. ASSUME NEW i \in 1 .. n + 1, NEW j \in 1 .. n + 1, i < j
      PROVE  Row(u)'[i].dst < Row(u)'[j].dst
  <2>1. CASE i = p + 1 /\ Row(u)'[i] = cell
    <3>1. j - 1 \in 1 .. n /\ j - 1 > p /\ Row(u)'[j] = Row(u)[j - 1]
      BY <1>1, <1>2, <1>5, <2>1
    <3>. QED  BY <1>1, <1>3, <2>1, <3>1
  <2>2. CASE i \in 1 .. n /\ i <= p /\ Row(u)'[i] = Row(u)[i]
    <3>1. CASE j = p + 1 /\ Row(u)'[j] = cell
      BY <1>1, <1>3, <2>2, <3>1
    <3>2. CASE j \in 1 .. n /\ j <= p /\ Row(u)'[j] = Row(u)[j]
      BY <1>1, <1>5, <2>2, <3>2
    <3>3. CASE j - 1 \in 1 .. n /\ j - 1 > p /\ Row(u)'[j] = Row(u)[j - 1]
      <4>1. i < j - 1
        BY <1>1, <2>2, <3>3
      <4>. QED  BY <1>1, <2>2, <3>3, <4>1
    <3>. QED  BY <1>4, <3>1, <3>2, <3>3
  <2>3. CASE i - 1 \in 1 .. n /\ i - 1 > p /\ Row(u)'[i] = Row(u)[i - 1]
    <3>1. j - 1 \in 1 .. n /\ i - 1 < j - 1 /\ Row(u)'[j] = Row(u)[j - 1]
      BY <1>1, <1>2, <1>5, <2>3
    <3>. QED  BY <1>1, <2>3, <3>1
  <2>. QED  BY <1>4, <2>1, <2>2, <2>3
<1>6. \A i \in 1 .. n + 1 : Row(u)'[i].dst \in Targets
  BY <1>1, <1>3, <1>4
<1>7. Rowed'
  <2>1. Sorted'
    BY <1>2, <1>5, SameRowKeeps DEF Sorted
  <2>2. Named'
    BY <1>2, <1>6, SameRowKeeps DEF Named
  <2>. QED  BY <1>2, <2>1, <2>2 DEF Rowed
<1>8. \A flag \in BOOLEAN : ~HoldsEntry(u, v, flag)
  <2>. SUFFICES ASSUME NEW i \in 1 .. n, NEW flag, Row(u)[i] = [dst |-> v, present |-> flag]
                PROVE  FALSE
    BY DEF HoldsEntry, n
  <2>1. Row(u)[i].dst = v
    OBVIOUS
  <2>. QED  BY <1>1, <2>1
<1>9. ASSUME NEW x \in Targets, NEW flag \in BOOLEAN
      PROVE  HoldsEntry(u, x, flag)' <=> HoldsEntry(u, x, flag) \/ (x = v /\ flag = present)
  <2>. DEFINE e == [dst |-> x, present |-> flag]
  <2>1. HoldsEntry(u, x, flag)' <=> \E i \in 1 .. n + 1 : Row(u)'[i] = e
    BY <1>2 DEF HoldsEntry
  <2>2. HoldsEntry(u, x, flag) <=> \E i \in 1 .. n : Row(u)[i] = e
    BY DEF HoldsEntry, n
  <2>3. cell = e <=> x = v /\ flag = present
    BY <1>3
  <2>. HIDE DEF e
  <2>4. ASSUME NEW i \in 1 .. n + 1, Row(u)'[i] = e
        PROVE  cell = e \/ \E j \in 1 .. n : Row(u)[j] = e
    BY <1>4, <2>4
  <2>5. ASSUME NEW j \in 1 .. n, Row(u)[j] = e
        PROVE  \E i \in 1 .. n + 1 : Row(u)'[i] = e
    <3>1. CASE j <= p
      <4>1. j \in 1 .. n + 1 /\ j # p + 1
        BY <1>1, <3>1
      <4>. QED  BY <1>2, <2>5, <3>1, <4>1
    <3>2. CASE j > p
      <4>1. j + 1 \in 1 .. n + 1 /\ j + 1 # p + 1 /\ ~(j + 1 <= p) /\ (j + 1) - 1 = j
        BY <1>1, <3>2
      <4>2. Row(u)'[j + 1] = Row(u)[j]
        BY <1>2, <4>1
      <4>. QED  BY <2>5, <4>1, <4>2
    <3>. QED  BY <1>1, <3>1, <3>2
  <2>6. cell = e => \E i \in 1 .. n + 1 : Row(u)'[i] = e
    <3>1. p + 1 \in 1 .. n + 1
      BY <1>1
    <3>. QED  BY <1>2, <3>1
  <2>. QED  BY <2>1, <2>2, <2>3, <2>4, <2>5, <2>6
<1>. QED  BY <1>2, <1>7, <1>8, <1>9 DEF n

(* Found and FlagOf say which entry the row holds.                         *)
LEMMA FoundHolds ==
  ASSUME Rowed, NEW u \in Rows, NEW v \in Targets, NEW flag \in BOOLEAN
  PROVE  HoldsEntry(u, v, flag) <=> Found(u, v) /\ flag = FlagOf(u, v)
<1>. DEFINE n == meta[u].count  p == Position(u, v)
<1>1. n \in Nat /\ v \in Int /\ p \in 0 .. n
  <2>1. v \in Int
    BY DeltaConstants
  <2>. QED  BY <2>1, RowedTypes, FoundIs
<1>2. ASSUME Found(u, v), flag = FlagOf(u, v) PROVE HoldsEntry(u, v, flag)
  <2>1. p + 1 \in 1 .. n /\ Row(u)[p + 1] = [dst |-> v, present |-> flag]
    BY <1>1, <1>2, FoundIs
  <2>. QED  BY <2>1 DEF HoldsEntry
<1>3. ASSUME NEW i \in 1 .. n, Row(u)[i] = [dst |-> v, present |-> flag]
      PROVE  Found(u, v) /\ flag = FlagOf(u, v)
  <2>1. Row(u)[i].dst = v
    BY <1>3
  <2>2. ~(i <= p) /\ Found(u, v) /\ ~(i > p + 1)
    <3>1. ~(v < v)
      BY <1>1
    <3>2. /\ i <= p => Row(u)[i].dst < v
          /\ i > p /\ ~Found(u, v) => v < Row(u)[i].dst
          /\ i > p + 1 /\ Found(u, v) => v < Row(u)[i].dst
      BY FoundIs
    <3>. HIDE DEF n, p
    <3>. QED  BY <1>1, <2>1, <3>1, <3>2
  <2>3. i = p + 1
    BY <1>1, <2>2
  <2>4. Row(u)[p + 1] = [dst |-> v, present |-> FlagOf(u, v)]
    BY <2>2, FoundIs
  <2>5. [dst |-> v, present |-> flag] = [dst |-> v, present |-> FlagOf(u, v)]
    BY <1>3, <2>3, <2>4
  <2>. QED  BY <2>2, <2>5
<1>. QED  BY <1>2, <1>3 DEF HoldsEntry

(* Erasing keeps the rows sorted and removes one entry.                    *)
LEMMA EraseRow ==
  ASSUME Rowed, NEW u \in Rows, NEW v \in Targets, Found(u, v), EraseAt(u, v)
  PROVE  /\ Rowed' /\ meta[u].count \in Nat \ {0} /\ meta'[u].count = meta[u].count - 1
         /\ \A w \in Rows \ {u} : SameRow(w)
         /\ \A x \in Targets, flag \in BOOLEAN :
              HoldsEntry(u, x, flag)' <=> HoldsEntry(u, x, flag) /\ x # v
<1>. DEFINE n == meta[u].count  p == Position(u, v)
<1>1. /\ n \in Nat \ {0} /\ p \in 0 .. n - 1
      /\ \A i \in 1 .. n : Row(u)[i].dst \in Targets /\ Row(u)[i].dst \in Int
      /\ \A i, j \in 1 .. n : i < j => Row(u)[i].dst < Row(u)[j].dst
  <2>1. n \in Nat /\ p \in 0 .. n - 1
    BY RowedTypes, FoundIs
  <2>2. \A i \in 1 .. n : Row(u)[i].dst \in Targets /\ Row(u)[i].dst \in Int
    BY RowedTypes
  <2>3. \A i, j \in 1 .. n : i < j => Row(u)[i].dst < Row(u)[j].dst
    BY DEF Rowed, Sorted
  <2>. HIDE DEF n, p
  <2>. QED  BY <2>1, <2>2, <2>3
<1>2. v \in Int /\ Row(u)[p + 1].dst = v
  <2>1. Row(u)[p + 1] = [dst |-> v, present |-> FlagOf(u, v)]
    BY FoundIs
  <2>. QED  BY <2>1, DeltaConstants
<1>3. /\ Layout' /\ meta'[u].count = n - 1
      /\ \A i \in 1 .. n - 1 : Row(u)'[i] = IF i <= p THEN Row(u)[i] ELSE Row(u)[i + 1]
      /\ \A w \in Rows \ {u} : SameRow(w)
  BY <1>1, EraseEffect DEF Rowed
<1>. HIDE DEF n, p
<1>4. ASSUME NEW i \in 1 .. n - 1
      PROVE  \/ i \in 1 .. n /\ i <= p /\ Row(u)'[i] = Row(u)[i]
             \/ i + 1 \in 1 .. n /\ i > p /\ Row(u)'[i] = Row(u)[i + 1]
  BY <1>1, <1>3
<1>5. ASSUME NEW i \in 1 .. n - 1, NEW j \in 1 .. n - 1, i < j
      PROVE  Row(u)'[i].dst < Row(u)'[j].dst
  <2>1. CASE i \in 1 .. n /\ i <= p /\ Row(u)'[i] = Row(u)[i]
    <3>1. CASE j \in 1 .. n /\ j <= p /\ Row(u)'[j] = Row(u)[j]
      BY <1>1, <1>5, <2>1, <3>1
    <3>2. CASE j + 1 \in 1 .. n /\ j > p /\ Row(u)'[j] = Row(u)[j + 1]
      <4>1. i < j + 1
        BY <1>5
      <4>. QED  BY <1>1, <2>1, <3>2, <4>1
    <3>. QED  BY <1>4, <3>1, <3>2
  <2>2. CASE i + 1 \in 1 .. n /\ i > p /\ Row(u)'[i] = Row(u)[i + 1]
    <3>1. j + 1 \in 1 .. n /\ i + 1 < j + 1 /\ Row(u)'[j] = Row(u)[j + 1]
      BY <1>1, <1>3, <1>5, <2>2
    <3>. QED  BY <1>1, <2>2, <3>1
  <2>. QED  BY <1>4, <2>1, <2>2
<1>6. \A i \in 1 .. n - 1 : Row(u)'[i].dst \in Targets
  BY <1>1, <1>4
<1>7. Rowed'
  <2>1. Sorted'
    BY <1>3, <1>5, SameRowKeeps DEF Sorted
  <2>2. Named'
    BY <1>3, <1>6, SameRowKeeps DEF Named
  <2>. QED  BY <1>3, <2>1, <2>2 DEF Rowed
<1>8. ASSUME NEW x \in Targets, NEW flag \in BOOLEAN
      PROVE  HoldsEntry(u, x, flag)' <=> HoldsEntry(u, x, flag) /\ x # v
  <2>. DEFINE e == [dst |-> x, present |-> flag]
  <2>1. HoldsEntry(u, x, flag)' <=> \E i \in 1 .. n - 1 : Row(u)'[i] = e
    BY <1>3 DEF HoldsEntry
  <2>2. HoldsEntry(u, x, flag) <=> \E i \in 1 .. n : Row(u)[i] = e
    BY DEF HoldsEntry, n
  <2>3. e.dst = x
    OBVIOUS
  <2>. HIDE DEF e
  <2>4. ASSUME NEW i \in 1 .. n - 1, Row(u)'[i] = e
        PROVE  x # v /\ \E j \in 1 .. n : Row(u)[j] = e
    <3>1. PICK j \in 1 .. n : j # p + 1 /\ Row(u)[j] = e
      BY <1>1, <1>4, <2>4
    <3>2. p + 1 \in 1 .. n /\ (j < p + 1 \/ p + 1 < j)
      BY <1>1, <3>1
    <3>3. Row(u)[j].dst # Row(u)[p + 1].dst
      BY <1>1, <3>2
    <3>. QED  BY <1>2, <2>3, <3>1, <3>3
  <2>5. ASSUME NEW j \in 1 .. n, Row(u)[j] = e, x # v
        PROVE  \E i \in 1 .. n - 1 : Row(u)'[i] = e
    <3>1. j # p + 1
      BY <1>2, <2>3, <2>5
    <3>2. CASE j <= p
      <4>1. j \in 1 .. n - 1
        BY <1>1, <3>2
      <4>. QED  BY <1>3, <2>5, <3>2, <4>1
    <3>3. CASE j > p + 1
      <4>1. j - 1 \in 1 .. n - 1 /\ ~(j - 1 <= p) /\ (j - 1) + 1 = j
        BY <1>1, <3>3
      <4>2. Row(u)'[j - 1] = Row(u)[j]
        BY <1>3, <4>1
      <4>. QED  BY <2>5, <4>1, <4>2
    <3>. QED  BY <1>1, <3>1, <3>2, <3>3
  <2>. QED  BY <2>1, <2>2, <2>4, <2>5
<1>. QED  BY <1>1, <1>3, <1>7, <1>8 DEF n

(* Flipping keeps the rows sorted and changes the flag of one entry.       *)
LEMMA FlipRow ==
  ASSUME Rowed, NEW u \in Rows, NEW v \in Targets, NEW present \in BOOLEAN,
         Found(u, v), FlipAt(u, v, present)
  PROVE  /\ Rowed' /\ meta'[u].count = meta[u].count
         /\ \A w \in Rows \ {u} : SameRow(w)
         /\ \A x \in Targets, flag \in BOOLEAN :
              HoldsEntry(u, x, flag)' <=> IF x = v THEN flag = present ELSE HoldsEntry(u, x, flag)
<1>. DEFINE n == meta[u].count  p == Position(u, v)
<1>1. /\ n \in Nat \ {0} /\ p \in 0 .. n - 1 /\ p + 1 \in 1 .. n
      /\ \A i \in 1 .. n : Row(u)[i].dst \in Targets /\ Row(u)[i].dst \in Int
      /\ \A i, j \in 1 .. n : i < j => Row(u)[i].dst < Row(u)[j].dst
  <2>1. n \in Nat /\ p \in 0 .. n - 1
    BY RowedTypes, FoundIs
  <2>2. \A i \in 1 .. n : Row(u)[i].dst \in Targets /\ Row(u)[i].dst \in Int
    BY RowedTypes
  <2>3. \A i, j \in 1 .. n : i < j => Row(u)[i].dst < Row(u)[j].dst
    BY DEF Rowed, Sorted
  <2>. HIDE DEF n, p
  <2>. QED  BY <2>1, <2>2, <2>3
<1>2. Row(u)[p + 1].dst = v
  <2>1. Row(u)[p + 1] = [dst |-> v, present |-> FlagOf(u, v)]
    BY FoundIs
  <2>. QED  BY <2>1
<1>3. /\ Layout' /\ meta'[u].count = n
      /\ \A i \in 1 .. n : Row(u)'[i] = IF i = p + 1
                                       THEN [dst |-> Row(u)[i].dst, present |-> present]
                                       ELSE Row(u)[i]
      /\ \A w \in Rows \ {u} : SameRow(w)
  BY <1>1, FlipEffect DEF Rowed
<1>. HIDE DEF n, p
<1>4. ASSUME NEW i \in 1 .. n PROVE Row(u)'[i].dst = Row(u)[i].dst
  <2>1. CASE i = p + 1
    <3>1. Row(u)'[i] = [dst |-> Row(u)[i].dst, present |-> present]
      BY <1>3, <2>1
    <3>. QED  BY <3>1
  <2>2. CASE i # p + 1
    BY <1>3, <2>2
  <2>. QED  BY <2>1, <2>2
<1>5. Rowed'
  <2>1. Sorted'
    BY <1>1, <1>3, <1>4, SameRowKeeps DEF Sorted
  <2>2. Named'
    BY <1>1, <1>3, <1>4, SameRowKeeps DEF Named
  <2>. QED  BY <1>3, <2>1, <2>2 DEF Rowed
<1>6. ASSUME NEW x \in Targets, NEW flag \in BOOLEAN
      PROVE  HoldsEntry(u, x, flag)' <=> IF x = v THEN flag = present ELSE HoldsEntry(u, x, flag)
  <2>. DEFINE e == [dst |-> x, present |-> flag]
  <2>1. HoldsEntry(u, x, flag)' <=> \E i \in 1 .. n : Row(u)'[i] = e
    BY <1>3 DEF HoldsEntry
  <2>2. HoldsEntry(u, x, flag) <=> \E i \in 1 .. n : Row(u)[i] = e
    BY DEF HoldsEntry, n
  <2>3. CASE x = v
    <3>1. Row(u)'[p + 1] = [dst |-> v, present |-> present]
      BY <1>1, <1>2, <1>3
    <3>2. ASSUME NEW i \in 1 .. n, Row(u)'[i] = e PROVE i = p + 1
      <4>1. Row(u)[i].dst = v
        BY <1>4, <2>3, <3>2
      <4>2. ~(i < p + 1) /\ ~(p + 1 < i)
        BY <1>1, <1>2, <4>1
      <4>. QED  BY <1>1, <4>2
    <3>3. e = [dst |-> v, present |-> present] <=> flag = present
      BY <2>3
    <3>. HIDE DEF e
    <3>4. (\E i \in 1 .. n : Row(u)'[i] = e) <=> flag = present
      BY <1>1, <3>1, <3>2, <3>3
    <3>. QED  BY <2>1, <2>3, <3>4
  <2>4. CASE x # v
    <3>1. ASSUME NEW i \in 1 .. n PROVE Row(u)'[i] = e <=> Row(u)[i] = e
      <4>1. CASE i = p + 1
        <5>1. Row(u)'[i].dst = v /\ Row(u)[i].dst = v
          BY <1>2, <1>4, <4>1
        <5>. QED  BY <2>4, <5>1
      <4>2. CASE i # p + 1
        BY <1>3, <4>2
      <4>. QED  BY <4>1, <4>2
    <3>. QED  BY <2>1, <2>2, <2>4, <3>1
  <2>. QED  BY <2>3, <2>4
<1>. QED  BY <1>3, <1>5, <1>6 DEF n

-----------------------------------------------------------------------------
(* The counters are the numbers of entries; repack() trusts live_entries_. *)
EntriesCounted ==
  /\ live = Cardinality(UsedSlots(Rows))
  /\ presents = Cardinality(Entries(TRUE)) /\ absents = Cardinality(Entries(FALSE))
  /\ live = presents + absents

IInv == Rowed /\ EntriesCounted

UsedAreSlots ==
  UsedSlots(Rows) = {s \in Rows \X (Nat \ {0}) : s[2] <= meta[s[1]].count}

LEMMA UsedAfter == Layout' => UsedAreSlots'
<1>1. Layout => UsedAreSlots
  BY UsedIs DEF UsedAreSlots
<1>. QED  BY <1>1, PTL

(* The overlay entries are a finite set.                                   *)
LEMMA EntriesAre ==
  ASSUME NEW flag \in BOOLEAN
  PROVE  /\ Entries(flag) = {a \in Rows \X Targets : HoldsEntry(a[1], a[2], flag)}
         /\ Entries(flag)' = {a \in Rows \X Targets : HoldsEntry(a[1], a[2], flag)'}
         /\ IsFiniteSet(Entries(flag)) /\ Cardinality(Entries(flag)) \in Nat
<1>1. /\ Entries(flag) = {a \in Rows \X Targets : HoldsEntry(a[1], a[2], flag)}
      /\ Entries(flag)' = {a \in Rows \X Targets : HoldsEntry(a[1], a[2], flag)'}
  BY DEF Entries, HoldsEntry
<1>2. IsFiniteSet(Rows \X Targets) /\ Entries(flag) \subseteq Rows \X Targets
  BY DeltaConstants, FS_Product DEF Entries
<1>3. IsFiniteSet(Entries(flag))
  BY <1>2, FS_Subset
<1>. QED  BY <1>1, <1>3, FS_CardinalityType

(* The counters are natural numbers.                                       *)
LEMMA CountersTyped ==
  ASSUME IInv
  PROVE  /\ live \in Nat /\ presents \in Nat /\ absents \in Nat
         /\ live \in Int /\ presents \in Int /\ absents \in Int
         /\ Cardinality(UsedSlots(Rows)) \in Int
<1>1. /\ presents = Cardinality(Entries(TRUE)) /\ absents = Cardinality(Entries(FALSE))
      /\ live = Cardinality(UsedSlots(Rows))
  BY DEF IInv, EntriesCounted
<1>2. Cardinality(Entries(TRUE)) \in Nat /\ Cardinality(Entries(FALSE)) \in Nat
  BY EntriesAre
<1>3. Cardinality(UsedSlots(Rows)) \in Nat
  BY UsedIs DEF IInv, Rowed
<1>4. presents \in Nat /\ absents \in Nat /\ live \in Nat
  BY <1>1, <1>2, <1>3, Zenon
<1>. QED  BY <1>3, <1>4

LEMMA SumsFollow ==
  ASSUME NEW a \in Int, NEW b \in Int, NEW c \in Int, NEW d \in Int
  PROVE  (a + b) + (c + d) = (a + c) + (b + d)
OBVIOUS

(* The counters change as the numbers they count. *)
LEMMA CountersFollow ==
  ASSUME IInv, NEW dp \in Int, NEW da \in Int, NEW dl, dl = dp + da,
         live' = live + dl, presents' = presents + dp, absents' = absents + da,
         Cardinality(Entries(TRUE)') = Cardinality(Entries(TRUE)) + dp,
         Cardinality(Entries(FALSE)') = Cardinality(Entries(FALSE)) + da,
         Cardinality(UsedSlots(Rows)') = Cardinality(UsedSlots(Rows)) + dl
  PROVE  EntriesCounted'
<1>1. /\ presents = Cardinality(Entries(TRUE)) /\ absents = Cardinality(Entries(FALSE))
      /\ live = Cardinality(UsedSlots(Rows)) /\ live = presents + absents
  BY DEF IInv, EntriesCounted
<1>2. /\ presents' = Cardinality(Entries(TRUE)') /\ absents' = Cardinality(Entries(FALSE)')
      /\ live' = Cardinality(UsedSlots(Rows)')
  BY <1>1, Zenon
<1>3. presents \in Int /\ absents \in Int
  BY CountersTyped
<1>4. live = presents + absents
  BY <1>1
<1>5. live' = presents' + absents'
  <2>1. (presents + absents) + (dp + da) = (presents + dp) + (absents + da)
    BY <1>3, SumsFollow
  <2>. QED  BY <1>4, <2>1, Zenon
<1>. QED  BY <1>2, <1>5, Zenon DEF EntriesCounted

(* A step that rewrites row u changes the entries of row u.                *)
LEMMA OneRow ==
  ASSUME Rowed, NEW u \in Rows, \A w \in Rows \ {u} : SameRow(w), NEW flag \in BOOLEAN
  PROVE  \A w \in Rows, x \in Targets :
           <<w, x>> \in Entries(flag)' <=>
             IF w = u THEN HoldsEntry(u, x, flag)' ELSE <<w, x>> \in Entries(flag)
<1>. SUFFICES ASSUME NEW w \in Rows, NEW x \in Targets
              PROVE  <<w, x>> \in Entries(flag)' <=>
                       IF w = u THEN HoldsEntry(u, x, flag)' ELSE <<w, x>> \in Entries(flag)
  OBVIOUS
<1>1. <<w, x>> \in Entries(flag)' <=> HoldsEntry(w, x, flag)'
  BY DEF Entries, HoldsEntry
<1>2. <<w, x>> \in Entries(flag) <=> HoldsEntry(w, x, flag)
  BY DEF Entries, HoldsEntry
<1>3. CASE w = u
  BY <1>1, <1>3
<1>4. CASE w # u
  BY <1>1, <1>2, <1>4, SameRowKeeps
<1>. QED  BY <1>3, <1>4

(* Inserting keeps the invariant and adds one overlay entry.               *)
LEMMA InsertKeeps ==
  ASSUME IInv, NEW u \in Rows, NEW v \in Targets, NEW present \in BOOLEAN,
         ~Found(u, v), InsertAt(u, v, present)
  PROVE  /\ IInv'
         /\ \A flag \in BOOLEAN :
              /\ <<u, v>> \notin Entries(flag)
              /\ Entries(flag)' = IF flag = present THEN Entries(flag) \cup {<<u, v>>}
                                  ELSE Entries(flag)
<1>1. /\ Rowed /\ Rowed' /\ meta'[u].count = meta[u].count + 1
      /\ \A w \in Rows \ {u} : SameRow(w)
      /\ \A flag \in BOOLEAN : ~HoldsEntry(u, v, flag)
      /\ \A x \in Targets, flag \in BOOLEAN :
           HoldsEntry(u, x, flag)' <=> HoldsEntry(u, x, flag) \/ (x = v /\ flag = present)
  BY InsertRow DEF IInv
<1>2. ASSUME NEW flag \in BOOLEAN
      PROVE  /\ <<u, v>> \notin Entries(flag)
             /\ Entries(flag)' = IF flag = present THEN Entries(flag) \cup {<<u, v>>}
                                 ELSE Entries(flag)
  <2>1. \A x \in Targets : <<u, x>> \in Entries(flag) <=> HoldsEntry(u, x, flag)
    BY DEF Entries, HoldsEntry
  <2>2. Entries(flag) \subseteq Rows \X Targets /\ Entries(flag)' \subseteq Rows \X Targets
    BY DEF Entries
  <2>3. \A w \in Rows, x \in Targets :
          <<w, x>> \in Entries(flag)' <=>
            <<w, x>> \in Entries(flag) \/ (w = u /\ x = v /\ flag = present)
    BY <1>1, <2>1, OneRow
  <2>. QED  BY <1>1, <2>1, <2>2, <2>3
<1>3. /\ live' = live + 1
      /\ presents' = presents + Bit(present) /\ absents' = absents + Bit(~present)
  BY DEF InsertAt
<1>4. \A flag \in BOOLEAN :
        Cardinality(Entries(flag)') = Cardinality(Entries(flag)) + (IF flag = present THEN 1 ELSE 0)
  <2>. SUFFICES ASSUME NEW flag \in BOOLEAN
                PROVE  Cardinality(Entries(flag)') =
                         Cardinality(Entries(flag)) + (IF flag = present THEN 1 ELSE 0)
    OBVIOUS
  <2>1. IsFiniteSet(Entries(flag)) /\ Cardinality(Entries(flag)) \in Nat
    BY EntriesAre
  <2>2. Cardinality(Entries(flag) \cup {<<u, v>>}) = Cardinality(Entries(flag)) + 1
    BY <1>2, <2>1, FS_AddElement
  <2>3. CASE flag = present
    <3>1. Cardinality(Entries(flag)') = Cardinality(Entries(flag) \cup {<<u, v>>})
      BY <1>2, <2>3, Zenon
    <3>. QED  BY <2>2, <2>3, <3>1
  <2>4. CASE flag # present
    <3>1. Cardinality(Entries(flag)') = Cardinality(Entries(flag))
      BY <1>2, <2>4, Zenon
    <3>. QED  BY <2>1, <2>4, <3>1
  <2>. QED  BY <2>3, <2>4
<1>5. Cardinality(UsedSlots(Rows)') = Cardinality(UsedSlots(Rows)) + 1
  <2>. DEFINE s == <<u, meta[u].count + 1>>
  <2>1. /\ meta[u].count \in Nat
        /\ \A w \in Rows \ {u} : meta'[w].count = meta[w].count
    BY <1>1 DEF Rowed, Layout, SameRow
  <2>2. UsedSlots(Rows) = {t \in Rows \X (Nat \ {0}) : t[2] <= meta[t[1]].count}
    BY <1>1, UsedIs DEF Rowed
  <2>3. UsedSlots(Rows)' = {t \in Rows \X (Nat \ {0}) : t[2] <= meta'[t[1]].count}
    BY <1>1, UsedAfter DEF Rowed, UsedAreSlots
  <2>4. UsedSlots(Rows)' = UsedSlots(Rows) \cup {s} /\ s \notin UsedSlots(Rows)
    <3>1. \A w \in Rows, i \in Nat \ {0} :
            i <= meta'[w].count <=> i <= meta[w].count \/ (w = u /\ i = meta[u].count + 1)
      BY <1>1, <2>1 DEF Rowed, Layout
    <3>2. s \in Rows \X (Nat \ {0}) /\ ~(meta[u].count + 1 <= meta[u].count)
      BY <2>1
    <3>. QED  BY <2>2, <2>3, <3>1, <3>2
  <2>5. IsFiniteSet(UsedSlots(Rows))
    BY <1>1, UsedIs DEF Rowed
  <2>6. Cardinality(UsedSlots(Rows) \cup {s}) = Cardinality(UsedSlots(Rows)) + 1
    BY <2>4, <2>5, FS_AddElement
  <2>. HIDE DEF s
  <2>7. Cardinality(UsedSlots(Rows)') = Cardinality(UsedSlots(Rows) \cup {s})
    BY <2>4, Zenon
  <2>. QED  BY <2>6, <2>7
<1>6. EntriesCounted'
  <2>. DEFINE dp == Bit(present)  da == Bit(~present)
  <2>1. dp \in Int /\ da \in Int /\ 1 = dp + da
    BY DEF Bit
  <2>2. Cardinality(Entries(TRUE)') = Cardinality(Entries(TRUE)) + dp
    <3>1. dp = IF TRUE = present THEN 1 ELSE 0
      BY DEF Bit
    <3>. QED  BY <1>4, <3>1, Zenon
  <2>3. Cardinality(Entries(FALSE)') = Cardinality(Entries(FALSE)) + da
    <3>1. da = IF FALSE = present THEN 1 ELSE 0
      BY DEF Bit
    <3>. QED  BY <1>4, <3>1, Zenon
  <2>. HIDE DEF dp, da
  <2>. QED  BY <1>3, <1>5, <2>1, <2>2, <2>3, CountersFollow DEF dp, da
<1>. QED  BY <1>1, <1>2, <1>6 DEF IInv

(* Erasing keeps the invariant and removes one overlay entry.              *)
LEMMA EraseKeeps ==
  ASSUME IInv, NEW u \in Rows, NEW v \in Targets, Found(u, v), EraseAt(u, v)
  PROVE  /\ IInv'
         /\ \A flag \in BOOLEAN : Entries(flag)' = Entries(flag) \ {<<u, v>>}
<1>1. /\ Rowed /\ Rowed' /\ meta[u].count \in Nat \ {0} /\ meta'[u].count = meta[u].count - 1
      /\ \A w \in Rows \ {u} : SameRow(w)
      /\ \A x \in Targets, flag \in BOOLEAN :
           HoldsEntry(u, x, flag)' <=> HoldsEntry(u, x, flag) /\ x # v
  BY EraseRow DEF IInv
<1>2. FlagOf(u, v) \in BOOLEAN
  BY <1>1, FoundIs
<1>3. ASSUME NEW flag \in BOOLEAN
      PROVE  /\ <<u, v>> \in Entries(flag) <=> flag = FlagOf(u, v)
             /\ Entries(flag)' = Entries(flag) \ {<<u, v>>}
  <2>1. \A x \in Targets : <<u, x>> \in Entries(flag) <=> HoldsEntry(u, x, flag)
    BY DEF Entries, HoldsEntry
  <2>2. <<u, v>> \in Entries(flag) <=> flag = FlagOf(u, v)
    BY <1>1, <2>1, FoundHolds
  <2>3. Entries(flag) \subseteq Rows \X Targets /\ Entries(flag)' \subseteq Rows \X Targets
    BY DEF Entries
  <2>4. \A w \in Rows, x \in Targets :
          <<w, x>> \in Entries(flag)' <=> <<w, x>> \in Entries(flag) /\ ~(w = u /\ x = v)
    BY <1>1, <2>1, OneRow
  <2>. QED  BY <2>2, <2>3, <2>4
<1>4. /\ live' = live - 1
      /\ presents' = presents - Bit(FlagOf(u, v)) /\ absents' = absents - Bit(~FlagOf(u, v))
  BY DEF EraseAt
<1>5. ASSUME NEW flag \in BOOLEAN
      PROVE  Cardinality(Entries(flag)') =
               Cardinality(Entries(flag)) - (IF flag = FlagOf(u, v) THEN 1 ELSE 0)
  <2>1. IsFiniteSet(Entries(flag)) /\ Cardinality(Entries(flag)) \in Nat
    BY EntriesAre
  <2>2. Cardinality(Entries(flag) \ {<<u, v>>}) =
          IF <<u, v>> \in Entries(flag) THEN Cardinality(Entries(flag)) - 1
          ELSE Cardinality(Entries(flag))
    BY <2>1, FS_RemoveElement
  <2>3. Cardinality(Entries(flag)') = Cardinality(Entries(flag) \ {<<u, v>>})
    BY <1>3, Zenon
  <2>. QED  BY <1>3, <2>1, <2>2, <2>3
<1>6. Cardinality(UsedSlots(Rows)') = Cardinality(UsedSlots(Rows)) - 1
  <2>. DEFINE s == <<u, meta[u].count>>
  <2>1. \A w \in Rows \ {u} : meta'[w].count = meta[w].count
    BY <1>1 DEF SameRow
  <2>2. UsedSlots(Rows) = {t \in Rows \X (Nat \ {0}) : t[2] <= meta[t[1]].count}
    BY <1>1, UsedIs DEF Rowed
  <2>3. UsedSlots(Rows)' = {t \in Rows \X (Nat \ {0}) : t[2] <= meta'[t[1]].count}
    BY <1>1, UsedAfter DEF Rowed, UsedAreSlots
  <2>4. UsedSlots(Rows)' = UsedSlots(Rows) \ {s} /\ s \in UsedSlots(Rows)
    <3>1. \A w \in Rows, i \in Nat \ {0} :
            i <= meta'[w].count <=> i <= meta[w].count /\ ~(w = u /\ i = meta[u].count)
      BY <1>1, <2>1 DEF Rowed, Layout
    <3>2. s \in Rows \X (Nat \ {0}) /\ meta[u].count <= meta[u].count
      BY <1>1
    <3>. QED  BY <2>2, <2>3, <3>1, <3>2
  <2>5. IsFiniteSet(UsedSlots(Rows))
    BY <1>1, UsedIs DEF Rowed
  <2>6. Cardinality(UsedSlots(Rows) \ {s}) = Cardinality(UsedSlots(Rows)) - 1
    BY <2>4, <2>5, FS_RemoveElement
  <2>. HIDE DEF s
  <2>7. Cardinality(UsedSlots(Rows)') = Cardinality(UsedSlots(Rows) \ {s})
    BY <2>4, Zenon
  <2>. QED  BY <2>6, <2>7
<1>7. EntriesCounted'
  <2>. DEFINE bp == Bit(FlagOf(u, v))  ba == Bit(~FlagOf(u, v))
  <2>1. bp \in Int /\ ba \in Int /\ -1 = (-bp) + (-ba) /\ -bp \in Int /\ -ba \in Int
    BY <1>2 DEF Bit
  <2>2. Cardinality(Entries(TRUE)') = Cardinality(Entries(TRUE)) - bp
    <3>1. bp = IF TRUE = FlagOf(u, v) THEN 1 ELSE 0
      BY <1>2 DEF Bit
    <3>. QED  BY <1>5, <3>1, Zenon
  <2>3. Cardinality(Entries(FALSE)') = Cardinality(Entries(FALSE)) - ba
    <3>1. ba = IF FALSE = FlagOf(u, v) THEN 1 ELSE 0
      BY <1>2 DEF Bit
    <3>. QED  BY <1>5, <3>1, Zenon
  <2>. HIDE DEF bp, ba
  <2>4. /\ presents' = presents - bp /\ absents' = absents - ba
    BY <1>4 DEF bp, ba
  <2>5. /\ live' = live + (-1)
        /\ presents' = presents + (-bp) /\ absents' = absents + (-ba)
        /\ Cardinality(UsedSlots(Rows)') = Cardinality(UsedSlots(Rows)) + (-1)
    <3>1. /\ live \in Int /\ presents \in Int /\ absents \in Int
          /\ Cardinality(UsedSlots(Rows)) \in Int
      BY CountersTyped
    <3>. QED  BY <1>4, <1>6, <2>1, <2>4, <3>1
  <2>6. /\ Cardinality(Entries(TRUE)') = Cardinality(Entries(TRUE)) + (-bp)
        /\ Cardinality(Entries(FALSE)') = Cardinality(Entries(FALSE)) + (-ba)
    <3>1. \A c \in Nat : c - bp = c + (-bp) /\ c - ba = c + (-ba)
      BY <2>1
    <3>2. Cardinality(Entries(TRUE)) \in Nat /\ Cardinality(Entries(FALSE)) \in Nat
      BY EntriesAre
    <3>. QED  BY <2>2, <2>3, <3>1, <3>2, Zenon
  <2>. QED  BY <2>1, <2>5, <2>6, CountersFollow
<1>. QED  BY <1>1, <1>3, <1>7 DEF IInv

(* Flipping keeps the invariant and moves one overlay entry to the other   *)
(* flag.                                                                   *)
LEMMA FlipKeeps ==
  ASSUME IInv, NEW u \in Rows, NEW v \in Targets, NEW present \in BOOLEAN,
         Found(u, v), FlagOf(u, v) # present, FlipAt(u, v, present)
  PROVE  /\ IInv'
         /\ \A flag \in BOOLEAN :
              /\ <<u, v>> \in Entries(flag) <=> flag # present
              /\ Entries(flag)' = IF flag = present THEN Entries(flag) \cup {<<u, v>>}
                                  ELSE Entries(flag) \ {<<u, v>>}
<1>1. /\ Rowed /\ Rowed' /\ meta'[u].count = meta[u].count
      /\ \A w \in Rows \ {u} : SameRow(w)
      /\ \A x \in Targets, flag \in BOOLEAN :
           HoldsEntry(u, x, flag)' <=> IF x = v THEN flag = present ELSE HoldsEntry(u, x, flag)
  BY FlipRow DEF IInv
<1>2. FlagOf(u, v) \in BOOLEAN
  BY <1>1, FoundIs
<1>3. ASSUME NEW flag \in BOOLEAN
      PROVE  /\ <<u, v>> \in Entries(flag) <=> flag # present
             /\ Entries(flag)' = IF flag = present THEN Entries(flag) \cup {<<u, v>>}
                                 ELSE Entries(flag) \ {<<u, v>>}
  <2>1. \A x \in Targets : <<u, x>> \in Entries(flag) <=> HoldsEntry(u, x, flag)
    BY DEF Entries, HoldsEntry
  <2>2. <<u, v>> \in Entries(flag) <=> flag # present
    BY <1>1, <1>2, <2>1, FoundHolds
  <2>3. Entries(flag) \subseteq Rows \X Targets /\ Entries(flag)' \subseteq Rows \X Targets
    BY DEF Entries
  <2>4. \A w \in Rows, x \in Targets :
          <<w, x>> \in Entries(flag)' <=>
            IF w = u /\ x = v THEN flag = present ELSE <<w, x>> \in Entries(flag)
    BY <1>1, <2>1, OneRow
  <2>5. Entries(flag)' = IF flag = present THEN Entries(flag) \cup {<<u, v>>}
                         ELSE Entries(flag) \ {<<u, v>>}
    <3>1. CASE flag = present
      BY <2>3, <2>4, <3>1
    <3>2. CASE flag # present
      BY <2>3, <2>4, <3>2
    <3>. QED  BY <3>1, <3>2
  <2>. QED  BY <2>2, <2>5
<1>4. /\ live' = live
      /\ presents' = presents + Bit(present) - Bit(~present)
      /\ absents' = absents + Bit(~present) - Bit(present)
  BY DEF FlipAt
<1>5. ASSUME NEW flag \in BOOLEAN
      PROVE  Cardinality(Entries(flag)') =
               Cardinality(Entries(flag)) + (IF flag = present THEN 1 ELSE -1)
  <2>1. IsFiniteSet(Entries(flag)) /\ Cardinality(Entries(flag)) \in Nat
    BY EntriesAre
  <2>2. CASE flag = present
    <3>1. Cardinality(Entries(flag) \cup {<<u, v>>}) = Cardinality(Entries(flag)) + 1
      BY <1>3, <2>1, <2>2, FS_AddElement
    <3>2. Cardinality(Entries(flag)') = Cardinality(Entries(flag) \cup {<<u, v>>})
      BY <1>3, <2>2, Zenon
    <3>. QED  BY <2>2, <3>1, <3>2
  <2>3. CASE flag # present
    <3>1. Cardinality(Entries(flag) \ {<<u, v>>}) = Cardinality(Entries(flag)) - 1
      BY <1>3, <2>1, <2>3, FS_RemoveElement
    <3>2. Cardinality(Entries(flag)') = Cardinality(Entries(flag) \ {<<u, v>>})
      BY <1>3, <2>3, Zenon
    <3>. QED  BY <2>1, <2>3, <3>1, <3>2
  <2>. QED  BY <2>2, <2>3
<1>6. Cardinality(UsedSlots(Rows)') = Cardinality(UsedSlots(Rows))
  <2>1. \A w \in Rows : meta'[w].count = meta[w].count
    BY <1>1 DEF SameRow
  <2>2. UsedSlots(Rows) = {t \in Rows \X (Nat \ {0}) : t[2] <= meta[t[1]].count}
    BY <1>1, UsedIs DEF Rowed
  <2>3. UsedSlots(Rows)' = {t \in Rows \X (Nat \ {0}) : t[2] <= meta'[t[1]].count}
    BY <1>1, UsedAfter DEF Rowed, UsedAreSlots
  <2>4. UsedSlots(Rows)' = UsedSlots(Rows)
    BY <2>1, <2>2, <2>3
  <2>. QED  BY <2>4, Zenon
<1>7. EntriesCounted'
  <2>. DEFINE dp == IF present THEN 1 ELSE -1  da == IF present THEN -1 ELSE 1
  <2>1. dp \in Int /\ da \in Int /\ 0 = dp + da
    OBVIOUS
  <2>2. Cardinality(Entries(TRUE)') = Cardinality(Entries(TRUE)) + dp
    <3>1. dp = IF TRUE = present THEN 1 ELSE -1
      OBVIOUS
    <3>. QED  BY <1>5, <3>1, Zenon
  <2>3. Cardinality(Entries(FALSE)') = Cardinality(Entries(FALSE)) + da
    <3>1. da = IF FALSE = present THEN 1 ELSE -1
      OBVIOUS
    <3>. QED  BY <1>5, <3>1, Zenon
  <2>4. /\ live' = live + 0
        /\ presents' = presents + dp /\ absents' = absents + da
        /\ Cardinality(UsedSlots(Rows)') = Cardinality(UsedSlots(Rows)) + 0
    <3>1. /\ live \in Int /\ presents \in Int /\ absents \in Int
          /\ Cardinality(UsedSlots(Rows)) \in Int
      BY CountersTyped
    <3>. QED  BY <1>4, <1>6, <3>1 DEF Bit
  <2>. HIDE DEF dp, da
  <2>. QED  BY <2>1, <2>2, <2>3, <2>4, CountersFollow
<1>. QED  BY <1>1, <1>3, <1>7 DEF IInv

-----------------------------------------------------------------------------
InRow(flag, u) == {a \in Entries(flag) : a[1] = u}

(* A row's entries with a flag are as many as its cells with that flag. *)
LEMMA RowEntries ==
  ASSUME Rowed, NEW u \in Rows, NEW flag \in BOOLEAN
  PROVE  LET cells == {i \in 1 .. meta[u].count : Row(u)[i].present = flag}
         IN  IsFiniteSet(cells) /\ Cardinality(InRow(flag, u)) = Cardinality(cells)
<1>. DEFINE n == meta[u].count
            cells == {i \in 1 .. n : Row(u)[i].present = flag}
            entry == [i \in cells |-> <<u, Row(u)[i].dst>>]
<1>1. /\ n \in Nat
      /\ \A i \in 1 .. n : /\ Row(u)[i].dst \in Targets /\ Row(u)[i].dst \in Int
                           /\ Row(u)[i].present \in BOOLEAN
                           /\ Row(u)[i] = [dst |-> Row(u)[i].dst, present |-> Row(u)[i].present]
  BY RowedTypes
<1>2. IsFiniteSet(cells)
  <2>1. IsFiniteSet(1 .. n)
    BY <1>1, FS_Interval
  <2>2. cells \subseteq 1 .. n
    OBVIOUS
  <2>. HIDE DEF cells
  <2>. QED  BY <2>1, <2>2, FS_Subset
<1>3. \A a : a \in InRow(flag, u) <=>
        \E i \in 1 .. n : Row(u)[i].present = flag /\ a = <<u, Row(u)[i].dst>>
  <2>1. \A v \in Targets : <<u, v>> \in InRow(flag, u) <=>
          \E i \in 1 .. n : Row(u)[i] = [dst |-> v, present |-> flag]
    BY DEF InRow, Entries
  <2>2. \A a \in InRow(flag, u) : \E v \in Targets : a = <<u, v>>
    BY DEF InRow, Entries
  <2>3. ASSUME NEW v \in Targets, NEW i \in 1 .. n
        PROVE  Row(u)[i] = [dst |-> v, present |-> flag] <=>
                 Row(u)[i].present = flag /\ v = Row(u)[i].dst
    BY <1>1
  <2>4. \A i \in 1 .. n : Row(u)[i].dst \in Targets
    BY <1>1
  <2>. HIDE DEF n
  <2>5. ASSUME NEW a \in InRow(flag, u)
        PROVE  \E i \in 1 .. n : Row(u)[i].present = flag /\ a = <<u, Row(u)[i].dst>>
    <3>1. PICK v \in Targets : a = <<u, v>>
      BY <2>2
    <3>2. PICK i \in 1 .. n : Row(u)[i] = [dst |-> v, present |-> flag]
      BY <2>1, <3>1
    <3>. QED  BY <2>3, <3>1, <3>2
  <2>6. ASSUME NEW i \in 1 .. n, Row(u)[i].present = flag
        PROVE  <<u, Row(u)[i].dst>> \in InRow(flag, u)
    BY <2>1, <2>3, <2>4, <2>6
  <2>. QED  BY <2>5, <2>6
<1>4. entry \in Bijection(cells, InRow(flag, u))
  <2>1. entry \in [cells -> InRow(flag, u)]
    BY <1>3
  <2>2. \A a \in InRow(flag, u) : \E i \in cells : entry[i] = a
    BY <1>3
  <2>0. \A k, l \in 1 .. n : k < l => Row(u)[k].dst < Row(u)[l].dst
    BY Zenon DEF Rowed, Sorted
  <2>3. ASSUME NEW i \in cells, NEW j \in cells, entry[i] = entry[j]
        PROVE  i = j
    <3>1. Row(u)[i].dst = Row(u)[j].dst /\ i \in 1 .. n /\ j \in 1 .. n
      BY <2>3
    <3>2. /\ i < j => Row(u)[i].dst < Row(u)[j].dst
          /\ j < i => Row(u)[j].dst < Row(u)[i].dst
      BY <2>0, <3>1, Zenon
    <3>3. Row(u)[i].dst \in Int
      BY <1>1, <3>1, Zenon
    <3>4. \A k \in 1 .. n : k \in Int
      OBVIOUS
    <3>5. i \in Int /\ j \in Int
      BY <3>1, <3>4, Zenon
    <3>. QED  BY <3>1, <3>2, <3>3, <3>5
  <2>. HIDE DEF entry, cells
  <2>. QED  BY <2>1, <2>2, <2>3 DEF Bijection, Injection, Surjection, IsInjective
<1>5. Cardinality(InRow(flag, u)) = Cardinality(cells)
  <2>. HIDE DEF cells, entry
  <2>. QED  BY <1>2, <1>4, FS_Bijection DEF ExistsBijection
<1>. QED  BY <1>2, <1>5

(* Clearing a row keeps the invariant and removes the row's overlay        *)
(* entries.                                                                *)
LEMMA ClearRowKeeps ==
  ASSUME IInv, NEW u \in Rows, ClearRow(u)
  PROVE  /\ IInv'
         /\ \A flag \in BOOLEAN : Entries(flag)' = Entries(flag) \ InRow(flag, u)
         /\ presents' = presents - Cardinality(InRow(TRUE, u))
         /\ absents' = absents - Cardinality(InRow(FALSE, u))
<1>. DEFINE n == meta[u].count
            set   == {i \in 1 .. n : Row(u)[i].present = TRUE}
            unset == {i \in 1 .. n : Row(u)[i].present = FALSE}
<1>1. /\ Rowed /\ Layout /\ n \in Nat
      /\ \A i \in 1 .. n : Row(u)[i].present \in BOOLEAN
  BY RowedTypes DEF IInv, Rowed
<1>2. Layout' /\ meta'[u].count = 0 /\ \A w \in Rows \ {u} : SameRow(w)
  BY <1>1, ClearRowEffect
<1>3. Rowed'
  <2>1. Sorted'
    BY <1>1, <1>2, SameRowKeeps DEF Sorted
  <2>2. Named'
    BY <1>1, <1>2, SameRowKeeps DEF Named
  <2>. QED  BY <1>2, <2>1, <2>2 DEF Rowed
<1>4. ASSUME NEW flag \in BOOLEAN
      PROVE  /\ Entries(flag)' = Entries(flag) \ InRow(flag, u)
             /\ Cardinality(Entries(flag)') =
                  Cardinality(Entries(flag)) - Cardinality(InRow(flag, u))
  <2>1. \A x \in Targets : ~HoldsEntry(u, x, flag)'
    BY <1>2 DEF HoldsEntry
  <2>2. Entries(flag) \subseteq Rows \X Targets /\ Entries(flag)' \subseteq Rows \X Targets
    BY DEF Entries
  <2>3. \A w \in Rows, x \in Targets :
          <<w, x>> \in Entries(flag)' <=> <<w, x>> \in Entries(flag) /\ w # u
    BY <1>1, <1>2, <2>1, OneRow
  <2>4. Entries(flag)' = Entries(flag) \ InRow(flag, u)
    BY <2>2, <2>3 DEF InRow
  <2>5. Cardinality(Entries(flag) \ InRow(flag, u)) =
          Cardinality(Entries(flag)) - Cardinality(Entries(flag) \cap InRow(flag, u))
    BY EntriesAre, FS_Difference
  <2>6. Entries(flag) \cap InRow(flag, u) = InRow(flag, u)
    BY DEF InRow
  <2>7. Cardinality(Entries(flag)') =
          Cardinality(Entries(flag)) - Cardinality(InRow(flag, u))
    BY <2>4, <2>5, <2>6, Zenon
  <2>. QED  BY <2>4, <2>7
<1>5. /\ IsFiniteSet(set) /\ Cardinality(InRow(TRUE, u)) = Cardinality(set)
      /\ IsFiniteSet(unset) /\ Cardinality(InRow(FALSE, u)) = Cardinality(unset)
  BY <1>1, RowEntries
<1>6. /\ presents' = presents - Cardinality(set) /\ absents' = absents - Cardinality(unset)
      /\ live' = live - n
  <2>1. /\ set = {i \in 1 .. n : Row(u)[i].present}
        /\ unset = {i \in 1 .. n : ~Row(u)[i].present}
    BY <1>1
  <2>2. /\ Cardinality(set) = Cardinality({i \in 1 .. n : Row(u)[i].present})
        /\ Cardinality(unset) = Cardinality({i \in 1 .. n : ~Row(u)[i].present})
    <3>. HIDE DEF set, unset
    <3>. QED  BY <2>1, Zenon
  <2>3. /\ presents' = presents - Cardinality({i \in 1 .. n : Row(u)[i].present})
        /\ absents' = absents - Cardinality({i \in 1 .. n : ~Row(u)[i].present})
        /\ live' = live - n
    BY DEF ClearRow
  <2>. HIDE DEF set, unset
  <2>. QED  BY <2>2, <2>3, Zenon
<1>7. n = Cardinality(set) + Cardinality(unset)
  <2>1. set \cup unset = 1 .. n /\ set \cap unset = {}
    BY <1>1
  <2>2. Cardinality(1 .. n) = n
    BY <1>1, FS_Interval
  <2>. HIDE DEF set, unset, n
  <2>3. Cardinality(set \cup unset) =
          Cardinality(set) + Cardinality(unset) - Cardinality(set \cap unset)
    BY <1>5, FS_Union
  <2>4. Cardinality(set \cup unset) = n /\ Cardinality(set \cap unset) = 0
    BY <2>1, <2>2, FS_EmptySet, Zenon
  <2>5. Cardinality(set) \in Nat /\ Cardinality(unset) \in Nat
    BY <1>5, FS_CardinalityType
  <2>. QED  BY <2>3, <2>4, <2>5
<1>8. Cardinality(UsedSlots(Rows)') = Cardinality(UsedSlots(Rows)) - n
  <2>. DEFINE others == Rows \ {u}
  <2>1. \A w \in others : meta'[w].count = meta[w].count
    BY <1>2 DEF SameRow
  <2>2. UsedSlots(others) = {t \in others \X (Nat \ {0}) : t[2] <= meta[t[1]].count}
    BY <1>1, UsedIs
  <2>3. UsedSlots(Rows)' = {t \in Rows \X (Nat \ {0}) : t[2] <= meta'[t[1]].count}
    BY <1>2, UsedAfter DEF UsedAreSlots
  <2>4. UsedSlots(Rows)' = UsedSlots(others)
    <3>1. \A i \in Nat \ {0} : ~(i <= meta'[u].count)
      BY <1>2
    <3>2. \A w \in Rows, i \in Nat \ {0} :
            i <= meta'[w].count <=> w \in others /\ i <= meta[w].count
      BY <2>1, <3>1
    <3>3. others \subseteq Rows
      OBVIOUS
    <3>. HIDE DEF others
    <3>4. \A t : t \in UsedSlots(Rows)' <=> t \in UsedSlots(others)
      BY <2>2, <2>3, <3>2, <3>3
    <3>. QED  BY <3>4, Zenon
  <2>5. others \cup {u} = Rows /\ others \cap {u} = {} /\ others \in SUBSET Rows
    OBVIOUS
  <2>. HIDE DEF others
  <2>6. Cardinality(UsedSlots(others \cup {u})) =
          Cardinality(UsedSlots(others)) + Cardinality(UsedSlots({u}))
    BY <1>1, <2>5, UsedSplit
  <2>7. Cardinality(UsedSlots({u})) = n /\ Cardinality(UsedSlots(others)) \in Nat
    BY <1>1, <2>5, UsedByRow, UsedIs
  <2>8. Cardinality(UsedSlots(Rows)') = Cardinality(UsedSlots(others))
    BY <2>4, Zenon
  <2>9. Cardinality(UsedSlots(Rows)) = Cardinality(UsedSlots(others \cup {u}))
    BY <2>5, Zenon
  <2>. HIDE DEF n
  <2>. QED  BY <1>1, <2>6, <2>7, <2>8, <2>9
<1>9. EntriesCounted'
  <2>. DEFINE s == Cardinality(set)  r == Cardinality(unset)
  <2>1. s \in Nat /\ r \in Nat
    <3>. HIDE DEF set, unset
    <3>. QED  BY <1>5, FS_CardinalityType
  <2>2. /\ presents' = presents - s /\ absents' = absents - r
        /\ live' = live - n /\ n = s + r
    BY <1>6, <1>7
  <2>3. /\ Cardinality(Entries(TRUE)') = Cardinality(Entries(TRUE)) - s
        /\ Cardinality(Entries(FALSE)') = Cardinality(Entries(FALSE)) - r
    <3>. HIDE DEF set, unset
    <3>. QED  BY <1>4, <1>5, Zenon
  <2>. HIDE DEF s, r, n
  <2>4. /\ -s \in Int /\ -r \in Int /\ -n = (-s) + (-r)
        /\ presents' = presents + (-s) /\ absents' = absents + (-r) /\ live' = live + (-n)
        /\ Cardinality(UsedSlots(Rows)') = Cardinality(UsedSlots(Rows)) + (-n)
    <3>1. /\ live \in Int /\ presents \in Int /\ absents \in Int
          /\ Cardinality(UsedSlots(Rows)) \in Int
      BY CountersTyped
    <3>. QED  BY <1>8, <2>1, <2>2, <3>1
  <2>5. /\ Cardinality(Entries(TRUE)') = Cardinality(Entries(TRUE)) + (-s)
        /\ Cardinality(Entries(FALSE)') = Cardinality(Entries(FALSE)) + (-r)
    <3>1. \A c \in Nat : c - s = c + (-s) /\ c - r = c + (-r)
      BY <2>1
    <3>2. Cardinality(Entries(TRUE)) \in Nat /\ Cardinality(Entries(FALSE)) \in Nat
      BY EntriesAre
    <3>. QED  BY <2>3, <3>1, <3>2, Zenon
  <2>. QED  BY <2>4, <2>5, CountersFollow
<1>10. /\ presents' = presents - Cardinality(InRow(TRUE, u))
       /\ absents' = absents - Cardinality(InRow(FALSE, u))
  <2>. HIDE DEF set, unset
  <2>. QED  BY <1>5, <1>6, Zenon
<1>. QED  BY <1>3, <1>4, <1>9, <1>10 DEF IInv

(* Packing keeps the invariant and every overlay entry.                    *)
LEMMA RepackKeeps ==
  ASSUME IInv, Repack
  PROVE  IInv' /\ \A flag \in BOOLEAN : Entries(flag)' = Entries(flag)
<1>1. /\ Rowed /\ Layout /\ Layout'
      /\ \A u \in Rows : /\ meta'[u].count = meta[u].count
                         /\ \A i \in 1 .. meta[u].count : Row(u)'[i] = Row(u)[i]
  BY RepackEffect DEF IInv, Rowed, EntriesCounted
<1>2. Rowed'
  <2>1. Sorted'
    BY <1>1 DEF Rowed, Sorted
  <2>2. Named'
    BY <1>1 DEF Rowed, Named
  <2>. QED  BY <1>1, <2>1, <2>2 DEF Rowed
<1>3. \A flag \in BOOLEAN : Entries(flag)' = Entries(flag)
  BY <1>1 DEF Entries
<1>4. Cardinality(UsedSlots(Rows)') = Cardinality(UsedSlots(Rows))
  <2>1. UsedSlots(Rows) = {t \in Rows \X (Nat \ {0}) : t[2] <= meta[t[1]].count}
    BY <1>1, UsedIs
  <2>2. UsedSlots(Rows)' = {t \in Rows \X (Nat \ {0}) : t[2] <= meta'[t[1]].count}
    BY <1>1, UsedAfter DEF UsedAreSlots
  <2>3. UsedSlots(Rows)' = UsedSlots(Rows)
    BY <1>1, <2>1, <2>2
  <2>. QED  BY <2>3, Zenon
<1>5. UNCHANGED <<live, presents, absents>>
  BY DEF Repack
<1>6. EntriesCounted'
  <2>1. /\ Cardinality(Entries(TRUE)') = Cardinality(Entries(TRUE))
        /\ Cardinality(Entries(FALSE)') = Cardinality(Entries(FALSE))
    BY <1>3, Zenon
  <2>2. live' = live /\ presents' = presents /\ absents' = absents
    BY <1>5
  <2>. QED  BY <1>4, <2>1, <2>2, Zenon DEF IInv, EntriesCounted
<1>. QED  BY <1>2, <1>3, <1>6 DEF IInv

(* The empty arena satisfies the invariant.                                *)
LEMMA EmptyKeeps ==
  ASSUME arena = <<>>, meta = [u \in Rows |-> NoRow], live = 0, presents = 0, absents = 0
  PROVE  IInv /\ \A flag \in BOOLEAN : Entries(flag) = {}
<1>1. /\ meta \in [Rows -> [offset : Nat \cup {NoOffset}, count : Nat, capacity : Nat]]
      /\ \A u \in Rows : meta[u].count = 0 /\ meta[u].capacity = 0 /\ meta[u].offset = -1
  BY DEF NoRow, NoOffset
<1>2. \A u \in Rows : Extent(u) = {}
  BY <1>1 DEF Extent
<1>3. Rowed
  <2>1. Layout
    BY <1>1, <1>2, EmptySeq DEF Layout
  <2>. QED  BY <1>1, <2>1 DEF Rowed, Sorted, Named
<1>4. \A flag \in BOOLEAN : Entries(flag) = {}
  BY <1>1 DEF Entries
<1>5. UsedSlots(Rows) = {}
  BY <1>1 DEF UsedSlots
<1>6. Cardinality({}) = 0
  BY FS_EmptySet
<1>7. /\ Cardinality(Entries(TRUE)) = 0 /\ Cardinality(Entries(FALSE)) = 0
      /\ Cardinality(UsedSlots(Rows)) = 0
  BY <1>4, <1>5, <1>6, Zenon
<1>8. live = presents + absents
  OBVIOUS
<1>9. EntriesCounted
  BY <1>7, <1>8, Zenon DEF EntriesCounted
<1>. QED  BY <1>3, <1>4, <1>9 DEF IInv

NoEntries == \A flag \in BOOLEAN : Entries(flag) = {}

LEMMA InitHolds == Init => IInv /\ NoEntries
  BY EmptyKeeps DEF Init, NoEntries

LEMMA ClearKeeps == Clear => IInv' /\ NoEntries'
<1>1. Clear => Init'
  BY DEF Clear, Init
<1>2. Init => IInv /\ NoEntries
  BY InitHolds
<1>. QED  BY <1>1, <1>2, PTL

(* A step that changes nothing keeps the invariant.                        *)
LEMMA StutterKeeps ==
  ASSUME IInv, UNCHANGED vars
  PROVE  IInv' /\ \A flag \in BOOLEAN : Entries(flag)' = Entries(flag)
<1>1. /\ arena' = arena /\ meta' = meta
      /\ live' = live /\ presents' = presents /\ absents' = absents
  BY DEF vars
<1>2. Layout'
  BY <1>1 DEF IInv, Rowed, Layout, Extent
<1>3. Sorted' /\ Named'
  BY <1>1 DEF IInv, Rowed, Sorted, Named, Row
<1>4. \A flag \in BOOLEAN : Entries(flag)' = Entries(flag)
  BY <1>1 DEF Entries, Row
<1>5. UsedSlots(Rows)' = UsedSlots(Rows)
  BY <1>1 DEF UsedSlots
<1>6. EntriesCounted'
  <2>1. /\ Cardinality(Entries(TRUE)') = Cardinality(Entries(TRUE))
        /\ Cardinality(Entries(FALSE)') = Cardinality(Entries(FALSE))
    BY <1>4, Zenon
  <2>2. Cardinality(UsedSlots(Rows)') = Cardinality(UsedSlots(Rows))
    BY <1>5, Zenon
  <2>. QED  BY <1>1, <2>1, <2>2, Zenon DEF IInv, EntriesCounted
<1>. QED  BY <1>2, <1>3, <1>4, <1>6 DEF IInv, Rowed

(* What a step does to the overlay entries, in the terms of the abstract   *)
(* map: the arc <<u, v>> ends with the flag present, or without a flag.    *)
Recorded(u, v, present) ==
  /\ \A flag \in BOOLEAN :
       Entries(flag)' = IF flag = present THEN Entries(flag) \cup {<<u, v>>}
                        ELSE Entries(flag) \ {<<u, v>>}
  /\ presents' = IF present THEN (IF <<u, v>> \in Entries(TRUE) THEN presents ELSE presents + 1)
                 ELSE IF <<u, v>> \in Entries(TRUE) THEN presents - 1 ELSE presents
  /\ absents' = IF present THEN (IF <<u, v>> \in Entries(FALSE) THEN absents - 1 ELSE absents)
                ELSE IF <<u, v>> \in Entries(FALSE) THEN absents ELSE absents + 1

Removed(u, v) ==
  /\ \A flag \in BOOLEAN : Entries(flag)' = Entries(flag) \ {<<u, v>>}
  /\ presents' = IF <<u, v>> \in Entries(TRUE) THEN presents - 1 ELSE presents
  /\ absents' = IF <<u, v>> \in Entries(FALSE) THEN absents - 1 ELSE absents

(* The overlay entry of an arc is what the binary search finds.            *)
LEMMA EntryOf ==
  ASSUME Rowed, NEW u \in Rows, NEW v \in Targets, NEW flag \in BOOLEAN
  PROVE  <<u, v>> \in Entries(flag) <=> Found(u, v) /\ FlagOf(u, v) = flag
<1>1. <<u, v>> \in Entries(flag) <=> HoldsEntry(u, v, flag)
  BY DEF Entries, HoldsEntry
<1>. QED  BY <1>1, FoundHolds

(* upsert keeps the invariant and records the arc with the flag.           *)
LEMMA UpsertKeeps ==
  ASSUME IInv, NEW u \in Rows, NEW v \in Targets, NEW present \in BOOLEAN, Upsert(u, v, present)
  PROVE  IInv' /\ Recorded(u, v, present)
<1>0. /\ \A flag \in BOOLEAN : <<u, v>> \in Entries(flag) <=> Found(u, v) /\ FlagOf(u, v) = flag
      /\ Found(u, v) => FlagOf(u, v) \in BOOLEAN
      /\ presents \in Int /\ absents \in Int
  BY EntryOf, FoundIs, CountersTyped DEF IInv
<1>. DEFINE hasTrue == <<u, v>> \in Entries(TRUE)  hasFalse == <<u, v>> \in Entries(FALSE)
<1>c. presents \in Int /\ absents \in Int
  BY CountersTyped
<1>1. CASE ~Found(u, v) /\ InsertAt(u, v, present)
  <2>1. /\ IInv'
        /\ \A flag \in BOOLEAN :
             /\ <<u, v>> \notin Entries(flag)
             /\ Entries(flag)' = IF flag = present THEN Entries(flag) \cup {<<u, v>>}
                                 ELSE Entries(flag)
    BY <1>1, InsertKeeps
  <2>2. presents' = presents + Bit(present) /\ absents' = absents + Bit(~present)
    BY <1>1 DEF InsertAt
  <2>3. \A flag \in BOOLEAN : Entries(flag) \ {<<u, v>>} = Entries(flag)
    BY <2>1
  <2>4. ~hasTrue /\ ~hasFalse
    BY <2>1
  <2>. HIDE DEF hasTrue, hasFalse
  <2>5. /\ presents' = IF present THEN (IF hasTrue THEN presents ELSE presents + 1)
                       ELSE IF hasTrue THEN presents - 1 ELSE presents
        /\ absents' = IF present THEN (IF hasFalse THEN absents - 1 ELSE absents)
                      ELSE IF hasFalse THEN absents ELSE absents + 1
    BY <1>c, <2>2, <2>4 DEF Bit
  <2>6. \A flag \in BOOLEAN :
          Entries(flag)' = IF flag = present THEN Entries(flag) \cup {<<u, v>>}
                           ELSE Entries(flag) \ {<<u, v>>}
    BY <2>1, <2>3, Zenon
  <2>. QED  BY <2>1, <2>5, <2>6, Zenon DEF Recorded, hasTrue, hasFalse
<1>2. CASE Found(u, v) /\ FlagOf(u, v) # present /\ FlipAt(u, v, present)
  <2>1. /\ IInv'
        /\ \A flag \in BOOLEAN :
             /\ <<u, v>> \in Entries(flag) <=> flag # present
             /\ Entries(flag)' = IF flag = present THEN Entries(flag) \cup {<<u, v>>}
                                 ELSE Entries(flag) \ {<<u, v>>}
    BY <1>2, FlipKeeps
  <2>2. /\ presents' = presents + Bit(present) - Bit(~present)
        /\ absents' = absents + Bit(~present) - Bit(present)
    BY <1>2 DEF FlipAt
  <2>4. (hasTrue <=> ~present) /\ (hasFalse <=> present)
    BY <2>1
  <2>. HIDE DEF hasTrue, hasFalse
  <2>5. /\ presents' = IF present THEN (IF hasTrue THEN presents ELSE presents + 1)
                       ELSE IF hasTrue THEN presents - 1 ELSE presents
        /\ absents' = IF present THEN (IF hasFalse THEN absents - 1 ELSE absents)
                      ELSE IF hasFalse THEN absents ELSE absents + 1
    BY <1>c, <2>2, <2>4 DEF Bit
  <2>. QED  BY <2>1, <2>5, Zenon DEF Recorded, hasTrue, hasFalse
<1>3. CASE Found(u, v) /\ FlagOf(u, v) = present /\ UNCHANGED vars
  <2>1. IInv' /\ \A flag \in BOOLEAN : Entries(flag)' = Entries(flag)
    BY <1>3, StutterKeeps
  <2>2. presents' = presents /\ absents' = absents
    BY <1>3 DEF vars
  <2>3. \A flag \in BOOLEAN : Entries(flag) = IF flag = present THEN Entries(flag) \cup {<<u, v>>}
                                              ELSE Entries(flag) \ {<<u, v>>}
    BY <1>0, <1>3
  <2>4. (hasTrue <=> present) /\ (hasFalse <=> ~present)
    BY <1>0, <1>3
  <2>. HIDE DEF hasTrue, hasFalse
  <2>5. /\ presents' = IF present THEN (IF hasTrue THEN presents ELSE presents + 1)
                       ELSE IF hasTrue THEN presents - 1 ELSE presents
        /\ absents' = IF present THEN (IF hasFalse THEN absents - 1 ELSE absents)
                      ELSE IF hasFalse THEN absents ELSE absents + 1
    BY <1>c, <2>2, <2>4 DEF Bit
  <2>6. \A flag \in BOOLEAN :
          Entries(flag)' = IF flag = present THEN Entries(flag) \cup {<<u, v>>}
                           ELSE Entries(flag) \ {<<u, v>>}
    BY <2>1, <2>3, Zenon
  <2>. QED  BY <2>1, <2>5, <2>6, Zenon DEF Recorded, hasTrue, hasFalse
<1>. QED  BY <1>1, <1>2, <1>3 DEF Upsert

(* erase keeps the invariant and removes the arc.                          *)
LEMMA RemovalKeeps ==
  ASSUME IInv, NEW u \in Rows, NEW v \in Targets, Found(u, v), EraseAt(u, v)
  PROVE  IInv' /\ Removed(u, v)
<1>1. /\ \A flag \in BOOLEAN : <<u, v>> \in Entries(flag) <=> FlagOf(u, v) = flag
      /\ FlagOf(u, v) \in BOOLEAN
      /\ presents \in Int /\ absents \in Int
  BY EntryOf, FoundIs, CountersTyped DEF IInv
<1>2. IInv' /\ \A flag \in BOOLEAN : Entries(flag)' = Entries(flag) \ {<<u, v>>}
  BY EraseKeeps
<1>3. presents' = presents - Bit(FlagOf(u, v)) /\ absents' = absents - Bit(~FlagOf(u, v))
  BY DEF EraseAt
<1>. DEFINE hasTrue == <<u, v>> \in Entries(TRUE)  hasFalse == <<u, v>> \in Entries(FALSE)
<1>4. /\ hasTrue <=> FlagOf(u, v) = TRUE
      /\ hasFalse <=> FlagOf(u, v) = FALSE
  BY <1>1
<1>. HIDE DEF hasTrue, hasFalse
<1>5. FlagOf(u, v) \in BOOLEAN /\ presents \in Int /\ absents \in Int
  BY <1>1
<1>6. /\ presents' = IF hasTrue THEN presents - 1 ELSE presents
      /\ absents' = IF hasFalse THEN absents - 1 ELSE absents
  BY <1>3, <1>4, <1>5 DEF Bit
<1>. QED  BY <1>2, <1>6, Zenon DEF Removed, hasTrue, hasFalse

-----------------------------------------------------------------------------
(* The overlay record PackedDelta shows the abstract map.                  *)
Side(P, M, p, m) ==
  [base |-> {}, patched |-> {}, patch |-> {}, plus |-> P, minus |-> M,
   adds |-> p, dels |-> m, dirty |-> {}, edges |-> 0]

Shown == Side(Entries(TRUE), Entries(FALSE), presents, absents)

Sides(P, M, p, m) ==
  [base : {{}}, patched : {{}}, patch : {{}}, plus : {P}, minus : {M},
   adds : {p}, dels : {m}, dirty : {{}}, edges : {0}]

LEMMA SidesAre ==
  ASSUME NEW P, NEW M, NEW p, NEW m, NEW s \in Sides(P, M, p, m)
  PROVE  s = Side(P, M, p, m)
  BY DEF Side, Sides

Erased(P, M, p, m, a, P2, M2, p2, m2) ==
  /\ P2 = P \ {a} /\ M2 = M \ {a}
  /\ p2 = IF a \in P THEN p - 1 ELSE p
  /\ m2 = IF a \in M THEN m - 1 ELSE m

(* The abstract erase, on the shown record.                                *)
LEMMA EraseIs ==
  ASSUME NEW P, NEW M, NEW p, NEW m, NEW a, NEW P2, NEW M2, NEW p2, NEW m2,
         Erased(P, M, p, m, a, P2, M2, p2, m2)
  PROVE  Map!Erase(Side(P, M, p, m), a) = Side(P2, M2, p2, m2)
<1>. DEFINE s == Side(P, M, p, m)
<1>1. /\ s.plus = P /\ s.minus = M /\ s.adds = p /\ s.dels = m
      /\ s \in Sides(P, M, p, m)
  BY DEF Side, Sides
<1>. HIDE DEF s
<1>2. Map!Erase(s, a) = [s EXCEPT !.plus = P2, !.minus = M2, !.adds = p2, !.dels = m2]
  BY <1>1 DEF Map!Erase, Erased
<1>3. [s EXCEPT !.plus = P2, !.minus = M2, !.adds = p2, !.dels = m2] \in Sides(P2, M2, p2, m2)
  BY <1>1 DEF Sides
<1>4. Map!Erase(s, a) \in Sides(P2, M2, p2, m2)
  BY <1>2, <1>3, Zenon
<1>. QED  BY <1>4, SidesAre DEF s

WrittenPresent(P, M, p, m, a, P2, M2, p2, m2) ==
  /\ P2 = P \cup {a} /\ M2 = M \ {a}
  /\ p2 = IF a \in P THEN p ELSE p + 1
  /\ m2 = IF a \in M THEN m - 1 ELSE m

(* The abstract write of a present arc, on the shown record.               *)
LEMMA UpsertPresentIs ==
  ASSUME NEW P, NEW M, NEW p, NEW m, NEW a, NEW P2, NEW M2, NEW p2, NEW m2,
         WrittenPresent(P, M, p, m, a, P2, M2, p2, m2)
  PROVE  Map!UpsertPresent(Side(P, M, p, m), a) = Side(P2, M2, p2, m2)
<1>. DEFINE s == Side(P, M, p, m)
<1>1. /\ s.plus = P /\ s.minus = M /\ s.adds = p /\ s.dels = m
      /\ s \in Sides(P, M, p, m)
  BY DEF Side, Sides
<1>. HIDE DEF s
<1>2. Map!UpsertPresent(s, a) = [s EXCEPT !.plus = P2, !.minus = M2, !.adds = p2, !.dels = m2]
  BY <1>1 DEF Map!UpsertPresent, WrittenPresent
<1>3. [s EXCEPT !.plus = P2, !.minus = M2, !.adds = p2, !.dels = m2] \in Sides(P2, M2, p2, m2)
  BY <1>1 DEF Sides
<1>4. Map!UpsertPresent(s, a) \in Sides(P2, M2, p2, m2)
  BY <1>2, <1>3, Zenon
<1>. QED  BY <1>4, SidesAre DEF s

WrittenAbsent(P, M, p, m, a, P2, M2, p2, m2) ==
  /\ P2 = P \ {a} /\ M2 = M \cup {a}
  /\ p2 = IF a \in P THEN p - 1 ELSE p
  /\ m2 = IF a \in M THEN m ELSE m + 1

(* The abstract write of an absent arc, on the shown record.               *)
LEMMA UpsertAbsentIs ==
  ASSUME NEW P, NEW M, NEW p, NEW m, NEW a, NEW P2, NEW M2, NEW p2, NEW m2,
         WrittenAbsent(P, M, p, m, a, P2, M2, p2, m2)
  PROVE  Map!UpsertAbsent(Side(P, M, p, m), a) = Side(P2, M2, p2, m2)
<1>. DEFINE s == Side(P, M, p, m)
<1>1. /\ s.plus = P /\ s.minus = M /\ s.adds = p /\ s.dels = m
      /\ s \in Sides(P, M, p, m)
  BY DEF Side, Sides
<1>. HIDE DEF s
<1>2. Map!UpsertAbsent(s, a) = [s EXCEPT !.plus = P2, !.minus = M2, !.adds = p2, !.dels = m2]
  BY <1>1 DEF Map!UpsertAbsent, WrittenAbsent
<1>3. [s EXCEPT !.plus = P2, !.minus = M2, !.adds = p2, !.dels = m2] \in Sides(P2, M2, p2, m2)
  BY <1>1 DEF Sides
<1>4. Map!UpsertAbsent(s, a) \in Sides(P2, M2, p2, m2)
  BY <1>2, <1>3, Zenon
<1>. QED  BY <1>4, SidesAre DEF s

(* The abstract write of the arc <<u, v>>, or nothing when it would change *)
(* nothing.                                                                *)
Wrote(u, v, present, basePresent) ==
  \/ Shown' = Map!SetEntry(Shown, <<u, v>>, present, basePresent)
  \/ ~Map!Changes(Shown, <<u, v>>, present, basePresent) /\ UNCHANGED Shown

(* Recording an arc that differs from the compact row is the abstract      *)
(* write.                                                                  *)
LEMMA RecordedWrites ==
  ASSUME NEW u \in Rows, NEW v \in Targets, NEW present \in BOOLEAN,
         NEW basePresent \in BOOLEAN, present # basePresent, Recorded(u, v, present)
  PROVE  Wrote(u, v, present, basePresent)
<1>. DEFINE a == <<u, v>>  P == Entries(TRUE)  M == Entries(FALSE)
<1>0. Shown = Side(P, M, presents, absents) /\ Shown' = Side(P', M', presents', absents')
  BY Zenon DEF Shown, Side
<1>1. CASE present = TRUE
  <2>1. WrittenPresent(P, M, presents, absents, a, P', M', presents', absents')
    BY <1>1 DEF Recorded, WrittenPresent
  <2>2. Map!SetEntry(Shown, a, present, basePresent) = Map!UpsertPresent(Shown, a)
    BY <1>1 DEF Map!SetEntry
  <2>. HIDE DEF P, M, a
  <2>3. Map!UpsertPresent(Side(P, M, presents, absents), a) = Side(P', M', presents', absents')
    BY <2>1, UpsertPresentIs
  <2>. QED  BY <1>0, <2>2, <2>3, Zenon DEF Wrote, a
<1>2. CASE present = FALSE
  <2>1. WrittenAbsent(P, M, presents, absents, a, P', M', presents', absents')
    BY <1>2 DEF Recorded, WrittenAbsent
  <2>2. Map!SetEntry(Shown, a, present, basePresent) = Map!UpsertAbsent(Shown, a)
    BY <1>2 DEF Map!SetEntry
  <2>. HIDE DEF P, M, a
  <2>3. Map!UpsertAbsent(Side(P, M, presents, absents), a) = Side(P', M', presents', absents')
    BY <2>1, UpsertAbsentIs
  <2>. QED  BY <1>0, <2>2, <2>3, Zenon DEF Wrote, a
<1>. QED  BY <1>1, <1>2

(* Removing an arc that agrees with the compact row is the abstract write. *)
LEMMA RemovedWrites ==
  ASSUME NEW u \in Rows, NEW v \in Targets, NEW present \in BOOLEAN, Removed(u, v)
  PROVE  Wrote(u, v, present, present)
<1>. DEFINE a == <<u, v>>  P == Entries(TRUE)  M == Entries(FALSE)
<1>0. Shown = Side(P, M, presents, absents) /\ Shown' = Side(P', M', presents', absents')
  BY Zenon DEF Shown, Side
<1>1. Erased(P, M, presents, absents, a, P', M', presents', absents')
  BY DEF Removed, Erased
<1>2. Map!SetEntry(Shown, a, present, present) = Map!Erase(Shown, a)
  BY DEF Map!SetEntry
<1>. HIDE DEF P, M, a
<1>3. Map!Erase(Side(P, M, presents, absents), a) = Side(P', M', presents', absents')
  BY <1>1, EraseIs
<1>. QED  BY <1>0, <1>2, <1>3, Zenon DEF Wrote, a

LEMMA StutterShows ==
  ASSUME IInv, UNCHANGED vars
  PROVE  UNCHANGED Shown
<1>1. Entries(TRUE)' = Entries(TRUE) /\ Entries(FALSE)' = Entries(FALSE)
  BY StutterKeeps
<1>2. presents' = presents /\ absents' = absents
  BY DEF vars
<1>. QED  BY <1>1, <1>2, Zenon DEF Shown, Side

(* set, the path of the incoming overlay, is an abstract write.            *)
LEMMA SetKeeps ==
  ASSUME IInv, NEW u \in Rows, NEW v \in Targets, NEW present \in BOOLEAN,
         NEW basePresent \in BOOLEAN, Set(u, v, present, basePresent)
  PROVE  IInv' /\ Wrote(u, v, present, basePresent)
<1>1. CASE present # basePresent /\ Upsert(u, v, present)
  BY <1>1, UpsertKeeps, RecordedWrites
<1>2. CASE present = basePresent /\ Found(u, v) /\ EraseAt(u, v)
  BY <1>2, RemovalKeeps, RemovedWrites
<1>3. CASE present = basePresent /\ ~Found(u, v) /\ UNCHANGED vars
  <2>1. IInv' /\ Entries(TRUE)' = Entries(TRUE) /\ Entries(FALSE)' = Entries(FALSE)
    BY <1>3, StutterKeeps
  <2>2. <<u, v>> \notin Entries(TRUE) /\ <<u, v>> \notin Entries(FALSE)
    BY <1>3, EntryOf DEF IInv
  <2>3. presents' = presents /\ absents' = absents
    BY <1>3 DEF vars
  <2>4. Removed(u, v)
    BY <2>1, <2>2, <2>3 DEF Removed
  <2>. QED  BY <1>3, <2>1, <2>4, RemovedWrites
<1>. QED  BY <1>1, <1>2, <1>3 DEF Set

(* set_if_changed, the path of the outgoing overlay, is an abstract write. *)
LEMMA SetIfChangedKeeps ==
  ASSUME IInv, NEW u \in Rows, NEW v \in Targets, NEW present \in BOOLEAN,
         NEW basePresent \in BOOLEAN, SetIfChanged(u, v, present, basePresent)
  PROVE  IInv' /\ Wrote(u, v, present, basePresent)
<1>. DEFINE current == IF Found(u, v) THEN FlagOf(u, v) ELSE basePresent
<1>0. \A flag \in BOOLEAN : <<u, v>> \in Entries(flag) <=> Found(u, v) /\ FlagOf(u, v) = flag
  BY EntryOf DEF IInv
<1>1. CASE current = present /\ UNCHANGED vars
  <2>1. IInv' /\ UNCHANGED Shown
    BY <1>1, StutterKeeps, StutterShows
  <2>2. Found(u, v) => FlagOf(u, v) \in BOOLEAN
    BY FoundIs DEF IInv
  <2>3. ~Map!Changes(Shown, <<u, v>>, present, basePresent)
    <3>1. Shown.plus = Entries(TRUE) /\ Shown.minus = Entries(FALSE)
      BY DEF Shown, Side
    <3>2. CASE Found(u, v)
      <4>1. <<u, v>> \in Shown.plus \cup Shown.minus
        BY <1>0, <2>2, <3>1, <3>2
      <4>2. <<u, v>> \in Shown.plus <=> present = TRUE
        BY <1>0, <1>1, <3>1, <3>2
      <4>. QED  BY <4>1, <4>2 DEF Map!Changes, Map!Overlay
    <3>3. CASE ~Found(u, v)
      <4>1. <<u, v>> \notin Shown.plus \cup Shown.minus
        BY <1>0, <3>1, <3>3
      <4>. QED  BY <1>1, <3>3, <4>1 DEF Map!Changes, Map!Overlay
    <3>. QED  BY <3>2, <3>3
  <2>. QED  BY <2>1, <2>3 DEF Wrote
<1>2. CASE current # present /\ present = basePresent /\ Found(u, v) /\ EraseAt(u, v)
  BY <1>2, RemovalKeeps, RemovedWrites
<1>3. CASE current # present /\ present # basePresent /\ Found(u, v) /\ FlipAt(u, v, present)
  <2>1. Upsert(u, v, present)
    BY <1>3 DEF Upsert
  <2>. QED  BY <1>3, <2>1, UpsertKeeps, RecordedWrites
<1>4. CASE current # present /\ present # basePresent /\ ~Found(u, v) /\ InsertAt(u, v, present)
  <2>1. Upsert(u, v, present)
    BY <1>4 DEF Upsert
  <2>. QED  BY <1>4, <2>1, UpsertKeeps, RecordedWrites
<1>. QED  BY <1>1, <1>2, <1>3, <1>4 DEF SetIfChanged

(* The Cardinality the abstract module sees is the one proved about here.  *)
LEMMA SameCardinality ==
  ASSUME NEW S
  PROVE  Map!Cardinality(S) = Cardinality(S)
  BY Zenon DEF Map!Cardinality, Cardinality

(* clear_range of a row is the abstract clearing of the row.               *)
LEMMA ClearRowShows ==
  ASSUME IInv, NEW u \in Rows, ClearRow(u)
  PROVE  IInv' /\ Map!ClearRow(u)
<1>. DEFINE P == Entries(TRUE)  M == Entries(FALSE)  R == InRow(TRUE, u)  Q == InRow(FALSE, u)
<1>1. /\ IInv' /\ P' = P \ R /\ M' = M \ Q
      /\ presents' = presents - Cardinality(R) /\ absents' = absents - Cardinality(Q)
  BY ClearRowKeeps
<1>2. Map!InRows(P, {u}) = R /\ Map!InRows(M, {u}) = Q
  BY DEF Map!InRows, InRow
<1>3. Shown = Side(P, M, presents, absents) /\ Shown' = Side(P', M', presents', absents')
  BY Zenon DEF Shown, Side
<1>4. Map!ClearRow(u) <=>
        Shown' = [Shown EXCEPT !.plus  = @ \ Map!InRows(@, {u}),
                               !.minus = @ \ Map!InRows(@, {u}),
                               !.adds  = @ - Map!Cardinality(Map!InRows(Shown.plus, {u})),
                               !.dels  = @ - Map!Cardinality(Map!InRows(Shown.minus, {u}))]
  BY Zenon DEF Map!ClearRow, Shown, Side
<1>. HIDE DEF P, M, R, Q
<1>5. /\ Shown.plus = P /\ Shown.minus = M /\ Shown.adds = presents /\ Shown.dels = absents
      /\ Shown \in Sides(P, M, presents, absents)
  <2>. DEFINE s == Side(P, M, presents, absents)
  <2>1. /\ s.plus = P /\ s.minus = M /\ s.adds = presents /\ s.dels = absents
        /\ s \in Sides(P, M, presents, absents)
    BY DEF Side, Sides
  <2>. HIDE DEF s
  <2>2. Shown = s
    BY <1>3, Zenon DEF s
  <2>. QED  BY <2>1, <2>2, Zenon
<1>6. [Shown EXCEPT !.plus  = @ \ Map!InRows(@, {u}),
                    !.minus = @ \ Map!InRows(@, {u}),
                    !.adds  = @ - Map!Cardinality(Map!InRows(Shown.plus, {u})),
                    !.dels  = @ - Map!Cardinality(Map!InRows(Shown.minus, {u}))] =
      [Shown EXCEPT !.plus = P', !.minus = M', !.adds = presents', !.dels = absents']
  <2>1. /\ Map!Cardinality(Map!InRows(P, {u})) = Cardinality(R)
        /\ Map!Cardinality(Map!InRows(M, {u})) = Cardinality(Q)
    BY <1>2, SameCardinality, Zenon
  <2>. QED  BY <1>1, <1>2, <1>5, <2>1
<1>7. [Shown EXCEPT !.plus = P', !.minus = M', !.adds = presents', !.dels = absents'] =
        Side(P', M', presents', absents')
  <2>1. [Shown EXCEPT !.plus = P', !.minus = M', !.adds = presents', !.dels = absents']
          \in Sides(P', M', presents', absents')
    BY <1>5 DEF Sides
  <2>. QED  BY <2>1, SidesAre
<1>. QED  BY <1>1, <1>3, <1>4, <1>6, <1>7, Zenon

LEMMA EmptyShows ==
  ASSUME NoEntries, presents = 0, absents = 0
  PROVE  Shown = Map!EmptySide
<1>1. Map!Cardinality({}) = 0
  BY FS_EmptySet, SameCardinality
<1>2. Entries(TRUE) = {} /\ Entries(FALSE) = {}
  BY DEF NoEntries
<1>3. Map!EmptySide \in Sides({}, {}, 0, 0)
  BY <1>1 DEF Map!EmptySide, Map!LoadedSide, Sides
<1>4. Map!EmptySide = Side({}, {}, 0, 0)
  BY <1>3, SidesAre
<1>5. Shown = Side({}, {}, 0, 0)
  <2>1. Shown \in Sides({}, {}, 0, 0)
    BY <1>2 DEF Shown, Side, Sides
  <2>. QED  BY <2>1, SidesAre
<1>. QED  BY <1>4, <1>5, Zenon

Counted == NoEntries /\ presents = 0 /\ absents = 0

(* clear is the abstract clearing of the map.                              *)
LEMMA ClearShows == Clear => IInv' /\ Shown' = Map!EmptySide
<1>1. Counted => Shown = Map!EmptySide
  BY EmptyShows DEF Counted
<1>2. ASSUME Clear PROVE Counted'
  BY <1>2, ClearKeeps DEF Clear, Counted
<1>3. Counted' => Shown' = Map!EmptySide
  <2>. DEFINE empty == Shown = Map!EmptySide
  <2>1. Counted => empty
    BY <1>1
  <2>2. Counted' => empty'
    BY <2>1, PTL
  <2>3. empty' <=> Shown' = Map!EmptySide
    OBVIOUS
  <2>. QED  BY <2>2, <2>3
<1>. QED  BY <1>2, <1>3, ClearKeeps

(* repack is invisible to the map.                                         *)
LEMMA RepackShows ==
  ASSUME IInv, Repack
  PROVE  IInv' /\ UNCHANGED Shown
<1>1. IInv' /\ Entries(TRUE)' = Entries(TRUE) /\ Entries(FALSE)' = Entries(FALSE)
  BY RepackKeeps
<1>2. presents' = presents /\ absents' = absents
  BY DEF Repack
<1>. QED  BY <1>1, <1>2, Zenon DEF Shown, Side

LEMMA WroteShows ==
  ASSUME NEW u \in Rows, NEW v \in Targets, NEW present \in BOOLEAN,
         NEW basePresent \in BOOLEAN, Wrote(u, v, present, basePresent)
  PROVE  Map!Next
<1>1. Map!Write(<<u, v>>, present, basePresent)
  BY DEF Wrote, Map!Write, Shown, Side
<1>. QED  BY <1>1 DEF Map!Next

(* Every operation keeps the invariant and is a step of the abstract map   *)
(* or changes nothing the map shows.                                       *)
LEMMA StepKeeps ==
  ASSUME IInv, [Next]_vars
  PROVE  IInv' /\ (Map!Next \/ UNCHANGED Shown)
<1>1. ASSUME NEW u \in Rows, NEW v \in Targets, NEW present \in BOOLEAN,
             NEW basePresent \in BOOLEAN,
             Set(u, v, present, basePresent) \/ SetIfChanged(u, v, present, basePresent)
      PROVE  IInv' /\ Map!Next
  BY <1>1, SetKeeps, SetIfChangedKeeps, WroteShows
<1>2. ASSUME NEW u \in Rows, ClearRow(u)
      PROVE  IInv' /\ Map!Next
  BY <1>2, ClearRowShows DEF Map!Next
<1>3. CASE Clear
  <2>1. IInv' /\ Shown' = Map!EmptySide
    BY <1>3, ClearShows
  <2>2. Map!Clear
    BY <2>1 DEF Map!Clear, Shown, Side
  <2>. QED  BY <2>1, <2>2 DEF Map!Next
<1>4. CASE Repack
  BY <1>4, RepackShows
<1>5. CASE UNCHANGED vars
  BY <1>5, StutterKeeps, StutterShows
<1>. QED  BY <1>1, <1>2, <1>3, <1>4, <1>5 DEF Next

-----------------------------------------------------------------------------
(* In every reachable state the rows own disjoint slots inside the arena,  *)
(* their entries are sorted destinations, and the three counters are the   *)
(* numbers of entries the rows hold: PackedDeltaStore never lets a row     *)
(* that moved, shrank or was packed read another row's slots.              *)
THEOREM InvariantInductive == Spec => []IInv
<1>1. Init => IInv
  BY InitHolds
<1>2. IInv /\ [Next]_vars => IInv'
  BY StepKeeps
<1>. QED  BY <1>1, <1>2, PTL DEF Spec

(* Rows never share arena slots and never reach past the end of the arena, *)
(* whatever sequence of ensure_capacity, erase, clear_range and repack     *)
(* moved them.                                                             *)
THEOREM ExtentsHold == Spec => []ExtentsDisjoint
<1>1. IInv => ExtentsDisjoint
  <2>. SUFFICES ASSUME IInv PROVE ExtentsDisjoint
    OBVIOUS
  <2>1. ASSUME NEW u \in Rows, meta[u].capacity > 0
        PROVE  Extent(u) \subseteq DOMAIN arena
    <3>1. /\ meta[u].offset \in Nat /\ meta[u].capacity \in Nat
          /\ meta[u].offset + meta[u].capacity <= Len(arena)
      BY <2>1 DEF IInv, Rowed, Layout
    <3>2. DOMAIN arena = 1 .. Len(arena) /\ Len(arena) \in Nat
      BY LenProperties DEF IInv, Rowed, Layout
    <3>. QED  BY <3>1, <3>2 DEF Extent
  <2>. QED  BY <2>1 DEF ExtentsDisjoint, IInv, Rowed, Layout
<1>. QED  BY <1>1, InvariantInductive, PTL

(* Rows are typed, fit in their slots and stay strictly sorted, and        *)
(* live_entries_, on whose zero repack() drops the whole arena, is the     *)
(* number of entries the rows hold.                                        *)
THEOREM RowsHold == Spec => []RowsWellFormed
<1>1. IInv => RowsWellFormed
  <2>. SUFFICES ASSUME IInv PROVE RowsWellFormed
    OBVIOUS
  <2>1. TypeOK
    <3>1. live \in Nat /\ presents \in Nat /\ absents \in Nat
      BY CountersTyped
    <3>. QED  BY <3>1 DEF TypeOK, IInv, Rowed, Layout, Cell
  <2>2. live = Cardinality(Entries(TRUE)) + Cardinality(Entries(FALSE))
    BY Zenon DEF IInv, EntriesCounted
  <2>3. \A u \in Rows :
          /\ meta[u].count <= meta[u].capacity
          /\ \A i, j \in 1 .. meta[u].count : i < j => Row(u)[i].dst < Row(u)[j].dst
    BY Zenon DEF IInv, Rowed, Layout, Sorted
  <2>. QED  BY <2>1, <2>2, <2>3, Zenon DEF RowsWellFormed
<1>. QED  BY <1>1, InvariantInductive, PTL

(* The arena refines the overlay map: every operation of PackedDeltaStore, *)
(* moves and packing included, is one write of the map, one row cleared,   *)
(* the map cleared, or invisible.                                          *)
THEOREM ArenaImplementsMap == Spec => ImplementsMap
<1>1. Init => Map!Init
  <2>. SUFFICES ASSUME Init PROVE Map!Init
    OBVIOUS
  <2>1. NoEntries /\ presents = 0 /\ absents = 0
    BY InitHolds DEF Init
  <2>2. Shown = Map!EmptySide
    BY <2>1, EmptyShows
  <2>. QED  BY <2>2 DEF Map!Init, Shown, Side
<1>2. ASSUME IInv, [Next]_vars
      PROVE  Map!Next \/ UNCHANGED Shown
  BY <1>2, StepKeeps
<1>3. UNCHANGED Shown <=>
        UNCHANGED [base |-> {}, patched |-> {}, patch |-> {},
                   plus |-> Entries(TRUE), minus |-> Entries(FALSE),
                   adds |-> presents, dels |-> absents, dirty |-> {}, edges |-> 0]
  BY DEF Shown, Side
<1>. QED  BY <1>1, <1>2, <1>3, InvariantInductive, PTL DEF Spec, ImplementsMap, Map!Spec
==============================================================================
