------------------------------ MODULE GraphSide ------------------------------
(***************************************************************************)
(* One adjacency side of velographx::DynamicGraph (outgoing or incoming):  *)
(* the compact rows (a SegmentedCsr base and the CompactRowPatches that    *)
(* replace single rows of it), the PackedDeltaStore overlay, the list of   *)
(* rows touched since they were last compacted, and the counters the code  *)
(* maintains incrementally instead of recounting.                          *)
(*                                                                         *)
(* A row is a sorted duplicate-free vector in the code, hence a set here;  *)
(* the whole side is a set of pairs <<row, dst>>.  An overlay entry        *)
(* {dst, present} of row u is a member of plus (present) or of minus (not  *)
(* present).  The module has no state: DynamicGraph holds two sides.       *)
(***************************************************************************)
EXTENDS Integers, FiniteSets

(* The arcs of S that lie in a row of R. *)
InRows(S, R) == {a \in S : a[1] \in R}

Transpose(S) == {<<a[2], a[1]>> : a \in S}

(* A side just built from arcs: no patch, no overlay entry, clean rows. *)
LoadedSide(arcs) ==
  [base |-> arcs, patched |-> {}, patch |-> {}, plus |-> {}, minus |-> {},
   adds |-> 0, dels |-> 0, dirty |-> {}, edges |-> Cardinality(arcs)]

EmptySide == LoadedSide({})

(* compact_row: a patched row hides the base row. *)
CompactRows(s) == {a \in s.base : a[1] \notin s.patched} \cup s.patch

(* materialize_row and has_edge: an overlay entry decides, else the        *)
(* compact row does.                                                       *)
View(s) == (CompactRows(s) \ s.minus) \cup s.plus

Overlay(s) == s.plus \cup s.minus

(* PackedDeltaStore::size, kept by the code as a counter of its own that   *)
(* moves together with the other two.                                      *)
Size(s) == s.adds + s.dels

-----------------------------------------------------------------------------
(* PackedDeltaStore::erase *)
Erase(s, a) ==
  [s EXCEPT !.plus = @ \ {a}, !.minus = @ \ {a},
            !.adds = IF a \in s.plus THEN @ - 1 ELSE @,
            !.dels = IF a \in s.minus THEN @ - 1 ELSE @]

(* PackedDeltaStore::upsert of a present entry, and of an absent one. *)
UpsertPresent(s, a) ==
  [s EXCEPT !.plus = @ \cup {a}, !.minus = @ \ {a},
            !.adds = IF a \in s.plus THEN @ ELSE @ + 1,
            !.dels = IF a \in s.minus THEN @ - 1 ELSE @]

UpsertAbsent(s, a) ==
  [s EXCEPT !.plus = @ \ {a}, !.minus = @ \cup {a},
            !.adds = IF a \in s.plus THEN @ - 1 ELSE @,
            !.dels = IF a \in s.minus THEN @ ELSE @ + 1]

(* Mutant: the overlay records every update, redundant or not. *)
SetEntryKeepsRedundant(s, a, present, basePresent) ==
  IF present THEN UpsertPresent(s, a) ELSE UpsertAbsent(s, a)

(* PackedDeltaStore::set: an entry that says what the compact row says is  *)
(* removed.                                                                *)
SetEntry(s, a, present, basePresent) ==
  IF present = basePresent THEN Erase(s, a)
  ELSE IF present THEN UpsertPresent(s, a)
  ELSE UpsertAbsent(s, a)

(* The test at the head of set_if_changed. *)
Changes(s, a, present, basePresent) ==
  present # (IF a \in Overlay(s) THEN a \in s.plus ELSE basePresent)

MarkDirty(s, u) == [s EXCEPT !.dirty = @ \cup {u}]

-----------------------------------------------------------------------------
(* compact_one_row for every row of R that has overlay entries: the merged *)
(* row becomes a patch, the row's entries go, and the compact edge count   *)
(* moves by new_size - old_size.                                           *)
Live(s, R) == {u \in R : \E a \in Overlay(s) : a[1] = u}

(* Mutant: the edge count gains the new rows and keeps the old ones. *)
CompactLiveKeepsOldSize(s, L) ==
  [s EXCEPT
     !.patched = @ \cup L,
     !.patch   = (@ \ InRows(@, L)) \cup InRows(View(s), L),
     !.plus    = @ \ InRows(@, L),
     !.minus   = @ \ InRows(@, L),
     !.adds    = @ - Cardinality(InRows(s.plus, L)),
     !.dels    = @ - Cardinality(InRows(s.minus, L)),
     !.edges   = @ + Cardinality(InRows(View(s), L))]

(* Mutant: the merge copies the compact row and the added entries, and     *)
(* forgets the deleted ones.                                               *)
CompactLiveForgetsDeletions(s, L) ==
  LET merged == InRows(CompactRows(s) \cup s.plus, L)
  IN  [s EXCEPT
         !.patched = @ \cup L,
         !.patch   = (@ \ InRows(@, L)) \cup merged,
         !.plus    = @ \ InRows(@, L),
         !.minus   = @ \ InRows(@, L),
         !.adds    = @ - Cardinality(InRows(s.plus, L)),
         !.dels    = @ - Cardinality(InRows(s.minus, L)),
         !.edges   = @ - Cardinality(InRows(CompactRows(s), L)) + Cardinality(merged)]

CompactLive(s, L) ==
  [s EXCEPT
     !.patched = @ \cup L,
     !.patch   = (@ \ InRows(@, L)) \cup InRows(View(s), L),
     !.plus    = @ \ InRows(@, L),
     !.minus   = @ \ InRows(@, L),
     !.adds    = @ - Cardinality(InRows(s.plus, L)),
     !.dels    = @ - Cardinality(InRows(s.minus, L)),
     !.edges   = @ - Cardinality(InRows(CompactRows(s), L))
                   + Cardinality(InRows(View(s), L))]

(* compact_marked_rows *)
CompactMarked(s) == [CompactLive(s, Live(s, s.dirty)) EXCEPT !.dirty = {}]

(* density = overlay_size / max(budget, base_size) reaches the threshold   *)
(* t[1] / t[2].                                                            *)
Dense(s, u, budget, t) ==
  LET baseSize == Cardinality(InRows(CompactRows(s), {u}))
      work == IF baseSize > budget THEN baseSize ELSE budget
  IN  Cardinality(InRows(Overlay(s), {u})) * t[2] >= t[1] * work

(* Mutant: the rows left pending are dropped from the dirty list. *)
CompactDenseForgetsPending(s, budget, t) ==
  LET live == Live(s, s.dirty)
      hot  == {u \in live : Dense(s, u, budget, t)}
  IN  [CompactLive(s, hot) EXCEPT !.dirty = {}]

(* compact_dense_rows: dense rows are compacted, the other rows that have  *)
(* entries stay pending, rows without entries are forgotten.               *)
CompactDense(s, budget, t) ==
  LET live == Live(s, s.dirty)
      hot  == {u \in live : Dense(s, u, budget, t)}
  IN  [CompactLive(s, hot) EXCEPT !.dirty = live \ hot]
=============================================================================
