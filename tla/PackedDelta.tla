----------------------------- MODULE PackedDelta -----------------------------
(***************************************************************************)
(* storage_detail::PackedDeltaStore: the overlay rows of one side packed   *)
(* into a shared arena.  A row owns the slots offset .. offset+capacity-1  *)
(* and uses the first count of them, sorted by destination; a row that     *)
(* outgrows its slots moves to the end of the arena and leaves a hole that *)
(* only repack() reclaims.  Slots nobody uses keep their last content.     *)
(***************************************************************************)
EXTENDS Integers, Sequences, FiniteSets

CONSTANTS Rows,        \* row indices
          Targets,     \* the destinations entries may name
          MaxArena     \* bound on the arena, for model checking

ASSUME DeltaConstants ==
  /\ IsFiniteSet(Rows) /\ Rows \subseteq Nat
  /\ IsFiniteSet(Targets) /\ Targets \subseteq Nat
  /\ MaxArena \in Nat

VARIABLES arena,       \* arena_
          meta,        \* rows_: offset, count and capacity of each row
          live,        \* live_entries_
          presents,    \* present_entries_
          absents      \* absent_entries_

vars == <<arena, meta, live, presents, absents>>

Entry == [dst : Targets, present : BOOLEAN]

NoOffset == -1         \* kNoOffset

NoRow == [offset |-> NoOffset, count |-> 0, capacity |-> 0]

(* A slot that resize() created: a value-initialised Entry. *)
FreshSlot == [dst |-> 0, present |-> TRUE]

TypeOK ==
  /\ arena \in Seq([dst : Targets \cup {0}, present : BOOLEAN])
  /\ meta \in [Rows -> [offset : Nat \cup {NoOffset}, count : Nat, capacity : Nat]]
  /\ live \in Nat
  /\ presents \in Nat
  /\ absents \in Nat

-----------------------------------------------------------------------------
(* row(u) *)
Row(u) ==
  IF meta[u].count = 0 THEN <<>>
  ELSE SubSeq(arena, meta[u].offset + 1, meta[u].offset + meta[u].count)

(* lower_bound: how many entries of the row precede v. *)
Position(u, v) == Cardinality({i \in 1 .. meta[u].count : Row(u)[i].dst < v})

Found(u, v) ==
  Position(u, v) < meta[u].count /\ Row(u)[Position(u, v) + 1].dst = v

FlagOf(u, v) == Row(u)[Position(u, v) + 1].present

Bit(b) == IF b THEN 1 ELSE 0

(* Mutant: the entries of a row that moves are not copied. *)
GrownForgetsRow(u) ==
  LET m == meta[u]
      cap == IF 2 * m.capacity > 1 THEN 2 * m.capacity ELSE 1
  IN  IF m.capacity >= m.count + 1
      THEN [arena |-> arena, offset |-> m.offset, capacity |-> m.capacity]
      ELSE [arena |-> arena \o [k \in 1 .. cap |-> FreshSlot],
            offset |-> Len(arena), capacity |-> cap]

(* ensure_capacity: the arena and the row's slots once count + 1 entries   *)
(* fit.                                                                    *)
Grown(u) ==
  LET m   == meta[u]
      old == IF 2 * m.capacity > 1 THEN 2 * m.capacity ELSE 1
      cap == IF m.count + 1 > old THEN m.count + 1 ELSE old
  IN  IF m.capacity >= m.count + 1
      THEN [arena |-> arena, offset |-> m.offset, capacity |-> m.capacity]
      ELSE [arena |-> arena \o [k \in 1 .. cap |->
                                  IF k <= m.count THEN arena[m.offset + k] ELSE FreshSlot],
            offset |-> Len(arena), capacity |-> cap]

(* The entry of v disappears and its successors move down one slot. *)
EraseAt(u, v) ==
  LET first == meta[u].offset + Position(u, v) + 1
      last  == meta[u].offset + meta[u].count
  IN  /\ arena' = [k \in DOMAIN arena |->
                     IF first <= k /\ k < last THEN arena[k + 1] ELSE arena[k]]
      /\ meta' = [meta EXCEPT ![u].count = @ - 1]
      /\ live' = live - 1
      /\ presents' = presents - Bit(FlagOf(u, v))
      /\ absents' = absents - Bit(~FlagOf(u, v))

(* The entry of v takes the other flag. *)
FlipAt(u, v, present) ==
  /\ arena' = [arena EXCEPT ![meta[u].offset + Position(u, v) + 1].present = present]
  /\ presents' = presents + Bit(present) - Bit(~present)
  /\ absents' = absents + Bit(~present) - Bit(present)
  /\ UNCHANGED <<meta, live>>

(* Successors move up one slot and v's entry goes between. *)
InsertAt(u, v, present) ==
  LET g     == Grown(u)
      first == g.offset + Position(u, v) + 1
      last  == g.offset + meta[u].count + 1
  IN  /\ Len(g.arena) <= MaxArena
      /\ arena' = [k \in DOMAIN g.arena |->
                     IF k = first THEN [dst |-> v, present |-> present]
                     ELSE IF first < k /\ k <= last THEN g.arena[k - 1] ELSE g.arena[k]]
      /\ meta' = [meta EXCEPT ![u] = [offset |-> g.offset, count |-> @.count + 1,
                                      capacity |-> g.capacity]]
      /\ live' = live + 1
      /\ presents' = presents + Bit(present)
      /\ absents' = absents + Bit(~present)

-----------------------------------------------------------------------------
Init ==
  /\ arena = <<>>
  /\ meta = [u \in Rows |-> NoRow]
  /\ live = 0
  /\ presents = 0
  /\ absents = 0

(* upsert *)
Upsert(u, v, present) ==
  \/ ~Found(u, v) /\ InsertAt(u, v, present)
  \/ Found(u, v) /\ FlagOf(u, v) # present /\ FlipAt(u, v, present)
  \/ Found(u, v) /\ FlagOf(u, v) = present /\ UNCHANGED vars

(* set, the path of the incoming overlay. *)
Set(u, v, present, basePresent) ==
  \/ present # basePresent /\ Upsert(u, v, present)
  \/ present = basePresent /\ Found(u, v) /\ EraseAt(u, v)
  \/ present = basePresent /\ ~Found(u, v) /\ UNCHANGED vars

(* set_if_changed, the path of the outgoing overlay: it returns before any *)
(* change when the arc already has the desired state.                      *)
SetIfChanged(u, v, present, basePresent) ==
  LET current == IF Found(u, v) THEN FlagOf(u, v) ELSE basePresent
  IN  \/ current = present /\ UNCHANGED vars
      \/ /\ current # present
         /\ \/ present = basePresent /\ Found(u, v) /\ EraseAt(u, v)
            \/ present # basePresent /\ Found(u, v) /\ FlipAt(u, v, present)
            \/ present # basePresent /\ ~Found(u, v) /\ InsertAt(u, v, present)

(* Mutant: the live count keeps the entries of the cleared row. *)
ClearRowKeepsLive(u) ==
  /\ meta[u].count # 0
  /\ presents' = presents - Cardinality({i \in 1 .. meta[u].count : Row(u)[i].present})
  /\ absents' = absents - Cardinality({i \in 1 .. meta[u].count : ~Row(u)[i].present})
  /\ meta' = [meta EXCEPT ![u] = NoRow]
  /\ UNCHANGED <<arena, live>>

(* clear_range(u, u + 1), after the row was merged; the slots are lost     *)
(* until the next repack.                                                  *)
ClearRow(u) ==
  /\ meta[u].count # 0
  /\ presents' = presents - Cardinality({i \in 1 .. meta[u].count : Row(u)[i].present})
  /\ absents' = absents - Cardinality({i \in 1 .. meta[u].count : ~Row(u)[i].present})
  /\ live' = live - meta[u].count
  /\ meta' = [meta EXCEPT ![u] = NoRow]
  /\ UNCHANGED arena

(* clear(), before a bulk load. *)
Clear ==
  /\ arena' = <<>>
  /\ meta' = [u \in Rows |-> NoRow]
  /\ live' = 0
  /\ presents' = 0
  /\ absents' = 0

(* The slots that hold an entry, by row and place in the row. *)
UsedSlots(rows) == {s \in rows \X (1 .. Len(arena)) : s[2] <= meta[s[1]].count}

(* How many slots the rows below u use once packed in row order. *)
PackedBefore(u) == Cardinality(UsedSlots({w \in Rows : w < u}))

(* The arena of the packed rows. *)
Packed ==
  [k \in 1 .. live |->
     LET u == CHOOSE w \in Rows :
                PackedBefore(w) < k /\ k <= PackedBefore(w) + meta[w].count
     IN  Row(u)[k - PackedBefore(u)]]

(* Mutant: a row without entries keeps its slots. *)
RepackKeepsEmptyRows ==
  /\ meta' = [u \in Rows |->
                IF meta[u].count = 0 THEN meta[u]
                ELSE [offset |-> PackedBefore(u), count |-> meta[u].count,
                      capacity |-> meta[u].count]]
  /\ arena' = Packed
  /\ UNCHANGED <<live, presents, absents>>

(* repack(): rows move to the front of a new arena without slack; a row    *)
(* without entries gives up its slots.                                     *)
Repack ==
  /\ IF live = 0
     THEN /\ arena' = <<>>
          /\ meta' = [u \in Rows |-> NoRow]
     ELSE /\ meta' = [u \in Rows |->
                        IF meta[u].count = 0 THEN NoRow
                        ELSE [offset |-> PackedBefore(u), count |-> meta[u].count,
                              capacity |-> meta[u].count]]
          /\ arena' = Packed
  /\ UNCHANGED <<live, presents, absents>>

Next ==
  \/ \E u \in Rows, v \in Targets, present, basePresent \in BOOLEAN :
       \/ Set(u, v, present, basePresent)
       \/ SetIfChanged(u, v, present, basePresent)
  \/ \E u \in Rows : ClearRow(u)
  \/ Clear
  \/ Repack

Spec == Init /\ [][Next]_vars

(* What the operations read: slots outside the rows are never looked at,   *)
(* so states that differ there alone are one state to TLC.                 *)
ReadState == <<Len(arena), meta, live, presents, absents, [u \in Rows |-> Row(u)]>>

-----------------------------------------------------------------------------
Extent(u) == (meta[u].offset + 1) .. (meta[u].offset + meta[u].capacity)

(* Slots belong to one row: a row that moves, is cleared and filled again, *)
(* or survives a repack never shares arena slots with another row, and     *)
(* never reaches past the end of the arena.                                *)
ExtentsDisjoint ==
  /\ \A u \in Rows : meta[u].capacity > 0 => Extent(u) \subseteq DOMAIN arena
  /\ \A u, w \in Rows : u # w => Extent(u) \cap Extent(w) = {}

Entries(flag) ==
  {a \in Rows \X Targets :
     \E i \in 1 .. meta[a[1]].count : Row(a[1])[i] = [dst |-> a[2], present |-> flag]}

(* The arena is well typed, rows fit in their slots and are sorted without *)
(* duplicates, which is what the binary searches and the row merge rely    *)
(* on, and live_entries_, which repack() trusts when it drops the whole    *)
(* arena, is the number of entries the rows hold.                          *)
RowsWellFormed ==
  /\ TypeOK
  /\ \A u \in Rows :
       /\ meta[u].count <= meta[u].capacity
       /\ \A i, j \in 1 .. meta[u].count : i < j => Row(u)[i].dst < Row(u)[j].dst
  /\ live = Cardinality(Entries(TRUE)) + Cardinality(Entries(FALSE))

(* The arena implements the overlay map, counters included: moving rows,   *)
(* dropping and packing them never loses, duplicates or flips an entry.    *)
Map == INSTANCE DeltaMap WITH
         overlay <- [base |-> {}, patched |-> {}, patch |-> {},
                     plus |-> Entries(TRUE), minus |-> Entries(FALSE),
                     adds |-> presents, dels |-> absents, dirty |-> {}, edges |-> 0]
ImplementsMap == Map!Spec
=============================================================================
