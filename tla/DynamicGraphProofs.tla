-------------------------- MODULE DynamicGraphProofs --------------------------
(***************************************************************************)
(* Proofs about DynamicGraph for every number of vertices, every set of    *)
(* updates and bulk loads, and every compaction threshold.                 *)
(*                                                                         *)
(* SideInv is what each side keeps on its own: its counters count, and its *)
(* dirty list covers its overlay.  It does not tie the two sides together. *)
(* OverlayCanonical holds of the outgoing side only, because apply_arc     *)
(* consults the outgoing compact rows for both overlays.                   *)
(***************************************************************************)
EXTENDS DynamicGraph, FiniteSetTheorems, TLAPS

SideInv(s) ==
  /\ s \in Side
  /\ s.adds = Cardinality(s.plus)
  /\ s.dels = Cardinality(s.minus)
  /\ s.edges = Cardinality(CompactRows(s))
  /\ s.plus \cap s.minus = {}
  /\ \A a \in Overlay(s) : a[1] \in s.dirty

Canonical(s) ==
  /\ s.plus \cap CompactRows(s) = {}
  /\ s.minus \subseteq CompactRows(s)

IInv ==
  /\ SideInv(outSide)
  /\ SideInv(inSide)
  /\ Canonical(outSide)
  /\ vertexCount \in 0 .. MaxVertices
  /\ version \in 0 .. VersionModulus - 1
  /\ inBatch \in BOOLEAN

-----------------------------------------------------------------------------
(* There are finitely many arcs, hence finitely many in every row. *)
LEMMA ArcFinite ==
  /\ IsFiniteSet(Arc)
  /\ \A S \in SUBSET Arc : IsFiniteSet(S) /\ Cardinality(S) \in Nat
<1>1. IsFiniteSet(Vertex)
  BY GraphConstants, FS_Interval DEF Vertex
<1>2. IsFiniteSet(Arc)
  BY <1>1, FS_Product DEF Arc
<1>3. QED
  BY <1>2, FS_Subset, FS_CardinalityType

(* How the size of a set of arcs moves when one arc is added or removed. *)
LEMMA CountOne ==
  ASSUME NEW S \in SUBSET Arc, NEW a \in Arc
  PROVE  /\ Cardinality(S \cup {a}) = IF a \in S THEN Cardinality(S) ELSE Cardinality(S) + 1
         /\ Cardinality(S \ {a}) = IF a \in S THEN Cardinality(S) - 1 ELSE Cardinality(S)
BY ArcFinite, FS_AddElement, FS_RemoveElement

(* Cardinalities of the parts a set of rows cuts out of a set of arcs. *)
LEMMA CountRows ==
  ASSUME NEW S \in SUBSET Arc, NEW R
  PROVE  /\ InRows(S, R) \in SUBSET Arc
         /\ S \ InRows(S, R) \in SUBSET Arc
         /\ Cardinality(S \ InRows(S, R)) = Cardinality(S) - Cardinality(InRows(S, R))
<1>1. InRows(S, R) \subseteq S
  BY DEF InRows
<1>2. S \cap InRows(S, R) = InRows(S, R)
  BY <1>1
<1>3. QED
  BY <1>1, <1>2, ArcFinite, FS_Difference

LEMMA CountDisjoint ==
  ASSUME NEW S \in SUBSET Arc, NEW T \in SUBSET Arc, S \cap T = {}
  PROVE  Cardinality(S \cup T) = Cardinality(S) + Cardinality(T)
<1>1. IsFiniteSet(S) /\ IsFiniteSet(T) /\ Cardinality(S) \in Nat /\ Cardinality(T) \in Nat
  BY ArcFinite
<1>2. Cardinality(S \cup T) = Cardinality(S) + Cardinality(T) - Cardinality(S \cap T)
  BY <1>1, FS_Union
<1>3. QED
  BY <1>1, <1>2, FS_EmptySet

-----------------------------------------------------------------------------
(* A fresh side and a bulk-loaded one satisfy the side invariant. *)
LEMMA LoadedSideInv ==
  ASSUME NEW arcs \in SUBSET Arc
  PROVE  /\ SideInv(LoadedSide(arcs))
         /\ Canonical(LoadedSide(arcs))
         /\ View(LoadedSide(arcs)) = arcs
         /\ CompactRows(LoadedSide(arcs)) = arcs
<1> DEFINE s == LoadedSide(arcs)
<1>1. s = [base |-> arcs, patched |-> {}, patch |-> {}, plus |-> {}, minus |-> {},
           adds |-> 0, dels |-> 0, dirty |-> {}, edges |-> Cardinality(arcs)]
  BY DEF LoadedSide
<1> HIDE DEF s
<1>2. CompactRows(s) = arcs
  BY <1>1 DEF CompactRows
<1>3. s \in Side
  BY <1>1, ArcFinite DEF Side
<1>4. SideInv(s)
  BY <1>1, <1>2, <1>3, FS_EmptySet DEF SideInv, Overlay
<1>5. Canonical(s) /\ View(s) = arcs
  BY <1>1, <1>2 DEF Canonical, View
<1>6. QED
  BY <1>2, <1>4, <1>5 DEF s

LEMMA EmptySideInv ==
  /\ SideInv(EmptySide)
  /\ Canonical(EmptySide)
  /\ View(EmptySide) = {}
  /\ CompactRows(EmptySide) = {}
BY LoadedSideInv DEF EmptySide

EntryWritten(r, s, a, present, basePresent) ==
  /\ SideInv(r)
  /\ CompactRows(r) = CompactRows(s)
  /\ r.plus = IF present /\ ~basePresent THEN s.plus \cup {a} ELSE s.plus \ {a}
  /\ r.minus = IF ~present /\ basePresent THEN s.minus \cup {a} ELSE s.minus \ {a}

(* PackedDeltaStore::set keeps the counters exact whatever membership bit  *)
(* it is told, and leaves the compact rows alone.                          *)
LEMMA SetEntryInv ==
  ASSUME NEW s, SideInv(s), NEW a \in Arc,
         NEW present \in BOOLEAN, NEW basePresent \in BOOLEAN,
         NEW r, r = MarkDirty(SetEntry(s, a, present, basePresent), a[1])
  PROVE  EntryWritten(r, s, a, present, basePresent)
<1> DEFINE e == SetEntry(s, a, present, basePresent)
           t == MarkDirty(e, a[1])
<1>1. /\ s \in Side /\ s.plus \in SUBSET Arc /\ s.minus \in SUBSET Arc
      /\ s.adds \in Nat /\ s.dels \in Nat /\ s.dirty \in SUBSET Vertex /\ a[1] \in Vertex
  BY DEF SideInv, Side, Arc
<1>2. /\ Cardinality(s.plus \ {a}) = IF a \in s.plus THEN s.adds - 1 ELSE s.adds
      /\ Cardinality(s.plus \cup {a}) = IF a \in s.plus THEN s.adds ELSE s.adds + 1
      /\ Cardinality(s.minus \ {a}) = IF a \in s.minus THEN s.dels - 1 ELSE s.dels
      /\ Cardinality(s.minus \cup {a}) = IF a \in s.minus THEN s.dels ELSE s.dels + 1
  <2>1. s.adds = Cardinality(s.plus) /\ s.dels = Cardinality(s.minus)
    BY DEF SideInv
  <2>2. /\ Cardinality(s.plus \ {a}) = IF a \in s.plus THEN Cardinality(s.plus) - 1 ELSE Cardinality(s.plus)
        /\ Cardinality(s.plus \cup {a}) = IF a \in s.plus THEN Cardinality(s.plus) ELSE Cardinality(s.plus) + 1
    BY <1>1, CountOne
  <2>3. /\ Cardinality(s.minus \ {a}) = IF a \in s.minus THEN Cardinality(s.minus) - 1 ELSE Cardinality(s.minus)
        /\ Cardinality(s.minus \cup {a}) = IF a \in s.minus THEN Cardinality(s.minus) ELSE Cardinality(s.minus) + 1
    BY <1>1, CountOne
  <2>4. QED
    BY <2>1, <2>2, <2>3
<1>3. CASE present = basePresent
  <2>1. /\ t.base = s.base /\ t.patched = s.patched /\ t.patch = s.patch
        /\ t.plus = s.plus \ {a} /\ t.minus = s.minus \ {a}
        /\ t.adds = (IF a \in s.plus THEN s.adds - 1 ELSE s.adds)
        /\ t.dels = (IF a \in s.minus THEN s.dels - 1 ELSE s.dels)
        /\ t.dirty = s.dirty \cup {a[1]} /\ t.edges = s.edges
    BY <1>1, <1>3 DEF SetEntry, Erase, MarkDirty, Side
  <2>2. t.adds = Cardinality(t.plus) /\ t.dels = Cardinality(t.minus)
    BY <1>2, <2>1
  <2>3. t.adds \in Nat /\ t.dels \in Nat
    BY <1>1, <2>1, <2>2, ArcFinite
  <2>4. t \in Side
    <3>1. e.adds = t.adds /\ e.dels = t.dels
      BY <1>1, <1>3 DEF SetEntry, Erase, MarkDirty, Side
    <3>2. e.adds \in Nat /\ e.dels \in Nat
      BY <2>3, <3>1
    <3>3. e \in Side
      BY <1>1, <1>3, <3>2 DEF SetEntry, Erase, Side
    <3>4. QED
      BY <1>1, <3>3 DEF MarkDirty, Side
  <2> HIDE DEF t
  <2>5. CompactRows(t) = CompactRows(s)
    BY <2>1 DEF CompactRows
  <2>6. t.plus \cap t.minus = {} /\ \A b \in Overlay(t) : b[1] \in t.dirty
    BY <2>1 DEF SideInv, Overlay
  <2>7. SideInv(t)
    BY <2>1, <2>2, <2>4, <2>5, <2>6 DEF SideInv
  <2>8. QED
    BY <1>3, <2>1, <2>5, <2>7 DEF t, EntryWritten
<1>4. CASE present /\ ~basePresent
  <2>1. /\ t.base = s.base /\ t.patched = s.patched /\ t.patch = s.patch
        /\ t.plus = s.plus \cup {a} /\ t.minus = s.minus \ {a}
        /\ t.adds = (IF a \in s.plus THEN s.adds ELSE s.adds + 1)
        /\ t.dels = (IF a \in s.minus THEN s.dels - 1 ELSE s.dels)
        /\ t.dirty = s.dirty \cup {a[1]} /\ t.edges = s.edges
    BY <1>1, <1>4 DEF SetEntry, UpsertPresent, MarkDirty, Side
  <2>2. t.adds = Cardinality(t.plus) /\ t.dels = Cardinality(t.minus)
    BY <1>2, <2>1
  <2>3. t.adds \in Nat /\ t.dels \in Nat
    BY <1>1, <2>1, <2>2, ArcFinite
  <2>4. t \in Side
    <3>1. e.adds = t.adds /\ e.dels = t.dels
      BY <1>1, <1>4 DEF SetEntry, UpsertPresent, MarkDirty, Side
    <3>2. e.adds \in Nat /\ e.dels \in Nat
      BY <2>3, <3>1
    <3>3. e \in Side
      BY <1>1, <1>4, <3>2 DEF SetEntry, UpsertPresent, Side
    <3>4. QED
      BY <1>1, <3>3 DEF MarkDirty, Side
  <2> HIDE DEF t
  <2>5. CompactRows(t) = CompactRows(s)
    BY <2>1 DEF CompactRows
  <2>6. t.plus \cap t.minus = {} /\ \A b \in Overlay(t) : b[1] \in t.dirty
    BY <2>1 DEF SideInv, Overlay
  <2>7. SideInv(t)
    BY <2>1, <2>2, <2>4, <2>5, <2>6 DEF SideInv
  <2>8. QED
    BY <1>4, <2>1, <2>5, <2>7 DEF t, EntryWritten
<1>5. CASE ~present /\ basePresent
  <2>1. /\ t.base = s.base /\ t.patched = s.patched /\ t.patch = s.patch
        /\ t.plus = s.plus \ {a} /\ t.minus = s.minus \cup {a}
        /\ t.adds = (IF a \in s.plus THEN s.adds - 1 ELSE s.adds)
        /\ t.dels = (IF a \in s.minus THEN s.dels ELSE s.dels + 1)
        /\ t.dirty = s.dirty \cup {a[1]} /\ t.edges = s.edges
    BY <1>1, <1>5 DEF SetEntry, UpsertAbsent, MarkDirty, Side
  <2>2. t.adds = Cardinality(t.plus) /\ t.dels = Cardinality(t.minus)
    BY <1>2, <2>1
  <2>3. t.adds \in Nat /\ t.dels \in Nat
    BY <1>1, <2>1, <2>2, ArcFinite
  <2>4. t \in Side
    <3>1. e.adds = t.adds /\ e.dels = t.dels
      BY <1>1, <1>5 DEF SetEntry, UpsertAbsent, MarkDirty, Side
    <3>2. e.adds \in Nat /\ e.dels \in Nat
      BY <2>3, <3>1
    <3>3. e \in Side
      BY <1>1, <1>5, <3>2 DEF SetEntry, UpsertAbsent, Side
    <3>4. QED
      BY <1>1, <3>3 DEF MarkDirty, Side
  <2> HIDE DEF t
  <2>5. CompactRows(t) = CompactRows(s)
    BY <2>1 DEF CompactRows
  <2>6. t.plus \cap t.minus = {} /\ \A b \in Overlay(t) : b[1] \in t.dirty
    BY <2>1 DEF SideInv, Overlay
  <2>7. SideInv(t)
    BY <2>1, <2>2, <2>4, <2>5, <2>6 DEF SideInv
  <2>8. QED
    BY <1>5, <2>1, <2>5, <2>7 DEF t, EntryWritten
<1>6. QED
  BY <1>3, <1>4, <1>5

(* Compacting the rows L of a side and keeping D as its dirty list, when D *)
(* covers the overlay rows outside L: the merged rows are the rows the     *)
(* readers saw, and the counters still count.                              *)
LEMMA CompactedInv ==
  ASSUME NEW s, SideInv(s), NEW L \in SUBSET Vertex, NEW D \in SUBSET Vertex,
         \A a \in Overlay(s) : a[1] \notin L => a[1] \in D
  PROVE  LET t == [CompactLive(s, L) EXCEPT !.dirty = D]
         IN  /\ SideInv(t)
             /\ View(t) = View(s)
             /\ Overlay(t) = Overlay(s) \ InRows(Overlay(s), L)
             /\ CompactRows(t) = (CompactRows(s) \ InRows(CompactRows(s), L)) \cup InRows(View(s), L)
             /\ Canonical(s) => Canonical(t)
<1> DEFINE c == CompactLive(s, L)
           t == [c EXCEPT !.dirty = D]
           C == CompactRows(s)
           V == View(s)
<1>1. /\ s \in Side /\ s.plus \in SUBSET Arc /\ s.minus \in SUBSET Arc
      /\ s.base \in SUBSET Arc /\ s.patch \in SUBSET Arc /\ s.patched \in SUBSET Vertex
      /\ s.edges \in Nat /\ s.adds \in Nat /\ s.dels \in Nat
  BY DEF SideInv, Side
<1>2. C \in SUBSET Arc /\ V \in SUBSET Arc
  BY <1>1 DEF CompactRows, View
<1>3. /\ t.base = s.base /\ t.patched = s.patched \cup L
      /\ t.patch = (s.patch \ InRows(s.patch, L)) \cup InRows(V, L)
      /\ t.plus = s.plus \ InRows(s.plus, L) /\ t.minus = s.minus \ InRows(s.minus, L)
      /\ t.adds = s.adds - Cardinality(InRows(s.plus, L))
      /\ t.dels = s.dels - Cardinality(InRows(s.minus, L))
      /\ t.dirty = D
      /\ t.edges = s.edges - Cardinality(InRows(C, L)) + Cardinality(InRows(V, L))
  BY <1>1 DEF CompactLive, Side
<1>4. CompactRows(t) = (C \ InRows(C, L)) \cup InRows(V, L)
  BY <1>1, <1>3 DEF CompactRows, InRows
<1>5. Overlay(t) = Overlay(s) \ InRows(Overlay(s), L)
  BY <1>3 DEF Overlay, InRows
<1>6. View(t) = View(s)
  BY <1>3, <1>4 DEF View, InRows
<1>7. Canonical(s) => Canonical(t)
  BY <1>3, <1>4 DEF Canonical, InRows
<1>8. t.adds = Cardinality(t.plus) /\ t.dels = Cardinality(t.minus)
  <2>1. Cardinality(s.plus \ InRows(s.plus, L)) = Cardinality(s.plus) - Cardinality(InRows(s.plus, L))
    BY <1>1, CountRows
  <2>2. Cardinality(s.minus \ InRows(s.minus, L)) = Cardinality(s.minus) - Cardinality(InRows(s.minus, L))
    BY <1>1, CountRows
  <2>3. s.adds = Cardinality(s.plus) /\ s.dels = Cardinality(s.minus)
    BY DEF SideInv
  <2>4. QED
    BY <1>3, <2>1, <2>2, <2>3
<1>9. t.edges = Cardinality(CompactRows(t))
  <2>1. /\ Cardinality(C \ InRows(C, L)) = Cardinality(C) - Cardinality(InRows(C, L))
        /\ C \ InRows(C, L) \in SUBSET Arc
    BY <1>2, CountRows
  <2>2. InRows(V, L) \in SUBSET Arc
    BY <1>2, CountRows
  <2>3. (C \ InRows(C, L)) \cap InRows(V, L) = {}
    BY DEF InRows
  <2>4. Cardinality(CompactRows(t)) = Cardinality(C \ InRows(C, L)) + Cardinality(InRows(V, L))
    BY <1>4, <2>1, <2>2, <2>3, CountDisjoint
  <2>5. s.edges = Cardinality(C)
    BY DEF SideInv
  <2>6. QED
    BY <1>3, <2>1, <2>4, <2>5
<1>10. t \in Side
  <2>1. t.plus \in SUBSET Arc /\ t.minus \in SUBSET Arc /\ CompactRows(t) \in SUBSET Arc
    BY <1>1, <1>2, <1>3, <1>4 DEF InRows
  <2>2. t.adds \in Nat /\ t.dels \in Nat /\ t.edges \in Nat
    BY <1>8, <1>9, <2>1, ArcFinite
  <2>3. c.adds = t.adds /\ c.dels = t.dels /\ c.edges = t.edges
    BY <1>1 DEF CompactLive, Side
  <2>4. c \in Side
    <3>1. c.adds \in Nat /\ c.dels \in Nat /\ c.edges \in Nat
      BY <2>2, <2>3
    <3>2. InRows(V, L) \in SUBSET Arc
      BY <1>2, CountRows
    <3>3. QED
      BY <1>1, <3>1, <3>2 DEF CompactLive, Side
  <2>5. QED
    BY <2>4 DEF Side
<1> HIDE DEF t
<1>11. t.plus \cap t.minus = {} /\ \A a \in Overlay(t) : a[1] \in t.dirty
  BY <1>3, <1>5 DEF SideInv, Overlay, InRows
<1>12. SideInv(t)
  BY <1>8, <1>9, <1>10, <1>11 DEF SideInv
<1>13. QED
  BY <1>4, <1>5, <1>6, <1>7, <1>12 DEF t

LEMMA CompactMarkedInv ==
  ASSUME NEW s, SideInv(s)
  PROVE  /\ SideInv(CompactMarked(s))
         /\ View(CompactMarked(s)) = View(s)
         /\ Overlay(CompactMarked(s)) = {}
         /\ CompactRows(CompactMarked(s)) = View(s)
         /\ Canonical(s) => Canonical(CompactMarked(s))
<1> DEFINE L == Live(s, s.dirty)
           t == CompactMarked(s)
<1>1. L \in SUBSET Vertex
  BY DEF Live, SideInv, Side
<1>2. \A a \in Overlay(s) : a[1] \in L
  BY DEF Live, SideInv
<1>3. /\ SideInv(t) /\ View(t) = View(s)
      /\ Overlay(t) = Overlay(s) \ InRows(Overlay(s), L)
      /\ Canonical(s) => Canonical(t)
  BY <1>1, <1>2, CompactedInv DEF CompactMarked
<1> HIDE DEF t
<1>4. Overlay(t) = {}
  BY <1>2, <1>3 DEF InRows
<1>5. CompactRows(t) = View(t)
  BY <1>4 DEF Overlay, View
<1>6. QED
  BY <1>3, <1>4, <1>5 DEF t

LEMMA CompactDenseInv ==
  ASSUME NEW s, SideInv(s), NEW budget, NEW th
  PROVE  /\ SideInv(CompactDense(s, budget, th))
         /\ View(CompactDense(s, budget, th)) = View(s)
         /\ Canonical(s) => Canonical(CompactDense(s, budget, th))
<1> DEFINE live == Live(s, s.dirty)
           hot == {u \in live : Dense(s, u, budget, th)}
<1>1. live \in SUBSET Vertex
  BY DEF Live, SideInv, Side
<1>2. \A a \in Overlay(s) : a[1] \in live
  BY DEF Live, SideInv
<1>3. CompactDense(s, budget, th) = [CompactLive(s, hot) EXCEPT !.dirty = live \ hot]
  BY DEF CompactDense
<1>4. hot \in SUBSET Vertex /\ live \ hot \in SUBSET Vertex
  BY <1>1
<1>5. \A a \in Overlay(s) : a[1] \notin hot => a[1] \in live \ hot
  BY <1>2
<1> HIDE DEF live, hot
<1>6. QED
  BY <1>3, <1>4, <1>5, CompactedInv

-----------------------------------------------------------------------------
(* The incoming side is the transpose of the outgoing one, part by part:   *)
(* what bulk loads and whole-graph compaction keep and row-by-row          *)
(* compaction loses.                                                       *)
Mirror(o, i) ==
  /\ CompactRows(i) = Transpose(CompactRows(o))
  /\ i.plus = Transpose(o.plus)
  /\ i.minus = Transpose(o.minus)

LEMMA TransposeType ==
  ASSUME NEW S \in SUBSET Arc
  PROVE  Transpose(S) \in SUBSET Arc
BY DEF Transpose, Arc

LEMMA TransposeOne ==
  ASSUME NEW S \in SUBSET Arc, NEW u \in Vertex, NEW v \in Vertex
  PROVE  /\ Transpose(S \cup {<<u, v>>}) = Transpose(S) \cup {<<v, u>>}
         /\ Transpose(S \ {<<u, v>>}) = Transpose(S) \ {<<v, u>>}
<1>1. \A e \in S : \E x, y \in Vertex : e = <<x, y>>
  BY DEF Arc
<1>2. Transpose(S \cup {<<u, v>>}) = Transpose(S) \cup {<<v, u>>}
  <2> DEFINE a == <<u, v>>
  <2>1. <<a[2], a[1]>> = <<v, u>>
    OBVIOUS
  <2> HIDE DEF a
  <2>2. Transpose(S \cup {a}) = Transpose(S) \cup {<<a[2], a[1]>>}
    BY DEF Transpose
  <2>3. QED
    BY <2>1, <2>2 DEF a
<1>3. Transpose(S \ {<<u, v>>}) = Transpose(S) \ {<<v, u>>}
  BY <1>1 DEF Transpose
<1>4. QED
  BY <1>2, <1>3

LEMMA MirrorViews ==
  ASSUME NEW o, NEW i, SideInv(o), Mirror(o, i)
  PROVE  View(i) = Transpose(View(o))
<1>1. \A e \in CompactRows(o) \cup o.minus \cup o.plus : \E x, y \in Vertex : e = <<x, y>>
  BY DEF SideInv, Side, CompactRows, Arc
<1>2. QED
  BY <1>1 DEF Mirror, View, Transpose

-----------------------------------------------------------------------------
(* What apply_arc does to the two sides.  The outgoing side stays          *)
(* canonical and its view changes by exactly the arc; of the incoming side *)
(* only the bookkeeping is guaranteed.                                     *)
ArcApplied(S, a, present) == IF present THEN S \cup {a} ELSE S \ {a}

LEMMA ApplyArcInv ==
  ASSUME NEW o, NEW i, SideInv(o), SideInv(i), Canonical(o),
         NEW u \in Vertex, NEW v \in Vertex, NEW present \in BOOLEAN
  PROVE  LET h == ApplyArc([out |-> o, in |-> i], u, v, present)
         IN  /\ h = [out |-> h.out, in |-> h.in]
             /\ SideInv(h.out) /\ SideInv(h.in) /\ Canonical(h.out)
             /\ View(h.out) = ArcApplied(View(o), <<u, v>>, present)
             /\ Mirror(o, i) => Mirror(h.out, h.in)
<1> DEFINE g == [out |-> o, in |-> i]
           h == ApplyArc(g, u, v, present)
           b == <<u, v>> \in CompactRows(o)
           a == <<u, v>>
           c == <<v, u>>
           o2 == MarkDirty(SetEntry(o, a, present, b), a[1])
           i2 == MarkDirty(SetEntry(i, c, present, b), c[1])
<1>1. g.out = o /\ g.in = i
  OBVIOUS
<1>2. b \in BOOLEAN /\ a \in Arc /\ c \in Arc /\ a[1] = u /\ c[1] = v
  BY DEF Arc
<1>3. h = IF Changes(o, a, present, b) THEN [out |-> o2, in |-> i2] ELSE g
  BY <1>1, <1>2 DEF ApplyArc
<1> HIDE DEF a, c, b
<1>4. /\ SideInv(o2) /\ CompactRows(o2) = CompactRows(o)
      /\ o2.plus = IF present /\ ~b THEN o.plus \cup {a} ELSE o.plus \ {a}
      /\ o2.minus = IF ~present /\ b THEN o.minus \cup {a} ELSE o.minus \ {a}
  <2>1. o2 = MarkDirty(SetEntry(o, a, present, b), a[1])
    OBVIOUS
  <2> HIDE DEF o2
  <2>2. EntryWritten(o2, o, a, present, b)
    BY <1>2, <2>1, SetEntryInv, Zenon
  <2>3. QED
    BY <2>2 DEF EntryWritten
<1>5. /\ SideInv(i2) /\ CompactRows(i2) = CompactRows(i)
      /\ i2.plus = IF present /\ ~b THEN i.plus \cup {c} ELSE i.plus \ {c}
      /\ i2.minus = IF ~present /\ b THEN i.minus \cup {c} ELSE i.minus \ {c}
  <2>1. EntryWritten(i2, i, c, present, b)
    BY <1>2, SetEntryInv, Zenon
  <2>2. QED
    BY <2>1 DEF EntryWritten
<1> HIDE DEF o2, i2, h
<1>6. CASE Changes(o, a, present, b)
  <2>1. h = [out |-> o2, in |-> i2]
    BY <1>3, <1>6
  <2>2. Canonical(o2)
    BY <1>4 DEF Canonical, b, a
  <2>3. View(o2) = ArcApplied(View(o), a, present)
    BY <1>4 DEF View, Canonical, ArcApplied, b, a
  <2>4. Mirror(o, i) => Mirror(o2, i2)
    <3>1. /\ Transpose(o.plus \cup {a}) = Transpose(o.plus) \cup {c}
          /\ Transpose(o.plus \ {a}) = Transpose(o.plus) \ {c}
          /\ Transpose(o.minus \cup {a}) = Transpose(o.minus) \cup {c}
          /\ Transpose(o.minus \ {a}) = Transpose(o.minus) \ {c}
      BY TransposeOne DEF a, c, SideInv, Side
    <3>2. QED
      BY <1>4, <1>5, <3>1 DEF Mirror
  <2>5. QED
    BY <1>4, <1>5, <2>1, <2>2, <2>3, <2>4 DEF h, a
<1>7. CASE ~Changes(o, a, present, b)
  <2>1. h = g
    BY <1>3, <1>7
  <2>2. View(o) = ArcApplied(View(o), a, present)
    BY <1>2, <1>7 DEF b, a, Changes, Overlay, View, ArcApplied, SideInv
  <2>3. QED
    BY <1>1, <2>1, <2>2 DEF h, a
<1>8. QED
  BY <1>6, <1>7

(* The same for the one or two arcs of an edge, against the arcs the       *)
(* logical graph gives it.                                                 *)
EdgeApplied(h, o, i, u, v, add) ==
  /\ Mirror(o, i) => Mirror(h.out, h.in)
  /\ SideInv(h.out) /\ SideInv(h.in) /\ Canonical(h.out)
  /\ View(h.out) = IF add THEN View(o) \cup OutView!ArcsOf(u, v)
                          ELSE View(o) \ OutView!ArcsOf(u, v)

LEMMA ApplyEdgeInv ==
  ASSUME NEW o, NEW i, SideInv(o), SideInv(i), Canonical(o),
         NEW u \in Vertex, NEW v \in Vertex, u # v, NEW add \in BOOLEAN
  PROVE  EdgeApplied(ApplyEdge([out |-> o, in |-> i], u, v, add), o, i, u, v, add)
<1> DEFINE g == [out |-> o, in |-> i]
           h1 == ApplyArc(g, u, v, add)
           h2 == ApplyArc(h1, v, u, add)
           h == ApplyEdge(g, u, v, add)
<1>1. /\ h1 = [out |-> h1.out, in |-> h1.in]
      /\ SideInv(h1.out) /\ SideInv(h1.in) /\ Canonical(h1.out)
      /\ View(h1.out) = ArcApplied(View(o), <<u, v>>, add)
      /\ Mirror(o, i) => Mirror(h1.out, h1.in)
  BY ApplyArcInv
<1>2. h = IF Directed THEN h1 ELSE h2
  BY DEF ApplyEdge
<1> HIDE DEF h1, h
<1>3. /\ SideInv(h2.out) /\ SideInv(h2.in) /\ Canonical(h2.out)
      /\ View(h2.out) = ArcApplied(View(h1.out), <<v, u>>, add)
      /\ Mirror(h1.out, h1.in) => Mirror(h2.out, h2.in)
  <2> DEFINE o1 == h1.out
             i1 == h1.in
  <2>1. h2 = ApplyArc([out |-> o1, in |-> i1], v, u, add)
    BY <1>1
  <2>2. SideInv(o1) /\ SideInv(i1) /\ Canonical(o1)
    BY <1>1
  <2> HIDE DEF o1, i1, h2
  <2>3. /\ SideInv(h2.out) /\ SideInv(h2.in) /\ Canonical(h2.out)
        /\ View(h2.out) = ArcApplied(View(o1), <<v, u>>, add)
        /\ Mirror(o1, i1) => Mirror(h2.out, h2.in)
    BY <2>1, <2>2, ApplyArcInv
  <2>4. QED
    BY <2>3 DEF o1, i1
<1> HIDE DEF h2
<1>4. CASE Directed
  BY <1>1, <1>2, <1>4 DEF h, EdgeApplied, OutView!ArcsOf, ArcApplied
<1>5. CASE ~Directed
  BY <1>1, <1>2, <1>3, <1>5 DEF h, EdgeApplied, OutView!ArcsOf, ArcApplied
<1>6. QED
  BY <1>4, <1>5

-----------------------------------------------------------------------------
LEMMA SuccessorType ==
  ASSUME NEW v \in 0 .. VersionModulus - 1
  PROVE  Successor(v) \in 0 .. VersionModulus - 1
BY GraphConstants DEF Successor

LEMMA EnsureVertexType ==
  ASSUME NEW n, NEW ids, NEW m \in EnsureVertex(n, ids)
  PROVE  m \in 0 .. MaxVertices
BY DEF EnsureVertex

(* bulk_load_edges builds the arcs the logical load asks for. *)
LEMMA LoadedArcsAgree ==
  ASSUME NEW E \in BulkInputs
  PROVE  LoadedArcs(E) \in SUBSET Arc /\ LoadedArcs(E) = OutView!LoadedArcs(E)
<1>1. \A e \in E : e \in Arc /\ e = <<e[1], e[2]>> /\ e[1] \in Vertex /\ e[2] \in Vertex
  BY GraphConstants DEF Arc
<1>2. LoadedArcs(E) \in SUBSET Arc
  BY <1>1 DEF LoadedArcs, Transpose, Arc
<1>3. CASE Directed
  BY <1>1, <1>2, <1>3 DEF LoadedArcs, OutView!LoadedArcs, OutView!ArcsOf
<1>4. CASE ~Directed
  BY <1>1, <1>2, <1>4 DEF LoadedArcs, Transpose, OutView!LoadedArcs, OutView!ArcsOf
<1>5. QED
  BY <1>3, <1>4

LEMMA InitIInv == Init => IInv
<1>1. 0 \in 0 .. VersionModulus - 1
  BY GraphConstants
<1>2. QED
  BY <1>1, EmptySideInv DEF Init, IInv

(* One operation of a batch. *)
LEMMA ApplyOpStep ==
  ASSUME IInv, NEW arc \in UpdateArcs, NEW add \in BOOLEAN, ApplyOp(arc[1], arc[2], add)
  PROVE  /\ IInv' /\ OutView!Update(arc[1], arc[2], add)
         /\ Mirror(outSide, inSide) => Mirror(outSide, inSide)'
<1> DEFINE u == arc[1]
           v == arc[2]
<1>1. u \in Vertex /\ v \in Vertex
  BY GraphConstants DEF Arc
<1>2. CASE u = v
  <2>1. UNCHANGED <<outSide, inSide, vertexCount, version>> /\ inBatch' = TRUE
    BY <1>2 DEF ApplyOp
  <2>2. IInv'
    BY <2>1 DEF IInv, SideInv, Canonical, CompactRows, Overlay
  <2>3. vertexCount' \in EnsureVertex(vertexCount, {})
    BY <2>1 DEF EnsureVertex, IInv
  <2>4. View(outSide)' = View(outSide)
    BY <2>1 DEF View, CompactRows
  <2>5. QED
    BY <1>2, <2>1, <2>2, <2>3, <2>4 DEF Mirror, CompactRows, OutView!Update, OutView!ArcsOf, OutView!EnsureVertex, EnsureVertex
<1>3. CASE u # v
  <2> DEFINE h == ApplyEdge([out |-> outSide, in |-> inSide], u, v, add)
  <2>1. /\ outSide' = h.out /\ inSide' = h.in
        /\ vertexCount' \in EnsureVertex(vertexCount, {u, v})
        /\ inBatch' = TRUE /\ version' = version
    BY <1>3 DEF ApplyOp
  <2>2. /\ SideInv(h.out) /\ SideInv(h.in) /\ Canonical(h.out)
        /\ View(h.out) = IF add THEN View(outSide) \cup OutView!ArcsOf(u, v)
                                ELSE View(outSide) \ OutView!ArcsOf(u, v)
        /\ Mirror(outSide, inSide) => Mirror(h.out, h.in)
    <3>1. EdgeApplied(h, outSide, inSide, u, v, add)
      BY <1>1, <1>3, ApplyEdgeInv, Zenon DEF IInv
    <3> HIDE DEF h
    <3>2. QED
      BY <3>1 DEF EdgeApplied
  <2> HIDE DEF h
  <2>3. IInv'
    BY <2>1, <2>2, EnsureVertexType DEF IInv
  <2>4. QED
    BY <1>3, <2>1, <2>2, <2>3 DEF OutView!Update, OutView!EnsureVertex, EnsureVertex
<1>4. QED
  BY <1>2, <1>3

(* The end of a batch, with or without automatic maintenance. *)
LEMMA FinishApplyStep ==
  ASSUME IInv, FinishApply
  PROVE  IInv' /\ OutView!Commit
<1>1. /\ SideInv(outSide') /\ SideInv(inSide') /\ Canonical(outSide')
      /\ View(outSide') = View(outSide)
  <2>1. CASE AutoDue
    BY <2>1, CompactDenseInv DEF IInv, FinishApply
  <2>2. CASE ~AutoDue
    BY <2>2 DEF IInv, FinishApply
  <2>3. QED
    BY <2>1, <2>2
<1>2. version' \in 0 .. VersionModulus - 1
  BY SuccessorType DEF FinishApply, IInv
<1>3. QED
  BY <1>1, <1>2 DEF IInv, FinishApply, OutView!Commit, OutView!Successor, Successor

LEMMA BulkLoadStep ==
  ASSUME IInv, NEW E \in BulkInputs, BulkLoad(E)
  PROVE  IInv' /\ OutView!Load(E)
<1>1. LoadedArcs(E) \in SUBSET Arc /\ LoadedArcs(E) = OutView!LoadedArcs(E)
  BY LoadedArcsAgree
<1>2. /\ SideInv(outSide') /\ SideInv(inSide') /\ Canonical(outSide')
      /\ View(outSide') = LoadedArcs(E)
  BY <1>1, TransposeType, LoadedSideInv DEF BulkLoad
<1>3. version' \in 0 .. VersionModulus - 1 /\ vertexCount' \in 0 .. MaxVertices
  BY SuccessorType, EnsureVertexType DEF BulkLoad, IInv
<1>4. QED
  BY <1>1, <1>2, <1>3 DEF IInv, BulkLoad, OutView!Load, OutView!Successor, Successor,
       OutView!EnsureVertex, EnsureVertex, OutView!Endpoints, Endpoints

(* Compaction is invisible to the logical graph. *)
LEMMA CompactionStep ==
  ASSUME IInv, Compact \/ \E t \in Thresholds : MaybeCompact(t)
  PROVE  IInv' /\ UNCHANGED OutView!vars
<1>1. /\ SideInv(outSide') /\ SideInv(inSide') /\ Canonical(outSide')
      /\ View(outSide') = View(outSide)
  <2>1. CASE Compact
    BY <2>1, CompactMarkedInv DEF IInv, Compact
  <2>2. CASE \E t \in Thresholds : MaybeCompact(t)
    BY <2>2, CompactDenseInv DEF IInv, MaybeCompact
  <2>3. QED
    BY <2>1, <2>2
<1>2. UNCHANGED <<vertexCount, version, inBatch>>
  BY DEF Compact, MaybeCompact
<1>3. QED
  BY <1>1, <1>2 DEF IInv, OutView!vars

-----------------------------------------------------------------------------
(* Every step keeps the invariant and is a step, or a stutter, of the      *)
(* logical graph.                                                          *)
LEMMA StepCorrect == IInv /\ [Next]_vars => IInv' /\ [OutView!Next]_OutView!vars
<1> SUFFICES ASSUME IInv, [Next]_vars
             PROVE  IInv' /\ [OutView!Next]_OutView!vars
  OBVIOUS
<1>1. ASSUME NEW arc \in UpdateArcs, NEW add \in BOOLEAN, ApplyOp(arc[1], arc[2], add)
      PROVE  IInv' /\ OutView!Next
  BY <1>1, ApplyOpStep DEF OutView!Next
<1>2. CASE FinishApply
  BY <1>2, FinishApplyStep DEF OutView!Next
<1>3. ASSUME NEW E \in BulkInputs, BulkLoad(E)
      PROVE  IInv' /\ OutView!Next
  BY <1>3, BulkLoadStep DEF OutView!Next
<1>4. CASE Compact \/ \E t \in Thresholds : MaybeCompact(t)
  BY <1>4, CompactionStep
<1>5. CASE UNCHANGED vars
  BY <1>5 DEF vars, IInv, SideInv, Canonical, CompactRows, Overlay, View, OutView!vars
<1>6. QED
  BY <1>1, <1>2, <1>3, <1>4, <1>5 DEF Next

THEOREM InductiveInvariant == Spec => []IInv
<1>1. QED
  BY InitIInv, StepCorrect, PTL DEF Spec

(* Every counter stays a natural number: the unsigned size counters of the *)
(* code never wrap below zero, and ids and rows stay in range.             *)
THEOREM TypeCorrect == Spec => []TypeOK
<1>1. IInv => TypeOK
  BY DEF IInv, SideInv, TypeOK
<1>2. QED
  BY <1>1, InductiveInvariant, PTL

(* The outgoing overlay never repeats what the compact rows say, whatever  *)
(* rows were compacted between two updates of an edge.                     *)
THEOREM OverlayIsCanonical == Spec => []OverlayCanonical
<1>1. IInv => OverlayCanonical
  BY DEF IInv, Canonical, OverlayCanonical
<1>2. QED
  BY <1>1, InductiveInvariant, PTL

(* edge_count_directed() equals the number of arcs the rows enumerate. *)
THEOREM EdgeCountIsExact == Spec => []EdgeCountExact
<1>1. ASSUME IInv PROVE EdgeCountExact
  <2> DEFINE C == CompactRows(outSide)
  <2>1. /\ C \in SUBSET Arc /\ outSide.plus \in SUBSET Arc /\ outSide.minus \in SUBSET Arc
        /\ outSide.edges = Cardinality(C)
        /\ outSide.adds = Cardinality(outSide.plus)
        /\ outSide.dels = Cardinality(outSide.minus)
    BY <1>1 DEF IInv, SideInv, Side, CompactRows
  <2>2. outSide.minus \subseteq C /\ outSide.plus \cap C = {}
    BY <1>1 DEF IInv, Canonical
  <2> HIDE DEF C
  <2>3. C \cap outSide.minus = outSide.minus
    BY <2>2
  <2>4. /\ Cardinality(C \ outSide.minus) = Cardinality(C) - Cardinality(outSide.minus)
        /\ C \ outSide.minus \in SUBSET Arc
    <3>1. IsFiniteSet(C)
      BY <2>1, ArcFinite
    <3>2. Cardinality(C \ outSide.minus) = Cardinality(C) - Cardinality(C \cap outSide.minus)
      BY <3>1, FS_Difference
    <3>3. QED
      BY <2>1, <2>3, <3>2
  <2>5. Cardinality((C \ outSide.minus) \cup outSide.plus)
          = Cardinality(C \ outSide.minus) + Cardinality(outSide.plus)
    BY <2>1, <2>2, <2>4, CountDisjoint
  <2>6. /\ Cardinality(C) \in Nat /\ Cardinality(outSide.minus) \in Nat
        /\ Cardinality(outSide.plus) \in Nat
    BY <2>1, ArcFinite
  <2>7. QED
    BY <2>1, <2>4, <2>5, <2>6 DEF EdgeCountExact, EdgeCount, View, C
<1>2. QED
  BY <1>1, InductiveInvariant, PTL

(* No overlay row of either side is missing from its dirty list. *)
THEOREM DirtyListsCover == Spec => []DirtyCoversOverlay
<1>1. IInv => DirtyCoversOverlay
  BY DEF IInv, SideInv, DirtyCoversOverlay
<1>2. QED
  BY <1>1, InductiveInvariant, PTL

(* compact() empties both overlays in one call. *)
THEOREM CompactEmptiesOverlays == Spec => CompactIsComplete
<1>1. ASSUME IInv, Compact PROVE IsCompact'
  <2>1. /\ SideInv(outSide') /\ SideInv(inSide')
        /\ Overlay(outSide') = {} /\ Overlay(inSide') = {}
    BY <1>1, CompactMarkedInv DEF IInv, Compact
  <2>2. /\ outSide'.adds = 0 /\ outSide'.dels = 0
        /\ inSide'.adds = 0 /\ inSide'.dels = 0
    BY <2>1, FS_EmptySet DEF SideInv, Overlay
  <2>3. QED
    BY <2>2 DEF IsCompact, Size
<1>2. IInv => [Compact => IsCompact']_vars
  BY <1>1
<1>3. QED
  BY <1>2, InductiveInvariant, PTL DEF CompactIsComplete

(* The outgoing side refines the logical graph: has_edge, neighbors and    *)
(* version() behave as if compaction did not exist.                        *)
THEOREM OutgoingRefinesLogicalGraph == Spec => ImplementsOut
<1>1. Init => OutView!Init
  BY EmptySideInv DEF Init, OutView!Init
<1>2. QED
  BY <1>1, StepCorrect, InductiveInvariant, PTL DEF Spec, ImplementsOut, OutView!Spec

-----------------------------------------------------------------------------
(* The parameters under which compaction never treats the two rows of an   *)
(* arc differently: maybe_compact is only called with threshold 0, and the *)
(* automatic maintenance, if the graph has room for enough pending arcs to *)
(* trigger it, does the same.                                              *)
WholeRows ==
  /\ \A t \in Thresholds : t[1] = 0
  /\ AutoThreshold[1] = 0 \/ AutoMinDelta > Cardinality(Arc)

LEMMA DenseAlways ==
  ASSUME NEW s, SideInv(s), NEW u \in Vertex, NEW t \in Nat \X (Nat \ {0}), t[1] = 0
  PROVE  Dense(s, u, WorkBudget, t)
<1> DEFINE baseSize == Cardinality(InRows(CompactRows(s), {u}))
           work == IF baseSize > WorkBudget THEN baseSize ELSE WorkBudget
           n == Cardinality(InRows(Overlay(s), {u}))
<1>1. CompactRows(s) \in SUBSET Arc /\ Overlay(s) \in SUBSET Arc
  BY DEF SideInv, Side, CompactRows, Overlay
<1>2. InRows(CompactRows(s), {u}) \in SUBSET Arc /\ InRows(Overlay(s), {u}) \in SUBSET Arc
  BY <1>1 DEF InRows
<1>3. baseSize \in Nat /\ n \in Nat
  BY <1>2, ArcFinite
<1> HIDE DEF baseSize, n
<1>4. work \in Nat
  BY <1>3, StorageConstants
<1>5. t[2] \in Nat
  OBVIOUS
<1> HIDE DEF work
<1>6. 0 * work = 0
  BY <1>4
<1>7. n * t[2] >= 0
  BY <1>3, <1>5
<1>8. n * t[2] >= t[1] * work
  BY <1>6, <1>7
<1>9. QED
  BY <1>8 DEF Dense, work, baseSize, n

(* A side compacted at threshold 0 has no overlay left. *)
LEMMA DenseAtZero ==
  ASSUME NEW s, SideInv(s), NEW t \in Nat \X (Nat \ {0}), t[1] = 0
  PROVE  /\ Overlay(CompactDense(s, WorkBudget, t)) = {}
         /\ CompactRows(CompactDense(s, WorkBudget, t)) = View(s)
<1> DEFINE L == Live(s, s.dirty)
           r == CompactDense(s, WorkBudget, t)
<1>1. L \in SUBSET Vertex
  BY DEF Live, SideInv, Side
<1>2. \A a \in Overlay(s) : a[1] \in L
  BY DEF Live, SideInv
<1>3. {u \in L : Dense(s, u, WorkBudget, t)} = L
  BY <1>1, DenseAlways
<1>4. r = [CompactLive(s, L) EXCEPT !.dirty = L \ L]
  BY <1>3 DEF CompactDense
<1>5. View(r) = View(s) /\ Overlay(r) = Overlay(s) \ InRows(Overlay(s), L)
  BY <1>1, <1>2, <1>4, CompactedInv
<1> HIDE DEF r, L
<1>6. Overlay(r) = {}
  BY <1>2, <1>5 DEF InRows
<1>7. CompactRows(r) = View(r)
  BY <1>6 DEF Overlay, View
<1>8. QED
  BY <1>5, <1>6, <1>7 DEF r

(* Two sides whose overlays were merged whole mirror each other again. *)
LEMMA MergedMirror ==
  ASSUME NEW o, NEW i, SideInv(o), Mirror(o, i), NEW o2, NEW i2,
         Overlay(o2) = {}, Overlay(i2) = {},
         CompactRows(o2) = View(o), CompactRows(i2) = View(i)
  PROVE  Mirror(o2, i2)
<1>1. View(i) = Transpose(View(o))
  BY MirrorViews
<1>2. o2.plus = {} /\ o2.minus = {} /\ i2.plus = {} /\ i2.minus = {}
  BY DEF Overlay
<1>3. QED
  BY <1>1, <1>2 DEF Mirror, Transpose

LEMMA DeltaFits ==
  ASSUME NEW s, SideInv(s)
  PROVE  Size(s) <= Cardinality(Arc)
<1>1. s.plus \in SUBSET Arc /\ s.minus \in SUBSET Arc /\ s.plus \cap s.minus = {}
  BY DEF SideInv, Side
<1>2. s.plus \cup s.minus \in SUBSET Arc
  BY <1>1
<1>3. Cardinality(s.plus \cup s.minus) = Cardinality(s.plus) + Cardinality(s.minus)
  BY <1>1, CountDisjoint
<1>4. Cardinality(s.plus \cup s.minus) <= Cardinality(Arc)
  BY <1>2, ArcFinite, FS_Subset
<1>5. QED
  BY <1>3, <1>4 DEF Size, SideInv

LEMMA WholeStep ==
  ASSUME WholeRows, IInv, Mirror(outSide, inSide), [Next]_vars
  PROVE  Mirror(outSide, inSide)'
<1>1. SideInv(outSide) /\ SideInv(inSide)
  BY DEF IInv
<1>2. ASSUME NEW arc \in UpdateArcs, NEW add \in BOOLEAN, ApplyOp(arc[1], arc[2], add)
      PROVE  Mirror(outSide, inSide)'
  BY <1>2, ApplyOpStep
<1>3. CASE FinishApply
  <2>1. CASE AutoDue
    <3>1. AutoThreshold[1] = 0
      <4>1. Size(outSide) >= AutoMinDelta /\ Size(outSide) <= Cardinality(Arc)
        BY <1>1, <2>1, DeltaFits DEF AutoDue
      <4>2. Size(outSide) \in Nat /\ Cardinality(Arc) \in Nat
        BY <1>1, ArcFinite DEF SideInv, Side, Size
      <4>3. QED
        BY <4>1, <4>2, StorageConstants DEF WholeRows
    <3>2. /\ outSide' = CompactDense(outSide, WorkBudget, AutoThreshold)
          /\ inSide' = CompactDense(inSide, WorkBudget, AutoThreshold)
      BY <1>3, <2>1 DEF FinishApply
    <3>3. /\ Overlay(outSide') = {} /\ CompactRows(outSide') = View(outSide)
          /\ Overlay(inSide') = {} /\ CompactRows(inSide') = View(inSide)
      BY <1>1, <3>1, <3>2, DenseAtZero, StorageConstants
    <3>4. QED
      BY <1>1, <3>3, MergedMirror
  <2>2. CASE ~AutoDue
    BY <1>3, <2>2 DEF FinishApply, Mirror, CompactRows
  <2>3. QED
    BY <2>1, <2>2
<1>4. ASSUME NEW E \in BulkInputs, BulkLoad(E)
      PROVE  Mirror(outSide, inSide)'
  <2>1. LoadedArcs(E) \in SUBSET Arc /\ Transpose(LoadedArcs(E)) \in SUBSET Arc
    BY LoadedArcsAgree, TransposeType
  <2>2. /\ CompactRows(outSide') = LoadedArcs(E)
        /\ CompactRows(inSide') = Transpose(LoadedArcs(E))
    BY <1>4, <2>1, LoadedSideInv DEF BulkLoad
  <2>3. /\ outSide'.plus = {} /\ outSide'.minus = {}
        /\ inSide'.plus = {} /\ inSide'.minus = {}
    BY <1>4 DEF BulkLoad, LoadedSide
  <2>4. QED
    BY <2>2, <2>3 DEF Mirror, Transpose
<1>5. ASSUME NEW t \in Thresholds, MaybeCompact(t)
      PROVE  Mirror(outSide, inSide)'
  <2>1. t \in Nat \X (Nat \ {0}) /\ t[1] = 0
    BY StorageConstants DEF WholeRows
  <2>2. /\ Overlay(outSide') = {} /\ CompactRows(outSide') = View(outSide)
        /\ Overlay(inSide') = {} /\ CompactRows(inSide') = View(inSide)
    BY <1>1, <1>5, <2>1, DenseAtZero DEF MaybeCompact
  <2>3. QED
    BY <1>1, <2>2, MergedMirror
<1>6. CASE Compact
  <2>1. /\ Overlay(outSide') = {} /\ CompactRows(outSide') = View(outSide)
        /\ Overlay(inSide') = {} /\ CompactRows(inSide') = View(inSide)
    BY <1>1, <1>6, CompactMarkedInv DEF Compact
  <2>2. QED
    BY <1>1, <2>1, MergedMirror
<1>7. CASE UNCHANGED vars
  BY <1>7 DEF vars, Mirror, CompactRows
<1>8. QED
  BY <1>2, <1>3, <1>4, <1>5, <1>6, <1>7 DEF Next

(* While every compaction merges whole sides, the incoming lists are the   *)
(* transpose of the outgoing ones, directed or not.                        *)
THEOREM WholeCompactionKeepsViews ==
  ASSUME WholeRows
  PROVE  Spec => []ViewsAgree
<1>1. Init => Mirror(outSide, inSide)
  BY EmptySideInv DEF Init, Mirror, EmptySide, LoadedSide, Transpose
<1>2. IInv /\ Mirror(outSide, inSide) /\ [Next]_vars => Mirror(outSide, inSide)'
  BY WholeStep
<1>3. IInv /\ Mirror(outSide, inSide) => ViewsAgree
  BY MirrorViews DEF IInv, ViewsAgree
<1>4. QED
  BY <1>1, <1>2, <1>3, InductiveInvariant, PTL DEF Spec

Symmetric(S) == \A e \in S : e = <<e[1], e[2]>> /\ <<e[2], e[1]>> \in S

LEMMA SymmetricStep ==
  ASSUME NEW S, Symmetric(S), NEW x, NEW y, NEW A, A = {} \/ A = {<<x, y>>, <<y, x>>}
  PROVE  Symmetric(S \cup A) /\ Symmetric(S \ A)
<1>1. ASSUME NEW e \in S \cup A PROVE e = <<e[1], e[2]>> /\ <<e[2], e[1]>> \in S \cup A
  <2>1. CASE e \in S
    BY <2>1 DEF Symmetric
  <2>2. CASE e \in A
    <3>1. A = {<<x, y>>, <<y, x>>} /\ (e = <<x, y>> \/ e = <<y, x>>)
      BY <2>2
    <3>2. e = <<e[1], e[2]>> /\ (<<e[2], e[1]>> = <<x, y>> \/ <<e[2], e[1]>> = <<y, x>>)
      BY <3>1
    <3>3. QED
      BY <3>1, <3>2
  <2>3. QED
    BY <2>1, <2>2
<1>2. ASSUME NEW e \in S \ A PROVE e = <<e[1], e[2]>> /\ <<e[2], e[1]>> \in S \ A
  <2>1. e = <<e[1], e[2]>> /\ <<e[2], e[1]>> \in S
    BY DEF Symmetric
  <2>2. CASE A = {}
    BY <2>1, <2>2
  <2>3. CASE A = {<<x, y>>, <<y, x>>}
    <3>1. <<e[2], e[1]>> = <<x, y>> => e = <<y, x>>
      BY <2>1
    <3>2. <<e[2], e[1]>> = <<y, x>> => e = <<x, y>>
      BY <2>1
    <3>3. QED
      BY <2>1, <2>3, <3>1, <3>2
  <2>4. QED
    BY <2>2, <2>3
<1>3. QED
  BY <1>1, <1>2 DEF Symmetric

LEMMA SymmetricIsTranspose ==
  ASSUME NEW S
  PROVE  S = Transpose(S) <=> Symmetric(S)
<1>1. ASSUME S = Transpose(S) PROVE Symmetric(S)
  <2>1. ASSUME NEW e \in S PROVE e = <<e[1], e[2]>> /\ <<e[2], e[1]>> \in S
    <3>1. PICK f \in S : e = <<f[2], f[1]>>
      BY <1>1 DEF Transpose
    <3>2. <<e[2], e[1]>> \in Transpose(S)
      BY DEF Transpose
    <3>3. QED
      BY <1>1, <3>1, <3>2
  <2>2. QED
    BY <2>1 DEF Symmetric
<1>2. ASSUME Symmetric(S) PROVE S = Transpose(S)
  <2>1. ASSUME NEW e \in S PROVE e \in Transpose(S)
    <3> DEFINE f == <<e[2], e[1]>>
    <3>1. f \in S /\ e = <<f[2], f[1]>>
      BY <1>2 DEF Symmetric
    <3> HIDE DEF f
    <3>2. QED
      BY <3>1 DEF Transpose
  <2>2. ASSUME NEW e \in Transpose(S) PROVE e \in S
    BY <1>2, <2>2 DEF Transpose, Symmetric
  <2>3. QED
    BY <2>1, <2>2
<1>3. QED
  BY <1>1, <1>2

(* The outgoing lists of an undirected graph are symmetric whatever is     *)
(* compacted: the incoming side plays no part in it.                       *)
THEOREM UndirectedListsSymmetric == Spec => []UndirectedSymmetric
<1>1. Init => UndirectedSymmetric
  BY EmptySideInv DEF Init, UndirectedSymmetric, Transpose
<1>2. ASSUME UndirectedSymmetric, [OutView!Next]_OutView!vars PROVE UndirectedSymmetric'
  <2>1. CASE Directed
    BY <2>1 DEF UndirectedSymmetric
  <2>2. CASE ~Directed
    <3>1. View(outSide) = Transpose(View(outSide))
      BY <1>2, <2>2 DEF UndirectedSymmetric
    <3>2. ASSUME NEW a \in UpdateArcs, NEW add \in BOOLEAN, OutView!Update(a[1], a[2], add)
          PROVE  View(outSide)' = Transpose(View(outSide)')
      <4>1. OutView!ArcsOf(a[1], a[2]) = {} \/ OutView!ArcsOf(a[1], a[2]) = {<<a[1], a[2]>>, <<a[2], a[1]>>}
        BY <2>2 DEF OutView!ArcsOf
      <4>2. View(outSide)' = View(outSide) \cup OutView!ArcsOf(a[1], a[2])
              \/ View(outSide)' = View(outSide) \ OutView!ArcsOf(a[1], a[2])
        BY <3>2 DEF OutView!Update
      <4>3. Symmetric(View(outSide))
        BY <3>1, SymmetricIsTranspose
      <4> DEFINE S == View(outSide)
                 A == OutView!ArcsOf(a[1], a[2])
      <4>4. Symmetric(S \cup A) /\ Symmetric(S \ A)
        <5> HIDE DEF S, A
        <5>1. A = {} \/ A = {<<a[1], a[2]>>, <<a[2], a[1]>>}
          BY <4>1 DEF A
        <5>2. QED
          BY <4>3, <5>1, SymmetricStep DEF S
      <4>5. Symmetric(View(outSide)')
        BY <4>2, <4>4
      <4>6. QED
        BY <4>5, SymmetricIsTranspose
    <3>3. ASSUME NEW E \in BulkInputs, OutView!Load(E)
          PROVE  View(outSide)' = Transpose(View(outSide)')
      <4>1. View(outSide)' = OutView!LoadedArcs(E)
        BY <3>3 DEF OutView!Load
      <4>2. OutView!LoadedArcs(E) = Transpose(OutView!LoadedArcs(E))
        <5>1. Symmetric(OutView!LoadedArcs(E))
          BY <2>2 DEF OutView!LoadedArcs, OutView!ArcsOf, Symmetric
        <5>2. QED
          BY <5>1, SymmetricIsTranspose
      <4>3. QED
        BY <4>1, <4>2
    <3>4. CASE OutView!Commit
      BY <3>1, <3>4 DEF OutView!Commit, UndirectedSymmetric
    <3>5. CASE UNCHANGED OutView!vars
      BY <3>1, <3>5 DEF OutView!vars, UndirectedSymmetric
    <3>6. QED
      BY <1>2, <3>2, <3>3, <3>4, <3>5 DEF OutView!Next, UndirectedSymmetric
  <2>3. QED
    BY <2>1, <2>2
<1>3. IInv /\ UndirectedSymmetric /\ [Next]_vars => UndirectedSymmetric'
  BY <1>2, StepCorrect
<1>4. QED
  BY <1>1, <1>3, InductiveInvariant, PTL DEF Spec
=============================================================================
