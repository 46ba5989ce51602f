----------------------------- MODULE DynamicGraph -----------------------------
(***************************************************************************)
(* velographx::DynamicGraph: a mutable simple graph kept as two adjacency  *)
(* sides, each a compact part under an overlay of pending changes.         *)
(*                                                                         *)
(* The class is not synchronised; one caller runs one operation at a time. *)
(* apply() is a loop over the operations of a batch followed by a version  *)
(* increment and the automatic maintenance; its iterations are steps here  *)
(* (ApplyOp ... ApplyOp, FinishApply) and no other operation can start     *)
(* while inBatch holds, so a batch is any finite sequence of operations.   *)
(***************************************************************************)
EXTENDS GraphDomain, GraphSide

CONSTANTS WorkBudget,      \* least row work budget (8 in the code)
          Thresholds,      \* maybe_compact arguments, as fractions <<n, d>>
          AutoMinDelta,    \* kAutomaticMinimumDeltaEntries
          AutoThreshold    \* kRowDeltaDensityThreshold, as a fraction

ASSUME StorageConstants ==
  /\ WorkBudget \in Nat
  /\ AutoMinDelta \in Nat
  /\ AutoThreshold \in Nat \X (Nat \ {0})
  /\ Thresholds \subseteq Nat \X (Nat \ {0})

VARIABLES outSide,       \* base_out_, patches_out_, delta_out_, ...
          inSide,        \* base_in_, patches_in_, delta_in_, ...
          vertexCount,
          version,
          inBatch

vars == <<outSide, inSide, vertexCount, version, inBatch>>

Side ==
  [base : SUBSET Arc, patched : SUBSET Vertex, patch : SUBSET Arc,
   plus : SUBSET Arc, minus : SUBSET Arc, adds : Nat, dels : Nat,
   dirty : SUBSET Vertex, edges : Nat]

TypeOK ==
  /\ outSide \in Side
  /\ inSide \in Side
  /\ vertexCount \in 0 .. MaxVertices
  /\ version \in 0 .. VersionModulus - 1
  /\ inBatch \in BOOLEAN

-----------------------------------------------------------------------------
(* Mutant: the incoming overlay is written under the source row. *)
ApplyArcSwapsIn(g, u, v, present) ==
  LET basePresent == <<u, v>> \in CompactRows(g.out)
  IN  IF Changes(g.out, <<u, v>>, present, basePresent)
      THEN [out |-> MarkDirty(SetEntry(g.out, <<u, v>>, present, basePresent), u),
            in  |-> MarkDirty(SetEntry(g.in, <<u, v>>, present, basePresent), v)]
      ELSE g

(* apply_arc: the compact membership read on the outgoing side decides     *)
(* what the overlays of BOTH sides record.                                 *)
ApplyArc(g, u, v, present) ==
  LET basePresent == <<u, v>> \in CompactRows(g.out)
  IN  IF Changes(g.out, <<u, v>>, present, basePresent)
      THEN [out |-> MarkDirty(SetEntry(g.out, <<u, v>>, present, basePresent), u),
            in  |-> MarkDirty(SetEntry(g.in, <<v, u>>, present, basePresent), v)]
      ELSE g

(* Mutant: the reverse arc of an undirected edge is forgotten. *)
ApplyEdgeOneArc(g, u, v, present) == ApplyArc(g, u, v, present)

(* apply_unversioned on two vertices that differ. *)
ApplyEdge(g, u, v, present) ==
  IF Directed THEN ApplyArc(g, u, v, present)
  ELSE ApplyArc(ApplyArc(g, u, v, present), v, u, present)

(* bulk_load_edges: self loops are dropped, reverse arcs added. *)
LoadedArcs(E) ==
  LET kept == {e \in E : e[1] # e[2]}
  IN  IF Directed THEN kept ELSE kept \cup Transpose(kept)

IsCompact == Size(outSide) = 0 /\ Size(inSide) = 0

(* edge_count_directed() *)
EdgeCount == outSide.edges + outSide.adds - outSide.dels

(* automatic_storage_maintenance: both conditions read the outgoing side.  *)
AutoDue ==
  /\ Size(outSide) >= AutoMinDelta
  /\ 100 * Size(outSide) >= (IF outSide.edges = 0 THEN 1 ELSE outSide.edges)

-----------------------------------------------------------------------------
Init ==
  /\ outSide = EmptySide
  /\ inSide = EmptySide
  /\ vertexCount \in 0 .. MaxVertices
  /\ version = 0
  /\ inBatch = FALSE

(* One iteration of apply(): a self loop is skipped. *)
ApplyOp(u, v, add) ==
  /\ IF u = v
     THEN UNCHANGED <<outSide, inSide, vertexCount>>
     ELSE LET g == ApplyEdge([out |-> outSide, in |-> inSide], u, v, add)
          IN  /\ outSide' = g.out
              /\ inSide' = g.in
              /\ vertexCount' \in EnsureVertex(vertexCount, {u, v})
  /\ inBatch' = TRUE
  /\ UNCHANGED version

(* The end of apply() for a non-empty batch. *)
FinishApply ==
  /\ inBatch
  /\ version' = Successor(version)
  /\ inBatch' = FALSE
  /\ IF AutoDue
     THEN /\ outSide' = CompactDense(outSide, WorkBudget, AutoThreshold)
          /\ inSide' = CompactDense(inSide, WorkBudget, AutoThreshold)
     ELSE UNCHANGED <<outSide, inSide>>
  /\ UNCHANGED vertexCount

BulkLoad(E) ==
  /\ ~inBatch
  /\ outSide' = LoadedSide(LoadedArcs(E))
  /\ inSide' = LoadedSide(Transpose(LoadedArcs(E)))
  /\ vertexCount' \in EnsureVertex(vertexCount, Endpoints(E))
  /\ version' = Successor(version)
  /\ UNCHANGED inBatch

(* The two sides judge the density of their rows independently. *)
MaybeCompact(t) ==
  /\ ~inBatch
  /\ outSide' = CompactDense(outSide, WorkBudget, t)
  /\ inSide' = CompactDense(inSide, WorkBudget, t)
  /\ UNCHANGED <<vertexCount, version, inBatch>>

(* compact() returns at once when no overlay entry is live. *)
Compact ==
  /\ ~inBatch
  /\ ~IsCompact
  /\ outSide' = CompactMarked(outSide)
  /\ inSide' = CompactMarked(inSide)
  /\ UNCHANGED <<vertexCount, version, inBatch>>

Next ==
  \/ \E a \in UpdateArcs, add \in BOOLEAN : ApplyOp(a[1], a[2], add)
  \/ FinishApply
  \/ \E E \in BulkInputs : BulkLoad(E)
  \/ \E t \in Thresholds : MaybeCompact(t)
  \/ Compact

Spec == Init /\ [][Next]_vars

-----------------------------------------------------------------------------
(* Every overlay entry of the outgoing side disagrees with the compact row *)
(* under it, and an arc has at most one entry: an update that restores an  *)
(* edge to its compact state leaves no entry behind, whatever rows were    *)
(* compacted in between.  edge_count_directed() relies on it.              *)
OverlayCanonical ==
  /\ outSide.plus \cap CompactRows(outSide) = {}
  /\ outSide.minus \subseteq CompactRows(outSide)

(* edge_count_directed(), computed from three incrementally maintained     *)
(* counters, is the number of arcs an enumeration of the rows returns.     *)
EdgeCountExact == EdgeCount = Cardinality(View(outSide))

(* A row that has overlay entries is on its side's dirty list, so that     *)
(* compact() and maybe_compact() cannot overlook it.                       *)
DirtyCoversOverlay ==
  \A s \in {outSide, inSide} : \A a \in Overlay(s) : a[1] \in s.dirty

(* compact() leaves no overlay entry on either side: after it the analytics *)
(* that require is_compact() may read compact rows only.                   *)
CompactIsComplete == [][Compact => IsCompact']_vars

(* The incoming lists enumerate exactly the arcs the outgoing lists do:    *)
(* in_neighbors(v) contains u iff has_edge(u, v).                          *)
ViewsAgree == View(inSide) = Transpose(View(outSide))

(* Undirected graphs answer has_edge(u, v) and has_edge(v, u) alike, in    *)
(* every state between two operations.                                     *)
UndirectedSymmetric == ~Directed => View(outSide) = Transpose(View(outSide))

(* The outgoing side implements the logical graph: every operation changes *)
(* has_edge as the abstract one does and maintenance changes nothing.      *)
OutView == INSTANCE LogicalGraph WITH edges <- View(outSide)
ImplementsOut == OutView!Spec
=============================================================================
