----------------------------- MODULE LogicalGraph -----------------------------
(***************************************************************************)
(* What DynamicGraph promises its callers: a simple graph that bulk loads  *)
(* replace, that the operations of a batch change one by one in order, and *)
(* whose version moves once per non-empty batch.  Storage maintenance is   *)
(* not part of it: compaction must look like a stuttering step.            *)
(***************************************************************************)
EXTENDS GraphDomain

VARIABLES edges,         \* the logical arcs
          vertexCount,
          version,
          inBatch        \* apply() has started a batch and not finished it

vars == <<edges, vertexCount, version, inBatch>>

(* The arcs an edge stands for: none for a self loop, both directions when *)
(* the graph is undirected.                                                *)
ArcsOf(u, v) ==
  IF u = v THEN {} ELSE {<<u, v>>} \cup (IF Directed THEN {} ELSE {<<v, u>>})

LoadedArcs(E) == UNION {ArcsOf(e[1], e[2]) : e \in E}

Init ==
  /\ edges = {}
  /\ vertexCount \in 0 .. MaxVertices
  /\ version = 0
  /\ inBatch = FALSE

Update(u, v, add) ==
  /\ edges' = IF add THEN edges \cup ArcsOf(u, v) ELSE edges \ ArcsOf(u, v)
  /\ vertexCount' \in EnsureVertex(vertexCount, IF u = v THEN {} ELSE {u, v})
  /\ inBatch' = TRUE
  /\ UNCHANGED version

Commit ==
  /\ inBatch
  /\ version' = Successor(version)
  /\ inBatch' = FALSE
  /\ UNCHANGED <<edges, vertexCount>>

Load(E) ==
  /\ ~inBatch
  /\ edges' = LoadedArcs(E)
  /\ vertexCount' \in EnsureVertex(vertexCount, Endpoints(E))
  /\ version' = Successor(version)
  /\ UNCHANGED inBatch

Next ==
  \/ \E a \in UpdateArcs, add \in BOOLEAN : Update(a[1], a[2], add)
  \/ Commit
  \/ \E E \in BulkInputs : Load(E)

Spec == Init /\ [][Next]_vars
=============================================================================
