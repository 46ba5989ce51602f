----------------------------- MODULE GraphUpdates -----------------------------
(***************************************************************************)
(* What every maintained analytic knows of its graph: the effect of one    *)
(* update on a set of arcs (the promise LogicalGraph states and            *)
(* DynamicGraph implements), and the reduction of a batch to the last      *)
(* update of each edge.  dir is the graph's directed() flag.               *)
(***************************************************************************)
EXTENDS Integers, Sequences, FiniteSets

CONSTANT MaxVertices      \* vertex ids are 0 .. MaxVertices - 1

Vertex == 0 .. MaxVertices - 1

Arc == Vertex \X Vertex

(* EdgeUpdate, without the timestamp. *)
Op == [src : Vertex, dst : Vertex, add : BOOLEAN]

(* The arcs an update writes: a self loop is ignored. *)
ArcsOf(dir, op) ==
  IF op.src = op.dst THEN {}
  ELSE {<<op.src, op.dst>>} \cup (IF dir THEN {} ELSE {<<op.dst, op.src>>})

AfterOp(dir, arcs, op) ==
  IF op.add THEN arcs \cup ArcsOf(dir, op) ELSE arcs \ ArcsOf(dir, op)

(* ensure_vertex for both ends. *)
CountAfter(n, op) ==
  IF op.src = op.dst THEN n
  ELSE CHOOSE m \in {n, op.src + 1, op.dst + 1} :
         n <= m /\ op.src < m /\ op.dst < m

(* edge_key: an undirected edge has one key. *)
Key(dir, op) == IF dir THEN <<op.src, op.dst>> ELSE {op.src, op.dst}

(* Mutant: the first update of an edge decides. *)
FirstWrites(dir, batch) ==
  {batch[i] : i \in {j \in DOMAIN batch :
                       \A k \in DOMAIN batch : k < j => Key(dir, batch[k]) # Key(dir, batch[j])}}

(* The updates of a batch that no later one of the same edge overrides. *)
LastWrites(dir, batch) ==
  {batch[i] : i \in {j \in DOMAIN batch :
                       \A k \in DOMAIN batch : j < k => Key(dir, batch[k]) # Key(dir, batch[j])}}

=============================================================================
