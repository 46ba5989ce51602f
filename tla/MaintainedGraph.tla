---------------------------- MODULE MaintainedGraph ----------------------------
(***************************************************************************)
(* What the analytics of incremental/ share: the graph, the batch of the   *)
(* apply() that runs, and the loop that applies the batch to the graph.    *)
(* One apply() runs at a time; phase says where in which analytic it is.   *)
(*                                                                         *)
(* The graph is a WeightedDynamicGraph; a DynamicGraph is one whose edges  *)
(* all have weight 1, and an EdgeUpdate a WeightedEdgeUpdate of weight 1.  *)
(***************************************************************************)
EXTENDS GraphUpdates, SequencesExt

CONSTANTS Source,        \* the source of the shortest paths
          Infinity,      \* kDijkstraInf
          Batches        \* the batches callers apply

(* WeightedEdgeUpdate; weights of kDijkstraInf and more are rejected. *)
WeightedOp == [src : Vertex, dst : Vertex, add : BOOLEAN, weight : 0 .. Infinity]

ASSUME MaintainedConstants ==
  /\ MaxVertices \in Nat \ {0}
  /\ Source \in Vertex
  /\ Infinity \in Nat /\ Infinity > MaxVertices
  /\ Batches \subseteq Seq(WeightedOp) \ {<<>>}

VARIABLES directed,      \* directed()
          edges,         \* the arcs of the graph
          weight,        \* and their weights; 1 where there is no arc
          vertexCount,
          phase,
          batch,
          next           \* the update of the batch to be applied next

graph == <<directed, edges, weight, vertexCount>>
call == <<batch, next>>

GraphTypeOK ==
  /\ directed \in BOOLEAN
  /\ edges \subseteq Arc
  /\ weight \in [Arc -> 0 .. Infinity - 1]
  /\ vertexCount \in 0 .. MaxVertices
  /\ batch \in Seq(WeightedOp)
  /\ next \in Nat

-----------------------------------------------------------------------------
Neighbors(v) == {w \in Vertex : <<v, w>> \in edges}

(* What a traversal that only enters vertices of `within` visits: no more  *)
(* than any set that contains the seeds and lets no arc into `within` out. *)
Reach(seeds, within) ==
  {v \in Vertex : \A S \in SUBSET Vertex :
     seeds \subseteq S /\ (\A u \in S : Neighbors(u) \cap within \subseteq S) => v \in S}

(* apply_updates: the updates of the batch, one by one. *)
UpdateGraph(during) ==
  /\ phase = during /\ next <= Len(batch)
  /\ edges' = AfterOp(directed, edges, batch[next])
  /\ weight' = [a \in Arc |-> IF a \notin ArcsOf(directed, batch[next]) THEN weight[a]
                              ELSE IF batch[next].add THEN batch[next].weight ELSE 1]
  /\ vertexCount' = CountAfter(vertexCount, batch[next])
  /\ next' = next + 1
  /\ UNCHANGED <<directed, phase, batch>>

(* The batch is in the graph. *)
Updated(during) == phase = during /\ next > Len(batch)

(* canonicalize, of components and weighted paths: what it keeps, the last *)
(* update of each edge.                                                    *)
Kept(i) ==
  /\ batch[i].src # batch[i].dst
  /\ \A k \in DOMAIN batch : i < k => Key(directed, batch[k]) # Key(directed, batch[i])

Return == phase' = "idle" /\ next' = 1
=============================================================================
