------------------------- MODULE IncrementalTriangles -------------------------
(***************************************************************************)
(* IncrementalTriangleCount: each update is counted against the graph as   *)
(* the earlier updates of the batch left it, then applied.                 *)
(***************************************************************************)
EXTENDS MaintainedGraph

VARIABLE triangles      \* triangles_

InitTriangles == triangles = 0

-----------------------------------------------------------------------------
(* common_neighbors: the rows of both ends, one scanned, one probed. *)
CommonNeighbors(a, b) == Cardinality(Neighbors(a) \cap Neighbors(b))

BeginTriangles ==
  /\ phase = "idle"
  /\ phase' = "triangles"
  /\ UNCHANGED <<graph, call, triangles>>

(* Mutant: adding an edge that exists counts its triangles again. *)
CountedBlindly(op) ==
  LET common == CommonNeighbors(op.src, op.dst)
  IN  IF op.src = op.dst THEN triangles
      ELSE IF op.add THEN triangles + common
      ELSE IF <<op.src, op.dst>> \in edges THEN triangles - Min({triangles, common})
      ELSE triangles

(* What one update does to the count. *)
Counted(op) ==
  LET exists == <<op.src, op.dst>> \in edges
      common == CommonNeighbors(op.src, op.dst)
  IN  IF op.src = op.dst \/ op.add = exists THEN triangles
      ELSE IF op.add THEN triangles + common
      ELSE triangles - Min({triangles, common})

CountUpdate ==
  /\ UpdateGraph("triangles")
  /\ triangles' = Counted(batch[next])

EndTriangles ==
  /\ Updated("triangles")
  /\ Return
  /\ UNCHANGED <<graph, batch, triangles>>

(* recompute(): every triangle is met at its three edges. *)
RecomputeTriangles ==
  /\ phase = "idle"
  /\ LET up == {a \in edges : a[1] < a[2]}
         met == {m \in up \X Vertex : m[2] \in Neighbors(m[1][1]) \cap Neighbors(m[1][2])}
     IN  triangles' = Cardinality(met) \div 3
  /\ UNCHANGED <<graph, call, phase>>

-----------------------------------------------------------------------------
(* The count is the number of triangles, even between the updates of a     *)
(* batch that adds and removes edges of one triangle.                      *)
TrianglesExact ==
  triangles = Cardinality({S \in kSubset(3, Vertex) :
                             \A v, w \in S : v # w => <<v, w>> \in edges})
=============================================================================
