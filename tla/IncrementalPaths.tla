--------------------------- MODULE IncrementalPaths ---------------------------
(***************************************************************************)
(* BasicIncrementalSSSP with unit weights: a batch with a removal makes    *)
(* Dijkstra start over, other batches relax the added edges and propagate. *)
(***************************************************************************)
EXTENDS MaintainedGraph

VARIABLES far,          \* dist_; Infinity past its end
          queue         \* the priority queue; equal pairs are processed once

paths == <<far, queue>>

PathsTypeOK ==
  /\ far \in [Vertex -> 0 .. Infinity]
  /\ queue \subseteq (0 .. Infinity) \X Vertex

StartOver(n) ==
  /\ far' = [v \in Vertex |-> IF v = Source /\ Source < n THEN 0 ELSE Infinity]
  /\ queue' = IF Source < n THEN {<<0, Source>>} ELSE {}
  /\ phase' = "propagate"

InitPaths ==
  /\ far = [v \in Vertex |-> IF v = Source /\ Source < vertexCount THEN 0 ELSE Infinity]
  /\ queue = {}

-----------------------------------------------------------------------------
BeginPaths ==
  /\ phase = "idle"
  /\ phase' = "paths"
  /\ UNCHANGED <<graph, call, paths>>

(* One arc: the distance of its target and what is pushed.  No distance    *)
(* exceeds Infinity, so none that is lowered reaches it.                   *)
RelaxArc(acc, arc) ==
  LET through == acc.far[arc[1]] + weight[arc]
  IN  IF acc.far[arc[1]] # Infinity /\ through < acc.far[arc[2]]
      THEN [far   |-> [acc.far EXCEPT ![arc[2]] = through],
            queue |-> acc.queue \cup {<<through, arc[2]>>}]
      ELSE acc

(* Mutant: an undirected edge is relaxed one way. *)
RelaxOpForward(acc, op) == RelaxArc(acc, <<op.src, op.dst>>)

RelaxOp(acc, op) ==
  LET there == RelaxArc(acc, <<op.src, op.dst>>)
  IN  IF directed THEN there ELSE RelaxArc(there, <<op.dst, op.src>>)

HasRemoval == \E i \in DOMAIN batch : ~batch[i].add

RestartPaths ==
  /\ Updated("paths") /\ HasRemoval
  /\ StartOver(vertexCount)
  /\ UNCHANGED <<graph, call>>

(* relax_from_updates: the updates once more, one by one. *)
StartRelaxing(during) == phase' = during /\ next' = 1 /\ queue' = {} /\ UNCHANGED <<graph, batch, far>>

Relax(op) ==
  /\ LET relaxed == RelaxOp([far |-> far, queue |-> queue], op)
     IN  far' = relaxed.far /\ queue' = relaxed.queue
  /\ next' = next + 1
  /\ UNCHANGED <<graph, phase, batch>>

EndRelaxing(during) ==
  /\ Updated(during)
  /\ phase' = "propagate"
  /\ UNCHANGED <<graph, call, paths>>

RelaxPaths == Updated("paths") /\ ~HasRemoval /\ StartRelaxing("relax")

RelaxUpdate == phase = "relax" /\ next <= Len(batch) /\ Relax(batch[next])

(* propagate_dijkstra: the nearest pair; an outdated one is skipped. *)
Propagate ==
  /\ phase = "propagate"
  /\ \E item \in queue :
       /\ \A i \in queue : item[1] <= i[1]
       /\ LET through(v) == item[1] + weight[<<item[2], v>>]
              closer == {v \in Neighbors(item[2]) :
                           item[1] = far[item[2]] /\ through(v) < far[v]}
          IN  /\ far' = [v \in Vertex |-> IF v \in closer THEN through(v) ELSE far[v]]
              /\ queue' = (queue \ {item}) \cup {<<through(v), v>> : v \in closer}
  /\ UNCHANGED <<graph, call, phase>>

EndPaths ==
  /\ phase = "propagate" /\ queue = {}
  /\ Return
  /\ UNCHANGED <<graph, batch, paths>>

RecomputePaths ==
  /\ phase = "idle"
  /\ StartOver(vertexCount)
  /\ UNCHANGED <<graph, call>>

-----------------------------------------------------------------------------
(* far[v] is the length of a shortest path from the source, for additions  *)
(* that are only relaxed as well as after a restart.                       *)
PathsExact ==
  /\ Source < vertexCount => far[Source] = 0
  /\ \A a \in edges : far[a[1]] # Infinity => far[a[2]] <= far[a[1]] + 1
  /\ \A v \in Vertex \ {Source} :
       far[v] # Infinity => \E u \in Vertex : <<u, v>> \in edges /\ far[u] + 1 = far[v]
=============================================================================
