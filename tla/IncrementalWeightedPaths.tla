----------------------- MODULE IncrementalWeightedPaths -----------------------
(***************************************************************************)
(* BasicIncrementalWeightedSSSP: distances and Dijkstra as for unit        *)
(* weights, but a batch makes it start over only if one of the updates     *)
(* that count removes an edge or makes it longer.                          *)
(***************************************************************************)
EXTENDS IncrementalPaths

VARIABLE restart        \* requires_recompute

-----------------------------------------------------------------------------
(* The checks of apply() and of the graph, before either changes anything. *)
Rejected ==
  \E i \in DOMAIN batch :
    batch[i].add /\ batch[i].src # batch[i].dst /\ batch[i].weight >= Infinity

(* An undirected edge that is kept is written from its smaller end. *)
Oriented(op) ==
  IF directed \/ op.src < op.dst THEN op ELSE [op EXCEPT !.src = op.dst, !.dst = op.src]

(* Mutant: only removals make the analytic start over. *)
LengthensByRemoval(op) == <<op.src, op.dst>> \in edges /\ ~op.add

Lengthens(op) ==
  /\ <<op.src, op.dst>> \in edges
  /\ op.add => op.weight > weight[<<op.src, op.dst>>]

RejectWeighted ==
  /\ phase = "idle" /\ Rejected
  /\ UNCHANGED <<graph, call, phase, paths, restart>>

BeginWeighted ==
  /\ phase = "idle" /\ ~Rejected
  /\ restart' = \E i \in DOMAIN batch : Kept(i) /\ Lengthens(batch[i])
  /\ phase' = "weighted"
  /\ UNCHANGED <<graph, call, paths>>

RestartWeighted ==
  /\ Updated("weighted") /\ restart
  /\ StartOver(vertexCount)
  /\ restart' = FALSE
  /\ UNCHANGED <<graph, call>>

RelaxWeighted ==
  /\ Updated("weighted") /\ ~restart
  /\ StartRelaxing("reweigh")
  /\ UNCHANGED restart

RelaxKept ==
  /\ phase = "reweigh" /\ next <= Len(batch)
  /\ Kept(next) /\ batch[next].add
  /\ Relax(Oriented(batch[next]))
  /\ UNCHANGED restart

PassOver ==
  /\ phase = "reweigh" /\ next <= Len(batch)
  /\ ~(Kept(next) /\ batch[next].add)
  /\ next' = next + 1
  /\ UNCHANGED <<graph, phase, batch, paths, restart>>

-----------------------------------------------------------------------------
(* far[v] is the length of the shortest path, Infinity when it is not      *)
(* shorter than that: edges of weight 0, weights raised and lowered in one *)
(* batch, and sums that reach kDijkstraInf included.  No arc shortens a    *)
(* distance, and whatever set of reached vertices one takes, an arc that   *)
(* accounts for a distance enters it: without the source no cycle of       *)
(* weight 0 holds itself up.                                               *)
WeightedExact ==
  /\ Source < vertexCount => far[Source] = 0
  /\ \A a \in edges : far[a[2]] <= far[a[1]] + weight[a]
  /\ \A S \in SUBSET {v \in Vertex \ {Source} : far[v] # Infinity} :
       S # {} => \E u \in Vertex \ S, v \in S :
                   <<u, v>> \in edges /\ far[u] + weight[<<u, v>>] = far[v]
=============================================================================
