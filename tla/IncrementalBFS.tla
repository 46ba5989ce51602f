---------------------------- MODULE IncrementalBFS ----------------------------
(***************************************************************************)
(* BasicIncrementalBFS: distances from a source, maintained across batches *)
(* of edge updates.  apply() runs alone; its loops are steps here:         *)
(*   invalidate  before the graph changes, mark the vertices that lose     *)
(*               every shortest parent, or give up at the fallback limit;  *)
(*   update      apply the batch to the graph;                             *)
(*   repair      Dijkstra over the marked vertices;                        *)
(*   settle, relax   propagate decreases, relax the added edges;           *)
(*   recompute   a full BFS, level by level.                               *)
(* Work lists are sets: the order in which FIFO lists are visited is left  *)
(* open, except in the full BFS, which relies on it.                       *)
(***************************************************************************)
EXTENDS GraphUpdates

CONSTANTS Source,
          Fallback,        \* deletion_fallback_fraction, as a fraction <<n, d>>
          InitialCounts,   \* vertex counts of the graph the analytic is built on
          Batches,         \* the batches apply() is given
          Unreachable      \* the largest distance value

ASSUME BFSConstants ==
  /\ MaxVertices \in Nat
  /\ Source \in Nat
  /\ Fallback \in Nat \X (Nat \ {0})
  /\ InitialCounts \subseteq 0 .. MaxVertices
  /\ Batches \subseteq Seq(Op)
  /\ Unreachable \in Nat /\ Unreachable > MaxVertices

VARIABLES directed,       \* the graph's directed() flag
          edges,          \* its arcs
          vertexCount,
          dist,           \* dist_; vertices past its end read as unreachable
          reached,        \* reachable_count_
          phase,
          batch,
          next,           \* the update of the batch to be applied next
          dropped,        \* the arcs of final_deletions_
          added,          \* final_additions_ not relaxed yet
          affected,       \* affected_
          lost,           \* lost_parent_count_
          parents,        \* shortest_parent_count_, 0 where not counted yet
          marked,         \* affected_vertices_
          touched,        \* touched_loss_vertices_
          work,           \* invalidate_ or bfs_queue_, the unvisited part
          heap,           \* repair_heap_
          old,            \* old_affected_dist_
          usedFull        \* last_used_full_recompute_

graph == <<directed, edges, vertexCount>>
result == <<dist, reached>>
plan == <<batch, dropped, added>>
marks == <<affected, lost, parents, marked, touched>>
workspace == <<marks, work, heap, old>>
vars == <<graph, result, phase, plan, next, workspace, usedFull>>

TypeOK ==
  /\ directed \in BOOLEAN
  /\ edges \subseteq Arc
  /\ vertexCount \in 0 .. MaxVertices
  /\ dist \in [Vertex -> 0 .. Unreachable]
  /\ reached \in 0 .. MaxVertices
  /\ phase \in {"idle", "invalidate", "update", "repair", "settle", "relax", "recompute"}
  /\ batch \in Seq(Op)
  /\ next \in Nat
  /\ dropped \subseteq Arc
  /\ added \subseteq Op
  /\ affected \subseteq Vertex
  /\ lost \in [Vertex -> Nat]
  /\ parents \in [Vertex -> Nat]
  /\ marked \subseteq Vertex
  /\ touched \subseteq Vertex
  /\ work \subseteq Vertex
  /\ heap \subseteq (0 .. Unreachable) \X Vertex
  /\ old \in [Vertex -> 0 .. Unreachable]
  /\ usedFull \in BOOLEAN

-----------------------------------------------------------------------------
Reached(v) == dist[v] # Unreachable

(* is_shortest_parent *)
ShortestParent(p, v) == Reached(p) /\ Reached(v) /\ dist[p] + 1 = dist[v]

ShortestParents(v) == {p \in Vertex : <<p, v>> \in edges /\ ShortestParent(p, v)}

NoLoss == [v \in Vertex |-> 0]

NoOld == [v \in Vertex |-> Unreachable]

(* The batch and what was derived from it are not read after apply().      *)
ForgetBatch ==
  batch' = <<>> /\ next' = 1 /\ dropped' = {} /\ added' = {}

(* fallback_limit *)
FallbackLimit ==
  LET share == (vertexCount * Fallback[1]) \div Fallback[2]
  IN  IF share > 1 THEN share ELSE 1

(* The shortest parents that arcs in E take from v. *)
Hits(E, v) == {p \in Vertex : <<p, v>> \in E /\ ShortestParent(p, v)}

(* The vertices for which record_parent_loss does not return at once. *)
Exposed(E) == {v \in Vertex \ affected : v # Source /\ Hits(E, v) # {}}

(* shortest_parent_count: a count made earlier is trusted. *)
Support(v) == IF parents[v] # 0 THEN parents[v] ELSE Cardinality(ShortestParents(v))

Losses(E, v) == lost[v] + IF v \in Exposed(E) THEN Cardinality(Hits(E, v)) ELSE 0

(* Mutant: one lost parent too many is needed. *)
OrphanedOffByOne(E) == {v \in Exposed(E) : Support(v) # 0 /\ Losses(E, v) > Support(v)}

(* A vertex that has lost all its shortest parents is affected. *)
Orphaned(E) == {v \in Exposed(E) : Support(v) # 0 /\ Losses(E, v) >= Support(v)}

(* Mutant: only a vertex that becomes affected is listed for the reset. *)
RecordLossesListsOrphans(E, rest, markedBefore, touchedBefore) ==
  /\ lost' = [v \in Vertex |-> Losses(E, v)]
  /\ parents' = [v \in Vertex |-> IF v \in Exposed(E) THEN Support(v) ELSE parents[v]]
  /\ touched' = touchedBefore \cup Orphaned(E)
  /\ affected' = affected \cup Orphaned(E)
  /\ marked' = markedBefore \cup Orphaned(E)
  /\ work' = rest \cup Orphaned(E)

(* record_parent_loss for each shortest-parent arc in E.  The two lists    *)
(* are given as they are before; a count is not read again once the vertex *)
(* is affected, so that it does not matter that the code then stops.       *)
RecordLosses(E, rest, markedBefore, touchedBefore) ==
  /\ lost' = [v \in Vertex |-> Losses(E, v)]
  /\ parents' = [v \in Vertex |-> IF v \in Exposed(E) THEN Support(v) ELSE parents[v]]
  /\ touched' = touchedBefore \cup {v \in Exposed(E) : lost[v] = 0}
  /\ affected' = affected \cup Orphaned(E)
  /\ marked' = markedBefore \cup Orphaned(E)
  /\ work' = rest \cup Orphaned(E)

-----------------------------------------------------------------------------
(* The constructor: a graph with some vertices, and recompute(). *)
StartRecompute(n) ==
  /\ phase' = "recompute"
  /\ dist' = [v \in Vertex |-> IF v = Source /\ Source < n THEN 0 ELSE Unreachable]
  /\ reached' = 0
  /\ work' = IF Source < n THEN {Source} ELSE {}

Init ==
  /\ directed \in BOOLEAN
  /\ edges = {}
  /\ vertexCount \in InitialCounts
  /\ phase = "recompute"
  /\ dist = [v \in Vertex |-> IF v = Source /\ Source < vertexCount THEN 0 ELSE Unreachable]
  /\ reached = 0
  /\ work = IF Source < vertexCount THEN {Source} ELSE {}
  /\ batch = <<>> /\ next = 1 /\ dropped = {} /\ added = {}
  /\ affected = {} /\ lost = NoLoss /\ parents = NoLoss /\ marked = {} /\ touched = {}
  /\ heap = {}
  /\ old = NoOld
  /\ usedFull = FALSE

(* recompute() called by the user. *)
Recompute ==
  /\ phase = "idle"
  /\ StartRecompute(vertexCount)
  /\ UNCHANGED <<graph, plan, next, marks, heap, old, usedFull>>

(* All vertices of one distance leave the queue before the next distance. *)
RecomputeLevel ==
  /\ phase = "recompute" /\ work # {}
  /\ LET found == {v \in Vertex : ~Reached(v) /\ \E u \in work : <<u, v>> \in edges}
         level == dist[CHOOSE u \in work : TRUE]
     IN  /\ dist' = [v \in Vertex |-> IF v \in found THEN level + 1 ELSE dist[v]]
         /\ work' = found
  /\ UNCHANGED <<graph, reached, phase, plan, next, marks, heap, old, usedFull>>

EndRecompute ==
  /\ phase = "recompute" /\ work = {}
  /\ reached' = Cardinality({v \in Vertex : Reached(v)})
  /\ phase' = "idle"
  /\ UNCHANGED <<graph, dist, plan, next, workspace, usedFull>>

-----------------------------------------------------------------------------
(* apply(): empty the lists, reduce the batch and mark what its deletions  *)
(* orphan.                                                                 *)
Begin(b) ==
  /\ phase = "idle" /\ b # <<>>
  /\ LET final == LastWrites(directed, b)
         drops == UNION {ArcsOf(directed, op) : op \in {o \in final : ~o.add}}
     IN  /\ dropped' = drops
         /\ added' = {op \in final : op.add}
         /\ RecordLosses(drops \cap edges, {}, {}, {})
  /\ batch' = b /\ next' = 1
  /\ phase' = "invalidate"
  /\ usedFull' = FALSE
  /\ UNCHANGED <<graph, result, heap, old>>

(* An affected vertex stops supporting its children. *)
Invalidate(u) ==
  /\ phase = "invalidate" /\ u \in work
  /\ Cardinality(marked) <= FallbackLimit
  /\ RecordLosses({<<u, v>> : v \in Vertex} \cap (edges \ dropped), work \ {u}, marked, touched)
  /\ UNCHANGED <<graph, result, phase, plan, next, heap, old, usedFull>>

(* The result of compute_affected_prebatch decides; the graph is not read  *)
(* again before it has changed.                                            *)
EndInvalidate ==
  /\ phase = "invalidate"
  /\ work = {} \/ Cardinality(marked) > FallbackLimit
  /\ usedFull' = (Cardinality(marked) > FallbackLimit)
  /\ work' = {}
  /\ phase' = "update"
  /\ UNCHANGED <<graph, result, plan, next, marks, heap, old>>

UpdateGraph ==
  /\ phase = "update" /\ next <= Len(batch)
  /\ edges' = AfterOp(directed, edges, batch[next])
  /\ vertexCount' = CountAfter(vertexCount, batch[next])
  /\ next' = next + 1
  /\ UNCHANGED <<directed, result, phase, plan, workspace, usedFull>>

(* clear_workspace: what the two lists name is reset.  The list of marked  *)
(* vertices itself stays until the next batch.                             *)
ClearWorkspace ==
  /\ affected' = affected \ marked
  /\ lost' = [v \in Vertex |-> IF v \in touched THEN 0 ELSE lost[v]]
  /\ parents' = [v \in Vertex |-> IF v \in touched THEN 0 ELSE parents[v]]
  /\ touched' = {}
  /\ UNCHANGED marked

FallBack ==
  /\ phase = "update" /\ next > Len(batch) /\ usedFull
  /\ ClearWorkspace
  /\ ForgetBatch
  /\ StartRecompute(vertexCount)
  /\ UNCHANGED <<graph, heap, old, usedFull>>

-----------------------------------------------------------------------------
(* Mutant: affected neighbours are trusted too. *)
BoundaryTrustsAll(v) ==
  LET offers == {dist[p] + 1 : p \in {q \in Vertex : <<q, v>> \in edges /\ Reached(q)}}
  IN  IF offers = {} THEN Unreachable ELSE CHOOSE d \in offers : \A e \in offers : d <= e

(* best_boundary_distance: the best distance an unaffected vertex offers. *)
Boundary(v) ==
  LET offers == {dist[p] + 1 : p \in {q \in Vertex \ affected : <<q, v>> \in edges /\ Reached(q)}}
  IN  IF offers = {} THEN Unreachable ELSE CHOOSE d \in offers : \A e \in offers : d <= e

(* repair_affected: forget the affected distances, seed the heap. *)
StartRepair ==
  /\ phase = "update" /\ next > Len(batch) /\ ~usedFull
  /\ LET best   == [v \in marked |-> Boundary(v)]
         seeded == {v \in marked : best[v] # Unreachable}
         lostNow == {v \in marked : Reached(v)}
     IN  /\ dist' = [v \in Vertex |-> IF v \in marked THEN best[v] ELSE dist[v]]
         /\ heap' = {<<best[v], v>> : v \in seeded}
         /\ reached' = reached - Cardinality(lostNow) + Cardinality(seeded)
  /\ old' = dist
  /\ phase' = "repair"
  /\ UNCHANGED <<graph, plan, next, marks, work, usedFull>>

(* Mutant: vertices the heap reaches anew are not counted. *)
RepairUncounted ==
  /\ phase = "repair"
  /\ \E item \in heap :
       /\ \A i \in heap : item[1] <= i[1]
       /\ LET closer == {v \in affected : item[1] = dist[item[2]] /\ <<item[2], v>> \in edges
                                           /\ item[1] + 1 < dist[v]}
          IN  /\ dist' = [v \in Vertex |-> IF v \in closer THEN item[1] + 1 ELSE dist[v]]
              /\ heap' = (heap \ {item}) \cup {<<item[1] + 1, v>> : v \in closer}
  /\ UNCHANGED <<graph, reached, phase, plan, next, marks, work, old, usedFull>>

(* Pop the nearest entry; a stale one is skipped.  Only affected vertices  *)
(* are relaxed.                                                            *)
Repair ==
  /\ phase = "repair"
  /\ \E item \in heap :
       /\ \A i \in heap : item[1] <= i[1]
       /\ LET u      == item[2]
              closer == {v \in affected :
                           item[1] = dist[u] /\ <<u, v>> \in edges /\ item[1] + 1 < dist[v]}
          IN  /\ dist' = [v \in Vertex |-> IF v \in closer THEN item[1] + 1 ELSE dist[v]]
              /\ heap' = (heap \ {item}) \cup {<<item[1] + 1, v>> : v \in closer}
              /\ reached' = reached + Cardinality({v \in closer : ~Reached(v)})
  /\ UNCHANGED <<graph, phase, plan, next, marks, work, old, usedFull>>

(* Affected vertices that came out nearer than before spread further; the  *)
(* earlier distances are not read again.                                   *)
EndRepair ==
  /\ phase = "repair" /\ heap = {}
  /\ work' = {v \in marked : dist[v] < old[v]}
  /\ old' = NoOld
  /\ phase' = "settle"
  /\ UNCHANGED <<graph, result, plan, next, marks, heap, usedFull>>

(* Mutant: a visited vertex stays in the queue. *)
SettleKeeps(u) ==
  /\ phase = "settle" /\ u \in work
  /\ LET closer == {v \in Vertex :
                      Reached(u) /\ <<u, v>> \in edges /\ dist[u] + 1 < dist[v]}
     IN  /\ dist' = [v \in Vertex |-> IF v \in closer THEN dist[u] + 1 ELSE dist[v]]
         /\ work' = work \cup closer
         /\ reached' = reached + Cardinality({v \in closer : ~Reached(v)})
  /\ UNCHANGED <<graph, phase, plan, next, marks, heap, old, usedFull>>

(* propagate_decreases *)
Settle(u) ==
  /\ phase = "settle" /\ u \in work
  /\ LET closer == {v \in Vertex :
                      Reached(u) /\ <<u, v>> \in edges /\ dist[u] + 1 < dist[v]}
     IN  /\ dist' = [v \in Vertex |-> IF v \in closer THEN dist[u] + 1 ELSE dist[v]]
         /\ work' = (work \ {u}) \cup closer
         /\ reached' = reached + Cardinality({v \in closer : ~Reached(v)})
  /\ UNCHANGED <<graph, phase, plan, next, marks, heap, old, usedFull>>

(* The additions of the batch are relaxed one by one, then what they       *)
(* improved spreads.                                                       *)
StartRelax ==
  /\ phase = "settle" /\ work = {} /\ added # {}
  /\ phase' = "relax"
  /\ UNCHANGED <<graph, result, plan, next, workspace, usedFull>>

(* relax_edge, in both directions of an undirected edge. *)
Relax(op) ==
  /\ phase = "relax" /\ op \in added
  /\ LET closer == {a \in ArcsOf(directed, op) : Reached(a[1]) /\ dist[a[1]] + 1 < dist[a[2]]}
         ends   == {a[2] : a \in closer}
     IN  /\ dist' = [v \in Vertex |->
                       IF v \in ends THEN dist[(CHOOSE a \in closer : a[2] = v)[1]] + 1
                       ELSE dist[v]]
         /\ work' = work \cup ends
         /\ reached' = reached + Cardinality({v \in ends : ~Reached(v)})
  /\ added' = added \ {op}
  /\ phase' = IF added' = {} THEN "settle" ELSE "relax"
  /\ UNCHANGED <<graph, batch, dropped, next, marks, heap, old, usedFull>>

(* The end of apply(). *)
Return ==
  /\ phase = "settle" /\ work = {} /\ added = {}
  /\ ClearWorkspace
  /\ ForgetBatch
  /\ phase' = "idle"
  /\ UNCHANGED <<graph, result, work, heap, old, usedFull>>

Step ==
  \/ RecomputeLevel \/ EndRecompute
  \/ \E u \in Vertex : Invalidate(u) \/ Settle(u)
  \/ EndInvalidate \/ UpdateGraph \/ FallBack
  \/ StartRepair \/ Repair \/ EndRepair
  \/ StartRelax \/ \E op \in added : Relax(op)
  \/ Return

Next == Recompute \/ (\E b \in Batches : Begin(b)) \/ Step

(* apply() and recompute() run to their end; nothing makes a caller call.  *)
Spec == Init /\ [][Next]_vars /\ WF_vars(Step)

-----------------------------------------------------------------------------
(* dist is the distance from the source: the source is at 0, no edge       *)
(* shortens anything, and every other reached vertex has a parent one      *)
(* closer.                                                                 *)
Exact ==
  /\ \A v \in Vertex : v = Source /\ v < vertexCount => dist[v] = 0
  /\ \A a \in edges : Reached(a[1]) => dist[a[2]] <= dist[a[1]] + 1
  /\ \A v \in Vertex \ {Source} :
       Reached(v) => \E p \in Vertex : <<p, v>> \in edges /\ dist[p] + 1 = dist[v]

(* Between calls the distances are those of the current graph, whatever    *)
(* mixture of repairs and fallbacks produced them.                         *)
ExactAtRest == phase = "idle" => Exact

(* The state is well typed, and the cached count follows every change of a *)
(* distance.                                                               *)
ReachedCounted ==
  /\ TypeOK
  /\ phase # "recompute" => reached = Cardinality({v \in Vertex : Reached(v)})

(* Marking is complete: once it ends without fallback, a vertex that kept  *)
(* its distance has a shortest parent that also kept it, over an edge the  *)
(* batch does not delete.                                                  *)
SurvivorsSupported ==
  phase = "invalidate" /\ work = {} /\ Cardinality(marked) <= FallbackLimit =>
    \A v \in Vertex \ (affected \cup {Source}) :
      Reached(v) => ShortestParents(v) \cap {p \in Vertex \ affected : <<p, v>> \notin dropped} # {}

(* During the repair no distance is ever too small: each is one more than  *)
(* some neighbour's, or larger.                                            *)
NeverTooSmall ==
  phase \in {"repair", "settle", "relax", "recompute"} =>
    \A v \in Vertex \ {Source} :
      Reached(v) => \E p \in Vertex : <<p, v>> \in edges /\ dist[p] + 1 <= dist[v]

(* Nothing of a batch outlives its call, on any path, although only what   *)
(* the lists name is reset; and a count that marking trusts is that of the *)
(* present graph.                                                          *)
WorkspaceClean ==
  /\ phase = "idle" => affected = {} /\ lost = NoLoss /\ parents = NoLoss
  /\ phase = "invalidate" => \A v \in Vertex : parents[v] \in {0, Cardinality(ShortestParents(v))}

(* apply() returns. *)
Returns == phase # "idle" ~> phase = "idle"
=============================================================================
