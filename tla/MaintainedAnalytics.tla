------------------------- MODULE MaintainedAnalytics -------------------------
(***************************************************************************)
(* A graph with the analytics that are attached to it.  The caller hands   *)
(* each batch to apply() of every attached analytic in some order; each    *)
(* apply() updates the graph itself, the first one for real, the others    *)
(* once more.  It may also call recompute() and queries between batches.   *)
(***************************************************************************)
EXTENDS IncrementalComponents, IncrementalTriangles, IncrementalKCore, IncrementalWeightedPaths, IncrementalPageRank

CONSTANTS Attachments,     \* sets of analytics a caller attaches
          WeightedBatches, \* the batches applied to a weighted graph
          RankedBatches,   \* and to a graph with ranks
          InitialCounts    \* vertex counts of the graph they are built on

Undirected == {"components", "triangles", "cores"}

ASSUME AttachmentConstants ==
  /\ Attachments \subseteq (SUBSET (Undirected \cup {"paths"})) \cup {{"weighted"}, {"ranks"}}
  /\ Batches \cup RankedBatches \subseteq Seq({op \in WeightedOp : op.weight = 1})
  /\ WeightedBatches \cup RankedBatches \subseteq Seq(WeightedOp) \ {<<>>}
  /\ InitialCounts \subseteq Source + 1 .. MaxVertices

VARIABLES attached,        \* the analytics on this graph
          todo             \* those the current batch has not been given to

caller == <<attached, todo>>
others == <<components, triangles, cores, paths, restart>>
results == <<others, ranks>>
vars == <<graph, call, phase, results, caller>>

TypeOK ==
  /\ GraphTypeOK
  /\ ComponentsTypeOK /\ CoresTypeOK /\ PathsTypeOK /\ RanksTypeOK
  /\ triangles \in Nat /\ restart \in BOOLEAN
  /\ phase \in {"idle", "components", "rebuild", "triangles", "cores", "peel", "paths", "relax", "weighted",
               "reweigh", "propagate", "ranks", "rounds"}
  /\ attached \in Attachments
  /\ todo \subseteq attached

(* The constructors of most analytics reject a directed graph. *)
Init ==
  /\ attached \in Attachments
  /\ directed \in BOOLEAN
  /\ attached \cap Undirected # {} => ~directed
  /\ edges = {} /\ weight = [a \in Arc |-> 1]
  /\ vertexCount \in InitialCounts
  /\ phase = "idle" /\ batch = <<>> /\ next = 1
  /\ todo = {}
  /\ InitComponents /\ InitTriangles /\ InitCores /\ InitPaths /\ restart = FALSE
  /\ InitRanks

-----------------------------------------------------------------------------
NewBatch(b) ==
  /\ phase = "idle" /\ todo = {}
  /\ batch' = b
  /\ todo' = attached
  /\ UNCHANGED <<graph, next, phase, results, attached>>

Begin(a) ==
  /\ a \in todo
  /\ todo' = todo \ {a}
  /\ UNCHANGED attached
  /\ \/ a = "ranks" /\ BeginRanks /\ UNCHANGED others
     \/ /\ UNCHANGED ranks
        /\ \/ a = "components" /\ BeginComponents /\ UNCHANGED <<triangles, cores, paths, restart>>
           \/ a = "triangles" /\ BeginTriangles /\ UNCHANGED <<components, cores, paths, restart>>
           \/ a = "cores" /\ BeginCores /\ UNCHANGED <<components, triangles, paths, restart>>
           \/ a = "paths" /\ BeginPaths /\ UNCHANGED <<components, triangles, cores, restart>>
           \/ a = "weighted" /\ (BeginWeighted \/ RejectWeighted)
              /\ UNCHANGED <<components, triangles, cores>>

(* The steps inside apply(). *)
Step ==
  /\ UNCHANGED caller
  /\ \/ (UpdateRanked \/ SolveAfresh \/ StartRounds \/ Round \/ EndRounds) /\ UNCHANGED others
     \/ /\ UNCHANGED ranks
        /\ \/ /\ \E a \in {"components", "cores", "paths", "weighted"} : UpdateGraph(a)
              /\ UNCHANGED others
           \/ (TakeApart \/ Rebuild \/ Replay \/ EndComponents) /\ UNCHANGED <<triangles, cores, paths, restart>>
           \/ (CountUpdate \/ EndTriangles) /\ UNCHANGED <<components, cores, paths, restart>>
           \/ (PeelCores \/ Peel \/ EndCores) /\ UNCHANGED <<components, triangles, paths, restart>>
           \/ /\ \/ RestartPaths \/ RelaxPaths \/ RelaxUpdate
                 \/ EndRelaxing("relax") \/ EndRelaxing("reweigh")
                 \/ Propagate \/ EndPaths
              /\ UNCHANGED <<components, triangles, cores, restart>>
           \/ (RestartWeighted \/ RelaxWeighted \/ RelaxKept \/ PassOver)
              /\ UNCHANGED <<components, triangles, cores>>

(* recompute() and component(), between batches. *)
Between ==
  /\ todo = {}
  /\ UNCHANGED <<caller, restart>>
  /\ \/ "ranks" \in attached /\ RecomputeRanks /\ UNCHANGED others
     \/ /\ UNCHANGED ranks
        /\ \/ /\ "components" \in attached
              /\ \E v \in Vertex : QueryComponent(v)
              /\ UNCHANGED <<triangles, cores, paths>>
           \/ "triangles" \in attached /\ RecomputeTriangles /\ UNCHANGED <<components, cores, paths>>
           \/ "cores" \in attached /\ RecomputeCores /\ UNCHANGED <<components, triangles, paths>>
           \/ {"paths", "weighted"} \cap attached # {} /\ RecomputePaths
              /\ UNCHANGED <<components, triangles, cores>>

Next ==
  \/ attached \notin {{"weighted"}, {"ranks"}} /\ \E b \in Batches : NewBatch(b)
  \/ attached = {"weighted"} /\ \E b \in WeightedBatches : NewBatch(b)
  \/ attached = {"ranks"} /\ \E b \in RankedBatches : NewBatch(b)
  \/ \E a \in attached : Begin(a)
  \/ Step
  \/ Between

Spec == Init /\ [][Next]_vars

-----------------------------------------------------------------------------
Settled == phase = "idle" /\ todo = {}

(* Once every attached analytic has been given the batch, each one's       *)
(* result is that of the current graph.                                    *)
ComponentsMaintained == Settled /\ "components" \in attached => ComponentsExact
CoresMaintained == Settled /\ "cores" \in attached => CoresExact
PathsMaintained == Settled /\ "paths" \in attached => PathsExact
WeightedMaintained == Settled /\ "weighted" \in attached => WeightedExact

(* Ranks are local approximations: what stays is that every vertex whose   *)
(* equation a batch changed has been updated (see RanksFresh).             *)
RanksMaintained == Settled /\ "ranks" \in attached => RanksFresh

(* The triangle count is right after every single update. *)
TrianglesMaintained == "triangles" \in attached => TrianglesExact

(* The structures behind the results hold sensible values, and union-find  *)
(* trees never close a cycle.                                              *)
StructuresSound == TypeOK /\ ForestRanked
=============================================================================
