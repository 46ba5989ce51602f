--------------------------- MODULE IncrementalKCore ---------------------------
(***************************************************************************)
(* BasicIncrementalKCore: the components of all updated vertices, as they  *)
(* were before and as they are after the update, are peeled again with a   *)
(* heap of (degree, vertex) pairs; the cores of other vertices are kept.   *)
(***************************************************************************)
EXTENDS MaintainedGraph

VARIABLES core,         \* core_; 0 past its end
          region,       \* affected
          degree,       \* degree within the region
          left,         \* vertices of the region not removed yet
          heap,         \* heap; equal pairs are processed once
          level         \* current_core

cores == <<core, region, degree, left, heap, level>>
peeling == <<degree, left, heap, level>>

CoresTypeOK ==
  /\ core \in [Vertex -> Nat]
  /\ region \subseteq Vertex /\ left \subseteq region
  /\ degree \in [Vertex -> Nat]
  /\ heap \subseteq Nat \X Vertex
  /\ level \in Nat

NoDegree == [v \in Vertex |-> 0]

InitCores ==
  /\ core = [v \in Vertex |-> 0]
  /\ region = {} /\ left = {} /\ heap = {} /\ level = 0
  /\ degree = NoDegree

-----------------------------------------------------------------------------
(* mark_component of every end of an update: traversals that stop at       *)
(* marked vertices, so that one goes on where an earlier one has not been. *)
MarkEnds(b, n, marked) ==
  LET ends == {v \in UNION {{b[i].src, b[i].dst} : i \in DOMAIN b} : v < n}
  IN  marked \cup Reach(ends \ marked, Vertex \ marked)

(* recompute_region: the degrees, and the heap they are pushed into. *)
StartPeeling(affected) ==
  LET deg == [v \in Vertex |-> IF v \in affected THEN Cardinality(Neighbors(v) \cap affected) ELSE 0]
  IN  /\ region' = affected
      /\ degree' = deg
      /\ left' = affected
      /\ heap' = {<<deg[v], v>> : v \in affected}
      /\ core' = [v \in Vertex |-> IF v \in affected THEN 0 ELSE core[v]]
      /\ level' = 0
      /\ phase' = "peel"

BeginCores ==
  /\ phase = "idle"
  /\ region' = MarkEnds(batch, vertexCount, {})
  /\ phase' = "cores"
  /\ UNCHANGED <<graph, call, core, peeling>>

(* Mutant: only the components before the update are repaired. *)
PeelCoresBefore ==
  /\ Updated("cores")
  /\ StartPeeling(region)
  /\ UNCHANGED <<graph, call>>

PeelCores ==
  /\ Updated("cores")
  /\ StartPeeling(MarkEnds(batch, vertexCount, region))
  /\ UNCHANGED <<graph, call>>

RecomputeCores ==
  /\ phase = "idle"
  /\ StartPeeling(0 .. vertexCount - 1)
  /\ UNCHANGED <<graph, call>>

(* The smallest pair; a removed vertex or an outdated degree is skipped.   *)
Peel ==
  /\ phase = "peel"
  /\ \E item \in heap :
       /\ \A j \in heap : item[1] < j[1] \/ (item[1] = j[1] /\ item[2] <= j[2])
       /\ LET u     == item[2]
              fresh == u \in left /\ item[1] = degree[u]
              near  == IF fresh THEN (left \ {u}) \cap Neighbors(u) ELSE {}
              deg   == [v \in Vertex |-> IF v \in near /\ degree[v] # 0 THEN degree[v] - 1
                                        ELSE degree[v]]
              up    == IF level < item[1] THEN item[1] ELSE level
          IN  /\ degree' = deg
              /\ heap' = (heap \ {item}) \cup {<<deg[v], v>> : v \in near}
              /\ left' = IF fresh THEN left \ {u} ELSE left
              /\ level' = IF fresh THEN up ELSE level
              /\ core' = IF fresh THEN [core EXCEPT ![u] = up] ELSE core
  /\ UNCHANGED <<graph, call, phase, region>>

EndCores ==
  /\ phase = "peel" /\ heap = {}
  /\ Return
  /\ region' = {} /\ degree' = NoDegree /\ level' = 0
  /\ UNCHANGED <<graph, batch, core, left, heap>>

-----------------------------------------------------------------------------
(* core[v] is the largest k such that v lies in a set of vertices with k   *)
(* neighbours each inside the set, for repaired and kept vertices alike.   *)
CoresExact ==
  \A v \in 0 .. vertexCount - 1 :
    core[v] = Max({Min({Cardinality(Neighbors(w) \cap S) : w \in S}) :
                     S \in {T \in SUBSET Vertex : v \in T}})
=============================================================================
