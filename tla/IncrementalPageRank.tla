------------------------- MODULE IncrementalPageRank -------------------------
(***************************************************************************)
(* BasicIncrementalPageRank: a batch either makes the full solution start  *)
(* over or activates the vertices whose rank it may change, which are then *)
(* evaluated in rounds.  Ranks are abstracted to which of them are up to   *)
(* date within the tolerance; whether an evaluation moves a rank further   *)
(* than that is free, and a full solution converges (damping below 1).     *)
(***************************************************************************)
EXTENDS MaintainedGraph

CONSTANTS Fractions,     \* full_fallback_fraction, as pairs
          Rounds         \* local_iterations

ASSUME RankConstants ==
  /\ Fractions \subseteq Nat \X (Nat \ {0})
  /\ Rounds \in Nat

VARIABLES ranked,        \* rank_.size()
          dangling,      \* dangling_vertices_
          active, ever,  \* active and ever_active
          round, limit,  \* it and fallback_limit
          before,        \* history: the arcs and the vertex count apply() found
                         \* before it updated the graph
          stale,         \* history: vertices whose equation changed, or whose
                         \* in-neighbour moved, after they were evaluated last
          loose          \* history: vertices left active when the rounds ran out

ranks == <<ranked, dangling, active, ever, round, limit, before, stale, loose>>

Present == 0 .. vertexCount - 1

Dangling == {v \in Present : Neighbors(v) = {}}

(* What the equation of v depends on in a graph of n vertices, other ranks *)
(* apart: how many vertices there are, which of them dangle, and the       *)
(* in-neighbours of v with their degrees.                                  *)
Row(arcs, u) == {w \in Vertex : <<u, w>> \in arcs}

Equation(arcs, n, v) ==
  [count |-> n, idle |-> {u \in 0 .. n - 1 : Row(arcs, u) = {}},
   from |-> {<<u, Cardinality(Row(arcs, u))>> : u \in {x \in 0 .. n - 1 : <<x, v>> \in arcs}}]

(* The vertices that the batch gives another equation. *)
Moved ==
  {v \in Present : Equation(edges, vertexCount, v) # Equation(before.arcs, before.count, v)}

RanksTypeOK ==
  /\ ranked \in 0 .. MaxVertices /\ dangling \in 0 .. MaxVertices
  /\ active \subseteq ever /\ ever \subseteq Vertex
  /\ round \in 0 .. Rounds /\ limit \in Nat
  /\ before \in [arcs : SUBSET Arc, count : 0 .. MaxVertices]
  /\ stale \subseteq Vertex /\ loose \subseteq Vertex

NoGraph == [arcs |-> {}, count |-> 0]

InitRanks ==
  /\ ranked = vertexCount /\ dangling = vertexCount
  /\ active = {} /\ ever = {} /\ round = 0 /\ limit = 0
  /\ before = NoGraph
  /\ stale = {} /\ loose = {}

-----------------------------------------------------------------------------
LeaveRanks == Return /\ active' = {} /\ ever' = {} /\ round' = 0 /\ limit' = 0

(* full_solve, and what recompute() stores of it. *)
Solve ==
  /\ LeaveRanks
  /\ ranked' = vertexCount
  /\ dangling' = Cardinality(Dangling)
  /\ before' = NoGraph /\ stale' = {} /\ loose' = {}
  /\ UNCHANGED <<graph, batch>>

BeginRanks ==
  /\ phase = "idle"
  /\ phase' = "ranks"
  /\ before' = [arcs |-> edges, count |-> vertexCount]
  /\ UNCHANGED <<graph, call, ranked, dangling, active, ever, round, limit, stale, loose>>

UpdateRanked == UpdateGraph("ranks") /\ UNCHANGED ranks

Sources == {op.src : op \in ToSet(batch)} \cup
           (IF directed THEN {} ELSE {op.dst : op \in ToSet(batch)})

(* Teleportation or dangling mass changes everywhere.  rank_.size() and    *)
(* dangling_vertices_ are still those of before the batch.                 *)
Global == vertexCount # ranked \/ dangling # 0 \/ Sources \cap Dangling # {}

(* Mutant: the other targets of a source whose degree changed are left out. *)
ActivatedEnds == Present \cap UNION {{op.src, op.dst} : op \in ToSet(batch)}

Activated ==
  Present \cap UNION ({{op.src, op.dst} : op \in ToSet(batch)} \cup {Neighbors(u) : u \in Sources})

LimitFor(f) == Max({1, (f[1] * vertexCount) \div f[2]})

SolveAfresh ==
  /\ Updated("ranks")
  /\ Global \/ \E f \in Fractions : Cardinality(Activated) >= LimitFor(f)
  /\ Solve

StartRounds ==
  /\ Updated("ranks") /\ ~Global
  /\ \E f \in Fractions : Cardinality(Activated) < LimitFor(f) /\ limit' = LimitFor(f)
  /\ dangling' = 0
  /\ active' = Activated /\ ever' = Activated
  /\ stale' = stale \cup Moved
  /\ before' = NoGraph
  /\ phase' = "rounds"
  /\ UNCHANGED <<graph, call, ranked, round, loose>>

(* One round: all active vertices from the old ranks; the targets of those *)
(* that moved are active next.                                             *)
Round ==
  /\ phase = "rounds" /\ active # {} /\ round < Rounds
  /\ \E moved \in SUBSET active :
       LET woken == UNION {Neighbors(v) : v \in moved}
       IN  IF Cardinality(ever \cup woken) >= limit THEN Solve
           ELSE /\ active' = woken /\ ever' = ever \cup woken
                /\ round' = round + 1
                /\ stale' = (stale \ active) \cup woken
                /\ UNCHANGED <<graph, call, phase, ranked, dangling, limit, before, loose>>

EndRounds ==
  /\ phase = "rounds" /\ (active = {} \/ round = Rounds)
  /\ LeaveRanks
  /\ loose' = loose \cup active
  /\ UNCHANGED <<graph, batch, ranked, dangling, before, stale>>

(* Also the last step of apply_validated(), when the error is too large.   *)
RecomputeRanks == phase = "idle" /\ Solve

-----------------------------------------------------------------------------
(* A rank that the graph or a neighbour has outdated was evaluated again,  *)
(* unless a repair since the last full solution ran out of rounds there;   *)
(* and the dangling vertices, which decide on local repair, are counted.   *)
RanksFresh ==
  /\ ranked = vertexCount /\ dangling = Cardinality(Dangling)
  /\ stale \subseteq loose
=============================================================================
