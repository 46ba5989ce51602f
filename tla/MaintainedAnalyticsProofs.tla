------------------------ MODULE MaintainedAnalyticsProofs ------------------------
(***************************************************************************)
(* Proofs about MaintainedAnalytics: what every analytic relies on, the    *)
(* shortest paths, unit and weighted, the union-find forest and the        *)
(* components, the ranks, the cores, the triangles, and the types of all.  *)
(***************************************************************************)
EXTENDS MaintainedAnalytics, FiniteSetTheorems, FunctionTheorems, SequenceTheorems,
        WellFoundedInduction, TLAPS

(* The phases of apply() during which the batch goes into the graph, and   *)
(* those that follow.                                                      *)
Before == {"components", "triangles", "cores", "paths", "weighted", "ranks"}
After == {"rebuild", "peel", "relax", "reweigh", "propagate", "rounds"}

(* A phase belongs to an analytic that is attached. *)
Owned(p) ==
  /\ p \in {"components", "rebuild"} => "components" \in attached
  /\ p = "triangles" => "triangles" \in attached
  /\ p \in {"cores", "peel"} => "cores" \in attached
  /\ p \in {"paths", "relax"} => "paths" \in attached
  /\ p \in {"weighted", "reweigh"} => "weighted" \in attached
  /\ p = "propagate" => "paths" \in attached \/ "weighted" \in attached
  /\ p \in {"ranks", "rounds"} => "ranks" \in attached

UnitOp == {op \in WeightedOp : op.weight = 1}

(* An undirected edge is two arcs of one weight. *)
Mirrored ==
  \A u, v \in Vertex :
    <<u, v>> \in edges => <<v, u>> \in edges /\ weight[<<v, u>>] = weight[<<u, v>>]

NoLoops == \A u, v \in Vertex : <<u, v>> \in edges => u # v

EndsCounted == \A u, v \in Vertex : <<u, v>> \in edges => u < vertexCount /\ v < vertexCount

Base ==
  /\ directed \in BOOLEAN
  /\ edges \subseteq Arc /\ NoLoops /\ EndsCounted
  /\ weight \in [Arc -> Nat]
  /\ vertexCount \in 0 .. MaxVertices /\ Source < vertexCount
  /\ batch \in Seq(WeightedOp) /\ next \in 1 .. Len(batch) + 1
  /\ attached \in Attachments /\ todo \subseteq attached
  /\ phase \in {"idle"} \cup Before \cup After
  /\ phase = "idle" => next = 1
  /\ Owned(phase)
  /\ attached \cap Undirected # {} => ~directed
  /\ attached # {"weighted"} => weight = [a \in Arc |-> 1] /\ batch \in Seq(UnitOp)
  /\ ~directed => Mirrored

-----------------------------------------------------------------------------
(* Every step, with what it leaves alone. *)
Takes(a) == a \in todo /\ todo' = todo \ {a} /\ attached' = attached

GivesBatch ==
  \E b \in Batches \cup WeightedBatches \cup RankedBatches :
    /\ NewBatch(b) /\ UNCHANGED results
    /\ attached # {"weighted"} => b \in Batches \cup RankedBatches

ComponentsStep ==
  /\ UNCHANGED <<triangles, cores, paths, restart, ranks>>
  /\ \/ Takes("components") /\ BeginComponents
     \/ /\ UNCHANGED caller
        /\ \/ UpdateGraph("components") /\ UNCHANGED components
           \/ TakeApart \/ Rebuild \/ Replay \/ EndComponents
           \/ "components" \in attached /\ todo = {} /\ \E v \in Vertex : QueryComponent(v)

TrianglesStep ==
  /\ UNCHANGED <<components, cores, paths, restart, ranks>>
  /\ \/ Takes("triangles") /\ BeginTriangles
     \/ /\ UNCHANGED caller
        /\ \/ CountUpdate \/ EndTriangles
           \/ "triangles" \in attached /\ todo = {} /\ RecomputeTriangles

CoresStep ==
  /\ UNCHANGED <<components, triangles, paths, restart, ranks>>
  /\ \/ Takes("cores") /\ BeginCores
     \/ /\ UNCHANGED caller
        /\ \/ UpdateGraph("cores") /\ UNCHANGED cores
           \/ PeelCores \/ Peel \/ EndCores
           \/ "cores" \in attached /\ todo = {} /\ RecomputeCores

RanksStep ==
  /\ UNCHANGED others
  /\ \/ Takes("ranks") /\ BeginRanks
     \/ /\ UNCHANGED caller
        /\ \/ UpdateRanked \/ SolveAfresh \/ StartRounds \/ Round \/ EndRounds
           \/ "ranks" \in attached /\ todo = {} /\ RecomputeRanks

PathsStep ==
  /\ UNCHANGED <<components, triangles, cores, ranks>>
  /\ \/ Takes("paths") /\ BeginPaths /\ UNCHANGED restart
     \/ Takes("weighted") /\ (BeginWeighted \/ RejectWeighted)
     \/ /\ UNCHANGED caller
        /\ \/ (UpdateGraph("paths") \/ UpdateGraph("weighted")) /\ UNCHANGED <<paths, restart>>
           \/ /\ UNCHANGED restart
              /\ \/ RestartPaths \/ RelaxPaths \/ RelaxUpdate
                 \/ EndRelaxing("relax") \/ EndRelaxing("reweigh")
                 \/ Propagate \/ EndPaths
                 \/ {"paths", "weighted"} \cap attached # {} /\ todo = {} /\ RecomputePaths
           \/ RestartWeighted \/ RelaxWeighted \/ RelaxKept \/ PassOver

LEMMA StepCases ==
  ASSUME [Next]_vars
  PROVE  \/ UNCHANGED vars
         \/ GivesBatch
         \/ ComponentsStep \/ TrianglesStep \/ CoresStep \/ RanksStep \/ PathsStep
<1>1. CASE UNCHANGED vars
  BY <1>1
<1>2. ASSUME NEW b, NewBatch(b), \/ attached \notin {{"weighted"}, {"ranks"}} /\ b \in Batches
                                 \/ attached = {"weighted"} /\ b \in WeightedBatches
                                 \/ attached = {"ranks"} /\ b \in RankedBatches
      PROVE GivesBatch
  BY <1>2, Zenon DEF GivesBatch, NewBatch
<1>3. ASSUME NEW a \in attached, Begin(a)
      PROVE ComponentsStep \/ TrianglesStep \/ CoresStep \/ RanksStep \/ PathsStep
  <2>1. Takes(a)
    BY <1>3 DEF Begin, Takes
  <2>2. CASE a = "ranks" /\ BeginRanks /\ UNCHANGED others
    BY <2>1, <2>2 DEF RanksStep
  <2>3. CASE UNCHANGED ranks /\ a = "components" /\ BeginComponents /\ UNCHANGED <<triangles, cores, paths, restart>>
    BY <2>1, <2>3 DEF ComponentsStep
  <2>4. CASE UNCHANGED ranks /\ a = "triangles" /\ BeginTriangles /\ UNCHANGED <<components, cores, paths, restart>>
    BY <2>1, <2>4 DEF TrianglesStep
  <2>5. CASE UNCHANGED ranks /\ a = "cores" /\ BeginCores /\ UNCHANGED <<components, triangles, paths, restart>>
    BY <2>1, <2>5 DEF CoresStep
  <2>6. CASE UNCHANGED ranks /\ a = "paths" /\ BeginPaths /\ UNCHANGED <<components, triangles, cores, restart>>
    BY <2>1, <2>6 DEF PathsStep
  <2>7. CASE UNCHANGED ranks /\ a = "weighted" /\ (BeginWeighted \/ RejectWeighted)
             /\ UNCHANGED <<components, triangles, cores>>
    BY <2>1, <2>7 DEF PathsStep
  <2>. QED  BY <1>3, <2>2, <2>3, <2>4, <2>5, <2>6, <2>7 DEF Begin
<1>4. ASSUME Step PROVE ComponentsStep \/ TrianglesStep \/ CoresStep \/ RanksStep \/ PathsStep
  <2>1. CASE (UpdateRanked \/ SolveAfresh \/ StartRounds \/ Round \/ EndRounds) /\ UNCHANGED others
    BY <1>4, <2>1, Zenon DEF Step, RanksStep
  <2>2. ASSUME NEW a \in {"components", "cores", "paths", "weighted"}, UpdateGraph(a), UNCHANGED others, UNCHANGED ranks
        PROVE ComponentsStep \/ CoresStep \/ PathsStep
    <3>1. UNCHANGED caller
      BY <1>4 DEF Step
    <3>2. UNCHANGED <<components, triangles, cores, paths, restart>>
      BY <2>2, Zenon DEF others
    <3>3. a = "components" \/ a = "cores" \/ a = "paths" \/ a = "weighted"
      BY <2>2
    <3>4. CASE a = "components"
      BY <2>2, <3>1, <3>2, <3>4, Zenon DEF ComponentsStep
    <3>5. CASE a = "cores"
      BY <2>2, <3>1, <3>2, <3>5, Zenon DEF CoresStep
    <3>6. CASE a = "paths" \/ a = "weighted"
      BY <2>2, <3>1, <3>2, <3>6, Zenon DEF PathsStep
    <3>. QED  BY <3>3, <3>4, <3>5, <3>6
  <2>3. CASE UNCHANGED ranks /\ (TakeApart \/ Rebuild \/ Replay \/ EndComponents) /\ UNCHANGED <<triangles, cores, paths, restart>>
    BY <1>4, <2>3, Zenon DEF Step, ComponentsStep
  <2>4. CASE UNCHANGED ranks /\ (CountUpdate \/ EndTriangles) /\ UNCHANGED <<components, cores, paths, restart>>
    BY <1>4, <2>4, Zenon DEF Step, TrianglesStep
  <2>5. CASE UNCHANGED ranks /\ (PeelCores \/ Peel \/ EndCores) /\ UNCHANGED <<components, triangles, paths, restart>>
    BY <1>4, <2>5, Zenon DEF Step, CoresStep
  <2>6. CASE /\ UNCHANGED ranks
             /\ \/ RestartPaths \/ RelaxPaths \/ RelaxUpdate
                \/ EndRelaxing("relax") \/ EndRelaxing("reweigh")
                \/ Propagate \/ EndPaths
             /\ UNCHANGED <<components, triangles, cores, restart>>
    BY <1>4, <2>6, Zenon DEF Step, PathsStep
  <2>7. CASE UNCHANGED ranks /\ (RestartWeighted \/ RelaxWeighted \/ RelaxKept \/ PassOver)
             /\ UNCHANGED <<components, triangles, cores>>
    BY <1>4, <2>7, Zenon DEF Step, PathsStep
  <2>. QED  BY <1>4, <2>1, <2>2, <2>3, <2>4, <2>5, <2>6, <2>7, Zenon DEF Step
<1>5. ASSUME Between PROVE ComponentsStep \/ TrianglesStep \/ CoresStep \/ RanksStep \/ PathsStep
  <2>1. todo = {} /\ UNCHANGED caller /\ UNCHANGED restart
    BY <1>5 DEF Between
  <2>2. CASE "ranks" \in attached /\ RecomputeRanks /\ UNCHANGED others
    BY <2>1, <2>2, Zenon DEF RanksStep
  <2>3. CASE UNCHANGED ranks /\ "components" \in attached /\ (\E v \in Vertex : QueryComponent(v))
             /\ UNCHANGED <<triangles, cores, paths>>
    BY <2>1, <2>3, Zenon DEF ComponentsStep
  <2>4. CASE UNCHANGED ranks /\ "triangles" \in attached /\ RecomputeTriangles /\ UNCHANGED <<components, cores, paths>>
    BY <2>1, <2>4, Zenon DEF TrianglesStep
  <2>5. CASE UNCHANGED ranks /\ "cores" \in attached /\ RecomputeCores /\ UNCHANGED <<components, triangles, paths>>
    BY <2>1, <2>5, Zenon DEF CoresStep
  <2>6. CASE UNCHANGED ranks /\ {"paths", "weighted"} \cap attached # {} /\ RecomputePaths
             /\ UNCHANGED <<components, triangles, cores>>
    BY <2>1, <2>6, Zenon DEF PathsStep
  <2>. QED  BY <1>5, <2>2, <2>3, <2>4, <2>5, <2>6, Zenon DEF Between
<1>. QED  BY <1>1, <1>2, <1>3, <1>4, <1>5, Zenon DEF Next

-----------------------------------------------------------------------------
(* The arcs an update writes, and the vertices it counts.                  *)
LEMMA OpFacts ==
  ASSUME NEW op \in WeightedOp, NEW dir \in BOOLEAN
  PROVE  /\ op.src \in Vertex /\ op.dst \in Vertex /\ op.add \in BOOLEAN /\ op.weight \in Nat
         /\ ArcsOf(dir, op) \subseteq Arc
         /\ \A u, v : <<u, v>> \in ArcsOf(dir, op) => u # v
         /\ \A u, v : ~dir /\ <<u, v>> \in ArcsOf(dir, op) => <<v, u>> \in ArcsOf(dir, op)
         /\ \A u, v : <<u, v>> \in ArcsOf(dir, op) => u \in {op.src, op.dst} /\ v \in {op.src, op.dst}
<1>1. op.src \in Vertex /\ op.dst \in Vertex /\ op.add \in BOOLEAN /\ op.weight \in Nat
  BY MaintainedConstants DEF WeightedOp
<1>2. ASSUME NEW a \in ArcsOf(dir, op)
      PROVE  /\ op.src # op.dst
             /\ a = <<op.src, op.dst>> \/ (~dir /\ a = <<op.dst, op.src>>)
  BY DEF ArcsOf
<1>3. op.src # op.dst => <<op.src, op.dst>> \in ArcsOf(dir, op)
                         /\ (~dir => <<op.dst, op.src>> \in ArcsOf(dir, op))
  BY DEF ArcsOf
<1>4. ASSUME NEW u, NEW v, <<u, v>> \in ArcsOf(dir, op)
      PROVE  /\ op.src # op.dst
             /\ (u = op.src /\ v = op.dst) \/ (~dir /\ u = op.dst /\ v = op.src)
  BY <1>2, <1>4
<1>5. ArcsOf(dir, op) \subseteq Arc
  BY <1>1, <1>2 DEF Arc
<1>6. \A u, v : <<u, v>> \in ArcsOf(dir, op) => u # v
  BY <1>4
<1>7. \A u, v : ~dir /\ <<u, v>> \in ArcsOf(dir, op) => <<v, u>> \in ArcsOf(dir, op)
  BY <1>3, <1>4
<1>8. \A u, v : <<u, v>> \in ArcsOf(dir, op) => u \in {op.src, op.dst} /\ v \in {op.src, op.dst}
  BY <1>4
<1>. QED  BY <1>1, <1>5, <1>6, <1>7, <1>8

LEMMA CountFacts ==
  ASSUME NEW n \in 0 .. MaxVertices, NEW op \in WeightedOp
  PROVE  /\ CountAfter(n, op) \in 0 .. MaxVertices /\ n <= CountAfter(n, op)
         /\ op.src # op.dst => op.src < CountAfter(n, op) /\ op.dst < CountAfter(n, op)
<1>. DEFINE C == {n, op.src + 1, op.dst + 1}
            Good(m) == n <= m /\ op.src < m /\ op.dst < m
<1>1. MaxVertices \in Nat /\ op.src \in Vertex /\ op.dst \in Vertex
  BY MaintainedConstants DEF WeightedOp
<1>2. C \subseteq 0 .. MaxVertices
  BY <1>1 DEF Vertex
<1>3. \E m \in C : Good(m)
  <2>1. n \in Int /\ op.src \in Int /\ op.dst \in Int
    BY <1>1 DEF Vertex
  <2>2. CASE n <= op.src + 1 /\ op.dst <= op.src
    <3>1. Good(op.src + 1)
      BY <2>1, <2>2
    <3>. QED  BY <3>1
  <2>3. CASE n <= op.dst + 1 /\ op.src <= op.dst
    <3>1. Good(op.dst + 1)
      BY <2>1, <2>3
    <3>. QED  BY <3>1
  <2>4. CASE op.src < n /\ op.dst < n
    <3>1. Good(n)
      BY <2>1, <2>4
    <3>. QED  BY <3>1
  <2>. QED  BY <2>1, <2>2, <2>3, <2>4
<1>4. (CHOOSE m \in C : Good(m)) \in C /\ Good(CHOOSE m \in C : Good(m))
  <2>. HIDE DEF C, Good
  <2>. QED  BY <1>3
<1>5. CountAfter(n, op) = IF op.src = op.dst THEN n ELSE CHOOSE m \in C : Good(m)
  BY DEF CountAfter
<1>6. n <= n
  OBVIOUS
<1>. QED  BY <1>2, <1>4, <1>5, <1>6

(* What one update does to an arc. *)
LEMMA UpdateEffect ==
  ASSUME Base, NEW during, UpdateGraph(during)
  PROVE  /\ next <= Len(batch) /\ batch[next] \in WeightedOp
         /\ \A a \in Arc : a \in ArcsOf(directed, batch[next]) =>
              /\ a \in edges' <=> batch[next].add
              /\ weight'[a] = IF batch[next].add THEN batch[next].weight ELSE 1
         /\ \A a \in Arc : a \notin ArcsOf(directed, batch[next]) =>
              (a \in edges' <=> a \in edges) /\ weight'[a] = weight[a]
<1>1. next <= Len(batch) /\ batch[next] \in WeightedOp
  BY DEF Base, UpdateGraph
<1>2. ASSUME NEW a \in Arc
      PROVE  weight'[a] = IF a \notin ArcsOf(directed, batch[next]) THEN weight[a]
                          ELSE IF batch[next].add THEN batch[next].weight ELSE 1
  BY DEF UpdateGraph
<1>3. ASSUME NEW a
      PROVE  a \in edges' <=> IF a \in ArcsOf(directed, batch[next]) THEN batch[next].add ELSE a \in edges
  BY DEF UpdateGraph, AfterOp
<1>. QED  BY <1>1, <1>2, <1>3

LEMMA UpdateBase ==
  ASSUME Base, NEW during \in Before, UpdateGraph(during), UNCHANGED caller
  PROVE  Base'
<1>. DEFINE op == batch[next]
<1>1. UNCHANGED <<directed, phase, batch, attached, todo>> /\ next' = next + 1
      /\ vertexCount' = CountAfter(vertexCount, op) /\ next <= Len(batch) /\ phase # "idle"
      /\ weight' = [a \in Arc |-> IF a \notin ArcsOf(directed, op) THEN weight[a]
                                  ELSE IF op.add THEN op.weight ELSE 1]
  BY DEF UpdateGraph, caller, Before
<1>2. op \in WeightedOp /\ directed \in BOOLEAN
  BY <1>1, UpdateEffect DEF Base
<1>3. vertexCount' \in 0 .. MaxVertices /\ vertexCount <= vertexCount'
      /\ (op.src # op.dst => op.src < vertexCount' /\ op.dst < vertexCount')
  BY <1>1, <1>2, CountFacts DEF Base
<1>4. \A a : a \in edges' <=> IF a \in ArcsOf(directed, op) THEN op.add ELSE a \in edges
  BY DEF UpdateGraph, AfterOp
<1>5. /\ op.src \in Vertex /\ op.dst \in Vertex /\ op.add \in BOOLEAN /\ op.weight \in Nat
      /\ ArcsOf(directed, op) \subseteq Arc
      /\ \A u, v : <<u, v>> \in ArcsOf(directed, op) => u # v
      /\ \A u, v : ~directed /\ <<u, v>> \in ArcsOf(directed, op) => <<v, u>> \in ArcsOf(directed, op)
      /\ \A u, v : <<u, v>> \in ArcsOf(directed, op) => u \in {op.src, op.dst} /\ v \in {op.src, op.dst}
  BY <1>2, OpFacts
<1>6. edges' \subseteq Arc
  BY <1>4, <1>5 DEF Base
<1>7. weight' \in [Arc -> Nat]
  BY <1>1, <1>5 DEF Base
<1>8. NoLoops'
  BY <1>4, <1>5 DEF Base, NoLoops
<1>9. EndsCounted'
  <2>. SUFFICES ASSUME NEW u \in Vertex, NEW v \in Vertex, <<u, v>> \in edges'
                PROVE  u < vertexCount' /\ v < vertexCount'
    BY DEF EndsCounted
  <2>1. CASE <<u, v>> \in ArcsOf(directed, op)
    BY <2>1, <1>3, <1>5
  <2>2. CASE <<u, v>> \notin ArcsOf(directed, op)
    <3>1. u < vertexCount /\ v < vertexCount
      BY <2>2, <1>4 DEF Base, EndsCounted
    <3>2. u \in Int /\ v \in Int /\ vertexCount \in Int /\ vertexCount' \in Int
      BY <1>3 DEF Base, Vertex
    <3>. QED  BY <3>1, <3>2, <1>3
  <2>. QED  BY <2>1, <2>2
<1>10. ~directed => Mirrored'
  <2>. SUFFICES ASSUME ~directed, NEW u \in Vertex, NEW v \in Vertex, <<u, v>> \in edges'
                PROVE  <<v, u>> \in edges' /\ weight'[<<v, u>>] = weight'[<<u, v>>]
    BY DEF Mirrored
  <2>1. <<u, v>> \in Arc /\ <<v, u>> \in Arc
    BY DEF Arc
  <2>2. <<u, v>> \in ArcsOf(directed, op) <=> <<v, u>> \in ArcsOf(directed, op)
    BY <1>5
  <2>3. CASE <<u, v>> \in ArcsOf(directed, op)
    BY <2>1, <2>2, <2>3, <1>1, <1>4
  <2>4. CASE <<u, v>> \notin ArcsOf(directed, op)
    <3>1. <<u, v>> \in edges
      BY <2>4, <1>4
    <3>2. <<v, u>> \in edges /\ weight[<<v, u>>] = weight[<<u, v>>]
      BY <3>1 DEF Base, Mirrored
    <3>. QED  BY <2>1, <2>2, <2>4, <3>2, <1>1, <1>4
  <2>. QED  BY <2>3, <2>4
<1>11. attached # {"weighted"} => weight' = [a \in Arc |-> 1] /\ batch \in Seq(UnitOp)
  <2>. SUFFICES ASSUME attached # {"weighted"}
                PROVE  weight' = [a \in Arc |-> 1] /\ batch \in Seq(UnitOp)
    OBVIOUS
  <2>1. weight = [a \in Arc |-> 1] /\ batch \in Seq(UnitOp)
    BY DEF Base
  <2>2. op.weight = 1
    <3>1. next \in 1 .. Len(batch)
      BY <1>1 DEF Base
    <3>2. op \in UnitOp
      BY <2>1, <3>1
    <3>. QED  BY <3>2 DEF UnitOp
  <2>. QED  BY <1>1, <2>1, <2>2
<1>12. Source < vertexCount'
  <2>1. Source \in Int /\ vertexCount \in Int /\ vertexCount' \in Int /\ Source < vertexCount
    BY <1>3, MaintainedConstants DEF Base, Vertex
  <2>. QED  BY <2>1, <1>3
<1>13. next' \in 1 .. Len(batch) + 1
  BY <1>1 DEF Base
<1>14. Owned(phase)' /\ phase' # "idle"
  BY <1>1 DEF Base, Owned
<1>. QED  BY <1>1, <1>3, <1>6, <1>7, <1>8, <1>9, <1>10, <1>11, <1>12, <1>13, <1>14 DEF Base

(* Steps that leave the graph and the batch alone. *)
LEMMA QuietBase ==
  ASSUME Base, UNCHANGED <<graph, batch, attached>>, todo' \subseteq todo,
         phase' \in {"idle"} \cup Before \cup After, next' \in 1 .. Len(batch) + 1,
         phase' = "idle" => next' = 1, Owned(phase)'
  PROVE  Base'
BY DEF Base, graph, NoLoops, EndsCounted, Mirrored

LEMMA BatchBase ==
  ASSUME Base, GivesBatch
  PROVE  /\ Base' /\ phase = "idle" /\ phase' = "idle" /\ todo = {} /\ todo' = attached
         /\ UNCHANGED <<graph, next, attached>> /\ batch' \in Seq(WeightedOp)
<1>1. PICK b \in Batches \cup WeightedBatches \cup RankedBatches :
         NewBatch(b) /\ (attached # {"weighted"} => b \in Batches \cup RankedBatches)
  BY DEF GivesBatch
<1>2. batch' = b /\ phase = "idle" /\ phase' = "idle" /\ next' = next /\ todo = {} /\ todo' = attached
      /\ UNCHANGED <<graph, attached>>
  BY <1>1 DEF NewBatch
<1>3. b \in Seq(WeightedOp) /\ (attached # {"weighted"} => b \in Seq(UnitOp))
  BY <1>1, MaintainedConstants, AttachmentConstants DEF UnitOp
<1>4. next = 1 /\ next' \in 1 .. Len(batch') + 1
  BY <1>2, <1>3 DEF Base
<1>5. Owned(phase)' /\ todo' \subseteq attached'
  BY <1>2 DEF Owned
<1>6. UNCHANGED <<directed, edges, weight, vertexCount>>
  BY <1>2 DEF graph
<1>7. Base'
  BY <1>2, <1>3, <1>4, <1>5, <1>6 DEF Base, NoLoops, EndsCounted, Mirrored
<1>. QED  BY <1>2, <1>3, <1>7

LEMMA ReturnBase ==
  ASSUME Base, UNCHANGED <<graph, batch, attached, todo>>, phase' = "idle", next' = 1
  PROVE  Base'
<1>1. Owned(phase)' /\ 1 \in 1 .. Len(batch) + 1
  BY DEF Owned, Base
<1>. QED  BY <1>1, QuietBase DEF Base

(* What is to be shown of the steps of one analytic. *)
LEMMA BeginBase ==
  ASSUME Base, NEW a \in {"components", "triangles", "cores", "paths", "weighted", "ranks"}, Takes(a),
         phase = "idle", phase' \in {a, "idle"}, UNCHANGED <<graph, call>>
  PROVE  Base'
<1>1. a \in attached /\ attached' = attached /\ todo' \subseteq todo
  BY DEF Takes, Base
<1>2. Owned(phase)'
  BY <1>1 DEF Owned
<1>3. next = 1 /\ next' = next /\ batch' = batch /\ 1 \in 1 .. Len(batch) + 1
  BY DEF Base, call
<1>. QED  BY <1>1, <1>2, <1>3, QuietBase DEF Before

LEMMA ComponentsBase == Base /\ ComponentsStep => Base'
<1>. SUFFICES ASSUME Base, ComponentsStep PROVE Base'
  OBVIOUS
<1>1. CASE Takes("components") /\ BeginComponents
  BY <1>1, BeginBase DEF BeginComponents
<1>2. CASE UNCHANGED caller /\ UpdateGraph("components")
  BY <1>2, UpdateBase DEF Before
<1>3. CASE UNCHANGED caller /\ TakeApart
  <2>1. phase' = "rebuild" /\ next' = 1 /\ UNCHANGED <<graph, batch, attached, todo>> /\ phase = "components"
    BY <1>3 DEF TakeApart, caller, Updated
  <2>2. Owned(phase)' /\ 1 \in 1 .. Len(batch) + 1
    BY <2>1 DEF Owned, Base
  <2>. QED  BY <2>1, <2>2, QuietBase DEF After
<1>4. CASE UNCHANGED caller /\ (Rebuild \/ \E v \in Vertex : QueryComponent(v))
  <2>1. UNCHANGED <<graph, batch, next, phase, attached, todo>>
    BY <1>4 DEF Rebuild, QueryComponent, caller, call
  <2>2. Owned(phase)'
    BY <2>1 DEF Owned, Base
  <2>. QED  BY <2>1, <2>2, QuietBase DEF Base
<1>5. CASE UNCHANGED caller /\ Replay
  <2>1. UNCHANGED <<graph, batch, phase, attached, todo>> /\ next' = next + 1 /\ next <= Len(batch)
        /\ phase = "rebuild"
    BY <1>5 DEF Replay, caller
  <2>2. Owned(phase)' /\ next' \in 1 .. Len(batch) + 1
    BY <2>1 DEF Owned, Base
  <2>. QED  BY <2>1, <2>2, QuietBase DEF Base
<1>6. CASE UNCHANGED caller /\ EndComponents
  BY <1>6, ReturnBase DEF EndComponents, Return, caller
<1>. QED  BY <1>1, <1>2, <1>3, <1>4, <1>5, <1>6 DEF ComponentsStep

LEMMA TrianglesBase == Base /\ TrianglesStep => Base'
<1>. SUFFICES ASSUME Base, TrianglesStep PROVE Base'
  OBVIOUS
<1>1. CASE Takes("triangles") /\ BeginTriangles
  BY <1>1, BeginBase DEF BeginTriangles
<1>2. CASE UNCHANGED caller /\ CountUpdate
  BY <1>2, UpdateBase DEF Before, CountUpdate
<1>3. CASE UNCHANGED caller /\ EndTriangles
  BY <1>3, ReturnBase DEF EndTriangles, Return, caller
<1>4. CASE UNCHANGED caller /\ RecomputeTriangles
  <2>1. UNCHANGED <<graph, batch, next, phase, attached, todo>>
    BY <1>4 DEF RecomputeTriangles, caller, call
  <2>2. Owned(phase)'
    BY <2>1 DEF Owned, Base
  <2>. QED  BY <2>1, <2>2, QuietBase DEF Base
<1>. QED  BY <1>1, <1>2, <1>3, <1>4 DEF TrianglesStep

LEMMA CoresBase == Base /\ CoresStep => Base'
<1>. SUFFICES ASSUME Base, CoresStep PROVE Base'
  OBVIOUS
<1>1. CASE Takes("cores") /\ BeginCores
  BY <1>1, BeginBase DEF BeginCores
<1>2. CASE UNCHANGED caller /\ UpdateGraph("cores")
  BY <1>2, UpdateBase DEF Before
<1>3. CASE UNCHANGED caller /\ (PeelCores \/ Peel \/ ("cores" \in attached /\ RecomputeCores))
  <2>1. UNCHANGED <<graph, batch, next, attached, todo>> /\ phase' = "peel" /\ Owned("peel")
    BY <1>3 DEF PeelCores, Peel, RecomputeCores, StartPeeling, caller, call, Updated, Owned, Base
  <2>2. Owned(phase)'
    BY <2>1 DEF Owned
  <2>. QED  BY <2>1, <2>2, QuietBase DEF Base, After
<1>4. CASE UNCHANGED caller /\ EndCores
  BY <1>4, ReturnBase DEF EndCores, Return, caller
<1>. QED  BY <1>1, <1>2, <1>3, <1>4 DEF CoresStep

LEMMA RanksBase == Base /\ RanksStep => Base'
<1>. SUFFICES ASSUME Base, RanksStep PROVE Base'
  OBVIOUS
<1>1. CASE Takes("ranks") /\ BeginRanks
  BY <1>1, BeginBase DEF BeginRanks
<1>2. CASE UNCHANGED caller /\ UpdateRanked
  BY <1>2, UpdateBase DEF Before, UpdateRanked
<1>3. CASE UNCHANGED caller /\ (SolveAfresh \/ RecomputeRanks \/ EndRounds)
  <2>1. UNCHANGED <<graph, batch, attached, todo>> /\ Return
    BY <1>3 DEF SolveAfresh, RecomputeRanks, EndRounds, Solve, LeaveRanks, caller
  <2>. QED  BY <2>1, ReturnBase DEF Return
<1>4. CASE UNCHANGED caller /\ StartRounds
  <2>1. UNCHANGED <<graph, batch, next, attached, todo>> /\ phase' = "rounds" /\ phase = "ranks"
    BY <1>4 DEF StartRounds, caller, call, Updated
  <2>2. Owned(phase)'
    BY <2>1 DEF Owned, Base
  <2>. QED  BY <2>1, <2>2, QuietBase DEF Base, After
<1>5. CASE UNCHANGED caller /\ Round
  <2>1. PICK moved \in SUBSET active :
          LET woken == UNION {Neighbors(v) : v \in moved}
          IN  IF Cardinality(ever \cup woken) >= limit THEN Solve
              ELSE UNCHANGED <<graph, call, phase>>
    BY <1>5 DEF Round
  <2>2. CASE Solve
    <3>1. UNCHANGED <<graph, batch, attached, todo>> /\ Return
      BY <1>5, <2>2 DEF Solve, LeaveRanks, caller
    <3>. QED  BY <3>1, ReturnBase DEF Return
  <2>3. CASE UNCHANGED <<graph, call, phase>>
    <3>1. UNCHANGED <<graph, batch, next, phase, attached, todo>>
      BY <1>5, <2>3 DEF caller, call
    <3>2. Owned(phase)'
      BY <3>1 DEF Owned, Base
    <3>. QED  BY <3>1, <3>2, QuietBase DEF Base
  <2>. QED  BY <2>1, <2>2, <2>3
<1>. QED  BY <1>1, <1>2, <1>3, <1>4, <1>5 DEF RanksStep

LEMMA PathsBase == Base /\ PathsStep => Base'
<1>. SUFFICES ASSUME Base, PathsStep PROVE Base'
  OBVIOUS
<1>1. CASE Takes("paths") /\ BeginPaths
  BY <1>1, BeginBase DEF BeginPaths
<1>2. CASE Takes("weighted") /\ (BeginWeighted \/ RejectWeighted)
  BY <1>2, BeginBase DEF BeginWeighted, RejectWeighted
<1>3. CASE UNCHANGED caller /\ (UpdateGraph("paths") \/ UpdateGraph("weighted"))
  BY <1>3, UpdateBase DEF Before
<1>4. CASE UNCHANGED caller /\ (RestartPaths \/ RestartWeighted
                                \/ ({"paths", "weighted"} \cap attached # {} /\ RecomputePaths)
                                \/ EndRelaxing("relax") \/ EndRelaxing("reweigh") \/ Propagate)
  <2>1. UNCHANGED <<graph, batch, next, attached, todo>> /\ phase' = "propagate"
    BY <1>4 DEF RestartPaths, RestartWeighted, RecomputePaths, StartOver, EndRelaxing, Propagate, caller, call
  <2>2. Owned("propagate")
    BY <1>4 DEF RestartPaths, RestartWeighted, EndRelaxing, Propagate, Updated, Owned, Base
  <2>3. Owned(phase)'
    BY <2>1, <2>2 DEF Owned
  <2>. QED  BY <2>1, <2>3, QuietBase DEF Base, After
<1>5. CASE UNCHANGED caller /\ (RelaxPaths \/ RelaxWeighted)
  <2>1. UNCHANGED <<graph, batch, attached, todo>> /\ next' = 1
        /\ ((phase = "paths" /\ phase' = "relax") \/ (phase = "weighted" /\ phase' = "reweigh"))
    <3>1. CASE RelaxPaths
      <4>1. phase = "paths"
        BY <3>1 DEF RelaxPaths, Updated
      <4>2. phase' = "relax" /\ next' = 1 /\ UNCHANGED <<graph, batch>>
        BY <3>1 DEF RelaxPaths, StartRelaxing
      <4>3. attached' = attached /\ todo' = todo
        BY <1>5 DEF caller
      <4>. QED  BY <4>1, <4>2, <4>3
    <3>2. CASE RelaxWeighted
      <4>1. phase = "weighted"
        BY <3>2 DEF RelaxWeighted, Updated
      <4>2. phase' = "reweigh" /\ next' = 1 /\ UNCHANGED <<graph, batch>>
        BY <3>2 DEF RelaxWeighted, StartRelaxing
      <4>3. attached' = attached /\ todo' = todo
        BY <1>5 DEF caller
      <4>. QED  BY <4>1, <4>2, <4>3
    <3>. QED  BY <1>5, <3>1, <3>2
  <2>2. Owned(phase)' /\ 1 \in 1 .. Len(batch) + 1
    BY <2>1 DEF Owned, Base
  <2>. QED  BY <2>1, <2>2, QuietBase DEF After
<1>6. CASE UNCHANGED caller /\ (RelaxUpdate \/ RelaxKept \/ PassOver)
  <2>1. UNCHANGED <<graph, batch, phase, attached, todo>> /\ next' = next + 1 /\ next <= Len(batch)
        /\ phase # "idle"
    BY <1>6 DEF RelaxUpdate, RelaxKept, PassOver, Relax, caller
  <2>2. Owned(phase)' /\ next' \in 1 .. Len(batch) + 1
    BY <2>1 DEF Owned, Base
  <2>. QED  BY <2>1, <2>2, QuietBase DEF Base
<1>7. CASE UNCHANGED caller /\ EndPaths
  BY <1>7, ReturnBase DEF EndPaths, Return, caller
<1>. QED  BY <1>1, <1>2, <1>3, <1>4, <1>5, <1>6, <1>7 DEF PathsStep

LEMMA InitBase == Init => Base
<1>. SUFFICES ASSUME Init PROVE Base
  OBVIOUS
<1>1. batch = <<>> /\ next = 1 /\ edges = {} /\ weight = [a \in Arc |-> 1] /\ phase = "idle" /\ todo = {}
      /\ vertexCount \in InitialCounts /\ attached \in Attachments /\ directed \in BOOLEAN
      /\ (attached \cap Undirected # {} => ~directed)
  BY DEF Init
<1>2. vertexCount \in 0 .. MaxVertices /\ Source < vertexCount
  <2>1. vertexCount \in Source + 1 .. MaxVertices /\ Source \in 0 .. MaxVertices - 1 /\ MaxVertices \in Nat
    BY <1>1, AttachmentConstants, MaintainedConstants DEF Vertex
  <2>. QED  BY <2>1
<1>3. batch \in Seq(WeightedOp) /\ batch \in Seq(UnitOp) /\ next \in 1 .. Len(batch) + 1
  BY <1>1
<1>. QED  BY <1>1, <1>2, <1>3 DEF Base, NoLoops, EndsCounted, Mirrored, Owned

LEMMA StepBase == Base /\ [Next]_vars => Base'
<1>. SUFFICES ASSUME Base, [Next]_vars PROVE Base'
  OBVIOUS
<1>1. CASE UNCHANGED vars
  <2>1. UNCHANGED <<graph, batch, next, phase, attached, todo>>
    BY <1>1 DEF vars, call, caller
  <2>2. Owned(phase)'
    BY <2>1 DEF Owned, Base
  <2>. QED  BY <2>1, <2>2, QuietBase DEF Base
<1>. QED  BY <1>1, StepCases, BatchBase, ComponentsBase, TrianglesBase, CoresBase, RanksBase, PathsBase

-----------------------------------------------------------------------------
(* Shortest distances, without a graph in particular: E are the arcs, W    *)
(* their weights, d the distances.                                         *)
Distances == [Vertex -> 0 .. Infinity]

(* No arc out of u shortens the distance of v. *)
Passes(W, d, u, v) == d[v] <= d[u] + W[<<u, v>>]

(* Every set of reached vertices without the source is entered by an arc   *)
(* that accounts for a distance in it.                                     *)
Supported(E, W, d) ==
  \A S \in SUBSET Vertex :
    S # {} /\ (\A v \in S : v # Source /\ d[v] # Infinity) =>
      \E v \in S : \E u \in Vertex \ S : <<u, v>> \in E /\ d[u] + W[<<u, v>>] <= d[v]

Triangular(E, W, d) == \A u, v \in Vertex : <<u, v>> \in E => Passes(W, d, u, v)

Right(E, W, d) == d[Source] = 0 /\ Supported(E, W, d) /\ Triangular(E, W, d)

(* Lowering the distances of targets of one vertex to what it offers them  *)
(* leaves every set supported.                                             *)
LEMMA LowerSupported ==
  ASSUME NEW E, NEW W \in [Arc -> Nat], NEW d \in Distances, NEW e \in Distances,
         NEW u \in Vertex, NEW C \in SUBSET Vertex,
         \A v \in C : <<u, v>> \in E /\ d[u] + W[<<u, v>>] < d[v],
         \A v \in C : e[v] = d[u] + W[<<u, v>>],
         \A v \in Vertex \ C : e[v] = d[v],
         Supported(E, W, d)
  PROVE  /\ Supported(E, W, e) /\ u \notin C
         /\ \A v \in Vertex : e[v] <= d[v]
<1>1. Infinity \in Nat
  BY MaintainedConstants
<1>2. \A v \in Vertex : d[v] \in Nat /\ e[v] \in Nat /\ d[v] <= Infinity
  BY <1>1 DEF Distances
<1>3. \A v, w \in Vertex : W[<<v, w>>] \in Nat
  BY DEF Arc
<1>4. u \notin C
  <2>. SUFFICES ASSUME u \in C PROVE FALSE
    OBVIOUS
  <2>1. d[u] + W[<<u, u>>] < d[u]
    OBVIOUS
  <2>2. W[<<u, u>>] \in Nat /\ d[u] \in Nat
    BY <1>2, <1>3
  <2>. QED  BY <2>1, <2>2
<1>5. ASSUME NEW v \in Vertex PROVE e[v] <= d[v]
  <2>. d[v] \in Nat /\ e[v] \in Nat /\ d[u] \in Nat /\ W[<<u, v>>] \in Nat
    BY <1>2, <1>3
  <2>1. CASE v \in C
    <3>1. e[v] = d[u] + W[<<u, v>>] /\ d[u] + W[<<u, v>>] < d[v]
      BY <2>1
    <3>. QED  BY <3>1
  <2>2. CASE v \notin C
    <3>1. e[v] = d[v]
      BY <2>2
    <3>. QED  BY <3>1
  <2>. QED  BY <2>1, <2>2
<1>6. ASSUME NEW S \in SUBSET Vertex, S # {}, \A v \in S : v # Source /\ e[v] # Infinity
      PROVE  \E v \in S : \E x \in Vertex \ S : <<x, v>> \in E /\ e[x] + W[<<x, v>>] <= e[v]
  <2>1. CASE u \notin S /\ S \cap C # {}
    <3>1. PICK v \in S : v \in C
      BY <2>1
    <3>2. <<u, v>> \in E /\ e[v] = d[u] + W[<<u, v>>] /\ e[u] = d[u]
      BY <3>1, <1>4
    <3>3. e[u] + W[<<u, v>>] <= e[v]
      BY <3>1, <3>2, <1>2, <1>3
    <3>. QED  BY <2>1, <3>2, <3>3
  <2>2. CASE S \cap C = {}
    <3>1. \A v \in S : e[v] = d[v]
      BY <2>2
    <3>2. PICK v \in S : \E x \in Vertex \ S : <<x, v>> \in E /\ d[x] + W[<<x, v>>] <= d[v]
      BY <1>6, <3>1 DEF Supported
    <3>3. PICK x \in Vertex \ S : <<x, v>> \in E /\ d[x] + W[<<x, v>>] <= d[v]
      BY <3>2
    <3>4. e[x] + W[<<x, v>>] <= e[v]
      BY <3>1, <3>3, <1>2, <1>3, <1>5
    <3>. QED  BY <3>3, <3>4
  <2>3. CASE u \in S
    <3>. DEFINE T == {y \in S : d[y] <= d[u]}
    <3>1. u \in T /\ d[u] < Infinity
      <4>1. d[u] = e[u] /\ e[u] # Infinity
        BY <2>3, <1>4, <1>6
      <4>. QED  BY <4>1, <2>3, <1>1, <1>2
    <3>2. \A y \in T : y # Source /\ d[y] # Infinity
      BY <3>1, <1>1, <1>2, <1>6
    <3>3. ASSUME NEW y \in T PROVE y \notin C
      <4>1. d[y] <= d[u] /\ d[y] \in Nat /\ d[u] \in Nat /\ W[<<u, y>>] \in Nat
        BY <1>2, <1>3
      <4>2. y \in C => d[u] + W[<<u, y>>] < d[y]
        OBVIOUS
      <4>. QED  BY <4>1, <4>2
    <3>4. PICK v \in T : \E x \in Vertex \ T : <<x, v>> \in E /\ d[x] + W[<<x, v>>] <= d[v]
      BY <3>1, <3>2 DEF Supported
    <3>5. PICK x \in Vertex \ T : <<x, v>> \in E /\ d[x] + W[<<x, v>>] <= d[v]
      BY <3>4
    <3>6. d[x] <= d[u]
      BY <3>5, <1>2, <1>3
    <3>7. x \notin S
      BY <3>5, <3>6
    <3>8. e[v] = d[v]
      BY <3>3
    <3>9. e[x] + W[<<x, v>>] <= e[v]
      BY <3>5, <3>8, <1>2, <1>3, <1>5
    <3>. QED  BY <3>5, <3>7, <3>9
  <2>. QED  BY <2>1, <2>2, <2>3
<1>. QED  BY <1>4, <1>5, <1>6 DEF Supported

(* The source alone, before anything is propagated. *)
LEMMA StartSupported ==
  ASSUME NEW E, NEW W, NEW d, \A v \in Vertex \ {Source} : d[v] = Infinity
  PROVE  Supported(E, W, d)
BY DEF Supported

(* The pair of u is in the queue. *)
Waits(q, d, u) == <<d[u], u>> \in q

(* Distances fall, and what falls is queued. *)
Lowers(d, q, e, p) ==
  /\ q \subseteq p
  /\ \A w \in Vertex : e[w] <= d[w] /\ (e[w] = d[w] \/ Waits(p, e, w))

Queues == SUBSET ((0 .. Infinity) \X Vertex)

LEMMA LowersTwice ==
  ASSUME NEW d \in Distances, NEW e \in Distances, NEW f \in Distances, NEW q, NEW p, NEW r,
         Lowers(d, q, e, p), Lowers(e, p, f, r)
  PROVE  Lowers(d, q, f, r)
<1>1. q \subseteq r
  BY DEF Lowers
<1>2. ASSUME NEW w \in Vertex PROVE f[w] <= d[w] /\ (f[w] = d[w] \/ Waits(r, f, w))
  <2>1. e[w] <= d[w] /\ f[w] <= e[w] /\ (e[w] = d[w] \/ Waits(p, e, w)) /\ (f[w] = e[w] \/ Waits(r, f, w))
        /\ p \subseteq r
    BY DEF Lowers
  <2>2. d[w] \in Nat /\ e[w] \in Nat /\ f[w] \in Nat
    BY MaintainedConstants DEF Distances
  <2>3. f[w] <= d[w]
    BY <2>1, <2>2
  <2>4. CASE f[w] = e[w]
    BY <2>1, <2>3, <2>4 DEF Waits
  <2>5. CASE Waits(r, f, w)
    BY <2>3, <2>5
  <2>. QED  BY <2>1, <2>4, <2>5
<1>. QED  BY <1>1, <1>2 DEF Lowers

(* Arcs that pass still do, unless their tail fell: then it waits.         *)
LEMMA LowersPasses ==
  ASSUME NEW W \in [Arc -> Nat], NEW d \in Distances, NEW e \in Distances, NEW q, NEW p,
         Lowers(d, q, e, p), NEW u \in Vertex, NEW v \in Vertex,
         Passes(W, d, u, v) \/ Waits(q, d, u)
  PROVE  Passes(W, e, u, v) \/ Waits(p, e, u)
<1>1. d[u] \in Nat /\ e[u] \in Nat /\ d[v] \in Nat /\ e[v] \in Nat /\ W[<<u, v>>] \in Nat
  BY MaintainedConstants DEF Distances, Arc
<1>2. q \subseteq p /\ e[v] <= d[v] /\ (e[u] = d[u] \/ Waits(p, e, u))
  BY DEF Lowers
<1>3. CASE e[u] = d[u]
  <2>1. CASE Waits(q, d, u)
    BY <1>2, <1>3, <2>1 DEF Waits
  <2>2. CASE Passes(W, d, u, v)
    <3>1. d[v] <= d[u] + W[<<u, v>>]
      BY <2>2 DEF Passes
    <3>2. e[v] <= e[u] + W[<<u, v>>]
      BY <1>1, <1>2, <1>3, <3>1
    <3>. QED  BY <3>2 DEF Passes
  <2>. QED  BY <2>1, <2>2
<1>. QED  BY <1>2, <1>3

(* Relaxing one arc of the graph, or a self loop. *)
LEMMA RelaxArcKeeps ==
  ASSUME Base, NEW f \in Distances, NEW q \in Queues, NEW u \in Vertex, NEW v \in Vertex,
         <<u, v>> \in edges \/ u = v, f[Source] = 0, Supported(edges, weight, f),
         NEW r, r = RelaxArc([far |-> f, queue |-> q], <<u, v>>)
  PROVE  /\ r = [far |-> r.far, queue |-> r.queue] /\ r.far \in Distances /\ r.queue \in Queues
         /\ r.far[Source] = 0 /\ Supported(edges, weight, r.far)
         /\ Lowers(f, q, r.far, r.queue)
         /\ Passes(weight, r.far, u, v) \/ Waits(r.queue, r.far, u)
<1>. DEFINE through == f[u] + weight[<<u, v>>]
            g == [f EXCEPT ![v] = through]
            p == q \cup {<<through, v>>}
<1>1. r = IF f[u] # Infinity /\ through < f[v] THEN [far |-> g, queue |-> p] ELSE [far |-> f, queue |-> q]
  BY DEF RelaxArc
<1>2. Infinity \in Nat /\ Source \in Vertex /\ weight \in [Arc -> Nat] /\ weight[<<u, v>>] \in Nat
      /\ f[u] \in Nat /\ f[v] \in Nat /\ f[v] <= Infinity /\ f[u] <= Infinity
  BY MaintainedConstants DEF Base, Distances, Arc
<1>3. CASE f[u] # Infinity /\ through < f[v]
  <2>1. r.far = g /\ r.queue = p /\ r = [far |-> r.far, queue |-> r.queue]
    <3>1. r = [far |-> g, queue |-> p]
      BY <1>1, <1>3
    <3>. HIDE DEF g, p
    <3>. QED  BY <3>1
  <2>2. through \in 0 .. Infinity
    BY <1>2, <1>3
  <2>3. g \in Distances
    BY <2>2 DEF Distances
  <2>4. p \in Queues
    BY <2>2 DEF Queues
  <2>5. g[v] = through /\ \A w \in Vertex \ {v} : g[w] = f[w]
    BY DEF Distances
  <2>6. u # v /\ v # Source
    <3>1. u # v
      BY <1>2, <1>3
    <3>2. v # Source
      BY <1>2, <1>3
    <3>. QED  BY <3>1, <3>2
  <2>7. Supported(edges, weight, g) /\ (\A w \in Vertex : g[w] <= f[w])
    <3>. DEFINE C == {v}
    <3>1. /\ C \in SUBSET Vertex
          /\ \A w \in C : <<u, w>> \in edges /\ f[u] + weight[<<u, w>>] < f[w]
          /\ \A w \in C : g[w] = f[u] + weight[<<u, w>>]
          /\ \A w \in Vertex \ C : g[w] = f[w]
      BY <1>3, <2>5, <2>6
    <3>2. weight \in [Arc -> Nat]
      BY <1>2
    <3>. HIDE DEF C, g, through
    <3>3. C \in SUBSET Vertex
      BY <3>1
    <3>4. \A w \in C : <<u, w>> \in edges /\ f[u] + weight[<<u, w>>] < f[w]
      BY <3>1
    <3>5. \A w \in C : g[w] = f[u] + weight[<<u, w>>]
      BY <3>1
    <3>6. \A w \in Vertex \ C : g[w] = f[w]
      BY <3>1
    <3>7. Supported(edges, weight, g)
      BY <2>3, <3>2, <3>3, <3>4, <3>5, <3>6, LowerSupported
    <3>8. ASSUME NEW w \in Vertex PROVE g[w] <= f[w]
      <4>1. f[w] \in Nat /\ (w = v \/ w # v) /\ f[w] <= f[w]
        BY <1>2 DEF Distances
      <4>2. CASE w = v
        <5>1. g[v] = through /\ through < f[v] /\ through \in Nat /\ f[v] \in Nat
          BY <1>2, <1>3, <2>2, <2>5
        <5>. QED  BY <4>2, <5>1
      <4>3. CASE w # v
        <5>1. g[w] = f[w]
          BY <2>5, <4>3
        <5>. QED  BY <4>1, <5>1
      <4>. QED  BY <4>2, <4>3
    <3>. QED  BY <3>7, <3>8
  <2>8. \A w \in Vertex : g[w] = f[w] \/ Waits(p, g, w)
    BY <2>5 DEF Waits
  <2>9. g[Source] = 0 /\ g[u] = f[u]
    BY <1>2, <2>5, <2>6
  <2>10. Passes(weight, g, u, v)
    <3>1. g[v] = g[u] + weight[<<u, v>>]
      BY <2>5, <2>9
    <3>2. g[v] <= g[u] + weight[<<u, v>>]
      BY <3>1, <2>2, <2>5
    <3>. QED  BY <3>2 DEF Passes
  <2>11. Lowers(f, q, g, p)
    BY <2>7, <2>8 DEF Lowers
  <2>. HIDE DEF g, p
  <2>. QED  BY <2>1, <2>3, <2>4, <2>7, <2>9, <2>10, <2>11
<1>4. CASE ~(f[u] # Infinity /\ through < f[v])
  <2>1. r.far = f /\ r.queue = q /\ r = [far |-> r.far, queue |-> r.queue]
    BY <1>1, <1>4
  <2>2. f[v] <= f[u] + weight[<<u, v>>]
    BY <1>2, <1>4
  <2>3. Lowers(f, q, f, q)
    BY MaintainedConstants DEF Lowers, Distances
  <2>. QED  BY <2>1, <2>2, <2>3 DEF Passes
<1>. QED  BY <1>3, <1>4

LEMMA RelaxOpKeeps ==
  ASSUME Base, NEW f \in Distances, NEW q \in Queues, NEW op, op.src \in Vertex, op.dst \in Vertex,
         ArcsOf(directed, op) \subseteq edges, f[Source] = 0, Supported(edges, weight, f),
         NEW r, r = RelaxOp([far |-> f, queue |-> q], op)
  PROVE  /\ r.far \in Distances /\ r.queue \in Queues
         /\ r.far[Source] = 0 /\ Supported(edges, weight, r.far)
         /\ Lowers(f, q, r.far, r.queue)
         /\ \A u, v \in Vertex : <<u, v>> \in ArcsOf(directed, op) =>
              Passes(weight, r.far, u, v) \/ Waits(r.queue, r.far, u)
<1>. DEFINE there == RelaxArc([far |-> f, queue |-> q], <<op.src, op.dst>>)
            back == RelaxArc(there, <<op.dst, op.src>>)
<1>1. r = IF directed THEN there ELSE back
  BY DEF RelaxOp
<1>2. <<op.src, op.dst>> \in edges \/ op.src = op.dst
  BY DEF ArcsOf
<1>3. /\ there = [far |-> there.far, queue |-> there.queue] /\ there.far \in Distances
      /\ there.queue \in Queues /\ there.far[Source] = 0 /\ Supported(edges, weight, there.far)
      /\ Lowers(f, q, there.far, there.queue)
      /\ Passes(weight, there.far, op.src, op.dst) \/ Waits(there.queue, there.far, op.src)
  <2>. HIDE DEF there
  <2>1. there = RelaxArc([far |-> f, queue |-> q], <<op.src, op.dst>>)
    BY DEF there
  <2>. QED  BY <1>2, <2>1, RelaxArcKeeps
<1>4. CASE directed
  <2>1. r = there
    BY <1>1, <1>4
  <2>2. \A u, v : <<u, v>> \in ArcsOf(directed, op) => u = op.src /\ v = op.dst
    BY <1>4 DEF ArcsOf
  <2>. HIDE DEF there
  <2>. QED  BY <1>3, <2>1, <2>2
<1>5. CASE ~directed
  <2>1. r = back
    BY <1>1, <1>5
  <2>2. <<op.dst, op.src>> \in edges \/ op.src = op.dst
    BY <1>5 DEF ArcsOf
  <2>3. \A u, v : <<u, v>> \in ArcsOf(directed, op) =>
          (u = op.src /\ v = op.dst) \/ (u = op.dst /\ v = op.src)
    BY <1>5 DEF ArcsOf
  <2>4. back = RelaxArc([far |-> there.far, queue |-> there.queue], <<op.dst, op.src>>)
    <3>. HIDE DEF there
    <3>. QED  BY <1>3
  <2>. HIDE DEF there, back
  <2>5. /\ back.far \in Distances
        /\ back.queue \in Queues /\ back.far[Source] = 0 /\ Supported(edges, weight, back.far)
        /\ Lowers(there.far, there.queue, back.far, back.queue)
        /\ Passes(weight, back.far, op.dst, op.src) \/ Waits(back.queue, back.far, op.dst)
    BY <1>3, <2>2, <2>4, RelaxArcKeeps
  <2>6. Lowers(f, q, back.far, back.queue)
    BY <1>3, <2>5, LowersTwice
  <2>7. Passes(weight, back.far, op.src, op.dst) \/ Waits(back.queue, back.far, op.src)
    <3>1. weight \in [Arc -> Nat]
      BY DEF Base
    <3>. QED  BY <1>3, <2>5, <3>1, LowersPasses
  <2>. QED  BY <2>1, <2>3, <2>5, <2>6, <2>7
<1>. QED  BY <1>4, <1>5 DEF Base

-----------------------------------------------------------------------------
(* What the graph will be when the whole batch is in it: the last update   *)
(* that writes an arc decides.                                             *)
Final(a, i) ==
  /\ i \in DOMAIN batch
  /\ a \in ArcsOf(directed, batch[i])
  /\ \A k \in DOMAIN batch : i < k => a \notin ArcsOf(directed, batch[k])

Written(a) == \E i \in DOMAIN batch : a \in ArcsOf(directed, batch[i])

Weighs(op) == IF op.add THEN op.weight ELSE 1

GoalEdges ==
  {a \in Arc : \/ a \in edges /\ ~Written(a)
               \/ \E i \in DOMAIN batch : Final(a, i) /\ batch[i].add}

GoalWeight ==
  [a \in Arc |-> IF Written(a) THEN Weighs(batch[CHOOSE i \in DOMAIN batch : Final(a, i)]) ELSE weight[a]]

(* The updates before the n-th are in the graph as far as they are last. *)
InPlace(n) ==
  \A i \in DOMAIN batch : \A a \in Arc :
    i < n /\ Final(a, i) => (a \in edges <=> batch[i].add) /\ weight[a] = Weighs(batch[i])

(* A non-empty set of natural numbers has a least element. *)
LEMMA LeastNumber ==
  ASSUME NEW L \in SUBSET Nat, L # {}
  PROVE  \E m \in L : \A x \in L : m <= x
<1>1. PICK m \in L : \A x \in L : ~(<<x, m>> \in OpToRel(<, Nat))
  BY NatLessThanWellFounded, WFMin, Zenon
<1>2. ASSUME NEW x \in L PROVE m <= x
  <2>1. m \in Nat /\ x \in Nat
    OBVIOUS
  <2>2. ~(x < m)
    BY <1>1, <2>1 DEF OpToRel
  <2>. QED  BY <2>1, <2>2
<1>. QED  BY <1>2

LEMMA LastExists ==
  ASSUME batch \in Seq(WeightedOp), NEW a, Written(a)
  PROVE  \E i \in DOMAIN batch : Final(a, i)
<1>. DEFINE Writes(i) == a \in ArcsOf(directed, batch[i])
            L == {Len(batch) - i : i \in {j \in DOMAIN batch : Writes(j)}}
<1>1. DOMAIN batch = 1 .. Len(batch) /\ Len(batch) \in Nat
  OBVIOUS
<1>2. L \in SUBSET Nat
  BY <1>1
<1>3. PICK j \in DOMAIN batch : Writes(j)
  BY DEF Written
<1>4. Len(batch) - j \in L
  BY <1>3
<1>5. PICK m \in L : \A x \in L : m <= x
  <2>. HIDE DEF L
  <2>. QED  BY <1>2, <1>4, LeastNumber
<1>6. PICK i \in DOMAIN batch : m = Len(batch) - i /\ Writes(i)
  BY <1>5
<1>7. ASSUME NEW k \in DOMAIN batch, i < k, Writes(k) PROVE FALSE
  <2>1. Len(batch) - k \in L
    BY <1>7
  <2>2. m <= Len(batch) - k
    BY <1>5, <2>1
  <2>. QED  BY <2>2, <1>1, <1>6, <1>7
<1>. QED  BY <1>6, <1>7 DEF Final

LEMMA LastUnique ==
  ASSUME batch \in Seq(WeightedOp), NEW a, NEW i, NEW j, Final(a, i), Final(a, j)
  PROVE  i = j
<1>1. DOMAIN batch = 1 .. Len(batch) /\ i \in DOMAIN batch /\ j \in DOMAIN batch
  BY DEF Final
<1>2. ~(i < j) /\ ~(j < i)
  BY <1>1 DEF Final
<1>. QED  BY <1>1, <1>2

LEMMA LastChosen ==
  ASSUME batch \in Seq(WeightedOp), NEW a \in Arc, NEW i, Final(a, i)
  PROVE  /\ Written(a) /\ i \in DOMAIN batch
         /\ GoalWeight[a] = Weighs(batch[i])
         /\ a \in GoalEdges <=> batch[i].add
<1>. DEFINE j == CHOOSE k \in DOMAIN batch : Final(a, k)
<1>1. i \in DOMAIN batch /\ Written(a)
  BY DEF Final, Written
<1>2. Final(a, j)
  BY <1>1
<1>3. i = j
  BY <1>2, LastUnique
<1>4. GoalWeight[a] = Weighs(batch[j])
  BY <1>1 DEF GoalWeight
<1>5. a \in GoalEdges <=> batch[i].add
  BY <1>1, LastUnique DEF GoalEdges
<1>. QED  BY <1>1, <1>3, <1>4, <1>5

LEMMA Unwritten ==
  ASSUME NEW a \in Arc, ~Written(a)
  PROVE  GoalWeight[a] = weight[a] /\ (a \in GoalEdges <=> a \in edges)
BY DEF GoalWeight, GoalEdges, Final, Written

LEMMA AllInPlace ==
  ASSUME Base, InPlace(Len(batch) + 1)
  PROVE  GoalEdges = edges /\ GoalWeight = weight
<1>1. batch \in Seq(WeightedOp) /\ edges \subseteq Arc /\ weight \in [Arc -> Nat]
  BY DEF Base
<1>2. ASSUME NEW a \in Arc PROVE GoalWeight[a] = weight[a] /\ (a \in GoalEdges <=> a \in edges)
  <2>1. CASE Written(a)
    <3>1. PICK i \in DOMAIN batch : Final(a, i)
      BY <1>1, <2>1, LastExists
    <3>2. i < Len(batch) + 1
      BY <1>1
    <3>. QED  BY <1>1, <3>1, <3>2, LastChosen DEF InPlace
  <2>. QED  BY <2>1, Unwritten
<1>3. GoalEdges \subseteq Arc
  BY DEF GoalEdges
<1>4. GoalEdges = edges
  <2>. HIDE DEF GoalEdges
  <2>. QED  BY <1>1, <1>2, <1>3
<1>5. GoalWeight = weight
  <2>1. GoalWeight = [a \in Arc |-> GoalWeight[a]]
    BY DEF GoalWeight
  <2>2. weight = [a \in Arc |-> weight[a]]
    BY <1>1
  <2>. HIDE DEF GoalWeight
  <2>. QED  BY <1>2, <2>1, <2>2
<1>. QED  BY <1>4, <1>5

(* All weights are 1 where no analytic is weighted. *)
LEMMA UnitGoal ==
  ASSUME Base, attached # {"weighted"}
  PROVE  GoalWeight = [a \in Arc |-> 1] /\ weight = [a \in Arc |-> 1]
<1>1. batch \in Seq(WeightedOp) /\ batch \in Seq(UnitOp) /\ weight = [a \in Arc |-> 1]
  BY DEF Base
<1>2. ASSUME NEW a \in Arc PROVE GoalWeight[a] = 1
  <2>1. CASE Written(a)
    <3>1. PICK i \in DOMAIN batch : Final(a, i)
      BY <1>1, <2>1, LastExists
    <3>2. batch[i].weight = 1
      BY <1>1 DEF UnitOp
    <3>. QED  BY <1>1, <3>1, <3>2, LastChosen DEF Weighs
  <2>2. CASE ~Written(a)
    BY <1>1, <2>2, Unwritten
  <2>. QED  BY <2>1, <2>2
<1>3. GoalWeight = [a \in Arc |-> GoalWeight[a]]
  BY DEF GoalWeight
<1>. HIDE DEF GoalWeight
<1>. QED  BY <1>1, <1>2, <1>3

(* An update in its turn keeps what was in place and leaves the goal. *)
LEMMA UpdateInPlace ==
  ASSUME Base, NEW during, UpdateGraph(during), InPlace(next)
  PROVE  InPlace(next)' /\ GoalEdges' = GoalEdges /\ GoalWeight' = GoalWeight
<1>1. /\ next <= Len(batch) /\ batch[next] \in WeightedOp
      /\ \A a \in Arc : a \in ArcsOf(directed, batch[next]) =>
           /\ a \in edges' <=> batch[next].add
           /\ weight'[a] = IF batch[next].add THEN batch[next].weight ELSE 1
      /\ \A a \in Arc : a \notin ArcsOf(directed, batch[next]) =>
           (a \in edges' <=> a \in edges) /\ weight'[a] = weight[a]
  BY UpdateEffect
<1>2. batch' = batch /\ directed' = directed /\ next' = next + 1 /\ next \in 1 .. Len(batch) /\ Len(batch) \in Nat
  BY <1>1 DEF UpdateGraph, Base
<1>3. \A a, i : Final(a, i)' <=> Final(a, i)
  BY <1>2 DEF Final
<1>4. \A a : Written(a)' <=> Written(a)
  BY <1>2 DEF Written
<1>5. ASSUME NEW i \in DOMAIN batch, NEW a \in Arc, i < next + 1, Final(a, i)
      PROVE  (a \in edges' <=> batch[i].add) /\ weight'[a] = Weighs(batch[i])
  <2>1. i < next \/ i = next
    BY <1>2, <1>5
  <2>2. CASE i = next
    BY <1>1, <1>5, <2>2 DEF Final, Weighs
  <2>3. CASE i < next
    <3>1. a \notin ArcsOf(directed, batch[next])
      BY <1>2, <1>5, <2>3 DEF Final
    <3>2. (a \in edges <=> batch[i].add) /\ weight[a] = Weighs(batch[i])
      BY <1>5, <2>3 DEF InPlace
    <3>. QED  BY <1>1, <3>1, <3>2
  <2>. QED  BY <2>1, <2>2, <2>3
<1>6. InPlace(next)'
  BY <1>2, <1>3, <1>5 DEF InPlace, Weighs
<1>7. ASSUME NEW a \in Arc, ~Written(a)
      PROVE  (a \in edges' <=> a \in edges) /\ weight'[a] = weight[a]
  <2>1. a \notin ArcsOf(directed, batch[next])
    BY <1>2, <1>7 DEF Written
  <2>. QED  BY <1>1, <2>1
<1>8. GoalEdges' = GoalEdges
  BY <1>2, <1>3, <1>4, <1>7 DEF GoalEdges
<1>9. GoalWeight' = GoalWeight
  <2>1. ASSUME NEW a \in Arc
        PROVE  (IF Written(a)' THEN Weighs(batch'[CHOOSE i \in DOMAIN batch' : Final(a, i)']) ELSE weight'[a])
               = (IF Written(a) THEN Weighs(batch[CHOOSE i \in DOMAIN batch : Final(a, i)]) ELSE weight[a])
    <3>1. CASE ~Written(a)
      BY <1>4, <1>7, <3>1
    <3>2. CASE Written(a)
      <4>1. batch' = batch /\ directed' = directed
        BY <1>2
      <4>2. (CHOOSE i \in DOMAIN batch' : Final(a, i)') = CHOOSE i \in DOMAIN batch : Final(a, i)
        BY <4>1, Zenon DEF Final
      <4>3. batch'[CHOOSE i \in DOMAIN batch' : Final(a, i)'] = batch[CHOOSE i \in DOMAIN batch : Final(a, i)]
        BY <4>1, <4>2
      <4>4. Written(a) /\ Written(a)'
        BY <1>4, <3>2
      <4>. QED  BY <4>3, <4>4
    <3>. QED  BY <3>1, <3>2
  <2>. QED  BY <2>1 DEF GoalWeight, Weighs
<1>. QED  BY <1>6, <1>8, <1>9

-----------------------------------------------------------------------------
(* One key is one set of arcs: two updates write an arc in common only if  *)
(* they are of one edge.                                                   *)
LEMMA OneKey ==
  ASSUME NEW dir \in BOOLEAN, NEW o \in WeightedOp, NEW p \in WeightedOp, NEW a \in ArcsOf(dir, o)
  PROVE  a \in ArcsOf(dir, p) <=> Key(dir, p) = Key(dir, o)
<1>1. o.src # o.dst
  BY DEF ArcsOf
<1>2. CASE dir
  <2>1. a = <<o.src, o.dst>>
    BY <1>1, <1>2 DEF ArcsOf
  <2>2. a \in ArcsOf(dir, p) <=> a = <<p.src, p.dst>>
    BY <1>1, <1>2, <2>1 DEF ArcsOf
  <2>. QED  BY <1>2, <2>1, <2>2 DEF Key
<1>3. CASE ~dir
  <2>1. a = <<o.src, o.dst>> \/ a = <<o.dst, o.src>>
    BY <1>1, <1>3 DEF ArcsOf
  <2>2. a \in ArcsOf(dir, p) <=> a = <<p.src, p.dst>> \/ a = <<p.dst, p.src>>
    BY <1>1, <1>3, <2>1 DEF ArcsOf
  <2>3. Key(dir, p) = Key(dir, o) <=> {p.src, p.dst} = {o.src, o.dst}
    BY <1>3 DEF Key
  <2>4. {p.src, p.dst} = {o.src, o.dst}
          <=> \/ p.src = o.src /\ p.dst = o.dst
              \/ p.src = o.dst /\ p.dst = o.src
    OBVIOUS
  <2>. QED  BY <1>1, <2>1, <2>2, <2>3, <2>4
<1>. QED  BY <1>2, <1>3

(* What canonicalize keeps are the final updates. *)
LEMMA KeptFinal ==
  ASSUME Base, NEW i \in DOMAIN batch, NEW a, a \in ArcsOf(directed, batch[i])
  PROVE  Kept(i) <=> Final(a, i)
<1>1. batch \in Seq(WeightedOp) /\ directed \in BOOLEAN
  BY DEF Base
<1>2. batch[i].src # batch[i].dst
  BY DEF ArcsOf
<1>3. ASSUME NEW k \in DOMAIN batch
      PROVE  a \in ArcsOf(directed, batch[k]) <=> Key(directed, batch[k]) = Key(directed, batch[i])
  <2>1. batch[i] \in WeightedOp /\ batch[k] \in WeightedOp
    BY <1>1
  <2>. QED  BY <1>1, <2>1, OneKey
<1>. QED  BY <1>2, <1>3 DEF Kept, Final

-----------------------------------------------------------------------------
(* While a batch goes into the graph, the part that is in is in place.  On *)
(* a graph without weights no batch is rejected: all of it stays in place  *)
(* from the first apply() that gets the batch to the last.                 *)
InGraph ==
  /\ phase \in Before => InPlace(next)
  /\ phase = "reweigh" => InPlace(Len(batch) + 1)
  /\ attached # {"weighted"} /\ (phase \in After \/ (phase = "idle" /\ todo # attached))
       => InPlace(Len(batch) + 1)

(* What a step does to the graph and to the call under way. *)
Begins == phase = "idle" /\ phase' \in Before /\ UNCHANGED <<graph, batch, next, attached>>
Applies == \E p \in Before : UpdateGraph(p) /\ UNCHANGED caller
Leaves ==
  /\ phase \in Before /\ Updated(phase)
  /\ phase' \in After \cup {"idle"} /\ UNCHANGED <<graph, batch, attached, todo>>
Works ==
  /\ phase \in After /\ phase' \in After \cup {"idle"} /\ (phase' = "reweigh" => phase = "reweigh")
  /\ UNCHANGED <<graph, batch, attached, todo>>
Recomputes ==
  /\ phase = "idle" /\ todo = {} /\ attached # {}
  /\ phase' \in (After \cup {"idle"}) \ {"reweigh"} /\ UNCHANGED <<graph, batch, attached, todo>>
Rejects == phase = "idle" /\ phase' = "idle" /\ attached = {"weighted"} /\ UNCHANGED <<graph, batch, next, attached>>

Moves == Begins \/ Applies \/ Leaves \/ Works \/ Recomputes \/ Rejects

LEMMA ComponentsMoves == ComponentsStep => Moves
<1>. SUFFICES ASSUME ComponentsStep PROVE Moves
  OBVIOUS
<1>1. CASE Takes("components") /\ BeginComponents
  BY <1>1 DEF Takes, BeginComponents, Moves, Begins, Before, call
<1>2. CASE UNCHANGED caller /\ UpdateGraph("components")
  BY <1>2 DEF Moves, Applies, Before
<1>3. CASE UNCHANGED caller /\ TakeApart
  BY <1>3 DEF TakeApart, Updated, caller, Moves, Leaves, Before, After
<1>4. CASE UNCHANGED caller /\ (Rebuild \/ Replay \/ EndComponents)
  BY <1>4 DEF Rebuild, Replay, EndComponents, Return, Updated, call, caller, Moves, Works, After
<1>5. CASE UNCHANGED caller /\ "components" \in attached /\ todo = {} /\ \E v \in Vertex : QueryComponent(v)
  BY <1>5 DEF QueryComponent, call, caller, Moves, Recomputes, After
<1>. QED  BY <1>1, <1>2, <1>3, <1>4, <1>5 DEF ComponentsStep

LEMMA TrianglesMoves == TrianglesStep => Moves
<1>. SUFFICES ASSUME TrianglesStep PROVE Moves
  OBVIOUS
<1>1. CASE Takes("triangles") /\ BeginTriangles
  BY <1>1 DEF Takes, BeginTriangles, Moves, Begins, Before, call
<1>2. CASE UNCHANGED caller /\ CountUpdate
  BY <1>2 DEF CountUpdate, Moves, Applies, Before
<1>3. CASE UNCHANGED caller /\ EndTriangles
  BY <1>3 DEF EndTriangles, Return, Updated, caller, Moves, Leaves, Before
<1>4. CASE UNCHANGED caller /\ "triangles" \in attached /\ todo = {} /\ RecomputeTriangles
  BY <1>4 DEF RecomputeTriangles, call, caller, Moves, Recomputes, After
<1>. QED  BY <1>1, <1>2, <1>3, <1>4 DEF TrianglesStep

LEMMA CoresMoves == CoresStep => Moves
<1>. SUFFICES ASSUME CoresStep PROVE Moves
  OBVIOUS
<1>1. CASE Takes("cores") /\ BeginCores
  BY <1>1 DEF Takes, BeginCores, Moves, Begins, Before, call
<1>2. CASE UNCHANGED caller /\ UpdateGraph("cores")
  BY <1>2 DEF Moves, Applies, Before
<1>3. CASE UNCHANGED caller /\ PeelCores
  BY <1>3 DEF PeelCores, StartPeeling, Updated, call, caller, Moves, Leaves, Before, After
<1>4. CASE UNCHANGED caller /\ Peel
  BY <1>4 DEF Peel, call, caller, Moves, Works, After
<1>5. CASE UNCHANGED caller /\ EndCores
  BY <1>5 DEF EndCores, Return, caller, Moves, Works, After
<1>6. CASE UNCHANGED caller /\ "cores" \in attached /\ todo = {} /\ RecomputeCores
  BY <1>6 DEF RecomputeCores, StartPeeling, call, caller, Moves, Recomputes, After
<1>. QED  BY <1>1, <1>2, <1>3, <1>4, <1>5, <1>6 DEF CoresStep

LEMMA RanksMoves == RanksStep => Moves
<1>. SUFFICES ASSUME RanksStep PROVE Moves
  OBVIOUS
<1>1. CASE Takes("ranks") /\ BeginRanks
  BY <1>1 DEF Takes, BeginRanks, Moves, Begins, Before, call
<1>2. CASE UNCHANGED caller /\ UpdateRanked
  BY <1>2 DEF UpdateRanked, Moves, Applies, Before
<1>3. CASE UNCHANGED caller /\ SolveAfresh
  BY <1>3 DEF SolveAfresh, Solve, LeaveRanks, Return, Updated, caller, Moves, Leaves, Before
<1>4. CASE UNCHANGED caller /\ StartRounds
  BY <1>4 DEF StartRounds, Updated, call, caller, Moves, Leaves, Before, After
<1>5. CASE UNCHANGED caller /\ Round
  <2>1. phase = "rounds" /\ UNCHANGED <<graph, batch>> /\ phase' \in {"rounds", "idle"}
    BY <1>5 DEF Round, Solve, LeaveRanks, Return, call
  <2>. QED  BY <1>5, <2>1 DEF caller, Moves, Works, After
<1>6. CASE UNCHANGED caller /\ EndRounds
  BY <1>6 DEF EndRounds, LeaveRanks, Return, caller, Moves, Works, After
<1>7. CASE UNCHANGED caller /\ "ranks" \in attached /\ todo = {} /\ RecomputeRanks
  BY <1>7 DEF RecomputeRanks, Solve, LeaveRanks, Return, caller, Moves, Recomputes, After
<1>. QED  BY <1>1, <1>2, <1>3, <1>4, <1>5, <1>6, <1>7 DEF RanksStep

LEMMA WeightedAlone ==
  ASSUME Base, "weighted" \in attached
  PROVE  attached = {"weighted"}
BY AttachmentConstants DEF Base, Undirected

LEMMA PathsMoves == Base /\ PathsStep => Moves
<1>. SUFFICES ASSUME Base, PathsStep PROVE Moves
  OBVIOUS
<1>1. CASE Takes("paths") /\ BeginPaths
  BY <1>1 DEF Takes, BeginPaths, Moves, Begins, Before, call
<1>2. CASE Takes("weighted") /\ BeginWeighted
  BY <1>2 DEF Takes, BeginWeighted, Moves, Begins, Before, call
<1>3. CASE Takes("weighted") /\ RejectWeighted
  <2>1. "weighted" \in attached
    BY <1>3 DEF Takes, Base
  <2>. QED  BY <1>3, <2>1, WeightedAlone DEF Takes, RejectWeighted, Moves, Rejects, call
<1>4. CASE UNCHANGED caller /\ (UpdateGraph("paths") \/ UpdateGraph("weighted"))
  BY <1>4 DEF Moves, Applies, Before
<1>5. CASE UNCHANGED caller /\ (RestartPaths \/ RelaxPaths)
  BY <1>5 DEF RestartPaths, RelaxPaths, StartOver, StartRelaxing, Updated, call, caller, Moves, Leaves, Before, After
<1>6. CASE UNCHANGED caller /\ (RestartWeighted \/ RelaxWeighted)
  BY <1>6 DEF RestartWeighted, RelaxWeighted, StartOver, StartRelaxing, Updated, call, caller, Moves, Leaves, Before, After
<1>7. CASE UNCHANGED caller /\ (RelaxUpdate \/ RelaxKept \/ PassOver)
  BY <1>7 DEF RelaxUpdate, RelaxKept, PassOver, Relax, caller, Moves, Works, After
<1>8. CASE UNCHANGED caller /\ (EndRelaxing("relax") \/ EndRelaxing("reweigh"))
  BY <1>8 DEF EndRelaxing, Updated, call, caller, Moves, Works, After
<1>9. CASE UNCHANGED caller /\ Propagate
  BY <1>9 DEF Propagate, call, caller, Moves, Works, After
<1>10. CASE UNCHANGED caller /\ EndPaths
  BY <1>10 DEF EndPaths, Return, caller, Moves, Works, After
<1>11. CASE UNCHANGED caller /\ {"paths", "weighted"} \cap attached # {} /\ todo = {} /\ RecomputePaths
  BY <1>11 DEF RecomputePaths, StartOver, call, caller, Moves, Recomputes, After
<1>. QED  BY <1>1, <1>2, <1>3, <1>4, <1>5, <1>6, <1>7, <1>8, <1>9, <1>10, <1>11 DEF PathsStep

LEMMA StepMoves ==
  ASSUME Base, [Next]_vars
  PROVE  UNCHANGED vars \/ GivesBatch \/ Moves
BY StepCases, ComponentsMoves, TrianglesMoves, CoresMoves, RanksMoves, PathsMoves

(* What is in place stays so while the graph and the batch do. *)
LEMMA StillInPlace ==
  ASSUME UNCHANGED <<graph, batch>>
  PROVE  /\ \A n : InPlace(n) => \A i \in DOMAIN batch : \A a \in Arc :
              i < n /\ Final(a, i)' => (a \in edges' <=> batch'[i].add) /\ weight'[a] = Weighs(batch'[i])
         /\ InPlace(Len(batch) + 1) => InPlace(Len(batch) + 1)'
         /\ GoalEdges' = GoalEdges /\ GoalWeight' = GoalWeight
         /\ \A a, i : Final(a, i)' <=> Final(a, i)
         /\ \A a : Written(a)' <=> Written(a)
<1>1. batch' = batch /\ directed' = directed /\ edges' = edges /\ weight' = weight
  BY DEF graph
<1>2. \A a, i : Final(a, i)' <=> Final(a, i)
  BY <1>1 DEF Final
<1>3. \A a : Written(a)' <=> Written(a)
  BY <1>1 DEF Written
<1>4. \A n : InPlace(n) => \A i \in DOMAIN batch : \A a \in Arc :
         i < n /\ Final(a, i)' => (a \in edges' <=> batch'[i].add) /\ weight'[a] = Weighs(batch'[i])
  BY <1>1, <1>2 DEF InPlace
<1>5. InPlace(Len(batch) + 1) => InPlace(Len(batch) + 1)'
  BY <1>1, <1>2 DEF InPlace, Weighs
<1>6. GoalEdges' = GoalEdges
  BY <1>1, <1>2, <1>3 DEF GoalEdges
<1>7. GoalWeight' = GoalWeight
  <2>1. ASSUME NEW a \in Arc
        PROVE  (IF Written(a)' THEN Weighs(batch'[CHOOSE i \in DOMAIN batch' : Final(a, i)']) ELSE weight'[a])
               = (IF Written(a) THEN Weighs(batch[CHOOSE i \in DOMAIN batch : Final(a, i)]) ELSE weight[a])
    <3>1. (CHOOSE i \in DOMAIN batch' : Final(a, i)') = CHOOSE i \in DOMAIN batch : Final(a, i)
      BY <1>1, Zenon DEF Final
    <3>2. batch'[CHOOSE i \in DOMAIN batch' : Final(a, i)'] = batch[CHOOSE i \in DOMAIN batch : Final(a, i)]
      BY <1>1, <3>1
    <3>3. (Written(a)' <=> Written(a)) /\ weight'[a] = weight[a]
      BY <1>1, <1>3
    <3>. QED  BY <3>2, <3>3
  <2>. QED  BY <2>1 DEF GoalWeight, Weighs
<1>. QED  BY <1>2, <1>3, <1>4, <1>5, <1>6, <1>7

LEMMA StepInGraph == Base /\ InGraph /\ [Next]_vars => InGraph'
<1>. SUFFICES ASSUME Base, InGraph, [Next]_vars PROVE InGraph'
  OBVIOUS
<1>1. CASE UNCHANGED vars
  <2>1. UNCHANGED <<graph, batch, next, phase, attached, todo>>
    BY <1>1 DEF vars, call, caller
  <2>. QED  BY <2>1 DEF InGraph, InPlace, Final, Weighs, graph
<1>2. CASE GivesBatch
  <2>1. phase' = "idle" /\ todo' = attached'
    BY <1>2 DEF GivesBatch, NewBatch
  <2>. QED  BY <2>1 DEF InGraph, Before, After
<1>3. CASE Begins
  <2>1. next' = 1 /\ phase' \in Before
    BY <1>3 DEF Begins, Base
  <2>2. \A i \in DOMAIN batch' : ~(i < 1)
    <3>1. batch' = batch /\ batch \in Seq(WeightedOp)
      BY <1>3 DEF Begins, Base
    <3>. QED  BY <3>1
  <2>3. InPlace(next)'
    BY <2>1, <2>2 DEF InPlace
  <2>. QED  BY <2>1, <2>3 DEF InGraph, Before, After
<1>4. CASE Applies
  <2>1. PICK p \in Before : UpdateGraph(p)
    BY <1>4 DEF Applies
  <2>2. phase' = p /\ InPlace(next)'
    BY <2>1, UpdateInPlace DEF UpdateGraph, InGraph
  <2>. QED  BY <2>1, <2>2 DEF InGraph, Before, After
<1>5. CASE Leaves
  <2>1. next = Len(batch) + 1 /\ InPlace(next)
    BY <1>5 DEF Leaves, Updated, InGraph, Base
  <2>2. InPlace(Len(batch) + 1)' /\ phase' \notin Before
    <3>1. UNCHANGED <<graph, batch>>
      BY <1>5 DEF Leaves
    <3>2. phase' \notin Before
      BY <1>5 DEF Leaves, Before, After
    <3>. QED  BY <2>1, <3>1, <3>2, StillInPlace
  <2>. QED  BY <2>2 DEF InGraph
<1>6. CASE Works
  <2>1. UNCHANGED <<graph, batch>>
    BY <1>6 DEF Works
  <2>2. InPlace(Len(batch) + 1) => InPlace(Len(batch) + 1)'
    BY <2>1, StillInPlace
  <2>3. phase' \notin Before
    BY <1>6 DEF Works, Before, After
  <2>. QED  BY <1>6, <2>2, <2>3 DEF Works, InGraph
<1>7. CASE Recomputes
  <2>1. UNCHANGED <<graph, batch>>
    BY <1>7 DEF Recomputes
  <2>2. InPlace(Len(batch) + 1) => InPlace(Len(batch) + 1)'
    BY <2>1, StillInPlace
  <2>3. phase' \notin Before /\ phase' # "reweigh"
    BY <1>7 DEF Recomputes, Before, After
  <2>. QED  BY <1>7, <2>2, <2>3 DEF Recomputes, InGraph
<1>8. CASE Rejects
  BY <1>8 DEF Rejects, InGraph, Before, After
<1>. QED  BY <1>1, <1>2, <1>3, <1>4, <1>5, <1>6, <1>7, <1>8, StepMoves DEF Moves

LEMMA InitInGraph == Init => InGraph
<1>. SUFFICES ASSUME Init PROVE InGraph
  OBVIOUS
<1>1. batch = <<>> /\ phase = "idle"
  BY DEF Init
<1>2. DOMAIN batch = {}
  BY <1>1
<1>3. \A n : InPlace(n)
  BY <1>2 DEF InPlace
<1>. QED  BY <1>1, <1>3 DEF InGraph, Before, After

-----------------------------------------------------------------------------
(* Before an apply() that does not start over: every set is supported by   *)
(* arcs that stay, and only arcs that are written may shorten a distance.  *)
Reparable ==
  /\ Supported(GoalEdges, GoalWeight, far)
  /\ \A u, v \in Vertex :
       <<u, v>> \in GoalEdges /\ ~Written(<<u, v>>) => Passes(GoalWeight, far, u, v)

(* During its repair: an arc that may shorten a distance leaves a vertex   *)
(* that is queued, or is still to be relaxed.                              *)
Owing(n) ==
  /\ Supported(edges, weight, far)
  /\ \A u, v \in Vertex : <<u, v>> \in edges =>
       \/ Passes(weight, far, u, v) \/ Waits(queue, far, u)
       \/ \E i \in DOMAIN batch : n <= i /\ Final(<<u, v>>, i)

PathPhase == {"paths", "relax", "weighted", "reweigh", "propagate"}

PathsInv ==
  {"paths", "weighted"} \cap attached # {} =>
    /\ far \in Distances /\ queue \in Queues /\ far[Source] = 0
    /\ phase \in PathPhase => "paths" \notin todo /\ "weighted" \notin todo
    /\ "paths" \in todo \/ phase = "paths" => HasRemoval \/ Reparable
    /\ phase = "weighted" => restart \/ Reparable
    /\ phase = "relax" => ~HasRemoval
    /\ phase \in {"relax", "reweigh"} => Owing(next)
    /\ phase = "propagate" => Owing(Len(batch) + 1)
    /\ "weighted" \in attached /\ phase = "idle" => Right(edges, weight, far)
    /\ "paths" \in attached /\ "paths" \notin todo /\ phase \notin PathPhase
         => Right(GoalEdges, GoalWeight, far)

(* What starting over leaves. *)
LEMMA StartOverOwes ==
  ASSUME Base, UNCHANGED <<graph, batch>>, StartOver(vertexCount)
  PROVE  /\ far' \in Distances /\ queue' \in Queues /\ far'[Source] = 0
         /\ Owing(Len(batch) + 1)'
<1>1. Infinity \in Nat /\ Source \in Vertex /\ Source < vertexCount /\ weight \in [Arc -> Nat]
  BY MaintainedConstants DEF Base
<1>2. far' = [v \in Vertex |-> IF v = Source THEN 0 ELSE Infinity] /\ queue' = {<<0, Source>>}
      /\ edges' = edges /\ weight' = weight
  BY <1>1 DEF StartOver, graph
<1>3. far' \in Distances /\ queue' \in Queues /\ far'[Source] = 0
  BY <1>1, <1>2 DEF Distances, Queues
<1>4. Supported(edges, weight, far')
  BY <1>2, StartSupported
<1>5. ASSUME NEW u \in Vertex, NEW v \in Vertex PROVE Passes(weight, far', u, v) \/ Waits(queue', far', u)
  <2>1. CASE u = Source
    BY <1>2, <1>3, <2>1 DEF Waits
  <2>2. CASE u # Source
    <3>1. weight[<<u, v>>] \in Nat /\ far'[u] = Infinity /\ far'[v] \in 0 .. Infinity
      BY <1>1, <1>2, <1>3, <2>2 DEF Arc, Distances
    <3>2. far'[v] <= far'[u] + weight[<<u, v>>]
      BY <1>1, <3>1
    <3>. QED  BY <3>2 DEF Passes
  <2>. QED  BY <2>1, <2>2
<1>6. Owing(Len(batch) + 1)'
  BY <1>2, <1>4, <1>5 DEF Owing
<1>. QED  BY <1>3, <1>6

(* The end of the update, without starting over. *)
LEMMA ReparableOwes ==
  ASSUME Base, UNCHANGED <<graph, batch>>, InPlace(Len(batch) + 1), Reparable,
         NEW during, StartRelaxing(during)
  PROVE  Owing(next)'
<1>1. GoalEdges = edges /\ GoalWeight = weight
  BY AllInPlace
<1>2. far' = far /\ next' = 1 /\ edges' = edges /\ weight' = weight /\ batch' = batch /\ directed' = directed
  BY DEF StartRelaxing, graph
<1>3. batch \in Seq(WeightedOp)
  BY DEF Base
<1>4. ASSUME NEW u \in Vertex, NEW v \in Vertex, <<u, v>> \in edges
      PROVE  Passes(weight, far, u, v) \/ \E i \in DOMAIN batch : 1 <= i /\ Final(<<u, v>>, i)
  <2>1. CASE ~Written(<<u, v>>)
    BY <1>1, <1>4, <2>1 DEF Reparable
  <2>2. CASE Written(<<u, v>>)
    <3>1. PICK i \in DOMAIN batch : Final(<<u, v>>, i)
      BY <1>3, <2>2, LastExists
    <3>2. 1 <= i
      BY <1>3
    <3>. QED  BY <3>1, <3>2
  <2>. QED  BY <2>1, <2>2
<1>5. \A a, i : Final(a, i)' <=> Final(a, i)
  BY <1>2 DEF Final
<1>6. Supported(edges, weight, far)
  BY <1>1 DEF Reparable
<1>. QED  BY <1>2, <1>4, <1>5, <1>6 DEF Owing

(* The arcs of an update that is relaxed are in the graph. *)
LEMMA RelaxOwes ==
  ASSUME Base, far \in Distances, queue \in Queues, far[Source] = 0, Owing(next),
         next <= Len(batch), NEW op, op.src \in Vertex, op.dst \in Vertex,
         ArcsOf(directed, op) \subseteq edges, ArcsOf(directed, op) = ArcsOf(directed, batch[next]),
         Relax(op)
  PROVE  /\ far' \in Distances /\ queue' \in Queues /\ far'[Source] = 0
         /\ Owing(next)'
<1>. DEFINE r == RelaxOp([far |-> far, queue |-> queue], op)
<1>1. /\ far' = r.far /\ queue' = r.queue /\ next' = next + 1
      /\ edges' = edges /\ weight' = weight /\ batch' = batch /\ directed' = directed
  BY DEF Relax, graph
<1>. HIDE DEF r
<1>2. Supported(edges, weight, far)
  BY DEF Owing
<1>3. /\ r.far \in Distances /\ r.queue \in Queues
      /\ r.far[Source] = 0 /\ Supported(edges, weight, r.far)
      /\ Lowers(far, queue, r.far, r.queue)
      /\ \A u, v \in Vertex : <<u, v>> \in ArcsOf(directed, op) =>
           Passes(weight, r.far, u, v) \/ Waits(r.queue, r.far, u)
  <2>1. r = RelaxOp([far |-> far, queue |-> queue], op)
    BY DEF r
  <2>. QED  BY <1>2, <2>1, RelaxOpKeeps
<1>4. ASSUME NEW u \in Vertex, NEW v \in Vertex, <<u, v>> \in edges
      PROVE  \/ Passes(weight, r.far, u, v) \/ Waits(r.queue, r.far, u)
             \/ \E i \in DOMAIN batch : next + 1 <= i /\ Final(<<u, v>>, i)
  <2>1. weight \in [Arc -> Nat] /\ next \in Nat /\ DOMAIN batch = 1 .. Len(batch) /\ Len(batch) \in Nat
    BY DEF Base
  <2>2. CASE Passes(weight, far, u, v) \/ Waits(queue, far, u)
    BY <1>3, <2>1, <2>2, LowersPasses
  <2>3. ASSUME NEW i \in DOMAIN batch, next <= i, Final(<<u, v>>, i)
        PROVE  \/ Passes(weight, r.far, u, v) \/ Waits(r.queue, r.far, u)
               \/ next + 1 <= i
    <3>1. CASE i = next
      BY <1>3, <2>3, <3>1 DEF Final
    <3>2. CASE i # next
      BY <2>1, <2>3, <3>2
    <3>. QED  BY <3>1, <3>2
  <2>. QED  BY <1>4, <2>2, <2>3 DEF Owing
<1>5. \A a, i : Final(a, i)' <=> Final(a, i)
  BY <1>1 DEF Final
<1>. QED  BY <1>1, <1>3, <1>4, <1>5 DEF Owing

(* An update that adds an edge, and is kept or meets no removal, is there. *)
LEMMA AddedThere ==
  ASSUME Base, InPlace(Len(batch) + 1), NEW i \in DOMAIN batch, batch[i].add,
         Kept(i) \/ ~HasRemoval
  PROVE  ArcsOf(directed, batch[i]) \subseteq edges
<1>. SUFFICES ASSUME NEW a \in ArcsOf(directed, batch[i]) PROVE a \in edges
  OBVIOUS
<1>1. batch \in Seq(WeightedOp) /\ batch[i] \in WeightedOp /\ directed \in BOOLEAN
  BY DEF Base
<1>2. a \in Arc
  BY <1>1, OpFacts
<1>3. \E j \in DOMAIN batch : Final(a, j) /\ batch[j].add
  <2>1. CASE Kept(i)
    BY <2>1, KeptFinal
  <2>2. CASE ~HasRemoval
    <3>1. Written(a)
      BY DEF Written
    <3>. QED  BY <1>1, <2>2, <3>1, LastExists DEF HasRemoval
  <2>. QED  BY <2>1, <2>2
<1>4. PICK j \in DOMAIN batch : Final(a, j) /\ batch[j].add
  BY <1>3
<1>5. j < Len(batch) + 1
  BY <1>1
<1>. QED  BY <1>2, <1>4, <1>5 DEF InPlace

(* The kept update, from the smaller end of an undirected edge. *)
LEMMA OrientedSame ==
  ASSUME NEW op \in WeightedOp
  PROVE  /\ ArcsOf(directed, Oriented(op)) = ArcsOf(directed, op)
         /\ Oriented(op).src \in Vertex /\ Oriented(op).dst \in Vertex
<1>1. op.src \in Vertex /\ op.dst \in Vertex
  BY DEF WeightedOp
<1>2. CASE directed \/ op.src < op.dst
  BY <1>1, <1>2 DEF Oriented
<1>3. CASE ~(directed \/ op.src < op.dst)
  <2>1. Oriented(op) = [op EXCEPT !.src = op.dst, !.dst = op.src]
    BY <1>3 DEF Oriented
  <2>2. Oriented(op).src = op.dst /\ Oriented(op).dst = op.src
    BY <2>1 DEF WeightedOp
  <2>3. ArcsOf(directed, Oriented(op)) = ArcsOf(directed, op)
    <3>1. ~directed
      BY <1>3
    <3>. HIDE DEF Oriented
    <3>. QED  BY <2>2, <3>1 DEF ArcsOf
  <2>. QED  BY <1>1, <2>2, <2>3
<1>. QED  BY <1>2, <1>3

(* An update that is passed over owes nothing. *)
LEMMA PassOverOwes ==
  ASSUME Base, InPlace(Len(batch) + 1), Owing(next), PassOver
  PROVE  Owing(next)'
<1>1. next <= Len(batch) /\ ~(Kept(next) /\ batch[next].add) /\ next' = next + 1
      /\ edges' = edges /\ weight' = weight /\ batch' = batch /\ directed' = directed
      /\ far' = far /\ queue' = queue
  BY DEF PassOver, graph, paths
<1>2. next \in Nat /\ DOMAIN batch = 1 .. Len(batch) /\ Len(batch) \in Nat /\ next \in DOMAIN batch
  BY <1>1 DEF Base
<1>3. ASSUME NEW u \in Vertex, NEW v \in Vertex, <<u, v>> \in edges, NEW i \in DOMAIN batch,
             next <= i, Final(<<u, v>>, i)
      PROVE  next + 1 <= i
  <2>1. i # next
    <3>. SUFFICES ASSUME i = next PROVE FALSE
      OBVIOUS
    <3>1. Kept(next)
      BY <1>2, <1>3, KeptFinal DEF Final
    <3>2. batch[next].add
      <4>1. <<u, v>> \in Arc /\ next < Len(batch) + 1
        BY <1>1, <1>2 DEF Arc
      <4>. QED  BY <1>2, <1>3, <4>1 DEF InPlace
    <3>. QED  BY <1>1, <3>1, <3>2
  <2>. QED  BY <1>2, <1>3, <2>1
<1>4. \A a, i : Final(a, i)' <=> Final(a, i)
  BY <1>1 DEF Final
<1>. QED  BY <1>1, <1>3, <1>4 DEF Owing

(* The nearest pair is processed; that it is the nearest does not matter.  *)
LEMMA PropagateOwes ==
  ASSUME Base, far \in Distances, queue \in Queues, far[Source] = 0, Owing(Len(batch) + 1), Propagate
  PROVE  /\ far' \in Distances /\ queue' \in Queues /\ far'[Source] = 0
         /\ Owing(Len(batch) + 1)'
<1>. DEFINE Through(i, v) == i[1] + weight[<<i[2], v>>]
            Closer(i) == {v \in Neighbors(i[2]) : i[1] = far[i[2]] /\ Through(i, v) < far[v]}
<1>1. PICK item \in queue :
        /\ far' = [v \in Vertex |-> IF v \in Closer(item) THEN Through(item, v) ELSE far[v]]
        /\ queue' = (queue \ {item}) \cup {<<Through(item, v), v>> : v \in Closer(item)}
  BY Zenon DEF Propagate
<1>2. edges' = edges /\ weight' = weight /\ batch' = batch /\ directed' = directed
  BY DEF Propagate, graph, call
<1>3. PICK k \in 0 .. Infinity, u \in Vertex : item = <<k, u>>
  BY <1>1 DEF Queues
<1>. DEFINE C == Closer(item)
<1>4. \A v : v \in C <=> v \in Vertex /\ <<u, v>> \in edges /\ k = far[u] /\ far[u] + weight[<<u, v>>] < far[v]
  BY <1>3 DEF Neighbors
<1>5. \A v \in C : Through(item, v) = far[u] + weight[<<u, v>>]
  BY <1>3, <1>4
<1>. HIDE DEF Closer, Through
<1>6. Infinity \in Nat /\ weight \in [Arc -> Nat] /\ Source \in Vertex
  BY MaintainedConstants DEF Base
<1>7. \A v \in Vertex : far[v] \in Nat /\ far[v] <= Infinity /\ weight[<<u, v>>] \in Nat
  BY <1>6 DEF Distances, Arc
<1>8. \A v \in C : Through(item, v) \in 0 .. Infinity
  <2>. SUFFICES ASSUME NEW v \in C PROVE Through(item, v) \in 0 .. Infinity
    OBVIOUS
  <2>1. far[u] \in Nat /\ far[v] \in Nat /\ far[v] <= Infinity /\ weight[<<u, v>>] \in Nat
        /\ far[u] + weight[<<u, v>>] < far[v] /\ Through(item, v) = far[u] + weight[<<u, v>>]
    BY <1>4, <1>5, <1>7
  <2>. QED  BY <1>6, <2>1
<1>9. far' \in Distances
  BY <1>1, <1>8 DEF Distances
<1>10. queue' \in Queues
  <2>1. \A v \in C : <<Through(item, v), v>> \in (0 .. Infinity) \X Vertex
    BY <1>4, <1>8
  <2>2. queue' = (queue \ {item}) \cup {<<Through(item, v), v>> : v \in C}
    BY <1>1
  <2>. HIDE DEF C
  <2>. QED  BY <2>1, <2>2 DEF Queues
<1>11. C \in SUBSET Vertex /\ (\A v \in C : <<u, v>> \in edges /\ far[u] + weight[<<u, v>>] < far[v])
  BY <1>4
<1>12. \A v \in C : far'[v] = far[u] + weight[<<u, v>>]
  BY <1>1, <1>4, <1>5
<1>13. \A v \in Vertex \ C : far'[v] = far[v]
  BY <1>1
<1>14. Supported(edges, weight, far)
  BY DEF Owing
<1>. HIDE DEF C
<1>15. Supported(edges, weight, far') /\ u \notin C
  <2>1. u \in Vertex
    OBVIOUS
  <2>. QED  BY <1>6, <1>9, <1>11, <1>12, <1>13, <1>14, LowerSupported
<1>16. ASSUME NEW v \in Vertex PROVE far'[v] <= far[v]
  <2>1. far[v] \in Nat
    BY <1>7
  <2>2. CASE v \in C
    <3>1. far'[v] = far[u] + weight[<<u, v>>] /\ far[u] + weight[<<u, v>>] < far[v]
          /\ far[u] \in Nat /\ weight[<<u, v>>] \in Nat
      BY <1>7, <1>11, <1>12, <2>2
    <3>. QED  BY <2>1, <3>1
  <2>3. CASE v \notin C
    <3>1. far'[v] = far[v]
      BY <1>13, <2>3
    <3>. QED  BY <2>1, <3>1
  <2>. QED  BY <2>2, <2>3
<1>17. far'[Source] = 0
  <2>1. far'[Source] <= 0 /\ far'[Source] \in Nat
    BY <1>6, <1>9, <1>16 DEF Distances
  <2>. QED  BY <2>1
<1>18. ASSUME NEW x \in Vertex, NEW y \in Vertex, <<x, y>> \in edges
       PROVE  Passes(weight, far', x, y) \/ Waits(queue', far', x)
  <2>1. Passes(weight, far, x, y) \/ Waits(queue, far, x)
    <3>1. \A i \in DOMAIN batch : ~(Len(batch) + 1 <= i)
      BY DEF Base
    <3>. QED  BY <1>18, <3>1 DEF Owing
  <2>2. far'[x] \in Nat /\ far[x] \in Nat /\ far'[y] \in Nat /\ far[y] \in Nat /\ weight[<<x, y>>] \in Nat
        /\ far'[y] <= far[y]
    BY <1>6, <1>7, <1>9, <1>16 DEF Distances, Arc
  <2>3. CASE x \in C
    <3>1. <<Through(item, x), x>> \in queue' /\ far'[x] = Through(item, x)
      BY <1>1, <1>5, <1>12, <2>3 DEF C
    <3>. QED  BY <3>1 DEF Waits
  <2>4. CASE x \notin C /\ <<far[x], x>> # item
    <3>1. far'[x] = far[x]
      BY <1>13, <2>4
    <3>2. CASE Waits(queue, far, x)
      BY <1>1, <2>4, <3>1, <3>2 DEF Waits
    <3>3. CASE Passes(weight, far, x, y)
      <4>1. far[y] <= far[x] + weight[<<x, y>>]
        BY <3>3 DEF Passes
      <4>2. far'[y] <= far'[x] + weight[<<x, y>>]
        BY <2>2, <3>1, <4>1
      <4>. QED  BY <4>2 DEF Passes
    <3>. QED  BY <2>1, <3>2, <3>3
  <2>5. CASE <<far[x], x>> = item
    <3>1. x = u /\ k = far[u]
      BY <1>3, <2>5
    <3>2. far'[u] = far[u]
      BY <1>13, <1>15
    <3>3. far'[y] <= far[u] + weight[<<u, y>>]
      <4>1. CASE y \in C
        <5>1. far'[y] = far[u] + weight[<<u, y>>]
          BY <1>12, <4>1
        <5>. QED  BY <2>2, <5>1
      <4>2. CASE y \notin C
        <5>1. ~(far[u] + weight[<<u, y>>] < far[y]) /\ far'[y] = far[y]
          BY <1>4, <1>13, <1>18, <3>1, <4>2 DEF C
        <5>. QED  BY <2>2, <3>1, <5>1
      <4>. QED  BY <4>1, <4>2
    <3>. QED  BY <3>1, <3>2, <3>3 DEF Passes
  <2>. QED  BY <2>3, <2>4, <2>5
<1>19. Owing(Len(batch) + 1)'
  BY <1>2, <1>15, <1>18 DEF Owing
<1>. QED  BY <1>9, <1>10, <1>17, <1>19

(* Arcs that account for a distance still do if they stay and get no longer. *)
LEMMA StaysSupported ==
  ASSUME NEW E, NEW W \in [Arc -> Nat], NEW F, NEW X \in [Arc -> Nat], NEW d \in Distances,
         Supported(E, W, d),
         \A u, v \in Vertex : <<u, v>> \in E => <<u, v>> \in F /\ X[<<u, v>>] <= W[<<u, v>>]
  PROVE  Supported(F, X, d)
<1>. SUFFICES ASSUME NEW S \in SUBSET Vertex, S # {}, \A v \in S : v # Source /\ d[v] # Infinity
              PROVE  \E v \in S : \E u \in Vertex \ S : <<u, v>> \in F /\ d[u] + X[<<u, v>>] <= d[v]
  BY DEF Supported
<1>1. PICK v \in S : \E u \in Vertex \ S : <<u, v>> \in E /\ d[u] + W[<<u, v>>] <= d[v]
  BY DEF Supported
<1>2. PICK u \in Vertex \ S : <<u, v>> \in E /\ d[u] + W[<<u, v>>] <= d[v]
  BY <1>1
<1>3. <<u, v>> \in F /\ X[<<u, v>>] <= W[<<u, v>>]
  BY <1>1, <1>2
<1>4. d[u] \in Nat /\ d[v] \in Nat /\ X[<<u, v>>] \in Nat /\ W[<<u, v>>] \in Nat
  BY MaintainedConstants DEF Distances, Arc
<1>5. d[u] + X[<<u, v>>] <= d[v]
  BY <1>2, <1>3, <1>4
<1>. QED  BY <1>3, <1>5

LEMMA GoalType == Base => GoalWeight \in [Arc -> Nat] /\ GoalEdges \subseteq Arc
<1>. SUFFICES ASSUME Base PROVE GoalWeight \in [Arc -> Nat]
  BY DEF GoalEdges
<1>1. batch \in Seq(WeightedOp) /\ weight \in [Arc -> Nat]
  BY DEF Base
<1>2. ASSUME NEW a \in Arc PROVE GoalWeight[a] \in Nat
  <2>1. CASE Written(a)
    <3>1. PICK i \in DOMAIN batch : Final(a, i)
      BY <1>1, <2>1, LastExists
    <3>2. batch[i].weight \in Nat /\ 1 \in Nat
      <4>1. batch[i] \in WeightedOp
        BY <1>1
      <4>. QED  BY <4>1, MaintainedConstants DEF WeightedOp
    <3>. QED  BY <1>1, <3>1, <3>2, LastChosen DEF Weighs
  <2>2. CASE ~Written(a)
    BY <1>1, <2>2, Unwritten
  <2>. QED  BY <2>1, <2>2
<1>3. GoalWeight = [a \in Arc |-> GoalWeight[a]]
  BY DEF GoalWeight
<1>. HIDE DEF GoalWeight
<1>. QED  BY <1>2, <1>3

(* A batch without removals leaves what supports the distances. *)
LEMMA AdditionsReparable ==
  ASSUME Base, attached # {"weighted"}, ~HasRemoval, far \in Distances, Right(edges, weight, far)
  PROVE  Reparable
<1>1. GoalWeight = weight /\ weight \in [Arc -> Nat] /\ batch \in Seq(WeightedOp) /\ edges \subseteq Arc
  BY UnitGoal DEF Base
<1>2. \A a \in edges : a \in GoalEdges
  <2>. SUFFICES ASSUME NEW a \in edges PROVE a \in GoalEdges
    OBVIOUS
  <2>1. CASE Written(a)
    <3>1. PICK i \in DOMAIN batch : Final(a, i)
      BY <1>1, <2>1, LastExists
    <3>2. batch[i].add
      BY DEF HasRemoval
    <3>. QED  BY <1>1, <3>1, <3>2, LastChosen
  <2>. QED  BY <1>1, <2>1, Unwritten
<1>3. \A a \in Arc : weight[a] <= weight[a]
  BY <1>1
<1>4. Supported(GoalEdges, weight, far)
  <2>. HIDE DEF GoalEdges
  <2>1. \A u, v \in Vertex : <<u, v>> \in edges => <<u, v>> \in GoalEdges /\ weight[<<u, v>>] <= weight[<<u, v>>]
    BY <1>1, <1>2, <1>3
  <2>. QED  BY <1>1, <2>1, StaysSupported DEF Right
<1>5. \A u, v \in Vertex : <<u, v>> \in GoalEdges /\ ~Written(<<u, v>>) => Passes(weight, far, u, v)
  BY Unwritten DEF Right, Triangular, Arc
<1>. QED  BY <1>1, <1>4, <1>5 DEF Reparable

(* Neither does one that removes no edge and lengthens none. *)
LEMMA ShortensReparable ==
  ASSUME Base, ~(\E i \in DOMAIN batch : Kept(i) /\ Lengthens(batch[i])),
         far \in Distances, Right(edges, weight, far)
  PROVE  Reparable
<1>1. GoalWeight \in [Arc -> Nat] /\ weight \in [Arc -> Nat] /\ batch \in Seq(WeightedOp) /\ edges \subseteq Arc
      /\ directed \in BOOLEAN
  BY GoalType DEF Base
<1>2. ASSUME NEW u \in Vertex, NEW v \in Vertex, <<u, v>> \in edges
      PROVE  <<u, v>> \in GoalEdges /\ GoalWeight[<<u, v>>] <= weight[<<u, v>>]
  <2>. DEFINE a == <<u, v>>
  <2>1. a \in Arc /\ weight[a] \in Nat
    BY <1>1 DEF Arc
  <2>2. CASE ~Written(a)
    <3>1. weight[a] <= weight[a]
      BY <2>1
    <3>. HIDE DEF a
    <3>2. GoalWeight[a] = weight[a] /\ a \in GoalEdges
      BY <1>2, <2>1, <2>2, Unwritten DEF a
    <3>. QED  BY <3>1, <3>2 DEF a
  <2>3. CASE Written(a)
    <3>1. PICK i \in DOMAIN batch : Final(a, i)
      BY <1>1, <2>3, LastExists
    <3>. DEFINE op == batch[i]
    <3>2. op \in WeightedOp /\ op.src \in Vertex /\ op.dst \in Vertex /\ op.weight \in Nat
      <4>1. op \in WeightedOp
        BY <1>1
      <4>. QED  BY <4>1, MaintainedConstants DEF WeightedOp
    <3>3. a \in ArcsOf(directed, op)
      BY <3>1 DEF Final
    <3>4. Kept(i)
      BY <3>1, <3>3, KeptFinal
    <3>5. ~Lengthens(op)
      BY <3>4
    <3>6. <<op.src, op.dst>> \in edges /\ weight[<<op.src, op.dst>>] = weight[a]
      <4>1. a = <<op.src, op.dst>> \/ (~directed /\ a = <<op.dst, op.src>>)
        BY <3>3 DEF ArcsOf
      <4>2. CASE a = <<op.src, op.dst>>
        BY <1>2, <4>2
      <4>3. CASE ~directed /\ a = <<op.dst, op.src>>
        BY <1>2, <3>2, <4>3 DEF Base, Mirrored
      <4>. QED  BY <4>1, <4>2, <4>3
    <3>7. op.add /\ ~(op.weight > weight[a])
      BY <3>5, <3>6 DEF Lengthens
    <3>8. a \in GoalEdges /\ GoalWeight[a] = op.weight
      BY <1>1, <2>1, <3>1, <3>7, LastChosen DEF Weighs
    <3>9. op.weight <= weight[a]
      BY <2>1, <3>2, <3>7
    <3>. QED  BY <3>8, <3>9
  <2>. QED  BY <2>2, <2>3
<1>3. Supported(GoalEdges, GoalWeight, far)
  BY <1>1, <1>2, StaysSupported DEF Right
<1>4. ASSUME NEW u \in Vertex, NEW v \in Vertex, <<u, v>> \in GoalEdges, ~Written(<<u, v>>)
      PROVE  Passes(GoalWeight, far, u, v)
  <2>1. <<u, v>> \in Arc
    BY DEF Arc
  <2>2. GoalWeight[<<u, v>>] = weight[<<u, v>>] /\ <<u, v>> \in edges
    BY <1>4, <2>1, Unwritten
  <2>. QED  BY <2>2 DEF Right, Triangular, Passes
<1>. QED  BY <1>3, <1>4 DEF Reparable

-----------------------------------------------------------------------------
(* The steps of the other analytics. *)
Elsewhere ==
  /\ phase \notin PathPhase /\ phase' \notin PathPhase
  /\ far' = far /\ queue' = queue /\ restart' = restart /\ attached' = attached
  /\ "paths" \in todo' <=> "paths" \in todo
  /\ "weighted" \notin attached
  /\ UNCHANGED <<graph, batch>> \/ (phase \in Before /\ UpdateGraph(phase))

LEMMA ElsewhereSteps ==
  ASSUME Base, ComponentsStep \/ TrianglesStep \/ CoresStep \/ RanksStep
  PROVE  Elsewhere
<1>1. \A a \in {"components", "triangles", "cores", "ranks"} : a \in attached => "weighted" \notin attached
  BY WeightedAlone
<1>2. CASE ComponentsStep
  <2>0. far' = far /\ queue' = queue /\ restart' = restart
    BY <1>2 DEF ComponentsStep, paths
  <2>1. CASE Takes("components") /\ BeginComponents
    BY <1>1, <2>0, <2>1 DEF Takes, BeginComponents, Base, PathPhase, Elsewhere, call
  <2>2. ASSUME UNCHANGED caller, \/ UpdateGraph("components") /\ UNCHANGED components
                                 \/ TakeApart \/ Rebuild \/ Replay \/ EndComponents
        PROVE  Elsewhere
    <3>1. phase \in {"components", "rebuild"} /\ phase' \in {"components", "rebuild", "idle"}
          /\ (UNCHANGED <<graph, batch>> \/ (phase \in Before /\ UpdateGraph(phase)))
      BY <2>2 DEF Before, UpdateGraph, TakeApart, Rebuild, Replay, EndComponents, Return, Updated, call
    <3>2. "weighted" \notin attached
      BY <1>1, <3>1 DEF Base, Owned
    <3>. QED  BY <2>0, <2>2, <3>1, <3>2 DEF caller, PathPhase, Elsewhere
  <2>3. CASE UNCHANGED caller /\ "components" \in attached /\ todo = {} /\ \E v \in Vertex : QueryComponent(v)
    BY <1>1, <2>0, <2>3 DEF QueryComponent, caller, PathPhase, Elsewhere, call
  <2>. QED  BY <1>2, <2>1, <2>2, <2>3 DEF ComponentsStep
<1>3. CASE TrianglesStep
  <2>0. far' = far /\ queue' = queue /\ restart' = restart
    BY <1>3 DEF TrianglesStep, paths
  <2>1. CASE Takes("triangles") /\ BeginTriangles
    BY <1>1, <2>0, <2>1 DEF Takes, BeginTriangles, Base, PathPhase, Elsewhere, call
  <2>2. ASSUME UNCHANGED caller, CountUpdate \/ EndTriangles
        PROVE  Elsewhere
    <3>1. phase = "triangles" /\ phase' \in {"triangles", "idle"}
          /\ (UNCHANGED <<graph, batch>> \/ (phase \in Before /\ UpdateGraph(phase)))
      BY <2>2 DEF Before, UpdateGraph, CountUpdate, EndTriangles, Return, Updated
    <3>2. "weighted" \notin attached
      BY <1>1, <3>1 DEF Base, Owned
    <3>. QED  BY <2>0, <2>2, <3>1, <3>2 DEF caller, PathPhase, Elsewhere
  <2>3. CASE UNCHANGED caller /\ "triangles" \in attached /\ todo = {} /\ RecomputeTriangles
    BY <1>1, <2>0, <2>3 DEF RecomputeTriangles, caller, PathPhase, Elsewhere, call
  <2>. QED  BY <1>3, <2>1, <2>2, <2>3 DEF TrianglesStep
<1>4. CASE CoresStep
  <2>0. far' = far /\ queue' = queue /\ restart' = restart
    BY <1>4 DEF CoresStep, paths
  <2>1. CASE Takes("cores") /\ BeginCores
    BY <1>1, <2>0, <2>1 DEF Takes, BeginCores, Base, PathPhase, Elsewhere, call
  <2>2. ASSUME UNCHANGED caller, \/ UpdateGraph("cores") /\ UNCHANGED cores
                                 \/ PeelCores \/ Peel \/ EndCores
        PROVE  Elsewhere
    <3>1. phase \in {"cores", "peel"} /\ phase' \in {"cores", "peel", "idle"}
          /\ (UNCHANGED <<graph, batch>> \/ (phase \in Before /\ UpdateGraph(phase)))
      BY <2>2 DEF Before, UpdateGraph, PeelCores, StartPeeling, Peel, EndCores, Return, Updated, call
    <3>2. "weighted" \notin attached
      BY <1>1, <3>1 DEF Base, Owned
    <3>. QED  BY <2>0, <2>2, <3>1, <3>2 DEF caller, PathPhase, Elsewhere
  <2>3. CASE UNCHANGED caller /\ "cores" \in attached /\ todo = {} /\ RecomputeCores
    BY <1>1, <2>0, <2>3 DEF RecomputeCores, StartPeeling, caller, PathPhase, Elsewhere, call
  <2>. QED  BY <1>4, <2>1, <2>2, <2>3 DEF CoresStep
<1>5. CASE RanksStep
  <2>0. far' = far /\ queue' = queue /\ restart' = restart
    BY <1>5 DEF RanksStep, others, paths
  <2>1. CASE Takes("ranks") /\ BeginRanks
    BY <1>1, <2>0, <2>1 DEF Takes, BeginRanks, Base, PathPhase, Elsewhere, call
  <2>2. ASSUME UNCHANGED caller, UpdateRanked \/ SolveAfresh \/ StartRounds \/ Round \/ EndRounds
        PROVE  Elsewhere
    <3>1. phase \in {"ranks", "rounds"} /\ phase' \in {"ranks", "rounds", "idle"}
          /\ (UNCHANGED <<graph, batch>> \/ (phase \in Before /\ UpdateGraph(phase)))
      <4>1. CASE UpdateRanked
        BY <4>1 DEF Before, UpdateRanked, UpdateGraph
      <4>2. CASE SolveAfresh
        BY <4>2 DEF SolveAfresh, Solve, LeaveRanks, Return, Updated
      <4>3. CASE StartRounds
        BY <4>3 DEF StartRounds, Updated, call
      <4>4. CASE Round
        BY <4>4 DEF Round, Solve, LeaveRanks, Return, call
      <4>5. CASE EndRounds
        BY <4>5 DEF EndRounds, LeaveRanks, Return
      <4>. QED  BY <2>2, <4>1, <4>2, <4>3, <4>4, <4>5
    <3>2. "weighted" \notin attached
      BY <1>1, <3>1 DEF Base, Owned
    <3>. QED  BY <2>0, <2>2, <3>1, <3>2 DEF caller, PathPhase, Elsewhere
  <2>3. CASE UNCHANGED caller /\ "ranks" \in attached /\ todo = {} /\ RecomputeRanks
    BY <1>1, <2>0, <2>3 DEF RecomputeRanks, Solve, LeaveRanks, Return, caller, PathPhase, Elsewhere
  <2>. QED  BY <1>5, <2>1, <2>2, <2>3 DEF RanksStep
<1>. QED  BY <1>2, <1>3, <1>4, <1>5

(* What the paths rely on is the same after a step that leaves them and    *)
(* updates the graph in its turn, or not at all.                           *)
LEMMA GoalsStay ==
  ASSUME Base, InGraph, UNCHANGED <<graph, batch>> \/ (\E p \in Before : phase = p /\ UpdateGraph(p)), far' = far
  PROVE  /\ GoalEdges' = GoalEdges /\ GoalWeight' = GoalWeight
         /\ batch' = batch /\ (HasRemoval' <=> HasRemoval)
         /\ Reparable => Reparable'
         /\ Right(GoalEdges, GoalWeight, far) => Right(GoalEdges, GoalWeight, far)'
<1>1. batch' = batch /\ directed' = directed
  BY DEF UpdateGraph, graph
<1>2. GoalEdges' = GoalEdges /\ GoalWeight' = GoalWeight
  <2>1. CASE UNCHANGED <<graph, batch>>
    BY <2>1, StillInPlace
  <2>2. ASSUME NEW p \in Before, phase = p, UpdateGraph(p)
        PROVE GoalEdges' = GoalEdges /\ GoalWeight' = GoalWeight
    <3>1. InPlace(next)
      BY <2>2 DEF InGraph
    <3>. QED  BY <2>2, <3>1, UpdateInPlace
  <2>. QED  BY <2>1, <2>2
<1>3. \A a : Written(a)' <=> Written(a)
  BY <1>1 DEF Written
<1>4. HasRemoval' <=> HasRemoval
  BY <1>1 DEF HasRemoval
<1>5. Right(GoalEdges, GoalWeight, far)' <=> Right(GoalEdges', GoalWeight', far')
  BY DEF Right, Supported, Triangular, Passes
<1>6. Reparable => Reparable'
  BY <1>2, <1>3 DEF Reparable, Supported, Passes
<1>. QED  BY <1>1, <1>2, <1>4, <1>5, <1>6

LEMMA ElsewherePaths ==
  ASSUME Base, InGraph, PathsInv, Elsewhere
  PROVE  PathsInv'
<1>. SUFFICES ASSUME {"paths", "weighted"} \cap attached' # {} PROVE PathsInv'
  BY DEF PathsInv
<1>1. "paths" \in attached /\ "weighted" \notin attached /\ attached' = attached
  BY DEF Elsewhere
<1>2. /\ far \in Distances /\ queue \in Queues /\ far[Source] = 0
      /\ "paths" \in todo => HasRemoval \/ Reparable
      /\ "paths" \notin todo => Right(GoalEdges, GoalWeight, far)
  BY <1>1 DEF PathsInv, Elsewhere
<1>3. (HasRemoval' <=> HasRemoval) /\ (Reparable => Reparable')
      /\ (Right(GoalEdges, GoalWeight, far) => Right(GoalEdges, GoalWeight, far)')
  BY GoalsStay DEF Elsewhere
<1>4. phase' \notin PathPhase /\ ("paths" \in todo' <=> "paths" \in todo) /\ far' = far /\ queue' = queue
  BY DEF Elsewhere
<1>. QED  BY <1>1, <1>2, <1>3, <1>4 DEF PathsInv, PathPhase

LEMMA BatchPaths ==
  ASSUME Base, Base', InGraph, PathsInv, GivesBatch
  PROVE  PathsInv'
<1>. SUFFICES ASSUME {"paths", "weighted"} \cap attached' # {} PROVE PathsInv'
  BY DEF PathsInv
<1>1. /\ phase = "idle" /\ phase' = "idle" /\ todo = {} /\ attached' = attached
      /\ far' = far /\ queue' = queue /\ edges' = edges /\ weight' = weight
  BY DEF GivesBatch, NewBatch, results, others, paths, graph
<1>2. /\ far \in Distances /\ queue \in Queues /\ far[Source] = 0
      /\ "weighted" \in attached => Right(edges, weight, far)
      /\ "paths" \in attached => Right(GoalEdges, GoalWeight, far)
  BY <1>1 DEF PathsInv, PathPhase
<1>3. CASE "paths" \in attached
  <2>1. attached # {"weighted"} /\ "weighted" \notin attached /\ InPlace(Len(batch) + 1)
    BY <1>1, <1>3, WeightedAlone DEF InGraph
  <2>2. Right(edges, weight, far)
    BY <1>2, <1>3, <2>1, AllInPlace
  <2>3. Right(edges, weight, far)' /\ (far \in Distances)' /\ (attached # {"weighted"})'
    BY <1>1, <1>2, <2>1, <2>2 DEF Right, Supported, Triangular, Passes
  <2>4. (Base /\ attached # {"weighted"} /\ ~HasRemoval /\ far \in Distances /\ Right(edges, weight, far)
          => Reparable)'
    BY AdditionsReparable, PTL
  <2>5. HasRemoval' \/ Reparable'
    BY <2>3, <2>4
  <2>6. "paths" \in todo'
    BY <1>1, <1>3 DEF GivesBatch, NewBatch
  <2>. QED  BY <1>1, <1>2, <2>1, <2>5, <2>6 DEF PathsInv, PathPhase
<1>4. CASE "paths" \notin attached
  <2>1. "weighted" \in attached /\ "paths" \notin todo'
    BY <1>1, <1>4 DEF GivesBatch, NewBatch
  <2>2. Right(edges, weight, far)'
    BY <1>1, <1>2, <2>1 DEF Right, Supported, Triangular, Passes
  <2>. QED  BY <1>1, <1>2, <1>4, <2>1, <2>2 DEF PathsInv, PathPhase
<1>. QED  BY <1>3, <1>4

LEMMA PathsPaths ==
  ASSUME Base, InGraph, PathsInv, PathsStep
  PROVE  PathsInv'
<1>. SUFFICES ASSUME {"paths", "weighted"} \cap attached' # {} PROVE PathsInv'
  BY DEF PathsInv
<1>1. attached' = attached
  BY DEF PathsStep, Takes, caller
<1>2. /\ far \in Distances /\ queue \in Queues /\ far[Source] = 0
      /\ phase \in PathPhase => "paths" \notin todo /\ "weighted" \notin todo
      /\ "paths" \in todo \/ phase = "paths" => HasRemoval \/ Reparable
      /\ phase = "weighted" => restart \/ Reparable
      /\ phase = "relax" => ~HasRemoval
      /\ phase \in {"relax", "reweigh"} => Owing(next)
      /\ phase = "propagate" => Owing(Len(batch) + 1)
      /\ "weighted" \in attached /\ phase = "idle" => Right(edges, weight, far)
      /\ "paths" \in attached /\ "paths" \notin todo /\ phase \notin PathPhase
           => Right(GoalEdges, GoalWeight, far)
  BY <1>1 DEF PathsInv
<1>3. "paths" \in attached => "weighted" \notin attached /\ attached # {"weighted"}
  BY WeightedAlone
<1>4. todo \subseteq attached /\ Owned(phase)
  BY DEF Base
<1>5. CASE Takes("paths") /\ BeginPaths
  <2>1. /\ phase' = "paths" /\ todo' = todo \ {"paths"} /\ "paths" \in todo
        /\ far' = far /\ queue' = queue /\ UNCHANGED <<graph, batch>>
    BY <1>5 DEF Takes, BeginPaths, call, paths
  <2>2. HasRemoval' \/ Reparable'
    BY <1>2, <2>1, GoalsStay
  <2>. QED  BY <1>1, <1>2, <1>3, <1>4, <2>1, <2>2 DEF PathsInv, PathPhase
<1>6. CASE Takes("weighted") /\ BeginWeighted
  <2>1. /\ phase = "idle" /\ phase' = "weighted" /\ todo' = todo \ {"weighted"} /\ "weighted" \in todo
        /\ far' = far /\ queue' = queue /\ UNCHANGED <<graph, batch>>
        /\ restart' = \E i \in DOMAIN batch : Kept(i) /\ Lengthens(batch[i])
    BY <1>6 DEF Takes, BeginWeighted, call, paths
  <2>2. restart' \/ Reparable'
    BY <1>2, <1>4, <2>1, ShortensReparable, GoalsStay
  <2>3. attached = {"weighted"}
    BY <1>4, <2>1, WeightedAlone
  <2>. QED  BY <1>1, <1>2, <1>4, <2>1, <2>2, <2>3 DEF PathsInv, PathPhase
<1>7. CASE Takes("weighted") /\ RejectWeighted
  <2>1. /\ phase = "idle" /\ phase' = "idle" /\ "weighted" \in todo
        /\ far' = far /\ queue' = queue /\ UNCHANGED <<graph, batch>>
    BY <1>7 DEF Takes, RejectWeighted, call, paths
  <2>2. attached = {"weighted"} /\ todo' \subseteq attached
    BY <1>4, <1>7, <2>1, WeightedAlone DEF Takes
  <2>3. Right(edges, weight, far)'
    BY <1>2, <2>1, <2>2 DEF Right, Supported, Triangular, Passes, graph
  <2>. QED  BY <1>1, <1>2, <2>1, <2>2, <2>3 DEF PathsInv, PathPhase
<1>8. ASSUME UNCHANGED caller, NEW p \in {"paths", "weighted"}, UpdateGraph(p), UNCHANGED <<paths, restart>>
      PROVE  PathsInv'
  <2>1. /\ phase = p /\ phase' = p /\ todo' = todo
        /\ far' = far /\ queue' = queue /\ restart' = restart
    BY <1>8 DEF UpdateGraph, caller, paths
  <2>2. (HasRemoval => HasRemoval') /\ (Reparable => Reparable')
    BY <1>8, <2>1, GoalsStay DEF Before
  <2>. QED  BY <1>1, <1>2, <1>8, <2>1, <2>2 DEF PathsInv, PathPhase
<1>9. CASE UNCHANGED caller /\ (RestartPaths \/ RestartWeighted
                                \/ ({"paths", "weighted"} \cap attached # {} /\ todo = {} /\ RecomputePaths))
  <2>1. /\ phase' = "propagate" /\ todo' = todo /\ "paths" \notin todo /\ "weighted" \notin todo
        /\ UNCHANGED <<graph, batch>> /\ StartOver(vertexCount)
    BY <1>2, <1>9 DEF RestartPaths, RestartWeighted, RecomputePaths, Updated, StartOver, PathPhase, call, caller
  <2>2. /\ far' \in Distances /\ queue' \in Queues /\ far'[Source] = 0
        /\ Owing(Len(batch) + 1)'
    BY <2>1, StartOverOwes
  <2>. QED  BY <2>1, <2>2 DEF PathsInv, PathPhase
<1>10. CASE UNCHANGED caller /\ RelaxPaths
  <2>1. /\ phase = "paths" /\ phase' = "relax" /\ todo' = todo /\ ~HasRemoval
        /\ UNCHANGED <<graph, batch>> /\ StartRelaxing("relax") /\ far' = far /\ queue' = {}
    BY <1>10 DEF RelaxPaths, StartRelaxing, Updated, caller
  <2>2. InPlace(Len(batch) + 1)
    BY <1>10 DEF RelaxPaths, Updated, InGraph, Base, Before
  <2>3. Owing(next)'
    BY <1>2, <2>1, <2>2, ReparableOwes
  <2>4. ~HasRemoval'
    BY <2>1 DEF HasRemoval
  <2>. QED  BY <1>2, <2>1, <2>3, <2>4 DEF PathsInv, PathPhase, Queues
<1>11. CASE UNCHANGED caller /\ RelaxWeighted
  <2>1. /\ phase = "weighted" /\ phase' = "reweigh" /\ todo' = todo /\ ~restart
        /\ UNCHANGED <<graph, batch>> /\ StartRelaxing("reweigh") /\ far' = far /\ queue' = {}
    BY <1>11 DEF RelaxWeighted, StartRelaxing, Updated, caller
  <2>2. InPlace(Len(batch) + 1)
    BY <1>11 DEF RelaxWeighted, Updated, InGraph, Base, Before
  <2>3. Owing(next)'
    BY <1>2, <2>1, <2>2, ReparableOwes
  <2>. QED  BY <1>2, <2>1, <2>3 DEF PathsInv, PathPhase, Queues
<1>12. CASE UNCHANGED caller /\ RelaxUpdate
  <2>1. /\ phase = "relax" /\ phase' = "relax" /\ todo' = todo /\ batch' = batch
        /\ next <= Len(batch) /\ Relax(batch[next])
    BY <1>12 DEF RelaxUpdate, Relax, caller
  <2>2. InPlace(Len(batch) + 1) /\ ~HasRemoval
    BY <1>2, <1>3, <1>4, <2>1 DEF InGraph, After, Owned
  <2>3. next \in DOMAIN batch /\ batch[next] \in WeightedOp
    BY <2>1 DEF Base
  <2>4. batch[next].add /\ batch[next].src \in Vertex /\ batch[next].dst \in Vertex
    BY <2>2, <2>3 DEF HasRemoval, WeightedOp
  <2>5. ArcsOf(directed, batch[next]) \subseteq edges
    BY <2>2, <2>3, <2>4, AddedThere
  <2>6. /\ far' \in Distances /\ queue' \in Queues /\ far'[Source] = 0
        /\ Owing(next)'
    BY <1>2, <2>1, <2>4, <2>5, RelaxOwes
  <2>7. ~HasRemoval'
    BY <2>1, <2>2 DEF HasRemoval
  <2>. QED  BY <1>2, <2>1, <2>6, <2>7 DEF PathsInv, PathPhase
<1>13. CASE UNCHANGED caller /\ RelaxKept
  <2>1. /\ phase = "reweigh" /\ phase' = "reweigh" /\ todo' = todo
        /\ next <= Len(batch) /\ Relax(Oriented(batch[next])) /\ Kept(next) /\ batch[next].add
    BY <1>13 DEF RelaxKept, Relax, caller
  <2>2. InPlace(Len(batch) + 1)
    BY <2>1 DEF InGraph
  <2>3. next \in DOMAIN batch /\ batch[next] \in WeightedOp
    BY <2>1 DEF Base
  <2>4. ArcsOf(directed, batch[next]) \subseteq edges
    BY <2>1, <2>2, <2>3, AddedThere
  <2>5. /\ ArcsOf(directed, Oriented(batch[next])) = ArcsOf(directed, batch[next])
        /\ Oriented(batch[next]).src \in Vertex /\ Oriented(batch[next]).dst \in Vertex
    BY <2>3, OrientedSame
  <2>6. /\ far' \in Distances /\ queue' \in Queues /\ far'[Source] = 0
        /\ Owing(next)'
    BY <1>2, <2>1, <2>4, <2>5, RelaxOwes
  <2>. QED  BY <1>2, <2>1, <2>6 DEF PathsInv, PathPhase
<1>14. CASE UNCHANGED caller /\ PassOver
  <2>1. /\ phase = "reweigh" /\ phase' = "reweigh" /\ todo' = todo /\ far' = far /\ queue' = queue
    BY <1>14 DEF PassOver, caller, paths
  <2>2. InPlace(Len(batch) + 1)
    BY <2>1 DEF InGraph
  <2>3. Owing(next)'
    BY <1>2, <1>14, <2>1, <2>2, PassOverOwes
  <2>. QED  BY <1>2, <2>1, <2>3 DEF PathsInv, PathPhase
<1>15. CASE UNCHANGED caller /\ (EndRelaxing("relax") \/ EndRelaxing("reweigh"))
  <2>1. /\ phase \in {"relax", "reweigh"} /\ phase' = "propagate" /\ todo' = todo /\ far' = far /\ queue' = queue
        /\ UNCHANGED <<graph, batch>> /\ next > Len(batch)
    BY <1>15 DEF EndRelaxing, Updated, caller, paths, call
  <2>2. next = Len(batch) + 1
    BY <2>1 DEF Base
  <2>3. Owing(Len(batch) + 1)
    BY <1>2, <2>1, <2>2
  <2>4. Owing(Len(batch) + 1)'
    BY <2>1, <2>3 DEF Owing, Supported, Passes, Waits, Final, graph
  <2>. QED  BY <1>2, <2>1, <2>4 DEF PathsInv, PathPhase
<1>16. CASE UNCHANGED caller /\ Propagate
  <2>1. phase = "propagate" /\ phase' = "propagate" /\ todo' = todo
    BY <1>16 DEF Propagate, caller
  <2>2. /\ far' \in Distances /\ queue' \in Queues /\ far'[Source] = 0
        /\ Owing(Len(batch) + 1)'
    BY <1>2, <1>16, <2>1, PropagateOwes
  <2>. QED  BY <1>2, <2>1, <2>2 DEF PathsInv, PathPhase
<1>17. CASE UNCHANGED caller /\ EndPaths
  <2>1. /\ phase = "propagate" /\ phase' = "idle" /\ todo' = todo /\ queue = {}
        /\ far' = far /\ queue' = queue /\ UNCHANGED <<graph, batch>>
    BY <1>17 DEF EndPaths, Return, caller, paths
  <2>2. Right(edges, weight, far)
    <3>1. \A i \in DOMAIN batch : ~(Len(batch) + 1 <= i)
      BY DEF Base
    <3>2. \A u \in Vertex : ~Waits(queue, far, u)
      BY <2>1 DEF Waits
    <3>. QED  BY <1>2, <2>1, <3>1, <3>2 DEF Owing, Right, Triangular
  <2>3. Right(edges, weight, far)'
    BY <2>1, <2>2 DEF Right, Supported, Triangular, Passes, graph
  <2>4. "paths" \in attached => Right(GoalEdges, GoalWeight, far)'
    <3>. SUFFICES ASSUME "paths" \in attached PROVE Right(GoalEdges, GoalWeight, far)'
      OBVIOUS
    <3>1. GoalEdges = edges /\ GoalWeight = weight
      BY <1>3, <2>1, AllInPlace DEF InGraph, After
    <3>2. Right(GoalEdges, GoalWeight, far)
      BY <2>2, <3>1
    <3>. QED  BY <2>1, <3>2, GoalsStay
  <2>. QED  BY <1>1, <1>2, <2>1, <2>3, <2>4 DEF PathsInv, PathPhase
<1>. QED  BY <1>5, <1>6, <1>7, <1>8, <1>9, <1>10, <1>11, <1>12, <1>13, <1>14, <1>15, <1>16, <1>17 DEF PathsStep

LEMMA StepPaths == Base /\ InGraph /\ PathsInv /\ [Next]_vars => PathsInv'
<1>. SUFFICES ASSUME Base, InGraph, PathsInv, [Next]_vars PROVE PathsInv'
  OBVIOUS
<1>1. CASE UNCHANGED vars
  <2>1. UNCHANGED <<graph, batch, next, phase, attached, todo, far, queue, restart>>
    BY <1>1 DEF vars, call, caller, results, others, paths
  <2>2. (HasRemoval' <=> HasRemoval) /\ (Reparable => Reparable')
        /\ (Right(GoalEdges, GoalWeight, far) => Right(GoalEdges, GoalWeight, far)')
    BY <2>1, GoalsStay
  <2>3. (Owing(next) => Owing(next)') /\ (Owing(Len(batch) + 1) => Owing(Len(batch) + 1)')
    BY <2>1 DEF Owing, Supported, Passes, Waits, Final, graph
  <2>4. Right(edges, weight, far) => Right(edges, weight, far)'
    BY <2>1 DEF Right, Supported, Triangular, Passes, graph
  <2>. QED  BY <2>1, <2>2, <2>3, <2>4 DEF PathsInv
<1>2. CASE GivesBatch
  BY <1>2, StepBase, BatchPaths
<1>3. CASE ComponentsStep \/ TrianglesStep \/ CoresStep \/ RanksStep
  BY <1>3, ElsewhereSteps, ElsewherePaths
<1>4. CASE PathsStep
  BY <1>4, PathsPaths
<1>. QED  BY <1>1, <1>2, <1>3, <1>4, StepCases

LEMMA InitPathsInv == Init => PathsInv
<1>. SUFFICES ASSUME Init PROVE PathsInv
  OBVIOUS
<1>1. Base /\ InGraph
  BY InitBase, InitInGraph
<1>2. /\ phase = "idle" /\ todo = {} /\ queue = {} /\ edges = {} /\ batch = <<>>
      /\ far = [v \in Vertex |-> IF v = Source /\ Source < vertexCount THEN 0 ELSE Infinity]
  BY DEF Init, InitPaths
<1>3. far \in Distances /\ far[Source] = 0 /\ \A v \in Vertex \ {Source} : far[v] = Infinity
  BY <1>1, <1>2, MaintainedConstants DEF Base, Distances
<1>4. Right(edges, weight, far)
  BY <1>2, <1>3, StartSupported DEF Right, Triangular
<1>5. GoalEdges = edges /\ GoalWeight = weight
  <2>1. InPlace(Len(batch) + 1)
    <3>1. DOMAIN batch = {}
      BY <1>2
    <3>. QED  BY <3>1 DEF InPlace
  <2>. QED  BY <1>1, <2>1, AllInPlace
<1>6. Right(GoalEdges, GoalWeight, far)
  BY <1>4, <1>5
<1>. QED  BY <1>2, <1>3, <1>4, <1>6 DEF PathsInv, PathPhase, Queues

-----------------------------------------------------------------------------
(* Base, InGraph and PathsInv are inductive. *)
LEMMA PathsAlways == Spec => [](Base /\ InGraph /\ PathsInv)
<1>1. Init => Base /\ InGraph /\ PathsInv
  BY InitBase, InitInGraph, InitPathsInv
<1>2. Base /\ InGraph /\ PathsInv /\ [Next]_vars => (Base /\ InGraph /\ PathsInv)'
  BY StepBase, StepInGraph, StepPaths
<1>. QED  BY <1>1, <1>2, PTL DEF Spec

LEMMA PathsRight ==
  ASSUME Base, InGraph, PathsInv, Settled, "paths" \in attached
  PROVE  PathsExact
<1>1. attached # {"weighted"} /\ todo # attached /\ phase = "idle" /\ todo = {}
  BY WeightedAlone DEF Settled
<1>2. Right(edges, weight, far) /\ far \in Distances
  <2>1. GoalEdges = edges /\ GoalWeight = weight
    BY <1>1, AllInPlace DEF InGraph
  <2>. QED  BY <1>1, <2>1 DEF PathsInv, PathPhase
<1>3. weight = [a \in Arc |-> 1] /\ edges \subseteq Arc
  BY <1>1 DEF Base
<1>4. \A u, v \in Vertex : weight[<<u, v>>] = 1
  BY <1>3 DEF Arc
<1>5. \A u, v \in Vertex : <<u, v>> \in edges => far[v] <= far[u] + 1
  <2>1. \A u, v \in Vertex : <<u, v>> \in edges => far[v] <= far[u] + weight[<<u, v>>]
    BY <1>2 DEF Right, Triangular, Passes
  <2>. QED  BY <1>4, <2>1
<1>6. ASSUME NEW v \in Vertex \ {Source}, far[v] # Infinity
      PROVE  \E u \in Vertex : <<u, v>> \in edges /\ far[u] + 1 = far[v]
  <2>1. \E w \in {v} : \E u \in Vertex \ {v} : <<u, w>> \in edges /\ far[u] + weight[<<u, w>>] <= far[w]
    <3>. DEFINE S == {v}
    <3>1. S \in SUBSET Vertex /\ S # {} /\ \A w \in S : w # Source /\ far[w] # Infinity
      BY <1>6
    <3>2. Supported(edges, weight, far)
      BY <1>2 DEF Right
    <3>. HIDE DEF S
    <3>3. \E w \in S : \E u \in Vertex \ S : <<u, w>> \in edges /\ far[u] + weight[<<u, w>>] <= far[w]
      BY <3>1, <3>2 DEF Supported
    <3>. QED  BY <3>3 DEF S
  <2>2. PICK u \in Vertex \ {v} : <<u, v>> \in edges /\ far[u] + weight[<<u, v>>] <= far[v]
    BY <2>1
  <2>3. far[u] \in Nat /\ far[v] \in Nat
    BY <1>2, MaintainedConstants DEF Distances
  <2>4. far[u] + 1 <= far[v] /\ far[v] <= far[u] + 1
    BY <1>4, <1>5, <2>2
  <2>5. far[u] + 1 = far[v]
    BY <2>3, <2>4
  <2>. QED  BY <2>2, <2>5
<1>7. \A a \in edges : far[a[2]] <= far[a[1]] + 1
  <2>1. \A a \in edges : \E u, v \in Vertex : a = <<u, v>>
    BY <1>3 DEF Arc
  <2>. QED  BY <1>5, <2>1
<1>. QED  BY <1>2, <1>6, <1>7 DEF PathsExact, Right

LEMMA WeightedRight ==
  ASSUME Base, PathsInv, Settled, "weighted" \in attached
  PROVE  WeightedExact
<1>1. Right(edges, weight, far) /\ far \in Distances
  BY DEF PathsInv, Settled
<1>2. edges \subseteq Arc /\ weight \in [Arc -> Nat]
  BY DEF Base
<1>3. \A u, v \in Vertex : <<u, v>> \in edges => far[v] <= far[u] + weight[<<u, v>>]
  BY <1>1 DEF Right, Triangular, Passes
<1>4. ASSUME NEW S \in SUBSET {v \in Vertex \ {Source} : far[v] # Infinity}, S # {}
      PROVE  \E u \in Vertex \ S, v \in S : <<u, v>> \in edges /\ far[u] + weight[<<u, v>>] = far[v]
  <2>1. PICK v \in S : \E u \in Vertex \ S : <<u, v>> \in edges /\ far[u] + weight[<<u, v>>] <= far[v]
    BY <1>1, <1>4 DEF Right, Supported
  <2>2. PICK u \in Vertex \ S : <<u, v>> \in edges /\ far[u] + weight[<<u, v>>] <= far[v]
    BY <2>1
  <2>3. v \in Vertex /\ far[u] \in Nat /\ far[v] \in Nat /\ weight[<<u, v>>] \in Nat
    BY <1>1, <1>2, MaintainedConstants DEF Distances, Arc
  <2>4. far[v] <= far[u] + weight[<<u, v>>]
    BY <1>3, <2>2, <2>3
  <2>5. far[u] + weight[<<u, v>>] = far[v]
    BY <2>2, <2>3, <2>4
  <2>. QED  BY <2>2, <2>5
<1>5. \A a \in edges : far[a[2]] <= far[a[1]] + weight[a]
  <2>1. \A a \in edges : \E u, v \in Vertex : a = <<u, v>>
    BY <1>2 DEF Arc
  <2>. QED  BY <1>3, <2>1
<1>. QED  BY <1>1, <1>4, <1>5 DEF WeightedExact, Right

(* Unit distances stay shortest: whatever batches are applied, in whatever *)
(* order the attached analytics are given one, and even if others have put *)
(* it into the graph before.  Additions that are only relaxed leave the    *)
(* same distances as starting over (BasicIncrementalSSSP::apply).          *)
THEOREM PathsStayShortest == Spec => []PathsMaintained
<1>1. Base /\ InGraph /\ PathsInv => PathsMaintained
  BY PathsRight DEF PathsMaintained
<1>. QED  BY <1>1, PathsAlways, PTL

(* Weighted distances stay shortest, although a batch makes the analytic   *)
(* start over only if an update that is kept removes an edge of the graph  *)
(* or makes it longer (BasicIncrementalWeightedSSSP::apply).               *)
THEOREM WeightedStayShortest == Spec => []WeightedMaintained
<1>1. Base /\ InGraph /\ PathsInv => WeightedMaintained
  BY WeightedRight DEF WeightedMaintained
<1>. QED  BY <1>1, PathsAlways, PTL

-----------------------------------------------------------------------------
(* The union-find forest and the components.                               *)

(* A set of vertices that the parents do not leave. *)
Upward(par, S) == \A u \in S : par[u] \in S

Forest(par, rk) ==
  /\ par \in [Vertex -> Vertex] /\ rk \in [Vertex -> Nat]
  /\ \A v \in Vertex : par[v] # v => rk[v] < rk[par[v]]

(* rho is what find() returns. *)
IsRoots(par, rho) ==
  /\ rho \in [Vertex -> Vertex]
  /\ \A v \in Vertex : /\ par[rho[v]] = rho[v] /\ rho[par[v]] = rho[v]
                       /\ par[v] = v => rho[v] = v

Roots(par) == [v \in Vertex |-> Root(par, v)]

LEMMA FiniteVertices ==
  /\ MaxVertices \in Nat
  /\ IsFiniteSet(Vertex)
  /\ \A S \in SUBSET Vertex : IsFiniteSet(S)
<1>1. MaxVertices \in Nat /\ 0 \in Int /\ MaxVertices - 1 \in Int
  BY MaintainedConstants
<1>2. IsFiniteSet(0 .. MaxVertices - 1)
  BY <1>1, FS_Interval
<1>3. IsFiniteSet(Vertex)
  BY <1>2 DEF Vertex
<1>. QED  BY <1>1, <1>3, FS_Subset

(* Of a non-empty set of vertices one has the largest number. *)
LEMMA Largest ==
  ASSUME NEW rk \in [Vertex -> Nat], NEW S \in SUBSET Vertex, S # {}
  PROVE  \E m \in S : \A x \in S : rk[x] <= rk[m]
<1>. DEFINE Upper == {T \in SUBSET S : T # {} /\ \A x \in T : \A y \in S : rk[x] <= rk[y] => y \in T}
            L == {Cardinality(T) : T \in Upper}
<1>1. \A T \in Upper : IsFiniteSet(T) /\ Cardinality(T) \in Nat
  BY FiniteVertices, FS_CardinalityType
<1>2. L \in SUBSET Nat /\ Cardinality(S) \in L
  BY <1>1
<1>3. PICK m \in L : \A n \in L : m <= n
  <2>. HIDE DEF L
  <2>. QED  BY <1>2, LeastNumber
<1>4. PICK T \in Upper : m = Cardinality(T)
  BY <1>3
<1>5. PICK x \in T : TRUE
  BY <1>4
<1>6. \A y \in Vertex : rk[y] \in Nat
  OBVIOUS
<1>7. ASSUME NEW y \in T, rk[x] < rk[y] PROVE FALSE
  <2>. DEFINE Z == {z \in T : rk[x] < rk[z]}
  <2>1. Z \in Upper
    <3>1. y \in Z /\ Z \in SUBSET S
      BY <1>7
    <3>2. ASSUME NEW z \in Z, NEW w \in S, rk[z] <= rk[w] PROVE w \in Z
      <4>1. w \in T
        BY <3>2
      <4>2. rk[x] < rk[z] /\ rk[x] \in Nat /\ rk[z] \in Nat /\ rk[w] \in Nat
        BY <1>6
      <4>. QED  BY <3>2, <4>1, <4>2
    <3>. QED  BY <3>1, <3>2
  <2>2. Z \subseteq T /\ x \notin Z /\ IsFiniteSet(T)
    BY <1>1, <1>6
  <2>3. Cardinality(Z) < Cardinality(T)
    <3>1. Z # T
      BY <2>2
    <3>. HIDE DEF Z, Upper
    <3>2. Cardinality(Z) <= Cardinality(T) /\ (Cardinality(Z) = Cardinality(T) => Z = T)
      BY <2>2, FS_Subset
    <3>3. Cardinality(Z) \in Nat /\ Cardinality(T) \in Nat
      BY <1>1, <2>1
    <3>. QED  BY <3>1, <3>2, <3>3
  <2>4. Cardinality(T) <= Cardinality(Z)
    BY <1>3, <1>4, <2>1
  <2>. QED  BY <1>1, <2>1, <2>3, <2>4
<1>8. ASSUME NEW y \in S PROVE rk[y] <= rk[x]
  <2>1. CASE y \in T
    BY <1>6, <1>7, <2>1
  <2>2. CASE y \notin T
    BY <1>6, <2>2
  <2>. QED  BY <2>1, <2>2
<1>. QED  BY <1>8

(* A set that the parents do not leave has a root. *)
LEMMA HasRoot ==
  ASSUME NEW par, NEW rk, Forest(par, rk), NEW S \in SUBSET Vertex, S # {}, Upward(par, S)
  PROVE  \E r \in S : par[r] = r
<1>1. PICK m \in S : \A x \in S : rk[x] <= rk[m]
  BY Largest DEF Forest
<1>2. par[m] \in S
  BY DEF Upward
<1>3. rk[par[m]] <= rk[m] /\ rk[par[m]] \in Nat /\ rk[m] \in Nat
  BY <1>1, <1>2 DEF Forest
<1>4. par[m] = m
  BY <1>3 DEF Forest
<1>. QED  BY <1>4

LEMMA AncestorFacts ==
  ASSUME NEW par \in [Vertex -> Vertex], NEW x \in Vertex
  PROVE  /\ Ancestors(par, x) \in SUBSET Vertex /\ x \in Ancestors(par, x)
         /\ Upward(par, Ancestors(par, x))
         /\ \A S \in SUBSET Vertex : x \in S /\ Upward(par, S) => Ancestors(par, x) \subseteq S
BY DEF Ancestors, Upward

(* No set of vertices has two roots above each of them. *)
LEMMA OneRoot ==
  ASSUME NEW par, NEW rk, Forest(par, rk), NEW x \in Vertex,
         NEW r \in Ancestors(par, x), par[r] = r, NEW s \in Ancestors(par, x), par[s] = s
  PROVE  r = s
<1>. SUFFICES ASSUME r # s PROVE FALSE
  OBVIOUS
<1>. DEFINE D == {v \in Vertex : r \in Ancestors(par, v) /\ s \in Ancestors(par, v)}
<1>0. par \in [Vertex -> Vertex]
  BY DEF Forest
<1>1. ASSUME NEW v \in D PROVE par[v] # v
  <2>1. SUFFICES ASSUME par[v] = v PROVE FALSE
    OBVIOUS
  <2>2. {v} \in SUBSET Vertex /\ v \in {v} /\ Upward(par, {v})
    BY <2>1 DEF Upward
  <2>3. Ancestors(par, v) \subseteq {v}
    BY <1>0, <2>2, AncestorFacts
  <2>. QED  BY <2>3
<1>2. ASSUME NEW v \in D PROVE par[v] \in D
  <2>. DEFINE S == {v} \cup Ancestors(par, par[v])
  <2>1. par[v] \in Vertex /\ v \in Vertex
    BY <1>0
  <2>2. Ancestors(par, par[v]) \in SUBSET Vertex /\ par[v] \in Ancestors(par, par[v])
        /\ Upward(par, Ancestors(par, par[v]))
    BY <1>0, <2>1, AncestorFacts
  <2>3. S \in SUBSET Vertex /\ v \in S /\ Upward(par, S)
    BY <2>1, <2>2 DEF Upward
  <2>4. Ancestors(par, v) \subseteq S
    <3>. HIDE DEF S
    <3>. QED  BY <1>0, <2>1, <2>3, AncestorFacts
  <2>5. r # v /\ s # v
    BY <1>1
  <2>. QED  BY <2>1, <2>4, <2>5
<1>3. D \in SUBSET Vertex /\ x \in D /\ Upward(par, D)
  BY <1>2 DEF Upward
<1>4. \E v \in D : par[v] = v
  <2>. HIDE DEF D
  <2>. QED  BY <1>3, HasRoot
<1>. QED  BY <1>1, <1>4

LEMMA RootFacts ==
  ASSUME NEW par, NEW rk, Forest(par, rk), NEW x \in Vertex
  PROVE  /\ Root(par, x) \in Ancestors(par, x) /\ Root(par, x) \in Vertex
         /\ par[Root(par, x)] = Root(par, x)
         /\ \A r \in Ancestors(par, x) : par[r] = r => r = Root(par, x)
<1>1. par \in [Vertex -> Vertex]
  BY DEF Forest
<1>2. /\ Ancestors(par, x) \in SUBSET Vertex /\ x \in Ancestors(par, x)
      /\ Upward(par, Ancestors(par, x))
  BY <1>1, AncestorFacts
<1>3. \E r \in Ancestors(par, x) : par[r] = r
  BY <1>2, HasRoot
<1>4. Root(par, x) \in Ancestors(par, x) /\ par[Root(par, x)] = Root(par, x)
  BY <1>3 DEF Root
<1>. QED  BY <1>2, <1>4, OneRoot

(* What find() returns is the one function of this kind. *)
LEMMA RootsSound ==
  ASSUME NEW par, NEW rk, Forest(par, rk)
  PROVE  /\ IsRoots(par, Roots(par))
         /\ \A v \in Vertex : Roots(par)[v] = Root(par, v)
         /\ \A v \in Vertex : \A S \in SUBSET Vertex : v \in S /\ Upward(par, S) => Roots(par)[v] \in S
<1>0. par \in [Vertex -> Vertex]
  BY DEF Forest
<1>1. \A v \in Vertex : Roots(par)[v] = Root(par, v)
  BY DEF Roots
<1>2. ASSUME NEW v \in Vertex
      PROVE  /\ Root(par, v) \in Vertex /\ par[Root(par, v)] = Root(par, v)
             /\ Root(par, par[v]) = Root(par, v)
             /\ par[v] = v => Root(par, v) = v
  <2>1. Root(par, v) \in Vertex /\ par[Root(par, v)] = Root(par, v)
    BY RootFacts
  <2>2. par[v] \in Vertex
    BY <1>0
  <2>3. Root(par, par[v]) = Root(par, v)
    <3>1. par[v] \in Ancestors(par, v) /\ Upward(par, Ancestors(par, v)) /\ Ancestors(par, v) \in SUBSET Vertex
      <4>1. v \in Ancestors(par, v) /\ Upward(par, Ancestors(par, v)) /\ Ancestors(par, v) \in SUBSET Vertex
        BY <1>0, AncestorFacts
      <4>. QED  BY <4>1 DEF Upward
    <3>2. Ancestors(par, par[v]) \subseteq Ancestors(par, v)
      BY <1>0, <2>2, <3>1, AncestorFacts
    <3>3. Root(par, par[v]) \in Ancestors(par, v) /\ par[Root(par, par[v])] = Root(par, par[v])
      BY <2>2, <3>2, RootFacts
    <3>. QED  BY <3>3, RootFacts
  <2>4. par[v] = v => Root(par, v) = v
    BY <1>0, AncestorFacts, RootFacts
  <2>. QED  BY <2>1, <2>3, <2>4
<1>3. Roots(par) \in [Vertex -> Vertex]
  BY <1>2 DEF Roots
<1>4. ASSUME NEW v \in Vertex, NEW S \in SUBSET Vertex, v \in S, Upward(par, S)
      PROVE  Root(par, v) \in S
  <2>1. Ancestors(par, v) \subseteq S
    BY <1>0, <1>4, AncestorFacts
  <2>. QED  BY <2>1, RootFacts
<1>5. IsRoots(par, Roots(par))
  <2>1. \A v \in Vertex : par[v] \in Vertex
    BY <1>0
  <2>. QED  BY <1>1, <1>2, <1>3, <2>1 DEF IsRoots
<1>. QED  BY <1>1, <1>4, <1>5

LEMMA RootsAre ==
  ASSUME NEW par, NEW rk, Forest(par, rk), NEW rho, IsRoots(par, rho)
  PROVE  Roots(par) = rho
<1>1. ASSUME NEW x \in Vertex PROVE Roots(par)[x] = rho[x]
  <2>. DEFINE S == {v \in Vertex : rho[v] = rho[x]}
  <2>1. S \in SUBSET Vertex /\ x \in S /\ Upward(par, S)
    BY DEF IsRoots, Forest, Upward
  <2>2. Roots(par)[x] \in S
    <3>. HIDE DEF S
    <3>. QED  BY <2>1, RootsSound
  <2>3. par[Roots(par)[x]] = Roots(par)[x]
    BY RootsSound DEF IsRoots
  <2>4. rho[Roots(par)[x]] = rho[x] /\ rho[Roots(par)[x]] = Roots(par)[x]
    BY <2>2, <2>3 DEF IsRoots
  <2>. QED  BY <2>4
<1>2. Roots(par) = [v \in Vertex |-> Roots(par)[v]]
  BY DEF Roots
<1>3. rho = [v \in Vertex |-> rho[v]]
  BY DEF IsRoots
<1>. HIDE DEF Roots
<1>. QED  BY <1>1, <1>2, <1>3

LEMMA RanksGrow ==
  ASSUME NEW par, NEW rk, Forest(par, rk), NEW v \in Vertex
  PROVE  /\ rk[v] <= rk[Roots(par)[v]]
         /\ v # Roots(par)[v] => rk[v] < rk[Roots(par)[v]]
<1>0. \A u \in Vertex : rk[u] \in Nat /\ par[u] \in Vertex /\ (par[u] # u => rk[u] < rk[par[u]])
  BY DEF Forest
<1>1. ASSUME NEW w \in Vertex PROVE rk[w] <= rk[Roots(par)[w]]
  <2>. DEFINE S == {u \in Vertex : rk[w] <= rk[u]}
  <2>1. S \in SUBSET Vertex /\ w \in S
    BY <1>0
  <2>2. Upward(par, S)
    <3>. SUFFICES ASSUME NEW u \in S PROVE par[u] \in S
      BY DEF Upward
    <3>1. rk[u] <= rk[par[u]]
      BY <1>0
    <3>2. rk[w] \in Nat /\ rk[u] \in Nat /\ rk[par[u]] \in Nat /\ rk[w] <= rk[u] /\ par[u] \in Vertex
      BY <1>0
    <3>. QED  BY <3>1, <3>2
  <2>3. Roots(par)[w] \in S
    <3>. HIDE DEF S
    <3>. QED  BY <2>1, <2>2, RootsSound
  <2>. QED  BY <2>3
<1>2. ASSUME v # Roots(par)[v] PROVE rk[v] < rk[Roots(par)[v]]
  <2>1. par[v] # v /\ Roots(par)[par[v]] = Roots(par)[v] /\ Roots(par)[v] \in Vertex
    BY <1>2, RootsSound DEF IsRoots
  <2>2. rk[v] < rk[par[v]] /\ rk[par[v]] <= rk[Roots(par)[v]]
    BY <1>0, <1>1, <2>1
  <2>3. rk[v] \in Nat /\ rk[par[v]] \in Nat /\ rk[Roots(par)[v]] \in Nat
    BY <1>0, <2>1
  <2>. QED  BY <2>2, <2>3
<1>. QED  BY <1>1, <1>2

(* Path compression changes no root. *)
LEMMA CompressedKeeps ==
  ASSUME NEW par, NEW rk, Forest(par, rk), NEW x \in Vertex
  PROVE  /\ Forest(Compressed(par, x), rk)
         /\ Roots(Compressed(par, x)) = Roots(par)
         /\ \A v \in Vertex : Compressed(par, x)[v] = par[v] \/ Compressed(par, x)[v] = Roots(par)[v]
<1>. DEFINE new == Compressed(par, x)
            rho == Roots(par)
            path == Ancestors(par, x)
<1>1. IsRoots(par, rho) /\ rho[x] = Root(par, x) /\ par \in [Vertex -> Vertex] /\ rk \in [Vertex -> Nat]
  BY RootsSound DEF Forest
<1>2. new = [v \in Vertex |-> IF v \in path THEN rho[x] ELSE par[v]]
  BY <1>1 DEF Compressed
<1>3. ASSUME NEW v \in path PROVE rho[v] = rho[x] /\ v \in Vertex
  <2>. DEFINE S == {u \in Vertex : rho[u] = rho[x]}
  <2>1. S \in SUBSET Vertex /\ x \in S /\ Upward(par, S)
    BY <1>1 DEF IsRoots, Upward
  <2>2. path \subseteq S
    <3>. HIDE DEF S
    <3>. QED  BY <1>1, <2>1, AncestorFacts
  <2>. QED  BY <2>2
<1>. HIDE DEF new, rho, path
<1>4. ASSUME NEW v \in Vertex PROVE new[v] = par[v] \/ new[v] = rho[v]
  BY <1>2, <1>3
<1>5. new \in [Vertex -> Vertex]
  BY <1>1, <1>2 DEF IsRoots
<1>6. Forest(new, rk)
  <2>1. ASSUME NEW v \in Vertex, new[v] # v PROVE rk[v] < rk[new[v]]
    <3>1. CASE new[v] = par[v]
      BY <2>1, <3>1 DEF Forest
    <3>2. CASE new[v] = rho[v]
      <4>1. v # rho[v]
        BY <2>1, <3>2
      <4>. QED  BY <3>2, <4>1, RanksGrow DEF rho
    <3>. QED  BY <1>4, <3>1, <3>2
  <2>. QED  BY <1>1, <1>5, <2>1 DEF Forest
<1>7. IsRoots(new, rho)
  <2>1. ASSUME NEW v \in Vertex
        PROVE  new[rho[v]] = rho[v] /\ rho[new[v]] = rho[v] /\ (new[v] = v => rho[v] = v)
    <3>1. rho[v] \in Vertex /\ par[rho[v]] = rho[v] /\ rho[rho[v]] = rho[v] /\ rho[par[v]] = rho[v]
          /\ (par[v] = v => rho[v] = v)
      BY <1>1 DEF IsRoots
    <3>. QED  BY <1>4, <3>1
  <2>. QED  BY <1>1, <2>1 DEF IsRoots
<1>8. Roots(new) = rho
  BY <1>6, <1>7, RootsAre
<1>. QED  BY <1>4, <1>6, <1>8 DEF new, rho

(* The root that stays one and the one that is hung below it. *)
Upper(par, rk, u, v) == IF rk[Root(par, u)] < rk[Root(par, v)] THEN Root(par, v) ELSE Root(par, u)
Lower(par, rk, u, v) == IF Upper(par, rk, u, v) = Root(par, u) THEN Root(par, v) ELSE Root(par, u)

(* unite puts one tree below the root of the other. *)
LEMMA UniteKeeps ==
  ASSUME NEW par, NEW rk, Forest(par, rk), NEW u \in Vertex, NEW v \in Vertex,
         NEW f, f = Unite([parent |-> par, rank |-> rk], <<u, v>>)
  PROVE  /\ Forest(f.parent, f.rank)
         /\ Upper(par, rk, u, v) \in Vertex /\ Lower(par, rk, u, v) \in Vertex
         /\ {Upper(par, rk, u, v), Lower(par, rk, u, v)} = {Roots(par)[u], Roots(par)[v]}
         /\ \A w \in Vertex : Roots(f.parent)[w] = IF Roots(par)[w] = Lower(par, rk, u, v) THEN Upper(par, rk, u, v)
                                                  ELSE Roots(par)[w]
         /\ \A w \in Vertex : \/ f.parent[w] \in {par[w], Roots(par)[w]}
                              \/ /\ w \in {Roots(par)[u], Roots(par)[v]}
                                 /\ f.parent[w] \in {Roots(par)[u], Roots(par)[v]}
<1>. DEFINE a == Root(par, u)
            b == Root(par, v)
            top == Upper(par, rk, u, v)
            low == Lower(par, rk, u, v)
            once == Compressed(par, u)
            short == Compressed(once, v)
            new == [short EXCEPT ![low] = top]
            nrk == IF a # b /\ rk[a] = rk[b] THEN [rk EXCEPT ![top] = @ + 1] ELSE rk
            rho == Roots(par)
            nrho == [w \in Vertex |-> IF rho[w] = low THEN top ELSE rho[w]]
<1>0. top = (IF rk[a] < rk[b] THEN b ELSE a) /\ low = (IF top = a THEN b ELSE a)
  BY DEF Upper, Lower
<1>1. f = [parent |-> new, rank |-> nrk]
  BY DEF Unite, Upper, Lower
<1>2. f.parent = new /\ f.rank = nrk
  <2>. HIDE DEF new, nrk
  <2>. QED  BY <1>1
<1>3. Forest(once, rk) /\ Roots(once) = rho /\ \A w \in Vertex : once[w] = par[w] \/ once[w] = rho[w]
  BY CompressedKeeps
<1>4. Forest(short, rk) /\ Roots(short) = rho /\ \A w \in Vertex : short[w] = once[w] \/ short[w] = rho[w]
  <2>. HIDE DEF once, rho
  <2>. QED  BY <1>3, CompressedKeeps DEF short
<1>5. IsRoots(short, rho) /\ a = rho[u] /\ b = rho[v]
  <2>1. a = rho[u] /\ b = rho[v]
    BY RootsSound
  <2>2. IsRoots(short, Roots(short))
    <3>. HIDE DEF short
    <3>. QED  BY <1>4, RootsSound
  <2>. QED  BY <1>4, <2>1, <2>2
<1>6. /\ a \in Vertex /\ b \in Vertex /\ short[a] = a /\ short[b] = b /\ rho[a] = a /\ rho[b] = b
      /\ short \in [Vertex -> Vertex] /\ rk \in [Vertex -> Nat] /\ rho \in [Vertex -> Vertex]
  <2>. HIDE DEF short, rho, a, b
  <2>. QED  BY <1>4, <1>5 DEF IsRoots, Forest
<1>. HIDE DEF a, b, once, short, rho
<1>7. /\ {top, low} = {a, b} /\ top \in Vertex /\ low \in Vertex /\ (top = low <=> a = b)
      /\ rk[low] <= rk[top] /\ (top # low /\ rk[a] # rk[b] => rk[low] < rk[top])
      /\ (rk[a] = rk[b] => top = a)
  <2>1. rk[a] \in Nat /\ rk[b] \in Nat
    BY <1>6
  <2>. HIDE DEF top, low
  <2>. QED  BY <1>0, <1>6, <2>1
<1>8. nrk \in [Vertex -> Nat] /\ (\A w \in Vertex : w # top => nrk[w] = rk[w]) /\ rk[top] <= nrk[top]
      /\ (top # low => rk[low] < nrk[top])
  <2>1. rk[top] \in Nat /\ rk[low] \in Nat /\ rk[a] \in Nat /\ rk[b] \in Nat
    BY <1>6, <1>7
  <2>. HIDE DEF top, low
  <2>2. CASE a # b /\ rk[a] = rk[b]
    <3>1. nrk = [rk EXCEPT ![top] = rk[top] + 1]
      BY <2>2
    <3>. HIDE DEF nrk
    <3>2. nrk \in [Vertex -> Nat] /\ (\A w \in Vertex : w # top => nrk[w] = rk[w]) /\ nrk[top] = rk[top] + 1
      BY <1>6, <1>7, <2>1, <3>1
    <3>3. rk[top] <= rk[top] + 1 /\ rk[low] < rk[top] + 1
      BY <1>7, <2>1
    <3>. QED  BY <3>2, <3>3
  <2>3. CASE ~(a # b /\ rk[a] = rk[b])
    <3>1. nrk = rk
      BY <2>3
    <3>2. rk[top] <= rk[top]
      BY <2>1
    <3>. QED  BY <1>6, <1>7, <2>3, <3>1, <3>2
  <2>. QED  BY <2>2, <2>3
<1>9. new \in [Vertex -> Vertex] /\ new[low] = top /\ \A w \in Vertex : w # low => new[w] = short[w]
  BY <1>6, <1>7
<1>10. short[top] = top /\ rho[top] = top /\ rho[low] = low
  BY <1>6, <1>7
<1>. HIDE DEF nrk, new, top, low
<1>11. Forest(new, nrk)
  <2>1. ASSUME NEW w \in Vertex, new[w] # w PROVE nrk[w] < nrk[new[w]]
    <3>1. CASE w = low
      <4>1. top # low
        BY <1>9, <2>1, <3>1
      <4>. QED  BY <1>7, <1>8, <1>9, <3>1, <4>1
    <3>2. CASE w # low
      <4>1. new[w] = short[w] /\ short[w] # w /\ w # top
        BY <1>9, <1>10, <2>1, <3>2
      <4>2. rk[w] < rk[short[w]] /\ nrk[w] = rk[w] /\ short[w] \in Vertex
        BY <1>4, <1>8, <4>1 DEF Forest
      <4>3. rk[short[w]] <= nrk[short[w]]
        <5>1. rk[short[w]] \in Nat /\ rk[short[w]] <= rk[short[w]]
          BY <1>6, <4>2
        <5>. QED  BY <1>8, <4>2, <5>1
      <4>4. rk[w] \in Nat /\ rk[short[w]] \in Nat /\ nrk[short[w]] \in Nat
        BY <1>6, <1>8, <4>2
      <4>. QED  BY <4>1, <4>2, <4>3, <4>4
    <3>. QED  BY <3>1, <3>2
  <2>. QED  BY <1>8, <1>9, <2>1 DEF Forest
<1>12. IsRoots(new, nrho)
  <2>1. nrho \in [Vertex -> Vertex]
    BY <1>6, <1>7
  <2>2. ASSUME NEW w \in Vertex
        PROVE  new[nrho[w]] = nrho[w] /\ nrho[new[w]] = nrho[w] /\ (new[w] = w => nrho[w] = w)
    <3>1. /\ rho[w] \in Vertex /\ short[rho[w]] = rho[w] /\ short[w] \in Vertex /\ rho[short[w]] = rho[w]
          /\ (short[w] = w => rho[w] = w)
      BY <1>5, <1>6 DEF IsRoots
    <3>2. new[nrho[w]] = nrho[w]
      <4>1. new[top] = top
        BY <1>7, <1>9, <1>10
      <4>. QED  BY <1>9, <3>1, <4>1
    <3>3. nrho[new[w]] = nrho[w]
      <4>1. CASE w = low
        BY <1>7, <1>9, <1>10, <4>1
      <4>2. CASE w # low
        BY <1>9, <3>1, <4>2
      <4>. QED  BY <4>1, <4>2
    <3>4. new[w] = w => nrho[w] = w
      <4>1. CASE w = low
        BY <1>9, <1>10, <4>1
      <4>2. CASE w # low
        BY <1>9, <3>1, <4>2
      <4>. QED  BY <4>1, <4>2
    <3>. QED  BY <3>2, <3>3, <3>4
  <2>. HIDE DEF nrho
  <2>. QED  BY <2>1, <2>2 DEF IsRoots
<1>13. Roots(new) = nrho
  <2>. HIDE DEF nrho
  <2>. QED  BY <1>11, <1>12, RootsAre
<1>14. \A w \in Vertex : Roots(f.parent)[w] = IF rho[w] = low THEN top ELSE rho[w]
  BY <1>2, <1>13
<1>15. \A w \in Vertex : f.parent[w] \in {par[w], rho[w]} \/ (w \in {a, b} /\ f.parent[w] \in {a, b})
  BY <1>2, <1>3, <1>4, <1>7, <1>9
<1>16. Forest(f.parent, f.rank)
  BY <1>2, <1>11
<1>. QED  BY <1>5, <1>7, <1>14, <1>15, <1>16 DEF rho, top, low

-----------------------------------------------------------------------------
(* The phases a step of each analytic leaves and enters. *)
LEMMA PhasesOf ==
  /\ ComponentsStep => phase \in {"idle", "components", "rebuild"} /\ phase' \in {"idle", "components", "rebuild"}
  /\ TrianglesStep => phase \in {"idle", "triangles"} /\ phase' \in {"idle", "triangles"}
  /\ CoresStep => phase \in {"idle", "cores", "peel"} /\ phase' \in {"idle", "cores", "peel"}
  /\ RanksStep => phase \in {"idle", "ranks", "rounds"} /\ phase' \in {"idle", "ranks", "rounds"}
  /\ PathsStep => phase \in {"idle"} \cup PathPhase /\ phase' \in {"idle"} \cup PathPhase
<1>1. ComponentsStep => phase \in {"idle", "components", "rebuild"} /\ phase' \in {"idle", "components", "rebuild"}
  BY DEF ComponentsStep, BeginComponents, UpdateGraph, TakeApart, Rebuild, Replay, EndComponents, Return, Updated,
         QueryComponent, call
<1>2. TrianglesStep => phase \in {"idle", "triangles"} /\ phase' \in {"idle", "triangles"}
  BY DEF TrianglesStep, BeginTriangles, CountUpdate, UpdateGraph, EndTriangles, RecomputeTriangles, Return, Updated
<1>3. CoresStep => phase \in {"idle", "cores", "peel"} /\ phase' \in {"idle", "cores", "peel"}
  <2>. SUFFICES ASSUME CoresStep
                PROVE phase \in {"idle", "cores", "peel"} /\ phase' \in {"idle", "cores", "peel"}
    OBVIOUS
  <2>1. CASE Takes("cores") /\ BeginCores
    BY <2>1 DEF BeginCores
  <2>2. CASE UpdateGraph("cores") \/ EndCores
    BY <2>2 DEF UpdateGraph, EndCores, Return
  <2>3. CASE PeelCores \/ RecomputeCores
    BY <2>3 DEF PeelCores, RecomputeCores, StartPeeling, Updated
  <2>4. CASE Peel
    BY <2>4 DEF Peel
  <2>. QED  BY <2>1, <2>2, <2>3, <2>4 DEF CoresStep
<1>4. RanksStep => phase \in {"idle", "ranks", "rounds"} /\ phase' \in {"idle", "ranks", "rounds"}
  <2>. SUFFICES ASSUME RanksStep
                PROVE phase \in {"idle", "ranks", "rounds"} /\ phase' \in {"idle", "ranks", "rounds"}
    OBVIOUS
  <2>1. CASE Takes("ranks") /\ BeginRanks
    BY <2>1 DEF BeginRanks
  <2>2. CASE UpdateRanked
    BY <2>2 DEF UpdateRanked, UpdateGraph
  <2>3. CASE SolveAfresh \/ RecomputeRanks
    BY <2>3 DEF SolveAfresh, RecomputeRanks, Solve, LeaveRanks, Return, Updated
  <2>4. CASE StartRounds
    BY <2>4 DEF StartRounds, Updated
  <2>5. CASE Round
    BY <2>5 DEF Round, Solve, LeaveRanks, Return
  <2>6. CASE EndRounds
    BY <2>6 DEF EndRounds, LeaveRanks, Return
  <2>. QED  BY <2>1, <2>2, <2>3, <2>4, <2>5, <2>6 DEF RanksStep
<1>5. PathsStep => phase \in {"idle"} \cup PathPhase /\ phase' \in {"idle"} \cup PathPhase
  <2>. SUFFICES ASSUME PathsStep
                PROVE phase \in {"idle"} \cup PathPhase /\ phase' \in {"idle"} \cup PathPhase
    OBVIOUS
  <2>1. CASE (Takes("paths") /\ BeginPaths) \/ (Takes("weighted") /\ (BeginWeighted \/ RejectWeighted))
    BY <2>1 DEF BeginPaths, BeginWeighted, RejectWeighted, PathPhase
  <2>2. CASE UpdateGraph("paths") \/ UpdateGraph("weighted")
    BY <2>2 DEF UpdateGraph, PathPhase
  <2>3. CASE RestartPaths \/ RecomputePaths \/ RestartWeighted
    BY <2>3 DEF RestartPaths, RecomputePaths, RestartWeighted, StartOver, Updated, PathPhase
  <2>4. CASE RelaxPaths \/ RelaxWeighted
    BY <2>4 DEF RelaxPaths, RelaxWeighted, StartRelaxing, Updated, PathPhase
  <2>5. CASE RelaxUpdate \/ RelaxKept \/ PassOver
    BY <2>5 DEF RelaxUpdate, RelaxKept, PassOver, Relax, PathPhase
  <2>6. CASE EndRelaxing("relax") \/ EndRelaxing("reweigh")
    BY <2>6 DEF EndRelaxing, Updated, PathPhase
  <2>7. CASE Propagate \/ EndPaths
    BY <2>7 DEF Propagate, EndPaths, Return, PathPhase
  <2>. QED  BY <2>1, <2>2, <2>3, <2>4, <2>5, <2>6, <2>7 DEF PathsStep
<1>. QED  BY <1>1, <1>2, <1>3, <1>4, <1>5

(* A step leaves the graph and the batch alone, or applies one update. *)
GraphStays == UNCHANGED <<graph, batch>>
GraphAdvances == \E p \in Before : phase = p /\ UpdateGraph(p) /\ UNCHANGED caller

LEMMA GraphSteps ==
  ASSUME Moves
  PROVE  GraphStays \/ GraphAdvances
<1>1. CASE Applies
  BY <1>1 DEF Applies, GraphAdvances, UpdateGraph
<1>. QED  BY <1>1 DEF Moves, Begins, Leaves, Works, Recomputes, Rejects, GraphStays

LEMMA CountGrows ==
  ASSUME Base, GraphStays \/ GraphAdvances
  PROVE  vertexCount <= vertexCount' /\ vertexCount' \in 0 .. MaxVertices
<1>0. vertexCount \in 0 .. MaxVertices /\ MaxVertices \in Nat
  BY MaintainedConstants DEF Base
<1>1. CASE GraphStays
  BY <1>0, <1>1 DEF GraphStays, graph
<1>2. ASSUME NEW p \in Before, UpdateGraph(p) PROVE vertexCount <= vertexCount' /\ vertexCount' \in 0 .. MaxVertices
  <2>1. batch[next] \in WeightedOp
    BY <1>2, UpdateEffect
  <2>. QED  BY <1>0, <1>2, <2>1, CountFacts DEF UpdateGraph
<1>. QED  BY <1>1, <1>2 DEF GraphAdvances

-----------------------------------------------------------------------------
(* The union-find forest, whatever else is attached: vertices that parent_  *)
(* does not hold yet are alone, and what is taken apart are whole trees.   *)
KnownApart == \A v \in Vertex : (v < known => parent[v] < known) /\ (~(v < known) => parent[v] = v)

ForestInv ==
  /\ Forest(parent, rank)
  /\ known \in 0 .. MaxVertices /\ known <= vertexCount
  /\ KnownApart
  /\ split \subseteq Vertex
  /\ phase # "components" => split = {}
  /\ \A v \in Vertex : v \in split <=> parent[v] \in split
  /\ pending \subseteq edges
  /\ phase # "rebuild" => pending = {}
  /\ phase = "rebuild" => known = vertexCount

rho == Roots(parent)

LEMMA RootsKnown ==
  ASSUME ForestInv
  PROVE  /\ IsRoots(parent, rho)
         /\ \A v \in Vertex : rho[v] = Root(parent, v) /\ rho[v] \in Vertex
         /\ \A v \in Vertex : v < known <=> rho[v] < known
         /\ \A v \in Vertex : v \in split <=> rho[v] \in split
<1>. DEFINE par == parent
<1>1. Forest(parent, rank) /\ parent \in [Vertex -> Vertex]
  BY DEF ForestInv, Forest
<1>2. /\ IsRoots(parent, rho) /\ (\A v \in Vertex : rho[v] = Root(parent, v))
      /\ \A v \in Vertex : \A S \in SUBSET Vertex : v \in S /\ Upward(parent, S) => rho[v] \in S
  BY <1>1, RootsSound DEF rho
<1>3. \A v \in Vertex : rho[v] \in Vertex
  BY <1>2 DEF IsRoots
<1>4. Upward(parent, {u \in Vertex : u < known}) /\ Upward(parent, {u \in Vertex : ~(u < known)})
  BY <1>1 DEF Upward, ForestInv, KnownApart
<1>5. Upward(parent, split) /\ Upward(parent, Vertex \ split)
  BY <1>1 DEF Upward, ForestInv
<1>6. ASSUME NEW v \in Vertex PROVE v < known <=> rho[v] < known
  <2>1. v < known => rho[v] \in {u \in Vertex : u < known}
    BY <1>2, <1>4
  <2>2. ~(v < known) => rho[v] \in {u \in Vertex : ~(u < known)}
    BY <1>2, <1>4
  <2>. QED  BY <2>1, <2>2
<1>7. ASSUME NEW v \in Vertex PROVE v \in split <=> rho[v] \in split
  <2>1. split \in SUBSET Vertex /\ Vertex \ split \in SUBSET Vertex
    BY DEF ForestInv
  <2>. QED  BY <1>2, <1>5, <2>1
<1>. QED  BY <1>2, <1>3, <1>6, <1>7

(* Uniting the ends of an arc of the graph. *)
LEMMA UniteForest ==
  ASSUME Base, ForestInv, phase = "rebuild", NEW u \in Vertex, NEW v \in Vertex, <<u, v>> \in edges,
         UniteArc(<<u, v>>)
  PROVE  /\ Forest(parent', rank')
         /\ \A w \in Vertex : (w < known => parent'[w] < known) /\ (~(w < known) => parent'[w] = w)
         /\ \E top, low \in Vertex :
              /\ {top, low} = {rho[u], rho[v]}
              /\ \A w \in Vertex : rho'[w] = IF rho[w] = low THEN top ELSE rho[w]
<1>. DEFINE f == Unite([parent |-> parent, rank |-> rank], <<u, v>>)
<1>1. parent' = f.parent /\ rank' = f.rank
  BY DEF UniteArc
<1>. HIDE DEF f
<1>2. Forest(parent, rank)
  BY DEF ForestInv
<1>3. f = Unite([parent |-> parent, rank |-> rank], <<u, v>>)
  BY DEF f
<1>4. Forest(f.parent, f.rank)
  BY <1>2, <1>3, UniteKeeps
<1>5. \E top, low \in Vertex :
        /\ {top, low} = {rho[u], rho[v]}
        /\ \A w \in Vertex : Roots(f.parent)[w] = IF rho[w] = low THEN top ELSE rho[w]
  <2>. DEFINE top == Upper(parent, rank, u, v)
              low == Lower(parent, rank, u, v)
  <2>1. top \in Vertex /\ low \in Vertex /\ {top, low} = {rho[u], rho[v]}
    BY <1>2, <1>3, UniteKeeps DEF rho
  <2>2. \A w \in Vertex : Roots(f.parent)[w] = IF rho[w] = low THEN top ELSE rho[w]
    BY <1>2, <1>3, UniteKeeps DEF rho
  <2>. QED  BY <2>1, <2>2
<1>6. \A w \in Vertex : \/ f.parent[w] \in {parent[w], rho[w]}
                         \/ (w \in {rho[u], rho[v]} /\ f.parent[w] \in {rho[u], rho[v]})
  BY <1>2, <1>3, UniteKeeps DEF rho
<1>7. rho' = Roots(f.parent)
  BY <1>1 DEF rho, Roots, Root, Ancestors
<1>8. u < known /\ v < known
  BY DEF Base, EndsCounted, ForestInv
<1>9. rho[u] < known /\ rho[v] < known /\ rho[u] \in Vertex /\ rho[v] \in Vertex
  BY <1>8, RootsKnown
<1>10. ASSUME NEW w \in Vertex PROVE (w < known => f.parent[w] < known) /\ (~(w < known) => f.parent[w] = w)
  <2>1. (w < known => parent[w] < known /\ rho[w] < known) /\ (~(w < known) => parent[w] = w /\ rho[w] = w)
    BY RootsKnown DEF ForestInv, KnownApart, IsRoots
  <2>. QED  BY <1>6, <1>9, <2>1
<1>. QED  BY <1>1, <1>4, <1>5, <1>7, <1>10

(* The steps that leave the forest alone. *)
LEMMA ForestQuiet ==
  ASSUME Base, ForestInv, components' = components, GraphStays \/ GraphAdvances,
         phase \notin {"components", "rebuild"} \/ (phase' = phase /\ (phase = "rebuild" => GraphStays)),
         phase' \notin {"components", "rebuild"} \/ (phase' = phase /\ (phase = "rebuild" => GraphStays))
  PROVE  ForestInv'
<1>1. parent' = parent /\ rank' = rank /\ known' = known /\ split' = split /\ pending' = pending
  BY DEF components
<1>2. vertexCount <= vertexCount' /\ vertexCount' \in 0 .. MaxVertices /\ vertexCount \in 0 .. MaxVertices
      /\ MaxVertices \in Nat
  BY CountGrows, MaintainedConstants DEF Base
<1>3. known \in 0 .. MaxVertices /\ known <= vertexCount'
  BY <1>2 DEF ForestInv
<1>4. phase = "rebuild" => phase' = phase /\ edges' = edges /\ vertexCount' = vertexCount
  BY DEF GraphStays, graph
<1>5. pending \subseteq edges' /\ (phase' # "rebuild" => pending = {})
  BY <1>4 DEF ForestInv
<1>6. (phase' = "rebuild" => known = vertexCount') /\ (phase' # "components" => split = {})
  BY <1>4 DEF ForestInv
<1>. QED  BY <1>1, <1>3, <1>5, <1>6 DEF ForestInv, KnownApart

(* The components an effective removal cuts are marked, and trees are flat. *)
LEMMA BeginForest ==
  ASSUME Base, ForestInv, BeginComponents
  PROVE  /\ ForestInv' /\ rho' = rho
         /\ \A v \in Vertex : v \in split' <=> \E c \in CutEnds : rho[v] = rho[c]
<1>. DEFINE flat == [v \in Vertex |-> rho[v]]
<1>1. /\ phase = "idle" /\ phase' = "components" /\ graph' = graph /\ rank' = rank /\ known' = known
      /\ pending' = pending
  BY DEF BeginComponents
<1>2. /\ IsRoots(parent, rho) /\ (\A v \in Vertex : rho[v] = Root(parent, v) /\ rho[v] \in Vertex)
      /\ \A v \in Vertex : v < known <=> rho[v] < known
  BY RootsKnown
<1>3. batch \in Seq(WeightedOp) /\ CutEnds \subseteq {v \in Vertex : v < known}
  <2>1. batch \in Seq(WeightedOp)
    BY DEF Base
  <2>2. \A i \in DOMAIN batch : batch[i].src \in Vertex /\ batch[i].dst \in Vertex
    <3>1. \A i \in DOMAIN batch : batch[i] \in WeightedOp
      BY <2>1
    <3>. QED  BY <3>1 DEF WeightedOp
  <2>3. ASSUME NEW v \in CutEnds PROVE v \in Vertex /\ v < known
    <3>1. PICK i \in DOMAIN batch : Known(batch[i]) /\ v \in {batch[i].src, batch[i].dst}
      BY DEF CutEnds
    <3>. QED  BY <2>2, <3>1 DEF Known
  <2>. QED  BY <2>1, <2>3
<1>4. /\ split' = {v \in 0 .. known - 1 : Root(parent, v) \in {Root(parent, c) : c \in CutEnds}}
      /\ parent' = IF CutEnds = {} THEN parent ELSE [v \in Vertex |-> Root(parent, v)]
  BY DEF BeginComponents
<1>5. \A v \in Vertex : v \in 0 .. known - 1 <=> v < known
  BY MaintainedConstants DEF ForestInv, Vertex
<1>6. 0 .. known - 1 \subseteq Vertex
  BY MaintainedConstants DEF ForestInv, Vertex
<1>7. ASSUME NEW v \in Vertex PROVE v \in split' <=> \E c \in CutEnds : rho[v] = rho[c]
  <2>1. v \in split' <=> v < known /\ \E c \in CutEnds : rho[v] = rho[c]
    BY <1>2, <1>3, <1>4, <1>5
  <2>2. ASSUME NEW c \in CutEnds, rho[v] = rho[c] PROVE v < known
    BY <1>2, <1>3, <2>2
  <2>. QED  BY <2>1, <2>2
<1>8. split' \subseteq Vertex
  BY <1>4, <1>6
<1>9. parent' = parent \/ parent' = flat
  <2>1. [v \in Vertex |-> Root(parent, v)] = flat
    BY <1>2
  <2>. QED  BY <1>4, <2>1
<1>10. Forest(parent', rank') /\ Roots(parent') = rho /\ \A v \in Vertex : parent'[v] \in {parent[v], rho[v]}
  <2>1. CASE parent' = parent
    BY <1>1, <2>1 DEF ForestInv, rho
  <2>2. CASE parent' = flat
    <3>1. Forest(flat, rank)
      <4>1. flat \in [Vertex -> Vertex]
        BY <1>2
      <4>2. \A v \in Vertex : flat[v] # v => rank[v] < rank[flat[v]]
        <5>1. Forest(parent, rank)
          BY DEF ForestInv
        <5>. QED  BY <5>1, RanksGrow DEF rho
      <4>. QED  BY <4>1, <4>2 DEF Forest, ForestInv
    <3>2. IsRoots(flat, rho)
      BY <1>2 DEF IsRoots
    <3>3. Roots(flat) = rho
      <4>. HIDE DEF flat
      <4>. QED  BY <3>1, <3>2, RootsAre
    <3>. QED  BY <1>1, <2>2, <3>1, <3>3
  <2>. QED  BY <1>9, <2>1, <2>2
<1>11. rho' = rho
  BY <1>10 DEF rho, Roots, Root, Ancestors
<1>12. KnownApart'
  <2>1. ASSUME NEW v \in Vertex PROVE (v < known => parent'[v] < known) /\ (~(v < known) => parent'[v] = v)
    <3>1. (v < known => parent[v] < known) /\ (~(v < known) => parent[v] = v)
      BY DEF ForestInv, KnownApart
    <3>2. (v < known => rho[v] < known) /\ (~(v < known) => rho[v] = v)
      BY <1>2, <3>1 DEF IsRoots
    <3>. QED  BY <1>10, <3>1, <3>2
  <2>. QED  BY <1>1, <2>1 DEF KnownApart
<1>13. \A v \in Vertex : v \in split' <=> parent'[v] \in split'
  <2>. SUFFICES ASSUME NEW v \in Vertex PROVE v \in split' <=> parent'[v] \in split'
    OBVIOUS
  <2>1. parent'[v] \in Vertex /\ rho[parent'[v]] = rho[v]
    <3>1. parent[v] \in Vertex /\ rho[v] \in Vertex /\ rho[parent[v]] = rho[v] /\ rho[rho[v]] = rho[v]
      BY <1>2 DEF IsRoots, ForestInv, Forest
    <3>. QED  BY <1>10, <3>1
  <2>. QED  BY <1>7, <2>1
<1>14. known' \in 0 .. MaxVertices /\ known' <= vertexCount' /\ pending' \subseteq edges' /\ pending' = {}
  BY <1>1 DEF ForestInv, graph
<1>. QED  BY <1>1, <1>7, <1>8, <1>10, <1>11, <1>12, <1>13, <1>14 DEF ForestInv

(* Whole trees are taken apart. *)
LEMMA ApartForest ==
  ASSUME Base, ForestInv, TakeApart
  PROVE  /\ ForestInv'
         /\ \A v \in Vertex : rho'[v] = IF v \in split THEN v ELSE rho[v]
<1>. DEFINE par == [v \in Vertex |-> IF v \in split THEN v ELSE parent[v]]
            rk == [v \in Vertex |-> IF v \in split THEN 0 ELSE rank[v]]
            nrho == [v \in Vertex |-> IF v \in split THEN v ELSE rho[v]]
<1>1. /\ phase' = "rebuild" /\ UNCHANGED <<graph, batch>> /\ known' = vertexCount /\ split' = {}
      /\ parent' = par /\ rank' = rk /\ pending' = {a \in edges : a[1] \in split /\ a[2] \in split}
  BY DEF TakeApart
<1>2. /\ Forest(parent, rank) /\ split \subseteq Vertex /\ (\A v \in Vertex : v \in split <=> parent[v] \in split)
      /\ parent \in [Vertex -> Vertex] /\ rank \in [Vertex -> Nat]
  BY DEF ForestInv, Forest
<1>3. /\ IsRoots(parent, rho) /\ (\A v \in Vertex : rho[v] \in Vertex)
      /\ \A v \in Vertex : v \in split <=> rho[v] \in split
  BY RootsKnown
<1>4. Forest(par, rk)
  BY <1>2 DEF Forest
<1>5. IsRoots(par, nrho)
  BY <1>2, <1>3 DEF IsRoots
<1>6. Roots(par) = nrho
  <2>. HIDE DEF par, rk, nrho
  <2>. QED  BY <1>4, <1>5, RootsAre
<1>7. rho' = nrho
  <2>1. rho' = Roots(par)
    BY <1>1 DEF rho, Roots, Root, Ancestors
  <2>. QED  BY <1>6, <2>1
<1>8. KnownApart'
  <2>1. ASSUME NEW v \in Vertex
        PROVE  (v < vertexCount => par[v] < vertexCount) /\ (~(v < vertexCount) => par[v] = v)
    <3>1. known \in Int /\ vertexCount \in Int /\ v \in Int /\ parent[v] \in Int /\ known <= vertexCount
      BY <1>2, MaintainedConstants DEF ForestInv, Base, Vertex
    <3>2. (v < known => parent[v] < known) /\ (~(v < known) => parent[v] = v)
      BY DEF ForestInv, KnownApart
    <3>3. (v < vertexCount => parent[v] < vertexCount) /\ (~(v < vertexCount) => parent[v] = v)
      BY <3>1, <3>2
    <3>. QED  BY <3>3
  <2>. HIDE DEF par
  <2>. QED  BY <1>1, <2>1 DEF KnownApart
<1>9. known' \in 0 .. MaxVertices /\ known' <= vertexCount' /\ known' = vertexCount'
  <2>1. vertexCount \in 0 .. MaxVertices /\ vertexCount <= vertexCount
    BY MaintainedConstants DEF Base
  <2>. QED  BY <1>1, <2>1 DEF graph
<1>10. pending' \subseteq edges'
  BY <1>1 DEF graph
<1>11. Forest(parent', rank')
  BY <1>1, <1>4
<1>12. split' = {} /\ phase' = "rebuild"
  BY <1>1
<1>13. ForestInv'
  <2>. HIDE DEF par, rk, nrho
  <2>. QED  BY <1>8, <1>9, <1>10, <1>11, <1>12 DEF ForestInv
<1>. QED  BY <1>7, <1>13

(* One arc is united, or none. *)
LEMMA RebuildForest ==
  ASSUME Base, ForestInv, Rebuild \/ Replay
  PROVE  ForestInv'
<1>1. /\ phase = "rebuild" /\ phase' = "rebuild" /\ UNCHANGED <<graph, batch>> /\ known' = known
      /\ split' = split /\ split = {} /\ pending' \subseteq pending
  BY DEF Rebuild, Replay, call, ForestInv
<1>2. (parent' = parent /\ rank' = rank) \/ \E u, v \in Vertex : <<u, v>> \in edges /\ UniteArc(<<u, v>>)
  <2>1. CASE Rebuild
    <3>1. PICK a \in pending : UniteArc(a)
      BY <2>1 DEF Rebuild
    <3>2. a \in edges /\ a \in Arc
      BY DEF ForestInv, Base
    <3>. QED  BY <3>1, <3>2 DEF Arc
  <2>2. CASE Replay
    <3>. DEFINE op == batch[next]
                arc == IF op.dst < op.src THEN <<op.dst, op.src>> ELSE <<op.src, op.dst>>
    <3>1. \/ ~Replays(next) /\ parent' = parent /\ rank' = rank
          \/ Replays(next) /\ UniteArc(arc)
      BY <2>2 DEF Replay
    <3>2. ASSUME Replays(next) PROVE arc \in edges
      <4>1. <<op.src, op.dst>> \in edges /\ op.src \in Vertex /\ op.dst \in Vertex /\ Mirrored
        <5>1. <<op.src, op.dst>> \in edges /\ <<op.src, op.dst>> \in Arc
          BY <3>2 DEF Replays, Base
        <5>2. ~directed
          BY <1>1 DEF Base, Owned, Undirected
        <5>. QED  BY <5>1, <5>2 DEF Base, Arc
      <4>. QED  BY <4>1 DEF Mirrored
    <3>3. arc \in edges => \E u, v \in Vertex : arc = <<u, v>>
      BY DEF Base, Arc
    <3>. HIDE DEF arc
    <3>. QED  BY <3>1, <3>2, <3>3
  <2>. QED  BY <2>1, <2>2
<1>3. Forest(parent', rank')
      /\ \A w \in Vertex : (w < known => parent'[w] < known) /\ (~(w < known) => parent'[w] = w)
  <2>1. CASE parent' = parent /\ rank' = rank
    BY <2>1 DEF ForestInv, KnownApart
  <2>2. ASSUME NEW u \in Vertex, NEW v \in Vertex, <<u, v>> \in edges, UniteArc(<<u, v>>)
        PROVE  Forest(parent', rank')
               /\ \A w \in Vertex : (w < known => parent'[w] < known) /\ (~(w < known) => parent'[w] = w)
    BY <1>1, <2>2, UniteForest
  <2>. QED  BY <1>2, <2>1, <2>2
<1>4. KnownApart' /\ known' \in 0 .. MaxVertices /\ known' <= vertexCount' /\ known' = vertexCount'
      /\ pending' \subseteq edges'
  BY <1>1, <1>3 DEF KnownApart, ForestInv, graph
<1>. QED  BY <1>1, <1>3, <1>4 DEF ForestInv

LEMMA QueryForest ==
  ASSUME Base, ForestInv, NEW v \in Vertex, QueryComponent(v)
  PROVE  ForestInv' /\ rho' = rho
<1>1. /\ phase = "idle" /\ phase' = "idle" /\ graph' = graph /\ rank' = rank /\ known' = known /\ split' = split
      /\ pending' = pending /\ parent' = Compressed(parent, v) /\ split = {}
  BY DEF QueryComponent, ForestInv
<1>2. Forest(parent, rank)
  BY DEF ForestInv
<1>3. /\ Forest(parent', rank') /\ Roots(parent') = rho
      /\ \A w \in Vertex : parent'[w] = parent[w] \/ parent'[w] = rho[w]
  BY <1>1, <1>2, CompressedKeeps DEF rho
<1>4. rho' = rho
  BY <1>3 DEF rho, Roots, Root, Ancestors
<1>5. KnownApart'
  <2>1. ASSUME NEW w \in Vertex PROVE (w < known => parent'[w] < known) /\ (~(w < known) => parent'[w] = w)
    <3>1. (w < known => parent[w] < known /\ rho[w] < known) /\ (~(w < known) => parent[w] = w /\ rho[w] = w)
      BY RootsKnown DEF ForestInv, KnownApart, IsRoots
    <3>. QED  BY <1>3, <3>1
  <2>. QED  BY <1>1, <2>1 DEF KnownApart
<1>. QED  BY <1>1, <1>3, <1>4, <1>5 DEF ForestInv, graph

LEMMA StepForest == Base /\ ForestInv /\ [Next]_vars => ForestInv'
<1>. SUFFICES ASSUME Base, ForestInv, [Next]_vars PROVE ForestInv'
  OBVIOUS
<1>1. CASE UNCHANGED vars
  <2>1. components' = components /\ GraphStays /\ phase' = phase
    BY <1>1 DEF vars, call, results, others, GraphStays
  <2>. QED  BY <2>1, ForestQuiet
<1>2. CASE GivesBatch
  <2>1. components' = components /\ graph' = graph /\ phase = "idle" /\ phase' = "idle"
    BY <1>2 DEF GivesBatch, NewBatch, results, others
  <2>. QED  BY <2>1 DEF ForestInv, KnownApart, components, graph
<1>3. CASE TrianglesStep \/ CoresStep \/ RanksStep \/ PathsStep
  <2>1. components' = components
    BY <1>3 DEF TrianglesStep, CoresStep, RanksStep, PathsStep, others
  <2>2. GraphStays \/ GraphAdvances
    BY <1>3, TrianglesMoves, CoresMoves, RanksMoves, PathsMoves, GraphSteps
  <2>3. phase \notin {"components", "rebuild"} /\ phase' \notin {"components", "rebuild"}
    BY <1>3, PhasesOf DEF PathPhase
  <2>. QED  BY <2>1, <2>2, <2>3, ForestQuiet
<1>4. CASE ComponentsStep
  <2>1. CASE BeginComponents
    BY <2>1, BeginForest
  <2>2. CASE UpdateGraph("components") /\ UNCHANGED components /\ UNCHANGED caller
    <3>1. GraphAdvances /\ phase' = phase /\ phase = "components"
      BY <2>2 DEF GraphAdvances, UpdateGraph, Before
    <3>. QED  BY <2>2, <3>1, ForestQuiet
  <2>3. CASE TakeApart
    BY <2>3, ApartForest
  <2>4. CASE Rebuild \/ Replay
    BY <2>4, RebuildForest
  <2>5. CASE EndComponents
    BY <2>5 DEF EndComponents, Return, Updated, ForestInv, KnownApart, components, graph
  <2>6. CASE \E v \in Vertex : QueryComponent(v)
    BY <2>6, QueryForest
  <2>. QED  BY <1>4, <2>1, <2>2, <2>3, <2>4, <2>5, <2>6 DEF ComponentsStep
<1>. QED  BY <1>1, <1>2, <1>3, <1>4, StepCases

LEMMA InitForest == Init => ForestInv
<1>. SUFFICES ASSUME Init PROVE ForestInv
  OBVIOUS
<1>1. /\ parent = [v \in Vertex |-> v] /\ rank = [v \in Vertex |-> 0] /\ known = vertexCount /\ split = {}
      /\ pending = {} /\ phase = "idle"
  BY DEF Init, InitComponents
<1>2. known \in 0 .. MaxVertices /\ known <= vertexCount
  BY <1>1, InitBase, MaintainedConstants DEF Base
<1>. QED  BY <1>1, <1>2 DEF ForestInv, Forest, KnownApart

-----------------------------------------------------------------------------
(* An analytic that has the graph to itself. *)
Alone == \A a, b \in attached : a = b

LEMMA Owners ==
  ASSUME Base
  PROVE  /\ ComponentsStep => "components" \in attached
         /\ TrianglesStep => "triangles" \in attached
         /\ CoresStep => "cores" \in attached
         /\ RanksStep => "ranks" \in attached
         /\ PathsStep => "paths" \in attached \/ "weighted" \in attached
<1>0. todo \subseteq attached /\ Owned(phase)
  BY DEF Base
<1>1. ComponentsStep => "components" \in attached
  BY <1>0 DEF ComponentsStep, Takes, UpdateGraph, TakeApart, Rebuild, Replay, EndComponents, Updated, Owned
<1>2. TrianglesStep => "triangles" \in attached
  BY <1>0 DEF TrianglesStep, Takes, CountUpdate, UpdateGraph, EndTriangles, Updated, Owned
<1>3. CoresStep => "cores" \in attached
  BY <1>0 DEF CoresStep, Takes, UpdateGraph, PeelCores, Peel, EndCores, Updated, Owned
<1>4. RanksStep => "ranks" \in attached
  BY <1>0 DEF RanksStep, Takes, UpdateRanked, UpdateGraph, SolveAfresh, StartRounds, Round, EndRounds, Updated, Owned
<1>5. PathsStep => "paths" \in attached \/ "weighted" \in attached
  <2>1. Takes("paths") \/ Takes("weighted") => "paths" \in attached \/ "weighted" \in attached
    BY <1>0 DEF Takes
  <2>2. UpdateGraph("paths") \/ UpdateGraph("weighted") \/ RestartPaths \/ RelaxPaths
        \/ RelaxUpdate \/ EndRelaxing("relax") \/ EndRelaxing("reweigh")
        => "paths" \in attached \/ "weighted" \in attached
    BY <1>0 DEF UpdateGraph, RestartPaths, RelaxPaths, RelaxUpdate, EndRelaxing, Updated, Owned
  <2>3. Propagate \/ EndPaths \/ RestartWeighted \/ RelaxWeighted \/ RelaxKept \/ PassOver
        => "paths" \in attached \/ "weighted" \in attached
    BY <1>0 DEF Propagate, EndPaths, RestartWeighted, RelaxWeighted, RelaxKept, PassOver, Updated, Owned
  <2>. QED  BY <2>1, <2>2, <2>3, Zenon DEF PathsStep
<1>. QED  BY <1>1, <1>2, <1>3, <1>4, <1>5

LEMMA AttachedStays == [Next]_vars => attached' = attached
<1>. SUFFICES ASSUME [Next]_vars PROVE attached' = attached
  OBVIOUS
<1>1. CASE UNCHANGED vars
  BY <1>1 DEF vars, caller
<1>2. CASE GivesBatch
  BY <1>2 DEF GivesBatch, NewBatch
<1>3. CASE ComponentsStep
  BY <1>3 DEF ComponentsStep, Takes, caller
<1>4. CASE TrianglesStep
  BY <1>4 DEF TrianglesStep, Takes, caller
<1>5. CASE CoresStep
  BY <1>5 DEF CoresStep, Takes, caller
<1>6. CASE RanksStep
  BY <1>6 DEF RanksStep, Takes, caller
<1>7. CASE PathsStep
  BY <1>7 DEF PathsStep, Takes, caller
<1>. QED  BY <1>1, <1>2, <1>3, <1>4, <1>5, <1>6, <1>7, StepCases

-----------------------------------------------------------------------------
(* Two vertices that no set which arcs do not leave tells apart. *)
ClosedUnder(E, S) == \A x, y \in Vertex : <<x, y>> \in E /\ x \in S => y \in S

Kin(E, u, v) == \A S \in SUBSET Vertex : ClosedUnder(E, S) => (u \in S <=> v \in S)

(* The ends of an arc have one root, unless the arc is still to be united. *)
ComponentsInv ==
  Alone /\ "components" \in attached =>
    /\ phase = "idle" =>
         /\ known = vertexCount
         /\ \A v \in Vertex : Kin(edges, v, rho[v])
         /\ \A u, v \in Vertex : <<u, v>> \in edges => rho[u] = rho[v]
    /\ phase = "components" =>
         /\ \A v \in Vertex \ split : Kin(GoalEdges, v, rho[v])
         /\ \A u, v \in Vertex : <<u, v>> \in GoalEdges =>
              (u \in split /\ v \in split) \/ rho[u] = rho[v] \/ Written(<<u, v>>)
    /\ phase = "rebuild" =>
         /\ \A v \in Vertex : Kin(edges, v, rho[v])
         /\ \A u, v \in Vertex : <<u, v>> \in edges =>
              \/ rho[u] = rho[v] \/ <<u, v>> \in pending
              \/ \E i \in DOMAIN batch : next <= i /\ Final(<<u, v>>, i)

(* What is not cut keeps its arcs, so that its vertices stay connected. *)
LEMMA BeginLinks ==
  ASSUME Base, ForestInv, BeginComponents, ~directed, known = vertexCount,
         \A v \in Vertex : Kin(edges, v, rho[v]),
         \A u, v \in Vertex : <<u, v>> \in edges => rho[u] = rho[v]
  PROVE  /\ \A v \in Vertex \ split' : Kin(GoalEdges, v, rho[v])
         /\ \A u, v \in Vertex : <<u, v>> \in GoalEdges => rho[u] = rho[v] \/ Written(<<u, v>>)
<1>1. \A v \in Vertex : v \in split' <=> \E c \in CutEnds : rho[v] = rho[c]
  BY BeginForest
<1>2. batch \in Seq(WeightedOp) /\ Mirrored /\ EndsCounted
  BY DEF Base
<1>3. IsRoots(parent, rho)
  BY RootsKnown
<1>4. ASSUME NEW x \in Vertex, NEW y \in Vertex, <<x, y>> \in edges, x \notin split'
      PROVE  <<x, y>> \in GoalEdges
  <2>1. <<x, y>> \in Arc
    BY DEF Arc
  <2>2. CASE ~Written(<<x, y>>)
    BY <1>4, <2>1, <2>2, Unwritten
  <2>3. CASE Written(<<x, y>>)
    <3>1. PICK i \in DOMAIN batch : Final(<<x, y>>, i)
      BY <1>2, <2>3, LastExists
    <3>2. CASE batch[i].add
      BY <1>2, <2>1, <3>1, <3>2, LastChosen
    <3>3. CASE ~batch[i].add
      <4>1. <<x, y>> \in ArcsOf(directed, batch[i]) /\ Kept(i)
        BY <3>1, KeptFinal DEF Final
      <4>2. (batch[i].src = x /\ batch[i].dst = y) \/ (batch[i].src = y /\ batch[i].dst = x)
        BY <4>1 DEF ArcsOf
      <4>3. <<y, x>> \in edges /\ x < known /\ y < known
        BY <1>2, <1>4 DEF Mirrored, EndsCounted
      <4>4. x \in CutEnds
        BY <1>4, <3>3, <4>1, <4>2, <4>3 DEF CutEnds, Known
      <4>. QED  BY <1>1, <1>4, <4>4
    <3>. QED  BY <3>2, <3>3
  <2>. QED  BY <2>2, <2>3
<1>5. ASSUME NEW v \in Vertex \ split', NEW S \in SUBSET Vertex, ClosedUnder(GoalEdges, S)
      PROVE  v \in S <=> rho[v] \in S
  <2>. DEFINE T == S \ split'
  <2>1. ASSUME NEW x \in Vertex, NEW y \in Vertex, <<x, y>> \in edges, x \in T PROVE y \in T
    <3>1. y \in S
      BY <1>4, <1>5, <2>1 DEF ClosedUnder
    <3>2. rho[x] = rho[y]
      BY <2>1
    <3>. QED  BY <1>1, <2>1, <3>1, <3>2
  <2>2. T \in SUBSET Vertex /\ ClosedUnder(edges, T)
    BY <2>1 DEF ClosedUnder
  <2>3. v \in T <=> rho[v] \in T
    <3>. HIDE DEF T
    <3>. QED  BY <2>2 DEF Kin
  <2>4. rho[v] \notin split'
    <3>1. rho[v] \in Vertex /\ rho[rho[v]] = rho[v]
      BY <1>3 DEF IsRoots
    <3>. QED  BY <1>1, <3>1
  <2>. QED  BY <2>3, <2>4
<1>6. ASSUME NEW u \in Vertex, NEW v \in Vertex, <<u, v>> \in GoalEdges, ~Written(<<u, v>>)
      PROVE  rho[u] = rho[v]
  <2>1. <<u, v>> \in Arc
    BY DEF Arc
  <2>. QED  BY <1>6, <2>1, Unwritten
<1>. QED  BY <1>5, <1>6 DEF Kin

(* Uniting the ends of an arc loses no link and makes no false one. *)
LEMMA UniteLinks ==
  ASSUME Base, ForestInv, phase = "rebuild", ~directed, NEW u \in Vertex, NEW v \in Vertex, <<u, v>> \in edges,
         UniteArc(<<u, v>>), \A w \in Vertex : Kin(edges, w, rho[w])
  PROVE  /\ rho'[u] = rho'[v]
         /\ \A x, y \in Vertex : rho[x] = rho[y] => rho'[x] = rho'[y]
         /\ \A w \in Vertex : Kin(edges, w, rho'[w])
<1>1. PICK top, low \in Vertex :
        /\ {top, low} = {rho[u], rho[v]}
        /\ \A w \in Vertex : rho'[w] = IF rho[w] = low THEN top ELSE rho[w]
  BY UniteForest
<1>2. rho[u] \in {top, low} /\ rho[v] \in {top, low}
  BY <1>1
<1>3. rho'[u] = rho'[v]
  BY <1>1, <1>2
<1>4. \A x, y \in Vertex : rho[x] = rho[y] => rho'[x] = rho'[y]
  BY <1>1
<1>5. ASSUME NEW w \in Vertex, NEW S \in SUBSET Vertex, ClosedUnder(edges, S) PROVE w \in S <=> rho'[w] \in S
  <2>1. u \in S <=> v \in S
    <3>1. <<v, u>> \in edges
      BY DEF Base, Mirrored
    <3>. QED  BY <1>5, <3>1 DEF ClosedUnder
  <2>2. (u \in S <=> rho[u] \in S) /\ (v \in S <=> rho[v] \in S) /\ (w \in S <=> rho[w] \in S)
    BY <1>5 DEF Kin
  <2>3. top \in S <=> low \in S
    BY <1>1, <2>1, <2>2
  <2>. QED  BY <1>1, <2>2, <2>3
<1>. QED  BY <1>3, <1>4, <1>5 DEF Kin

LEMMA ComponentsLinks ==
  ASSUME Base, InGraph, ForestInv, ComponentsInv, ComponentsStep, Alone
  PROVE  ComponentsInv'
<1>1. "components" \in attached /\ attached' = attached /\ ~directed /\ attached # {"weighted"} /\ Mirrored
  <2>1. "components" \in attached
    BY Owners
  <2>2. attached' = attached
    BY DEF ComponentsStep, Takes, caller
  <2>3. ~directed /\ Mirrored
    BY <2>1 DEF Base, Undirected
  <2>4. attached # {"weighted"}
    BY <2>1
  <2>. QED  BY <2>1, <2>2, <2>3, <2>4
<1>2. /\ phase = "idle" =>
           /\ known = vertexCount
           /\ \A v \in Vertex : Kin(edges, v, rho[v])
           /\ \A u, v \in Vertex : <<u, v>> \in edges => rho[u] = rho[v]
      /\ phase = "components" =>
           /\ \A v \in Vertex \ split : Kin(GoalEdges, v, rho[v])
           /\ \A u, v \in Vertex : <<u, v>> \in GoalEdges =>
                (u \in split /\ v \in split) \/ rho[u] = rho[v] \/ Written(<<u, v>>)
      /\ phase = "rebuild" =>
           /\ \A v \in Vertex : Kin(edges, v, rho[v])
           /\ \A u, v \in Vertex : <<u, v>> \in edges =>
                \/ rho[u] = rho[v] \/ <<u, v>> \in pending
                \/ \E i \in DOMAIN batch : next <= i /\ Final(<<u, v>>, i)
  BY <1>1 DEF ComponentsInv
<1>3. CASE BeginComponents
  <2>1. phase = "idle" /\ phase' = "components" /\ GraphStays
    BY <1>3 DEF BeginComponents, GraphStays, call
  <2>2. rho' = rho
    BY <1>3, BeginForest
  <2>3. /\ \A v \in Vertex \ split' : Kin(GoalEdges, v, rho[v])
        /\ \A u, v \in Vertex : <<u, v>> \in GoalEdges => rho[u] = rho[v] \/ Written(<<u, v>>)
    BY <1>1, <1>2, <1>3, <2>1, BeginLinks
  <2>4. GoalEdges' = GoalEdges /\ \A a : Written(a)' <=> Written(a)
    BY <2>1, StillInPlace DEF GraphStays
  <2>. QED  BY <2>1, <2>2, <2>3, <2>4 DEF ComponentsInv, Kin
<1>4. CASE UpdateGraph("components") /\ UNCHANGED components
  <2>1. phase = "components" /\ phase' = "components" /\ parent' = parent /\ split' = split
        /\ batch' = batch /\ directed' = directed
    BY <1>4 DEF UpdateGraph, components
  <2>2. rho' = rho
    BY <2>1 DEF rho, Roots, Root, Ancestors
  <2>3. GoalEdges' = GoalEdges
    <3>1. InPlace(next)
      BY <2>1 DEF InGraph, Before
    <3>. QED  BY <1>4, <3>1, UpdateInPlace
  <2>4. \A a : Written(a)' <=> Written(a)
    BY <2>1 DEF Written
  <2>. QED  BY <1>2, <2>1, <2>2, <2>3, <2>4 DEF ComponentsInv, Kin
<1>5. CASE TakeApart
  <2>1. /\ phase = "components" /\ phase' = "rebuild" /\ GraphStays /\ next' = 1
        /\ pending' = {a \in edges : a[1] \in split /\ a[2] \in split}
        /\ next = Len(batch) + 1
    BY <1>5 DEF TakeApart, Updated, GraphStays, Base
  <2>2. \A v \in Vertex : rho'[v] = IF v \in split THEN v ELSE rho[v]
    BY <1>5, ApartForest
  <2>3. GoalEdges = edges
    BY <2>1, AllInPlace DEF InGraph, Before
  <2>4. \A v \in Vertex : Kin(edges, v, rho'[v])
    BY <1>2, <2>1, <2>2, <2>3 DEF Kin
  <2>5. ASSUME NEW u \in Vertex, NEW v \in Vertex, <<u, v>> \in edges
        PROVE  \/ rho'[u] = rho'[v] \/ <<u, v>> \in pending'
               \/ \E i \in DOMAIN batch : 1 <= i /\ Final(<<u, v>>, i)
    <3>1. CASE u \in split /\ v \in split
      BY <2>1, <2>5, <3>1
    <3>2. CASE rho[u] = rho[v] /\ ~(u \in split /\ v \in split)
      <4>1. u \notin split /\ v \notin split
        BY <3>2, RootsKnown
      <4>. QED  BY <2>2, <3>2, <4>1
    <3>3. CASE Written(<<u, v>>)
      <4>1. batch \in Seq(WeightedOp)
        BY DEF Base
      <4>2. PICK i \in DOMAIN batch : Final(<<u, v>>, i)
        BY <3>3, <4>1, LastExists
      <4>3. 1 <= i
        BY <4>1
      <4>. QED  BY <4>2, <4>3
    <3>. QED  BY <1>2, <2>1, <2>3, <2>5, <3>1, <3>2, <3>3
  <2>6. \A a, i : Final(a, i)' <=> Final(a, i)
    BY <2>1, StillInPlace DEF GraphStays
  <2>7. edges' = edges /\ batch' = batch
    BY <2>1 DEF GraphStays, graph
  <2>. QED  BY <2>1, <2>4, <2>5, <2>6, <2>7 DEF ComponentsInv, Kin
<1>6. CASE Rebuild
  <2>1. PICK a \in pending : UniteArc(a) /\ pending' = pending \ {a}
    BY <1>6, Zenon DEF Rebuild
  <2>2. phase = "rebuild" /\ phase' = "rebuild" /\ GraphStays /\ next' = next
    BY <1>6 DEF Rebuild, GraphStays, call
  <2>3. a \in edges /\ a \in Arc
    BY DEF ForestInv, Base
  <2>4. PICK x, y \in Vertex : a = <<x, y>>
    BY <2>3 DEF Arc
  <2>5. /\ rho'[x] = rho'[y]
        /\ \A u, v \in Vertex : rho[u] = rho[v] => rho'[u] = rho'[v]
        /\ \A w \in Vertex : Kin(edges, w, rho'[w])
    BY <1>1, <1>2, <2>1, <2>2, <2>3, <2>4, UniteLinks
  <2>6. ASSUME NEW u \in Vertex, NEW v \in Vertex, <<u, v>> \in edges
        PROVE  \/ rho'[u] = rho'[v] \/ <<u, v>> \in pending'
               \/ \E i \in DOMAIN batch : next <= i /\ Final(<<u, v>>, i)
    <3>1. CASE <<u, v>> = a
      BY <2>4, <2>5, <3>1
    <3>2. CASE <<u, v>> # a
      BY <1>2, <2>1, <2>2, <2>5, <2>6, <3>2
    <3>. QED  BY <3>1, <3>2
  <2>7. \A b, i : Final(b, i)' <=> Final(b, i)
    BY <2>2, StillInPlace DEF GraphStays
  <2>8. edges' = edges /\ batch' = batch
    BY <2>2 DEF GraphStays, graph
  <2>. QED  BY <2>2, <2>5, <2>6, <2>7, <2>8 DEF ComponentsInv, Kin
<1>7. CASE Replay
  <2>. DEFINE op == batch[next]
              arc == IF op.dst < op.src THEN <<op.dst, op.src>> ELSE <<op.src, op.dst>>
  <2>1. /\ phase = "rebuild" /\ phase' = "rebuild" /\ GraphStays /\ next' = next + 1 /\ next <= Len(batch)
        /\ pending = {} /\ pending' = {}
    BY <1>7 DEF Replay, GraphStays
  <2>2. \/ ~Replays(next) /\ parent' = parent /\ rank' = rank
        \/ Replays(next) /\ UniteArc(arc)
    BY <1>7 DEF Replay
  <2>3. next \in DOMAIN batch /\ next \in Nat /\ DOMAIN batch = 1 .. Len(batch) /\ Len(batch) \in Nat
        /\ op \in WeightedOp /\ op.src \in Vertex /\ op.dst \in Vertex
    <3>1. next \in DOMAIN batch /\ next \in Nat /\ DOMAIN batch = 1 .. Len(batch) /\ Len(batch) \in Nat /\ op \in WeightedOp
      BY <2>1 DEF Base
    <3>. QED  BY <3>1 DEF WeightedOp
  <2>4. InPlace(Len(batch) + 1)
    BY <1>1, <2>1 DEF InGraph, After
  <2>5. ASSUME NEW u \in Vertex, NEW v \in Vertex, <<u, v>> \in edges, Final(<<u, v>>, next)
        PROVE  /\ Replays(next)
               /\ (op.src = u /\ op.dst = v) \/ (op.src = v /\ op.dst = u)
    <3>1. <<u, v>> \in ArcsOf(directed, op) /\ Kept(next)
      BY <2>3, <2>5, KeptFinal DEF Final
    <3>2. (op.src = u /\ op.dst = v) \/ (op.src = v /\ op.dst = u)
      BY <3>1 DEF ArcsOf
    <3>3. op.add
      <4>1. <<u, v>> \in Arc /\ next < Len(batch) + 1
        BY <2>1, <2>3 DEF Arc
      <4>. QED  BY <2>3, <2>4, <2>5, <4>1 DEF InPlace
    <3>4. <<op.src, op.dst>> \in edges
      BY <1>1, <2>5, <3>2 DEF Mirrored
    <3>. QED  BY <3>1, <3>2, <3>3, <3>4 DEF Replays
  <2>6. /\ \A u, v \in Vertex : rho[u] = rho[v] => rho'[u] = rho'[v]
        /\ \A w \in Vertex : Kin(edges, w, rho'[w])
        /\ Replays(next) => rho'[op.src] = rho'[op.dst]
    <3>1. CASE ~Replays(next) /\ parent' = parent
      <4>1. rho' = rho
        BY <3>1 DEF rho, Roots, Root, Ancestors
      <4>. QED  BY <1>2, <2>1, <3>1, <4>1
    <3>2. CASE Replays(next) /\ UniteArc(arc)
      <4>1. <<op.src, op.dst>> \in edges /\ <<op.dst, op.src>> \in edges
        BY <1>1, <2>3, <3>2 DEF Replays, Mirrored
      <4>. HIDE DEF op
      <4>2. CASE op.dst < op.src
        <5>1. UniteArc(<<op.dst, op.src>>)
          BY <3>2, <4>2
        <5>. QED  BY <1>1, <1>2, <2>1, <2>3, <4>1, <5>1, UniteLinks
      <4>3. CASE ~(op.dst < op.src)
        <5>1. UniteArc(<<op.src, op.dst>>)
          BY <3>2, <4>3
        <5>. QED  BY <1>1, <1>2, <2>1, <2>3, <4>1, <5>1, UniteLinks
      <4>. QED  BY <4>2, <4>3
    <3>. QED  BY <2>2, <3>1, <3>2
  <2>7. ASSUME NEW u \in Vertex, NEW v \in Vertex, <<u, v>> \in edges
        PROVE  rho'[u] = rho'[v] \/ \E i \in DOMAIN batch : next + 1 <= i /\ Final(<<u, v>>, i)
    <3>1. CASE rho[u] = rho[v]
      BY <2>6, <3>1
    <3>2. ASSUME NEW i \in DOMAIN batch, next <= i, Final(<<u, v>>, i)
          PROVE  rho'[u] = rho'[v] \/ next + 1 <= i
      <4>1. CASE i = next
        <5>1. Replays(next) /\ ((op.src = u /\ op.dst = v) \/ (op.src = v /\ op.dst = u))
          BY <2>5, <2>7, <3>2, <4>1
        <5>. QED  BY <2>6, <5>1
      <4>2. CASE i # next
        BY <2>3, <3>2, <4>2
      <4>. QED  BY <4>1, <4>2
    <3>. QED  BY <1>2, <2>1, <2>7, <3>1, <3>2
  <2>8. \A b, i : Final(b, i)' <=> Final(b, i)
    BY <2>1, StillInPlace DEF GraphStays
  <2>9. edges' = edges /\ batch' = batch
    BY <2>1 DEF GraphStays, graph
  <2>. QED  BY <2>1, <2>6, <2>7, <2>8, <2>9 DEF ComponentsInv, Kin
<1>8. CASE EndComponents
  <2>1. /\ phase = "rebuild" /\ phase' = "idle" /\ pending = {} /\ next > Len(batch)
        /\ parent' = parent /\ known' = known /\ GraphStays
    BY <1>8 DEF EndComponents, Updated, Return, components, GraphStays
  <2>2. rho' = rho
    BY <2>1 DEF rho, Roots, Root, Ancestors
  <2>3. \A i \in DOMAIN batch : ~(next <= i)
    BY <2>1 DEF Base
  <2>4. known = vertexCount /\ edges' = edges /\ vertexCount' = vertexCount
    BY <2>1 DEF ForestInv, GraphStays, graph
  <2>. QED  BY <1>2, <2>1, <2>2, <2>3, <2>4 DEF ComponentsInv, Kin
<1>9. ASSUME NEW v \in Vertex, QueryComponent(v) PROVE ComponentsInv'
  <2>1. phase = "idle" /\ phase' = "idle" /\ known' = known /\ edges' = edges /\ vertexCount' = vertexCount
    BY <1>9 DEF QueryComponent, graph
  <2>2. rho' = rho
    BY <1>9, QueryForest
  <2>. QED  BY <1>2, <2>1, <2>2 DEF ComponentsInv, Kin
<1>. QED  BY <1>3, <1>4, <1>5, <1>6, <1>7, <1>8, <1>9 DEF ComponentsStep

LEMMA StepComponents == Base /\ InGraph /\ ForestInv /\ ComponentsInv /\ [Next]_vars => ComponentsInv'
<1>. SUFFICES ASSUME Base, InGraph, ForestInv, ComponentsInv, [Next]_vars, Alone, "components" \in attached
              PROVE  ComponentsInv'
  BY AttachedStays DEF ComponentsInv, Alone
<1>1. CASE UNCHANGED vars
  <2>1. UNCHANGED <<graph, batch, next, phase, attached, components>>
    BY <1>1 DEF vars, call, caller, results, others
  <2>2. rho' = rho
    BY <2>1 DEF rho, Roots, Root, Ancestors, components
  <2>3. GoalEdges' = GoalEdges /\ (\A a, i : Final(a, i)' <=> Final(a, i)) /\ (\A a : Written(a)' <=> Written(a))
    BY <2>1, StillInPlace
  <2>. QED  BY <2>1, <2>2, <2>3 DEF ComponentsInv, Kin, Alone, graph, components
<1>2. CASE GivesBatch
  <2>1. phase = "idle" /\ phase' = "idle" /\ parent' = parent /\ known' = known /\ edges' = edges
        /\ vertexCount' = vertexCount
    BY <1>2 DEF GivesBatch, NewBatch, results, others, components, graph
  <2>2. rho' = rho
    BY <2>1 DEF rho, Roots, Root, Ancestors
  <2>. QED  BY <2>1, <2>2 DEF ComponentsInv, Kin
<1>3. CASE ComponentsStep
  BY <1>3, ComponentsLinks
<1>4. ~(TrianglesStep \/ CoresStep \/ RanksStep \/ PathsStep)
  BY Owners DEF Alone
<1>. QED  BY <1>1, <1>2, <1>3, <1>4, StepCases

LEMMA InitComponentsInv == Init => ComponentsInv
<1>. SUFFICES ASSUME Init PROVE ComponentsInv
  OBVIOUS
<1>1. /\ parent = [v \in Vertex |-> v] /\ known = vertexCount /\ edges = {} /\ phase = "idle"
  BY DEF Init, InitComponents
<1>2. ForestInv
  BY InitForest
<1>3. \A v \in Vertex : rho[v] = v
  BY <1>1, <1>2, RootsKnown DEF IsRoots
<1>. QED  BY <1>1, <1>3 DEF ComponentsInv, Kin

LEMMA ComponentsRight ==
  ASSUME ForestInv, ComponentsInv, Alone, Settled, "components" \in attached
  PROVE  ComponentsExact
<1>1. /\ \A v \in Vertex : Kin(edges, v, rho[v])
      /\ \A u, v \in Vertex : <<u, v>> \in edges => rho[u] = rho[v]
      /\ known = vertexCount
  BY DEF ComponentsInv, Settled
<1>2. \A v \in Vertex : rho[v] = Root(parent, v)
  BY RootsKnown
<1>. DEFINE root == [v \in Vertex |-> Root(parent, v)]
<1>3. ASSUME NEW v \in Vertex PROVE Reach({v}, Vertex) = {w \in Vertex : root[w] = root[v]}
  <2>1. ASSUME NEW w \in Vertex, w \in Reach({v}, Vertex) PROVE rho[w] = rho[v]
    <3>. DEFINE S == {x \in Vertex : rho[x] = rho[v]}
    <3>1. S \in SUBSET Vertex /\ {v} \subseteq S /\ \A u \in S : Neighbors(u) \cap Vertex \subseteq S
      BY <1>1 DEF Neighbors
    <3>2. w \in S
      <4>. HIDE DEF S
      <4>. QED  BY <2>1, <3>1 DEF Reach
    <3>. QED  BY <3>2
  <2>2. ASSUME NEW w \in Vertex, rho[w] = rho[v] PROVE w \in Reach({v}, Vertex)
    <3>1. ASSUME NEW S \in SUBSET Vertex, {v} \subseteq S, \A u \in S : Neighbors(u) \cap Vertex \subseteq S
          PROVE  w \in S
      <4>1. ClosedUnder(edges, S)
        BY <3>1 DEF ClosedUnder, Neighbors
      <4>2. (v \in S <=> rho[v] \in S) /\ (w \in S <=> rho[w] \in S)
        BY <1>1, <4>1 DEF Kin
      <4>. QED  BY <2>2, <3>1, <4>2
    <3>. QED  BY <3>1 DEF Reach
  <2>3. Reach({v}, Vertex) \subseteq Vertex
    BY DEF Reach
  <2>. QED  BY <1>2, <2>1, <2>2, <2>3
<1>4. 0 .. vertexCount - 1 \subseteq Vertex
  BY <1>1, MaintainedConstants DEF ForestInv, Vertex
<1>. HIDE DEF root
<1>5. \A v \in 0 .. vertexCount - 1 : Reach({v}, Vertex) = {w \in Vertex : root[w] = root[v]}
  BY <1>3, <1>4
<1>. QED  BY <1>5 DEF ComponentsExact, root

(* Of a graph to itself, the representatives are those of the components,  *)
(* after any history of batches (BasicIncrementalComponents::apply): what  *)
(* an effective removal may have cut is taken apart and built again, and   *)
(* nothing else needs to be.                                               *)
THEOREM ComponentsStayExact == Spec => [](Alone => ComponentsMaintained)
<1>1. Init => Base /\ InGraph /\ ForestInv /\ ComponentsInv
  BY InitBase, InitInGraph, InitForest, InitComponentsInv
<1>2. Base /\ InGraph /\ ForestInv /\ ComponentsInv /\ [Next]_vars => (Base /\ InGraph /\ ForestInv /\ ComponentsInv)'
  BY StepBase, StepInGraph, StepForest, StepComponents
<1>3. Base /\ InGraph /\ ForestInv /\ ComponentsInv => (Alone => ComponentsMaintained)
  BY ComponentsRight DEF ComponentsMaintained
<1>. QED  BY <1>1, <1>2, <1>3, PTL DEF Spec

-----------------------------------------------------------------------------
(* The vertices of a graph of n vertices that no arc leaves. *)
Bare(arcs, n) == {u \in 0 .. n - 1 : Row(arcs, u) = {}}

(* Before the update the analytic knows the graph as it was; what the      *)
(* batch then changes is written by it.  In the rounds, what is outdated   *)
(* is active or was left over.                                             *)
RanksInv ==
  "ranks" \in attached =>
    /\ phase = "idle" => RanksFresh
    /\ phase = "ranks" =>
         /\ stale \subseteq loose
         /\ before.count \in Nat /\ ranked = before.count
         /\ dangling = Cardinality(Bare(before.arcs, before.count))
         /\ before.arcs \subseteq Arc
         /\ \A a \in Arc : (a \in edges <=> a \in before.arcs) \/ Written(a)
    /\ phase = "rounds" =>
         /\ stale \subseteq loose \cup active
         /\ ranked = vertexCount /\ dangling = 0 /\ Dangling = {}

(* An arc that the batch writes leaves one of the sources. *)
LEMMA WrittenBySources ==
  ASSUME Base, NEW u \in Vertex, NEW v \in Vertex, Written(<<u, v>>)
  PROVE  u \in Sources /\ \E op \in ToSet(batch) : v \in {op.src, op.dst}
<1>1. PICK i \in DOMAIN batch : <<u, v>> \in ArcsOf(directed, batch[i])
  BY DEF Written
<1>2. batch[i] \in ToSet(batch)
  BY DEF ToSet
<1>3. \/ u = batch[i].src /\ v = batch[i].dst
      \/ ~directed /\ u = batch[i].dst /\ v = batch[i].src
  BY <1>1 DEF ArcsOf
<1>4. u \in Sources
  <2>1. CASE u = batch[i].src
    BY <1>2, <2>1 DEF Sources
  <2>2. CASE ~directed /\ u = batch[i].dst
    BY <1>2, <2>2 DEF Sources
  <2>. QED  BY <1>3, <2>1, <2>2
<1>. QED  BY <1>2, <1>3, <1>4

(* The rounds start from a graph in which nothing dangles, and every       *)
(* vertex with another equation is active.                                 *)
LEMMA RoundsStart ==
  ASSUME Base, RanksInv, "ranks" \in attached, StartRounds
  PROVE  Dangling = {} /\ Moved \subseteq Activated /\ ranked = vertexCount
<1>1. /\ before.count \in Nat /\ ranked = before.count
      /\ dangling = Cardinality(Bare(before.arcs, before.count))
      /\ \A a \in Arc : (a \in edges <=> a \in before.arcs) \/ Written(a)
      /\ before.arcs \subseteq Arc
  BY DEF RanksInv, StartRounds, Updated
<1>2. vertexCount = ranked /\ dangling = 0 /\ Sources \cap Dangling = {}
  BY DEF StartRounds, Global
<1>3. Bare(before.arcs, before.count) = {}
  <2>1. IsFiniteSet(0 .. before.count - 1)
    BY <1>1, FS_Interval
  <2>2. IsFiniteSet(Bare(before.arcs, before.count))
    BY <2>1, FS_Subset DEF Bare
  <2>. QED  BY <1>1, <1>2, <2>2, FS_EmptySet
<1>4. vertexCount \in 0 .. MaxVertices /\ MaxVertices \in Nat
  BY MaintainedConstants DEF Base
<1>5. Present \subseteq Vertex
  BY <1>4 DEF Present, Vertex
<1>6. ASSUME NEW u \in Present, u \notin Sources PROVE Row(edges, u) = Row(before.arcs, u)
  <2>1. ASSUME NEW w \in Vertex PROVE <<u, w>> \in edges <=> <<u, w>> \in before.arcs
    <3>1. <<u, w>> \in Arc /\ u \in Vertex
      BY <1>5 DEF Arc
    <3>. QED  BY <1>1, <1>6, <3>1, WrittenBySources
  <2>. QED  BY <2>1 DEF Row
<1>7. Dangling = {}
  <2>. SUFFICES ASSUME NEW u \in Dangling PROVE FALSE
    OBVIOUS
  <2>1. u \in Present /\ Row(edges, u) = {} /\ u \notin Sources
    BY <1>2 DEF Dangling, Neighbors, Row
  <2>2. u \in Bare(before.arcs, before.count)
    BY <1>1, <1>2, <1>6, <2>1 DEF Bare, Present
  <2>. QED  BY <1>3, <2>2
<1>8. Moved \subseteq Activated
  <2>. SUFFICES ASSUME NEW v \in Present, v \notin Activated
                PROVE  Equation(edges, vertexCount, v) = Equation(before.arcs, before.count, v)
    BY DEF Moved
  <2>1. v \in Vertex
    BY <1>5
  <2>2. ~\E op \in ToSet(batch) : v \in {op.src, op.dst}
    BY DEF Activated
  <2>3. \A u \in Sources : v \notin Neighbors(u)
    BY DEF Activated
  <2>4. ASSUME NEW x \in Present PROVE <<x, v>> \in edges <=> <<x, v>> \in before.arcs
    <3>1. <<x, v>> \in Arc /\ x \in Vertex
      BY <1>5, <2>1 DEF Arc
    <3>. QED  BY <1>1, <2>1, <2>2, <3>1, WrittenBySources
  <2>5. ASSUME NEW x \in Present, <<x, v>> \in edges PROVE Row(edges, x) = Row(before.arcs, x)
    <3>1. x \notin Sources
      BY <2>1, <2>3, <2>5 DEF Neighbors
    <3>. QED  BY <1>6, <3>1
  <2>6. {x \in Present : <<x, v>> \in edges} = {x \in Present : <<x, v>> \in before.arcs}
    BY <2>4
  <2>7. {<<u, Cardinality(Row(edges, u))>> : u \in {x \in Present : <<x, v>> \in edges}}
        = {<<u, Cardinality(Row(before.arcs, u))>> : u \in {x \in Present : <<x, v>> \in before.arcs}}
    BY <2>5, <2>6
  <2>8. {u \in Present : Row(edges, u) = {}} = {} /\ {u \in Present : Row(before.arcs, u) = {}} = {}
    <3>1. {u \in Present : Row(edges, u) = {}} = Dangling
      BY DEF Dangling, Neighbors, Row
    <3>2. {u \in Present : Row(before.arcs, u) = {}} = Bare(before.arcs, before.count)
      BY <1>1, <1>2 DEF Bare, Present
    <3>. QED  BY <1>3, <1>7, <3>1, <3>2
  <2>9. vertexCount = before.count
    BY <1>1, <1>2
  <2>10. Equation(edges, vertexCount, v) =
           [count |-> vertexCount, idle |-> {},
            from |-> {<<u, Cardinality(Row(edges, u))>> : u \in {x \in Present : <<x, v>> \in edges}}]
    BY <2>8 DEF Equation, Present
  <2>11. Equation(before.arcs, vertexCount, v) =
           [count |-> vertexCount, idle |-> {},
            from |-> {<<u, Cardinality(Row(before.arcs, u))>> : u \in {x \in Present : <<x, v>> \in before.arcs}}]
    BY <2>8 DEF Equation, Present
  <2>. QED  BY <2>7, <2>9, <2>10, <2>11
<1>. QED  BY <1>2, <1>7, <1>8

LEMMA RanksKept ==
  ASSUME Base, RanksInv, RanksStep, "ranks" \in attached
  PROVE  RanksInv'
<1>1. attached' = attached
  BY DEF RanksStep, Takes, caller
<1>2. /\ phase = "idle" => RanksFresh
      /\ phase = "ranks" =>
           /\ stale \subseteq loose
           /\ before.count \in Nat /\ ranked = before.count
           /\ dangling = Cardinality(Bare(before.arcs, before.count))
           /\ before.arcs \subseteq Arc
           /\ \A a \in Arc : (a \in edges <=> a \in before.arcs) \/ Written(a)
      /\ phase = "rounds" =>
           /\ stale \subseteq loose \cup active
           /\ ranked = vertexCount /\ dangling = 0 /\ Dangling = {}
  BY DEF RanksInv
<1>3. ASSUME Solve PROVE RanksInv'
  <2>1. phase' = "idle" /\ stale' = {} /\ vertexCount' = vertexCount /\ ranked' = vertexCount'
        /\ dangling' = Cardinality(Dangling) /\ edges' = edges
    BY <1>3 DEF Solve, LeaveRanks, Return, graph
  <2>2. Dangling' = Dangling
    BY <2>1 DEF Dangling, Present, Neighbors
  <2>3. RanksFresh'
    BY <2>1, <2>2 DEF RanksFresh
  <2>. QED  BY <2>1, <2>3 DEF RanksInv
<1>4. CASE BeginRanks
  <2>1. /\ phase = "idle" /\ phase' = "ranks" /\ before' = [arcs |-> edges, count |-> vertexCount]
        /\ edges' = edges /\ vertexCount' = vertexCount /\ ranked' = ranked /\ dangling' = dangling
        /\ stale' = stale /\ loose' = loose
    BY <1>4 DEF BeginRanks, graph
  <2>2. ranked = vertexCount /\ dangling = Cardinality(Dangling) /\ stale \subseteq loose
    BY <1>2, <2>1 DEF RanksFresh
  <2>3. before'.arcs = edges /\ before'.count = vertexCount
    BY <2>1
  <2>4. Bare(before'.arcs, before'.count) = Dangling
    BY <2>3 DEF Bare, Dangling, Present, Row, Neighbors
  <2>5. vertexCount \in Nat /\ edges \subseteq Arc
    BY DEF Base
  <2>. QED  BY <2>1, <2>2, <2>3, <2>4, <2>5 DEF RanksInv
<1>5. CASE UpdateRanked
  <2>1. /\ phase = "ranks" /\ phase' = "ranks" /\ before' = before /\ ranked' = ranked /\ dangling' = dangling
        /\ stale' = stale /\ loose' = loose /\ batch' = batch /\ directed' = directed /\ UpdateGraph("ranks")
    BY <1>5 DEF UpdateRanked, UpdateGraph, ranks
  <2>2. \A a : Written(a)' <=> Written(a)
    BY <2>1 DEF Written
  <2>3. ASSUME NEW a \in Arc PROVE (a \in edges' <=> a \in edges) \/ Written(a)
    <3>1. next \in DOMAIN batch
      BY <2>1 DEF UpdateGraph, Base
    <3>. QED  BY <2>1, <3>1, UpdateEffect DEF Written
  <2>. QED  BY <1>2, <2>1, <2>2, <2>3 DEF RanksInv
<1>6. CASE SolveAfresh \/ RecomputeRanks
  BY <1>3, <1>6 DEF SolveAfresh, RecomputeRanks
<1>7. CASE StartRounds
  <2>1. /\ phase = "ranks" /\ phase' = "rounds" /\ dangling' = 0 /\ active' = Activated /\ stale' = stale \cup Moved
        /\ loose' = loose /\ ranked' = ranked /\ vertexCount' = vertexCount /\ edges' = edges
    BY <1>7 DEF StartRounds, Updated, graph
  <2>2. Dangling' = Dangling
    BY <2>1 DEF Dangling, Present, Neighbors
  <2>. QED  BY <1>2, <1>7, <2>1, <2>2, RoundsStart DEF RanksInv
<1>8. CASE Round
  <2>1. phase = "rounds"
    BY <1>8 DEF Round
  <2>2. PICK moved \in SUBSET active :
          \/ Solve
          \/ /\ active' = UNION {Neighbors(v) : v \in moved}
             /\ stale' = (stale \ active) \cup UNION {Neighbors(v) : v \in moved}
             /\ UNCHANGED <<graph, call, phase, ranked, dangling, limit, before, loose>>
    BY <1>8 DEF Round
  <2>3. CASE ~Solve
    <3>1. /\ phase' = "rounds" /\ vertexCount' = vertexCount /\ edges' = edges /\ ranked' = ranked
          /\ dangling' = dangling /\ loose' = loose /\ stale' = (stale \ active) \cup active'
      BY <2>1, <2>2, <2>3 DEF graph
    <3>2. Dangling' = Dangling
      BY <3>1 DEF Dangling, Present, Neighbors
    <3>. QED  BY <1>2, <2>1, <3>1, <3>2 DEF RanksInv
  <2>. QED  BY <1>3, <2>3
<1>9. CASE EndRounds
  <2>1. /\ phase = "rounds" /\ phase' = "idle" /\ loose' = loose \cup active /\ stale' = stale
        /\ ranked' = ranked /\ dangling' = dangling /\ vertexCount' = vertexCount /\ edges' = edges
    BY <1>9 DEF EndRounds, LeaveRanks, Return, graph
  <2>2. Dangling' = {}
    BY <1>2, <2>1 DEF Dangling, Present, Neighbors
  <2>3. RanksFresh'
    BY <1>2, <2>1, <2>2, FS_EmptySet DEF RanksFresh
  <2>. QED  BY <2>1, <2>3 DEF RanksInv
<1>. QED  BY <1>4, <1>5, <1>6, <1>7, <1>8, <1>9 DEF RanksStep

LEMMA StepRanks == Base /\ RanksInv /\ [Next]_vars => RanksInv'
<1>. SUFFICES ASSUME Base, RanksInv, [Next]_vars, "ranks" \in attached PROVE RanksInv'
  BY AttachedStays DEF RanksInv
<1>0. attached = {"ranks"}
  BY AttachmentConstants DEF Base, Undirected
<1>1. CASE UNCHANGED vars
  <2>1. /\ phase' = phase /\ attached' = attached /\ batch' = batch /\ directed' = directed /\ edges' = edges
        /\ vertexCount' = vertexCount /\ ranks' = ranks
    BY <1>1 DEF vars, call, caller, results, graph
  <2>2. Dangling' = Dangling /\ \A a : Written(a)' <=> Written(a)
    BY <2>1 DEF Dangling, Present, Neighbors, Written
  <2>. QED  BY <2>1, <2>2 DEF RanksInv, RanksFresh, ranks
<1>2. CASE GivesBatch
  <2>1. /\ phase = "idle" /\ phase' = "idle" /\ attached' = attached /\ edges' = edges
        /\ vertexCount' = vertexCount /\ ranks' = ranks
    BY <1>2 DEF GivesBatch, NewBatch, results, graph
  <2>2. Dangling' = Dangling
    BY <2>1 DEF Dangling, Present, Neighbors
  <2>. QED  BY <2>1, <2>2 DEF RanksInv, RanksFresh, ranks
<1>3. CASE RanksStep
  BY <1>3, RanksKept
<1>4. ~(TrianglesStep \/ CoresStep \/ ComponentsStep \/ PathsStep)
  BY <1>0, Owners
<1>. QED  BY <1>1, <1>2, <1>3, <1>4, StepCases

LEMMA InitRanksInv == Init => RanksInv
<1>. SUFFICES ASSUME Init PROVE RanksInv
  OBVIOUS
<1>1. /\ phase = "idle" /\ edges = {} /\ ranked = vertexCount /\ dangling = vertexCount /\ stale = {}
  BY DEF Init, InitRanks
<1>2. vertexCount \in Nat
  BY InitBase DEF Base
<1>3. Dangling = 0 .. vertexCount - 1
  BY <1>1 DEF Dangling, Present, Neighbors
<1>4. Cardinality(0 .. vertexCount - 1) = vertexCount
  BY <1>2, FS_Interval
<1>. QED  BY <1>1, <1>3, <1>4 DEF RanksInv, RanksFresh

(* Whatever batches and recomputations came before, the dangling vertices  *)
(* are counted, and a vertex whose equation a batch changed, or whose      *)
(* in-neighbour moved, was evaluated after that unless a repair ran out of *)
(* rounds there: the vertices that PageRank's apply() activates are enough.*)
THEOREM RanksStayFresh == Spec => []RanksMaintained
<1>1. Init => Base /\ RanksInv
  BY InitBase, InitRanksInv
<1>2. Base /\ RanksInv /\ [Next]_vars => (Base /\ RanksInv)'
  BY StepBase, StepRanks
<1>3. Base /\ RanksInv => RanksMaintained
  BY DEF RanksInv, RanksMaintained, Settled
<1>. QED  BY <1>1, <1>2, <1>3, PTL DEF Spec

-----------------------------------------------------------------------------
(* The heap of the peeling, whatever else is attached: it holds the degree *)
(* of every vertex that is left, so that it is empty only when none is.    *)
CoresSound ==
  /\ CoresTypeOK
  /\ \A v \in left : <<degree[v], v>> \in heap
  /\ phase # "peel" => left = {}

(* Taking a pair out of the heap removes the vertex, or skips the pair.    *)
Near(u) == (left \ {u}) \cap Neighbors(u)

Skips(item) ==
  /\ ~(item[2] \in left /\ item[1] = degree[item[2]])
  /\ heap' = heap \ {item}
  /\ degree' = degree /\ left' = left /\ level' = level /\ core' = core

Removes(u) ==
  /\ \A j \in heap : degree[u] <= j[1]
  /\ left' = left \ {u}
  /\ degree' = [v \in Vertex |-> IF v \in Near(u) /\ degree[v] # 0 THEN degree[v] - 1 ELSE degree[v]]
  /\ heap' = (heap \ {<<degree[u], u>>}) \cup {<<degree'[v], v>> : v \in Near(u)}
  /\ level' = IF level < degree[u] THEN degree[u] ELSE level
  /\ core' = [core EXCEPT ![u] = level']

LEMMA PeelCases ==
  ASSUME CoresTypeOK, Peel
  PROVE  (\E item \in heap : Skips(item)) \/ (\E u \in left : Removes(u))
<1>1. PICK item \in heap :
       /\ \A j \in heap : item[1] < j[1] \/ (item[1] = j[1] /\ item[2] <= j[2])
       /\ LET u     == item[2]
              fresh == u \in left /\ item[1] = degree[u]
              near  == IF fresh THEN (left \ {u}) \cap Neighbors(u) ELSE {}
              deg   == [v \in Vertex |-> IF v \in near /\ degree[v] # 0 THEN degree[v] - 1
                                        ELSE degree[v]]
              up    == IF level < item[1] THEN item[1] ELSE level
          IN  /\ degree' = deg
              /\ heap' = (heap \ {item}) \cup {<<deg[v], v>> : v \in near}
              /\ left' = IF fresh THEN left \ {u} ELSE left
              /\ level' = IF fresh THEN up ELSE level
              /\ core' = IF fresh THEN [core EXCEPT ![u] = up] ELSE core
  BY DEF Peel
<1>2. item = <<item[1], item[2]>> /\ item[1] \in Nat /\ item[2] \in Vertex
  BY DEF CoresTypeOK
<1>3. CASE item[2] \in left /\ item[1] = degree[item[2]]
  <2>. DEFINE u == item[2]
  <2>1. ASSUME NEW j \in heap PROVE degree[u] <= j[1]
    <3>1. j[1] \in Nat
      BY DEF CoresTypeOK
    <3>2. item[1] < j[1] \/ item[1] = j[1]
      BY <1>1
    <3>. QED  BY <1>2, <1>3, <3>1, <3>2
  <2>2. /\ left' = left \ {u}
        /\ degree' = [v \in Vertex |-> IF v \in Near(u) /\ degree[v] # 0 THEN degree[v] - 1 ELSE degree[v]]
        /\ level' = IF level < degree[u] THEN degree[u] ELSE level
        /\ core' = [core EXCEPT ![u] = level']
    BY <1>1, <1>3 DEF Near
  <2>3. heap' = (heap \ {item}) \cup {<<degree'[v], v>> : v \in Near(u)}
    BY <1>1, <1>3 DEF Near
  <2>4. heap' = (heap \ {<<degree[u], u>>}) \cup {<<degree'[v], v>> : v \in Near(u)}
    BY <1>2, <1>3, <2>3
  <2>. HIDE DEF u
  <2>5. Removes(u)
    BY <2>1, <2>2, <2>4 DEF Removes
  <2>6. u \in left
    BY <1>3 DEF u
  <2>. QED  BY <2>5, <2>6
<1>4. CASE ~(item[2] \in left /\ item[1] = degree[item[2]])
  <2>1. degree' = [v \in Vertex |-> degree[v]] /\ heap' = heap \ {item} /\ left' = left /\ level' = level /\ core' = core
    BY <1>1, <1>4
  <2>2. degree' = degree
    BY <2>1 DEF CoresTypeOK
  <2>. QED  BY <1>4, <2>1, <2>2 DEF Skips
<1>. QED  BY <1>3, <1>4

LEMMA PeelSound ==
  ASSUME CoresSound, Peel
  PROVE  CoresSound'
<1>0. /\ core \in [Vertex -> Nat] /\ region \subseteq Vertex /\ left \subseteq region
      /\ degree \in [Vertex -> Nat] /\ heap \subseteq Nat \X Vertex /\ level \in Nat
      /\ \A v \in left : <<degree[v], v>> \in heap
  BY DEF CoresSound, CoresTypeOK
<1>1. phase' = phase /\ region' = region /\ phase = "peel"
  BY DEF Peel
<1>2. ASSUME NEW item \in heap, Skips(item) PROVE CoresSound'
  <2>1. \A v \in left : <<degree[v], v>> # item
    BY <1>2 DEF Skips
  <2>. QED  BY <1>0, <1>1, <1>2, <2>1 DEF Skips, CoresSound, CoresTypeOK
<1>3. ASSUME NEW u \in left, Removes(u) PROVE CoresSound'
  <2>1. u \in Vertex /\ Near(u) \subseteq left /\ Near(u) \subseteq Vertex /\ degree[u] \in Nat
    BY <1>0 DEF Near
  <2>2. degree' \in [Vertex -> Nat] /\ level' \in Nat
    <3>1. ASSUME NEW v \in Vertex
          PROVE  (IF v \in Near(u) /\ degree[v] # 0 THEN degree[v] - 1 ELSE degree[v]) \in Nat
      <4>1. degree[v] \in Nat
        BY <1>0
      <4>. QED  BY <4>1
    <3>2. degree' \in [Vertex -> Nat]
      BY <1>3, <3>1, Zenon DEF Removes
    <3>3. level' \in Nat
      BY <1>0, <1>3, <2>1 DEF Removes
    <3>. QED  BY <3>2, <3>3
  <2>3. core' \in [Vertex -> Nat] /\ left' \subseteq region
    BY <1>0, <1>3, <2>1, <2>2 DEF Removes
  <2>4. heap' \subseteq Nat \X Vertex
    BY <1>0, <1>3, <2>1, <2>2 DEF Removes
  <2>5. ASSUME NEW v \in left' PROVE <<degree'[v], v>> \in heap'
    <3>1. v \in left /\ v # u /\ v \in Vertex
      BY <1>0, <1>3 DEF Removes
    <3>2. CASE v \in Near(u)
      BY <1>3, <3>2 DEF Removes
    <3>3. CASE v \notin Near(u)
      BY <1>0, <1>3, <3>1, <3>3 DEF Removes
    <3>. QED  BY <3>2, <3>3
  <2>. QED  BY <1>0, <1>1, <2>2, <2>3, <2>4, <2>5 DEF CoresSound, CoresTypeOK
<1>. QED  BY <1>2, <1>3, PeelCases DEF CoresSound

LEMMA StartSound ==
  ASSUME Base, CoresSound, NEW affected \in SUBSET Vertex, StartPeeling(affected)
  PROVE  /\ CoresSound'
         /\ \A v \in Vertex : degree'[v] = IF v \in affected THEN Cardinality(Neighbors(v) \cap affected) ELSE 0
         /\ \A v \in Vertex : core'[v] = IF v \in affected THEN 0 ELSE core[v]
<1>. DEFINE deg == [v \in Vertex |-> IF v \in affected THEN Cardinality(Neighbors(v) \cap affected) ELSE 0]
<1>1. /\ region' = affected /\ degree' = deg /\ left' = affected /\ heap' = {<<deg[v], v>> : v \in affected}
      /\ core' = [v \in Vertex |-> IF v \in affected THEN 0 ELSE core[v]] /\ level' = 0 /\ phase' = "peel"
  BY DEF StartPeeling
<1>2. ASSUME NEW v \in Vertex PROVE Cardinality(Neighbors(v) \cap affected) \in Nat
  BY FiniteVertices, FS_CardinalityType DEF Neighbors
<1>3. deg \in [Vertex -> Nat]
  BY <1>2
<1>4. core' \in [Vertex -> Nat]
  BY <1>1 DEF CoresSound, CoresTypeOK
<1>5. \A v \in Vertex : deg[v] = IF v \in affected THEN Cardinality(Neighbors(v) \cap affected) ELSE 0
  OBVIOUS
<1>. HIDE DEF deg
<1>6. heap' \subseteq Nat \X Vertex /\ \A v \in left' : <<degree'[v], v>> \in heap'
  BY <1>1, <1>3
<1>7. CoresSound'
  BY <1>1, <1>3, <1>4, <1>6 DEF CoresSound, CoresTypeOK
<1>. QED  BY <1>1, <1>5, <1>7

LEMMA MarksVertices ==
  ASSUME NEW b, NEW n, NEW marked \in SUBSET Vertex
  PROVE  MarkEnds(b, n, marked) \in SUBSET Vertex
BY DEF MarkEnds, Reach

LEMMA PresentVertices == Base => 0 .. vertexCount - 1 \subseteq Vertex
BY MaintainedConstants DEF Base, Vertex

LEMMA StepCoresSound == Base /\ CoresSound /\ [Next]_vars => CoresSound'
<1>. SUFFICES ASSUME Base, CoresSound, [Next]_vars PROVE CoresSound'
  OBVIOUS
<1>1. ASSUME cores' = cores, phase' = phase \/ phase' # "peel", phase # "peel" \/ phase' = phase PROVE CoresSound'
  <2>1. /\ core' = core /\ region' = region /\ degree' = degree /\ left' = left /\ heap' = heap /\ level' = level
    BY <1>1 DEF cores, peeling
  <2>. QED  BY <1>1, <2>1 DEF CoresSound, CoresTypeOK
<1>2. CASE UNCHANGED vars
  <2>1. cores' = cores /\ phase' = phase
    BY <1>2 DEF vars, results, others
  <2>. QED  BY <1>1, <2>1
<1>3. CASE GivesBatch
  <2>1. cores' = cores /\ phase' = phase
    BY <1>3 DEF GivesBatch, NewBatch, results, others
  <2>. QED  BY <1>1, <2>1
<1>4. CASE ComponentsStep \/ TrianglesStep \/ RanksStep \/ PathsStep
  <2>1. cores' = cores
    BY <1>4 DEF ComponentsStep, TrianglesStep, RanksStep, PathsStep, others
  <2>2. phase # "peel" /\ phase' # "peel"
    BY <1>4, PhasesOf DEF PathPhase
  <2>. QED  BY <1>1, <2>1, <2>2
<1>5. CASE CoresStep
  <2>0. region \in SUBSET Vertex
    BY DEF CoresSound, CoresTypeOK
  <2>1. CASE BeginCores
    <3>1. /\ phase' = "cores" /\ region' = MarkEnds(batch, vertexCount, {}) /\ phase = "idle"
          /\ core' = core /\ degree' = degree /\ left' = left /\ heap' = heap /\ level' = level
      BY <2>1 DEF BeginCores, peeling
    <3>2. region' \subseteq Vertex /\ left = {}
      BY <3>1, MarksVertices DEF CoresSound
    <3>. QED  BY <3>1, <3>2 DEF CoresSound, CoresTypeOK
  <2>2. CASE UpdateGraph("cores") /\ UNCHANGED cores
    BY <1>1, <2>2 DEF UpdateGraph
  <2>3. CASE PeelCores
    BY <2>0, <2>3, MarksVertices, StartSound DEF PeelCores
  <2>4. CASE RecomputeCores
    BY <2>4, PresentVertices, StartSound DEF RecomputeCores
  <2>5. CASE Peel
    BY <2>5, PeelSound
  <2>6. CASE EndCores
    <3>1. /\ phase' = "idle" /\ region' = {} /\ degree' = NoDegree /\ level' = 0 /\ heap = {}
          /\ core' = core /\ left' = left /\ heap' = heap
      BY <2>6 DEF EndCores, Return
    <3>2. left = {} /\ NoDegree \in [Vertex -> Nat]
      BY <3>1 DEF CoresSound, NoDegree
    <3>. QED  BY <3>1, <3>2 DEF CoresSound, CoresTypeOK
  <2>. QED  BY <1>5, <2>1, <2>2, <2>3, <2>4, <2>5, <2>6 DEF CoresStep
<1>. QED  BY <1>2, <1>3, <1>4, <1>5, StepCases

LEMMA InitCoresSound == Init => CoresSound
BY DEF Init, InitCores, CoresSound, CoresTypeOK, NoDegree

-----------------------------------------------------------------------------
(* v has core number k: it lies in a set whose members have k neighbours   *)
(* each in the set, and in none whose members have more.                   *)
Dense(E, S, k) == \A w \in S : k <= Cardinality(Row(E, w) \cap S)

CoreIs(E, v, k) ==
  /\ \E S \in SUBSET Vertex : v \in S /\ Dense(E, S, k)
  /\ \A S \in SUBSET Vertex : v \in S => ~Dense(E, S, k + 1)

(* A set that no arc leaves. *)
Shut(E, S) == \A u \in S : Row(E, u) \subseteq S

BatchEnds == UNION {{batch[i].src, batch[i].dst} : i \in {j \in DOMAIN batch : batch[j].src # batch[j].dst}}

(* The peeling: what is removed or was never marked has its core number.   *)
(* All that is left lies in a set that is dense enough for the level, and  *)
(* no denser set has lost a vertex.                                        *)
PeelInv ==
  /\ Shut(edges, region)
  /\ \A v \in Vertex \ left : CoreIs(edges, v, core[v])
  /\ \A v \in left : degree[v] = Cardinality(Row(edges, v) \cap left)
  /\ \E S \in SUBSET region : left \subseteq S /\ Dense(edges, S, level)
  /\ \A S \in SUBSET Vertex : Dense(edges, S, level + 1) => S \cap region \subseteq left

(* During the update, only vertices that are marked or ends of updates     *)
(* have another core number, and no arc leads out of these.                *)
UpdateInv ==
  /\ Shut(edges, region \cup BatchEnds)
  /\ \A v \in Vertex \ (region \cup BatchEnds) : CoreIs(edges, v, core[v])
  /\ \A i \in DOMAIN batch :
       i < next /\ batch[i].src # batch[i].dst => batch[i].src < vertexCount /\ batch[i].dst < vertexCount

CoresInv ==
  Alone /\ "cores" \in attached =>
    /\ phase = "idle" => \A v \in Vertex : CoreIs(edges, v, core[v])
    /\ phase = "cores" => UpdateInv
    /\ phase = "peel" => PeelInv

LEMMA RowSizes ==
  ASSUME NEW E, NEW v, NEW S
  PROVE  /\ IsFiniteSet(Row(E, v) \cap S) /\ Cardinality(Row(E, v) \cap S) \in Nat
         /\ \A T : Row(E, v) \cap T \subseteq Row(E, v) \cap S
                     => Cardinality(Row(E, v) \cap T) <= Cardinality(Row(E, v) \cap S)
<1>1. Row(E, v) \cap S \in SUBSET Vertex
  BY DEF Row
<1>2. IsFiniteSet(Row(E, v) \cap S)
  BY <1>1, FiniteVertices
<1>3. ASSUME NEW T, Row(E, v) \cap T \subseteq Row(E, v) \cap S
      PROVE Cardinality(Row(E, v) \cap T) <= Cardinality(Row(E, v) \cap S)
  BY <1>2, <1>3, FS_Subset
<1>. QED  BY <1>2, <1>3, FS_CardinalityType

(* Outside a set that arcs neither enter nor leave, core numbers depend on *)
(* the arcs there alone.                                                   *)
LEMMA CoreOutside ==
  ASSUME NEW E, NEW F, NEW X \in SUBSET Vertex, NEW v \in Vertex \ X, NEW k \in Nat, CoreIs(E, v, k),
         \A u \in Vertex \ X : Row(F, u) = Row(E, u) /\ Row(E, u) \cap X = {}
  PROVE  CoreIs(F, v, k)
<1>1. ASSUME NEW S \in SUBSET Vertex, NEW n, Dense(E, S, n) PROVE Dense(F, S \ X, n)
  <2>. SUFFICES ASSUME NEW w \in S \ X PROVE n <= Cardinality(Row(F, w) \cap (S \ X))
    BY DEF Dense
  <2>1. Row(F, w) \cap (S \ X) = Row(E, w) \cap S
    OBVIOUS
  <2>. QED  BY <1>1, <2>1 DEF Dense
<1>2. ASSUME NEW S \in SUBSET Vertex, NEW n, Dense(F, S, n) PROVE Dense(E, S \ X, n)
  <2>. SUFFICES ASSUME NEW w \in S \ X PROVE n <= Cardinality(Row(E, w) \cap (S \ X))
    BY DEF Dense
  <2>1. Row(E, w) \cap (S \ X) = Row(F, w) \cap S
    OBVIOUS
  <2>. QED  BY <1>2, <2>1 DEF Dense
<1>3. PICK S \in SUBSET Vertex : v \in S /\ Dense(E, S, k)
  BY DEF CoreIs
<1>4. v \in S \ X /\ S \ X \in SUBSET Vertex /\ Dense(F, S \ X, k)
  BY <1>1, <1>3
<1>5. ASSUME NEW T \in SUBSET Vertex, v \in T, Dense(F, T, k + 1) PROVE FALSE
  <2>1. v \in T \ X /\ T \ X \in SUBSET Vertex /\ Dense(E, T \ X, k + 1)
    BY <1>2, <1>5
  <2>. QED  BY <2>1 DEF CoreIs
<1>. QED  BY <1>4, <1>5 DEF CoreIs

LEMMA RemoveRight ==
  ASSUME Mirrored, CoresSound, PeelInv, NEW u \in left, Removes(u), edges' = edges, region' = region
  PROVE  PeelInv'
<1>. DEFINE up == level'
<1>1. /\ u \in Vertex /\ left \subseteq Vertex /\ region \subseteq Vertex /\ left \subseteq region
      /\ degree \in [Vertex -> Nat] /\ core \in [Vertex -> Nat] /\ level \in Nat
      /\ \A v \in left : <<degree[v], v>> \in heap
  BY DEF CoresSound, CoresTypeOK
<1>2. up \in Nat /\ level <= up /\ degree[u] <= up /\ (up = level \/ up = degree[u])
  BY <1>1 DEF Removes
<1>3. \A v \in left : degree[u] <= degree[v]
  BY <1>1 DEF Removes
<1>4. \A v \in left : degree[v] = Cardinality(Row(edges, v) \cap left)
  BY DEF PeelInv
<1>5. \E T \in SUBSET region : left \subseteq T /\ Dense(edges, T, up)
  <2>1. CASE up = level
    BY <2>1 DEF PeelInv
  <2>2. CASE up = degree[u]
    <3>1. Dense(edges, left, up)
      BY <1>3, <1>4, <2>2 DEF Dense
    <3>. QED  BY <1>1, <3>1
  <2>. QED  BY <1>2, <2>1, <2>2
<1>. HIDE DEF up
<1>6. ASSUME NEW S \in SUBSET Vertex, Dense(edges, S, up + 1) PROVE u \notin S /\ S \cap region \subseteq left \ {u}
  <2>1. Dense(edges, S, level + 1)
    <3>. SUFFICES ASSUME NEW w \in S PROVE level + 1 <= Cardinality(Row(edges, w) \cap S)
      BY DEF Dense
    <3>1. up + 1 <= Cardinality(Row(edges, w) \cap S) /\ Cardinality(Row(edges, w) \cap S) \in Nat
      BY <1>6, RowSizes DEF Dense
    <3>. QED  BY <1>1, <1>2, <3>1
  <2>2. S \cap region \subseteq left
    BY <2>1 DEF PeelInv
  <2>3. ASSUME u \in S PROVE FALSE
    <3>1. Row(edges, u) \subseteq region
      BY <1>1 DEF PeelInv, Shut
    <3>2. Row(edges, u) \cap S \subseteq Row(edges, u) \cap left
      BY <2>2, <3>1
    <3>3. Cardinality(Row(edges, u) \cap S) <= degree[u] /\ Cardinality(Row(edges, u) \cap S) \in Nat
      <4>1. Cardinality(Row(edges, u) \cap S) <= Cardinality(Row(edges, u) \cap left)
        BY <3>2, RowSizes, Zenon
      <4>2. Cardinality(Row(edges, u) \cap S) \in Nat
        BY RowSizes, Zenon
      <4>. QED  BY <1>4, <4>1, <4>2
    <3>4. up + 1 <= Cardinality(Row(edges, u) \cap S)
      BY <1>6, <2>3 DEF Dense
    <3>5. degree[u] \in Nat
      BY <1>1
    <3>. QED  BY <1>2, <3>3, <3>4, <3>5
  <2>. QED  BY <2>2, <2>3
<1>7. CoreIs(edges, u, up)
  <2>1. PICK T \in SUBSET region : left \subseteq T /\ Dense(edges, T, up)
    BY <1>5
  <2>2. T \in SUBSET Vertex /\ u \in T
    BY <1>1, <2>1
  <2>. QED  BY <1>6, <2>1, <2>2 DEF CoreIs
<1>8. left' = left \ {u} /\ core' = [core EXCEPT ![u] = up]
  BY DEF Removes, up
<1>9. ASSUME NEW v \in Vertex \ left' PROVE CoreIs(edges, v, core'[v])
  <2>1. CASE v = u
    BY <1>1, <1>7, <1>8, <2>1
  <2>2. CASE v # u
    <3>1. v \notin left /\ core'[v] = core[v]
      BY <1>1, <1>8, <2>2
    <3>. QED  BY <3>1 DEF PeelInv
  <2>. QED  BY <2>1, <2>2
<1>10. ASSUME NEW v \in left' PROVE degree'[v] = Cardinality(Row(edges, v) \cap left')
  <2>1. v \in left /\ v # u /\ v \in Vertex /\ degree[v] \in Nat
    BY <1>1, <1>8
  <2>2. degree'[v] = IF v \in Near(u) /\ degree[v] # 0 THEN degree[v] - 1 ELSE degree[v]
    BY <2>1 DEF Removes
  <2>3. CASE v \in Near(u)
    <3>1. u \in Row(edges, v) \cap left
      BY <1>1, <2>1, <2>3 DEF Near, Neighbors, Row, Mirrored
    <3>2. Row(edges, v) \cap left' = (Row(edges, v) \cap left) \ {u}
      BY <1>8
    <3>3. IsFiniteSet(Row(edges, v) \cap left)
      BY RowSizes
    <3>4. Cardinality((Row(edges, v) \cap left) \ {u}) = Cardinality(Row(edges, v) \cap left) - 1
      BY <3>1, <3>3, FS_RemoveElement
    <3>5. Cardinality(Row(edges, v) \cap left) # 0
      BY <3>1, <3>3, FS_EmptySet
    <3>. QED  BY <1>4, <2>1, <2>2, <2>3, <3>2, <3>4, <3>5
  <2>4. CASE v \notin Near(u)
    <3>1. u \notin Row(edges, v)
      BY <1>1, <2>1, <2>4 DEF Near, Neighbors, Row, Mirrored
    <3>2. Row(edges, v) \cap left' = Row(edges, v) \cap left
      BY <1>8, <3>1
    <3>. QED  BY <1>4, <2>1, <2>2, <2>4, <3>2
  <2>. QED  BY <2>3, <2>4
<1>11. \E T \in SUBSET region : left' \subseteq T /\ Dense(edges, T, up)
  BY <1>5, <1>8
<1>12. \A S \in SUBSET Vertex : Dense(edges, S, up + 1) => S \cap region \subseteq left'
  BY <1>6, <1>8
<1>13. Shut(edges, region)
  BY DEF PeelInv
<1>. QED  BY <1>9, <1>10, <1>11, <1>12, <1>13 DEF PeelInv, up

LEMMA PeelRight ==
  ASSUME Mirrored, CoresSound, PeelInv, Peel
  PROVE  PeelInv'
<1>1. edges' = edges /\ region' = region
  BY DEF Peel, graph
<1>2. ASSUME NEW item \in heap, Skips(item) PROVE PeelInv'
  BY <1>1, <1>2 DEF Skips, PeelInv
<1>. QED  BY <1>1, <1>2, RemoveRight, PeelCases DEF CoresSound

LEMMA StartRight ==
  ASSUME Base, CoresSound, NEW affected \in SUBSET Vertex, StartPeeling(affected), edges' = edges,
         Shut(edges, affected), \A v \in Vertex \ affected : CoreIs(edges, v, core[v])
  PROVE  PeelInv'
<1>1. region' = affected /\ left' = affected /\ level' = 0
  BY DEF StartPeeling
<1>2. /\ \A v \in Vertex : degree'[v] = IF v \in affected THEN Cardinality(Neighbors(v) \cap affected) ELSE 0
      /\ \A v \in Vertex : core'[v] = IF v \in affected THEN 0 ELSE core[v]
  BY StartSound
<1>3. \A v \in affected : degree'[v] = Cardinality(Row(edges, v) \cap affected)
  BY <1>2 DEF Row, Neighbors
<1>4. Dense(edges, affected, 0)
  <2>. SUFFICES ASSUME NEW w \in affected PROVE 0 <= Cardinality(Row(edges, w) \cap affected)
    BY DEF Dense
  <2>1. Cardinality(Row(edges, w) \cap affected) \in Nat
    BY RowSizes, Zenon
  <2>. QED  BY <2>1
<1>5. \A v \in Vertex \ affected : CoreIs(edges, v, core'[v])
  BY <1>2
<1>6. \E S \in SUBSET affected : affected \subseteq S /\ Dense(edges, S, 0)
  BY <1>4
<1>7. \A S \in SUBSET Vertex : Dense(edges, S, 0 + 1) => S \cap affected \subseteq affected
  OBVIOUS
<1>. QED  BY <1>1, <1>3, <1>5, <1>6, <1>7 DEF PeelInv

-----------------------------------------------------------------------------
(* A traversal enters every vertex that an arc leads to, within its bounds. *)
LEMMA ReachGoesOn ==
  ASSUME NEW seeds \in SUBSET Vertex, NEW within \in SUBSET Vertex
  PROVE  /\ seeds \subseteq Reach(seeds, within)
         /\ \A u \in Reach(seeds, within) : Row(edges, u) \cap within \subseteq Reach(seeds, within)
<1>1. seeds \subseteq Reach(seeds, within)
  BY DEF Reach
<1>2. ASSUME NEW u \in Reach(seeds, within), NEW w \in Row(edges, u) \cap within
      PROVE w \in Reach(seeds, within)
  <2>1. w \in Neighbors(u)
    BY DEF Row, Neighbors
  <2>2. ASSUME NEW S \in SUBSET Vertex, seeds \subseteq S, \A x \in S : Neighbors(x) \cap within \subseteq S
        PROVE  w \in S
    <3>1. u \in S
      BY <2>2 DEF Reach
    <3>. QED  BY <2>1, <2>2, <3>1
  <2>. QED  BY <1>2, <2>2 DEF Reach
<1>. QED  BY <1>1, <1>2

(* The vertices past the end of the graph have no neighbours. *)
LEMMA PastTheEnd ==
  ASSUME Base, NEW v \in Vertex, v >= vertexCount
  PROVE  Row(edges, v) = {}
<1>1. ASSUME NEW w \in Vertex, <<v, w>> \in edges PROVE FALSE
  <2>1. v < vertexCount
    BY <1>1 DEF Base, EndsCounted
  <2>. QED  BY <2>1 DEF Base, Vertex
<1>. QED  BY <1>1 DEF Row

LEMMA EndsAreVertices == Base => BatchEnds \subseteq Vertex
<1>. SUFFICES ASSUME Base, NEW i \in DOMAIN batch PROVE batch[i].src \in Vertex /\ batch[i].dst \in Vertex
  BY DEF BatchEnds
<1>1. batch[i] \in WeightedOp
  BY DEF Base
<1>. QED  BY <1>1 DEF WeightedOp

(* What the batch writes joins two ends of its updates. *)
LEMMA RowsUpdated ==
  ASSUME Base, UpdateGraph("cores")
  PROVE  \A u, w \in Vertex : (w \in Row(edges, u) <=> w \in Row(edges', u)) \/ (u \in BatchEnds /\ w \in BatchEnds)
<1>. SUFFICES ASSUME NEW u \in Vertex, NEW w \in Vertex, ~(<<u, w>> \in edges <=> <<u, w>> \in edges')
              PROVE  u \in BatchEnds /\ w \in BatchEnds
  BY DEF Row
<1>. DEFINE op == batch[next]
<1>1. op \in WeightedOp /\ next \in DOMAIN batch /\ directed \in BOOLEAN
  BY UpdateEffect DEF Base, UpdateGraph
<1>2. <<u, w>> \in ArcsOf(directed, op)
  <2>1. <<u, w>> \in Arc
    BY DEF Arc
  <2>. QED  BY <2>1, UpdateEffect
<1>3. u # w /\ u \in {op.src, op.dst} /\ w \in {op.src, op.dst}
  BY <1>1, <1>2, OpFacts
<1>4. op.src # op.dst
  BY <1>3
<1>. QED  BY <1>1, <1>3, <1>4 DEF BatchEnds

LEMMA BeginRight ==
  ASSUME Base, CoresInv, Alone, "cores" \in attached, BeginCores
  PROVE  UpdateInv'
<1>. DEFINE ends == {v \in UNION {{batch[i].src, batch[i].dst} : i \in DOMAIN batch} : v < vertexCount}
<1>1. /\ phase = "idle" /\ region' = {} \cup Reach(ends \ {}, Vertex \ {}) /\ core' = core /\ edges' = edges
      /\ batch' = batch /\ next' = next /\ vertexCount' = vertexCount
  BY DEF BeginCores, MarkEnds, graph, call
<1>2. ends \subseteq Vertex
  <2>. SUFFICES ASSUME NEW i \in DOMAIN batch PROVE batch[i].src \in Vertex /\ batch[i].dst \in Vertex
    OBVIOUS
  <2>1. batch[i] \in WeightedOp
    BY DEF Base
  <2>. QED  BY <2>1 DEF WeightedOp
<1>3. region' = Reach(ends, Vertex)
  BY <1>1
<1>4. ends \subseteq region' /\ \A u \in region' : Row(edges, u) \subseteq region'
  <2>. HIDE DEF ends
  <2>1. \A u : Row(edges, u) \subseteq Vertex
    BY DEF Row
  <2>. QED  BY <1>2, <1>3, <2>1, ReachGoesOn
<1>5. ASSUME NEW u \in BatchEnds, u \notin region' PROVE Row(edges, u) = {}
  <2>1. u \in Vertex
    BY EndsAreVertices
  <2>2. ~(u < vertexCount)
    BY <1>4, <1>5 DEF BatchEnds
  <2>. QED  BY <2>1, <2>2, PastTheEnd DEF Base, Vertex
<1>6. Shut(edges, region' \cup BatchEnds)
  BY <1>4, <1>5 DEF Shut
<1>7. \A v \in Vertex : CoreIs(edges, v, core[v])
  BY <1>1 DEF CoresInv
<1>8. BatchEnds' = BatchEnds
  BY <1>1 DEF BatchEnds
<1>9. \A i \in DOMAIN batch : ~(i < next)
  BY <1>1 DEF Base
<1>. QED  BY <1>1, <1>6, <1>7, <1>8, <1>9 DEF UpdateInv

LEMMA UpdateRight ==
  ASSUME Base, Mirrored, CoresSound, UpdateInv, UpdateGraph("cores"), UNCHANGED cores
  PROVE  UpdateInv'
<1>. DEFINE X == region \cup BatchEnds
<1>0. region' = region /\ core' = core /\ batch' = batch /\ core \in [Vertex -> Nat] /\ X \in SUBSET Vertex
  BY EndsAreVertices DEF cores, UpdateGraph, CoresSound, CoresTypeOK
<1>1. BatchEnds' = BatchEnds
  BY <1>0 DEF BatchEnds
<1>2. Shut(edges, X)
  BY DEF UpdateInv
<1>3. Shut(edges', X)
  <2>. SUFFICES ASSUME NEW u \in X, NEW w \in Row(edges', u) PROVE w \in X
    BY DEF Shut
  <2>1. u \in Vertex /\ w \in Vertex
    BY <1>0 DEF Row
  <2>2. CASE w \in Row(edges, u)
    BY <1>2, <2>2 DEF Shut
  <2>3. CASE w \notin Row(edges, u)
    BY <2>1, <2>3, RowsUpdated
  <2>. QED  BY <2>2, <2>3
<1>4. ASSUME NEW v \in Vertex \ X PROVE CoreIs(edges', v, core[v])
  <2>1. CoreIs(edges, v, core[v]) /\ core[v] \in Nat
    BY <1>0 DEF UpdateInv
  <2>2. ASSUME NEW u \in Vertex \ X PROVE Row(edges', u) = Row(edges, u) /\ Row(edges, u) \cap X = {}
    <3>1. \A w \in Vertex : w \in Row(edges, u) <=> w \in Row(edges', u)
      BY <2>2, RowsUpdated
    <3>2. Row(edges', u) \subseteq Vertex /\ Row(edges, u) \subseteq Vertex
      BY DEF Row
    <3>3. ASSUME NEW w \in Row(edges, u) \cap X PROVE FALSE
      <4>1. u \in Row(edges, w)
        BY <3>2, <3>3 DEF Row, Mirrored
      <4>. QED  BY <1>2, <2>2, <3>3, <4>1 DEF Shut
    <3>. QED  BY <3>1, <3>2, <3>3
  <2>. HIDE DEF X
  <2>. QED  BY <1>0, <2>1, <2>2, CoreOutside
<1>5. ASSUME NEW i \in DOMAIN batch, i < next', batch[i].src # batch[i].dst
      PROVE batch[i].src < vertexCount' /\ batch[i].dst < vertexCount'
  <2>1. /\ vertexCount' = CountAfter(vertexCount, batch[next]) /\ batch[next] \in WeightedOp
        /\ vertexCount \in 0 .. MaxVertices /\ next' = next + 1
    BY UpdateEffect DEF UpdateGraph, Base
  <2>2. vertexCount' \in 0 .. MaxVertices /\ vertexCount <= vertexCount'
        /\ (batch[next].src # batch[next].dst => batch[next].src < vertexCount' /\ batch[next].dst < vertexCount')
    BY <2>1, CountFacts
  <2>3. CASE i = next
    BY <1>5, <2>2, <2>3
  <2>4. CASE i < next
    <3>1. batch[i].src < vertexCount /\ batch[i].dst < vertexCount
      BY <1>5, <2>4 DEF UpdateInv
    <3>2. batch[i] \in WeightedOp
      BY DEF Base
    <3>3. batch[i].src \in Int /\ batch[i].dst \in Int
      BY <3>2 DEF WeightedOp, Vertex
    <3>. QED  BY <2>1, <2>2, <3>1, <3>3
  <2>5. i \in Int /\ next \in Int
    BY DEF Base
  <2>. QED  BY <1>5, <2>1, <2>3, <2>4, <2>5
<1>6. UpdateInv' <=> /\ Shut(edges', X)
                     /\ \A v \in Vertex \ X : CoreIs(edges', v, core[v])
                     /\ \A i \in DOMAIN batch : i < next' /\ batch[i].src # batch[i].dst
                          => batch[i].src < vertexCount' /\ batch[i].dst < vertexCount'
  BY <1>0, <1>1 DEF UpdateInv
<1>. QED  BY <1>3, <1>4, <1>5, <1>6

LEMMA MarkedRight ==
  ASSUME Base, CoresSound, UpdateInv, PeelCores
  PROVE  PeelInv'
<1>. DEFINE ends == {v \in UNION {{batch[i].src, batch[i].dst} : i \in DOMAIN batch} : v < vertexCount}
            seeds == ends \ region
            rest == Vertex \ region
            affected == region \cup Reach(seeds, rest)
<1>1. StartPeeling(affected) /\ edges' = edges /\ next > Len(batch)
  BY DEF PeelCores, MarkEnds, Updated, graph
<1>2. ends \subseteq Vertex
  <2>. SUFFICES ASSUME NEW i \in DOMAIN batch PROVE batch[i].src \in Vertex /\ batch[i].dst \in Vertex
    OBVIOUS
  <2>1. batch[i] \in WeightedOp
    BY DEF Base
  <2>. QED  BY <2>1 DEF WeightedOp
<1>3. BatchEnds \subseteq ends
  <2>. SUFFICES ASSUME NEW i \in DOMAIN batch, batch[i].src # batch[i].dst
                PROVE batch[i].src < vertexCount /\ batch[i].dst < vertexCount
    BY DEF BatchEnds
  <2>1. i < next
    BY <1>1 DEF Base
  <2>. QED  BY <2>1 DEF UpdateInv
<1>4. region \subseteq Vertex
  BY DEF CoresSound, CoresTypeOK
<1>5. /\ seeds \subseteq Reach(seeds, rest)
      /\ \A u \in Reach(seeds, rest) : Row(edges, u) \cap rest \subseteq Reach(seeds, rest)
  <2>1. seeds \in SUBSET Vertex /\ rest \in SUBSET Vertex
    BY <1>2
  <2>. HIDE DEF seeds, rest
  <2>. QED  BY <2>1, ReachGoesOn
<1>6. affected \in SUBSET Vertex
  BY <1>4 DEF Reach
<1>7. region \cup BatchEnds \subseteq affected
  BY <1>3, <1>5
<1>8. Shut(edges, affected)
  <2>. SUFFICES ASSUME NEW u \in affected, NEW w \in Row(edges, u) PROVE w \in affected
    BY DEF Shut
  <2>1. w \in Vertex
    BY DEF Row
  <2>2. CASE u \in region
    BY <1>7, <2>2 DEF UpdateInv, Shut
  <2>3. CASE u \in Reach(seeds, rest)
    BY <1>5, <2>1, <2>3
  <2>. QED  BY <2>2, <2>3
<1>9. \A v \in Vertex \ affected : CoreIs(edges, v, core[v])
  BY <1>7 DEF UpdateInv
<1>. HIDE DEF affected
<1>. QED  BY <1>1, <1>6, <1>8, <1>9, StartRight

LEMMA CoresKept ==
  ASSUME Base, CoresSound, CoresInv, CoresStep, Alone, "cores" \in attached
  PROVE  CoresInv'
<1>0. /\ attached' = attached /\ Mirrored
      /\ phase = "idle" => \A v \in Vertex : CoreIs(edges, v, core[v])
      /\ phase = "cores" => UpdateInv
      /\ phase = "peel" => PeelInv
  BY DEF CoresStep, Takes, caller, CoresInv, Base, Undirected
<1>1. CASE BeginCores
  <2>1. phase' = "cores"
    BY <1>1 DEF BeginCores
  <2>. QED  BY <1>1, <2>1, BeginRight DEF CoresInv
<1>2. CASE UpdateGraph("cores") /\ UNCHANGED cores
  <2>1. phase = "cores" /\ phase' = "cores"
    BY <1>2 DEF UpdateGraph
  <2>. QED  BY <1>0, <1>2, <2>1, UpdateRight DEF CoresInv
<1>3. CASE PeelCores
  <2>1. phase = "cores" /\ phase' = "peel"
    BY <1>3 DEF PeelCores, Updated, StartPeeling
  <2>. QED  BY <1>0, <1>3, <2>1, MarkedRight DEF CoresInv
<1>4. CASE RecomputeCores
  <2>1. phase = "idle" /\ phase' = "peel" /\ StartPeeling(0 .. vertexCount - 1) /\ edges' = edges
    BY <1>4 DEF RecomputeCores, StartPeeling, graph
  <2>2. Shut(edges, 0 .. vertexCount - 1)
    <3>. SUFFICES ASSUME NEW u \in 0 .. vertexCount - 1, NEW w \in Row(edges, u) PROVE w \in 0 .. vertexCount - 1
      BY DEF Shut
    <3>1. u \in Vertex /\ w \in Vertex /\ <<u, w>> \in edges
      BY PresentVertices DEF Row
    <3>2. w < vertexCount
      BY <3>1 DEF Base, EndsCounted
    <3>. QED  BY <3>1, <3>2 DEF Base, Vertex
  <2>3. PeelInv'
    BY <1>0, <2>1, <2>2, PresentVertices, StartRight
  <2>. QED  BY <2>1, <2>3 DEF CoresInv
<1>5. CASE Peel
  <2>1. phase = "peel" /\ phase' = "peel"
    BY <1>5 DEF Peel
  <2>. QED  BY <1>0, <1>5, <2>1, PeelRight DEF CoresInv
<1>6. CASE EndCores
  <2>1. phase = "peel" /\ phase' = "idle" /\ heap = {} /\ core' = core /\ edges' = edges
    BY <1>6 DEF EndCores, Return, graph
  <2>2. left = {}
    BY <2>1 DEF CoresSound
  <2>3. \A v \in Vertex : CoreIs(edges, v, core[v])
    BY <1>0, <2>1, <2>2 DEF PeelInv
  <2>. QED  BY <2>1, <2>3 DEF CoresInv
<1>. QED  BY <1>1, <1>2, <1>3, <1>4, <1>5, <1>6 DEF CoresStep

LEMMA StepCores == Base /\ CoresSound /\ CoresInv /\ [Next]_vars => CoresInv'
<1>. SUFFICES ASSUME Base, CoresSound, CoresInv, [Next]_vars, Alone, "cores" \in attached PROVE CoresInv'
  BY AttachedStays DEF CoresInv, Alone
<1>1. ASSUME UNCHANGED <<edges, phase, batch, next, vertexCount, cores>> PROVE CoresInv'
  <2>1. /\ core' = core /\ region' = region /\ degree' = degree /\ left' = left /\ heap' = heap /\ level' = level
    BY <1>1 DEF cores, peeling
  <2>2. BatchEnds' = BatchEnds
    BY <1>1 DEF BatchEnds
  <2>3. (UpdateInv => UpdateInv') /\ (PeelInv => PeelInv')
    BY <1>1, <2>1, <2>2 DEF UpdateInv, PeelInv
  <2>. QED  BY <1>1, <2>1, <2>3 DEF CoresInv
<1>2. CASE UNCHANGED vars
  <2>1. UNCHANGED <<edges, phase, batch, next, vertexCount, cores>>
    BY <1>2 DEF vars, results, others, graph, call
  <2>. QED  BY <1>1, <2>1
<1>3. CASE GivesBatch
  <2>1. phase = "idle" /\ phase' = "idle" /\ edges' = edges /\ core' = core
    BY <1>3 DEF GivesBatch, NewBatch, results, others, cores, graph
  <2>. QED  BY <2>1 DEF CoresInv
<1>4. CASE CoresStep
  BY <1>4, CoresKept
<1>5. ~(ComponentsStep \/ TrianglesStep \/ RanksStep \/ PathsStep)
  BY Owners DEF Alone
<1>. QED  BY <1>2, <1>3, <1>4, <1>5, StepCases

LEMMA InitCoresInv == Init => CoresInv
<1>. SUFFICES ASSUME Init PROVE CoresInv
  OBVIOUS
<1>1. phase = "idle" /\ edges = {} /\ \A v \in Vertex : core[v] = 0
  BY DEF Init, InitCores
<1>2. \A w, S : Cardinality(Row({}, w) \cap S) = 0
  <2>1. \A w, S : Row({}, w) \cap S = {}
    BY DEF Row
  <2>. QED  BY <2>1, FS_EmptySet
<1>3. ASSUME NEW v \in Vertex PROVE CoreIs({}, v, 0)
  <2>1. Dense({}, {v}, 0)
    BY <1>2 DEF Dense
  <2>2. ASSUME NEW S \in SUBSET Vertex, v \in S, Dense({}, S, 0 + 1) PROVE FALSE
    <3>1. 0 + 1 <= Cardinality(Row({}, v) \cap S)
      BY <2>2 DEF Dense
    <3>. QED  BY <1>2, <3>1
  <2>. QED  BY <2>1, <2>2 DEF CoreIs
<1>. QED  BY <1>1, <1>3 DEF CoresInv

(* The definition CoresExact gives of a core number. *)
LEMMA CoresRight ==
  ASSUME Base, CoresSound, CoresInv, Alone, Settled, "cores" \in attached
  PROVE  CoresExact
<1>. SUFFICES ASSUME NEW v \in Vertex
              PROVE  core[v] = Max({Min({Cardinality(Neighbors(w) \cap S) : w \in S}) :
                                      S \in {T \in SUBSET Vertex : v \in T}})
  BY PresentVertices DEF CoresExact
<1>. DEFINE Sizes(S) == {Cardinality(Neighbors(w) \cap S) : w \in S}
            Least(S) == Min(Sizes(S))
            Sets == {T \in SUBSET Vertex : v \in T}
            Values == {Least(S) : S \in Sets}
            k == core[v]
<1>1. k \in Nat /\ CoreIs(edges, v, k)
  BY DEF CoresSound, CoresTypeOK, CoresInv, Settled
<1>2. ASSUME NEW S \in Sets PROVE Least(S) \in Nat /\ \A n \in Nat : n <= Least(S) <=> Dense(edges, S, n)
  <2>1. \A w : Neighbors(w) \cap S = Row(edges, w) \cap S
    BY DEF Neighbors, Row
  <2>2. \A w : Cardinality(Neighbors(w) \cap S) \in Nat
    BY <2>1, RowSizes
  <2>3. Sizes(S) \in SUBSET Nat /\ Sizes(S) # {}
    BY <2>2
  <2>4. Least(S) \in Sizes(S) /\ \A x \in Sizes(S) : Least(S) <= x
    <3>. HIDE DEF Sizes
    <3>. QED  BY <2>3, LeastNumber DEF Min
  <2>5. ASSUME NEW n \in Nat, n <= Least(S) PROVE Dense(edges, S, n)
    <3>. SUFFICES ASSUME NEW w \in S PROVE n <= Cardinality(Row(edges, w) \cap S)
      BY DEF Dense
    <3>1. Cardinality(Row(edges, w) \cap S) \in Sizes(S)
      BY <2>1
    <3>. HIDE DEF Sizes, Least
    <3>. QED  BY <2>3, <2>4, <2>5, <3>1
  <2>6. ASSUME NEW n \in Nat, Dense(edges, S, n) PROVE n <= Least(S)
    <3>1. \A x \in Sizes(S) : n <= x
      BY <2>1, <2>6 DEF Dense
    <3>. HIDE DEF Sizes, Least
    <3>. QED  BY <2>4, <3>1
  <2>. HIDE DEF Sizes, Least
  <2>. QED  BY <2>3, <2>4, <2>5, <2>6
<1>3. PICK S \in Sets : Dense(edges, S, k)
  BY <1>1 DEF CoreIs
<1>4. \A T \in Sets : ~Dense(edges, T, k + 1)
  BY <1>1 DEF CoreIs
<1>. HIDE DEF Sizes, Least, Sets, k
<1>5. ASSUME NEW T \in Sets PROVE Least(T) <= k
  <2>1. ~(k + 1 <= Least(T)) /\ Least(T) \in Nat
    BY <1>1, <1>2, <1>4
  <2>. QED  BY <1>1, <2>1
<1>6. k = Least(S)
  <2>1. k <= Least(S) /\ Least(S) <= k /\ Least(S) \in Nat
    BY <1>1, <1>2, <1>3, <1>5
  <2>. QED  BY <1>1, <2>1
<1>7. k \in Values /\ \A x \in Values : k >= x
  BY <1>1, <1>5, <1>6
<1>8. Max(Values) = k
  <2>1. Max(Values) \in Values /\ \A x \in Values : Max(Values) >= x
    <3>. HIDE DEF Values
    <3>. QED  BY <1>7 DEF Max
  <2>2. Values \subseteq Nat
    BY <1>2
  <2>. HIDE DEF Values
  <2>3. Max(Values) \in Nat /\ Max(Values) >= k /\ k >= Max(Values)
    BY <1>7, <2>1, <2>2
  <2>. QED  BY <1>1, <2>3
<1>. QED  BY <1>8 DEF Values, Least, Sizes, Sets, k

(* Of a graph to itself, the core numbers are those of the graph, after    *)
(* any history of batches (BasicIncrementalKCore::apply): peeling what the *)
(* ends of the updates reached before or reach after them is enough, even  *)
(* though the heap keeps pairs with outdated degrees.                      *)
THEOREM CoresStayExact == Spec => [](Alone => CoresMaintained)
<1>1. Init => Base /\ CoresSound /\ CoresInv
  BY InitBase, InitCoresSound, InitCoresInv
<1>2. Base /\ CoresSound /\ CoresInv /\ [Next]_vars => (Base /\ CoresSound /\ CoresInv)'
  BY StepBase, StepCoresSound, StepCores
<1>3. Base /\ CoresSound /\ CoresInv => (Alone => CoresMaintained)
  BY CoresRight DEF CoresMaintained
<1>. QED  BY <1>1, <1>2, <1>3, PTL DEF Spec

-----------------------------------------------------------------------------
(* Counting: sets of three, and the triangles of a set of arcs.            *)
LEMMA SameSize ==
  ASSUME NEW S, NEW T, IsFiniteSet(S), NEW f \in [S -> T],
         \A x, y \in S : f[x] = f[y] => x = y, \A z \in T : \E x \in S : f[x] = z
  PROVE  IsFiniteSet(T) /\ Cardinality(T) = Cardinality(S)
<1>1. f \in Bijection(S, T)
  BY Fun_IsBij
<1>. QED  BY <1>1, FS_Bijection DEF ExistsBijection

LEMMA ThreeElements ==
  ASSUME NEW x, NEW y, NEW z, x # y, y # z, x # z
  PROVE  IsFiniteSet({x, y, z}) /\ Cardinality({x, y, z}) = 3
<1>1. IsFiniteSet({x}) /\ Cardinality({x}) = 1
  BY FS_Singleton
<1>2. IsFiniteSet({x} \cup {y}) /\ Cardinality({x} \cup {y}) = 2
  BY <1>1, FS_AddElement
<1>3. IsFiniteSet(({x} \cup {y}) \cup {z}) /\ Cardinality(({x} \cup {y}) \cup {z}) = 3
  BY <1>2, FS_AddElement
<1>4. ({x} \cup {y}) \cup {z} = {x, y, z}
  OBVIOUS
<1>. QED  BY <1>3, <1>4

LEMMA ThirdElement ==
  ASSUME NEW S, IsFiniteSet(S), Cardinality(S) = 3, NEW x \in S, NEW y \in S, x # y
  PROVE  \E z \in S : z # x /\ z # y /\ S = {x, y, z}
<1>1. IsFiniteSet(S \ {x}) /\ Cardinality(S \ {x}) = 2
  BY FS_RemoveElement
<1>2. IsFiniteSet((S \ {x}) \ {y}) /\ Cardinality((S \ {x}) \ {y}) = 1
  BY <1>1, FS_RemoveElement
<1>3. PICK z : (S \ {x}) \ {y} = {z}
  BY <1>2, FS_Singleton
<1>. QED  BY <1>3

LEMMA TwoOfThree ==
  ASSUME NEW S, IsFiniteSet(S), Cardinality(S) = 3
  PROVE  \E x, y \in S : x # y
<1>1. S # {}
  BY FS_EmptySet
<1>2. PICK x \in S : TRUE
  BY <1>1
<1>3. IsFiniteSet(S \ {x}) /\ Cardinality(S \ {x}) = 2
  BY FS_RemoveElement
<1>4. S \ {x} # {}
  BY <1>3, FS_EmptySet
<1>. QED  BY <1>4

Corners(E) == {S \in SUBSET Vertex : Cardinality(S) = 3 /\ \A v, w \in S : v # w => <<v, w>> \in E}

(* An undirected graph without loops. *)
Simple(E) ==
  /\ E \subseteq Arc
  /\ \A u, v \in Vertex : <<u, v>> \in E => u # v /\ <<v, u>> \in E

LEMMA CornersFinite ==
  ASSUME NEW E PROVE IsFiniteSet(Corners(E)) /\ Cardinality(Corners(E)) \in Nat
<1>1. IsFiniteSet(SUBSET Vertex)
  BY FiniteVertices, FS_SUBSET
<1>2. IsFiniteSet(Corners(E))
  BY <1>1, FS_Subset DEF Corners
<1>. QED  BY <1>2, FS_CardinalityType

(* An edge closes one triangle for each common neighbour of its ends, and  *)
(* it changes nothing about these.                                         *)
LEMMA EdgeCloses ==
  ASSUME NEW E, NEW a \in Vertex, NEW b \in Vertex, a # b, Simple(E), <<a, b>> \notin E
  PROVE  LET F == E \cup {<<a, b>>, <<b, a>>}
         IN  /\ Cardinality(Corners(F)) = Cardinality(Corners(E)) + Cardinality(Row(E, a) \cap Row(E, b))
             /\ Row(F, a) \cap Row(F, b) = Row(E, a) \cap Row(E, b)
<1>. DEFINE F == E \cup {<<a, b>>, <<b, a>>}
            C == Row(E, a) \cap Row(E, b)
            f == [c \in C |-> {a, b, c}]
            Closed == {f[c] : c \in C}
<1>1. ASSUME NEW c \in C
      PROVE  /\ c \in Vertex /\ c # a /\ c # b /\ f[c] = {a, b, c}
             /\ <<a, c>> \in E /\ <<c, a>> \in E /\ <<b, c>> \in E /\ <<c, b>> \in E
  BY DEF Row, Simple
<1>2. IsFiniteSet(C)
  BY FiniteVertices DEF Row
<1>3. \A c, d \in C : f[c] = f[d] => c = d
  BY <1>1
<1>4. IsFiniteSet(Closed) /\ Cardinality(Closed) = Cardinality(C)
  <2>1. f \in [C -> Closed] /\ \A z \in Closed : \E c \in C : f[c] = z
    OBVIOUS
  <2>. HIDE DEF f, C, Closed
  <2>. QED  BY <1>2, <1>3, <2>1, SameSize
<1>5. ASSUME NEW c \in C PROVE f[c] \in Corners(F)
  <2>1. Cardinality({a, b, c}) = 3 /\ {a, b, c} \in SUBSET Vertex
    BY <1>1, ThreeElements
  <2>2. \A v, w \in {a, b, c} : v # w => <<v, w>> \in F
    BY <1>1
  <2>. HIDE DEF F
  <2>. QED  BY <1>1, <2>1, <2>2 DEF Corners
<1>6. Corners(E) \subseteq Corners(F)
  BY DEF Corners
<1>7. ASSUME NEW S \in Corners(F), S \notin Corners(E) PROVE S \in Closed
  <2>1. S \in SUBSET Vertex /\ Cardinality(S) = 3 /\ \A v, w \in S : v # w => <<v, w>> \in F
    BY DEF Corners
  <2>2. PICK v \in S, w \in S : v # w /\ <<v, w>> \notin E
    BY <1>7, <2>1 DEF Corners
  <2>3. <<v, w>> \in {<<a, b>>, <<b, a>>}
    BY <2>1, <2>2
  <2>4. a \in S /\ b \in S
    BY <2>3
  <2>5. IsFiniteSet(S)
    BY <2>1, FiniteVertices
  <2>6. PICK c \in S : c # a /\ c # b /\ S = {a, b, c}
    BY <2>1, <2>4, <2>5, ThirdElement
  <2>7. <<a, c>> \in E /\ <<b, c>> \in E /\ c \in Vertex
    <3>1. <<a, c>> \in F /\ <<b, c>> \in F /\ c \in Vertex
      BY <2>1, <2>4, <2>6
    <3>. QED  BY <2>6, <3>1
  <2>8. c \in C
    BY <2>7 DEF Row
  <2>9. f[c] = S
    BY <2>6, <2>8
  <2>. QED  BY <2>8, <2>9
<1>8. Corners(F) = Corners(E) \cup Closed
  BY <1>5, <1>6, <1>7
<1>9. Corners(E) \cap Closed = {}
  <2>. SUFFICES ASSUME NEW c \in C, f[c] \in Corners(E) PROVE FALSE
    OBVIOUS
  <2>1. {a, b, c} \in Corners(E)
    BY <1>1
  <2>. QED  BY <2>1 DEF Corners
<1>10. Row(F, a) \cap Row(F, b) = C
  <2>1. ASSUME NEW w \in Row(F, a) \cap Row(F, b) PROVE w \in C
    <3>1. w \in Vertex /\ (<<a, w>> \in E \/ w = b) /\ (<<b, w>> \in E \/ w = a)
      BY DEF Row
    <3>2. w # b /\ w # a
      BY <3>1 DEF Simple
    <3>. QED  BY <3>1, <3>2 DEF Row
  <2>2. C \subseteq Row(F, a) \cap Row(F, b)
    BY DEF Row
  <2>. QED  BY <2>1, <2>2
<1>11. Cardinality(Corners(F)) = Cardinality(Corners(E)) + Cardinality(C)
  <2>. HIDE DEF F, C, Closed
  <2>1. IsFiniteSet(Corners(E)) /\ Cardinality(Corners(E)) \in Nat /\ Cardinality(C) \in Nat
    BY <1>2, CornersFinite, FS_CardinalityType
  <2>2. Cardinality(Corners(E) \cup Closed)
        = Cardinality(Corners(E)) + Cardinality(Closed) - Cardinality(Corners(E) \cap Closed)
    BY <1>4, <2>1, FS_Union
  <2>3. Cardinality(Corners(E) \cap Closed) = 0
    BY <1>9, FS_EmptySet
  <2>. QED  BY <1>4, <1>8, <2>1, <2>2, <2>3
<1>. QED  BY <1>10, <1>11

(* Every triangle once, its corners in order.                              *)
Ordered(E) ==
  {t \in Vertex \X Vertex \X Vertex :
     t[1] < t[2] /\ t[2] < t[3] /\ <<t[1], t[2]>> \in E /\ <<t[1], t[3]>> \in E /\ <<t[2], t[3]>> \in E}

LEMMA OrderedCorners ==
  ASSUME NEW E, Simple(E)
  PROVE  IsFiniteSet(Ordered(E)) /\ Cardinality(Ordered(E)) = Cardinality(Corners(E))
<1>. DEFINE f == [t \in Ordered(E) |-> {t[1], t[2], t[3]}]
<1>1. IsFiniteSet(Ordered(E))
  <2>1. IsFiniteSet(Vertex \X Vertex)
    BY FiniteVertices, FS_Product
  <2>2. IsFiniteSet((Vertex \X Vertex) \X Vertex)
    BY <2>1, FiniteVertices, FS_Product
  <2>. DEFINE P == (Vertex \X Vertex) \X Vertex
              g == [p \in P |-> <<p[1][1], p[1][2], p[2]>>]
  <2>3. IsFiniteSet(Vertex \X Vertex \X Vertex)
    <3>1. g \in [P -> Vertex \X Vertex \X Vertex]
      OBVIOUS
    <3>2. \A p, q \in P : g[p] = g[q] => p = q
      OBVIOUS
    <3>3. ASSUME NEW t \in Vertex \X Vertex \X Vertex PROVE \E p \in P : g[p] = t
      <4>1. <<<<t[1], t[2]>>, t[3]>> \in P /\ g[<<<<t[1], t[2]>>, t[3]>>] = t
        OBVIOUS
      <4>. QED  BY <4>1
    <3>. HIDE DEF g, P
    <3>4. IsFiniteSet(P)
      BY <2>2 DEF P
    <3>. QED  BY <3>1, <3>2, <3>3, <3>4, SameSize
  <2>. QED  BY <2>3, FS_Subset DEF Ordered
<1>2. ASSUME NEW t \in Ordered(E)
      PROVE  /\ t[1] \in Vertex /\ t[2] \in Vertex /\ t[3] \in Vertex /\ t = <<t[1], t[2], t[3]>>
             /\ t[1] < t[2] /\ t[2] < t[3] /\ t[1] < t[3]
  BY DEF Ordered, Vertex
<1>3. f \in [Ordered(E) -> Corners(E)]
  <2>. SUFFICES ASSUME NEW t \in Ordered(E) PROVE {t[1], t[2], t[3]} \in Corners(E)
    OBVIOUS
  <2>1. t[1] # t[2] /\ t[2] # t[3] /\ t[1] # t[3]
    BY <1>2 DEF Vertex
  <2>2. Cardinality({t[1], t[2], t[3]}) = 3
    BY <2>1, ThreeElements
  <2>3. /\ <<t[1], t[2]>> \in E /\ <<t[1], t[3]>> \in E /\ <<t[2], t[3]>> \in E
        /\ <<t[2], t[1]>> \in E /\ <<t[3], t[1]>> \in E /\ <<t[3], t[2]>> \in E
    BY <1>2 DEF Ordered, Simple
  <2>4. \A v, w \in {t[1], t[2], t[3]} : v # w => <<v, w>> \in E
    BY <2>3
  <2>. QED  BY <1>2, <2>2, <2>4 DEF Corners
<1>4. ASSUME NEW s \in Ordered(E), NEW t \in Ordered(E), f[s] = f[t] PROVE s = t
  <2>1. {s[1], s[2], s[3]} = {t[1], t[2], t[3]}
    BY <1>4
  <2>2. /\ s[1] \in {t[1], t[2], t[3]} /\ s[2] \in {t[1], t[2], t[3]} /\ s[3] \in {t[1], t[2], t[3]}
        /\ t[1] \in {s[1], s[2], s[3]} /\ t[2] \in {s[1], s[2], s[3]} /\ t[3] \in {s[1], s[2], s[3]}
    BY <2>1
  <2>3. /\ s[1] \in Int /\ s[2] \in Int /\ s[3] \in Int /\ s[1] < s[2] /\ s[2] < s[3]
        /\ t[1] \in Int /\ t[2] \in Int /\ t[3] \in Int /\ t[1] < t[2] /\ t[2] < t[3]
    BY <1>2 DEF Vertex
  <2>4. s[1] = t[1] /\ s[2] = t[2] /\ s[3] = t[3]
    BY <2>2, <2>3
  <2>. QED  BY <1>2, <2>4
<1>5. ASSUME NEW S \in Corners(E) PROVE \E t \in Ordered(E) : f[t] = S
  <2>1. S \in SUBSET Vertex /\ Cardinality(S) = 3 /\ (\A v, w \in S : v # w => <<v, w>> \in E) /\ IsFiniteSet(S)
    BY FiniteVertices DEF Corners
  <2>2. PICK x \in S, y \in S : x # y
    BY <2>1, TwoOfThree
  <2>3. PICK z \in S : z # x /\ z # y /\ S = {x, y, z}
    BY <2>1, <2>2, ThirdElement
  <2>4. ASSUME NEW a \in S, NEW b \in S, NEW c \in S, a < b, b < c, S = {a, b, c}
        PROVE  \E t \in Ordered(E) : f[t] = S
    <3>1. a \in Vertex /\ b \in Vertex /\ c \in Vertex /\ a # b /\ b # c /\ a # c
      BY <2>1, <2>4 DEF Vertex
    <3>2. <<a, b, c>> \in Ordered(E)
      BY <2>1, <2>4, <3>1 DEF Ordered
    <3>3. f[<<a, b, c>>] = S
      BY <2>4, <3>2
    <3>. QED  BY <3>2, <3>3
  <2>5. x \in Int /\ y \in Int /\ z \in Int
    BY <2>1 DEF Vertex
  <2>6. S = {x, y, z} /\ S = {x, z, y} /\ S = {y, x, z} /\ S = {y, z, x} /\ S = {z, x, y} /\ S = {z, y, x}
    BY <2>3
  <2>7. \/ (x < y /\ y < z) \/ (x < z /\ z < y) \/ (y < x /\ x < z)
        \/ (y < z /\ z < x) \/ (z < x /\ x < y) \/ (z < y /\ y < x)
    BY <2>2, <2>3, <2>5
  <2>. HIDE DEF f
  <2>. QED  BY <2>4, <2>6, <2>7
<1>. HIDE DEF f
<1>6. \A s, t \in Ordered(E) : f[s] = f[t] => s = t
  BY <1>4
<1>7. \A S \in Corners(E) : \E t \in Ordered(E) : f[t] = S
  BY <1>5
<1>8. Cardinality(Corners(E)) = Cardinality(Ordered(E))
  BY <1>1, <1>3, <1>6, <1>7, SameSize
<1>. QED  BY <1>1, <1>8

(* recompute() meets each triangle at its three edges.                     *)
LEMMA MetThrice ==
  ASSUME Simple(edges)
  PROVE  LET up == {a \in edges : a[1] < a[2]}
             met == {m \in up \X Vertex : m[2] \in Neighbors(m[1][1]) \cap Neighbors(m[1][2])}
         IN  Cardinality(met) = 3 * Cardinality(Corners(edges))
<1>. DEFINE up == {a \in edges : a[1] < a[2]}
            met == {m \in up \X Vertex : m[2] \in Neighbors(m[1][1]) \cap Neighbors(m[1][2])}
            low == {m \in met : m[2] < m[1][1]}
            mid == {m \in met : m[1][1] < m[2] /\ m[2] < m[1][2]}
            high == {m \in met : m[1][2] < m[2]}
            O == Ordered(edges)
<1>1. IsFiniteSet(O) /\ Cardinality(O) = Cardinality(Corners(edges)) /\ Cardinality(O) \in Nat
  BY OrderedCorners, CornersFinite
<1>2. ASSUME NEW m \in met
      PROVE  /\ m = <<<<m[1][1], m[1][2]>>, m[2]>> /\ m[1][1] \in Vertex /\ m[1][2] \in Vertex /\ m[2] \in Vertex
             /\ m[1][1] < m[1][2] /\ <<m[1][1], m[1][2]>> \in edges
             /\ <<m[1][1], m[2]>> \in edges /\ <<m[1][2], m[2]>> \in edges
             /\ <<m[2], m[1][1]>> \in edges /\ <<m[2], m[1][2]>> \in edges
             /\ m[2] # m[1][1] /\ m[2] # m[1][2]
  <2>1. m[1] \in edges /\ m[1][1] < m[1][2] /\ m[2] \in Vertex /\ m = <<m[1], m[2]>>
        /\ <<m[1][1], m[2]>> \in edges /\ <<m[1][2], m[2]>> \in edges
    BY DEF Neighbors
  <2>2. m[1] = <<m[1][1], m[1][2]>> /\ m[1][1] \in Vertex /\ m[1][2] \in Vertex
    BY <2>1 DEF Simple, Arc
  <2>3. /\ <<m[2], m[1][1]>> \in edges /\ <<m[2], m[1][2]>> \in edges /\ m[2] # m[1][1] /\ m[2] # m[1][2]
    BY <2>1, <2>2 DEF Simple
  <2>. QED  BY <2>1, <2>2, <2>3
<1>3. ASSUME NEW x \in Vertex, NEW y \in Vertex, NEW z \in Vertex,
             x < y, <<x, y>> \in edges, <<x, z>> \in edges, <<y, z>> \in edges
      PROVE  <<<<x, y>>, z>> \in met
  BY <1>3 DEF Neighbors
<1>4. ASSUME NEW t \in O
      PROVE  /\ t = <<t[1], t[2], t[3]>> /\ t[1] \in Vertex /\ t[2] \in Vertex /\ t[3] \in Vertex
             /\ t[1] < t[2] /\ t[2] < t[3] /\ t[1] < t[3]
             /\ <<t[1], t[2]>> \in edges /\ <<t[1], t[3]>> \in edges /\ <<t[2], t[3]>> \in edges
             /\ <<t[2], t[1]>> \in edges /\ <<t[3], t[1]>> \in edges /\ <<t[3], t[2]>> \in edges
  BY DEF Ordered, Simple, Vertex
<1>5. ASSUME NEW x \in Vertex, NEW y \in Vertex, NEW z \in Vertex, x < y, y < z,
             <<x, y>> \in edges, <<x, z>> \in edges, <<y, z>> \in edges
      PROVE  <<x, y, z>> \in O
  BY <1>5 DEF Ordered
<1>. HIDE DEF met, O
<1>6. IsFiniteSet(low) /\ Cardinality(low) = Cardinality(O)
  <2>. DEFINE f == [t \in O |-> <<<<t[2], t[3]>>, t[1]>>]
  <2>1. f \in [O -> low]
    <3>. SUFFICES ASSUME NEW t \in O PROVE <<<<t[2], t[3]>>, t[1]>> \in low
      OBVIOUS
    <3>1. <<<<t[2], t[3]>>, t[1]>> \in met
      BY <1>3, <1>4
    <3>. QED  BY <1>4, <3>1
  <2>2. \A s, t \in O : f[s] = f[t] => s = t
    BY <1>4
  <2>3. ASSUME NEW m \in low PROVE \E t \in O : f[t] = m
    <3>1. m \in met /\ m[2] < m[1][1]
      OBVIOUS
    <3>2. <<m[2], m[1][1], m[1][2]>> \in O
      BY <1>2, <1>5, <3>1
    <3>3. f[<<m[2], m[1][1], m[1][2]>>] = m
      BY <1>2, <3>1, <3>2
    <3>. QED  BY <3>2, <3>3
  <2>. HIDE DEF f, low
  <2>. QED  BY <1>1, <2>1, <2>2, <2>3, SameSize
<1>7. IsFiniteSet(mid) /\ Cardinality(mid) = Cardinality(O)
  <2>. DEFINE f == [t \in O |-> <<<<t[1], t[3]>>, t[2]>>]
  <2>1. f \in [O -> mid]
    <3>. SUFFICES ASSUME NEW t \in O PROVE <<<<t[1], t[3]>>, t[2]>> \in mid
      OBVIOUS
    <3>1. <<<<t[1], t[3]>>, t[2]>> \in met
      BY <1>3, <1>4
    <3>. QED  BY <1>4, <3>1
  <2>2. \A s, t \in O : f[s] = f[t] => s = t
    BY <1>4
  <2>3. ASSUME NEW m \in mid PROVE \E t \in O : f[t] = m
    <3>1. m \in met /\ m[1][1] < m[2] /\ m[2] < m[1][2]
      OBVIOUS
    <3>2. <<m[1][1], m[2], m[1][2]>> \in O
      BY <1>2, <1>5, <3>1
    <3>3. f[<<m[1][1], m[2], m[1][2]>>] = m
      BY <1>2, <3>1, <3>2
    <3>. QED  BY <3>2, <3>3
  <2>. HIDE DEF f, mid
  <2>. QED  BY <1>1, <2>1, <2>2, <2>3, SameSize
<1>8. IsFiniteSet(high) /\ Cardinality(high) = Cardinality(O)
  <2>. DEFINE f == [t \in O |-> <<<<t[1], t[2]>>, t[3]>>]
  <2>1. f \in [O -> high]
    <3>. SUFFICES ASSUME NEW t \in O PROVE <<<<t[1], t[2]>>, t[3]>> \in high
      OBVIOUS
    <3>1. <<<<t[1], t[2]>>, t[3]>> \in met
      BY <1>3, <1>4
    <3>. QED  BY <1>4, <3>1
  <2>2. \A s, t \in O : f[s] = f[t] => s = t
    BY <1>4
  <2>3. ASSUME NEW m \in high PROVE \E t \in O : f[t] = m
    <3>1. m \in met /\ m[1][2] < m[2]
      OBVIOUS
    <3>2. <<m[1][1], m[1][2], m[2]>> \in O
      BY <1>2, <1>5, <3>1
    <3>3. f[<<m[1][1], m[1][2], m[2]>>] = m
      BY <1>2, <3>1, <3>2
    <3>. QED  BY <3>2, <3>3
  <2>. HIDE DEF f, high
  <2>. QED  BY <1>1, <2>1, <2>2, <2>3, SameSize
<1>9. met = (low \cup mid) \cup high
  <2>1. ASSUME NEW m \in met PROVE m[2] < m[1][1] \/ (m[1][1] < m[2] /\ m[2] < m[1][2]) \/ m[1][2] < m[2]
    <3>1. m[2] \in Vertex /\ m[1][1] \in Vertex /\ m[1][2] \in Vertex /\ m[2] # m[1][1] /\ m[2] # m[1][2]
      BY <1>2, Zenon
    <3>. QED  BY <3>1 DEF Vertex
  <2>. QED  BY <2>1
<1>10. low \cap mid = {} /\ (low \cup mid) \cap high = {}
  <2>1. ASSUME NEW m \in met
        PROVE  /\ ~(m[2] < m[1][1] /\ m[1][1] < m[2] /\ m[2] < m[1][2])
               /\ ~(m[2] < m[1][1] /\ m[1][2] < m[2])
               /\ ~(m[2] < m[1][2] /\ m[1][2] < m[2])
    <3>1. m[2] \in Vertex /\ m[1][1] \in Vertex /\ m[1][2] \in Vertex /\ m[1][1] < m[1][2]
      BY <1>2, Zenon
    <3>. QED  BY <3>1 DEF Vertex
  <2>. QED  BY <2>1
<1>. HIDE DEF low, mid, high
<1>11. IsFiniteSet(low \cup mid) /\ Cardinality(low \cup mid) = Cardinality(O) + Cardinality(O)
  <2>1. Cardinality(low \cap mid) = 0
    BY <1>10, FS_EmptySet
  <2>2. IsFiniteSet(low \cup mid) /\ Cardinality(low \cup mid) = Cardinality(low) + Cardinality(mid) - Cardinality(low \cap mid)
    BY <1>6, <1>7, FS_Union
  <2>. QED  BY <1>1, <1>6, <1>7, <2>1, <2>2
<1>12. Cardinality((low \cup mid) \cup high) = Cardinality(O) + Cardinality(O) + Cardinality(O)
  <2>1. Cardinality((low \cup mid) \cap high) = 0
    BY <1>10, FS_EmptySet
  <2>2. Cardinality((low \cup mid) \cup high)
        = Cardinality(low \cup mid) + Cardinality(high) - Cardinality((low \cup mid) \cap high)
    BY <1>8, <1>11, FS_Union
  <2>. QED  BY <1>1, <1>8, <1>11, <2>1, <2>2
<1>13. Cardinality(met) = 3 * Cardinality(Corners(edges))
  BY <1>1, <1>9, <1>12
<1>. QED  BY <1>13 DEF met

-----------------------------------------------------------------------------
TrianglesInv == Alone /\ "triangles" \in attached => triangles = Cardinality(Corners(edges))

LEMMA CornersExact == TrianglesExact <=> triangles = Cardinality(Corners(edges))
<1>1. {S \in kSubset(3, Vertex) : \A v, w \in S : v # w => <<v, w>> \in edges} = Corners(edges)
  BY DEF kSubset, Corners
<1>. QED  BY <1>1 DEF TrianglesExact

LEMMA MinOfTwo ==
  ASSUME NEW m \in Nat, NEW n \in Nat
  PROVE  Min({m, n}) = IF m <= n THEN m ELSE n
<1>1. Min({m, n}) \in {m, n} /\ \A x \in {m, n} : Min({m, n}) <= x
  <2>1. \E x \in {m, n} : \A y \in {m, n} : x <= y
    OBVIOUS
  <2>. QED  BY <2>1 DEF Min
<1>. QED  BY <1>1

LEMMA CommonSize ==
  ASSUME NEW a, NEW b
  PROVE  CommonNeighbors(a, b) = Cardinality(Row(edges, a) \cap Row(edges, b)) /\ CommonNeighbors(a, b) \in Nat
<1>1. Neighbors(a) \cap Neighbors(b) = Row(edges, a) \cap Row(edges, b)
  BY DEF Neighbors, Row
<1>. QED  BY <1>1, RowSizes DEF CommonNeighbors

(* Adding or removing an edge changes the count by what it closes. *)
LEMMA CountsOne ==
  ASSUME Base, Base', ~directed, triangles = Cardinality(Corners(edges)), CountUpdate
  PROVE  triangles' = Cardinality(Corners(edges'))
<1>. DEFINE op == batch[next]
            a == op.src
            b == op.dst
            common == CommonNeighbors(a, b)
            pair == {<<a, b>>, <<b, a>>}
<1>1. op \in WeightedOp
  BY UpdateEffect DEF CountUpdate
<1>2. a \in Vertex /\ b \in Vertex /\ op.add \in BOOLEAN
  BY <1>1 DEF WeightedOp
<1>3. edges' = IF op.add THEN edges \cup ArcsOf(directed, op) ELSE edges \ ArcsOf(directed, op)
  BY DEF CountUpdate, UpdateGraph, AfterOp
<1>4. ArcsOf(directed, op) = IF a = b THEN {} ELSE pair
  BY DEF ArcsOf
<1>5. directed' = directed
  BY DEF CountUpdate, UpdateGraph
<1>6. Simple(edges) /\ Simple(edges')
  BY <1>5 DEF Base, NoLoops, Mirrored, Simple
<1>7. triangles' = Counted(op)
  BY DEF CountUpdate
<1>8. /\ common = Cardinality(Row(edges, a) \cap Row(edges, b)) /\ common \in Nat
      /\ Cardinality(Corners(edges)) \in Nat /\ Cardinality(Corners(edges')) \in Nat
  BY CommonSize, CornersFinite
<1>9. CASE a = b \/ op.add = (<<a, b>> \in edges)
  <2>1. edges' = edges
    <3>1. CASE a = b
      BY <1>3, <1>4, <3>1
    <3>2. CASE a # b /\ op.add /\ <<a, b>> \in edges
      BY <1>2, <1>3, <1>4, <1>6, <3>2 DEF Simple
    <3>3. CASE a # b /\ ~op.add /\ <<a, b>> \notin edges
      BY <1>2, <1>3, <1>4, <1>6, <3>3 DEF Simple
    <3>. QED  BY <1>2, <1>9, <3>1, <3>2, <3>3
  <2>2. triangles' = triangles
    BY <1>7, <1>9 DEF Counted
  <2>. QED  BY <2>1, <2>2
<1>10. CASE a # b /\ op.add /\ <<a, b>> \notin edges
  <2>1. edges' = edges \cup pair
    BY <1>3, <1>4, <1>10
  <2>2. Cardinality(Corners(edges \cup pair)) = Cardinality(Corners(edges)) + Cardinality(Row(edges, a) \cap Row(edges, b))
    BY <1>2, <1>6, <1>10, EdgeCloses
  <2>3. triangles' = triangles + common
    BY <1>7, <1>10 DEF Counted
  <2>. QED  BY <1>8, <2>1, <2>2, <2>3
<1>11. CASE a # b /\ ~op.add /\ <<a, b>> \in edges
  <2>1. <<a, b>> \notin edges' /\ edges' \cup pair = edges
    <3>1. edges' = edges \ pair
      BY <1>3, <1>4, <1>11
    <3>2. pair \subseteq edges
      BY <1>2, <1>6, <1>11 DEF Simple
    <3>. QED  BY <3>1, <3>2
  <2>2. /\ Cardinality(Corners(edges' \cup pair))
           = Cardinality(Corners(edges')) + Cardinality(Row(edges', a) \cap Row(edges', b))
        /\ Row(edges' \cup pair, a) \cap Row(edges' \cup pair, b) = Row(edges', a) \cap Row(edges', b)
    BY <1>2, <1>6, <1>11, <2>1, EdgeCloses
  <2>3. triangles = Cardinality(Corners(edges')) + common
    BY <1>8, <2>1, <2>2
  <2>4. triangles' = triangles - Min({triangles, common})
    BY <1>7, <1>11 DEF Counted
  <2>5. Min({triangles, common}) = common
    BY <1>8, <2>3, MinOfTwo
  <2>. HIDE DEF common
  <2>. QED  BY <1>8, <2>3, <2>4, <2>5
<1>. QED  BY <1>2, <1>9, <1>10, <1>11

LEMMA RecountsAll ==
  ASSUME Base, ~directed, RecomputeTriangles
  PROVE  triangles' = Cardinality(Corners(edges))
<1>. DEFINE up == {a \in edges : a[1] < a[2]}
            met == {m \in up \X Vertex : m[2] \in Neighbors(m[1][1]) \cap Neighbors(m[1][2])}
<1>1. triangles' = Cardinality(met) \div 3
  BY DEF RecomputeTriangles
<1>2. Simple(edges)
  BY DEF Base, NoLoops, Mirrored, Simple
<1>3. Cardinality(met) = 3 * Cardinality(Corners(edges))
  BY <1>2, MetThrice
<1>4. Cardinality(Corners(edges)) \in Nat
  BY CornersFinite
<1>5. \A n \in Nat : (3 * n) \div 3 = n
  OBVIOUS
<1>. HIDE DEF met
<1>. QED  BY <1>1, <1>3, <1>4, <1>5

LEMMA StepTriangles == Base /\ Base' /\ TrianglesInv /\ [Next]_vars => TrianglesInv'
<1>. SUFFICES ASSUME Base, Base', TrianglesInv, [Next]_vars, Alone, "triangles" \in attached PROVE TrianglesInv'
  BY AttachedStays DEF TrianglesInv, Alone
<1>0. triangles = Cardinality(Corners(edges)) /\ ~directed
  BY DEF TrianglesInv, Base, Undirected
<1>1. ASSUME triangles' = triangles, graph' = graph PROVE TrianglesInv'
  <2>1. edges' = edges
    BY <1>1 DEF graph
  <2>. QED  BY <1>0, <1>1, <2>1 DEF TrianglesInv
<1>2. CASE UNCHANGED vars
  BY <1>1, <1>2 DEF vars, results, others
<1>3. CASE GivesBatch
  BY <1>1, <1>3 DEF GivesBatch, NewBatch, results, others
<1>4. CASE TrianglesStep
  <2>1. CASE BeginTriangles
    BY <1>1, <2>1 DEF BeginTriangles
  <2>2. CASE CountUpdate
    BY <1>0, <2>2, CountsOne DEF TrianglesInv
  <2>3. CASE EndTriangles
    BY <1>1, <2>3 DEF EndTriangles
  <2>4. CASE RecomputeTriangles
    <3>1. edges' = edges
      BY <2>4 DEF RecomputeTriangles, graph
    <3>. QED  BY <1>0, <2>4, <3>1, RecountsAll DEF TrianglesInv
  <2>. QED  BY <1>4, <2>1, <2>2, <2>3, <2>4 DEF TrianglesStep
<1>5. ~(ComponentsStep \/ CoresStep \/ RanksStep \/ PathsStep)
  BY Owners DEF Alone
<1>. QED  BY <1>2, <1>3, <1>4, <1>5, StepCases

LEMMA InitTrianglesInv == Init => TrianglesInv
<1>. SUFFICES ASSUME Init PROVE triangles = Cardinality(Corners(edges))
  BY DEF TrianglesInv
<1>1. edges = {} /\ triangles = 0
  BY DEF Init, InitTriangles
<1>2. ASSUME NEW S \in Corners({}) PROVE FALSE
  <2>1. IsFiniteSet(S) /\ Cardinality(S) = 3 /\ \A v, w \in S : v = w
    BY FiniteVertices DEF Corners
  <2>. QED  BY <2>1, TwoOfThree
<1>3. Cardinality(Corners({})) = 0
  BY <1>2, FS_EmptySet
<1>. QED  BY <1>1, <1>3

(* Of a graph to itself, the count is the number of triangles after every  *)
(* single update (IncrementalTriangleCount::apply), and recompute() counts *)
(* the same.                                                               *)
THEOREM TrianglesStayExact == Spec => [](Alone => TrianglesMaintained)
<1>1. Init => Base /\ TrianglesInv
  BY InitBase, InitTrianglesInv
<1>2. Base /\ TrianglesInv /\ [Next]_vars => (Base /\ TrianglesInv)'
  BY StepBase, StepTriangles
<1>3. Base /\ TrianglesInv => (Alone => TrianglesMaintained)
  BY CornersExact DEF TrianglesInv, TrianglesMaintained
<1>. QED  BY <1>1, <1>2, <1>3, PTL DEF Spec

-----------------------------------------------------------------------------
(* The remaining types, whatever is attached. *)
WeightsSound ==
  /\ weight \in [Arc -> 0 .. Infinity - 1]
  /\ phase = "weighted" => ~Rejected

PathsSound == far \in Distances /\ queue \in Queues /\ restart \in BOOLEAN

CountSound == triangles \in Nat

RanksSound == RanksTypeOK

LEMMA UnitWeight == 1 \in 0 .. Infinity - 1 /\ [a \in Arc |-> 1] \in [Arc -> 0 .. Infinity - 1]
<1>1. 1 \in 0 .. Infinity - 1
  BY MaintainedConstants
<1>. QED  BY <1>1

(* A batch that has got as far as the graph has no weight of Infinity. *)
LEMMA StepWeights == Base /\ Base' /\ WeightsSound /\ [Next]_vars => WeightsSound'
<1>. SUFFICES ASSUME Base, Base', WeightsSound, [Next]_vars PROVE WeightsSound'
  OBVIOUS
<1>0. attached' = attached
  BY AttachedStays
<1>1. CASE attached # {"weighted"}
  <2>1. weight' = [a \in Arc |-> 1]
    BY <1>0, <1>1 DEF Base
  <2>2. phase' # "weighted"
    <3>1. phase' = "weighted" => "weighted" \in attached'
      BY DEF Base, Owned
    <3>. QED  BY <1>0, <1>1, <3>1, WeightedAlone
  <2>. QED  BY <2>1, <2>2, UnitWeight DEF WeightsSound
<1>2. CASE attached = {"weighted"}
  <2>1. CASE UNCHANGED vars
    <3>1. UNCHANGED <<weight, phase, batch>>
      BY <2>1 DEF vars, graph, call
    <3>. QED  BY <3>1 DEF WeightsSound, Rejected
  <2>2. CASE GivesBatch
    <3>1. weight' = weight /\ phase' # "weighted"
      BY <2>2 DEF GivesBatch, NewBatch, graph
    <3>. QED  BY <3>1 DEF WeightsSound
  <2>3. ASSUME UpdateGraph("weighted") PROVE WeightsSound'
    <3>1. phase = "weighted" /\ batch' = batch /\ next \in DOMAIN batch
      BY <2>3 DEF UpdateGraph, Base
    <3>2. ~Rejected /\ ~Rejected'
      BY <3>1 DEF WeightsSound, Rejected
    <3>3. ASSUME NEW a \in Arc, a \in ArcsOf(directed, batch[next]), batch[next].add
          PROVE  batch[next].weight \in 0 .. Infinity - 1
      <4>1. batch[next].src # batch[next].dst /\ batch[next] \in WeightedOp
        BY <2>3, <3>3, UpdateEffect DEF ArcsOf
      <4>2. ~(batch[next].weight >= Infinity)
        BY <3>1, <3>2, <3>3, <4>1 DEF Rejected
      <4>. QED  BY <4>1, <4>2, MaintainedConstants DEF WeightedOp
    <3>4. ASSUME NEW a \in Arc
          PROVE  (IF a \notin ArcsOf(directed, batch[next]) THEN weight[a]
                  ELSE IF batch[next].add THEN batch[next].weight ELSE 1) \in 0 .. Infinity - 1
      BY <3>3, UnitWeight DEF WeightsSound
    <3>5. weight' = [a \in Arc |-> IF a \notin ArcsOf(directed, batch[next]) THEN weight[a]
                                   ELSE IF batch[next].add THEN batch[next].weight ELSE 1]
      BY <2>3 DEF UpdateGraph
    <3>6. weight' \in [Arc -> 0 .. Infinity - 1]
      BY <3>4, <3>5
    <3>. QED  BY <3>2, <3>6 DEF WeightsSound
  <2>4. CASE PathsStep
    <3>1. CASE Takes("weighted") /\ BeginWeighted
      BY <3>1 DEF BeginWeighted, WeightsSound, Rejected, graph, call
    <3>2. CASE Takes("weighted") /\ RejectWeighted
      BY <3>2 DEF RejectWeighted, WeightsSound, Rejected, graph, call
    <3>3. CASE UpdateGraph("weighted")
      BY <2>3, <3>3
    <3>4. ~(Takes("paths") /\ BeginPaths) /\ ~UpdateGraph("paths")
      BY <1>2 DEF Takes, UpdateGraph, Base, Owned
    <3>5. CASE RestartPaths \/ RestartWeighted \/ RecomputePaths
      BY <3>5 DEF RestartPaths, RestartWeighted, RecomputePaths, StartOver, WeightsSound, graph
    <3>6. CASE RelaxPaths \/ RelaxWeighted
      BY <3>6 DEF RelaxPaths, RelaxWeighted, StartRelaxing, WeightsSound, graph
    <3>7. CASE RelaxUpdate \/ RelaxKept \/ PassOver
      BY <3>7 DEF RelaxUpdate, RelaxKept, PassOver, Relax, WeightsSound, graph
    <3>8. CASE EndRelaxing("relax") \/ EndRelaxing("reweigh")
      BY <3>8 DEF EndRelaxing, WeightsSound, graph
    <3>9. CASE Propagate \/ EndPaths
      BY <3>9 DEF Propagate, EndPaths, Return, WeightsSound, graph
    <3>. QED  BY <2>4, <3>1, <3>2, <3>3, <3>4, <3>5, <3>6, <3>7, <3>8, <3>9 DEF PathsStep
  <2>5. ~(ComponentsStep \/ TrianglesStep \/ CoresStep \/ RanksStep)
    BY <1>2, Owners
  <2>. QED  BY <2>1, <2>2, <2>4, <2>5, StepCases
<1>. QED  BY <1>1, <1>2

LEMMA StepPathsSound == Base /\ InGraph /\ PathsInv /\ PathsSound /\ [Next]_vars => PathsSound'
<1>. SUFFICES ASSUME Base, InGraph, PathsInv, PathsSound, [Next]_vars PROVE PathsSound'
  OBVIOUS
<1>1. ASSUME UNCHANGED <<paths, restart>> PROVE PathsSound'
  BY <1>1 DEF PathsSound, paths
<1>2. CASE PathsStep
  <2>1. far' \in Distances /\ queue' \in Queues
    BY <1>2, Owners, AttachedStays, PathsPaths DEF PathsInv
  <2>2. restart' \in BOOLEAN
    <3>1. CASE BeginWeighted
      BY <3>1 DEF BeginWeighted
    <3>2. CASE RestartWeighted
      BY <3>2 DEF RestartWeighted
    <3>3. CASE UNCHANGED restart
      BY <3>3 DEF PathsSound
    <3>4. RejectWeighted \/ RelaxWeighted \/ RelaxKept \/ PassOver => UNCHANGED restart
      BY DEF RejectWeighted, RelaxWeighted, RelaxKept, PassOver
    <3>5. BeginWeighted \/ RestartWeighted \/ UNCHANGED restart
      BY <1>2, <3>4, Zenon DEF PathsStep
    <3>. QED  BY <3>1, <3>2, <3>3, <3>5
  <2>. QED  BY <2>1, <2>2 DEF PathsSound
<1>3. CASE UNCHANGED vars \/ GivesBatch
  BY <1>1, <1>3 DEF vars, GivesBatch, results, others
<1>4. CASE ComponentsStep \/ TrianglesStep \/ CoresStep \/ RanksStep
  BY <1>1, <1>4 DEF ComponentsStep, TrianglesStep, CoresStep, RanksStep, others
<1>. QED  BY <1>2, <1>3, <1>4, StepCases

LEMMA StepCount == Base /\ CountSound /\ [Next]_vars => CountSound'
<1>. SUFFICES ASSUME Base, CountSound, [Next]_vars PROVE CountSound'
  OBVIOUS
<1>1. ASSUME UNCHANGED triangles PROVE CountSound'
  BY <1>1 DEF CountSound
<1>2. CASE UNCHANGED vars \/ GivesBatch
  BY <1>1, <1>2 DEF vars, GivesBatch, results, others
<1>3. CASE ComponentsStep \/ CoresStep \/ RanksStep \/ PathsStep
  BY <1>1, <1>3 DEF ComponentsStep, CoresStep, RanksStep, PathsStep, others
<1>4. CASE BeginTriangles \/ EndTriangles
  BY <1>1, <1>4 DEF BeginTriangles, EndTriangles
<1>5. CASE CountUpdate
  <2>. DEFINE common == CommonNeighbors(batch[next].src, batch[next].dst)
  <2>1. triangles \in Nat /\ common \in Nat
    BY CommonSize DEF CountSound
  <2>2. Min({triangles, common}) \in Nat /\ Min({triangles, common}) <= triangles
    BY <2>1, MinOfTwo
  <2>3. triangles' \in {triangles, triangles + common, triangles - Min({triangles, common})}
    BY <1>5 DEF CountUpdate, Counted
  <2>. HIDE DEF common
  <2>. QED  BY <2>1, <2>2, <2>3 DEF CountSound
<1>6. ASSUME RecomputeTriangles, TrianglesStep PROVE CountSound'
  <2>1. ~directed
    BY <1>6, Owners DEF Base, Undirected
  <2>. QED  BY <1>6, <2>1, RecountsAll, CornersFinite DEF CountSound
<1>. QED  BY <1>2, <1>3, <1>4, <1>5, <1>6, StepCases DEF TrianglesStep

LEMMA ActivatedPresent == Base => Activated \subseteq Vertex /\ Moved \subseteq Vertex /\ Dangling \subseteq Present
BY PresentVertices DEF Activated, Moved, Dangling, Present

LEMMA DanglingBound == Base => Cardinality(Dangling) \in 0 .. MaxVertices
<1>. SUFFICES ASSUME Base PROVE Cardinality(Dangling) \in 0 .. MaxVertices
  OBVIOUS
<1>1. vertexCount \in 0 .. MaxVertices /\ MaxVertices \in Nat
  BY MaintainedConstants DEF Base
<1>2. IsFiniteSet(0 .. vertexCount - 1) /\ Cardinality(0 .. vertexCount - 1) = vertexCount
  BY <1>1, FS_Interval
<1>3. Dangling \in SUBSET (0 .. vertexCount - 1)
  BY DEF Dangling, Present
<1>4. IsFiniteSet(Dangling) /\ Cardinality(Dangling) <= vertexCount
  BY <1>2, <1>3, FS_Subset
<1>5. Cardinality(Dangling) \in Nat
  BY <1>4, FS_CardinalityType
<1>. QED  BY <1>1, <1>4, <1>5

LEMMA LimitType ==
  ASSUME Base, NEW f \in Fractions
  PROVE  LimitFor(f) \in Nat
<1>. DEFINE q == (f[1] * vertexCount) \div f[2]
<1>1. f[1] \in Nat /\ f[2] \in Nat \ {0} /\ vertexCount \in Nat
  BY RankConstants DEF Base
<1>2. f[1] * vertexCount \in Nat
  BY <1>1
<1>3. q \in Int
  BY <1>1, <1>2
<1>. HIDE DEF q
<1>4. \E x \in {1, q} : \A y \in {1, q} : x >= y
  BY <1>3
<1>5. Max({1, q}) \in {1, q} /\ Max({1, q}) >= 1
  BY <1>4 DEF Max
<1>6. Max({1, q}) \in Nat
  BY <1>3, <1>5
<1>. QED  BY <1>6 DEF LimitFor, q

LEMMA StepRanksSound == Base /\ RanksSound /\ [Next]_vars => RanksSound'
<1>. SUFFICES ASSUME Base, RanksSound, [Next]_vars PROVE RanksSound'
  OBVIOUS
<1>0. /\ ranked \in 0 .. MaxVertices /\ dangling \in 0 .. MaxVertices
      /\ active \subseteq ever /\ ever \subseteq Vertex
      /\ round \in 0 .. Rounds /\ limit \in Nat
      /\ before \in [arcs : SUBSET Arc, count : 0 .. MaxVertices]
      /\ stale \subseteq Vertex /\ loose \subseteq Vertex
      /\ Rounds \in Nat /\ MaxVertices \in Nat /\ vertexCount \in 0 .. MaxVertices /\ edges \subseteq Arc
  BY RankConstants, MaintainedConstants DEF RanksSound, RanksTypeOK, Base
<1>1. ASSUME UNCHANGED ranks PROVE RanksSound'
  BY <1>1 DEF RanksSound, RanksTypeOK, ranks
<1>2. CASE UNCHANGED vars \/ GivesBatch
  BY <1>1, <1>2 DEF vars, GivesBatch, results
<1>3. CASE ComponentsStep \/ CoresStep \/ TrianglesStep \/ PathsStep
  BY <1>1, <1>3 DEF ComponentsStep, CoresStep, TrianglesStep, PathsStep
<1>4. ASSUME Solve PROVE RanksSound'
  <2>1. /\ active' = {} /\ ever' = {} /\ round' = 0 /\ limit' = 0 /\ ranked' = vertexCount
        /\ dangling' = Cardinality(Dangling) /\ before' = NoGraph /\ stale' = {} /\ loose' = {}
    BY <1>4 DEF Solve, LeaveRanks
  <2>2. NoGraph \in [arcs : SUBSET Arc, count : 0 .. MaxVertices]
    BY <1>0 DEF NoGraph
  <2>. QED  BY <1>0, <2>1, <2>2, DanglingBound DEF RanksSound, RanksTypeOK
<1>5. CASE BeginRanks
  <2>1. /\ before' = [arcs |-> edges, count |-> vertexCount]
        /\ UNCHANGED <<ranked, dangling, active, ever, round, limit, stale, loose>>
    BY <1>5 DEF BeginRanks
  <2>2. before' \in [arcs : SUBSET Arc, count : 0 .. MaxVertices]
    BY <1>0, <2>1
  <2>. QED  BY <1>0, <2>1, <2>2 DEF RanksSound, RanksTypeOK
<1>6. CASE UpdateRanked
  BY <1>1, <1>6 DEF UpdateRanked
<1>7. CASE SolveAfresh \/ RecomputeRanks
  BY <1>4, <1>7 DEF SolveAfresh, RecomputeRanks
<1>8. CASE StartRounds
  <2>1. PICK f \in Fractions : limit' = LimitFor(f)
    BY <1>8 DEF StartRounds
  <2>2. /\ dangling' = 0 /\ active' = Activated /\ ever' = Activated /\ stale' = stale \cup Moved /\ before' = NoGraph
        /\ ranked' = ranked /\ round' = round /\ loose' = loose
    BY <1>8 DEF StartRounds
  <2>3. NoGraph \in [arcs : SUBSET Arc, count : 0 .. MaxVertices]
    BY <1>0 DEF NoGraph
  <2>. QED  BY <1>0, <2>1, <2>2, <2>3, LimitType, ActivatedPresent DEF RanksSound, RanksTypeOK
<1>9. CASE Round
  <2>1. PICK moved \in SUBSET active :
          \/ Solve
          \/ /\ active' = UNION {Neighbors(v) : v \in moved}
             /\ ever' = ever \cup UNION {Neighbors(v) : v \in moved}
             /\ round' = round + 1
             /\ stale' = (stale \ active) \cup UNION {Neighbors(v) : v \in moved}
             /\ UNCHANGED <<graph, call, phase, ranked, dangling, limit, before, loose>>
    BY <1>9 DEF Round
  <2>2. UNION {Neighbors(v) : v \in moved} \subseteq Vertex
    BY DEF Neighbors
  <2>3. round < Rounds
    BY <1>9 DEF Round
  <2>4. CASE ~Solve
    <3>1. /\ active' \subseteq ever' /\ ever' \subseteq Vertex /\ stale' \subseteq Vertex /\ round' = round + 1
          /\ UNCHANGED <<ranked, dangling, limit, before, loose>>
      BY <1>0, <2>1, <2>2, <2>4
    <3>2. round' \in 0 .. Rounds
      BY <1>0, <2>3, <3>1
    <3>. QED  BY <1>0, <3>1, <3>2 DEF RanksSound, RanksTypeOK
  <2>. QED  BY <1>4, <2>4
<1>10. CASE EndRounds
  <2>1. /\ active' = {} /\ ever' = {} /\ round' = 0 /\ limit' = 0 /\ loose' = loose \cup active
        /\ ranked' = ranked /\ dangling' = dangling /\ before' = before /\ stale' = stale
    BY <1>10 DEF EndRounds, LeaveRanks
  <2>2. loose' \subseteq Vertex
    BY <1>0, <2>1
  <2>. QED  BY <1>0, <2>1, <2>2 DEF RanksSound, RanksTypeOK
<1>. QED  BY <1>2, <1>3, <1>5, <1>6, <1>7, <1>8, <1>9, <1>10, StepCases DEF RanksStep

(* Everything that StructuresSound asks for. *)
AllSound == ForestInv /\ CoresSound /\ WeightsSound /\ PathsSound /\ CountSound /\ RanksSound

LEMMA InitSound == Init => AllSound
<1>. SUFFICES ASSUME Init PROVE AllSound
  OBVIOUS
<1>1. /\ phase = "idle" /\ weight = [a \in Arc |-> 1] /\ triangles = 0 /\ restart = FALSE
  BY DEF Init, InitTriangles
<1>2. PathsSound
  <2>1. far = [v \in Vertex |-> IF v = Source /\ Source < vertexCount THEN 0 ELSE Infinity] /\ queue = {}
    BY DEF Init, InitPaths
  <2>2. 0 \in 0 .. Infinity /\ Infinity \in 0 .. Infinity
    BY MaintainedConstants
  <2>3. far \in Distances /\ queue \in Queues
    BY <2>1, <2>2 DEF Distances, Queues
  <2>. QED  BY <1>1, <2>3 DEF PathsSound
<1>3. RanksSound
  <2>1. /\ ranked = vertexCount /\ dangling = vertexCount /\ active = {} /\ ever = {} /\ round = 0 /\ limit = 0
        /\ before = NoGraph /\ stale = {} /\ loose = {}
    BY DEF Init, InitRanks
  <2>2. vertexCount \in 0 .. MaxVertices /\ MaxVertices \in Nat /\ Rounds \in Nat
    BY InitBase, MaintainedConstants, RankConstants DEF Base
  <2>3. NoGraph \in [arcs : SUBSET Arc, count : 0 .. MaxVertices]
    BY <2>2 DEF NoGraph
  <2>. QED  BY <2>1, <2>2, <2>3 DEF RanksSound, RanksTypeOK
<1>4. WeightsSound
  BY <1>1, UnitWeight DEF WeightsSound
<1>. QED  BY <1>1, <1>2, <1>3, <1>4, InitForest, InitCoresSound DEF AllSound, CountSound

LEMMA SoundStructures ==
  ASSUME Base, AllSound
  PROVE  StructuresSound
<1>1. GraphTypeOK
  BY DEF Base, AllSound, WeightsSound, GraphTypeOK
<1>2. ComponentsTypeOK /\ ForestRanked
  BY DEF AllSound, ForestInv, Forest, ComponentsTypeOK, ForestRanked
<1>3. CoresTypeOK /\ PathsTypeOK /\ RanksTypeOK /\ triangles \in Nat /\ restart \in BOOLEAN
  BY DEF AllSound, CoresSound, PathsSound, Distances, Queues, PathsTypeOK, RanksSound, CountSound
<1>4. attached \in Attachments /\ todo \subseteq attached
      /\ phase \in {"idle", "components", "rebuild", "triangles", "cores", "peel", "paths", "relax", "weighted",
               "reweigh", "propagate", "ranks", "rounds"}
  BY DEF Base, Before, After
<1>. QED  BY <1>1, <1>2, <1>3, <1>4 DEF StructuresSound, TypeOK

(* Whatever is attached: the state has its types, also where the source    *)
(* computes unsigned differences (the triangle count, the degrees of the   *)
(* peeling), no weight reaches kDijkstraInf, what is left of a region is   *)
(* part of it, and the ranks of the union-find forest grow to the roots,   *)
(* which is why find() ends.                                               *)
THEOREM StructuresStaySound == Spec => []StructuresSound
<1>1. Init => Base /\ InGraph /\ PathsInv /\ AllSound
  BY InitBase, InitInGraph, InitPathsInv, InitSound
<1>2. Base /\ InGraph /\ PathsInv /\ AllSound /\ [Next]_vars => (Base /\ InGraph /\ PathsInv /\ AllSound)'
  <2>1. Base /\ AllSound /\ [Next]_vars => ForestInv' /\ CoresSound' /\ CountSound' /\ RanksSound'
    BY StepForest, StepCoresSound, StepCount, StepRanksSound DEF AllSound
  <2>2. Base /\ Base' /\ AllSound /\ [Next]_vars => WeightsSound'
    BY StepWeights DEF AllSound
  <2>3. Base /\ InGraph /\ PathsInv /\ AllSound /\ [Next]_vars => PathsSound'
    BY StepPathsSound DEF AllSound
  <2>. QED  BY <2>1, <2>2, <2>3, StepBase, StepInGraph, StepPaths DEF AllSound
<1>3. Base /\ InGraph /\ PathsInv /\ AllSound => StructuresSound
  BY SoundStructures
<1>. QED  BY <1>1, <1>2, <1>3, PTL DEF Spec
=============================================================================
