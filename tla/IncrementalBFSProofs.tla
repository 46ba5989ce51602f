------------------------- MODULE IncrementalBFSProofs -------------------------
(***************************************************************************)
(* Proofs about IncrementalBFS for every number of vertices, every source, *)
(* every fallback fraction and every set of batches.                       *)
(*                                                                         *)
(* IInv says, phase by phase, what apply() and recompute() still owe.  The *)
(* marking counts, for a vertex not marked yet, exactly the shortest       *)
(* parents it has lost so far (Marking); the updates break the triangle    *)
(* inequality only over arcs they added last, and leave each survivor a    *)
(* parent (Updating); a repair owes the arcs out of the heap (Repairing),  *)
(* the rest owes those out of the queue and those of the additions not     *)
(* relaxed yet (Pending); a full BFS owes the arcs out of one level        *)
(* (Spreading).  Throughout, no distance is too small (NeverTooSmall), so  *)
(* that when nothing is owed the distances are exact.                      *)
(*                                                                         *)
(* All of this reads marks and counts that earlier calls may have left.    *)
(* Listed says that the two lists name every vertex that has any, so that  *)
(* resetting the listed ones resets all, and that a count made during the  *)
(* marking is still that of the graph when it is read again.               *)
(***************************************************************************)
EXTENDS IncrementalBFS, FiniteSetTheorems, FunctionTheorems, SequenceTheorems,
        WellFoundedInduction, TLAPS

(* No edge shortens the distance of its head. *)
Triangle(p, q) == Reached(p) => dist[q] <= dist[p] + 1

(* Exact, but for the distance of the source. *)
Settled ==
  /\ \A p, q \in Vertex : <<p, q>> \in edges => Triangle(p, q)
  /\ \A v \in Vertex \ {Source} :
       Reached(v) => \E p \in Vertex : <<p, v>> \in edges /\ dist[p] + 1 = dist[v]

(* The shortest parents of v that no longer support it. *)
LostParents(v) == {p \in ShortestParents(v) : <<p, v>> \in dropped \/ p \in affected \ work}

Marking ==
  \A v \in Vertex \ (affected \cup {Source}) :
    /\ lost[v] = Cardinality(LostParents(v))
    /\ Reached(v) => lost[v] < Cardinality(ShortestParents(v))

(* Update i is the last of the first n to write arc a. *)
Decides(i, a, n) ==
  /\ i \in 1 .. n /\ a \in ArcsOf(directed, batch[i])
  /\ \A k \in 1 .. n : i < k => a \notin ArcsOf(directed, batch[k])

LastAdds(a, n) == \E i \in 1 .. n : Decides(i, a, n) /\ batch[i].add

Drops(b) == UNION {ArcsOf(directed, op) : op \in {o \in LastWrites(directed, b) : ~o.add}}

Derived ==
  /\ dropped = Drops(batch)
  /\ added = {op \in LastWrites(directed, batch) : op.add}

(* A parent of v the batch leaves it: its arc is there, or is to come. *)
Survives(p, v) ==
  /\ p \notin affected /\ ShortestParent(p, v) /\ <<p, v>> \notin dropped
  /\ \/ <<p, v>> \in edges
     \/ \E j \in next .. Len(batch) : <<p, v>> \in ArcsOf(directed, batch[j])

Updating ==
  /\ \A p, q \in Vertex : <<p, q>> \in edges => Triangle(p, q) \/ LastAdds(<<p, q>>, next - 1)
  /\ \A p, q \in Vertex : LastAdds(<<p, q>>, next - 1) => <<p, q>> \in edges
  /\ ~usedFull => \A v \in Vertex \ (affected \cup {Source}) :
                    Reached(v) => \E p \in Vertex : Survives(p, v)

(* An arc whose relaxation is still to come. *)
Awaited(p, q) == \E op \in added : <<p, q>> \in ArcsOf(directed, op)

AddedPresent == \A p, q \in Vertex : Awaited(p, q) => <<p, q>> \in edges

Repairing ==
  \A p, q \in Vertex : <<p, q>> \in edges =>
    \/ Awaited(p, q)
    \/ p \notin affected /\ Triangle(p, q)
    \/ p \in affected /\ q \notin affected /\ dist[q] <= old[p] + 1
    \/ p \in affected /\ q \in affected /\ (Triangle(p, q) \/ <<dist[p], p>> \in heap)

HeapOfAffected == \A item \in heap : item[2] \in affected

Pending ==
  \A p, q \in Vertex : <<p, q>> \in edges => Triangle(p, q) \/ p \in work \/ Awaited(p, q)

ReachedSet == {v \in Vertex : Reached(v)}

Spreading ==
  /\ \A u \in work : Reached(u) /\ dist[u] + 1 <= Cardinality(ReachedSet)
  /\ \A u \in work, v \in Vertex : Reached(v) => dist[v] <= dist[u]
  /\ \A p, q \in Vertex : <<p, q>> \in edges => Triangle(p, q) \/ p \in work

(* The workspace outside the phases that use it. *)
Stowed ==
  /\ phase \in {"idle", "recompute"} =>
       affected = {} /\ lost = NoLoss /\ added = {} /\ dropped = {} /\ batch = <<>>
  /\ phase \in {"idle", "recompute", "invalidate"} => next = 1
  /\ phase # "repair" => heap = {} /\ old = NoOld
  /\ phase \in {"idle", "update", "repair"} => work = {}
  /\ phase = "invalidate" => work \subseteq affected
  /\ Source \notin affected

Owing ==
  /\ TypeOK /\ next \in 1 .. Len(batch) + 1
  /\ Stowed
  /\ phase # "recompute" => reached = Cardinality(ReachedSet)
  /\ phase = "recompute" => reached = 0 /\ Spreading
  /\ phase = "idle" => Settled
  /\ phase = "invalidate" => Settled /\ Derived /\ Marking
  /\ phase = "update" => Derived /\ Updating
  /\ phase \in {"repair", "settle", "relax"} => AddedPresent
  /\ phase = "repair" => Repairing /\ HeapOfAffected
  /\ phase \in {"settle", "relax"} => Pending
  /\ NeverTooSmall

(* The cached counts are those of the graph that is being marked. *)
Counting == \A v \in Vertex : parents[v] \in {0, Cardinality(ShortestParents(v))}

(* What clear_workspace is to reset is on the lists it goes through. *)
Listed ==
  /\ phase \notin {"idle", "recompute"} => marked = affected
  /\ touched = {v \in Vertex : lost[v] # 0}
  /\ \A v \in Vertex : parents[v] # 0 => v \in touched
  /\ phase = "invalidate" => Counting

IInv == Owing /\ Listed

(* The graph has the source, whose distance is 0. *)
Anchored == Source \in Vertex /\ Source < vertexCount /\ dist[Source] = 0

(* The graph the analytic is built on has the source. *)
SourceFromStart == \A n \in InitialCounts : Source < n

-----------------------------------------------------------------------------
(* The vertices are finitely many, and so are the arcs' ends. *)
LEMMA VertexSets ==
  ASSUME NEW S \in SUBSET Vertex
  PROVE  IsFiniteSet(S) /\ Cardinality(S) \in 0 .. MaxVertices
<1>1. MaxVertices \in Nat
  BY BFSConstants
<1>2. IsFiniteSet(Vertex) /\ Cardinality(Vertex) = MaxVertices
  <2>1. 0 \in Int /\ MaxVertices - 1 \in Int
    BY <1>1
  <2>2. IsFiniteSet(0 .. MaxVertices - 1)
    BY <2>1, FS_Interval
  <2>3. Cardinality(0 .. MaxVertices - 1) =
          IF 0 > MaxVertices - 1 THEN 0 ELSE (MaxVertices - 1) - 0 + 1
    BY <2>1, FS_Interval
  <2>4. Cardinality(0 .. MaxVertices - 1) = MaxVertices
    BY <1>1, <2>3
  <2>. QED  BY <2>2, <2>4 DEF Vertex
<1>3. IsFiniteSet(S) /\ Cardinality(S) <= Cardinality(Vertex)
  BY <1>2, FS_Subset
<1>4. Cardinality(S) \in Nat
  BY <1>3, FS_CardinalityType
<1>. QED  BY <1>1, <1>2, <1>3, <1>4

(* Sets that are disjoint, and what adding one vertex does. *)
LEMMA DisjointSizes ==
  ASSUME NEW S \in SUBSET Vertex, NEW T \in SUBSET Vertex, S \cap T = {}
  PROVE  Cardinality(S \cup T) = Cardinality(S) + Cardinality(T)
<1>1. IsFiniteSet(S) /\ IsFiniteSet(T)
  BY VertexSets
<1>2. Cardinality(S \cup T) = Cardinality(S) + Cardinality(T) - Cardinality(S \cap T)
  BY <1>1, FS_Union
<1>3. Cardinality(S \cap T) = 0
  BY FS_EmptySet
<1>4. Cardinality(S) \in Nat /\ Cardinality(T) \in Nat
  BY <1>1, FS_CardinalityType
<1>. QED  BY <1>2, <1>3, <1>4

(* A proper subset is smaller. *)
LEMMA ProperSizes ==
  ASSUME NEW T \in SUBSET Vertex, NEW S \in SUBSET T
  PROVE  /\ Cardinality(S) <= Cardinality(T)
         /\ Cardinality(S) = Cardinality(T) => S = T
<1>1. IsFiniteSet(T)
  BY VertexSets
<1>. QED  BY <1>1, FS_Subset

-----------------------------------------------------------------------------
(* One key is one set of arcs: two updates write an arc in common only if  *)
(* they are updates of the same edge, and then they write the same arcs.   *)
LEMMA SameEdge ==
  ASSUME NEW dir \in BOOLEAN, NEW o \in Op, NEW p \in Op,
         NEW a \in ArcsOf(dir, o)
  PROVE  a \in ArcsOf(dir, p) <=> Key(dir, p) = Key(dir, o)
<1>1. o.src # o.dst
  BY DEF ArcsOf
<1>2. CASE dir
  <2>1. a = <<o.src, o.dst>>
    BY <1>1, <1>2 DEF ArcsOf
  <2>2. a \in ArcsOf(dir, p) <=> a = <<p.src, p.dst>>
    BY <1>1, <1>2, <2>1 DEF ArcsOf
  <2>. QED  BY <1>2, <2>1, <2>2 DEF Key
<1>3. CASE ~dir
  <2>1. a = <<o.src, o.dst>> \/ a = <<o.dst, o.src>>
    BY <1>1, <1>3 DEF ArcsOf
  <2>2. a \in ArcsOf(dir, p) <=> a = <<p.src, p.dst>> \/ a = <<p.dst, p.src>>
    BY <1>1, <1>3, <2>1 DEF ArcsOf
  <2>3. Key(dir, p) = Key(dir, o) <=> {p.src, p.dst} = {o.src, o.dst}
    BY <1>3 DEF Key
  <2>4. {p.src, p.dst} = {o.src, o.dst}
          <=> \/ p.src = o.src /\ p.dst = o.dst
              \/ p.src = o.dst /\ p.dst = o.src
    OBVIOUS
  <2>. QED  BY <1>1, <2>1, <2>2, <2>3, <2>4
<1>. QED  BY <1>2, <1>3

(* The arcs an update writes are arcs of the graph. *)
LEMMA ArcsTyped ==
  ASSUME NEW dir \in BOOLEAN, NEW o \in Op
  PROVE  ArcsOf(dir, o) \subseteq Arc
BY DEF ArcsOf, Arc, Op

(* The vertices an update names are counted afterwards. *)
LEMMA CountTyped ==
  ASSUME NEW n \in 0 .. MaxVertices, NEW o \in Op
  PROVE  CountAfter(n, o) \in 0 .. MaxVertices /\ n <= CountAfter(n, o)
<1>. DEFINE C == {n, o.src + 1, o.dst + 1}
            Good(m) == n <= m /\ o.src < m /\ o.dst < m
<1>1. MaxVertices \in Nat /\ o.src \in Vertex /\ o.dst \in Vertex
  BY BFSConstants DEF Op
<1>2. C \subseteq 0 .. MaxVertices
  BY <1>1 DEF Vertex
<1>3. \E m \in C : Good(m)
  <2>1. n \in Int /\ o.src \in Int /\ o.dst \in Int
    BY <1>1 DEF Vertex
  <2>2. CASE n <= o.src + 1 /\ o.dst <= o.src
    <3>1. Good(o.src + 1)
      BY <2>1, <2>2
    <3>. QED  BY <3>1
  <2>3. CASE n <= o.dst + 1 /\ o.src <= o.dst
    <3>1. Good(o.dst + 1)
      BY <2>1, <2>3
    <3>. QED  BY <3>1
  <2>4. CASE o.src < n /\ o.dst < n
    <3>1. Good(n)
      BY <2>1, <2>4
    <3>. QED  BY <3>1
  <2>. QED  BY <2>1, <2>2, <2>3, <2>4
<1>4. (CHOOSE m \in C : Good(m)) \in C /\ Good(CHOOSE m \in C : Good(m))
  <2>. HIDE DEF C, Good
  <2>. QED  BY <1>3
<1>5. CountAfter(n, o) = IF o.src = o.dst THEN n ELSE CHOOSE m \in C : Good(m)
  BY DEF CountAfter
<1>6. n <= n
  OBVIOUS
<1>. QED  BY <1>2, <1>4, <1>5, <1>6

-----------------------------------------------------------------------------
(* The updates no later one overrides are those that decide their arcs.    *)
LEMMA LastDecide ==
  ASSUME batch \in Seq(Op), directed \in BOOLEAN
  PROVE  /\ \A a : \A i \in 1 .. Len(batch) :
              Decides(i, a, Len(batch)) => batch[i] \in LastWrites(directed, batch)
         /\ \A op \in LastWrites(directed, batch) : \A a \in ArcsOf(directed, op) :
              \E i \in 1 .. Len(batch) : op = batch[i] /\ Decides(i, a, Len(batch))
<1>1. DOMAIN batch = 1 .. Len(batch) /\ \A i \in 1 .. Len(batch) : batch[i] \in Op
  OBVIOUS
<1>2. ASSUME NEW a, NEW i \in 1 .. Len(batch), Decides(i, a, Len(batch))
      PROVE  batch[i] \in LastWrites(directed, batch)
  <2>1. ASSUME NEW k \in DOMAIN batch, i < k
        PROVE  Key(directed, batch[k]) # Key(directed, batch[i])
    <3>1. a \in ArcsOf(directed, batch[i]) /\ a \notin ArcsOf(directed, batch[k])
      BY <1>1, <1>2, <2>1 DEF Decides
    <3>2. batch[i] \in Op /\ batch[k] \in Op
      BY <1>1, <2>1
    <3>. QED  BY <3>1, <3>2, SameEdge
  <2>. QED  BY <1>1, <2>1 DEF LastWrites
<1>3. ASSUME NEW op \in LastWrites(directed, batch), NEW a \in ArcsOf(directed, op)
      PROVE  \E i \in 1 .. Len(batch) : op = batch[i] /\ Decides(i, a, Len(batch))
  <2>1. PICK i \in 1 .. Len(batch) :
               /\ op = batch[i]
               /\ \A k \in 1 .. Len(batch) : i < k => Key(directed, batch[k]) # Key(directed, batch[i])
    BY <1>1 DEF LastWrites
  <2>2. ASSUME NEW k \in 1 .. Len(batch), i < k PROVE a \notin ArcsOf(directed, batch[k])
    <3>1. Key(directed, batch[k]) # Key(directed, batch[i]) /\ batch[i] \in Op /\ batch[k] \in Op
      BY <1>1, <2>1, <2>2
    <3>2. a \in ArcsOf(directed, batch[i])
      BY <2>1
    <3>. QED  BY <3>1, <3>2, SameEdge
  <2>. QED  BY <2>1, <2>2 DEF Decides
<1>. QED  BY <1>2, <1>3

(* The next update decides its arcs, and leaves the others as decided.     *)
LEMMA NextDecides ==
  ASSUME NEW n \in Nat, NEW a
  PROVE  LastAdds(a, n + 1) <=> IF a \in ArcsOf(directed, batch[n + 1])
                                THEN batch[n + 1].add ELSE LastAdds(a, n)
<1>1. CASE a \in ArcsOf(directed, batch[n + 1])
  <2>1. Decides(n + 1, a, n + 1)
    BY <1>1 DEF Decides
  <2>2. \A i \in 1 .. n + 1 : Decides(i, a, n + 1) => i = n + 1
    BY <1>1 DEF Decides
  <2>. QED  BY <1>1, <2>1, <2>2 DEF LastAdds
<1>2. CASE a \notin ArcsOf(directed, batch[n + 1])
  <2>1. ASSUME NEW i \in 1 .. n PROVE Decides(i, a, n) <=> Decides(i, a, n + 1)
    <3>1. i \in 1 .. n + 1 /\ \A k \in 1 .. n + 1 : k = n + 1 \/ k \in 1 .. n
      OBVIOUS
    <3>. QED  BY <1>2, <3>1 DEF Decides
  <2>2. ~Decides(n + 1, a, n + 1)
    BY <1>2 DEF Decides
  <2>. QED  BY <1>2, <2>1, <2>2 DEF LastAdds
<1>. QED  BY <1>1, <1>2

(* An update of the graph writes its own arcs only. *)
LEMMA WriteOf ==
  ASSUME NEW dir, NEW E, NEW op, NEW a
  PROVE  a \in AfterOp(dir, E, op) <=> IF a \in ArcsOf(dir, op) THEN op.add ELSE a \in E
BY DEF AfterOp

(* Nothing was dropped from an arc its last update adds. *)
LEMMA DropsOverridden ==
  ASSUME batch \in Seq(Op), directed \in BOOLEAN, dropped = Drops(batch),
         NEW n \in 1 .. Len(batch), NEW a \in ArcsOf(directed, batch[n]),
         a \notin dropped, ~batch[n].add
  PROVE  \E j \in n + 1 .. Len(batch) : a \in ArcsOf(directed, batch[j])
<1>1. batch[n] \notin LastWrites(directed, batch)
  BY DEF Drops
<1>2. ~Decides(n, a, Len(batch))
  BY <1>1, LastDecide
<1>3. PICK k \in 1 .. Len(batch) : n < k /\ a \in ArcsOf(directed, batch[k])
  BY <1>2 DEF Decides
<1>. QED  BY <1>3

-----------------------------------------------------------------------------
(* UpdateGraph keeps what the updates owe. *)
LEMMA UpdateKeeps ==
  ASSUME TypeOK, next \in 1 .. Len(batch) + 1, Derived, Updating, UpdateGraph
  PROVE  Updating'
<1>. DEFINE n == next - 1  op == batch[next]
<1>1. /\ batch \in Seq(Op) /\ directed \in BOOLEAN /\ dropped = Drops(batch)
      /\ Len(batch) \in Nat /\ next \in 1 .. Len(batch) /\ n \in Nat /\ n + 1 = next
      /\ next' = next + 1 /\ next' - 1 = n + 1
  BY DEF TypeOK, Derived, UpdateGraph
<1>2. /\ edges' = AfterOp(directed, edges, op) /\ directed' = directed /\ batch' = batch
      /\ dropped' = dropped /\ affected' = affected /\ dist' = dist /\ usedFull' = usedFull
  BY DEF UpdateGraph, graph, result, plan, workspace, marks
<1>3. \A p, q : <<p, q>> \in edges' <=> IF <<p, q>> \in ArcsOf(directed, op) THEN op.add
                                        ELSE <<p, q>> \in edges
  BY <1>2, WriteOf
<1>4. \A p, q : LastAdds(<<p, q>>, n + 1) <=> IF <<p, q>> \in ArcsOf(directed, op) THEN op.add
                                              ELSE LastAdds(<<p, q>>, n)
  BY <1>1, NextDecides
<1>5. ASSUME NEW a PROVE LastAdds(a, next - 1)' <=> LastAdds(a, n + 1)
  BY <1>1, <1>2 DEF LastAdds, Decides
<1>6. ASSUME NEW p \in Vertex, NEW q \in Vertex PROVE Triangle(p, q)' <=> Triangle(p, q)
  BY <1>2 DEF Triangle, Reached
<1>7. ASSUME NEW p \in Vertex, NEW q \in Vertex, <<p, q>> \in edges'
      PROVE  Triangle(p, q)' \/ LastAdds(<<p, q>>, next - 1)'
  BY <1>3, <1>4, <1>5, <1>6, <1>7 DEF Updating
<1>8. ASSUME NEW p \in Vertex, NEW q \in Vertex, LastAdds(<<p, q>>, next - 1)'
      PROVE  <<p, q>> \in edges'
  BY <1>3, <1>4, <1>5, <1>8 DEF Updating
<1>9. ASSUME NEW v \in Vertex, NEW p \in Vertex, Survives(p, v) PROVE Survives(p, v)'
  <2>1. p \notin affected' /\ ShortestParent(p, v)' /\ <<p, v>> \notin dropped'
    BY <1>2, <1>9 DEF Survives, ShortestParent, Reached
  <2>2. CASE \E j \in next + 1 .. Len(batch) : <<p, v>> \in ArcsOf(directed, batch[j])
    BY <1>1, <1>2, <2>1, <2>2 DEF Survives
  <2>3. CASE <<p, v>> \in ArcsOf(directed, op) /\ op.add
    BY <1>3, <2>1, <2>3 DEF Survives
  <2>4. CASE <<p, v>> \in ArcsOf(directed, op) /\ ~op.add
    <3>1. <<p, v>> \notin dropped
      BY <1>9 DEF Survives
    <3>2. \E j \in next + 1 .. Len(batch) : <<p, v>> \in ArcsOf(directed, batch[j])
      BY <1>1, <2>4, <3>1, DropsOverridden
    <3>. QED  BY <2>2, <3>2
  <2>5. CASE <<p, v>> \notin ArcsOf(directed, op) /\ <<p, v>> \in edges
    BY <1>3, <2>1, <2>5 DEF Survives
  <2>6. CASE <<p, v>> \notin ArcsOf(directed, op) /\ <<p, v>> \notin edges
    <3>1. PICK j \in next .. Len(batch) : <<p, v>> \in ArcsOf(directed, batch[j])
      BY <1>9, <2>6 DEF Survives
    <3>2. j # next
      BY <2>6, <3>1
    <3>3. j \in next + 1 .. Len(batch)
      BY <1>1, <3>2
    <3>. QED  BY <2>2, <3>1, <3>3
  <2>. QED  BY <2>3, <2>4, <2>5, <2>6
<1>10. ASSUME ~usedFull', NEW v \in Vertex \ (affected' \cup {Source}), Reached(v)'
       PROVE  \E p \in Vertex : Survives(p, v)'
  <2>1. ~usedFull /\ v \in Vertex \ (affected \cup {Source}) /\ Reached(v)
    BY <1>2, <1>10 DEF Reached
  <2>2. PICK p \in Vertex : Survives(p, v)
    BY <2>1 DEF Updating
  <2>. QED  BY <1>9, <2>2
<1>. QED  BY <1>7, <1>8, <1>10 DEF Updating

-----------------------------------------------------------------------------
(* While the cached counts are current, support is the number of shortest  *)
(* parents, of which an exposed vertex has one.                            *)
LEMMA SupportCounted ==
  ASSUME Counting, NEW E \in SUBSET edges, NEW v \in Vertex
  PROVE  /\ Support(v) = Cardinality(ShortestParents(v)) /\ Support(v) \in Nat
         /\ v \in Exposed(E) => Support(v) # 0
<1>1. Support(v) = Cardinality(ShortestParents(v))
  BY DEF Support, Counting
<1>2. ShortestParents(v) \in SUBSET Vertex
  BY DEF ShortestParents
<1>3. IsFiniteSet(ShortestParents(v)) /\ Cardinality(ShortestParents(v)) \in Nat
  BY <1>2, VertexSets
<1>4. ASSUME v \in Exposed(E) PROVE Support(v) # 0
  <2>1. ShortestParents(v) # {}
    BY <1>4 DEF Exposed, Hits, ShortestParents
  <2>. QED  BY <1>1, <1>3, <2>1, FS_EmptySet
<1>. QED  BY <1>1, <1>3, <1>4

(* A round of losses counts the hits of each exposed vertex and marks      *)
(* those whose count reached the number of their shortest parents.         *)
Round(E, rest, listed) ==
  /\ lost' \in [Vertex -> Nat]
  /\ \A v \in Vertex \ (affected \cup {Source}) :
       lost'[v] = lost[v] + Cardinality(Hits(E, v))
  /\ \E O \in SUBSET (Vertex \ (affected \cup {Source})) :
       /\ affected' = affected \cup O /\ work' = rest \cup O /\ marked' = listed \cup O
       /\ \A v \in Vertex \ (affected \cup {Source}) :
            v \in O <=> Hits(E, v) # {} /\ lost'[v] >= Cardinality(ShortestParents(v))

LEMMA LossesRecorded ==
  ASSUME TypeOK, Counting, NEW E \in SUBSET edges,
         NEW rest, NEW listed, NEW counted, RecordLosses(E, rest, listed, counted)
  PROVE  Round(E, rest, listed)
<1>. DEFINE add(v)   == IF v \in Exposed(E) THEN Cardinality(Hits(E, v)) ELSE 0
            losses   == [v \in Vertex |-> lost[v] + add(v)]
            orphaned == Orphaned(E)
<1>1. \A v \in Vertex : v \in Exposed(E) <=> v \notin affected /\ v # Source /\ Hits(E, v) # {}
  BY DEF Exposed
<1>2. /\ lost' = losses /\ affected' = affected \cup orphaned /\ work' = rest \cup orphaned
      /\ marked' = listed \cup orphaned
  BY DEF RecordLosses, Losses
<1>3. \A v \in Vertex : Cardinality(Hits(E, v)) \in Nat
  <2>1. \A v \in Vertex : Hits(E, v) \in SUBSET Vertex
    BY DEF Hits
  <2>. QED  BY <2>1, VertexSets
<1>4. \A v \in Vertex : lost[v] \in Nat
  BY DEF TypeOK
<1>5. lost' \in [Vertex -> Nat]
  <2>1. \A v \in Vertex : add(v) \in Nat
    BY <1>3
  <2>2. \A v \in Vertex : lost[v] + add(v) \in Nat
    <3>. HIDE DEF add
    <3>. QED  BY <1>4, <2>1
  <2>. QED  BY <1>2, <2>2
<1>6. ASSUME NEW v \in Vertex \ (affected \cup {Source})
      PROVE  lost'[v] = lost[v] + Cardinality(Hits(E, v))
  <2>1. lost'[v] = lost[v] + add(v)
    BY <1>2
  <2>2. add(v) = Cardinality(Hits(E, v))
    <3>1. CASE Hits(E, v) = {}
      <4>1. Cardinality(Hits(E, v)) = 0
        BY <3>1, FS_EmptySet
      <4>. QED  BY <3>1, <4>1
    <3>2. CASE Hits(E, v) # {}
      BY <1>1, <3>2
    <3>. QED  BY <3>1, <3>2
  <2>. QED  BY <2>1, <2>2
<1>7. orphaned \in SUBSET (Vertex \ (affected \cup {Source}))
  BY DEF Orphaned, Exposed
<1>8. \A v \in Vertex \ (affected \cup {Source}) :
        v \in orphaned <=> Hits(E, v) # {} /\ lost'[v] >= Cardinality(ShortestParents(v))
  <2>1. ASSUME NEW v \in Vertex \ (affected \cup {Source})
        PROVE  v \in orphaned <=> Hits(E, v) # {} /\ lost'[v] >= Cardinality(ShortestParents(v))
    <3>1. Losses(E, v) = lost'[v]
      BY DEF RecordLosses
    <3>2. /\ Support(v) = Cardinality(ShortestParents(v))
          /\ v \in Exposed(E) => Support(v) # 0
      BY SupportCounted
    <3>3. v \in Exposed(E) <=> Hits(E, v) # {}
      BY <1>1
    <3>. QED  BY <3>1, <3>2, <3>3 DEF Orphaned
  <2>. QED  BY <2>1
<1>. QED
  <2>. HIDE DEF orphaned, losses
  <2>. QED  BY <1>2, <1>5, <1>6, <1>7, <1>8 DEF Round

(* It keeps the cached counts current, caches them for vertices it counted *)
(* a loss for only, and lists these.                                       *)
RoundListed(counted) ==
  /\ parents' \in [Vertex -> Nat]
  /\ \A v \in Vertex : parents'[v] \in {0, Cardinality(ShortestParents(v))}
  /\ \A v \in Vertex : parents'[v] # 0 => parents[v] # 0 \/ lost'[v] # 0
  /\ touched' \subseteq counted \cup Vertex
  /\ counted = {v \in Vertex : lost[v] # 0} => touched' = {v \in Vertex : lost'[v] # 0}

LEMMA LossesListed ==
  ASSUME TypeOK, Counting, NEW E \in SUBSET edges,
         NEW rest, NEW listed, NEW counted, RecordLosses(E, rest, listed, counted)
  PROVE  RoundListed(counted)
<1>1. ASSUME NEW v \in Vertex
      PROVE  /\ parents'[v] = IF v \in Exposed(E) THEN Support(v) ELSE parents[v]
             /\ lost'[v] # 0 <=> lost[v] # 0 \/ v \in Exposed(E)
  <2>1. lost'[v] = lost[v] + IF v \in Exposed(E) THEN Cardinality(Hits(E, v)) ELSE 0
    BY DEF RecordLosses, Losses
  <2>2. lost[v] \in Nat
    BY DEF TypeOK
  <2>3. Hits(E, v) \in SUBSET Vertex
    BY DEF Hits
  <2>4. IsFiniteSet(Hits(E, v)) /\ Cardinality(Hits(E, v)) \in Nat
    BY <2>3, VertexSets
  <2>5. v \in Exposed(E) => Cardinality(Hits(E, v)) # 0
    BY <2>4, FS_EmptySet DEF Exposed
  <2>6. lost'[v] # 0 <=> lost[v] # 0 \/ v \in Exposed(E)
    BY <2>1, <2>2, <2>4, <2>5
  <2>. QED  BY <2>6 DEF RecordLosses
<1>2. ASSUME NEW v \in Vertex PROVE parents[v] \in Nat /\ Support(v) \in Nat
  BY SupportCounted DEF TypeOK
<1>3. parents' = [v \in Vertex |-> IF v \in Exposed(E) THEN Support(v) ELSE parents[v]]
  BY DEF RecordLosses
<1>4. parents' \in [Vertex -> Nat]
  BY <1>2, <1>3
<1>5. ASSUME NEW v \in Vertex PROVE parents'[v] \in {0, Cardinality(ShortestParents(v))}
  BY <1>1, SupportCounted DEF Counting
<1>6. touched' = counted \cup {v \in Exposed(E) : lost[v] = 0} /\ Exposed(E) \subseteq Vertex
  BY DEF RecordLosses, Exposed
<1>7. ASSUME counted = {v \in Vertex : lost[v] # 0} PROVE touched' = {v \in Vertex : lost'[v] # 0}
  BY <1>1, <1>6, <1>7
<1>. QED  BY <1>1, <1>4, <1>5, <1>6, <1>7 DEF RoundListed

(* Where the distances are settled, every reached vertex but the source    *)
(* has a shortest parent.                                                  *)
LEMMA SettledParents ==
  ASSUME TypeOK, Settled, NEW v \in Vertex \ {Source}, Reached(v)
  PROVE  ShortestParents(v) # {}
<1>1. PICK p \in Vertex : <<p, v>> \in edges /\ dist[p] + 1 = dist[v]
  BY DEF Settled
<1>2. dist[p] \in 0 .. Unreachable /\ dist[v] \in 0 .. Unreachable /\ Unreachable \in Nat
  BY BFSConstants DEF TypeOK
<1>3. Reached(p)
  BY <1>1, <1>2 DEF Reached
<1>. QED  BY <1>1, <1>3 DEF ShortestParents, ShortestParent

(* Begin counts the shortest parents the batch itself takes. *)
LEMMA BeginMarks ==
  ASSUME TypeOK, Settled, Counting, affected = {}, lost = NoLoss, NEW b \in Batches, Begin(b)
  PROVE  Marking'
<1>. DEFINE drops == Drops(b)  E == drops \cap edges
<1>1. /\ dropped' = drops /\ RecordLosses(E, {}, {}, {}) /\ E \in SUBSET edges
      /\ edges' = edges /\ dist' = dist
  BY DEF Begin, Drops, graph, result
<1>2. Round(E, {}, {})
  <2>. HIDE DEF E
  <2>. QED  BY <1>1, LossesRecorded
<1>3. PICK O \in SUBSET (Vertex \ {Source}) :
             /\ affected' = O /\ work' = O
             /\ \A v \in Vertex \ {Source} :
                  v \in O <=> Hits(E, v) # {} /\ lost'[v] >= Cardinality(ShortestParents(v))
  <2>. HIDE DEF E
  <2>1. PICK O \in SUBSET (Vertex \ (affected \cup {Source})) :
               /\ affected' = affected \cup O /\ work' = {} \cup O /\ marked' = {} \cup O
               /\ \A v \in Vertex \ (affected \cup {Source}) :
                    v \in O <=> Hits(E, v) # {} /\ lost'[v] >= Cardinality(ShortestParents(v))
    BY <1>2 DEF Round
  <2>2. affected \cup {Source} = {Source} /\ affected \cup O = O /\ {} \cup O = O
    OBVIOUS
  <2>3. O \in SUBSET (Vertex \ {Source}) /\ affected' = O /\ work' = O
    BY <2>1, <2>2
  <2>4. \A v \in Vertex \ {Source} :
          v \in O <=> Hits(E, v) # {} /\ lost'[v] >= Cardinality(ShortestParents(v))
    BY <2>1, <2>2
  <2>. QED  BY <2>3, <2>4
<1>4. \A v \in Vertex \ {Source} : lost'[v] = Cardinality(Hits(E, v))
  <2>. HIDE DEF E
  <2>1. \A v \in Vertex \ {Source} : lost'[v] = 0 + Cardinality(Hits(E, v))
    BY <1>2 DEF NoLoss, Round
  <2>2. \A v \in Vertex : Cardinality(Hits(E, v)) \in Nat
    <3>1. \A v \in Vertex : Hits(E, v) \in SUBSET Vertex
      BY DEF Hits
    <3>. QED  BY <3>1, VertexSets
  <2>. QED  BY <2>1, <2>2
<1>5. ASSUME NEW v \in Vertex PROVE ShortestParents(v)' = ShortestParents(v) /\ (Reached(v)' <=> Reached(v))
  BY <1>1 DEF ShortestParents, ShortestParent, Reached
<1>6. ASSUME NEW v \in Vertex PROVE LostParents(v)' = Hits(E, v)
  <2>1. LostParents(v)' = {p \in ShortestParents(v)' : <<p, v>> \in dropped' \/ p \in affected' \ work'}
    BY DEF LostParents
  <2>2. affected' \ work' = {}
    BY <1>3
  <2>3. {p \in ShortestParents(v) : <<p, v>> \in drops} = Hits(E, v)
    BY DEF Hits, ShortestParents
  <2>. QED  BY <1>1, <1>5, <2>1, <2>2, <2>3
<1>7. ASSUME NEW v \in Vertex \ (affected' \cup {Source})
      PROVE  /\ lost'[v] = Cardinality(LostParents(v)')
             /\ Reached(v)' => lost'[v] < Cardinality(ShortestParents(v)')
  <2>. HIDE DEF E
  <2>1. lost'[v] = Cardinality(LostParents(v)')
    BY <1>4, <1>6, Zenon
  <2>2. ASSUME Reached(v) PROVE lost'[v] < Cardinality(ShortestParents(v))
    <3>1. ShortestParents(v) \in SUBSET Vertex /\ Hits(E, v) \in SUBSET Vertex
      BY DEF ShortestParents, Hits
    <3>2. IsFiniteSet(ShortestParents(v)) /\ Cardinality(ShortestParents(v)) \in Nat
          /\ Cardinality(Hits(E, v)) \in Nat
      BY <3>1, VertexSets
    <3>3. CASE Hits(E, v) # {}
      BY <1>3, <1>4, <3>2, <3>3
    <3>4. CASE Hits(E, v) = {}
      <4>1. lost'[v] = 0
        BY <1>4, <3>4, FS_EmptySet
      <4>2. Cardinality(ShortestParents(v)) # 0
        <5>1. ShortestParents(v) # {}
          BY <2>2, SettledParents
        <5>. QED  BY <3>2, <5>1, FS_EmptySet
      <4>. QED  BY <3>2, <4>1, <4>2
    <3>. QED  BY <3>3, <3>4
  <2>. QED  BY <1>5, <2>1, <2>2
<1>. QED  BY <1>7 DEF Marking

(* Visiting a marked vertex counts it with each child it supported. *)
LEMMA InvalidateMarks ==
  ASSUME TypeOK, Counting, work \subseteq affected, Marking, NEW u \in Vertex, Invalidate(u)
  PROVE  Marking'
<1>. DEFINE E == {<<u, w>> : w \in Vertex} \cap (edges \ dropped)
<1>1. /\ RecordLosses(E, work \ {u}, marked, touched) /\ u \in work /\ E \in SUBSET edges
      /\ edges' = edges /\ dist' = dist /\ dropped' = dropped
  BY DEF Invalidate, graph, result, plan
<1>2. Round(E, work \ {u}, marked)
  <2>. HIDE DEF E
  <2>. QED  BY <1>1, LossesRecorded
<1>3. PICK O \in SUBSET (Vertex \ (affected \cup {Source})) :
             /\ affected' = affected \cup O /\ work' = (work \ {u}) \cup O
             /\ marked' = marked \cup O
             /\ \A v \in Vertex \ (affected \cup {Source}) :
                  v \in O <=> Hits(E, v) # {} /\ lost'[v] >= Cardinality(ShortestParents(v))
  <2>. HIDE DEF E
  <2>. QED  BY <1>2 DEF Round
<1>4. \A v \in Vertex \ (affected \cup {Source}) :
        lost'[v] = lost[v] + Cardinality(Hits(E, v))
  <2>. HIDE DEF E
  <2>. QED  BY <1>2 DEF Round
<1>5. affected' \ work' = (affected \ work) \cup {u}
  BY <1>1, <1>3
<1>6. ASSUME NEW v \in Vertex PROVE ShortestParents(v)' = ShortestParents(v) /\ (Reached(v)' <=> Reached(v))
  BY <1>1 DEF ShortestParents, ShortestParent, Reached
<1>7. ASSUME NEW v \in Vertex
      PROVE  LostParents(v)' = LostParents(v) \cup Hits(E, v) /\ LostParents(v) \cap Hits(E, v) = {}
  <2>1. LostParents(v)' = {p \in ShortestParents(v) : <<p, v>> \in dropped \/ p \in affected' \ work'}
    BY <1>1, <1>6 DEF LostParents
  <2>2. Hits(E, v) = {p \in ShortestParents(v) : p = u /\ <<u, v>> \notin dropped}
    BY DEF Hits, ShortestParents
  <2>3. \A p : p \in affected' \ work' <=> p \in affected \ work \/ p = u
    BY <1>5
  <2>. HIDE DEF E
  <2>4. LostParents(v)' = LostParents(v) \cup Hits(E, v)
    BY <2>1, <2>2, <2>3 DEF LostParents
  <2>5. LostParents(v) \cap Hits(E, v) = {}
    BY <1>1, <2>2 DEF LostParents
  <2>. QED  BY <2>4, <2>5
<1>8. ASSUME NEW v \in Vertex \ (affected' \cup {Source})
      PROVE  /\ lost'[v] = Cardinality(LostParents(v)')
             /\ Reached(v)' => lost'[v] < Cardinality(ShortestParents(v)')
  <2>. HIDE DEF E
  <2>1. v \in Vertex \ (affected \cup {Source}) /\ v \notin O
    BY <1>3, <1>8
  <2>2. /\ LostParents(v) \in SUBSET Vertex /\ Hits(E, v) \in SUBSET Vertex
        /\ ShortestParents(v) \in SUBSET Vertex
    BY DEF LostParents, Hits, ShortestParents
  <2>3. /\ Cardinality(LostParents(v)) \in Nat /\ Cardinality(Hits(E, v)) \in Nat
        /\ Cardinality(ShortestParents(v)) \in Nat
    BY <2>2, VertexSets
  <2>4. lost[v] = Cardinality(LostParents(v))
        /\ (Reached(v) => lost[v] < Cardinality(ShortestParents(v)))
    BY <2>1 DEF Marking
  <2>5. Cardinality(LostParents(v) \cup Hits(E, v)) = Cardinality(LostParents(v)) + Cardinality(Hits(E, v))
    BY <1>7, <2>2, DisjointSizes
  <2>6. lost'[v] = lost[v] + Cardinality(Hits(E, v))
    BY <1>4, <2>1
  <2>7. lost'[v] = Cardinality(LostParents(v)')
    <3>1. lost'[v] = Cardinality(LostParents(v) \cup Hits(E, v))
      BY <2>4, <2>5, <2>6
    <3>. QED  BY <1>7, <3>1, Zenon
  <2>8. ASSUME Reached(v) PROVE lost'[v] < Cardinality(ShortestParents(v))
    <3>1. CASE Hits(E, v) # {}
      <4>1. ~(lost'[v] >= Cardinality(ShortestParents(v)))
        BY <1>3, <2>1, <3>1
      <4>. QED  BY <2>3, <2>4, <2>6, <4>1
    <3>2. CASE Hits(E, v) = {}
      <4>1. Cardinality(Hits(E, v)) = 0
        BY <3>2, FS_EmptySet
      <4>. QED  BY <2>3, <2>4, <2>6, <2>8, <4>1
    <3>. QED  BY <3>1, <3>2
  <2>. QED  BY <1>6, <2>7, <2>8
<1>. QED  BY <1>8 DEF Marking

(* With the queue empty, every reached vertex that is not marked has a     *)
(* shortest parent that is not marked either, over an arc not dropped.     *)
LEMMA MarkedSupported ==
  ASSUME Marking, work = {}, NEW v \in Vertex \ (affected \cup {Source}), Reached(v)
  PROVE  \E p \in ShortestParents(v) : p \notin affected /\ <<p, v>> \notin dropped
<1>1. Cardinality(LostParents(v)) < Cardinality(ShortestParents(v))
  BY DEF Marking
<1>2. LostParents(v) \subseteq ShortestParents(v) /\ ShortestParents(v) \subseteq Vertex
  BY DEF LostParents, ShortestParents
<1>3. LostParents(v) # ShortestParents(v)
  <2>1. Cardinality(ShortestParents(v)) \in Int
    BY <1>2, VertexSets
  <2>2. ~(Cardinality(ShortestParents(v)) < Cardinality(ShortestParents(v)))
    BY <2>1
  <2>. QED  BY <1>1, <2>2, Zenon
<1>4. PICK p \in ShortestParents(v) : p \notin LostParents(v)
  BY <1>2, <1>3
<1>. QED  BY <1>4 DEF LostParents

(* What the marking leaves is what the updates start from. *)
LEMMA EndInvalidateOwes ==
  ASSUME TypeOK, marked = affected, Settled, Marking, next = 1, EndInvalidate
  PROVE  Updating'
<1>1. /\ edges' = edges /\ dist' = dist /\ dropped' = dropped /\ affected' = affected
      /\ next' = 1 /\ batch' = batch /\ directed' = directed
      /\ usedFull' = (Cardinality(affected) > FallbackLimit)
      /\ work = {} \/ Cardinality(affected) > FallbackLimit
  BY DEF EndInvalidate, graph, result, plan, marks
<1>2. \A p, q \in Vertex : <<p, q>> \in edges' => Triangle(p, q)'
  BY <1>1 DEF Settled, Triangle, Reached
<1>3. \A a : ~LastAdds(a, next - 1)'
  BY <1>1 DEF LastAdds
<1>4. ASSUME ~usedFull', NEW v \in Vertex \ (affected' \cup {Source}), Reached(v)'
      PROVE  \E p \in Vertex : Survives(p, v)'
  <2>1. work = {} /\ v \in Vertex \ (affected \cup {Source}) /\ Reached(v)
    BY <1>1, <1>4 DEF Reached
  <2>2. PICK p \in ShortestParents(v) : p \notin affected /\ <<p, v>> \notin dropped
    BY <2>1, MarkedSupported
  <2>3. p \in Vertex /\ <<p, v>> \in edges /\ ShortestParent(p, v)
    BY <2>2 DEF ShortestParents
  <2>4. Survives(p, v)'
    BY <1>1, <2>2, <2>3 DEF Survives, ShortestParent, Reached
  <2>. QED  BY <2>3, <2>4
<1>. QED  BY <1>2, <1>3, <1>4 DEF Updating

-----------------------------------------------------------------------------
(* A non-empty set of natural numbers has a least element. *)
LEMMA LeastOf ==
  ASSUME NEW L \in SUBSET Nat, L # {}
  PROVE  \E m \in L : \A x \in L : m <= x
<1>1. PICK m \in L : \A x \in L : ~(<<x, m>> \in OpToRel(<, Nat))
  BY NatLessThanWellFounded, WFMin, Zenon
<1>2. ASSUME NEW x \in L PROVE m <= x
  <2>1. m \in Nat /\ x \in Nat
    OBVIOUS
  <2>2. ~(x < m)
    BY <1>1, <2>1 DEF OpToRel
  <2>. QED  BY <2>1, <2>2
<1>. QED  BY <1>2

(* The distances are numbers, and unreachable is above every other. *)
LEMMA DistanceType ==
  ASSUME TypeOK
  PROVE  /\ Unreachable \in Nat
         /\ \A v \in Vertex : dist[v] \in Nat /\ dist[v] <= Unreachable
         /\ \A v \in Vertex : Reached(v) <=> dist[v] < Unreachable
<1>1. Unreachable \in Nat
  BY BFSConstants
<1>2. \A v \in Vertex : dist[v] \in 0 .. Unreachable
  BY DEF TypeOK
<1>. QED  BY <1>1, <1>2 DEF Reached

(* The boundary distance is the least an unaffected vertex offers. *)
LEMMA BoundaryLeast ==
  ASSUME TypeOK, NEW v \in Vertex
  PROVE  /\ Boundary(v) \in 0 .. Unreachable
         /\ \A p \in Vertex \ affected :
              <<p, v>> \in edges /\ Reached(p) => Boundary(v) <= dist[p] + 1
         /\ Boundary(v) # Unreachable =>
              \E p \in Vertex \ affected : <<p, v>> \in edges /\ dist[p] + 1 = Boundary(v)
<1>. DEFINE Q == {q \in Vertex \ affected : <<q, v>> \in edges /\ Reached(q)}
            offers == {dist[p] + 1 : p \in Q}
<1>1. Boundary(v) = IF offers = {} THEN Unreachable
                    ELSE CHOOSE d \in offers : \A e \in offers : d <= e
  BY DEF Boundary
<1>2. \A p \in Q : dist[p] + 1 \in Nat /\ dist[p] + 1 <= Unreachable
  BY DistanceType
<1>3. CASE offers = {}
  <2>1. Boundary(v) = Unreachable /\ Q = {}
    BY <1>1, <1>3
  <2>2. Unreachable \in 0 .. Unreachable
    BY BFSConstants
  <2>. HIDE DEF offers
  <2>. QED  BY <2>1, <2>2
<1>4. CASE offers # {}
  <2>1. offers \in SUBSET Nat
    BY <1>2
  <2>2. Boundary(v) \in offers /\ \A e \in offers : Boundary(v) <= e
    <3>. HIDE DEF offers
    <3>1. \E m \in offers : \A x \in offers : m <= x
      BY <1>4, <2>1, LeastOf
    <3>. QED  BY <1>1, <1>4, <3>1
  <2>3. PICK p \in Q : Boundary(v) = dist[p] + 1
    BY <2>2
  <2>4. Boundary(v) \in 0 .. Unreachable
    BY <1>2, <2>3, BFSConstants
  <2>5. \A q \in Q : Boundary(v) <= dist[q] + 1
    BY <2>2
  <2>6. p \in Vertex \ affected /\ <<p, v>> \in edges
    OBVIOUS
  <2>. QED
    <3>. HIDE DEF offers
    <3>. QED  BY <2>3, <2>4, <2>5, <2>6
<1>. QED  BY <1>3, <1>4

(* Once all updates are applied, the arcs the last updates added are those *)
(* of the additions to be relaxed, and they are in the graph.              *)
LEMMA UpdatedOwes ==
  ASSUME TypeOK, Derived, Updating, next = Len(batch) + 1
  PROVE  /\ AddedPresent
         /\ \A p, q \in Vertex : <<p, q>> \in edges => Triangle(p, q) \/ Awaited(p, q)
         /\ ~usedFull => \A v \in Vertex \ (affected \cup {Source}) : Reached(v) =>
              \E p \in Vertex \ affected : <<p, v>> \in edges /\ ShortestParent(p, v)
<1>1. batch \in Seq(Op) /\ directed \in BOOLEAN /\ Len(batch) \in Nat /\ next - 1 = Len(batch)
  BY DEF TypeOK
<1>2. ASSUME NEW p \in Vertex, NEW q \in Vertex
      PROVE  LastAdds(<<p, q>>, Len(batch)) <=> Awaited(p, q)
  <2>1. ASSUME LastAdds(<<p, q>>, Len(batch)) PROVE Awaited(p, q)
    <3>1. PICK i \in 1 .. Len(batch) : Decides(i, <<p, q>>, Len(batch)) /\ batch[i].add
      BY <2>1 DEF LastAdds
    <3>2. batch[i] \in LastWrites(directed, batch) /\ <<p, q>> \in ArcsOf(directed, batch[i])
      BY <1>1, <3>1, LastDecide DEF Decides
    <3>. QED  BY <3>1, <3>2 DEF Awaited, Derived
  <2>2. ASSUME Awaited(p, q) PROVE LastAdds(<<p, q>>, Len(batch))
    <3>1. PICK op \in LastWrites(directed, batch) : op.add /\ <<p, q>> \in ArcsOf(directed, op)
      BY <2>2 DEF Awaited, Derived
    <3>2. PICK i \in 1 .. Len(batch) : op = batch[i] /\ Decides(i, <<p, q>>, Len(batch))
      BY <1>1, <3>1, LastDecide
    <3>. QED  BY <3>1, <3>2 DEF LastAdds
  <2>. QED  BY <2>1, <2>2
<1>3. AddedPresent
  BY <1>1, <1>2 DEF AddedPresent, Updating
<1>4. \A p, q \in Vertex : <<p, q>> \in edges => Triangle(p, q) \/ Awaited(p, q)
  BY <1>1, <1>2 DEF Updating
<1>5. \A p, v : Survives(p, v) => p \notin affected /\ <<p, v>> \in edges /\ ShortestParent(p, v)
  BY <1>1 DEF Survives
<1>6. ~usedFull => \A v \in Vertex \ (affected \cup {Source}) : Reached(v) =>
        \E p \in Vertex \ affected : <<p, v>> \in edges /\ ShortestParent(p, v)
  BY <1>5 DEF Updating
<1>. QED  BY <1>3, <1>4, <1>6

-----------------------------------------------------------------------------
(* StartRepair gives each marked vertex its boundary distance. *)
LEMMA StartRepairEffect ==
  ASSUME TypeOK, marked = affected, StartRepair
  PROVE  /\ dist' \in [Vertex -> 0 .. Unreachable]
         /\ \A v \in Vertex : dist'[v] = IF v \in affected THEN Boundary(v) ELSE dist[v]
         /\ heap' \subseteq (0 .. Unreachable) \X affected
         /\ \A v \in affected : Reached(v)' => <<dist'[v], v>> \in heap'
         /\ old' = dist /\ edges' = edges /\ affected' = affected /\ added' = added
         /\ directed' = directed /\ batch' = batch /\ next' = next /\ dropped' = dropped
         /\ vertexCount' = vertexCount /\ marks' = marks /\ work' = work
         /\ phase' = "repair" /\ usedFull' = usedFull
<1>. DEFINE best == [v \in affected |-> Boundary(v)]
            seeded == {v \in affected : best[v] # Unreachable}
<1>1. /\ dist' = [v \in Vertex |-> IF v \in affected THEN best[v] ELSE dist[v]]
      /\ heap' = {<<best[v], v>> : v \in seeded}
      /\ affected \subseteq Vertex
  BY DEF StartRepair, TypeOK
<1>2. \A v \in affected : best[v] = Boundary(v) /\ best[v] \in 0 .. Unreachable
  BY <1>1, BoundaryLeast
<1>3. \A v \in Vertex : dist'[v] = IF v \in affected THEN Boundary(v) ELSE dist[v]
  BY <1>1, <1>2
<1>4. dist' \in [Vertex -> 0 .. Unreachable]
  <2>1. \A v \in Vertex : (IF v \in affected THEN best[v] ELSE dist[v]) \in 0 .. Unreachable
    BY <1>2 DEF TypeOK
  <2>. HIDE DEF best
  <2>. QED  BY <1>1, <2>1
<1>5. heap' \subseteq (0 .. Unreachable) \X affected
  <2>1. \A v \in seeded : v \in affected /\ best[v] \in 0 .. Unreachable
    BY <1>2
  <2>. HIDE DEF best, seeded
  <2>. QED  BY <1>1, <2>1
<1>6. ASSUME NEW v \in affected, Reached(v)' PROVE <<dist'[v], v>> \in heap'
  <2>1. dist'[v] = best[v] /\ v \in seeded
    BY <1>1, <1>6 DEF Reached
  <2>. HIDE DEF best, seeded
  <2>. QED  BY <1>1, <2>1
<1>. QED
  <2>. HIDE DEF best
  <2>. QED  BY <1>3, <1>4, <1>5, <1>6 DEF StartRepair, graph, plan, marks

(* ... and counts the vertices that keep or gain one. *)
LEMMA StartRepairCounts ==
  ASSUME TypeOK, marked = affected, reached = Cardinality(ReachedSet), StartRepair
  PROVE  reached' = Cardinality(ReachedSet')
<1>. DEFINE kept == ReachedSet \ affected
            lostNow == {v \in affected : Reached(v)}
            seeded == {v \in affected : Boundary(v) # Unreachable}
<1>1. affected \subseteq Vertex
  BY DEF TypeOK
<1>2. reached' = reached - Cardinality(lostNow) + Cardinality(seeded)
  <2>1. {v \in affected : [w \in affected |-> Boundary(w)][v] # Unreachable} = seeded
    OBVIOUS
  <2>2. reached' = reached - Cardinality(lostNow)
          + Cardinality({v \in affected : [w \in affected |-> Boundary(w)][v] # Unreachable})
    BY DEF StartRepair
  <2>. QED
    <3>. HIDE DEF seeded, lostNow
    <3>. QED  BY <2>1, <2>2
<1>3. ReachedSet = kept \cup lostNow /\ kept \cap lostNow = {}
  BY <1>1 DEF ReachedSet
<1>4. ReachedSet' = kept \cup seeded /\ kept \cap seeded = {}
  <2>1. \A v \in Vertex : Reached(v)' <=> IF v \in affected THEN v \in seeded ELSE Reached(v)
    BY StartRepairEffect DEF Reached
  <2>2. \A v : v \in ReachedSet' <=> v \in Vertex /\ Reached(v)'
    BY DEF ReachedSet
  <2>3. \A v : v \in kept <=> v \in Vertex /\ Reached(v) /\ v \notin affected
    BY DEF ReachedSet
  <2>4. \A v : v \in seeded => v \in affected
    OBVIOUS
  <2>. QED
    <3>. HIDE DEF kept, seeded
    <3>. QED  BY <1>1, <2>1, <2>2, <2>3, <2>4
<1>5. kept \in SUBSET Vertex /\ lostNow \in SUBSET Vertex /\ seeded \in SUBSET Vertex
  BY <1>1 DEF ReachedSet
<1>. HIDE DEF kept, lostNow, seeded
<1>6. /\ Cardinality(kept) \in Nat /\ Cardinality(lostNow) \in Nat /\ Cardinality(seeded) \in Nat
  BY <1>5, VertexSets
<1>7. Cardinality(kept \cup lostNow) = Cardinality(kept) + Cardinality(lostNow)
  BY <1>3, <1>5, DisjointSizes
<1>8. Cardinality(kept \cup seeded) = Cardinality(kept) + Cardinality(seeded)
  BY <1>4, <1>5, DisjointSizes
<1>9. reached = Cardinality(kept) + Cardinality(lostNow)
  BY <1>3, <1>7, Zenon
<1>10. Cardinality(ReachedSet') = Cardinality(kept) + Cardinality(seeded)
  BY <1>4, <1>8, Zenon
<1>11. reached' = Cardinality(kept) + Cardinality(seeded)
  BY <1>2, <1>6, <1>9
<1>. QED  BY <1>10, <1>11

(* ... and owes no more than the arcs out of the heap. *)
LEMMA StartRepairOwes ==
  ASSUME TypeOK, marked = affected, Derived, Updating, next \in 1 .. Len(batch) + 1, Source \notin affected,
         StartRepair
  PROVE  AddedPresent' /\ Repairing' /\ HeapOfAffected' /\ NeverTooSmall'
<1>1. /\ AddedPresent
      /\ \A p, q \in Vertex : <<p, q>> \in edges => Triangle(p, q) \/ Awaited(p, q)
      /\ \A v \in Vertex \ (affected \cup {Source}) : Reached(v) =>
              \E p \in Vertex \ affected : <<p, v>> \in edges /\ ShortestParent(p, v)
  <2>1. next = Len(batch) + 1 /\ ~usedFull
    BY DEF StartRepair, TypeOK
  <2>. QED  BY <2>1, UpdatedOwes
<1>2. AddedPresent'
  BY <1>1, StartRepairEffect DEF AddedPresent, Awaited
<1>3. HeapOfAffected'
  BY StartRepairEffect DEF HeapOfAffected
<1>. DEFINE d == dist'
<1>4. /\ d \in [Vertex -> 0 .. Unreachable]
      /\ \A v \in Vertex : d[v] = IF v \in affected THEN Boundary(v) ELSE dist[v]
      /\ \A v \in Vertex : dist[v] \in Nat /\ d[v] \in Nat /\ dist[v] <= Unreachable /\ d[v] <= Unreachable
      /\ Unreachable \in Nat
  BY StartRepairEffect, DistanceType
<1>5. ASSUME NEW p \in Vertex, NEW q \in Vertex, <<p, q>> \in edges
      PROVE  \/ Awaited(p, q)
             \/ p \notin affected /\ Triangle(p, q)'
             \/ p \in affected /\ q \notin affected /\ dist'[q] <= old'[p] + 1
             \/ p \in affected /\ q \in affected /\ (Triangle(p, q)' \/ <<dist'[p], p>> \in heap')
  <2>1. CASE p \notin affected /\ q \in affected
    <3>1. d[p] = dist[p] /\ d[q] = Boundary(q)
      BY <1>4, <2>1
    <3>2. Reached(p) => Boundary(q) <= dist[p] + 1
      BY <1>5, <2>1, BoundaryLeast
    <3>. QED  BY <2>1, <3>1, <3>2 DEF Triangle, Reached
  <2>2. CASE p \notin affected /\ q \notin affected
    <3>1. d[p] = dist[p] /\ d[q] = dist[q]
      BY <1>4, <2>2
    <3>. QED  BY <1>1, <1>5, <2>2, <3>1 DEF Triangle, Reached
  <2>3. CASE p \in affected /\ q \notin affected
    <3>1. d[q] = dist[q] /\ old' = dist
      BY <1>4, <2>3, StartRepairEffect
    <3>2. Triangle(p, q) => dist[q] <= dist[p] + 1
      BY <1>4 DEF Triangle, Reached
    <3>. QED  BY <1>1, <1>5, <2>3, <3>1, <3>2
  <2>4. CASE p \in affected /\ q \in affected
    BY <2>4, StartRepairEffect DEF Triangle
  <2>. QED  BY <2>1, <2>2, <2>3, <2>4
<1>6. Repairing'
  <2>1. edges' = edges /\ affected' = affected /\ \A p, q : Awaited(p, q)' <=> Awaited(p, q)
    BY StartRepairEffect DEF Awaited
  <2>. QED  BY <1>5, <2>1 DEF Repairing
<1>7. ASSUME NEW v \in Vertex \ {Source}, Reached(v)'
      PROVE  \E p \in Vertex : <<p, v>> \in edges /\ d[p] + 1 <= d[v]
  <2>1. CASE v \in affected
    <3>1. d[v] = Boundary(v) /\ d[v] # Unreachable
      BY <1>4, <1>7, <2>1 DEF Reached
    <3>2. PICK p \in Vertex \ affected : <<p, v>> \in edges /\ dist[p] + 1 = Boundary(v)
      BY <3>1, BoundaryLeast
    <3>3. d[p] + 1 <= d[v]
      BY <1>4, <3>1, <3>2
    <3>. QED  BY <3>2, <3>3
  <2>2. CASE v \notin affected
    <3>1. d[v] = dist[v] /\ Reached(v)
      BY <1>4, <1>7, <2>2 DEF Reached
    <3>2. PICK p \in Vertex \ affected : <<p, v>> \in edges /\ ShortestParent(p, v)
      BY <1>1, <2>2, <3>1
    <3>3. d[p] + 1 <= d[v]
      BY <1>4, <3>1, <3>2 DEF ShortestParent
    <3>. QED  BY <3>2, <3>3
  <2>. QED  BY <2>1, <2>2
<1>8. NeverTooSmall'
  BY <1>7, StartRepairEffect DEF NeverTooSmall
<1>. QED  BY <1>2, <1>3, <1>6, <1>8

-----------------------------------------------------------------------------
(* A step that lowers the distances of the vertices in C, and no others.   *)
Lowers(C) ==
  /\ C \subseteq Vertex /\ dist' \in [Vertex -> 0 .. Unreachable]
  /\ \A v \in C : dist'[v] < dist[v]
  /\ \A v \in Vertex \ C : dist'[v] = dist[v]

(* Every vertex but the source has a neighbour at least one nearer. *)
Supported ==
  \A v \in Vertex \ {Source} :
    Reached(v) => \E p \in Vertex : <<p, v>> \in edges /\ dist[p] + 1 <= dist[v]

(* Lowering by assignment: the new values are below the old ones. *)
LEMMA LowersBy ==
  ASSUME TypeOK, NEW C \in SUBSET Vertex, NEW f,
         dist' = [v \in Vertex |-> IF v \in C THEN f[v] ELSE dist[v]],
         \A v \in C : f[v] \in Nat /\ f[v] < dist[v]
  PROVE  Lowers(C)
<1>1. \A v \in Vertex : dist[v] \in Nat /\ dist[v] <= Unreachable /\ Unreachable \in Nat
  BY DistanceType
<1>2. \A v \in Vertex : dist'[v] = IF v \in C THEN f[v] ELSE dist[v]
  OBVIOUS
<1>3. \A v \in Vertex : (IF v \in C THEN f[v] ELSE dist[v]) \in 0 .. Unreachable
  BY <1>1
<1>4. dist' \in [Vertex -> 0 .. Unreachable]
  BY <1>3
<1>. QED  BY <1>2, <1>4 DEF Lowers

(* What lowering distances does to the numbers compared. *)
LEMMA LoweredNumbers ==
  ASSUME TypeOK, NEW C, Lowers(C)
  PROVE  /\ \A v \in Vertex : /\ dist[v] \in Nat /\ dist'[v] \in Nat
                              /\ dist'[v] <= dist[v] /\ dist[v] <= Unreachable
         /\ Unreachable \in Nat
         /\ \A v \in Vertex : Reached(v)' <=> dist'[v] < Unreachable
         /\ \A v \in C : dist'[v] < dist[v] /\ Reached(v)'
<1>1. \A v \in Vertex : dist[v] \in Nat /\ dist[v] <= Unreachable /\ Unreachable \in Nat
  BY DistanceType
<1>2. Unreachable \in Nat
  BY BFSConstants
<1>3. \A v \in Vertex : dist'[v] \in Nat /\ dist'[v] <= Unreachable
  BY <1>2 DEF Lowers
<1>4. \A v \in Vertex : dist'[v] <= dist[v]
  BY <1>1, <1>3 DEF Lowers
<1>5. \A v \in Vertex : Reached(v)' <=> dist'[v] < Unreachable
  BY <1>2, <1>3 DEF Reached
<1>6. \A v \in C : v \in Vertex /\ dist'[v] < dist[v]
  BY DEF Lowers
<1>7. \A v \in C : dist'[v] < Unreachable
  BY <1>1, <1>3, <1>6
<1>. QED  BY <1>1, <1>2, <1>3, <1>4, <1>5, <1>6, <1>7

(* The count grows by the vertices reached anew. *)
LEMMA LoweredCounts ==
  ASSUME TypeOK, NEW C, Lowers(C), reached = Cardinality(ReachedSet),
         reached' = reached + Cardinality({v \in C : ~Reached(v)})
  PROVE  reached' = Cardinality(ReachedSet')
<1>. DEFINE N == {v \in C : ~Reached(v)}
<1>1. C \subseteq Vertex /\ \A v \in Vertex \ C : Reached(v)' <=> Reached(v)
  BY DEF Lowers, Reached
<1>2. \A v \in C : Reached(v)'
  BY LoweredNumbers
<1>3. ReachedSet' = ReachedSet \cup N
  BY <1>1, <1>2 DEF ReachedSet
<1>4. ReachedSet \in SUBSET Vertex /\ N \in SUBSET Vertex /\ ReachedSet \cap N = {}
  BY <1>1 DEF ReachedSet
<1>. HIDE DEF N
<1>5. Cardinality(ReachedSet \cup N) = Cardinality(ReachedSet) + Cardinality(N)
  BY <1>4, DisjointSizes
<1>6. reached' = Cardinality(ReachedSet) + Cardinality(N)
  BY DEF N
<1>. QED  BY <1>3, <1>5, <1>6, Zenon

(* No distance gets too small if each lowered vertex gets a neighbour.     *)
LEMMA LoweredSupport ==
  ASSUME TypeOK, NEW C, Lowers(C), edges' = edges, Supported,
         \A v \in C : \E p \in Vertex : <<p, v>> \in edges /\ dist'[p] + 1 <= dist'[v]
  PROVE  Supported'
<1>1. \A v \in Vertex : /\ dist[v] \in Nat /\ dist'[v] \in Nat
                        /\ dist'[v] <= dist[v]
  BY LoweredNumbers
<1>2. ASSUME NEW v \in Vertex \ {Source}, Reached(v)', v \notin C
      PROVE  \E p \in Vertex : <<p, v>> \in edges /\ dist'[p] + 1 <= dist'[v]
  <2>1. dist'[v] = dist[v]
    BY <1>2 DEF Lowers
  <2>2. Reached(v)
    BY <1>2, <2>1 DEF Reached
  <2>3. PICK p \in Vertex : <<p, v>> \in edges /\ dist[p] + 1 <= dist[v]
    BY <2>2 DEF Supported
  <2>4. dist'[p] + 1 <= dist'[v]
    BY <1>1, <2>1, <2>3
  <2>. QED  BY <2>3, <2>4
<1>. QED  BY <1>2 DEF Supported

(* An edge keeps its triangle inequality while its tail is not lowered.    *)
LEMMA LoweredTriangle ==
  ASSUME TypeOK, NEW C, Lowers(C), NEW p \in Vertex \ C, NEW q \in Vertex, Triangle(p, q)
  PROVE  Triangle(p, q)'
<1>1. dist'[p] = dist[p]
  BY DEF Lowers
<1>2. dist[q] \in Nat /\ dist'[q] \in Nat /\ dist'[q] <= dist[q] /\ dist[p] \in Nat
  BY LoweredNumbers
<1>. QED  BY <1>1, <1>2 DEF Triangle, Reached

(* Lowered vertices join the queue: only the other debts need a reason. *)
LEMMA LoweredPending ==
  ASSUME TypeOK, NEW C, Lowers(C), edges' = edges, C \subseteq work', Pending,
         \A p, q \in Vertex : <<p, q>> \in edges /\ (p \in work \/ Awaited(p, q)) =>
           p \in work' \/ Awaited(p, q)' \/ Triangle(p, q)'
  PROVE  Pending'
<1>1. ASSUME NEW p \in Vertex, NEW q \in Vertex, <<p, q>> \in edges'
      PROVE  Triangle(p, q)' \/ p \in work' \/ Awaited(p, q)'
  <2>. <<p, q>> \in edges
    BY <1>1
  <2>1. CASE Triangle(p, q) /\ p \notin C
    BY <2>1, LoweredTriangle
  <2>2. CASE p \in C
    BY <2>2
  <2>3. CASE ~Triangle(p, q)
    BY <2>3 DEF Pending
  <2>. QED  BY <2>1, <2>2, <2>3
<1>. QED  BY <1>1 DEF Pending

-----------------------------------------------------------------------------
(* A repair step lowers affected vertices over arcs out of its heap entry. *)
LEMMA RepairLowers ==
  ASSUME TypeOK, HeapOfAffected, Repair
  PROVE  \E item \in heap : \E C \in SUBSET affected :
           /\ Lowers(C) /\ item[2] \in affected \ C
           /\ C # {} => item[1] = dist[item[2]]
           /\ \A v \in C : <<item[2], v>> \in edges /\ dist'[v] = dist[item[2]] + 1
           /\ \A v \in affected \ C : <<item[2], v>> \in edges /\ item[1] = dist[item[2]] =>
                dist[v] <= dist[item[2]] + 1
           /\ heap' = (heap \ {item}) \cup {<<dist'[v], v>> : v \in C}
           /\ reached' = reached + Cardinality({v \in C : ~Reached(v)})
<1>1. PICK item \in heap :
        LET u      == item[2]
            closer == {v \in affected :
                         item[1] = dist[u] /\ <<u, v>> \in edges /\ item[1] + 1 < dist[v]}
        IN  /\ dist' = [v \in Vertex |-> IF v \in closer THEN item[1] + 1 ELSE dist[v]]
            /\ heap' = (heap \ {item}) \cup {<<item[1] + 1, v>> : v \in closer}
            /\ reached' = reached + Cardinality({v \in closer : ~Reached(v)})
  BY DEF Repair
<1>. DEFINE u == item[2]
            C == {v \in affected : item[1] = dist[u] /\ <<u, v>> \in edges /\ item[1] + 1 < dist[v]}
            f == [v \in Vertex |-> item[1] + 1]
<1>2. affected \subseteq Vertex /\ u \in affected /\ item[1] \in Nat
  BY DEF TypeOK, HeapOfAffected
<1>3. C \in SUBSET affected /\ C \in SUBSET Vertex
  BY <1>2
<1>4. dist' = [v \in Vertex |-> IF v \in C THEN f[v] ELSE dist[v]]
  <2>1. [v \in Vertex |-> IF v \in C THEN item[1] + 1 ELSE dist[v]]
          = [v \in Vertex |-> IF v \in C THEN f[v] ELSE dist[v]]
    <3>1. \A v \in Vertex : f[v] = item[1] + 1
      OBVIOUS
    <3>. HIDE DEF C, f
    <3>. QED  BY <3>1
  <2>. QED  BY <1>1, <2>1
<1>5. \A v \in C : f[v] \in Nat /\ f[v] < dist[v]
  BY <1>2, <1>3
<1>6. Lowers(C)
  <2>. HIDE DEF C, f
  <2>. QED  BY <1>3, <1>4, <1>5, LowersBy
<1>7. u \notin C
  <2>1. dist[u] \in Nat
    BY <1>2, DistanceType
  <2>. QED  BY <2>1
<1>8. \A v \in C : item[1] = dist[u] /\ <<u, v>> \in edges /\ dist'[v] = dist[u] + 1
  BY <1>1, <1>3
<1>9. ASSUME NEW v \in affected \ C, <<u, v>> \in edges, item[1] = dist[u]
      PROVE  dist[v] <= dist[u] + 1
  <2>1. ~(item[1] + 1 < dist[v])
    BY <1>9
  <2>2. dist[v] \in Nat /\ dist[u] \in Nat
    BY <1>2, DistanceType
  <2>. QED  BY <1>9, <2>1, <2>2
<1>10. heap' = (heap \ {item}) \cup {<<dist'[v], v>> : v \in C}
  <2>1. heap' = (heap \ {item}) \cup {<<item[1] + 1, v>> : v \in C}
    BY <1>1
  <2>2. \A v \in C : dist'[v] = item[1] + 1
    BY <1>8
  <2>. HIDE DEF C
  <2>. QED  BY <2>1, <2>2
<1>11. reached' = reached + Cardinality({v \in C : ~Reached(v)})
  BY <1>1
<1>12. /\ Lowers(C) /\ item[2] \in affected \ C
       /\ C # {} => item[1] = dist[item[2]]
       /\ \A v \in C : <<item[2], v>> \in edges /\ dist'[v] = dist[item[2]] + 1
       /\ \A v \in affected \ C : <<item[2], v>> \in edges /\ item[1] = dist[item[2]] =>
            dist[v] <= dist[item[2]] + 1
  BY <1>2, <1>6, <1>7, <1>8, <1>9
<1>. QED
  <2>. HIDE DEF C
  <2>. QED  BY <1>3, <1>10, <1>11, <1>12

LEMMA RepairKeeps ==
  ASSUME TypeOK, Repairing, HeapOfAffected, AddedPresent, Supported,
         reached = Cardinality(ReachedSet), Repair
  PROVE  /\ dist' \in [Vertex -> 0 .. Unreachable]
         /\ heap' \subseteq (0 .. Unreachable) \X Vertex
         /\ Repairing' /\ HeapOfAffected' /\ AddedPresent' /\ Supported'
         /\ reached' = Cardinality(ReachedSet')
<1>1. PICK item \in heap : \E C \in SUBSET affected :
        /\ Lowers(C) /\ item[2] \in affected \ C
        /\ C # {} => item[1] = dist[item[2]]
        /\ \A v \in C : <<item[2], v>> \in edges /\ dist'[v] = dist[item[2]] + 1
        /\ \A v \in affected \ C : <<item[2], v>> \in edges /\ item[1] = dist[item[2]] =>
             dist[v] <= dist[item[2]] + 1
        /\ heap' = (heap \ {item}) \cup {<<dist'[v], v>> : v \in C}
        /\ reached' = reached + Cardinality({v \in C : ~Reached(v)})
  BY RepairLowers
<1>2. PICK C \in SUBSET affected :
        /\ Lowers(C) /\ item[2] \in affected \ C
        /\ C # {} => item[1] = dist[item[2]]
        /\ \A v \in C : <<item[2], v>> \in edges /\ dist'[v] = dist[item[2]] + 1
        /\ \A v \in affected \ C : <<item[2], v>> \in edges /\ item[1] = dist[item[2]] =>
             dist[v] <= dist[item[2]] + 1
        /\ heap' = (heap \ {item}) \cup {<<dist'[v], v>> : v \in C}
        /\ reached' = reached + Cardinality({v \in C : ~Reached(v)})
  BY <1>1
<1>. DEFINE u == item[2]
<1>3. /\ affected \subseteq Vertex /\ u \in Vertex /\ C \subseteq Vertex
      /\ heap \subseteq (0 .. Unreachable) \X Vertex
  BY <1>2 DEF TypeOK
<1>4. edges' = edges /\ affected' = affected /\ added' = added /\ directed' = directed /\ old' = old
  BY DEF Repair, graph, plan, marks
<1>5. /\ \A v \in Vertex : dist[v] \in Nat /\ dist'[v] \in Nat /\ dist'[v] <= dist[v]
      /\ \A v \in Vertex \ C : dist'[v] = dist[v]
      /\ dist' \in [Vertex -> 0 .. Unreachable]
  BY <1>2, LoweredNumbers DEF Lowers
<1>6. heap' \subseteq (0 .. Unreachable) \X Vertex
  <2>1. \A v \in C : <<dist'[v], v>> \in (0 .. Unreachable) \X Vertex
    BY <1>3, <1>5
  <2>. QED  BY <1>2, <1>3, <2>1
<1>7. HeapOfAffected'
  BY <1>2, <1>4 DEF HeapOfAffected
<1>8. AddedPresent' /\ \A p, q : Awaited(p, q)' <=> Awaited(p, q)
  BY <1>4 DEF AddedPresent, Awaited
<1>9. Supported'
  <2>1. \A v \in C : \E p \in Vertex : <<p, v>> \in edges /\ dist'[p] + 1 <= dist'[v]
    <3>1. \A v \in C : <<u, v>> \in edges /\ dist'[u] + 1 <= dist'[v]
      BY <1>2, <1>3, <1>5
    <3>. QED  BY <1>3, <3>1
  <2>. QED  BY <1>2, <1>4, <2>1, LoweredSupport
<1>10. reached' = Cardinality(ReachedSet')
  BY <1>2, LoweredCounts
<1>11. ASSUME NEW p \in Vertex, NEW q \in Vertex, <<p, q>> \in edges'
       PROVE  \/ Awaited(p, q)'
              \/ p \notin affected' /\ Triangle(p, q)'
              \/ p \in affected' /\ q \notin affected' /\ dist'[q] <= old'[p] + 1
              \/ p \in affected' /\ q \in affected' /\ (Triangle(p, q)' \/ <<dist'[p], p>> \in heap')
  <2>1. CASE Awaited(p, q)
    BY <1>8, <2>1
  <2>2. CASE p \notin affected /\ Triangle(p, q)
    <3>1. Triangle(p, q)'
      BY <1>2, <2>2, LoweredTriangle
    <3>. QED  BY <1>4, <2>2, <3>1
  <2>3. CASE p \in affected /\ q \notin affected /\ dist[q] <= old[p] + 1
    <3>1. dist'[q] = dist[q]
      BY <1>5, <2>3
    <3>. QED  BY <1>4, <2>3, <3>1
  <2>4. CASE p \in affected /\ q \in affected /\ (Triangle(p, q) \/ <<dist[p], p>> \in heap)
    <3>1. CASE p \in C
      <4>1. <<dist'[p], p>> \in heap'
        BY <1>2, <3>1
      <4>. QED  BY <1>4, <2>4, <4>1
    <3>2. CASE p \notin C /\ Triangle(p, q)
      BY <1>2, <1>4, <2>4, <3>2, LoweredTriangle
    <3>3. CASE p \notin C /\ <<dist[p], p>> \in heap /\ <<dist[p], p>> # item
      <4>1. dist'[p] = dist[p]
        BY <1>5, <3>3
      <4>2. <<dist[p], p>> \in heap'
        BY <1>2, <3>3
      <4>3. <<dist'[p], p>> \in heap'
        BY <4>1, <4>2
      <4>. QED  BY <1>4, <2>4, <4>3
    <3>4. CASE p \notin C /\ <<dist[p], p>> = item
      <4>1. p = u /\ item[1] = dist[u] /\ dist'[p] = dist[p]
        BY <1>5, <3>4
      <4>2. CASE q \in C
        <5>1. dist'[q] = dist[u] + 1
          BY <1>2, <4>2
        <5>2. dist'[q] <= dist'[p] + 1
          BY <1>5, <4>1, <5>1
        <5>. QED  BY <1>4, <2>4, <5>2 DEF Triangle
      <4>3. CASE q \notin C
        <5>1. <<u, q>> \in edges /\ q \in affected \ C
          BY <1>4, <1>11, <2>4, <4>1, <4>3
        <5>2. dist[q] <= dist[u] + 1
          BY <1>2, <4>1, <5>1
        <5>3. dist'[q] <= dist'[p] + 1
          BY <1>5, <4>1, <5>2
        <5>. QED  BY <1>4, <2>4, <5>3 DEF Triangle
      <4>. QED  BY <4>2, <4>3
    <3>. QED  BY <2>4, <3>1, <3>2, <3>3, <3>4
  <2>. QED
    <3>1. <<p, q>> \in edges
      BY <1>4, <1>11
    <3>. QED  BY <2>1, <2>2, <2>3, <2>4, <3>1 DEF Repairing
<1>12. Repairing'
  BY <1>11 DEF Repairing
<1>. QED  BY <1>5, <1>6, <1>7, <1>8, <1>9, <1>10, <1>12

(* With the heap empty, only the arcs out of the vertices that came out    *)
(* nearer than before are owed.                                            *)
LEMMA EndRepairOwes ==
  ASSUME TypeOK, marked = affected, Repairing, EndRepair
  PROVE  Pending'
<1>1. /\ edges' = edges /\ dist' = dist /\ added' = added /\ directed' = directed /\ heap = {}
      /\ work' = {v \in affected : dist[v] < old[v]}
  BY DEF EndRepair, graph, result, plan
<1>2. \A p, q : (Awaited(p, q)' <=> Awaited(p, q)) /\ (Triangle(p, q)' <=> Triangle(p, q))
  BY <1>1 DEF Awaited, Triangle, Reached
<1>3. ASSUME NEW p \in Vertex, NEW q \in Vertex, <<p, q>> \in edges
      PROVE  Triangle(p, q) \/ p \in work' \/ Awaited(p, q)
  <2>1. ASSUME p \in affected, dist[q] <= old[p] + 1, p \notin work' PROVE Triangle(p, q)
    <3>1. dist[p] \in Nat /\ dist[q] \in Nat /\ old[p] \in Nat
      BY DistanceType DEF TypeOK
    <3>2. ~(dist[p] < old[p])
      BY <1>1, <2>1
    <3>. QED  BY <2>1, <3>1, <3>2 DEF Triangle
  <2>. QED  BY <1>1, <1>3, <2>1 DEF Repairing
<1>. QED  BY <1>1, <1>2, <1>3 DEF Pending

-----------------------------------------------------------------------------
(* A visited vertex owes nothing more. *)
LEMMA SettlingKeeps ==
  ASSUME TypeOK, Pending, AddedPresent, Supported, reached = Cardinality(ReachedSet),
         NEW u \in Vertex, Settle(u)
  PROVE  /\ dist' \in [Vertex -> 0 .. Unreachable] /\ work' \subseteq Vertex
         /\ Pending' /\ AddedPresent' /\ Supported'
         /\ reached' = Cardinality(ReachedSet')
<1>. DEFINE C == {v \in Vertex : Reached(u) /\ <<u, v>> \in edges /\ dist[u] + 1 < dist[v]}
            f == [v \in Vertex |-> dist[u] + 1]
<1>1. /\ u \in work /\ work' = (work \ {u}) \cup C
      /\ reached' = reached + Cardinality({v \in C : ~Reached(v)})
      /\ edges' = edges /\ added' = added /\ directed' = directed
  BY DEF Settle, graph, plan
<1>2. \A v \in Vertex : dist[v] \in Nat
  BY DistanceType
<1>3. dist' = [v \in Vertex |-> IF v \in C THEN f[v] ELSE dist[v]]
  <2>1. dist' = [v \in Vertex |-> IF v \in C THEN dist[u] + 1 ELSE dist[v]]
    BY DEF Settle
  <2>2. \A v \in Vertex : f[v] = dist[u] + 1
    OBVIOUS
  <2>. HIDE DEF C, f
  <2>. QED  BY <2>1, <2>2
<1>4. Lowers(C)
  <2>1. \A v \in C : f[v] \in Nat /\ f[v] < dist[v]
    BY <1>2
  <2>2. C \in SUBSET Vertex
    OBVIOUS
  <2>. HIDE DEF C, f
  <2>. QED  BY <1>3, <2>1, <2>2, LowersBy
<1>5. u \notin C /\ dist'[u] = dist[u]
  <2>1. u \notin C
    BY <1>2
  <2>. QED  BY <1>4, <2>1 DEF Lowers
<1>6. \A v \in C : <<u, v>> \in edges /\ dist'[v] = dist[u] + 1
  BY <1>3
<1>7. \A v \in Vertex \ C : Reached(u) /\ <<u, v>> \in edges => dist[v] <= dist[u] + 1
  BY <1>2
<1>8. \A p, q : Awaited(p, q)' <=> Awaited(p, q)
  BY <1>1 DEF Awaited
<1>. HIDE DEF C, f
<1>9. \A v \in Vertex : /\ dist[v] \in Nat /\ dist'[v] \in Nat
                        /\ dist'[v] <= dist[v]
  BY <1>4, LoweredNumbers
<1>10. Supported'
  <2>1. \A v \in C : \E p \in Vertex : <<p, v>> \in edges /\ dist'[p] + 1 <= dist'[v]
    <3>1. dist'[u] \in Nat /\ dist'[u] + 1 <= dist'[u] + 1
      BY <1>9
    <3>2. \A v \in C : <<u, v>> \in edges /\ dist'[v] = dist'[u] + 1
      BY <1>5, <1>6
    <3>. QED  BY <3>1, <3>2
  <2>. QED  BY <1>1, <1>4, <2>1, LoweredSupport
<1>11. Pending'
  <2>1. ASSUME NEW q \in Vertex, <<u, q>> \in edges PROVE Triangle(u, q)'
    <3>1. CASE q \in C
      <4>1. dist'[u] \in Nat /\ dist'[q] = dist'[u] + 1
        BY <1>5, <1>6, <1>9, <3>1
      <4>2. dist'[q] <= dist'[u] + 1
        BY <4>1
      <4>. QED  BY <4>2 DEF Triangle
    <3>2. CASE q \notin C
      <4>1. Triangle(u, q)
        BY <1>7, <2>1, <3>2 DEF Triangle
      <4>. QED  BY <1>4, <1>5, <4>1, LoweredTriangle
    <3>. QED  BY <3>1, <3>2
  <2>2. \A p, q \in Vertex : <<p, q>> \in edges /\ (p \in work \/ Awaited(p, q)) =>
           p \in work' \/ Awaited(p, q)' \/ Triangle(p, q)'
    BY <1>1, <1>8, <2>1
  <2>3. C \subseteq work'
    BY <1>1
  <2>. QED  BY <1>1, <1>4, <2>2, <2>3, LoweredPending
<1>12. AddedPresent'
  BY <1>1, <1>8 DEF AddedPresent
<1>13. reached' = Cardinality(ReachedSet')
  BY <1>1, <1>4, LoweredCounts
<1>14. dist' \in [Vertex -> 0 .. Unreachable] /\ work' \subseteq Vertex
  BY <1>1, <1>4 DEF Lowers, TypeOK
<1>. QED  BY <1>10, <1>11, <1>12, <1>13, <1>14

(* relax_edge lowers at most one end of the edge, to one more than the     *)
(* other.                                                                  *)
LEMMA RelaxLowers ==
  ASSUME TypeOK, NEW op \in added, Relax(op)
  PROVE  \E C \in SUBSET Vertex :
           /\ Lowers(C) /\ work' = work \cup C
           /\ reached' = reached + Cardinality({v \in C : ~Reached(v)})
           /\ \A v \in C : \E p \in Vertex \ C :
                <<p, v>> \in ArcsOf(directed, op) /\ dist'[v] = dist[p] + 1
           /\ \A p, q \in Vertex \ C : <<p, q>> \in ArcsOf(directed, op) => Triangle(p, q)
           /\ \A p \in Vertex \ C, q \in C : <<p, q>> \in ArcsOf(directed, op) =>
                dist'[q] = dist[p] + 1
<1>. DEFINE A == ArcsOf(directed, op)
            closer == {a \in A : Reached(a[1]) /\ dist[a[1]] + 1 < dist[a[2]]}
            ends == {a[2] : a \in closer}
            f == [v \in Vertex |-> dist[(CHOOSE a \in closer : a[2] = v)[1]] + 1]
<1>1. /\ dist' = [v \in Vertex |->
                   IF v \in ends THEN dist[(CHOOSE a \in closer : a[2] = v)[1]] + 1 ELSE dist[v]]
      /\ work' = work \cup ends
      /\ reached' = reached + Cardinality({v \in ends : ~Reached(v)})
  BY DEF Relax
<1>2. /\ \A v \in Vertex : dist[v] \in Nat
      /\ \A v \in Vertex : Reached(v) <=> dist[v] < Unreachable
      /\ Unreachable \in Nat
  BY DistanceType
<1>3. op.src \in Vertex /\ op.dst \in Vertex
  BY DEF TypeOK, Op
<1>4. /\ A \subseteq {<<op.src, op.dst>>, <<op.dst, op.src>>}
      /\ A # {} => op.src # op.dst
  BY DEF ArcsOf
<1>5. ASSUME NEW a \in closer
      PROVE  /\ a = <<a[1], a[2]>> /\ a[1] \in Vertex /\ a[2] \in Vertex
             /\ closer = {a} /\ ends = {a[2]} /\ a[1] # a[2]
  <2>1. a = <<a[1], a[2]>> /\ a[1] \in Vertex /\ a[2] \in Vertex
        /\ A \subseteq {<<a[1], a[2]>>, <<a[2], a[1]>>}
    BY <1>3, <1>4
  <2>2. dist[a[1]] + 1 < dist[a[2]]
    OBVIOUS
  <2>3. dist[a[1]] \in Nat /\ dist[a[2]] \in Nat
    BY <1>2, <2>1
  <2>4. <<a[2], a[1]>> \notin closer
    BY <2>2, <2>3
  <2>5. closer \subseteq A
    OBVIOUS
  <2>6. closer = {a}
    <3>. HIDE DEF closer, A
    <3>. QED  BY <2>1, <2>4, <2>5
  <2>7. ends = {a[2]}
    <3>. HIDE DEF closer
    <3>. QED  BY <2>6
  <2>8. a[1] # a[2]
    BY <2>2, <2>3
  <2>. QED  BY <2>1, <2>6, <2>7, <2>8
<1>6. ASSUME NEW a \in closer
      PROVE  f[a[2]] = dist[a[1]] + 1 /\ dist[a[1]] + 1 < dist[a[2]] /\ dist[a[1]] \in Nat
  <2>1. closer = {a} /\ a[2] \in Vertex /\ a[1] \in Vertex
    BY <1>5
  <2>2. (CHOOSE b \in closer : b[2] = a[2]) = a
    <3>. HIDE DEF closer
    <3>. QED  BY <2>1
  <2>3. f[a[2]] = dist[(CHOOSE b \in closer : b[2] = a[2])[1]] + 1
    BY <2>1
  <2>. QED  BY <1>2, <2>1, <2>2, <2>3
<1>7. ends \in SUBSET Vertex
  <2>. HIDE DEF closer
  <2>. QED  BY <1>5
<1>8. dist' = [v \in Vertex |-> IF v \in ends THEN f[v] ELSE dist[v]]
  <2>1. \A v \in Vertex : f[v] = dist[(CHOOSE a \in closer : a[2] = v)[1]] + 1
    OBVIOUS
  <2>. HIDE DEF closer, ends, f
  <2>. QED  BY <1>1, <2>1
<1>9. \A v \in ends : f[v] \in Nat /\ f[v] < dist[v]
  <2>1. \A a \in closer : f[a[2]] \in Nat /\ f[a[2]] < dist[a[2]]
    <3>. HIDE DEF closer, f
    <3>. QED  BY <1>6
  <2>. HIDE DEF closer, f
  <2>. QED  BY <2>1
<1>10. Lowers(ends)
  <2>. HIDE DEF ends, f
  <2>. QED  BY <1>7, <1>8, <1>9, LowersBy
<1>11. ASSUME NEW v \in ends
       PROVE  \E p \in Vertex \ ends : <<p, v>> \in A /\ dist'[v] = dist[p] + 1
  <2>1. PICK a \in closer : v = a[2]
    OBVIOUS
  <2>2. a[1] \in Vertex \ ends /\ <<a[1], v>> \in A
    <3>1. a \in A
      OBVIOUS
    <3>. HIDE DEF closer, ends, A
    <3>. QED  BY <1>5, <2>1, <3>1
  <2>3. dist'[v] = f[v] /\ f[v] = dist[a[1]] + 1
    <3>. HIDE DEF closer, ends, f
    <3>. QED  BY <1>6, <1>7, <1>8, <2>1
  <2>. HIDE DEF closer, ends, f, A
  <2>. QED  BY <2>2, <2>3
<1>12. ASSUME NEW p \in Vertex \ ends, NEW q \in Vertex \ ends, <<p, q>> \in A
       PROVE  Triangle(p, q)
  <2>1. <<p, q>> \notin closer
    OBVIOUS
  <2>2. ~(Reached(p) /\ dist[p] + 1 < dist[q])
    BY <1>12, <2>1
  <2>. QED  BY <1>2, <2>2 DEF Triangle
<1>13. ASSUME NEW p \in Vertex \ ends, NEW q \in ends, <<p, q>> \in A
       PROVE  dist'[q] = dist[p] + 1
  <2>1. PICK r \in Vertex \ ends : <<r, q>> \in A /\ dist'[q] = dist[r] + 1
    BY <1>11
  <2>2. p = r
    <3>. HIDE DEF A, ends
    <3>1. <<p, q>> \in {<<op.src, op.dst>>, <<op.dst, op.src>>}
          /\ <<r, q>> \in {<<op.src, op.dst>>, <<op.dst, op.src>>} /\ op.src # op.dst
      BY <1>4, <1>13, <2>1
    <3>. QED  BY <3>1
  <2>. QED  BY <2>1, <2>2
<1>. HIDE DEF closer, ends, f, A
<1>14. /\ \A p, q \in Vertex \ ends : <<p, q>> \in ArcsOf(directed, op) => Triangle(p, q)
       /\ \A p \in Vertex \ ends, q \in ends : <<p, q>> \in ArcsOf(directed, op) =>
            dist'[q] = dist[p] + 1
       /\ \A v \in ends : \E p \in Vertex \ ends :
            <<p, v>> \in ArcsOf(directed, op) /\ dist'[v] = dist[p] + 1
  BY <1>11, <1>12, <1>13 DEF A
<1>. WITNESS ends \in SUBSET Vertex
<1>. QED  BY <1>1, <1>10, <1>14

LEMMA RelaxKeeps ==
  ASSUME TypeOK, Pending, AddedPresent, Supported, reached = Cardinality(ReachedSet),
         NEW op \in added, Relax(op)
  PROVE  /\ dist' \in [Vertex -> 0 .. Unreachable] /\ work' \subseteq Vertex
         /\ Pending' /\ AddedPresent' /\ Supported'
         /\ reached' = Cardinality(ReachedSet')
<1>1. PICK C \in SUBSET Vertex :
        /\ Lowers(C) /\ work' = work \cup C
        /\ reached' = reached + Cardinality({v \in C : ~Reached(v)})
        /\ \A v \in C : \E p \in Vertex \ C :
             <<p, v>> \in ArcsOf(directed, op) /\ dist'[v] = dist[p] + 1
        /\ \A p, q \in Vertex \ C : <<p, q>> \in ArcsOf(directed, op) => Triangle(p, q)
        /\ \A p \in Vertex \ C, q \in C : <<p, q>> \in ArcsOf(directed, op) =>
             dist'[q] = dist[p] + 1
  BY RelaxLowers
<1>2. edges' = edges /\ directed' = directed /\ added' = added \ {op}
  BY DEF Relax, graph
<1>3. \A v \in Vertex : dist'[v] \in Nat /\ dist[v] \in Nat
  BY <1>1, LoweredNumbers
<1>4. \A v \in Vertex \ C : dist'[v] = dist[v]
  BY <1>1 DEF Lowers
<1>5. \A p, q \in Vertex : Awaited(p, q) => Awaited(p, q)' \/ <<p, q>> \in ArcsOf(directed, op)
  BY <1>2 DEF Awaited
<1>6. \A p, q \in Vertex : Awaited(p, q)' => Awaited(p, q)
  BY <1>2 DEF Awaited
<1>7. AddedPresent'
  BY <1>2, <1>6 DEF AddedPresent
<1>8. ASSUME NEW p \in Vertex, NEW q \in Vertex, <<p, q>> \in ArcsOf(directed, op)
      PROVE  p \in work' \/ Triangle(p, q)'
  <2>1. CASE p \in C
    BY <1>1, <2>1
  <2>2. CASE p \notin C /\ q \in C
    <3>1. dist'[p] \in Nat /\ dist'[q] = dist'[p] + 1
      BY <1>1, <1>3, <1>4, <1>8, <2>2
    <3>2. dist'[q] <= dist'[p] + 1
      BY <3>1
    <3>. QED  BY <3>2 DEF Triangle
  <2>3. CASE p \notin C /\ q \notin C
    <3>1. Triangle(p, q)
      BY <1>1, <1>8, <2>3
    <3>. QED  BY <1>1, <2>3, <3>1, LoweredTriangle
  <2>. QED  BY <2>1, <2>2, <2>3
<1>9. Pending'
  <2>1. \A p, q \in Vertex : <<p, q>> \in edges /\ (p \in work \/ Awaited(p, q)) =>
           p \in work' \/ Awaited(p, q)' \/ Triangle(p, q)'
    BY <1>1, <1>5, <1>8
  <2>2. C \subseteq work'
    BY <1>1
  <2>. QED  BY <1>1, <1>2, <2>1, <2>2, LoweredPending
<1>10. Supported'
  <2>1. ASSUME NEW v \in C
        PROVE  \E p \in Vertex : <<p, v>> \in edges /\ dist'[p] + 1 <= dist'[v]
    <3>1. PICK p \in Vertex \ C : <<p, v>> \in ArcsOf(directed, op) /\ dist'[v] = dist[p] + 1
      BY <1>1
    <3>2. <<p, v>> \in edges
      BY <3>1 DEF AddedPresent, Awaited
    <3>3. dist'[p] \in Nat /\ dist'[v] = dist'[p] + 1
      BY <1>3, <1>4, <3>1
    <3>4. dist'[p] + 1 <= dist'[v]
      BY <3>3
    <3>. QED  BY <3>2, <3>4
  <2>. QED  BY <1>1, <1>2, <2>1, LoweredSupport
<1>11. reached' = Cardinality(ReachedSet')
  BY <1>1, LoweredCounts
<1>12. dist' \in [Vertex -> 0 .. Unreachable] /\ work' \subseteq Vertex
  BY <1>1 DEF Lowers, TypeOK
<1>. QED  BY <1>7, <1>9, <1>10, <1>11, <1>12

(* When nothing is owed, the distances are settled. *)
LEMMA NothingOwed ==
  ASSUME TypeOK, Supported, \A p, q \in Vertex : <<p, q>> \in edges => Triangle(p, q)
  PROVE  Settled
<1>1. ASSUME NEW v \in Vertex \ {Source}, Reached(v)
      PROVE  \E p \in Vertex : <<p, v>> \in edges /\ dist[p] + 1 = dist[v]
  <2>1. PICK p \in Vertex : <<p, v>> \in edges /\ dist[p] + 1 <= dist[v]
    BY <1>1 DEF Supported
  <2>2. dist[p] \in Nat /\ dist[v] \in Nat /\ dist[v] <= Unreachable /\ Unreachable \in Nat
    BY DistanceType
  <2>3. Reached(p)
    BY <2>1, <2>2 DEF Reached
  <2>4. dist[v] <= dist[p] + 1
    BY <2>1, <2>3 DEF Triangle
  <2>. QED  BY <2>1, <2>2, <2>4
<1>. QED  BY <1>1 DEF Settled

-----------------------------------------------------------------------------
(* A full BFS starts from the source alone. *)
LEMMA RecomputeStarts ==
  ASSUME TypeOK, StartRecompute(vertexCount), edges' = edges
  PROVE  /\ dist' \in [Vertex -> 0 .. Unreachable] /\ work' \subseteq Vertex
         /\ phase' = "recompute" /\ reached' = 0 /\ Spreading' /\ Supported'
<1>1. /\ phase' = "recompute" /\ reached' = 0
      /\ dist' = [v \in Vertex |-> IF v = Source /\ Source < vertexCount THEN 0 ELSE Unreachable]
      /\ work' = IF Source < vertexCount THEN {Source} ELSE {}
  BY DEF StartRecompute
<1>2. MaxVertices \in Nat /\ Source \in Nat /\ Unreachable \in Nat /\ Unreachable > MaxVertices
  BY BFSConstants
<1>3. Source < vertexCount => Source \in Vertex
  BY <1>2 DEF TypeOK, Vertex
<1>4. \A v \in Vertex : dist'[v] = IF v = Source /\ Source < vertexCount THEN 0 ELSE Unreachable
  BY <1>1
<1>5. dist' \in [Vertex -> 0 .. Unreachable] /\ work' \subseteq Vertex
  BY <1>1, <1>2, <1>3
<1>6. \A v \in Vertex : Reached(v)' <=> v = Source /\ Source < vertexCount
  BY <1>2, <1>4 DEF Reached
<1>7. Supported'
  BY <1>6 DEF Supported
<1>8. \A u \in work' : u = Source /\ Reached(u)' /\ u \in Vertex /\ dist'[u] = 0
  BY <1>1, <1>3, <1>4, <1>6
<1>9. ASSUME NEW u \in work' PROVE dist'[u] + 1 <= Cardinality(ReachedSet')
  <2>1. ReachedSet' = {Source}
    BY <1>1, <1>3, <1>6 DEF ReachedSet
  <2>2. Cardinality({Source}) = 1
    BY FS_Singleton
  <2>3. Cardinality(ReachedSet') = 1
    BY <2>1, <2>2, Zenon
  <2>. QED  BY <1>8, <2>3
<1>10. \A u \in work', v \in Vertex : Reached(v)' => dist'[v] <= dist'[u]
  BY <1>2, <1>4, <1>6, <1>8
<1>11. \A p, q \in Vertex : Triangle(p, q)' \/ p \in work'
  BY <1>1, <1>6 DEF Triangle
<1>. QED  BY <1>1, <1>5, <1>7, <1>8, <1>9, <1>10, <1>11 DEF Spreading

(* A level of the full BFS reaches its vertices at their final distance:   *)
(* the queue holds one level, the farthest, and a level is never farther   *)
(* than there are vertices before it.                                      *)
LEMMA LevelKeeps ==
  ASSUME TypeOK, Spreading, Supported, RecomputeLevel
  PROVE  /\ dist' \in [Vertex -> 0 .. Unreachable] /\ work' \subseteq Vertex
         /\ Spreading' /\ Supported'
<1>. DEFINE found == {v \in Vertex : ~Reached(v) /\ \E u \in work : <<u, v>> \in edges}
            first == CHOOSE u \in work : TRUE
            level == dist[first]
<1>1. /\ work # {} /\ work' = found /\ edges' = edges
      /\ dist' = [v \in Vertex |-> IF v \in found THEN level + 1 ELSE dist[v]]
  BY DEF RecomputeLevel, graph
<1>2. work \subseteq Vertex /\ first \in work
  BY <1>1 DEF TypeOK
<1>3. /\ \A v \in Vertex : dist[v] \in Nat /\ dist[v] <= Unreachable
      /\ \A v \in Vertex : Reached(v) <=> dist[v] < Unreachable
      /\ Unreachable \in Nat /\ MaxVertices \in Nat /\ MaxVertices < Unreachable
  BY DistanceType, BFSConstants
<1>4. level \in Nat /\ \A u \in work : dist[u] = level
  <2>1. \A u \in work : dist[u] \in Nat /\ dist[u] <= level /\ level <= dist[u]
    BY <1>2, <1>3 DEF Spreading
  <2>. HIDE DEF first
  <2>. QED  BY <1>2, <2>1
<1>5. ReachedSet \in SUBSET Vertex /\ found \in SUBSET Vertex /\ ReachedSet \cap found = {}
  BY DEF ReachedSet
<1>6. /\ Cardinality(ReachedSet) \in Nat /\ Cardinality(ReachedSet) <= MaxVertices
      /\ Cardinality(found) \in Nat
  <2>. HIDE DEF found
  <2>. QED  BY <1>3, <1>5, VertexSets
<1>7. level + 1 <= Cardinality(ReachedSet)
  <2>. HIDE DEF first
  <2>. QED  BY <1>2 DEF Spreading
<1>8. level + 1 < Unreachable
  <2>. HIDE DEF found, level
  <2>. QED  BY <1>3, <1>4, <1>6, <1>7
<1>9. \A v \in Vertex : ~Reached(v) /\ (\E u \in work : <<u, v>> \in edges) <=> v \in found
  OBVIOUS
<1>10. \A v \in found : \E u \in work : <<u, v>> \in edges
  OBVIOUS
<1>. HIDE DEF found, level
<1>11. \A v \in Vertex : dist'[v] = IF v \in found THEN level + 1 ELSE dist[v]
  BY <1>1
<1>12. dist' \in [Vertex -> 0 .. Unreachable] /\ work' \subseteq Vertex
  <2>1. \A v \in Vertex : (IF v \in found THEN level + 1 ELSE dist[v]) \in 0 .. Unreachable
    BY <1>3, <1>4, <1>8
  <2>. QED  BY <1>1, <1>5, <2>1
<1>13. \A v \in Vertex : Reached(v)' <=> Reached(v) \/ v \in found
  <2>1. level + 1 # Unreachable
    BY <1>4, <1>8
  <2>. QED  BY <1>11, <2>1 DEF Reached
<1>14. ReachedSet' = ReachedSet \cup found
  BY <1>5, <1>13 DEF ReachedSet
<1>15. Cardinality(ReachedSet') = Cardinality(ReachedSet) + Cardinality(found)
  <2>1. Cardinality(ReachedSet \cup found) = Cardinality(ReachedSet) + Cardinality(found)
    BY <1>5, DisjointSizes
  <2>. QED  BY <1>14, <2>1, Zenon
<1>16. ASSUME NEW u \in work' PROVE Reached(u)' /\ dist'[u] + 1 <= Cardinality(ReachedSet')
  <2>1. u \in found /\ u \in Vertex
    BY <1>1, <1>5, <1>16
  <2>2. dist'[u] = level + 1 /\ Reached(u)'
    BY <1>11, <1>13, <2>1
  <2>3. Cardinality(found) # 0
    <3>1. IsFiniteSet(found)
      BY <1>5, VertexSets
    <3>. QED  BY <2>1, <3>1, FS_EmptySet
  <2>4. (level + 1) + 1 <= Cardinality(ReachedSet) + Cardinality(found)
    BY <1>4, <1>6, <1>7, <2>3
  <2>5. (level + 1) + 1 <= Cardinality(ReachedSet')
    BY <1>15, <2>4
  <2>. QED  BY <2>2, <2>5
<1>17. ASSUME NEW u \in work', NEW v \in Vertex, Reached(v)' PROVE dist'[v] <= dist'[u]
  <2>1. u \in found /\ u \in Vertex /\ dist'[u] = level + 1
    BY <1>1, <1>5, <1>11, <1>17
  <2>2. CASE v \in found
    BY <1>4, <1>11, <2>1, <2>2
  <2>3. CASE v \notin found
    <3>1. Reached(v) /\ dist'[v] = dist[v]
      BY <1>11, <1>13, <1>17, <2>3
    <3>2. dist[v] <= level
      BY <1>2, <1>4, <3>1 DEF Spreading
    <3>3. dist[v] \in Nat
      BY <1>3
    <3>. QED  BY <1>4, <2>1, <3>1, <3>2, <3>3
  <2>. QED  BY <2>2, <2>3
<1>18. ASSUME NEW p \in Vertex, NEW q \in Vertex, <<p, q>> \in edges
       PROVE  Triangle(p, q)' \/ p \in work'
  <2>1. CASE p \in found
    BY <1>1, <2>1
  <2>2. CASE p \notin found /\ p \in work
    <3>1. dist'[p] = level /\ dist[p] = level /\ Reached(p)
      BY <1>4, <1>11, <2>2 DEF Spreading
    <3>2. dist'[q] <= level + 1
      <4>1. CASE Reached(q) /\ q \notin found
        <5>1. dist'[q] = dist[q] /\ dist[q] <= level /\ dist[q] \in Nat
          BY <1>3, <1>11, <2>2, <3>1, <4>1 DEF Spreading
        <5>. QED  BY <1>4, <5>1
      <4>2. CASE q \in found
        BY <1>4, <1>11, <4>2
      <4>3. CASE ~Reached(q) /\ q \notin found
        BY <1>9, <1>18, <2>2, <4>3
      <4>. QED  BY <4>1, <4>2, <4>3
    <3>. QED  BY <3>1, <3>2 DEF Triangle
  <2>3. CASE p \notin found /\ p \notin work
    <3>1. Triangle(p, q) /\ dist'[p] = dist[p] /\ (Reached(p)' <=> Reached(p))
      BY <1>11, <1>13, <1>18, <2>3 DEF Spreading
    <3>2. CASE Reached(p)
      <4>1. dist[q] <= dist[p] + 1
        BY <3>1, <3>2 DEF Triangle
      <4>2. dist'[q] <= dist[q]
        <5>1. CASE q \in found
          <6>1. ~Reached(q) /\ dist'[q] = level + 1 /\ dist[q] \in Nat /\ dist[q] <= Unreachable
            BY <1>3, <1>5, <1>9, <1>11, <5>1
          <6>2. dist[q] = Unreachable
            BY <6>1 DEF Reached
          <6>. QED  BY <1>3, <1>4, <1>8, <6>1, <6>2
        <5>2. CASE q \notin found
          BY <1>3, <1>11, <5>2
        <5>. QED  BY <5>1, <5>2
      <4>3. dist'[q] \in Nat /\ dist[q] \in Nat /\ dist[p] \in Nat
        BY <1>3, <1>4, <1>11
      <4>4. dist'[q] <= dist'[p] + 1
        BY <3>1, <4>1, <4>2, <4>3
      <4>. QED  BY <4>4 DEF Triangle
    <3>3. CASE ~Reached(p)
      BY <3>1, <3>3 DEF Triangle
    <3>. QED  BY <3>2, <3>3
  <2>. QED  BY <2>1, <2>2, <2>3
<1>19. Spreading'
  BY <1>1, <1>16, <1>17, <1>18 DEF Spreading
<1>20. ASSUME NEW v \in Vertex \ {Source}, Reached(v)'
       PROVE  \E p \in Vertex : <<p, v>> \in edges /\ dist'[p] + 1 <= dist'[v]
  <2>1. CASE v \in found
    <3>1. PICK u \in work : <<u, v>> \in edges
      BY <1>10, <2>1
    <3>2. u \in Vertex /\ dist[u] = level /\ Reached(u) /\ u \notin found
      BY <1>2, <1>4, <1>9, <3>1 DEF Spreading
    <3>3. dist'[u] = level /\ dist'[v] = level + 1
      BY <1>11, <2>1, <3>2
    <3>4. dist'[u] + 1 <= dist'[v]
      BY <1>4, <3>3
    <3>. QED  BY <3>1, <3>2, <3>4
  <2>2. CASE v \notin found
    <3>1. Reached(v) /\ dist'[v] = dist[v]
      BY <1>11, <1>13, <1>20, <2>2
    <3>2. PICK p \in Vertex : <<p, v>> \in edges /\ dist[p] + 1 <= dist[v]
      BY <3>1 DEF Supported
    <3>3. dist[p] < Unreachable
      BY <1>3, <3>2
    <3>4. Reached(p) /\ p \notin found
      BY <1>3, <1>9, <3>3
    <3>5. dist'[p] = dist[p]
      BY <1>11, <3>4
    <3>. QED  BY <3>1, <3>2, <3>5
  <2>. QED  BY <2>1, <2>2
<1>21. Supported'
  BY <1>1, <1>20 DEF Supported
<1>. QED  BY <1>12, <1>19, <1>21

-----------------------------------------------------------------------------
(* A batch that begins finds no count; then the counts are current.        *)
LEMMA CountsCurrent ==
  ASSUME Listed, Stowed, phase \in {"idle", "invalidate"}
  PROVE  Counting /\ (phase = "idle" => touched = {})
<1>1. CASE phase = "invalidate"
  BY <1>1 DEF Listed
<1>2. CASE phase = "idle"
  <2>1. lost = NoLoss
    BY <1>2 DEF Stowed
  <2>2. touched = {}
    BY <2>1 DEF Listed, NoLoss
  <2>. QED  BY <2>2 DEF Listed, Counting
<1>. QED  BY <1>1, <1>2

(* Resetting what the lists name resets everything. *)
LEMMA Cleared ==
  ASSUME TypeOK, Listed, phase \notin {"idle", "recompute"}, ClearWorkspace
  PROVE  /\ affected' = {} /\ lost' = NoLoss /\ parents' = NoLoss
         /\ marked' = marked /\ touched' = {}
<1>1. marked = affected
  BY DEF Listed
<1>2. \A v \in Vertex : v \notin touched => lost[v] = 0 /\ parents[v] = 0
  BY DEF Listed
<1>3. /\ lost' = [v \in Vertex |-> IF v \in touched THEN 0 ELSE lost[v]]
      /\ parents' = [v \in Vertex |-> IF v \in touched THEN 0 ELSE parents[v]]
      /\ affected' = affected \ marked /\ touched' = {} /\ marked' = marked
  BY DEF ClearWorkspace
<1>. QED  BY <1>1, <1>2, <1>3 DEF NoLoss

-----------------------------------------------------------------------------
(* The constructor meets the invariant. *)
LEMMA InitOwes == Init => Owing
<1>. SUFFICES ASSUME Init PROVE Owing
  OBVIOUS
<1>. USE DEF Init
<1>1. /\ MaxVertices \in Nat /\ Source \in Nat /\ Unreachable \in Nat /\ Unreachable > MaxVertices
      /\ InitialCounts \subseteq 0 .. MaxVertices
  BY BFSConstants
<1>2. Source < vertexCount => Source \in Vertex
  BY <1>1 DEF Vertex
<1>3. \A v \in Vertex : dist[v] = IF v = Source /\ Source < vertexCount THEN 0 ELSE Unreachable
  OBVIOUS
<1>4. dist \in [Vertex -> 0 .. Unreachable] /\ work \subseteq Vertex
  BY <1>1, <1>2
<1>5. \A v \in Vertex : Reached(v) <=> v = Source /\ Source < vertexCount
  BY <1>1, <1>3 DEF Reached
<1>6. NoLoss \in [Vertex -> Nat] /\ NoOld \in [Vertex -> 0 .. Unreachable]
  BY <1>1 DEF NoLoss, NoOld
<1>7. TypeOK
  <2>1. /\ vertexCount \in 0 .. MaxVertices /\ reached \in 0 .. MaxVertices
        /\ batch \in Seq(Op) /\ next \in Nat
    BY <1>1
  <2>2. edges \subseteq Arc /\ dropped \subseteq Arc /\ added \subseteq Op
        /\ affected \subseteq Vertex /\ marked \subseteq Vertex /\ touched \subseteq Vertex
        /\ heap \subseteq (0 .. Unreachable) \X Vertex
    OBVIOUS
  <2>3. lost \in [Vertex -> Nat] /\ parents \in [Vertex -> Nat] /\ old \in [Vertex -> 0 .. Unreachable]
    BY <1>6, Zenon
  <2>4. directed \in BOOLEAN /\ usedFull \in BOOLEAN /\ phase = "recompute"
    OBVIOUS
  <2>. QED  BY <1>4, <2>1, <2>2, <2>3, <2>4 DEF TypeOK
<1>8. Stowed /\ next \in 1 .. Len(batch) + 1
  BY DEF Stowed
<1>9. ASSUME NEW u \in work PROVE Reached(u) /\ dist[u] + 1 <= Cardinality(ReachedSet)
  <2>1. u = Source /\ Source < vertexCount /\ u \in Vertex
    BY <1>2
  <2>2. ReachedSet = {Source} /\ dist[u] = 0 /\ Reached(u)
    BY <1>3, <1>5, <2>1 DEF ReachedSet
  <2>3. Cardinality({Source}) = 1
    BY FS_Singleton
  <2>4. Cardinality(ReachedSet) = 1
    BY <2>2, <2>3, Zenon
  <2>. QED  BY <2>2, <2>4
<1>10. \A u \in work, v \in Vertex : Reached(v) => dist[v] <= dist[u]
  BY <1>1, <1>2, <1>3, <1>5
<1>11. Spreading
  BY <1>9, <1>10 DEF Spreading
<1>12. NeverTooSmall
  BY <1>5 DEF NeverTooSmall
<1>. QED
  <2>1. phase = "recompute" /\ reached = 0
    OBVIOUS
  <2>. QED  BY <1>7, <1>8, <1>11, <1>12, <2>1 DEF IInv, Owing

(* recompute(), from its call to its return. *)
LEMMA RecomputeOwes == IInv /\ Recompute => Owing'
<1>. SUFFICES ASSUME IInv, Recompute PROVE Owing'
  OBVIOUS
<1>1. /\ TypeOK /\ Stowed /\ next \in 1 .. Len(batch) + 1
      /\ phase = "idle" /\ StartRecompute(vertexCount)
      /\ edges' = edges /\ directed' = directed /\ vertexCount' = vertexCount
      /\ UNCHANGED <<plan, next, marks, heap, old, usedFull>>
  BY DEF IInv, Owing, Recompute, graph
<1>2. /\ dist' \in [Vertex -> 0 .. Unreachable] /\ work' \subseteq Vertex
      /\ phase' = "recompute" /\ reached' = 0 /\ Spreading' /\ Supported'
  BY <1>1, RecomputeStarts
<1>3. TypeOK'
  <2>1. reached' \in 0 .. MaxVertices
    BY <1>2, BFSConstants
  <2>2. phase' \in {"idle", "invalidate", "update", "repair", "settle", "relax", "recompute"}
    BY <1>2
  <2>3. /\ batch' = batch /\ dropped' = dropped /\ added' = added
        /\ affected' = affected /\ lost' = lost /\ parents' = parents
        /\ marked' = marked /\ touched' = touched
        /\ next' = next /\ heap' = heap /\ old' = old /\ usedFull' = usedFull
    BY <1>1 DEF plan, marks
  <2>. QED  BY <1>1, <1>2, <2>1, <2>2, <2>3, Zenon DEF TypeOK
<1>4. Stowed' /\ next' \in 1 .. Len(batch') + 1
  BY <1>1, <1>2 DEF Stowed, plan, marks
<1>5. NeverTooSmall'
  BY <1>2 DEF NeverTooSmall, Supported
<1>. QED  BY <1>2, <1>3, <1>4, <1>5 DEF IInv, Owing

LEMMA LevelOwes == IInv /\ RecomputeLevel => Owing'
<1>. SUFFICES ASSUME IInv, RecomputeLevel PROVE Owing'
  OBVIOUS
<1>1. /\ TypeOK /\ Stowed /\ next \in 1 .. Len(batch) + 1
      /\ phase = "recompute" /\ reached = 0 /\ Spreading /\ NeverTooSmall
      /\ UNCHANGED <<graph, reached, phase, plan, next, marks, heap, old, usedFull>>
  BY DEF IInv, Owing, RecomputeLevel
<1>2. Supported
  BY <1>1 DEF NeverTooSmall, Supported
<1>3. /\ dist' \in [Vertex -> 0 .. Unreachable] /\ work' \subseteq Vertex
      /\ Spreading' /\ Supported'
  BY <1>1, <1>2, LevelKeeps
<1>4. TypeOK'
  BY <1>1, <1>3 DEF TypeOK, marks, graph, plan
<1>5. Stowed' /\ next' \in 1 .. Len(batch') + 1
  BY <1>1 DEF Stowed, plan, marks
<1>6. NeverTooSmall'
  BY <1>3 DEF NeverTooSmall, Supported
<1>. QED  BY <1>1, <1>3, <1>4, <1>5, <1>6 DEF IInv, Owing

LEMMA EndRecomputeOwes == IInv /\ EndRecompute => Owing'
<1>. SUFFICES ASSUME IInv, EndRecompute PROVE Owing'
  OBVIOUS
<1>1. /\ TypeOK /\ Stowed /\ next \in 1 .. Len(batch) + 1
      /\ phase = "recompute" /\ Spreading /\ NeverTooSmall
      /\ work = {} /\ phase' = "idle" /\ reached' = Cardinality(ReachedSet)
      /\ UNCHANGED <<graph, dist, plan, next, workspace, usedFull>>
  BY DEF IInv, Owing, EndRecompute, ReachedSet
<1>2. Supported
  BY <1>1 DEF NeverTooSmall, Supported
<1>3. Settled
  BY <1>1, <1>2, NothingOwed DEF Spreading
<1>4. Settled'
  BY <1>1, <1>3 DEF Settled, Triangle, Reached, graph
<1>5. reached' = Cardinality(ReachedSet') /\ reached' \in 0 .. MaxVertices
  <2>1. ReachedSet' = ReachedSet /\ ReachedSet \in SUBSET Vertex
    BY <1>1 DEF ReachedSet, Reached
  <2>2. Cardinality(ReachedSet) \in 0 .. MaxVertices
    BY <2>1, VertexSets
  <2>. QED  BY <1>1, <2>1, <2>2, Zenon
<1>6. TypeOK'
  BY <1>1, <1>5 DEF TypeOK, marks, graph, plan, workspace
<1>7. Stowed' /\ next' \in 1 .. Len(batch') + 1
  BY <1>1 DEF Stowed, plan, workspace, marks
<1>8. NeverTooSmall'
  BY <1>1 DEF NeverTooSmall
<1>. QED  BY <1>1, <1>4, <1>5, <1>6, <1>7, <1>8 DEF IInv, Owing

-----------------------------------------------------------------------------
(* Marking. *)
LEMMA BeginOwes == \A b \in Batches : IInv /\ Begin(b) => Owing'
<1>. SUFFICES ASSUME IInv, NEW b \in Batches, Begin(b) PROVE Owing'
  OBVIOUS
<1>. DEFINE E == Drops(b) \cap edges
<1>1. /\ TypeOK /\ Stowed /\ Listed /\ phase = "idle" /\ Settled /\ reached = Cardinality(ReachedSet)
      /\ phase' = "invalidate" /\ batch' = b /\ next' = 1 /\ usedFull' = FALSE
      /\ dropped' = Drops(b) /\ added' = {op \in LastWrites(directed, b) : op.add}
      /\ RecordLosses(E, {}, {}, {}) /\ E \in SUBSET edges
      /\ UNCHANGED <<graph, result, heap, old>>
  BY DEF IInv, Owing, Begin, Drops
<1>2. b \in Seq(Op) /\ Len(b) \in Nat /\ directed \in BOOLEAN
  BY <1>1, BFSConstants DEF TypeOK
<1>3. Counting
  BY <1>1, CountsCurrent
<1>. HIDE DEF E
<1>4. Round(E, {}, {}) /\ RoundListed({})
  BY <1>3, <1>1, LossesRecorded, LossesListed
<1>. USE DEF E
<1>5. lost' \in [Vertex -> Nat] /\ parents' \in [Vertex -> Nat] /\ touched' \subseteq Vertex
  <2>. HIDE DEF E
  <2>1. lost' \in [Vertex -> Nat]
    BY <1>4 DEF Round
  <2>2. parents' \in [Vertex -> Nat] /\ touched' \subseteq {} \cup Vertex
    BY <1>4 DEF RoundListed
  <2>. QED  BY <2>1, <2>2
<1>6. affected' \subseteq Vertex /\ marked' = affected' /\ work' = affected' /\ Source \notin affected'
  <2>1. affected = {}
    BY <1>1 DEF Stowed
  <2>2. PICK O \in SUBSET (Vertex \ (affected \cup {Source})) :
               affected' = affected \cup O /\ work' = {} \cup O /\ marked' = {} \cup O
    <3>. HIDE DEF E
    <3>. QED  BY <1>4 DEF Round
  <2>. QED  BY <2>1, <2>2
<1>7. LastWrites(directed, b) \subseteq Op
  <2>1. \A i \in DOMAIN b : b[i] \in Op
    BY <1>2
  <2>. QED  BY <2>1 DEF LastWrites
<1>8. Drops(b) \subseteq Arc
  <2>1. \A op \in LastWrites(directed, b) : ArcsOf(directed, op) \subseteq Arc
    BY <1>2, <1>7, ArcsTyped
  <2>. QED  BY <2>1 DEF Drops
<1>9. TypeOK'
  BY <1>1, <1>2, <1>5, <1>6, <1>7, <1>8 DEF TypeOK, marks, graph, result
<1>10. Stowed' /\ next' \in 1 .. Len(batch') + 1
  BY <1>1, <1>2, <1>6 DEF Stowed
<1>11. Marking'
  <2>1. affected = {} /\ lost = NoLoss
    BY <1>1 DEF Stowed
  <2>. QED  BY <1>3, <1>1, <2>1, BeginMarks
<1>12. Settled'
  BY <1>1 DEF Settled, Triangle, Reached, graph, result
<1>13. Derived'
  BY <1>1 DEF Derived, Drops, graph
<1>14. reached' = Cardinality(ReachedSet')
  <2>1. reached' = reached /\ ReachedSet' = ReachedSet
    BY <1>1 DEF ReachedSet, Reached, result
  <2>. QED  BY <1>1, <2>1, Zenon
<1>15. NeverTooSmall'
  BY <1>1 DEF NeverTooSmall
<1>. QED  BY <1>1, <1>9, <1>10, <1>11, <1>12, <1>13, <1>14, <1>15 DEF IInv, Owing

LEMMA InvalidateOwes == \A u \in Vertex : IInv /\ Invalidate(u) => Owing'
<1>. SUFFICES ASSUME IInv, NEW u \in Vertex, Invalidate(u) PROVE Owing'
  OBVIOUS
<1>. DEFINE E == {<<u, v>> : v \in Vertex} \cap (edges \ dropped)
<1>1. /\ TypeOK /\ Stowed /\ Listed /\ next \in 1 .. Len(batch) + 1
      /\ phase = "invalidate" /\ Settled /\ Derived /\ Marking /\ reached = Cardinality(ReachedSet)
      /\ u \in work /\ RecordLosses(E, work \ {u}, marked, touched) /\ E \in SUBSET edges
      /\ UNCHANGED <<graph, result, phase, plan, next, heap, old, usedFull>>
  BY DEF IInv, Owing, Invalidate
<1>2. Counting
  BY <1>1, CountsCurrent
<1>. HIDE DEF E
<1>3. Round(E, work \ {u}, marked) /\ RoundListed(touched)
  BY <1>2, <1>1, LossesRecorded, LossesListed
<1>. USE DEF E
<1>4. lost' \in [Vertex -> Nat] /\ parents' \in [Vertex -> Nat] /\ touched' \subseteq Vertex
  <2>. HIDE DEF E
  <2>1. lost' \in [Vertex -> Nat]
    BY <1>3 DEF Round
  <2>2. parents' \in [Vertex -> Nat] /\ touched' \subseteq touched \cup Vertex
    BY <1>3 DEF RoundListed
  <2>. QED  BY <1>1, <2>1, <2>2 DEF TypeOK
<1>5. affected' \subseteq Vertex /\ marked' \subseteq Vertex /\ work' \subseteq affected' /\ Source \notin affected'
  <2>1. work \subseteq affected /\ affected \subseteq Vertex /\ marked \subseteq Vertex /\ Source \notin affected
    BY <1>1 DEF Stowed, TypeOK
  <2>2. PICK O \in SUBSET (Vertex \ (affected \cup {Source})) :
               affected' = affected \cup O /\ work' = (work \ {u}) \cup O /\ marked' = marked \cup O
    <3>. HIDE DEF E
    <3>. QED  BY <1>3 DEF Round
  <2>. QED  BY <2>1, <2>2
<1>6. TypeOK'
  BY <1>1, <1>4, <1>5 DEF TypeOK, marks, graph, result, plan
<1>7. Stowed' /\ next' \in 1 .. Len(batch') + 1
  BY <1>1, <1>5 DEF Stowed, plan, marks
<1>8. Marking'
  <2>1. work \subseteq affected
    BY <1>1 DEF Stowed
  <2>. QED  BY <1>2, <1>1, <2>1, InvalidateMarks
<1>9. Settled'
  BY <1>1 DEF Settled, Triangle, Reached, graph, result
<1>10. Derived'
  BY <1>1 DEF Derived, Drops, graph, plan
<1>11. reached' = Cardinality(ReachedSet')
  <2>1. reached' = reached /\ ReachedSet' = ReachedSet
    BY <1>1 DEF ReachedSet, Reached, result
  <2>. QED  BY <1>1, <2>1, Zenon
<1>12. NeverTooSmall'
  BY <1>1 DEF NeverTooSmall
<1>. QED  BY <1>1, <1>6, <1>7, <1>8, <1>9, <1>10, <1>11, <1>12 DEF IInv, Owing

LEMMA EndInvalidateKeeps == IInv /\ EndInvalidate => Owing'
<1>. SUFFICES ASSUME IInv, EndInvalidate PROVE Owing'
  OBVIOUS
<1>1. /\ TypeOK /\ Stowed /\ next \in 1 .. Len(batch) + 1
      /\ marked = affected /\ phase = "invalidate" /\ Settled /\ Derived /\ Marking /\ reached = Cardinality(ReachedSet)
      /\ phase' = "update" /\ work' = {}
      /\ UNCHANGED <<graph, result, plan, next, marks, heap, old>>
  BY DEF IInv, Owing, Listed, EndInvalidate
<1>2. usedFull' \in BOOLEAN
  BY DEF EndInvalidate
<1>3. TypeOK'
  BY <1>1, <1>2 DEF TypeOK, marks, graph, result, plan
<1>4. Stowed' /\ next' \in 1 .. Len(batch') + 1
  BY <1>1 DEF Stowed, plan, marks
<1>5. Updating'
  <2>1. next = 1
    BY <1>1 DEF Stowed
  <2>. QED  BY <1>1, <2>1, EndInvalidateOwes
<1>6. Derived'
  BY <1>1 DEF Derived, Drops, graph, plan
<1>7. reached' = Cardinality(ReachedSet')
  <2>1. reached' = reached /\ ReachedSet' = ReachedSet
    BY <1>1 DEF ReachedSet, Reached, result
  <2>. QED  BY <1>1, <2>1, Zenon
<1>8. NeverTooSmall'
  BY <1>1 DEF NeverTooSmall
<1>. QED  BY <1>1, <1>3, <1>4, <1>5, <1>6, <1>7, <1>8 DEF IInv, Owing

-----------------------------------------------------------------------------
(* Updating the graph. *)
LEMMA UpdateGraphOwes == IInv /\ UpdateGraph => Owing'
<1>. SUFFICES ASSUME IInv, UpdateGraph PROVE Owing'
  OBVIOUS
<1>. DEFINE op == batch[next]
<1>1. /\ TypeOK /\ Stowed /\ next \in 1 .. Len(batch) + 1 /\ next <= Len(batch)
      /\ phase = "update" /\ Derived /\ Updating /\ reached = Cardinality(ReachedSet)
      /\ edges' = AfterOp(directed, edges, op) /\ vertexCount' = CountAfter(vertexCount, op)
      /\ next' = next + 1
      /\ UNCHANGED <<directed, result, phase, plan, workspace, usedFull>>
  BY DEF IInv, Owing, UpdateGraph
<1>2. batch \in Seq(Op) /\ Len(batch) \in Nat /\ op \in Op /\ directed \in BOOLEAN
      /\ vertexCount \in 0 .. MaxVertices /\ edges \subseteq Arc
  BY <1>1 DEF TypeOK
<1>3. edges' \subseteq Arc
  BY <1>1, <1>2, ArcsTyped DEF AfterOp
<1>4. vertexCount' \in 0 .. MaxVertices
  BY <1>1, <1>2, CountTyped
<1>. HIDE DEF op
<1>5. TypeOK'
  BY <1>1, <1>2, <1>3, <1>4 DEF TypeOK, marks, result, plan, workspace
<1>6. Stowed' /\ next' \in 1 .. Len(batch') + 1
  BY <1>1, <1>2 DEF Stowed, plan, workspace, marks
<1>7. Updating'
  BY <1>1, UpdateKeeps
<1>8. Derived'
  BY <1>1 DEF Derived, Drops, plan
<1>9. reached' = Cardinality(ReachedSet')
  <2>1. reached' = reached /\ ReachedSet' = ReachedSet
    BY <1>1 DEF ReachedSet, Reached, result
  <2>. QED  BY <1>1, <2>1, Zenon
<1>10. NeverTooSmall'
  BY <1>1 DEF NeverTooSmall
<1>. QED  BY <1>1, <1>5, <1>6, <1>7, <1>8, <1>9, <1>10 DEF IInv, Owing

LEMMA FallBackOwes == IInv /\ FallBack => Owing'
<1>. SUFFICES ASSUME IInv, FallBack PROVE Owing'
  OBVIOUS
<1>1. /\ TypeOK /\ Stowed /\ phase = "update"
      /\ ClearWorkspace /\ Listed
      /\ batch' = <<>> /\ next' = 1 /\ dropped' = {} /\ added' = {}
      /\ StartRecompute(vertexCount)
      /\ edges' = edges /\ directed' = directed /\ vertexCount' = vertexCount
      /\ UNCHANGED <<heap, old, usedFull>>
  BY DEF IInv, Owing, FallBack, ForgetBatch, graph
<1>2. /\ dist' \in [Vertex -> 0 .. Unreachable] /\ work' \subseteq Vertex
      /\ phase' = "recompute" /\ reached' = 0 /\ Spreading' /\ Supported'
  BY <1>1, RecomputeStarts
<1>3. /\ affected' = {} /\ lost' = NoLoss /\ parents' = NoLoss
      /\ marked' = marked /\ touched' = {}
  BY <1>1, Cleared
<1>4. lost' \in [Vertex -> Nat] /\ parents' \in [Vertex -> Nat]
  BY <1>3 DEF NoLoss
<1>5. reached' \in 0 .. MaxVertices /\ batch' \in Seq(Op) /\ next' \in Nat
      /\ next' \in 1 .. Len(batch') + 1
  BY <1>1, <1>2, BFSConstants
<1>6. TypeOK'
  BY <1>1, <1>2, <1>3, <1>4, <1>5 DEF TypeOK
<1>7. Stowed'
  <2>1. NoLoss' = NoLoss
    BY DEF NoLoss
  <2>. QED  BY <1>1, <1>2, <1>3, <2>1 DEF Stowed
<1>8. NeverTooSmall'
  BY <1>2 DEF NeverTooSmall, Supported
<1>. QED  BY <1>2, <1>5, <1>6, <1>7, <1>8 DEF IInv, Owing

-----------------------------------------------------------------------------
(* The repair. *)
LEMMA StartRepairKeeps == IInv /\ StartRepair => Owing'
<1>. SUFFICES ASSUME IInv, StartRepair PROVE Owing'
  OBVIOUS
<1>1. /\ TypeOK /\ Stowed /\ next \in 1 .. Len(batch) + 1
      /\ marked = affected /\ phase = "update" /\ Derived /\ Updating /\ reached = Cardinality(ReachedSet)
  BY DEF IInv, Owing, Listed, StartRepair
<1>2. /\ dist' \in [Vertex -> 0 .. Unreachable]
      /\ heap' \subseteq (0 .. Unreachable) \X affected
      /\ old' = dist /\ edges' = edges /\ affected' = affected /\ added' = added
      /\ directed' = directed /\ batch' = batch /\ next' = next /\ dropped' = dropped
      /\ vertexCount' = vertexCount /\ marks' = marks /\ work' = work
      /\ phase' = "repair" /\ usedFull' = usedFull
  BY <1>1, StartRepairEffect
<1>3. reached' = Cardinality(ReachedSet')
  BY <1>1, StartRepairCounts
<1>4. reached' \in 0 .. MaxVertices
  <2>1. ReachedSet' \in SUBSET Vertex
    BY DEF ReachedSet
  <2>2. Cardinality(ReachedSet') \in 0 .. MaxVertices
    BY <2>1, VertexSets
  <2>. QED  BY <1>3, <2>2, Zenon
<1>5. AddedPresent' /\ Repairing' /\ HeapOfAffected' /\ NeverTooSmall'
  BY <1>1, StartRepairOwes DEF Stowed
<1>6. TypeOK'
  BY <1>1, <1>2, <1>4 DEF TypeOK, marks
<1>7. Stowed' /\ next' \in 1 .. Len(batch') + 1
  BY <1>1, <1>2 DEF Stowed, marks
<1>. QED  BY <1>2, <1>3, <1>5, <1>6, <1>7 DEF IInv, Owing

LEMMA RepairOwes == IInv /\ Repair => Owing'
<1>. SUFFICES ASSUME IInv, Repair PROVE Owing'
  OBVIOUS
<1>1. /\ TypeOK /\ Stowed /\ next \in 1 .. Len(batch) + 1
      /\ phase = "repair" /\ AddedPresent /\ Repairing /\ HeapOfAffected /\ NeverTooSmall
      /\ reached = Cardinality(ReachedSet)
      /\ UNCHANGED <<graph, phase, plan, next, marks, work, old, usedFull>>
  BY DEF IInv, Owing, Repair
<1>2. Supported
  BY <1>1 DEF NeverTooSmall, Supported
<1>3. /\ dist' \in [Vertex -> 0 .. Unreachable]
      /\ heap' \subseteq (0 .. Unreachable) \X Vertex
      /\ Repairing' /\ HeapOfAffected' /\ AddedPresent' /\ Supported'
      /\ reached' = Cardinality(ReachedSet')
  BY <1>1, <1>2, RepairKeeps
<1>4. reached' \in 0 .. MaxVertices
  <2>1. ReachedSet' \in SUBSET Vertex
    BY DEF ReachedSet
  <2>2. Cardinality(ReachedSet') \in 0 .. MaxVertices
    BY <2>1, VertexSets
  <2>. QED  BY <1>3, <2>2, Zenon
<1>5. TypeOK'
  BY <1>1, <1>3, <1>4 DEF TypeOK, marks, graph, plan
<1>6. Stowed' /\ next' \in 1 .. Len(batch') + 1
  BY <1>1 DEF Stowed, plan, marks
<1>7. NeverTooSmall'
  BY <1>3 DEF NeverTooSmall, Supported
<1>. QED  BY <1>1, <1>3, <1>5, <1>6, <1>7 DEF IInv, Owing

LEMMA EndRepairKeeps == IInv /\ EndRepair => Owing'
<1>. SUFFICES ASSUME IInv, EndRepair PROVE Owing'
  OBVIOUS
<1>1. /\ TypeOK /\ Stowed /\ next \in 1 .. Len(batch) + 1
      /\ marked = affected /\ phase = "repair" /\ AddedPresent /\ Repairing /\ NeverTooSmall
      /\ reached = Cardinality(ReachedSet)
      /\ heap = {} /\ work' = {v \in marked : dist[v] < old[v]}
      /\ old' = NoOld /\ phase' = "settle"
      /\ UNCHANGED <<graph, result, plan, next, marks, heap, usedFull>>
  BY DEF IInv, Owing, Listed, EndRepair
<1>2. old' \in [Vertex -> 0 .. Unreachable] /\ NoOld' = NoOld
  BY <1>1, BFSConstants DEF NoOld
<1>3. work' \subseteq Vertex
  BY <1>1 DEF TypeOK
<1>4. TypeOK'
  BY <1>1, <1>2, <1>3 DEF TypeOK, marks, graph, result, plan
<1>5. Stowed' /\ next' \in 1 .. Len(batch') + 1
  BY <1>1, <1>2 DEF Stowed, plan, marks
<1>6. Pending'
  BY <1>1, EndRepairOwes
<1>7. AddedPresent'
  BY <1>1 DEF AddedPresent, Awaited, graph, plan
<1>8. NeverTooSmall'
  BY <1>1 DEF NeverTooSmall, Reached, graph, result
<1>9. reached' = Cardinality(ReachedSet')
  <2>1. reached' = reached /\ ReachedSet' = ReachedSet
    BY <1>1 DEF ReachedSet, Reached, result
  <2>. QED  BY <1>1, <2>1, Zenon
<1>. QED  BY <1>1, <1>4, <1>5, <1>6, <1>7, <1>8, <1>9 DEF IInv, Owing

-----------------------------------------------------------------------------
(* Settling and relaxing. *)
LEMMA SettleOwes == \A u \in Vertex : IInv /\ Settle(u) => Owing'
<1>. SUFFICES ASSUME IInv, NEW u \in Vertex, Settle(u) PROVE Owing'
  OBVIOUS
<1>1. /\ TypeOK /\ Stowed /\ next \in 1 .. Len(batch) + 1
      /\ phase = "settle" /\ AddedPresent /\ Pending /\ NeverTooSmall
      /\ reached = Cardinality(ReachedSet)
      /\ UNCHANGED <<graph, phase, plan, next, marks, heap, old, usedFull>>
  BY DEF IInv, Owing, Settle
<1>2. Supported
  BY <1>1 DEF NeverTooSmall, Supported
<1>3. /\ dist' \in [Vertex -> 0 .. Unreachable] /\ work' \subseteq Vertex
      /\ Pending' /\ AddedPresent' /\ Supported'
      /\ reached' = Cardinality(ReachedSet')
  BY <1>1, <1>2, SettlingKeeps
<1>4. reached' \in 0 .. MaxVertices
  <2>1. ReachedSet' \in SUBSET Vertex
    BY DEF ReachedSet
  <2>2. Cardinality(ReachedSet') \in 0 .. MaxVertices
    BY <2>1, VertexSets
  <2>. QED  BY <1>3, <2>2, Zenon
<1>5. TypeOK'
  BY <1>1, <1>3, <1>4 DEF TypeOK, marks, graph, plan
<1>6. Stowed' /\ next' \in 1 .. Len(batch') + 1
  BY <1>1 DEF Stowed, plan, marks
<1>7. NeverTooSmall'
  BY <1>3 DEF NeverTooSmall, Supported
<1>. QED  BY <1>1, <1>3, <1>5, <1>6, <1>7 DEF IInv, Owing

LEMMA StartRelaxOwes == IInv /\ StartRelax => Owing'
<1>. SUFFICES ASSUME IInv, StartRelax PROVE Owing'
  OBVIOUS
<1>1. /\ TypeOK /\ Stowed /\ next \in 1 .. Len(batch) + 1
      /\ phase = "settle" /\ AddedPresent /\ Pending /\ NeverTooSmall
      /\ reached = Cardinality(ReachedSet) /\ phase' = "relax"
      /\ UNCHANGED <<graph, result, plan, next, workspace, usedFull>>
  BY DEF IInv, Owing, StartRelax
<1>2. TypeOK'
  BY <1>1 DEF TypeOK, marks, graph, result, plan, workspace
<1>3. Stowed' /\ next' \in 1 .. Len(batch') + 1
  BY <1>1 DEF Stowed, plan, workspace, marks
<1>4. AddedPresent' /\ Pending'
  BY <1>1 DEF AddedPresent, Pending, Awaited, Triangle, Reached, graph, result, plan, workspace
<1>5. NeverTooSmall'
  BY <1>1 DEF NeverTooSmall, Reached, graph, result
<1>6. reached' = Cardinality(ReachedSet')
  <2>1. reached' = reached /\ ReachedSet' = ReachedSet
    BY <1>1 DEF ReachedSet, Reached, result
  <2>. QED  BY <1>1, <2>1, Zenon
<1>. QED  BY <1>1, <1>2, <1>3, <1>4, <1>5, <1>6 DEF IInv, Owing

LEMMA RelaxOwes == \A op \in added : IInv /\ Relax(op) => Owing'
<1>. SUFFICES ASSUME IInv, NEW op \in added, Relax(op) PROVE Owing'
  OBVIOUS
<1>1. /\ TypeOK /\ Stowed /\ next \in 1 .. Len(batch) + 1
      /\ phase = "relax" /\ AddedPresent /\ Pending /\ NeverTooSmall
      /\ reached = Cardinality(ReachedSet)
      /\ added' = added \ {op} /\ phase' \in {"settle", "relax"}
      /\ UNCHANGED <<graph, batch, dropped, next, marks, heap, old, usedFull>>
  BY DEF IInv, Owing, Relax
<1>2. Supported
  BY <1>1 DEF NeverTooSmall, Supported
<1>3. /\ dist' \in [Vertex -> 0 .. Unreachable] /\ work' \subseteq Vertex
      /\ Pending' /\ AddedPresent' /\ Supported'
      /\ reached' = Cardinality(ReachedSet')
  BY <1>1, <1>2, RelaxKeeps
<1>4. reached' \in 0 .. MaxVertices
  <2>1. ReachedSet' \in SUBSET Vertex
    BY DEF ReachedSet
  <2>2. Cardinality(ReachedSet') \in 0 .. MaxVertices
    BY <2>1, VertexSets
  <2>. QED  BY <1>3, <2>2, Zenon
<1>5. TypeOK'
  BY <1>1, <1>3, <1>4 DEF TypeOK, marks, graph
<1>6. Stowed' /\ next' \in 1 .. Len(batch') + 1
  BY <1>1 DEF Stowed, marks
<1>7. NeverTooSmall'
  BY <1>3 DEF NeverTooSmall, Supported
<1>. QED  BY <1>1, <1>3, <1>5, <1>6, <1>7 DEF IInv, Owing

LEMMA ReturnOwes == IInv /\ Return => Owing'
<1>. SUFFICES ASSUME IInv, Return PROVE Owing'
  OBVIOUS
<1>1. /\ TypeOK /\ Stowed /\ phase = "settle" /\ Pending /\ NeverTooSmall
      /\ reached = Cardinality(ReachedSet)
      /\ work = {} /\ added = {} /\ phase' = "idle"
      /\ ClearWorkspace /\ Listed
      /\ batch' = <<>> /\ next' = 1 /\ dropped' = {} /\ added' = {}
      /\ UNCHANGED <<graph, result, work, heap, old, usedFull>>
  BY DEF IInv, Owing, Return, ForgetBatch
<1>2. Supported
  BY <1>1 DEF NeverTooSmall, Supported
<1>3. Settled
  BY <1>1, <1>2, NothingOwed DEF Pending, Awaited
<1>4. Settled'
  BY <1>1, <1>3 DEF Settled, Triangle, Reached, graph, result
<1>5. /\ affected' = {} /\ lost' = NoLoss /\ parents' = NoLoss
       /\ marked' = marked /\ touched' = {}
  BY <1>1, Cleared
<1>6. lost' \in [Vertex -> Nat] /\ parents' \in [Vertex -> Nat] /\ NoLoss' = NoLoss
  BY <1>5 DEF NoLoss
<1>7. batch' \in Seq(Op) /\ next' \in Nat /\ next' \in 1 .. Len(batch') + 1
  BY <1>1
<1>8. TypeOK'
  BY <1>1, <1>6, <1>7, <1>5 DEF TypeOK, marks, graph, result
<1>9. Stowed'
  BY <1>1, <1>6, <1>5 DEF Stowed
<1>10. NeverTooSmall'
  BY <1>1 DEF NeverTooSmall
<1>11. reached' = Cardinality(ReachedSet')
  <2>1. reached' = reached /\ ReachedSet' = ReachedSet
    BY <1>1 DEF ReachedSet, Reached, result
  <2>. QED  BY <1>1, <2>1, Zenon
<1>. QED  BY <1>1, <1>4, <1>7, <1>8, <1>9, <1>10, <1>11 DEF IInv, Owing

-----------------------------------------------------------------------------
(* Every step keeps the invariant. *)
LEMMA StepOwes == IInv /\ [Next]_vars => Owing'
<1>. SUFFICES ASSUME IInv, [Next]_vars PROVE Owing'
  OBVIOUS
<1>1. CASE Recompute
  BY <1>1, RecomputeOwes
<1>2. CASE \E b \in Batches : Begin(b)
  BY <1>2, BeginOwes
<1>3. CASE RecomputeLevel \/ EndRecompute
  BY <1>3, LevelOwes, EndRecomputeOwes
<1>4. CASE \E u \in Vertex : Invalidate(u) \/ Settle(u)
  BY <1>4, InvalidateOwes, SettleOwes
<1>5. CASE EndInvalidate \/ UpdateGraph \/ FallBack
  BY <1>5, EndInvalidateKeeps, UpdateGraphOwes, FallBackOwes
<1>6. CASE StartRepair \/ Repair \/ EndRepair
  BY <1>6, StartRepairKeeps, RepairOwes, EndRepairKeeps
<1>7. CASE StartRelax \/ \E op \in added : Relax(op)
  BY <1>7, StartRelaxOwes, RelaxOwes
<1>8. CASE Return
  BY <1>8, ReturnOwes
<1>9. CASE UNCHANGED vars
  <2>1. /\ UNCHANGED <<directed, edges, vertexCount, dist, reached, phase, batch, next>>
        /\ UNCHANGED <<dropped, added, affected, lost, parents, marked, touched, work, heap, old, usedFull>>
    BY <1>9 DEF vars, graph, result, plan, workspace, marks
  <2>2. TypeOK' /\ Stowed' /\ next' \in 1 .. Len(batch') + 1
    BY <2>1 DEF IInv, Owing, TypeOK, Stowed, NoLoss, NoOld
  <2>3. (Settled' <=> Settled) /\ (Derived' <=> Derived) /\ (AddedPresent' <=> AddedPresent)
    BY <2>1 DEF Settled, Triangle, Reached, Derived, Drops, AddedPresent, Awaited
  <2>4. Marking' <=> Marking
    BY <2>1, Zenon DEF Marking, LostParents, ShortestParents, ShortestParent, Reached
  <2>5. Updating' <=> Updating
    <3>1. \A p, q : (Triangle(p, q)' <=> Triangle(p, q)) /\ (Survives(p, q)' <=> Survives(p, q))
      BY <2>1 DEF Triangle, Reached, Survives, ShortestParent
    <3>2. \A a : LastAdds(a, next - 1)' <=> LastAdds(a, next - 1)
      BY <2>1 DEF LastAdds, Decides
    <3>3. \A v : Reached(v)' <=> Reached(v)
      BY <2>1 DEF Reached
    <3>. QED  BY <2>1, <3>1, <3>2, <3>3 DEF Updating
  <2>6. (Repairing' <=> Repairing) /\ (HeapOfAffected' <=> HeapOfAffected) /\ (Pending' <=> Pending)
    BY <2>1, Zenon DEF Repairing, HeapOfAffected, Pending, Awaited, Triangle, Reached
  <2>7. ReachedSet' = ReachedSet /\ (NeverTooSmall' <=> NeverTooSmall)
    BY <2>1, Zenon DEF ReachedSet, Reached, NeverTooSmall
  <2>8. Spreading' <=> Spreading
    BY <2>1, <2>7, Zenon DEF Spreading, Triangle, Reached
  <2>9. reached = Cardinality(ReachedSet) <=> reached' = Cardinality(ReachedSet')
    BY <2>1, <2>7, Zenon
  <2>. QED
    BY <2>1, <2>2, <2>3, <2>4, <2>5, <2>6, <2>7, <2>8, <2>9 DEF IInv, Owing
<1>. QED
  BY <1>1, <1>2, <1>3, <1>4, <1>5, <1>6, <1>7, <1>8, <1>9 DEF Next, Step

(* The lists stay complete, and the counts current while they are used.    *)
LEMMA StepListed == IInv /\ [Next]_vars => Listed'
<1>. SUFFICES ASSUME IInv, [Next]_vars PROVE Listed'
  OBVIOUS
<1>1. TypeOK /\ Stowed /\ Listed
  BY DEF IInv, Owing
<1>2. ASSUME marks' = marks, phase' # "invalidate",
             phase' \notin {"idle", "recompute"} => phase \notin {"idle", "recompute"}
      PROVE  Listed'
  BY <1>1, <1>2 DEF Listed, marks
<1>3. CASE \E b \in Batches : Begin(b)
  <2>1. PICK b \in Batches : Begin(b)
    BY <1>3
  <2>. DEFINE E == Drops(b) \cap edges
  <2>2. /\ phase = "idle" /\ phase' = "invalidate" /\ edges' = edges /\ dist' = dist
        /\ RecordLosses(E, {}, {}, {}) /\ E \in SUBSET edges
    BY <2>1 DEF Begin, Drops, graph, result
  <2>3. Counting /\ touched = {} /\ affected = {}
    BY <1>1, <2>2, CountsCurrent DEF Stowed
  <2>4. {} = {v \in Vertex : lost[v] # 0} /\ \A v \in Vertex : parents[v] = 0
    BY <1>1, <2>3 DEF Listed
  <2>. HIDE DEF E
  <2>5. RoundListed({})
    BY <1>1, <2>2, <2>3, LossesListed
  <2>6. /\ \A v \in Vertex : parents'[v] \in {0, Cardinality(ShortestParents(v))}
        /\ \A v \in Vertex : parents'[v] # 0 => parents[v] # 0 \/ lost'[v] # 0
        /\ {} = {v \in Vertex : lost[v] # 0} => touched' = {v \in Vertex : lost'[v] # 0}
    BY <2>5 DEF RoundListed
  <2>7. touched' = {v \in Vertex : lost'[v] # 0}
    BY <2>4, <2>6, Zenon
  <2>8. marked' = affected'
    BY <2>2, <2>3 DEF RecordLosses
  <2>9. \A v \in Vertex : ShortestParents(v)' = ShortestParents(v)
    BY <2>2 DEF ShortestParents, ShortestParent, Reached
  <2>10. Counting'
    BY <2>6, <2>9, Zenon DEF Counting
  <2>. QED  BY <2>2, <2>4, <2>6, <2>7, <2>8, <2>10 DEF Listed
<1>4. CASE \E u \in Vertex : Invalidate(u)
  <2>1. PICK u \in Vertex : Invalidate(u)
    BY <1>4
  <2>. DEFINE E == {<<u, v>> : v \in Vertex} \cap (edges \ dropped)
  <2>2. /\ phase = "invalidate" /\ phase' = "invalidate" /\ edges' = edges /\ dist' = dist
        /\ RecordLosses(E, work \ {u}, marked, touched) /\ E \in SUBSET edges
    BY <2>1 DEF Invalidate, graph, result
  <2>3. Counting /\ marked = affected /\ touched = {v \in Vertex : lost[v] # 0}
        /\ \A v \in Vertex : parents[v] # 0 => v \in touched
    BY <1>1, <2>2 DEF Listed
  <2>. HIDE DEF E
  <2>4. RoundListed(touched)
    BY <1>1, <2>2, <2>3, LossesListed
  <2>5. /\ \A v \in Vertex : parents'[v] \in {0, Cardinality(ShortestParents(v))}
        /\ \A v \in Vertex : parents'[v] # 0 => parents[v] # 0 \/ lost'[v] # 0
        /\ touched' = {v \in Vertex : lost'[v] # 0}
    BY <2>3, <2>4 DEF RoundListed
  <2>6. marked' = affected' /\ touched \subseteq touched'
    BY <2>2, <2>3 DEF RecordLosses
  <2>7. \A v \in Vertex : ShortestParents(v)' = ShortestParents(v)
    BY <2>2 DEF ShortestParents, ShortestParent, Reached
  <2>8. Counting'
    BY <2>5, <2>7, Zenon DEF Counting
  <2>. QED  BY <2>3, <2>5, <2>6, <2>8 DEF Listed
<1>5. CASE FallBack \/ Return
  <2>1. /\ phase \notin {"idle", "recompute"} /\ ClearWorkspace
        /\ phase' \in {"idle", "recompute"}
    BY <1>5 DEF FallBack, Return, StartRecompute
  <2>2. lost' = NoLoss /\ parents' = NoLoss /\ touched' = {}
    BY <1>1, <2>1, Cleared
  <2>. QED  BY <2>1, <2>2 DEF Listed, NoLoss
<1>6. CASE Recompute \/ RecomputeLevel \/ EndRecompute \/ EndInvalidate \/ UpdateGraph
  <2>1. /\ marks' = marks /\ phase' # "invalidate"
        /\ phase' \notin {"idle", "recompute"} => phase \notin {"idle", "recompute"}
    BY <1>6 DEF Recompute, StartRecompute, RecomputeLevel, EndRecompute, EndInvalidate,
                UpdateGraph, workspace
  <2>. QED  BY <1>2, <2>1
<1>7. CASE \/ StartRepair \/ Repair \/ EndRepair \/ StartRelax
           \/ (\E u \in Vertex : Settle(u)) \/ \E op \in added : Relax(op)
  <2>1. /\ marks' = marks /\ phase' # "invalidate"
        /\ phase' \notin {"idle", "recompute"} => phase \notin {"idle", "recompute"}
    BY <1>7 DEF StartRepair, Repair, EndRepair, StartRelax, Settle, Relax, workspace
  <2>. QED  BY <1>2, <2>1
<1>8. CASE UNCHANGED vars
  <2>1. marks' = marks /\ phase' = phase /\ edges' = edges /\ dist' = dist
    BY <1>8 DEF vars, graph, result, workspace
  <2>2. \A v \in Vertex : ShortestParents(v)' = ShortestParents(v)
    BY <2>1 DEF ShortestParents, ShortestParent, Reached
  <2>3. parents' = parents /\ (Counting => Counting')
    BY <2>1, <2>2, Zenon DEF Counting, marks
  <2>. QED  BY <1>1, <2>1, <2>3 DEF Listed, marks
<1>. QED
  BY <1>3, <1>4, <1>5, <1>6, <1>7, <1>8 DEF Next, Step

LEMMA InitListed == Init => Listed
<1>. SUFFICES ASSUME Init PROVE Listed
  OBVIOUS
<1>1. /\ touched = {} /\ lost = NoLoss /\ parents = NoLoss /\ phase = "recompute"
  BY DEF Init
<1>. QED  BY <1>1 DEF Listed, NoLoss

LEMMA InitKept == Init => IInv
BY InitOwes, InitListed DEF IInv

LEMMA StepKept == IInv /\ [Next]_vars => IInv'
BY StepOwes, StepListed DEF IInv

LEMMA Owed == Spec => []IInv
<1>1. Init => IInv
  BY InitKept
<1>2. IInv /\ [Next]_vars => IInv'
  BY StepKept
<1>. QED  BY <1>1, <1>2, PTL DEF Spec

(* Every reachable state is well typed, and the cached count is the number *)
(* of reached vertices after every change of a distance, in the repair,    *)
(* the propagation and the relaxation as well as between calls: the code   *)
(* never recounts, it adds and subtracts.                                  *)
THEOREM ReachedIsCounted == Spec => []ReachedCounted
<1>1. IInv => ReachedCounted
  <2>1. ReachedSet = {v \in Vertex : Reached(v)}
    BY DEF ReachedSet
  <2>2. ASSUME reached = Cardinality(ReachedSet)
        PROVE  reached = Cardinality({v \in Vertex : Reached(v)})
    BY <2>1, <2>2, Zenon
  <2>. QED  BY <2>2 DEF IInv, Owing, ReachedCounted
<1>. QED  BY <1>1, Owed, PTL

(* Counting lost parents marks every vertex that loses its support, chains *)
(* and cycles of orphans included: a vertex left unmarked without fallback *)
(* keeps a shortest parent that is itself unmarked.                        *)
THEOREM MarkingComplete == Spec => []SurvivorsSupported
<1>1. ASSUME IInv PROVE SurvivorsSupported
  <2>1. ASSUME phase = "invalidate", work = {}, NEW v \in Vertex \ (affected \cup {Source}), Reached(v)
        PROVE  ShortestParents(v) \cap {p \in Vertex \ affected : <<p, v>> \notin dropped} # {}
    <3>1. PICK p \in ShortestParents(v) : p \notin affected /\ <<p, v>> \notin dropped
      BY <1>1, <2>1, MarkedSupported DEF IInv, Owing
    <3>2. p \in Vertex
      BY DEF ShortestParents
    <3>. QED  BY <3>1, <3>2
  <2>. QED  BY <2>1 DEF SurvivorsSupported
<1>2. IInv => SurvivorsSupported
  BY <1>1
<1>. QED  BY <1>2, Owed, PTL

(* No intermediate distance is too small: while the repair, the            *)
(* propagation and the relaxation only lower distances, every reached      *)
(* vertex stays at least one farther than some neighbour.                  *)
THEOREM NoneTooSmall == Spec => []NeverTooSmall
<1>1. IInv => NeverTooSmall
  BY DEF IInv, Owing
<1>. QED  BY <1>1, Owed, PTL

(* Resetting what the two lists name is enough: whatever path apply() took *)
(* and wherever its marking stopped, every mark, every loss count and every*)
(* cached count is of a listed vertex, so that the next call finds none of *)
(* them, and the counts it then caches are those of its own graph.         *)
THEOREM WorkspaceLeftClean == Spec => []WorkspaceClean
<1>1. IInv => WorkspaceClean
  <2>1. ASSUME IInv, phase = "idle" PROVE affected = {} /\ lost = NoLoss /\ parents = NoLoss
    <3>1. TypeOK /\ Stowed /\ Listed
      BY <2>1 DEF IInv, Owing
    <3>2. touched = {}
      BY <2>1, <3>1, CountsCurrent
    <3>3. \A v \in Vertex : parents[v] = 0
      BY <3>1, <3>2 DEF Listed
    <3>4. parents \in [Vertex -> Nat]
      BY <3>1 DEF TypeOK
    <3>5. parents = NoLoss
      BY <3>3, <3>4 DEF NoLoss
    <3>. QED  BY <2>1, <3>1, <3>5 DEF Stowed
  <2>2. ASSUME IInv, phase = "invalidate" PROVE Counting
    BY <2>2 DEF IInv, Listed
  <2>. QED  BY <2>1, <2>2 DEF WorkspaceClean, Counting
<1>. QED  BY <1>1, Owed, PTL

-----------------------------------------------------------------------------
(* Where the graph has the source from the start, the source stays at 0. *)
LEMMA InitAnchored == SourceFromStart /\ Init => Anchored
<1>. SUFFICES ASSUME SourceFromStart, Init PROVE Anchored
  OBVIOUS
<1>1. Source < vertexCount /\ vertexCount \in 0 .. MaxVertices /\ Source \in Nat /\ MaxVertices \in Nat
  BY BFSConstants DEF Init, SourceFromStart
<1>2. Source \in Vertex
  BY <1>1 DEF Vertex
<1>3. dist[Source] = 0
  BY <1>1, <1>2 DEF Init
<1>. QED  BY <1>1, <1>2, <1>3 DEF Anchored

LEMMA LoweredAnchored ==
  ASSUME TypeOK, Anchored, NEW C, Lowers(C), vertexCount' = vertexCount
  PROVE  Anchored'
<1>1. dist[Source] = 0 /\ Source \in Vertex /\ dist'[Source] \in Nat /\ dist'[Source] <= dist[Source]
  BY LoweredNumbers DEF Anchored
<1>2. dist'[Source] = 0
  BY <1>1
<1>. QED  BY <1>2 DEF Anchored

LEMMA StepAnchored == IInv /\ Anchored /\ [Next]_vars => Anchored'
<1>. SUFFICES ASSUME IInv, Anchored, [Next]_vars PROVE Anchored'
  OBVIOUS
<1>1. /\ TypeOK /\ Source \in Vertex /\ Source < vertexCount /\ dist[Source] = 0
      /\ Source \notin affected /\ Listed
  BY DEF IInv, Owing, Stowed, Anchored
<1>2. CASE vertexCount' = vertexCount /\ dist' = dist
  BY <1>1, <1>2 DEF Anchored
<1>3. CASE vertexCount' = vertexCount /\ StartRecompute(vertexCount)
  BY <1>1, <1>3 DEF Anchored, StartRecompute
<1>4. CASE UpdateGraph
  <2>1. batch[next] \in Op /\ vertexCount \in 0 .. MaxVertices
    BY <1>1, <1>4 DEF IInv, Owing, UpdateGraph, TypeOK
  <2>2. CountAfter(vertexCount, batch[next]) \in 0 .. MaxVertices
        /\ vertexCount <= CountAfter(vertexCount, batch[next])
    BY <2>1, CountTyped
  <2>3. vertexCount' = CountAfter(vertexCount, batch[next]) /\ dist' = dist
    BY <1>4 DEF UpdateGraph, result
  <2>4. vertexCount' \in Int /\ vertexCount <= vertexCount' /\ Source \in Int /\ vertexCount \in Int
    BY <2>1, <2>2, <2>3, BFSConstants
  <2>. QED  BY <1>1, <2>3, <2>4 DEF Anchored
<1>5. CASE RecomputeLevel
  <2>1. Reached(Source)
    BY <1>1, BFSConstants DEF Reached
  <2>2. dist'[Source] = dist[Source] /\ vertexCount' = vertexCount
    BY <1>1, <1>5, <2>1 DEF RecomputeLevel, graph
  <2>. QED  BY <1>1, <2>2 DEF Anchored
<1>6. CASE StartRepair
  <2>1. dist'[Source] = dist[Source] /\ vertexCount' = vertexCount
    BY <1>1, <1>6, StartRepairEffect DEF Listed, StartRepair
  <2>. QED  BY <1>1, <2>1 DEF Anchored
<1>7. CASE Repair
  <2>1. \E C \in SUBSET affected : Lowers(C)
    BY <1>1, <1>7, RepairLowers DEF IInv, Owing, Repair
  <2>2. vertexCount' = vertexCount
    BY <1>7 DEF Repair, graph
  <2>. QED  BY <1>1, <2>1, <2>2, LoweredAnchored
<1>8. ASSUME NEW op \in added, Relax(op) PROVE Anchored'
  <2>1. \E C \in SUBSET Vertex : Lowers(C)
    BY <1>1, <1>8, RelaxLowers
  <2>2. vertexCount' = vertexCount
    BY <1>8 DEF Relax, graph
  <2>. QED  BY <1>1, <2>1, <2>2, LoweredAnchored
<1>9. ASSUME NEW u \in Vertex, Settle(u) PROVE Anchored'
  <2>1. dist'[Source] = IF Reached(u) /\ <<u, Source>> \in edges /\ dist[u] + 1 < dist[Source]
                        THEN dist[u] + 1 ELSE dist[Source]
    BY <1>1, <1>9 DEF Settle
  <2>2. dist[u] \in Nat
    BY <1>1, DistanceType
  <2>3. vertexCount' = vertexCount
    BY <1>9 DEF Settle, graph
  <2>. QED  BY <1>1, <2>1, <2>2, <2>3 DEF Anchored
<1>10. CASE Recompute \/ FallBack
  BY <1>3, <1>10 DEF Recompute, FallBack, graph
<1>11. CASE \/ \E b \in Batches : Begin(b)
            \/ EndRecompute \/ \E u \in Vertex : Invalidate(u)
            \/ EndInvalidate \/ EndRepair \/ StartRelax \/ Return \/ UNCHANGED vars
  <2>1. vertexCount' = vertexCount /\ dist' = dist
    BY <1>11 DEF Begin, EndRecompute, Invalidate, EndInvalidate, EndRepair, StartRelax, Return,
                 vars, graph, result
  <2>. QED  BY <1>2, <2>1
<1>. QED
  BY <1>4, <1>5, <1>6, <1>7, <1>8, <1>9, <1>10, <1>11 DEF Next, Step

(* If the graph has the source when the analytic is built on it, then      *)
(* between calls the distances are exact for the current graph, whatever   *)
(* batches were applied, whichever of them were repaired and whichever     *)
(* fell back to a full BFS.  (Without the source from the start this is    *)
(* false: see the run bfs_late_source.)                                    *)
THEOREM DistancesExact == SourceFromStart => (Spec => []ExactAtRest)
<1>1. SourceFromStart /\ Init => IInv /\ Anchored
  BY InitKept, InitAnchored
<1>2. (IInv /\ Anchored) /\ [Next]_vars => (IInv /\ Anchored)'
  BY StepKept, StepAnchored
<1>3. ASSUME IInv, Anchored, phase = "idle" PROVE Exact
  <2>1. Settled /\ edges \subseteq Arc
    BY <1>3 DEF IInv, Owing, TypeOK
  <2>2. \A a \in edges : a = <<a[1], a[2]>> /\ a[1] \in Vertex /\ a[2] \in Vertex
    BY <2>1 DEF Arc
  <2>3. \A a \in edges : Reached(a[1]) => dist[a[2]] <= dist[a[1]] + 1
    BY <2>1, <2>2 DEF Settled, Triangle
  <2>. QED  BY <1>3, <2>1, <2>3 DEF Exact, Settled, Anchored
<1>4. IInv /\ Anchored => ExactAtRest
  BY <1>3 DEF ExactAtRest
<1>. QED  BY <1>1, <1>2, <1>4, PTL DEF Spec

-----------------------------------------------------------------------------
(* A path of n edges from the source to v. *)
PathTo(v, n) ==
  \E f \in [0 .. n -> Vertex] :
    /\ f[0] = Source /\ f[n] = v
    /\ \A i \in 0 .. n - 1 : <<f[i], f[i + 1]>> \in edges

(* dist is the shortest path length, and unreachable means no path. *)
ShortestPathLengths ==
  phase = "idle" =>
    \A v \in Vertex : /\ Reached(v) => PathTo(v, dist[v])
                      /\ \A n \in Nat : PathTo(v, n) => Reached(v) /\ dist[v] <= n

(* The empty path, and a path one edge longer. *)
LEMMA PathEmpty == Source \in Vertex => PathTo(Source, 0)
<1>. SUFFICES ASSUME Source \in Vertex PROVE PathTo(Source, 0)
  OBVIOUS
<1>. DEFINE f == [i \in 0 .. 0 |-> Source]
<1>1. f \in [0 .. 0 -> Vertex] /\ f[0] = Source
  OBVIOUS
<1>2. \A i \in 0 .. 0 - 1 : <<f[i], f[i + 1]>> \in edges
  OBVIOUS
<1>. HIDE DEF f
<1>. QED  BY <1>1, <1>2 DEF PathTo

LEMMA PathExtended ==
  ASSUME NEW n \in Nat, NEW p \in Vertex, NEW v \in Vertex, PathTo(p, n), <<p, v>> \in edges
  PROVE  PathTo(v, n + 1)
<1>1. PICK f \in [0 .. n -> Vertex] :
        /\ f[0] = Source /\ f[n] = p
        /\ \A i \in 0 .. n - 1 : <<f[i], f[i + 1]>> \in edges
  BY DEF PathTo
<1>. DEFINE g == [i \in 0 .. n + 1 |-> IF i = n + 1 THEN v ELSE f[i]]
<1>2. g \in [0 .. n + 1 -> Vertex]
  <2>1. \A i \in 0 .. n + 1 : i # n + 1 => i \in 0 .. n
    OBVIOUS
  <2>2. \A i \in 0 .. n + 1 : (IF i = n + 1 THEN v ELSE f[i]) \in Vertex
    BY <2>1
  <2>. QED  BY <2>2
<1>3. g[n + 1] = v /\ \A i \in 0 .. n : g[i] = f[i]
  OBVIOUS
<1>. HIDE DEF g
<1>4. g[0] = Source
  BY <1>1, <1>3
<1>5. ASSUME NEW i \in 0 .. (n + 1) - 1 PROVE <<g[i], g[i + 1]>> \in edges
  <2>1. CASE i = n
    BY <1>1, <1>3, <2>1
  <2>2. CASE i # n
    <3>1. i \in 0 .. n - 1 /\ i \in 0 .. n /\ i + 1 \in 0 .. n
      BY <2>2
    <3>. QED  BY <1>1, <1>3, <3>1
  <2>. QED  BY <2>1, <2>2
<1>. QED  BY <1>2, <1>3, <1>4, <1>5 DEF PathTo

(* Its last edge taken off. *)
LEMMA PathShortened ==
  ASSUME NEW n \in Nat, NEW v, PathTo(v, n + 1)
  PROVE  \E p \in Vertex : PathTo(p, n) /\ <<p, v>> \in edges
<1>1. PICK f \in [0 .. n + 1 -> Vertex] :
        /\ f[0] = Source /\ f[n + 1] = v
        /\ \A i \in 0 .. (n + 1) - 1 : <<f[i], f[i + 1]>> \in edges
  BY DEF PathTo
<1>. DEFINE g == [i \in 0 .. n |-> f[i]]
<1>2. g \in [0 .. n -> Vertex]
  OBVIOUS
<1>3. \A i \in 0 .. n : g[i] = f[i]
  OBVIOUS
<1>. HIDE DEF g
<1>4. ASSUME NEW i \in 0 .. n - 1 PROVE <<g[i], g[i + 1]>> \in edges
  <2>1. i \in 0 .. n /\ i + 1 \in 0 .. n /\ i \in 0 .. (n + 1) - 1
    OBVIOUS
  <2>. QED  BY <1>1, <1>3, <2>1
<1>5. g[0] = Source /\ f[n] \in Vertex /\ g[n] = f[n]
  BY <1>1, <1>3
<1>6. PathTo(f[n], n)
  BY <1>2, <1>4, <1>5 DEF PathTo
<1>7. <<f[n], v>> \in edges
  BY <1>1
<1>. QED  BY <1>5, <1>6, <1>7

(* A reached vertex lies at the end of a path as long as its distance: the *)
(* nearest one that did not would have a parent that did.                  *)
LEMMA ReachedByPath ==
  ASSUME TypeOK, Settled, Anchored, NEW w \in Vertex, Reached(w)
  PROVE  PathTo(w, dist[w])
<1>. DEFINE Bad == {n \in Nat : \E v \in Vertex : Reached(v) /\ dist[v] = n /\ ~PathTo(v, n)}
<1>0. \A v \in Vertex : dist[v] \in Nat /\ dist[v] <= Unreachable /\ (Reached(v) <=> dist[v] < Unreachable)
  BY DistanceType
<1>1. Unreachable \in Nat
  BY BFSConstants
<1>2. SUFFICES ASSUME Bad # {} PROVE FALSE
  BY <1>0
<1>3. PICK n \in Bad : \A m \in Bad : n <= m
  <2>1. Bad \in SUBSET Nat
    OBVIOUS
  <2>. HIDE DEF Bad
  <2>. QED  BY <1>2, <2>1, LeastOf
<1>4. PICK v \in Vertex : Reached(v) /\ dist[v] = n /\ ~PathTo(v, n)
  OBVIOUS
<1>5. v # Source
  <2>1. Source \in Vertex /\ dist[Source] = 0
    BY DEF Anchored
  <2>2. PathTo(Source, 0)
    BY <2>1, PathEmpty
  <2>. QED  BY <1>4, <2>1, <2>2
<1>6. PICK p \in Vertex : <<p, v>> \in edges /\ dist[p] + 1 = dist[v]
  BY <1>4, <1>5 DEF Settled
<1>7. dist[p] \in Nat /\ dist[p] + 1 = n /\ ~(n <= dist[p]) /\ Reached(p)
  BY <1>0, <1>1, <1>4, <1>6
<1>8. dist[p] \notin Bad
  <2>. HIDE DEF Bad
  <2>. QED  BY <1>3, <1>7
<1>9. PathTo(p, dist[p])
  BY <1>7, <1>8
<1>10. PathTo(v, dist[p] + 1)
  BY <1>6, <1>7, <1>9, PathExtended
<1>. QED  BY <1>4, <1>7, <1>10

(* The distances below a reached vertex's are all taken, so there are as   *)
(* many vertices: a distance never comes near unreachable.                 *)
LEMMA DistancesSmall ==
  ASSUME TypeOK, Settled, Anchored, NEW w \in Vertex, Reached(w)
  PROVE  dist[w] + 1 <= MaxVertices
<1>. DEFINE L == dist[w]
            Taken(k) == \E v \in Vertex : Reached(v) /\ dist[v] = k
            Bad == {m \in Nat : m <= L /\ ~Taken(L - m)}
<1>1. /\ \A v \in Vertex : dist[v] \in Nat /\ dist[v] <= Unreachable
      /\ \A v \in Vertex : Reached(v) <=> dist[v] < Unreachable
      /\ Unreachable \in Nat /\ MaxVertices \in Nat /\ L \in Nat
  BY DistanceType, BFSConstants
<1>2. Bad = {}
  <2>1. SUFFICES ASSUME Bad # {} PROVE FALSE
    OBVIOUS
  <2>2. PICK m \in Bad : \A x \in Bad : m <= x
    <3>1. Bad \in SUBSET Nat
      OBVIOUS
    <3>. HIDE DEF Bad
    <3>. QED  BY <2>1, <3>1, LeastOf
  <2>3. m \in Nat /\ m <= L /\ ~Taken(L - m)
    OBVIOUS
  <2>4. m # 0
    <3>1. Taken(L)
      OBVIOUS
    <3>2. L - 0 = L
      BY <1>1
    <3>. HIDE DEF Taken, L
    <3>. QED  BY <2>3, <3>1, <3>2
  <2>5. m - 1 \in Nat /\ m - 1 <= L /\ ~(m <= m - 1)
    <3>. HIDE DEF L
    <3>. QED  BY <1>1, <2>3, <2>4
  <2>6. Taken(L - (m - 1))
    <3>1. m - 1 \notin Bad
      <4>. HIDE DEF Bad
      <4>. QED  BY <2>2, <2>5
    <3>. HIDE DEF Taken, L
    <3>. QED  BY <2>5, <3>1
  <2>7. PICK v \in Vertex : Reached(v) /\ dist[v] = L - (m - 1)
    BY <2>6
  <2>8. dist[v] # 0
    <3>. HIDE DEF L
    <3>. QED  BY <1>1, <2>3, <2>4, <2>7
  <2>9. v # Source
    BY <2>8 DEF Anchored
  <2>10. PICK p \in Vertex : <<p, v>> \in edges /\ dist[p] + 1 = dist[v]
    BY <2>7, <2>9 DEF Settled
  <2>11. dist[p] = L - m /\ Reached(p)
    <3>1. dist[p] \in Nat /\ dist[p] < Unreachable
      BY <1>1, <2>10
    <3>2. dist[p] = L - m
      <4>. HIDE DEF L
      <4>. QED  BY <1>1, <2>3, <2>7, <2>10, <3>1
    <3>. QED  BY <1>1, <3>1, <3>2
  <2>. QED  BY <2>3, <2>11
<1>3. ASSUME NEW k \in 0 .. L PROVE Taken(k)
  <2>1. L - k \in Nat /\ L - k <= L /\ L - (L - k) = k
    <3>. HIDE DEF L
    <3>. QED  BY <1>1
  <2>2. L - k \notin Bad
    BY <1>2
  <2>. HIDE DEF Taken, L
  <2>. QED  BY <2>1, <2>2
<1>. DEFINE at == [k \in 0 .. L |-> CHOOSE v \in Vertex : Reached(v) /\ dist[v] = k]
<1>4. \A k \in 0 .. L : at[k] \in Vertex /\ dist[at[k]] = k
  BY <1>3
<1>5. at \in Injection(0 .. L, Vertex)
  <2>1. at \in [0 .. L -> Vertex]
    BY <1>4
  <2>. HIDE DEF at, L
  <2>. QED  BY <1>4, <2>1 DEF Injection, IsInjective
<1>. HIDE DEF at, L
<1>6. IsFiniteSet(Vertex) /\ Cardinality(Vertex) <= MaxVertices /\ Cardinality(Vertex) \in Nat
  BY <1>1, VertexSets
<1>7. Cardinality(0 .. L) <= Cardinality(Vertex)
  BY <1>5, <1>6, FS_Injection
<1>8. Cardinality(0 .. L) = L + 1
  BY <1>1, FS_Interval
<1>9. L + 1 <= MaxVertices
  BY <1>1, <1>6, <1>7, <1>8
<1>. QED  BY <1>9 DEF L

(* No path is shorter than the distance: the shortest path that was would  *)
(* break the triangle inequality at its last edge.                         *)
LEMMA PathsReach ==
  ASSUME TypeOK, Settled, Anchored, NEW w \in Vertex, NEW l \in Nat, PathTo(w, l)
  PROVE  Reached(w) /\ dist[w] <= l
<1>. DEFINE Bad == {n \in Nat : \E v \in Vertex : PathTo(v, n) /\ ~(Reached(v) /\ dist[v] <= n)}
<1>0. /\ \A v \in Vertex : dist[v] \in Nat /\ (Reached(v) <=> dist[v] < Unreachable)
      /\ Unreachable \in Nat /\ MaxVertices \in Nat /\ MaxVertices < Unreachable
  BY DistanceType, BFSConstants
<1>1. SUFFICES ASSUME Bad # {} PROVE FALSE
  OBVIOUS
<1>2. PICK n \in Bad : \A m \in Bad : n <= m
  <2>1. Bad \in SUBSET Nat
    OBVIOUS
  <2>. HIDE DEF Bad
  <2>. QED  BY <1>1, <2>1, LeastOf
<1>3. PICK v \in Vertex : PathTo(v, n) /\ ~(Reached(v) /\ dist[v] <= n)
  OBVIOUS
<1>4. n # 0
  <2>1. ASSUME n = 0 PROVE v = Source
    BY <1>3, <2>1 DEF PathTo
  <2>2. dist[Source] = 0
    BY DEF Anchored
  <2>. QED  BY <1>0, <1>3, <2>1, <2>2, BFSConstants
<1>5. n - 1 \in Nat /\ (n - 1) + 1 = n /\ ~(n <= n - 1) /\ n \in Nat
  BY <1>4
<1>6. PICK p \in Vertex : PathTo(p, n - 1) /\ <<p, v>> \in edges
  <2>1. PathTo(v, (n - 1) + 1)
    BY <1>3, <1>5
  <2>. QED  BY <1>5, <2>1, PathShortened
<1>7. n - 1 \notin Bad
  <2>. HIDE DEF Bad
  <2>. QED  BY <1>2, <1>5
<1>8. Reached(p) /\ dist[p] <= n - 1
  BY <1>5, <1>6, <1>7
<1>9. dist[v] <= dist[p] + 1
  BY <1>6, <1>8 DEF Settled, Triangle
<1>10. dist[p] + 1 <= MaxVertices
  BY <1>8, DistancesSmall
<1>11. dist[v] < Unreachable /\ dist[v] <= n
  <2>1. dist[v] \in Nat /\ dist[p] \in Nat
    BY <1>0
  <2>. QED  BY <1>0, <1>5, <1>8, <1>9, <1>10, <2>1
<1>. QED  BY <1>0, <1>3, <1>11

(* Between calls, a vertex is reached exactly if the current graph has a   *)
(* path from the source to it, and its distance is the number of edges of  *)
(* a shortest one.                                                         *)
THEOREM DistancesAreShortest == SourceFromStart => (Spec => []ShortestPathLengths)
<1>1. SourceFromStart /\ Init => IInv /\ Anchored
  BY InitKept, InitAnchored
<1>2. (IInv /\ Anchored) /\ [Next]_vars => (IInv /\ Anchored)'
  BY StepKept, StepAnchored
<1>3. IInv /\ Anchored => ShortestPathLengths
  <2>. SUFFICES ASSUME IInv, Anchored, phase = "idle", NEW v \in Vertex
                PROVE  /\ Reached(v) => PathTo(v, dist[v])
                       /\ \A n \in Nat : PathTo(v, n) => Reached(v) /\ dist[v] <= n
    BY DEF ShortestPathLengths
  <2>1. TypeOK /\ Settled
    BY DEF IInv, Owing
  <2>. QED  BY <2>1, ReachedByPath, PathsReach
<1>. QED  BY <1>1, <1>2, <1>3, PTL DEF Spec
=============================================================================
