------------------------------ MODULE StaticGraph ------------------------------
(***************************************************************************)
(* CsrGraph and the algorithms on it, PageRank aside.  A caller extends    *)
(* the edges it builds the graph from; their order and repetitions vanish  *)
(* in the constructor's sort and are left out.                             *)
(***************************************************************************)
EXTENDS IntersectionKernels

CONSTANT InputEdges      \* pairs of vertices, self-loops included

ASSUME StaticConstants == IsFiniteSet(InputEdges) /\ InputEdges \subseteq Nat \X Nat

VARIABLE input           \* the constructor's arguments

InitStatic == input \in [edges : {{}}, directed : BOOLEAN]

NextStatic == \E e \in InputEdges \ input.edges : input' = [input EXCEPT !.edges = @ \cup {e}]

(* The elements of a sequence that are in a set, in their order.           *)
Members(s, S) == FoldLeft(LAMBDA out, x : IF x \in S THEN Append(out, x) ELSE out, <<>>, s)

-----------------------------------------------------------------------------
(* The constructor.                                                        *)
Expanded(g) ==
  LET kept == {e \in g.edges : e[1] # e[2]}
  IN  IF g.directed THEN kept ELSE kept \cup {<<e[2], e[1]>> : e \in kept}

VertexCount(g) ==
  IF Expanded(g) = {} THEN 0 ELSE 1 + Max(UNION {{e[1], e[2]} : e \in Expanded(g)})

Sources(g) == 0 .. VertexCount(g) - 1

(* Mutant: edges are not sorted by their targets. *)
SortedBySource(g) ==
  LET n == VertexCount(g)
  IN  Members([k \in 1 .. n * n |-> <<(k - 1) \div n, (n * n - k) % n>>], Expanded(g))

Sorted(g) ==
  LET n == VertexCount(g)
  IN  Members([k \in 1 .. n * n |-> <<(k - 1) \div n, (k - 1) % n>>], Expanded(g))

(* offsets_ (by = 1) and in_offsets_ (by = 2).                             *)
RowStarts(g, by) ==
  [v \in 0 .. VertexCount(g) |-> Cardinality({e \in Expanded(g) : e[by] < v})]

(* Each edge goes to where its row's cursor is; <<cursors, cells>>.        *)
Placed(at, e, by) ==
  LET cell == at[1][e[by]] + 1
  IN  <<[at[1] EXCEPT ![e[by]] = cell], [k \in DOMAIN at[2] |-> IF k = cell THEN e[3 - by] ELSE at[2][k]]>>

Targets(g, by) ==
  FoldLeft(LAMBDA at, e : Placed(at, e, by),
           <<RowStarts(g, by), [k \in 1 .. Cardinality(Expanded(g)) |-> 0]>>, Sorted(g))[2]

StaticRow(g, by, v) == SubSeq(Targets(g, by), RowStarts(g, by)[v] + 1, RowStarts(g, by)[v + 1])

(* The constructed graph: rows by vertex. *)
Built(g) == [out |-> [v \in Sources(g) |-> StaticRow(g, 1, v)],
             in  |-> [v \in Sources(g) |-> StaticRow(g, 2, v)]]

-----------------------------------------------------------------------------
Unset == -1

(* The queue of bfs_distances and connected_components: a labelled vertex  *)
(* gives its unlabelled neighbours its label plus step.                    *)
Visit(csr, at, step) ==
  LET u   == Head(at.queue)
      new == Members(csr.out[u], {v \in DOMAIN at.labels : at.labels[v] = Unset})
  IN  IF at.queue = <<>> THEN at
      ELSE [queue  |-> Tail(at.queue) \o new,
            labels |-> [v \in DOMAIN at.labels |-> IF v \in ToSet(new) THEN at.labels[u] + step
                                                  ELSE at.labels[v]]]

Flood(csr, labels, start, label, step) ==
  FoldLeft(LAMBDA at, k : Visit(csr, at, step),
           [queue |-> <<start>>, labels |-> [labels EXCEPT ![start] = label]],
           [k \in 1 .. Cardinality(DOMAIN labels) |-> k]).labels

Unlabelled(csr) == [v \in DOMAIN csr.out |-> Unset]

BfsDistances(csr, source) == Flood(csr, Unlabelled(csr), source, 0, 1)

NextComponent(csr, at, v) ==
  IF at.labels[v] # Unset THEN at
  ELSE [labels |-> Flood(csr, at.labels, v, at.id, 0), id |-> at.id + 1]

ConnectedComponents(csr) ==
  LET n == Cardinality(DOMAIN csr.out)
  IN  FoldLeft(LAMBDA at, k : NextComponent(csr, at, k - 1),
               [labels |-> Unlabelled(csr), id |-> 0], [k \in 1 .. n |-> k]).labels

CommonNeighborCount(csr, u, v) == ScalarIntersection(csr.out[u], csr.out[v])

UnionSize(csr, u, v) == Len(csr.out[u]) + Len(csr.out[v]) - CommonNeighborCount(csr, u, v)

(* The merge skips what is not above v in either row.                      *)
TriangleCount(csr) ==
  LET above(u, v) == Members(csr.out[u], {w \in DOMAIN csr.out : w > v})
      upward == {e \in (DOMAIN csr.out) \X (DOMAIN csr.out) : e[1] < e[2] /\ Contains(csr.out[e[1]], e[2])}
  IN  MapThenSumSet(LAMBDA e : ScalarIntersection(above(e[1], e[2]), above(e[2], e[2])), upward)

-----------------------------------------------------------------------------
(* The vertices one can get to from v in d steps. *)
Ball(g, v, d) ==
  FoldLeft(LAMBDA ball, k : ball \cup {e[2] : e \in {x \in Expanded(g) : x[1] \in ball}},
           {v}, [k \in 1 .. d |-> k])

(* A graph built from any edges has ascending rows of exactly its arcs in  *)
(* both directions, and the algorithms on it find the shortest distances,  *)
(* components numbered by their first vertices, each triangle once, and    *)
(* common neighbours and unions as sets.                                   *)
StaticExact ==
  LET csr  == Built(input)
      arcs == Expanded(input)
      all  == Sources(input)
      next(v) == {w \in all : <<v, w>> \in arcs}
      ball(v, d) == Ball(input, v, d)
      end  == Cardinality(all)
      first(v) == Min(ball(v, end))
  IN  /\ \A v \in all :
           /\ ToSet(csr.out[v]) = next(v) /\ IsSorted(csr.out[v], <)
           /\ ToSet(csr.in[v]) = {u \in all : <<u, v>> \in arcs} /\ IsSorted(csr.in[v], <)
           /\ \A w \in all :
                LET d == BfsDistances(csr, v)[w]
                IN  IF w \in ball(v, end) THEN w \in ball(v, d) /\ (d = 0 \/ w \notin ball(v, d - 1))
                    ELSE d = Unset
           /\ \A w \in all : /\ CommonNeighborCount(csr, v, w) = Cardinality(next(v) \cap next(w))
                             /\ UnionSize(csr, v, w) = Cardinality(next(v) \cup next(w))
      /\ ~input.directed =>
           /\ ConnectedComponents(csr) = [v \in all |-> Cardinality({first(w) : w \in 0 .. first(v) - 1})]
           /\ TriangleCount(csr) =
                Cardinality({t \in SUBSET all : Cardinality(t) = 3 /\ \A u \in t : t \ {u} \subseteq next(u)})
=============================================================================
