------------------------- MODULE IncrementalComponents -------------------------
(***************************************************************************)
(* BasicIncrementalComponents: a union-find forest.  Components that lose  *)
(* an edge are taken apart and built again from the updated graph; added   *)
(* edges are then united.  Vertices past the end of parent_ are their own  *)
(* parents here, which is what ensure_capacity makes them.  The count of   *)
(* repaired vertices is left out.                                          *)
(***************************************************************************)
EXTENDS MaintainedGraph

VARIABLES parent,        \* parent_
          rank,          \* rank_
          known,         \* parent_.size()
          split,         \* affected: vertices of components that lose an edge
          pending        \* the arcs between them that are not united yet

components == <<parent, rank, known, split, pending>>

ComponentsTypeOK ==
  /\ parent \in [Vertex -> Vertex]
  /\ rank \in [Vertex -> Nat]
  /\ known \in 0 .. MaxVertices
  /\ split \subseteq Vertex
  /\ pending \subseteq edges

InitComponents ==
  /\ parent = [v \in Vertex |-> v]
  /\ rank = [v \in Vertex |-> 0]
  /\ known = vertexCount
  /\ split = {} /\ pending = {}

-----------------------------------------------------------------------------
(* The vertices find(x) passes, those that every set contains that has x   *)
(* and the parents of its members; and the one it returns.                 *)
Ancestors(par, x) ==
  {v \in Vertex : \A S \in SUBSET Vertex : x \in S /\ (\A u \in S : par[u] \in S) => v \in S}

Root(par, x) == CHOOSE r \in Ancestors(par, x) : par[r] = r

(* Path compression of find(x). *)
Compressed(par, x) ==
  LET path == Ancestors(par, x)
      root == Root(par, x)
  IN  [v \in Vertex |-> IF v \in path THEN root ELSE par[v]]

(* Mutant: the second root is always hung below the first. *)
UniteUnranked(forest, arc) ==
  LET par == forest.parent
      rk  == forest.rank
      a   == Root(par, arc[1])
      b   == Root(par, arc[2])
      short == Compressed(Compressed(par, arc[1]), arc[2])
  IN  [parent |-> [short EXCEPT ![b] = a],
       rank   |-> IF a # b /\ rk[a] = rk[b] THEN [rk EXCEPT ![a] = @ + 1] ELSE rk]

(* unite: the root of lower rank is hung below the other; nothing changes  *)
(* but the paths when both roots are one.                                  *)
Unite(forest, arc) ==
  LET par == forest.parent
      rk  == forest.rank
      a   == Root(par, arc[1])
      b   == Root(par, arc[2])
      top == IF rk[a] < rk[b] THEN b ELSE a
      low == IF top = a THEN b ELSE a
      short == Compressed(Compressed(par, arc[1]), arc[2])
  IN  [parent |-> [short EXCEPT ![low] = top],
       rank   |-> IF a # b /\ rk[a] = rk[b] THEN [rk EXCEPT ![top] = @ + 1] ELSE rk]

Known(op) == op.src < known /\ op.dst < known

(* The ends of the removals that take an edge away. *)
CutEnds ==
  UNION {{batch[i].src, batch[i].dst} :
           i \in {j \in DOMAIN batch : Kept(j) /\ ~batch[j].add /\ Known(batch[j])
                                       /\ <<batch[j].src, batch[j].dst>> \in edges}}

-----------------------------------------------------------------------------
(* apply() up to the update: the components of effective removals. *)
BeginComponents ==
  /\ phase = "idle"
  /\ LET roots == {Root(parent, v) : v \in CutEnds}
     IN  /\ split' = {v \in 0 .. known - 1 : Root(parent, v) \in roots}
         /\ parent' = IF CutEnds = {} THEN parent ELSE [v \in Vertex |-> Root(parent, v)]
  /\ phase' = "components"
  /\ UNCHANGED <<graph, call, rank, known, pending>>

(* The rest of apply(): ensure_capacity, and the split components apart. *)
TakeApart ==
  /\ Updated("components")
  /\ known' = vertexCount
  /\ parent' = [v \in Vertex |-> IF v \in split THEN v ELSE parent[v]]
  /\ rank' = [v \in Vertex |-> IF v \in split THEN 0 ELSE rank[v]]
  /\ pending' = {a \in edges : a[1] \in split /\ a[2] \in split}
  /\ split' = {}
  /\ phase' = "rebuild" /\ next' = 1
  /\ UNCHANGED <<graph, batch>>

UniteArc(arc) ==
  LET united == Unite([parent |-> parent, rank |-> rank], arc)
  IN  parent' = united.parent /\ rank' = united.rank

(* The arcs between them, row by row. *)
Rebuild ==
  /\ phase = "rebuild"
  /\ \E a \in pending :
       /\ \A b \in pending : a[1] < b[1] \/ (a[1] = b[1] /\ a[2] <= b[2])
       /\ UniteArc(a)
       /\ pending' = pending \ {a}
  /\ UNCHANGED <<graph, call, phase, known, split>>

(* Mutant: the first update of an edge decides whether it is replayed. *)
ReplaysFirst(i) ==
  /\ \A k \in DOMAIN batch : k < i => Key(directed, batch[k]) # Key(directed, batch[i])
  /\ batch[i].add /\ <<batch[i].src, batch[i].dst>> \in edges

(* Then the updates that are kept: the additions, from the smaller end. *)
Replays(i) == Kept(i) /\ batch[i].add /\ <<batch[i].src, batch[i].dst>> \in edges

Replay ==
  /\ phase = "rebuild" /\ pending = {} /\ next <= Len(batch)
  /\ next' = next + 1
  /\ LET op == batch[next]
     IN  IF ~Replays(next) THEN UNCHANGED <<parent, rank>>
         ELSE UniteArc(IF op.dst < op.src THEN <<op.dst, op.src>> ELSE <<op.src, op.dst>>)
  /\ UNCHANGED <<graph, batch, phase, known, split, pending>>

EndComponents ==
  /\ Updated("rebuild") /\ pending = {}
  /\ Return
  /\ UNCHANGED <<graph, batch, components>>

(* component() is a public query that compresses the path it follows. *)
QueryComponent(v) ==
  /\ phase = "idle" /\ v < known
  /\ parent' = Compressed(parent, v)
  /\ UNCHANGED <<graph, call, phase, rank, known, split, pending>>

-----------------------------------------------------------------------------
(* Two vertices have the same representative exactly if the graph connects *)
(* them, after any history of merges, splits, cancelled updates and growth.*)
ComponentsExact ==
  LET root == [v \in Vertex |-> Root(parent, v)]
  IN  \A v \in 0 .. vertexCount - 1 :
        Reach({v}, Vertex) = {w \in Vertex : root[w] = root[v]}

(* find() ends and its paths stay short: ranks grow towards the root, so   *)
(* parents never form a cycle, although whole components are taken apart   *)
(* under trees that queries have compressed.                               *)
ForestRanked ==
  \A v \in Vertex : parent[v] # v => rank[v] < rank[parent[v]]
=============================================================================
