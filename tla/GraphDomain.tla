----------------------------- MODULE GraphDomain -----------------------------
(***************************************************************************)
(* The parameters of a graph and the arithmetic of vertex ids that every   *)
(* graph module of the project shares.                                     *)
(***************************************************************************)
EXTENDS Integers

CONSTANTS MaxVertices,     \* vertex ids are 0 .. MaxVertices - 1
          Directed,        \* the graph's directed() flag
          UpdateArcs,      \* the <<src, dst>> pairs update operations name
          BulkInputs,      \* the edge lists bulk loads are given
          VersionModulus   \* version_ is an unsigned counter of this many values

Vertex == 0 .. MaxVertices - 1

Arc == Vertex \X Vertex

ASSUME GraphConstants ==
  /\ MaxVertices \in Nat
  /\ Directed \in BOOLEAN
  /\ VersionModulus \in Nat \ {0}
  /\ UpdateArcs \subseteq Arc
  /\ BulkInputs \subseteq SUBSET Arc

(* ensure_vertex: the least count that is at least n and exceeds every id  *)
(* of ids.                                                                 *)
EnsureVertex(n, ids) ==
  {m \in 0 .. MaxVertices :
     /\ n <= m
     /\ \A x \in ids : x < m
     /\ m = n \/ \E x \in ids : m = x + 1}

(* The ids the edges of E that are not self loops name. *)
Endpoints(E) == UNION {{e[1], e[2]} : e \in {f \in E : f[1] # f[2]}}

(* ++version_ *)
Successor(v) == (v + 1) % VersionModulus
=============================================================================
