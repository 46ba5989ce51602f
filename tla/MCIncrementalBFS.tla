-------------------------- MODULE MCIncrementalBFS --------------------------
(* Values of the constants for model checking. *)
EXTENDS IncrementalBFS

CONSTANT Pairs      \* the edges the batches update

Ops == {[src |-> p[1], dst |-> p[2], add |-> a] : p \in Pairs, a \in BOOLEAN}
Short == {<<a>> : a \in Ops} \cup {<<a, b>> : a, b \in Ops}
Fraction == <<1, 2>>

(* A diamond with a chord, a way back and a tail. *)
Diamond == {<<0, 1>>, <<0, 2>>, <<1, 3>>, <<2, 3>>, <<2, 1>>, <<3, 1>>, <<3, 4>>}
=============================================================================
