---------------------------- MODULE MCDynamicGraph ----------------------------
(* Small instances of DynamicGraph. *)
EXTENDS DynamicGraph

(* A fan out, a fan in and a self loop: rows on both sides that reach the  *)
(* 1/4 density threshold while the rows of the opposite side do not.       *)
FanArcs == {<<0, 1>>, <<0, 2>>, <<1, 2>>, <<1, 1>>}

FanLoads == {{<<0, 1>>, <<1, 2>>, <<2, 2>>}}

(* A star, one edge in both orientations: only the hub's row gets dense. *)
StarArcs == {<<0, 1>>, <<1, 0>>, <<0, 2>>}

StarLoads == {{<<0, 1>>}}

(* 0 compacts every row, 1/4 is maybe_compact's default. *)
WholeOnly == {<<0, 1>>}

DefaultThreshold == {<<1, 4>>}

BothThresholds == {<<0, 1>>, <<1, 4>>}

Quarter == <<1, 4>>

Half == <<1, 2>>
=============================================================================
