------------------------ MODULE MCMaintainedAnalytics ------------------------
(* Values of the constants for model checking. *)
EXTENDS MaintainedAnalytics

CONSTANT Pairs      \* the edges the batches update

OpsOn(pairs) == {[src |-> p[1], dst |-> p[2], add |-> a, weight |-> 1] : p \in pairs, a \in BOOLEAN}

(* One update, or two of which the first is of one of these edges. *)
First == {<<1, 0>>, <<2, 3>>}
Short == {<<a>> : a \in OpsOn(Pairs)} \cup {<<a, b>> : a \in OpsOn(First), b \in OpsOn(Pairs)}

(* All edges of four vertices, one of them in both orientations, and a self *)
(* loop of a vertex that may not exist yet.                                *)
Complete == {<<3, 3>>, <<0, 1>>, <<1, 0>>, <<0, 2>>, <<0, 3>>, <<1, 2>>, <<3, 1>>, <<2, 3>>}

(* Two sides and the base of a triangle, one side in both orientations, with *)
(* weights 0, 1 and 4, which twice exceed Infinity; 6 is rejected, as the  *)
(* only update of a batch and before or after an acceptable one.           *)
Triangle == {<<0, 1>>, <<1, 0>>, <<1, 2>>, <<0, 2>>}
Weighted == {[src |-> p[1], dst |-> p[2], add |-> TRUE, weight |-> w] :
               p \in Triangle, w \in {0, 1, 4, 6}}
            \cup {[src |-> p[1], dst |-> p[2], add |-> FALSE, weight |-> 1] : p \in Triangle}
Accepted == {op \in Weighted : op.weight < 6}
ShortWeighted == {<<a>> : a \in Weighted}
                 \cup {<<a, b>> : a \in {op \in Accepted : op.dst = 0}, b \in Accepted}
                 \cup {<<a, b>> : a \in {op \in Weighted : op.dst = 2}, b \in Weighted \ Accepted}
                 \cup {<<a, b>> : a \in Weighted \ Accepted, b \in {op \in Weighted : op.dst = 2}}

(* A ring with a chord and one edge back, and batches that take the only   *)
(* way out of a vertex and give it back; fractions that leave less than    *)
(* all, or everything, to local repair.                                    *)
Ring == {<<0, 1>>, <<1, 2>>, <<2, 3>>, <<3, 0>>, <<0, 2>>, <<1, 0>>}
Rings == {<<a>> : a \in OpsOn(Ring)} \cup {<<a, b>> : a \in OpsOn({<<0, 2>>, <<2, 3>>}), b \in OpsOn({<<2, 3>>})}
TwoFractions == {<<19, 20>>, <<3, 2>>}

OneByOne == {{"components"}, {"triangles"}, {"cores"}, {"paths"}, {"weighted"}, {"ranks"}}
Together == {{"components", "triangles"}}
=============================================================================
