--------------------------- MODULE MCStandaloneParts ---------------------------
(* Values of the constants for model checking. *)
EXTENDS StandaloneParts, TLC

CONSTANTS k1, k2, k3,     \* keys
          w1, w2,         \* workers
          c1, c2          \* their callers

(* Two keys that collide, and one whose probes run into theirs. *)
Colliding == (k1 :> 1) @@ (k2 :> 1) @@ (k3 :> 6)

(* Above the storage limit, slow with and without grown storage. *)
ThreeSignals == {[storage |-> TRUE, slow |-> TRUE, grown |-> TRUE],
                 [storage |-> FALSE, slow |-> TRUE, grown |-> TRUE],
                 [storage |-> FALSE, slow |-> TRUE, grown |-> FALSE]}

On(pairs) == {[src |-> p[1], dst |-> p[2], add |-> a, time |-> t] :
                p \in pairs, a \in BOOLEAN, t \in Time}

(* One update, or two of one edge in either orientation. *)
OneOrTwo == {<<a>> : a \in On({<<0, 1>>, <<1, 2>>})}
              \cup {<<a, b>> : a \in On({<<0, 1>>}), b \in On({<<0, 1>>, <<1, 0>>})}

(* Registers of 2, 3 and 1 ids, and limits for rows of up to six ids.      *)
Registers == [avx2 |-> 2, avx512 |-> 3, neon |-> 1]
SmallLimits == [avx2 |-> 2, avx512 |-> 3, neon |-> 2, bitmap |-> 8, density |-> 1, ratio |-> 2]

(* All edges of four vertices, one of them in both directions, and a loop. *)
EightEdges == {<<u, v>> \in (0 .. 3) \X (0 .. 3) : u < v} \cup {<<2, 0>>, <<1, 1>>}

(* Without nodes, with gaps between their ids, and in no order.            *)
FewTopologies == {<<>>, <<0>>, <<0, 2>>, <<2, 0>>, <<0, 1, 3>>}
=============================================================================
