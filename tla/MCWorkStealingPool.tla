-------------------------- MODULE MCWorkStealingPool --------------------------
(* Values of the constants for model checking. *)
EXTENDS WorkStealingPool, TLC

CONSTANTS c1, c2, t1, t2

TwoGroups == [w \in Workers |-> w]
AllOnFirst == [t \in Tasks |-> 0]

(* t2 is submitted by the body of t1. *)
Nested == [t \in Tasks |-> IF t = t1 THEN c1 ELSE t1]
(* Every client has a task of its own. *)
Separate == [t \in Tasks |-> IF t = t1 THEN c1 ELSE c2]
=============================================================================
