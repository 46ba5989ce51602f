------------------------------- MODULE DeltaMap -------------------------------
(***************************************************************************)
(* The overlay DynamicGraph works with: a map from arcs to present/absent  *)
(* flags with three size counters.  It is the overlay part of a GraphSide  *)
(* record, changed by the operators DynamicGraph uses; PackedDelta shows   *)
(* that the packed arena implements it.                                    *)
(***************************************************************************)
EXTENDS GraphSide

CONSTANTS Rows,      \* row indices
          Targets    \* the destinations entries may name

VARIABLE overlay     \* a GraphSide record whose compact part is empty

Init == overlay = EmptySide

Write(a, present, basePresent) ==
  /\ \/ overlay' = SetEntry(overlay, a, present, basePresent)
     \/ ~Changes(overlay, a, present, basePresent) /\ UNCHANGED overlay

ClearRow(u) ==
  overlay' = [overlay EXCEPT !.plus  = @ \ InRows(@, {u}),
                             !.minus = @ \ InRows(@, {u}),
                             !.adds  = @ - Cardinality(InRows(overlay.plus, {u})),
                             !.dels  = @ - Cardinality(InRows(overlay.minus, {u}))]

Clear == overlay' = EmptySide

Next ==
  \/ \E a \in Rows \X Targets, present, basePresent \in BOOLEAN :
       Write(a, present, basePresent)
  \/ \E u \in Rows : ClearRow(u)
  \/ Clear

Spec == Init /\ [][Next]_overlay
=============================================================================
