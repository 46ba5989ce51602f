------------------------ MODULE ConsolidationController ------------------------
(***************************************************************************)
(* ConsolidationController: asks for a consolidation at once when storage  *)
(* has grown too much, and for latency only after Samples bad epochs in a  *)
(* row outside the cooldown.  A caller observes once per epoch, from 1 on, *)
(* and may or may not consolidate when asked to, as the loop of            *)
(* benchmarks/steady_state_storage.cpp does.  The ratios of                *)
(* evaluate_consolidation are abstracted to which limits they exceed.      *)
(***************************************************************************)
EXTENDS Integers, Sequences

CONSTANTS Cooldown,      \* min_epochs_between_consolidations
          Samples,       \* latency_breach_samples
          Signals,       \* what an epoch may bring
          MaxEpoch       \* bound on the number of epochs

(* storage, latency and meaningful growth limits exceeded *)
Signal == [storage : BOOLEAN, slow : BOOLEAN, grown : BOOLEAN]

ASSUME ControllerConstants ==
  /\ Cooldown \in Nat
  /\ Samples \in Nat \ {0}
  /\ Signals \subseteq Signal
  /\ MaxEpoch \in Nat

VARIABLES lastEpoch,     \* last_consolidation_epoch_
          streak,        \* latency_breach_streak_
          asked,         \* what the last observe() returned
          epochs         \* history: what each epoch brought

controller == <<lastEpoch, streak, asked, epochs>>

InitController == lastEpoch = 0 /\ streak = 0 /\ asked = FALSE /\ epochs = <<>>

-----------------------------------------------------------------------------
Cooled(epoch) == lastEpoch = 0 \/ epoch >= lastEpoch + Cooldown

(* Mutant: bad epochs of the cooldown count towards the streak. *)
StreakThroughCooldown(signal, epoch) ==
  IF ~signal.storage /\ signal.slow /\ signal.grown THEN streak + 1 ELSE 0

StreakAfter(signal, epoch) ==
  IF ~signal.storage /\ Cooled(epoch) /\ signal.slow /\ signal.grown THEN streak + 1 ELSE 0

Observe(signal) ==
  LET epoch == Len(epochs) + 1
  IN  /\ epoch <= MaxEpoch
      /\ streak' = StreakAfter(signal, epoch)
      /\ asked' = (signal.storage \/ (Cooled(epoch) /\ streak' >= Samples))
      /\ epochs' = Append(epochs, [signal |-> signal, consolidated |-> FALSE])
      /\ UNCHANGED lastEpoch

MarkConsolidated ==
  /\ asked
  /\ lastEpoch' = Len(epochs) /\ streak' = 0 /\ asked' = FALSE
  /\ epochs' = [epochs EXCEPT ![Len(epochs)].consolidated = TRUE]

NextController == MarkConsolidated \/ \E signal \in Signals : Observe(signal)

-----------------------------------------------------------------------------
Bad(e) ==
  /\ epochs[e].signal.slow /\ epochs[e].signal.grown /\ ~epochs[e].signal.storage
  /\ ~epochs[e].consolidated
  /\ \A c \in 1 .. e : epochs[c].consolidated => e >= c + Cooldown

(* What the counters stand for: a request for latency means that each of   *)
(* the last Samples epochs was slow with grown storage, below the storage  *)
(* limit, and past the cooldown of every consolidation; and then, or at    *)
(* the storage limit, there is a request.                                  *)
RequestsJustified ==
  LET last == Len(epochs)
  IN  last > 0 /\ ~epochs[last].consolidated =>
        (asked <=> \/ epochs[last].signal.storage
                   \/ last >= Samples /\ \A e \in last - Samples + 1 .. last : Bad(e))
=============================================================================
