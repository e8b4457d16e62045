----------------------------- MODULE SetpointRamp -----------------------------
(***************************************************************************)
(* What the setpoint ramp promises (the project report, section 6.2): the  *)
(* users choose a target at any time, and the setpoint the controller      *)
(* tracks only ever walks towards the current target, by at most Step at a *)
(* time, never past it, and gets there if the target is left alone.        *)
(***************************************************************************)
EXTENDS Integers

CONSTANTS Step,      \* RAMP_STEP
          Initial    \* the setpoint and target at power-up

VARIABLES target, ramped
vars == <<target, ramped>>

Init == target = Initial /\ ramped = Initial

Choose == target' \in Int /\ UNCHANGED ramped

(* A walk of at most Step towards the target, not past it.                  *)
Advance ==
    \E d \in 1..Step :
        /\ \/ ramped + d <= target /\ ramped' = ramped + d
           \/ target <= ramped - d /\ ramped' = ramped - d
        /\ UNCHANGED target

Next == Choose \/ Advance

Spec == Init /\ [][Next]_vars
FairSpec == Spec /\ WF_vars(Advance)
=============================================================================
