----------------------------- MODULE MCEvalTuner -----------------------------
(* Small instances of EvalTuner: gains to try that are not the scheduled     *)
(* ones of any height, for one profile more than a ramp step from the        *)
(* initial height, or for two that far from one another.                     *)
EXTENDS MCWindTunnel, EvalTuner

Try(profile, kp, ki, kd) ==
    [profile |-> profile, kp |-> kp, ki |-> ki, kd |-> kd]

TunerHeights == {5}
TunerCommands == [t \in Threads |-> {}]
OneProfile == <<Try(1, 2, 1, 3), Try(1, 3, 1, 2)>>
OneTarget == <<10>>
TwoProfiles == <<Try(1, 3, 1, 2), Try(2, 1, 1, 1), Try(2, 2, 1, 2)>>
TwoTargets == <<6, 10>>
=============================================================================
