---------------------------- MODULE MCWindTunnel ----------------------------
(* Small instances of WindTunnel.  One height unit is 0.25 mm x a scale: a   *)
(* ramp step is two units, so that a target can move by less than a step.    *)
EXTENDS WindTunnel

Opt(name, value) == [name |-> name, index |-> 0, value |-> value, speed |-> 0]
FeedEntry(index, height, speed) ==
    <<[name |-> "-ff_set", index |-> index, value |-> height, speed |-> speed]>>
Target(height) == <<Opt("-t", height)>>
Eval == <<Opt("pid_eval", 0)>>

Gain(height, kp, ki, kd) ==
    [height |-> height, kp |-> kp, ki |-> ki, kd |-> kd]
Feed(height, speed) == [height |-> height, base_fan_speed |-> speed]

(* Every height has gains of its own, as in gain_schedule_table. *)
McGains == <<Gain(2, 9, 1, 0), Gain(6, 5, 1, 1), Gain(10, 13, 3, 1)>>
McFeed == <<Feed(2, 2), Feed(6, 1), Feed(10, 1)>>

(* tune: both threads move the target, below the minimum too, the shell     *)
(* evaluates and stores a table entry.  Targets, and what the low one is     *)
(* clamped to, are more than a ramp step from one another.                   *)
TuneHeights == {5, 8}
TuneCommands ==
    [t \in Threads |->
        IF t = "remote" THEN {Target(1), <<Opt("-t", 9), Opt("unknown", 0)>>}
        ELSE {Target(1), Eval, FeedEntry(2, 1, 2)}]
=============================================================================
