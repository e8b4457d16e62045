----------------------------- MODULE MCFanDriver -----------------------------
(* The instance of the run set_speed: the loop in a fine unit of speed, two  *)
(* commands, and speeds typed at the shell.  The first of these is 0.65 cut  *)
(* off, which the product's rounding carries to a full 65%; the second is    *)
(* out of range.                                                             *)
EXTENDS MCWindTunnel, FanDriver

FanGains == <<Gain(2, 5003, 401, 0), Gain(6, 3001, 601, 0), Gain(10, 7001, 809, 0)>>
FanFeed == <<Feed(2, 21299), Feed(6, 10923), Feed(10, 16383)>>
FanCommands ==
    [t \in Threads |-> IF t = "remote" THEN {Target(9)} ELSE {FeedEntry(4, 0, 0)}]
TypedSpeeds == {21299, 40000}
=============================================================================
