----------------------------- MODULE MCAntiWindup -----------------------------
(* A small instance of AntiWindup: gains of at most one, so that the limit   *)
(* on the integral is within reach of a few cycles.                          *)
EXTENDS MCWindTunnel, AntiWindup

WindupGains == <<Gain(1, 1, 1, 0), Gain(2, 0, 1, 1)>>
WindupFeed == <<Feed(1, 2), Feed(2, 1)>>
WindupHeights == {0, 3}
WindupCommands ==
    [t \in Threads |->
        IF t = "remote" THEN {Target(1), Target(3), <<Opt("-p", 0)>>}
        ELSE {Eval, FeedEntry(1, 1, 0), <<Opt("-d", 1), Opt("unknown", 0)>>}]
=============================================================================
