---------------------------- MODULE MCRemoteServer ----------------------------
(* Small instances of RemoteServer: a status request and two tunes; c1 waits *)
(* for each reply, c2 sends all it has, and what a full buffer makes of that *)
(* is no command the server knows.                                           *)
EXTENDS RemoteServer

CONSTANTS c1, c2

Status == <<"get_status">>
Tune(value) == <<"pid_tune", "-t", value>>

MixedWindow == (c1 :> 1) @@ (c2 :> MaxSent)
MixedLines == {Status, Tune("300"), Tune("200")}
PipelinedWindow == c1 :> 2
FairLines == {Status}
WaitingWindow == c1 :> 1
=============================================================================
