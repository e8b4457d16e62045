---------------------------- MODULE MCStatusProxy ----------------------------
(* Small instances of StatusProxy: the status request and one tune.          *)
EXTENDS StatusProxy, TLC

CONSTANTS c1, c2, c3, p1, p2

TuneLine == <<"pid_tune", "-t", "300">>
ProxyCommands == {TuneLine}
ProxyLines == {TuneLine, GetStatus}
ProxyWindow == [c \in Connections |-> 1]

(* Connections and pages are interchangeable.                                *)
Interchangeable == Permutations(Connections) \cup Permutations(Pages)
=============================================================================
