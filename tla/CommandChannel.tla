---------------------------- MODULE CommandChannel ----------------------------
(***************************************************************************)
(* What a remote user expects of the board's TCP service (README.md,       *)
(* section 4, item 5): the commands sent over a connection are executed    *)
(* one by one, in the order of sending, each once and none skipped.        *)
(***************************************************************************)
EXTENDS Naturals, Sequences

CONSTANTS Connections, Lines
VARIABLES sent, executed
vars == <<sent, executed>>

Init == /\ sent = [c \in Connections |-> <<>>]
        /\ executed = [c \in Connections |-> <<>>]

Request(c) ==
    /\ \E line \in Lines : sent' = [sent EXCEPT ![c] = Append(@, line)]
    /\ UNCHANGED executed

Execute(c) ==
    /\ Len(executed[c]) < Len(sent[c])
    /\ executed' = [executed EXCEPT ![c] =
                      Append(@, sent[c][Len(executed[c]) + 1])]
    /\ UNCHANGED sent

Next == \E c \in Connections : Request(c) \/ Execute(c)
Spec == Init /\ [][Next]_vars
=============================================================================
