----------------------------- MODULE StatusProxy -----------------------------
(***************************************************************************)
(* applications/remote/websocket_proxy.py between the web pages and the    *)
(* board's server: the client side of RemoteServer.                        *)
(*                                                                         *)
(* The script is one asyncio loop, so a task runs undisturbed from one     *)
(* await to the next and that stretch is one action.  Its tasks are the    *)
(* manager (connects, reads, broadcasts), the pollers, one started at each *)
(* connection, and a handler per page.                                     *)
(***************************************************************************)
EXTENDS RemoteServer

CONSTANTS
    Pages,     \* web pages, each opened and closed once
    Commands,  \* the lines they send
    Collects   \* whether the interpreter closes a connection that the script
               \* has dropped without closing it (recent CPythons do)

GetStatus == <<"get_status">>

ASSUME ProxyAssumption ==
    /\ Commands \cup {GetStatus} \subseteq Lines /\ Collects \in BOOLEAN
    /\ Connections \cap {"none", "asleep", "ended"} = {}

VARIABLES
    manager,     \* the await the manager is at
    tcp_writer,  \* the connection the pollers and the handlers write to
    opened,      \* the connections opened so far; the manager reads the last
    pollers,     \* [Connections -> state of the poller started at it]
    page,        \* [Pages -> state of its WebSocket]
    taken,       \* [Connections -> how many of its replies were read]
    buffer,      \* statuses read and not yet dealt with, the one at work first
    sending,     \* pages the one at work is still being sent to
    shown        \* history: [Pages -> statuses it was sent]

proxy == <<manager, tcp_writer, opened, pollers, page, taken, buffer, sending,
           shown>>
board == vars

(* The proxy may be started before or after the board's server is.          *)
ProxyInit ==
    /\ Init
    /\ manager = "connecting" /\ tcp_writer = NoConnection /\ opened = <<>>
    /\ pollers = [c \in Connections |-> "none"]
    /\ page = [p \in Pages |-> "away"]
    /\ taken = [c \in Connections |-> 0]
    /\ buffer = <<>> /\ sending = {}
    /\ shown = [p \in Pages |-> <<>>]

Reader == Last(opened)

-----------------------------------------------------------------------------
(* The manager: connecting.                                                 *)

StartsPollerMutant(c) == opened = <<>>
StartsPoller(c) == TRUE

Opens(c) ==
    /\ manager = "connecting" /\ manager' = "reading"
    /\ Connect(c)
    /\ tcp_writer' = c /\ opened' = Append(opened, c)
    /\ pollers' = IF StartsPoller(c) THEN [pollers EXCEPT ![c] = "asleep"]
                  ELSE pollers
    /\ UNCHANGED <<page, taken, buffer, sending, shown>>

OpenFails ==
    /\ manager = "connecting" /\ manager' = "pausing"
    /\ tcp_writer' = NoConnection
    /\ UNCHANGED <<board, opened, pollers, page, taken, buffer, sending, shown>>

Retry ==
    /\ manager = "pausing" /\ manager' = "connecting"
    /\ UNCHANGED <<board, tcp_writer, opened, pollers, page, taken, buffer,
                   sending, shown>>

-----------------------------------------------------------------------------
(* The manager: reading and broadcasting.                                   *)

OpenPages == {p \in Pages : page[p] = "open"}

(* What the manager does next with the statuses it holds: gather the sends  *)
(* of the first of them, or, when no page is there, drop them and read on.  *)
Proceed(statuses) ==
    IF statuses = <<>> \/ OpenPages = {}
    THEN manager' = "reading" /\ buffer' = <<>> /\ sending' = {}
    ELSE manager' = "gathering" /\ buffer' = statuses /\ sending' = OpenPages

(* The replies that are statuses, each named by its connection and number.  *)
(* What the connection before left of a cut one spoils a new one's first.   *)
Statuses(c, first, last) ==
    LET upto[n \in (first - 1)..last] ==
            IF n < first THEN <<>>
            ELSE IF replies[c][n] = "status" THEN Append(upto[n - 1], <<c, n>>)
            ELSE upto[n - 1]
    IN  upto[last]
Spoilable(c) == taken[c] = 0 /\ Len(opened) > 1

TakenMutant(c, n) == taken[c] + n + (IF n > 1 THEN 1 ELSE 0)
Taken(c, n) == taken[c] + n

Reads ==
    LET c == Reader
    IN  /\ manager = "reading"
        /\ \E n \in 1..(Len(replies[c]) - taken[c]) :
              /\ taken' = [taken EXCEPT ![c] = Taken(c, n)]
              /\ \E first \in taken[c] + 1..taken[c]
                              + (IF Spoilable(c) THEN 2 ELSE 1) :
                    Proceed(buffer \o Statuses(c, first, taken[c] + n))
        /\ UNCHANGED <<board, tcp_writer, opened, pollers, page, shown>>

WriterAtEofMutant == tcp_writer
WriterAtEof == NoConnection

(* The end of the stream shows once all of it is read, an error at once.    *)
ReadEnds ==
    LET c == Reader
    IN  /\ manager = "reading" /\ peer[c] = "closed"
        /\ \/ /\ taken[c] = Len(replies[c])
              /\ manager' = "connecting" /\ tcp_writer' = WriterAtEof
           \/ manager' = "pausing" /\ tcp_writer' = NoConnection
        /\ UNCHANGED <<board, opened, pollers, page, taken, buffer, sending,
                       shown>>

(* A send that raises ends the manager's work on the connection, which it   *)
(* drops as it is: nothing closes it.                                       *)
DropLinkMutant ==
    /\ manager' = "pausing" /\ tcp_writer' = NoConnection
    /\ buffer' = buffer /\ sending' = {}
DropLink ==
    /\ manager' = "pausing" /\ tcp_writer' = NoConnection
    /\ buffer' = Tail(buffer) /\ sending' = {}

(* The gathered sends all start in the same round of the loop; those to     *)
(* pages that have left since raise.                                        *)
SendsStart ==
    /\ manager = "gathering"
    /\ shown' = [p \in Pages |-> IF p \in sending \cap OpenPages
                                 THEN Append(shown[p], Head(buffer))
                                 ELSE shown[p]]
    /\ IF sending \subseteq OpenPages
       THEN manager' = "sending" /\ UNCHANGED <<tcp_writer, buffer, sending>>
       ELSE DropLink
    /\ UNCHANGED <<board, opened, pollers, page, taken>>

(* A send waits until the page has taken enough, or raises when it leaves.  *)
SendEnds(p) ==
    /\ manager = "sending" /\ p \in sending
    /\ IF page[p] = "open"
       THEN sending' = sending \ {p} /\ UNCHANGED <<manager, tcp_writer, buffer>>
       ELSE DropLink
    /\ UNCHANGED <<board, opened, pollers, page, taken, shown>>

SendsDone ==
    /\ manager = "sending" /\ sending = {}
    /\ Proceed(Tail(buffer))
    /\ UNCHANGED <<board, tcp_writer, opened, pollers, page, taken, shown>>

Collect(c) ==
    /\ Collects /\ c \in ToSet(opened) /\ c # Reader
    /\ ClientCloses(c)
    /\ UNCHANGED proxy

-----------------------------------------------------------------------------
(* The pollers and the pages.                                               *)

(* A poller whose write leaves too much unsent waits in drain (its state is *)
(* the connection then), and ends if the connection is lost meanwhile.      *)
Poll(d) ==
    /\ pollers[d] = "asleep" /\ tcp_writer # NoConnection
    /\ Writes(tcp_writer, GetStatus)
    /\ \E state \in {"asleep", tcp_writer} :
          pollers' = [pollers EXCEPT ![d] = state]
    /\ UNCHANGED <<manager, tcp_writer, opened, page, taken, buffer, sending,
                   shown>>

DrainEnds(d) ==
    /\ pollers[d] \in Connections
    /\ pollers' = [pollers EXCEPT ![d] =
                     IF peer[@] = "closed" THEN "ended" ELSE "asleep"]
    /\ UNCHANGED <<board, manager, tcp_writer, opened, page, taken, buffer,
                   sending, shown>>

Moves(p, from, to) ==
    /\ page[p] = from /\ page' = [page EXCEPT ![p] = to]
    /\ UNCHANGED <<board, manager, tcp_writer, opened, pollers, taken, buffer,
                   sending, shown>>
Joins(p) == Moves(p, "away", "open")
Leaves(p) == Moves(p, "open", "gone")

(* A page's command; without a connection it is reported and dropped.       *)
Commanded(p) ==
    /\ page[p] = "open" /\ tcp_writer # NoConnection
    /\ \E line \in Commands : Writes(tcp_writer, line)
    /\ UNCHANGED proxy

-----------------------------------------------------------------------------
(* A second remote_start only prints.                                       *)
BoardStep ==
    /\ \/ ~ server_thread /\ RemoteStart
       \/ SetUp \/ Accept \/ AcceptFails \/ Recv \/ Disconnect
    /\ UNCHANGED proxy

ProxyNext ==
    \/ BoardStep
    \/ \E c \in Connections : Opens(c) \/ Collect(c) \/ Poll(c) \/ DrainEnds(c)
    \/ OpenFails \/ Retry \/ Reads \/ ReadEnds \/ SendsStart \/ SendsDone
    \/ \E p \in Pages : SendEnds(p) \/ Joins(p) \/ Leaves(p) \/ Commanded(p)

allvars == <<board, proxy>>
ProxySpec == ProxyInit /\ [][ProxyNext]_allvars

(* The board's thread and the script's loop run when they can, a page takes *)
(* what it is sent or leaves, and, where the interpreter collects dropped   *)
(* connections, it does so in the end.                                      *)
Serves == /\ SetUp \/ Accept \/ Recv
                   \/ (Disconnect /\ peer[connected] = "closed")
          /\ UNCHANGED proxy
ProxyFairness ==
    /\ WF_allvars(Serves)
    /\ WF_allvars(Reads) /\ WF_allvars(ReadEnds)
    /\ WF_allvars(SendsStart) /\ WF_allvars(SendsDone)
    /\ \A p \in Pages : WF_allvars(SendEnds(p))
    /\ \A c \in Connections : WF_allvars(Collect(c))

FairProxySpec == ProxySpec /\ ProxyFairness

-----------------------------------------------------------------------------
(* Statuses the board has sent and the proxy has read.                      *)
Received ==
    UNION {{c} \X {n \in 1..taken[c] : replies[c][n] = "status"} :
               c \in Connections}

(* By the connections they came over, as these were opened, and on one by   *)
(* their numbers.                                                           *)
Earlier(s, t) ==
    \E i, j \in DOMAIN opened :
        /\ opened[i] = s[1] /\ opened[j] = t[1]
        /\ i < j \/ (i = j /\ s[2] < t[2])

(* Also: what is kept and what was shown are statuses of the board, though  *)
(* they outlive the connections they came over.                             *)
ProxyTypeOK ==
    /\ manager \in {"connecting", "pausing", "reading", "gathering", "sending"}
    /\ tcp_writer \in Connections \cup {NoConnection}
    /\ opened \in Seq(Connections) /\ IsInjective(opened)
    /\ pollers \in [Connections -> {"none", "asleep", "ended"} \cup Connections]
    /\ page \in [Pages -> {"away", "open", "gone"}]
    /\ \A c \in Connections : taken[c] \in 0..Len(replies[c])
    /\ buffer \in Seq(Received)
    /\ sending \subseteq Pages
    /\ shown \in [Pages -> Seq(Received)]

(* Pollers and pages only ever write to the connection whose replies the    *)
(* manager reads (websocket_proxy.py:26, 36, 62 and 66 keep the shared      *)
(* writer in step with the manager's own reader).                           *)
WriterIsRead ==
    tcp_writer # NoConnection <=>
        /\ manager \in {"reading", "gathering", "sending"}
        /\ tcp_writer = Reader

(* While there is a connection, some poller asks for statuses on it: the    *)
(* ones that end in a broken drain (l. 76-79) are always replaced.          *)
Polled ==
    tcp_writer # NoConnection /\ peer[tcp_writer] = "open" =>
        \E d \in Connections : pollers[d] \notin {"none", "ended"}

(* A page is shown statuses in the order the board sent them, none twice,   *)
(* although failed broadcasts leave some in the buffer for a later          *)
(* connection's reader (l. 39-54).                                          *)
ShownInOrder ==
    \A p \in Pages : \A i \in 1..(Len(shown[p]) - 1) :
        Earlier(shown[p][i], shown[p][i + 1])

(* "Maintain a persistent connection to the TCP server" (l. 19): a          *)
(* connection the proxy relies on is one the board gets to serve, or the    *)
(* proxy gives it up.                                                       *)
Served ==
    \A c \in Connections :
        tcp_writer = c ~> connected = c \/ tcp_writer # c
=============================================================================
