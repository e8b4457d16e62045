----------------------------- MODULE RemoteServer -----------------------------
(***************************************************************************)
(* applications/remote/remote.c: the remote_start command and the thread   *)
(* it creates, a TCP server for one client at a time.                      *)
(*                                                                         *)
(* A byte stream is a sequence of words and line ends.  A recv takes what  *)
(* has arrived, up to the buffer's size, and the server treats it as ONE   *)
(* command: what follows the first line end in it is dropped, and what the *)
(* recv did not take is the next command.  Executing a pid_tune line is    *)
(* Issue("remote") of WindTunnel; here it is an entry in a log.            *)
(***************************************************************************)
EXTENDS Integers, SequencesExt

CONSTANTS
    Connections,  \* the connections clients may open, each once
    Lines,        \* the command lines they send, as sequences of words
    MaxSent,      \* bound on the lines sent over one connection
    Window,       \* lines each client sends ahead of the replies
    Relying,      \* connections whose users rely on every command
    RecvRoom,     \* words and line ends that fit the recv buffer
    MaxArgs,      \* MAX_ARGS
    Backlog,      \* connections that may wait to be accepted
    Cuts,         \* whether the network may deliver a part of a line
    NoConnection  \* no client is being served

ASSUME ServerAssumption ==
    /\ MaxSent \in Nat /\ RecvRoom \in Nat \ {0}
    /\ Window \in [Connections -> Nat \ {0}] /\ Relying \subseteq Connections
    /\ MaxArgs \in Nat \ {0} /\ Backlog \in Nat \ {0} /\ Cuts \in BOOLEAN
    /\ NoConnection \notin Connections

EOL == "\r\n"

(* A client's line fits the buffer and the argument vector.                 *)
ASSUME LinesAssumption ==
    \A line \in Lines : /\ line \in Seq(STRING) /\ line # <<>>
                        /\ EOL \notin ToSet(line)
                        /\ Len(line) < RecvRoom /\ Len(line) <= MaxArgs

VARIABLES
    server_thread,  \* whether the handle is set
    notice,         \* what was last printed about the server's life, by
                    \* remote_start or by the thread
    server,         \* where the thread is
    connected,      \* the connection being served
    backlog,        \* connections completed and not yet accepted
    peer,           \* [Connections -> state of the client's end]
    inbound,        \* [Connections -> what is on its way to the server]
    sent,           \* history: the lines each client sent
    executed,       \* history: the commands dispatched from each connection
    replies         \* history: the replies each client was sent

thread == <<server_thread, notice, server>>
vars == <<thread, connected, backlog, peer, inbound, sent, executed, replies>>

Init ==
    /\ server_thread = FALSE /\ notice = "none" /\ server = "none"
    /\ connected = NoConnection /\ backlog = <<>>
    /\ peer = [c \in Connections |-> "idle"]
    /\ inbound = [c \in Connections |-> <<>>]
    /\ sent = [c \in Connections |-> <<>>]
    /\ executed = [c \in Connections |-> <<>>]
    /\ replies = [c \in Connections |-> <<>>]

-----------------------------------------------------------------------------
(* The shell command and the thread's start.                                *)

(* The handle is set once and never reset, not even by a server that exits. *)
(* The thread may speak before "started" is printed; no property tells.     *)
RemoteStart ==
    /\ \/ server_thread /\ notice' = "already running"
                        /\ UNCHANGED <<server_thread, server>>
       \/ /\ ~ server_thread
          /\ \/ server_thread' = TRUE /\ server' = "starting"
                                      /\ notice' = "started"
             \/ notice' = "failed" /\ UNCHANGED <<server_thread, server>>
    /\ UNCHANGED <<connected, backlog, peer, inbound, sent, executed, replies>>

(* socket, bind and listen; the thread ends if one of them fails, and says  *)
(* either how far it got.                                                   *)
SetUp ==
    /\ server = "starting"
    /\ \/ server' = "accepting" /\ notice' = "waiting for client"
       \/ server' = "exited" /\ notice' = "exited"
    /\ UNCHANGED <<server_thread, connected, backlog, peer, inbound, sent,
                   executed, replies>>

-----------------------------------------------------------------------------
(* The clients and the network.                                             *)

Listening == server \in {"accepting", "serving"}

Connect(c) ==
    /\ peer[c] = "idle" /\ Listening /\ Len(backlog) < Backlog
    /\ peer' = [peer EXCEPT ![c] = "open"]
    /\ backlog' = Append(backlog, c)
    /\ UNCHANGED <<thread, connected, inbound, sent, executed, replies>>

Writes(c, line) ==
    /\ peer[c] = "open" /\ Len(sent[c]) < MaxSent
    /\ sent' = [sent EXCEPT ![c] = Append(@, line)]
    /\ inbound' = [inbound EXCEPT ![c] = @ \o line \o <<EOL>>]
    /\ UNCHANGED <<thread, connected, backlog, peer, executed, replies>>

ClientSends(c) ==
    /\ Len(sent[c]) - Len(replies[c]) < Window[c]
    /\ \E line \in Lines : Writes(c, line)

ClientCloses(c) ==
    /\ peer[c] = "open"
    /\ peer' = [peer EXCEPT ![c] = "closed"]
    /\ UNCHANGED <<thread, connected, backlog, inbound, sent, executed,
                   replies>>

-----------------------------------------------------------------------------
(* The server's loop.                                                       *)

Accept ==
    /\ server = "accepting" /\ backlog # <<>>
    /\ server' = "serving"
    /\ connected' = Head(backlog) /\ backlog' = Tail(backlog)
    /\ UNCHANGED <<server_thread, notice, peer, inbound, sent, executed,
                   replies>>

(* A failed accept loses the connection and is tried again.  One that fails *)
(* with nobody waiting changes nothing but the processor's time.            *)
AcceptFails ==
    /\ server = "accepting" /\ backlog # <<>>
    /\ backlog' = Tail(backlog)
    /\ peer' = [peer EXCEPT ![Head(backlog)] = "closed"]
    /\ UNCHANGED <<thread, connected, inbound, sent, executed, replies>>

Hangs(c) == peer' = [peer EXCEPT ![c] = "closed"]

(* recv returns 0 or an error: the client has closed or the network fails.  *)
DisconnectMutant ==
    /\ server = "serving" /\ server' = "exited"
    /\ connected' = NoConnection /\ Hangs(connected)
    /\ UNCHANGED <<server_thread, notice, backlog, inbound, sent, executed,
                   replies>>
Disconnect ==
    /\ server = "serving" /\ server' = "accepting"
    /\ connected' = NoConnection /\ Hangs(connected)
    /\ UNCHANGED <<server_thread, notice, backlog, inbound, sent, executed,
                   replies>>

(* How much a recv may take: anything if the network cuts lines, otherwise  *)
(* whole lines or a full buffer.                                            *)
Takes(stream) ==
    {n \in 1..Len(stream) :
        n <= RecvRoom /\ (Cuts \/ n = RecvRoom \/ stream[n] = EOL)}

(* The words before the first line end, at most MaxArgs of them.            *)
FirstLineMutant(chunk) == chunk
FirstLine(chunk) ==
    LET end == SelectInSeq(chunk, LAMBDA word : word = EOL)
    IN  IF end = 0 THEN chunk ELSE SubSeq(chunk, 1, end - 1)
ArgvMutant(chunk) == SelectSeq(chunk, LAMBDA word : word # EOL)
Argv(chunk) ==
    LET words == FirstLine(chunk)
    IN  SubSeq(words, 1, Min({Len(words), MaxArgs}))

Kind(argv) == CASE argv[1] = "get_status" -> "status"
                [] argv[1] = "pid_tune" -> "ok"
                [] OTHER -> "error"

(* A status that cannot be sent ends the connection; a failed "OK" or       *)
(* "ERROR" is not noticed before the next recv.                             *)
ReplyOkMutant(c, kind) ==
    /\ replies' = [replies EXCEPT ![c] = Append(@, "ok")]
    /\ UNCHANGED <<server, connected, peer>>
ReplyKeepsMutant(c, kind) ==
    \/ /\ peer[c] = "open"
       /\ replies' = [replies EXCEPT ![c] = Append(@, kind)]
       /\ UNCHANGED <<server, connected, peer>>
    \/ /\ peer[c] = "closed"
       /\ server' = "accepting"
       /\ UNCHANGED <<connected, peer, replies>>
Reply(c, kind) ==
    \/ /\ peer[c] = "open"
       /\ replies' = [replies EXCEPT ![c] = Append(@, kind)]
       /\ UNCHANGED <<server, connected, peer>>
    \/ /\ peer[c] = "closed" /\ UNCHANGED replies
       /\ IF kind = "status"
          THEN server' = "accepting" /\ connected' = NoConnection /\ Hangs(c)
          ELSE UNCHANGED <<server, connected, peer>>

Recv ==
    LET c == connected
    IN  /\ server = "serving"
        /\ \E n \in Takes(inbound[c]) :
              LET argv == Argv(SubSeq(inbound[c], 1, n))
              IN  /\ inbound' = [inbound EXCEPT ![c] =
                                   SubSeq(@, n + 1, Len(@))]
                  /\ IF argv = <<>>
                     THEN UNCHANGED <<server, connected, peer, executed,
                                      replies>>
                     ELSE /\ executed' = [executed EXCEPT ![c] =
                                            Append(@, argv)]
                          /\ Reply(c, Kind(argv))
        /\ UNCHANGED <<server_thread, notice, backlog, sent>>

Next ==
    \/ RemoteStart \/ SetUp
    \/ \E c \in Connections : Connect(c) \/ ClientSends(c) \/ ClientCloses(c)
    \/ Accept \/ AcceptFails \/ Recv \/ Disconnect

Spec == Init /\ [][Next]_vars

-----------------------------------------------------------------------------
Tokens == {EOL} \cup UNION {ToSet(line) : line \in Lines}
States == {"none", "starting", "accepting", "serving", "exited"}

(* Also: the thread is in its receive loop just when it holds a client,     *)
(* and no connection waits and is served at the same time.                  *)
TypeOK ==
    /\ server_thread \in BOOLEAN
    /\ notice \in {"none", "started", "failed", "already running",
                   "waiting for client", "exited"}
    /\ server \in States
    /\ connected \in Connections \cup {NoConnection}
    /\ server = "serving" <=> connected # NoConnection
    /\ backlog \in Seq(Connections \ {connected})
    /\ peer \in [Connections -> {"idle", "open", "closed"}]
    /\ inbound \in [Connections -> Seq(Tokens)]
    /\ sent \in [Connections -> Seq(Lines)]
    /\ executed \in [Connections -> Seq(Seq(Tokens))]
    /\ replies \in [Connections -> Seq({"status", "ok", "error"})]

Tunes(lines) == SelectSeq(lines, LAMBDA argv : argv[1] = "pid_tune")

(* With a client that waits for each reply and a network that delivers      *)
(* lines whole, a connection is the channel its user expects, whatever the  *)
(* clients before and after it on the same server do.                       *)
Channel == INSTANCE CommandChannel WITH
               Connections <- Relying,
               sent <- [c \in Relying |-> sent[c]],
               executed <- [c \in Relying |-> executed[c]]
ChannelSafety == Channel!Spec

(* The n-th reply answers the n-th line (remote.c:75-148).                  *)
RepliesMatch ==
    \A c \in Relying : \A n \in DOMAIN replies[c] :
        n \in DOMAIN sent[c] /\ replies[c][n] = Kind(sent[c][n])

(* "... forwarded to the device and executed" (README.md:41): once all that *)
(* an open connection carried has been received, all its tunes have run.    *)
NothingLost ==
    \A c \in Relying :
        peer[c] = "open" /\ inbound[c] = <<>> =>
            Tunes(executed[c]) = Tunes(sent[c])

(* A client that does not wait loses commands, but none is invented, merged *)
(* with another, repeated or overtaken, even where a full buffer cuts a     *)
(* line: the two pieces of it cannot pass for a tune.                       *)
TuneNumbers(lines) == {n \in DOMAIN lines : lines[n][1] = "pid_tune"}
TunesInOrder ==
    \A c \in Connections :
        LET ran == TuneNumbers(executed[c])
        IN  \E place \in [ran -> DOMAIN sent[c]] :
                /\ \A i \in ran : executed[c][i] = sent[c][place[i]]
                /\ \A i, j \in ran : i < j => place[i] < place[j]

(* remote_start refuses with "Server is already running." (remote.c:164)    *)
(* only while there is a server.  A thread that exits says so after any     *)
(* refusal before, so that a refusal beside an exited server came later.    *)
AlreadyRunning == notice = "already running" => server # "exited"
=============================================================================
