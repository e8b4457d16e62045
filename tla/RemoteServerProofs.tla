------------------------- MODULE RemoteServerProofs -------------------------
(* The TCP server for every number of clients and connections, every buffer *)
(* size and every length of the backlog: its types, the channel of a client *)
(* that waits for its replies, and the order of the tunes of one that does  *)
(* not, on a network that delivers whole lines.                             *)
EXTENDS RemoteServer, SequenceTheorems, ExtremePositions

-----------------------------------------------------------------------------
(* What a recv makes of any stream.                                         *)
LEMMA PrefixIs ==
    ASSUME NEW S, NEW s \in Seq(S), NEW n \in 0..Len(s)
    PROVE  /\ SubSeq(s, 1, n) \in Seq(S) /\ Len(SubSeq(s, 1, n)) = n
           /\ \A i \in 1..n : SubSeq(s, 1, n)[i] = s[i]
  OBVIOUS

LEMMA SuffixIs ==
    ASSUME NEW S, NEW s \in Seq(S), NEW n \in 1..Len(s)
    PROVE  SubSeq(s, n + 1, Len(s)) \in Seq(S)
  OBVIOUS

LEMMA NarrowedIs ==
    ASSUME NEW S, NEW T, NEW s \in Seq(S), \A i \in 1..Len(s) : s[i] \in T
    PROVE  s \in Seq(T)
  OBVIOUS

LEMMA LineIs ==
    ASSUME NEW line \in Lines
    PROVE  /\ line \in Seq(Tokens) /\ Len(line) \in Nat \ {0}
           /\ \A i \in 1..Len(line) : line[i] # EOL
           /\ Len(line) < RecvRoom /\ Len(line) <= MaxArgs
           /\ EOL \in Tokens
  BY LinesAssumption DEF Tokens, ToSet

(* FirstLine, with the set of line ends its search looks at.                *)
LineEnds(chunk) == {i \in 1..Len(chunk) : chunk[i] = EOL}

LEMMA FirstLineIs ==
    ASSUME NEW chunk
    PROVE  /\ LineEnds(chunk) = {} => FirstLine(chunk) = chunk
           /\ LineEnds(chunk) # {} /\ Min(LineEnds(chunk)) # 0 =>
                FirstLine(chunk) = SubSeq(chunk, 1, Min(LineEnds(chunk)) - 1)
<1>1. SelectInSeq(chunk, LAMBDA word : word = EOL)
        = IF LineEnds(chunk) # {} THEN Min(LineEnds(chunk)) ELSE 0
  BY DEF SelectInSeq, LineEnds
<1> QED BY <1>1 DEF FirstLine

LEMMA ArgvIs ==
    ASSUME NEW chunk \in Seq(Tokens)
    PROVE  Argv(chunk) \in Seq(Tokens)
<1> DEFINE words == FirstLine(chunk)
<1>1. words \in Seq(Tokens)
  <2>1. CASE LineEnds(chunk) = {}
    BY <2>1, FirstLineIs
  <2>2. CASE LineEnds(chunk) # {}
    <3>1. LineEnds(chunk) \in SUBSET Nat
      BY DEF LineEnds
    <3>2. Min(LineEnds(chunk)) \in 1..Len(chunk)
      BY <2>2, <3>1, LeastPosition DEF LineEnds
    <3>3. words = SubSeq(chunk, 1, Min(LineEnds(chunk)) - 1)
      BY <2>2, <3>2, FirstLineIs
    <3>4. Min(LineEnds(chunk)) - 1 \in 0..Len(chunk)
      BY <3>2
    <3> QED BY <3>3, <3>4, PrefixIs
  <2> QED BY <2>1, <2>2
<1> HIDE DEF words
<1>2. Min({Len(words), MaxArgs}) \in 0..Len(words)
  BY <1>1, ServerAssumption DEF Min
<1>3. SubSeq(words, 1, Min({Len(words), MaxArgs})) \in Seq(Tokens)
  BY <1>1, <1>2, PrefixIs
<1> QED BY <1>3 DEF Argv, words

(* A whole line in the buffer is read as it was written.                    *)
LEMMA WholeLineIs ==
    ASSUME NEW line \in Lines, ~ Cuts, NEW n \in Takes(line \o <<EOL>>)
    PROVE  /\ n = Len(line \o <<EOL>>)
           /\ Argv(SubSeq(line \o <<EOL>>, 1, n)) = line
<1> DEFINE stream == line \o <<EOL>>
<1>1. /\ stream \in Seq(Tokens) /\ Len(stream) = Len(line) + 1
      /\ \A i \in 1..Len(line) : stream[i] = line[i]
      /\ stream[Len(line) + 1] = EOL
  BY LineIs
<1> HIDE DEF stream
<1>2. /\ n \in 1..Len(stream) /\ n <= RecvRoom
      /\ n = RecvRoom \/ stream[n] = EOL
  BY DEF Takes, stream
<1>3. n = Len(stream)
  BY <1>1, <1>2, LineIs, ServerAssumption
<1>4. SubSeq(stream, 1, n) = stream
  BY <1>1, <1>3, SubSeqFull
<1>5. FirstLine(stream) = line
  <2>1. LineEnds(stream) = {Len(stream)}
    BY <1>1, LineIs DEF LineEnds
  <2>2. Min(LineEnds(stream)) = Len(line) + 1
    BY <2>1, <1>1, LineIs DEF Min
  <2>3. FirstLine(stream) = SubSeq(stream, 1, Len(line))
    <3>1. LineEnds(stream) # {} /\ Min(LineEnds(stream)) # 0
      BY <2>1, <2>2, LineIs
    <3>2. FirstLine(stream) = SubSeq(stream, 1, Min(LineEnds(stream)) - 1)
      BY <3>1, FirstLineIs
    <3>3. Len(line) + 1 - 1 = Len(line)
      BY LineIs
    <3> QED BY <3>2, <3>3, <2>2
  <2>4. SubSeq(stream, 1, Len(line)) = line
    <3>1. Len(line) \in 0..Len(stream)
      BY <1>1, LineIs
    <3> QED BY <3>1, <1>1, LineIs, PrefixIs, SeqEqual
  <2> QED BY <2>3, <2>4
<1>6. Argv(stream) = SubSeq(line, 1, Len(line))
  <2>1. Min({Len(line), MaxArgs}) = Len(line)
    BY LineIs, ServerAssumption DEF Min
  <2> QED BY <1>5, <2>1 DEF Argv
<1> QED BY <1>3, <1>4, <1>6, LineIs, SubSeqFull DEF stream

LEMMA KindIs == \A argv : Kind(argv) \in {"status", "ok", "error"}
BY DEF Kind

-----------------------------------------------------------------------------
(* A connection is in one place: idle, once in the backlog, or served; and  *)
(* there is no server that the handle does not tell of.                     *)
Placed ==
    /\ \A i, j \in DOMAIN backlog : backlog[i] = backlog[j] => i = j
    /\ \A i \in DOMAIN backlog : peer[backlog[i]] # "idle"
    /\ connected # NoConnection => peer[connected] # "idle"
    /\ ~ server_thread => server = "none"

TypeInv == TypeOK /\ Placed

LEMMA TypeInvInit == Init => TypeInv
<1> SUFFICES ASSUME Init PROVE TypeInv
  OBVIOUS
<1>1. backlog \in Seq(Connections \ {connected})
  BY DEF Init
<1>2. /\ inbound \in [Connections -> Seq(Tokens)]
      /\ sent \in [Connections -> Seq(Lines)]
      /\ executed \in [Connections -> Seq(Seq(Tokens))]
      /\ replies \in [Connections -> Seq({"status", "ok", "error"})]
  BY DEF Init
<1>3. Placed
  BY DEF Init, Placed
<1> QED BY <1>1, <1>2, <1>3 DEF Init, TypeInv, TypeOK, States

(* What a step leaves of the queue.                                         *)
LEMMA BacklogIs ==
    ASSUME TypeInv
    PROVE  /\ backlog \in Seq(Connections) /\ Len(backlog) \in Nat
           /\ DOMAIN backlog = 1..Len(backlog)
           /\ \A i \in 1..Len(backlog) :
                 backlog[i] \in Connections /\ backlog[i] # connected
<1>1. backlog \in Seq(Connections \ {connected})
  BY DEF TypeInv, TypeOK
<1>2. \A i \in 1..Len(backlog) : backlog[i] \in Connections \ {connected}
  BY <1>1, ElementOfSeq
<1>3. backlog \in Seq(Connections)
  BY <1>1, <1>2
<1> QED BY <1>1, <1>2, <1>3

LEMMA BacklogTail ==
    ASSUME TypeInv, backlog # <<>>
    PROVE  /\ Head(backlog) \in Connections /\ Head(backlog) = backlog[1]
           /\ 1 \in DOMAIN backlog
           /\ Tail(backlog) \in Seq(Connections \ {connected})
           /\ Tail(backlog) \in Seq(Connections \ {Head(backlog)})
           /\ \A i \in DOMAIN Tail(backlog) :
                 i \in Int /\ i + 1 \in DOMAIN backlog
                 /\ Tail(backlog)[i] = backlog[i + 1]
<1>1. /\ Head(backlog) = backlog[1] /\ 1 \in 1..Len(backlog)
      /\ Tail(backlog) \in Seq(Connections)
      /\ Len(Tail(backlog)) = Len(backlog) - 1
      /\ DOMAIN Tail(backlog) = 1..Len(backlog) - 1
      /\ \A i \in 1..Len(backlog) - 1 : Tail(backlog)[i] = backlog[i + 1]
  BY BacklogIs, HeadTailProperties
<1>2. \A i \in 1..Len(backlog) - 1 :
         i \in Int /\ i + 1 \in 1..Len(backlog) /\ i + 1 # 1
  BY BacklogIs
<1>3. \A i \in 1..Len(backlog) - 1 :
         /\ Tail(backlog)[i] \in Connections
         /\ Tail(backlog)[i] # connected /\ Tail(backlog)[i] # Head(backlog)
  BY <1>1, <1>2, BacklogIs DEF TypeInv, Placed
<1>4. /\ Tail(backlog) \in Seq(Connections \ {connected})
      /\ Tail(backlog) \in Seq(Connections \ {Head(backlog)})
  <2>1. Len(Tail(backlog)) = Len(backlog) - 1
    BY <1>1
  <2> QED BY <1>1, <1>3, <2>1, NarrowedIs
<1> QED BY <1>1, <1>2, <1>4, BacklogIs

LEMMA WritesTyped ==
    ASSUME TypeInv, NEW c \in Connections, NEW line \in Lines, Writes(c, line)
    PROVE  TypeInv'
<1>1. /\ inbound \in [Connections -> Seq(Tokens)]
      /\ sent \in [Connections -> Seq(Lines)]
  BY DEF TypeInv, TypeOK
<1>2. inbound[c] \o line \o <<EOL>> \in Seq(Tokens)
  <2>1. <<EOL>> \in Seq(Tokens) /\ line \in Seq(Tokens)
    BY LineIs
  <2> QED BY <2>1, <1>1, ConcatProperties
<1>3. inbound' \in [Connections -> Seq(Tokens)]
  BY <1>1, <1>2 DEF Writes
<1>4. sent' \in [Connections -> Seq(Lines)]
  <2>1. Append(sent[c], line) \in Seq(Lines)
    BY <1>1, AppendProperties
  <2> QED BY <2>1, <1>1 DEF Writes
<1> QED BY <1>3, <1>4 DEF Writes, thread, TypeInv, TypeOK, Placed

LEMMA TypeInvNext == TypeInv /\ [Next]_vars => TypeInv'
<1> SUFFICES ASSUME TypeInv, [Next]_vars PROVE TypeInv'
  OBVIOUS
<1>a. /\ inbound \in [Connections -> Seq(Tokens)]
      /\ sent \in [Connections -> Seq(Lines)]
      /\ executed \in [Connections -> Seq(Seq(Tokens))]
      /\ replies \in [Connections -> Seq({"status", "ok", "error"})]
      /\ peer \in [Connections -> {"idle", "open", "closed"}]
  BY DEF TypeInv, TypeOK
<1>1. CASE RemoteStart
  BY <1>1 DEF RemoteStart, TypeInv, TypeOK, Placed, States
<1>2. CASE SetUp
  BY <1>2 DEF SetUp, TypeInv, TypeOK, Placed, States
<1>3. ASSUME NEW c \in Connections, Connect(c) PROVE TypeInv'
  <2>1. /\ backlog' = Append(backlog, c) /\ connected' = connected
        /\ peer' = [peer EXCEPT ![c] = "open"] /\ peer[c] = "idle"
    BY <1>3 DEF Connect
  <2>2. c # connected
    BY <2>1, ServerAssumption DEF TypeInv, Placed
  <2>3. backlog' \in Seq(Connections \ {connected'})
    <3>1. backlog \in Seq(Connections \ {connected})
      BY DEF TypeInv, TypeOK
    <3> QED BY <2>1, <2>2, <3>1, AppendProperties
  <2>4. Placed'
    <3>1. /\ DOMAIN backlog' = 1..Len(backlog) + 1
          /\ \A i \in 1..Len(backlog) : backlog'[i] = backlog[i]
          /\ backlog'[Len(backlog) + 1] = c
      BY <2>1, BacklogIs, AppendProperties
    <3>2. \A i \in 1..Len(backlog) : backlog[i] # c
      BY <2>1, BacklogIs DEF TypeInv, Placed
    <3>3. \A d \in Connections : peer[d] # "idle" => peer'[d] # "idle"
      BY <2>1, <1>a
    <3>4. \A i, j \in DOMAIN backlog' : backlog'[i] = backlog'[j] => i = j
      BY <3>1, <3>2, BacklogIs DEF TypeInv, Placed
    <3>5. \A i \in DOMAIN backlog' : peer'[backlog'[i]] # "idle"
      <4> SUFFICES ASSUME NEW i \in 1..Len(backlog) + 1
                   PROVE  peer'[backlog'[i]] # "idle"
        BY <3>1
      <4>1. CASE i = Len(backlog) + 1
        BY <4>1, <2>1, <3>1, <1>a
      <4>2. CASE i \in 1..Len(backlog)
        <5>1. peer[backlog[i]] # "idle" /\ backlog[i] \in Connections
          BY <4>2, BacklogIs DEF TypeInv, Placed
        <5> QED BY <4>2, <5>1, <3>1, <3>3
      <4> QED BY <4>1, <4>2, BacklogIs
    <3>6. connected' # NoConnection => peer'[connected'] # "idle"
      BY <2>1, <3>3 DEF TypeInv, Placed, TypeOK
    <3>7. ~ server_thread' => server' = "none"
      BY <1>3 DEF Connect, thread, TypeInv, Placed
    <3> QED BY <3>4, <3>5, <3>6, <3>7 DEF Placed
  <2> QED BY <1>3, <2>3, <2>4 DEF Connect, thread, TypeInv, TypeOK
<1>4. ASSUME NEW c \in Connections, ClientSends(c) PROVE TypeInv'
  BY <1>4, WritesTyped DEF ClientSends
<1>5. ASSUME NEW c \in Connections, ClientCloses(c) PROVE TypeInv'
  <2>1. peer' \in [Connections -> {"idle", "open", "closed"}]
    BY <1>5, <1>a DEF ClientCloses
  <2>2. \A d \in Connections : peer[d] # "idle" => peer'[d] # "idle"
    BY <1>5, <1>a DEF ClientCloses
  <2>3. Placed'
    BY <1>5, <2>2, BacklogIs
       DEF ClientCloses, thread, TypeInv, TypeOK, Placed
  <2> QED BY <1>5, <2>1, <2>3 DEF ClientCloses, thread, TypeInv, TypeOK
<1>6. CASE Accept
  <2>1. /\ backlog # <<>> /\ backlog' = Tail(backlog)
        /\ connected' = Head(backlog) /\ peer' = peer
    BY <1>6 DEF Accept
  <2>2. connected' \in Connections /\ connected' # NoConnection
    BY <2>1, BacklogTail, ServerAssumption
  <2>3. Placed'
    <3>1. \A i, j \in DOMAIN backlog' : backlog'[i] = backlog'[j] => i = j
      BY <2>1, BacklogTail DEF TypeInv, Placed
    <3>2. \A i \in DOMAIN backlog' : peer'[backlog'[i]] # "idle"
      BY <2>1, BacklogTail DEF TypeInv, Placed
    <3>3. connected' # NoConnection => peer'[connected'] # "idle"
      BY <2>1, BacklogTail DEF TypeInv, Placed
    <3>4. ~ server_thread' => server' = "none"
      BY <1>6 DEF Accept, TypeInv, Placed
    <3> QED BY <3>1, <3>2, <3>3, <3>4 DEF Placed
  <2> QED BY <1>6, <2>1, <2>2, <2>3, BacklogTail
          DEF Accept, TypeInv, TypeOK, States
<1>7. CASE AcceptFails
  <2>1. /\ backlog # <<>> /\ backlog' = Tail(backlog)
        /\ connected' = connected
        /\ peer' = [peer EXCEPT ![Head(backlog)] = "closed"]
    BY <1>7 DEF AcceptFails
  <2>2. /\ peer' \in [Connections -> {"idle", "open", "closed"}]
        /\ \A d \in Connections : peer[d] # "idle" => peer'[d] # "idle"
    BY <2>1, <1>a
  <2>3. Placed'
    <3>1. \A i, j \in DOMAIN backlog' : backlog'[i] = backlog'[j] => i = j
      BY <2>1, BacklogTail DEF TypeInv, Placed
    <3>2. \A i \in DOMAIN backlog' : peer'[backlog'[i]] # "idle"
      BY <2>1, <2>2, BacklogIs, BacklogTail DEF TypeInv, Placed
    <3>3. connected' # NoConnection => peer'[connected'] # "idle"
      BY <2>1, <2>2 DEF TypeInv, TypeOK, Placed
    <3>4. ~ server_thread' => server' = "none"
      BY <1>7 DEF AcceptFails, thread, TypeInv, Placed
    <3> QED BY <3>1, <3>2, <3>3, <3>4 DEF Placed
  <2> QED BY <1>7, <2>1, <2>2, <2>3, BacklogTail
          DEF AcceptFails, thread, TypeInv, TypeOK
<1>8. CASE Disconnect
  <2>1. /\ connected \in Connections /\ connected' = NoConnection
        /\ peer' = [peer EXCEPT ![connected] = "closed"] /\ backlog' = backlog
    BY <1>8 DEF Disconnect, Hangs, TypeInv, TypeOK
  <2>2. /\ peer' \in [Connections -> {"idle", "open", "closed"}]
        /\ \A d \in Connections : peer[d] # "idle" => peer'[d] # "idle"
    BY <2>1, <1>a
  <2>3. backlog' \in Seq(Connections \ {connected'})
    <3>1. \A i \in 1..Len(backlog) : backlog[i] \in Connections \ {NoConnection}
      BY BacklogIs, ServerAssumption
    <3> QED BY <2>1, <3>1, BacklogIs
  <2>4. Placed'
    <3>1. \A i, j \in DOMAIN backlog' : backlog'[i] = backlog'[j] => i = j
      BY <2>1 DEF TypeInv, Placed
    <3>2. \A i \in DOMAIN backlog' : peer'[backlog'[i]] # "idle"
      BY <2>1, <2>2, BacklogIs DEF TypeInv, Placed
    <3>3. ~ server_thread' => server' = "none"
      BY <1>8 DEF Disconnect, TypeInv, Placed
    <3> QED BY <2>1, <3>1, <3>2, <3>3 DEF Placed
  <2> QED BY <1>8, <2>2, <2>3, <2>4
          DEF Disconnect, TypeInv, TypeOK, States
<1>9. CASE Recv
  <2> DEFINE c == connected
             argv(n) == Argv(SubSeq(inbound[c], 1, n))
  <2>1. c \in Connections /\ c # NoConnection /\ server = "serving"
    BY <1>9 DEF Recv, TypeInv, TypeOK
  <2>2. PICK n \in Takes(inbound[c]) :
          /\ inbound' = [inbound EXCEPT ![c] = SubSeq(@, n + 1, Len(@))]
          /\ IF argv(n) = <<>>
             THEN UNCHANGED <<server, connected, peer, executed, replies>>
             ELSE /\ executed' = [executed EXCEPT ![c] = Append(@, argv(n))]
                  /\ Reply(c, Kind(argv(n)))
    BY <1>9 DEF Recv
  <2>3. n \in 1..Len(inbound[c]) /\ inbound[c] \in Seq(Tokens)
    BY <2>1, <1>a DEF Takes
  <2>4. inbound' \in [Connections -> Seq(Tokens)]
    <3>1. SubSeq(inbound[c], n + 1, Len(inbound[c])) \in Seq(Tokens)
      BY <2>3, SuffixIs
    <3> QED BY <2>1, <2>2, <3>1, <1>a
  <2>5. argv(n) \in Seq(Tokens)
    <3>1. n \in 0..Len(inbound[c])
      BY <2>3
    <3> QED BY <2>3, <3>1, PrefixIs, ArgvIs
  <2> HIDE DEF argv
  <2>6. executed' \in [Connections -> Seq(Seq(Tokens))]
    <3>1. Append(executed[c], argv(n)) \in Seq(Seq(Tokens))
      BY <2>1, <2>5, <1>a, AppendProperties
    <3> QED BY <2>1, <2>2, <3>1, <1>a
  <2>7. UNCHANGED <<server_thread, notice, backlog, sent>>
    BY <1>9 DEF Recv
  <2>8. /\ replies' \in [Connections -> Seq({"status", "ok", "error"})]
        /\ peer' \in [Connections -> {"idle", "open", "closed"}]
        /\ \A d \in Connections : peer[d] # "idle" => peer'[d] # "idle"
        /\ \/ UNCHANGED <<server, connected>>
           \/ server' = "accepting" /\ connected' = NoConnection
    <3> DEFINE kind == Kind(argv(n))
    <3>1. kind \in {"status", "ok", "error"}
      BY KindIs
    <3> HIDE DEF kind
    <3>2. CASE UNCHANGED <<server, connected, peer, replies>>
      BY <3>2, <1>a
    <3>3. CASE Reply(c, kind)
      <4>1. Append(replies[c], kind) \in Seq({"status", "ok", "error"})
        BY <2>1, <3>1, <1>a, AppendProperties
      <4> QED BY <2>1, <3>3, <4>1, <1>a DEF Reply, Hangs
    <3> QED BY <2>2, <3>2, <3>3 DEF kind
  <2>9. backlog' \in Seq(Connections \ {connected'})
    <3>1. \A i \in 1..Len(backlog) : backlog[i] \in Connections \ {connected'}
      BY <2>8, BacklogIs, ServerAssumption
    <3> QED BY <2>7, <3>1, BacklogIs, NarrowedIs
  <2>10. Placed'
    <3>1. \A i, j \in DOMAIN backlog' : backlog'[i] = backlog'[j] => i = j
      BY <2>7 DEF TypeInv, Placed
    <3>2. \A i \in DOMAIN backlog' : peer'[backlog'[i]] # "idle"
      BY <2>7, <2>8, BacklogIs DEF TypeInv, Placed
    <3>3. connected' # NoConnection => peer'[connected'] # "idle"
      BY <2>1, <2>8 DEF TypeInv, Placed
    <3>4. ~ server_thread' => server' = "none"
      BY <2>1, <2>7 DEF TypeInv, Placed
    <3> QED BY <3>1, <3>2, <3>3, <3>4 DEF Placed
  <2>11. server' \in States /\ (server' = "serving" <=> connected' # NoConnection)
         /\ connected' \in Connections \cup {NoConnection}
    BY <2>1, <2>8 DEF States
  <2> QED BY <2>4, <2>6, <2>7, <2>8, <2>9, <2>10, <2>11 DEF TypeInv, TypeOK
<1>10. CASE UNCHANGED vars
  BY <1>10 DEF vars, thread, TypeInv, TypeOK, Placed
<1> QED BY <1>1, <1>2, <1>3, <1>4, <1>5, <1>6, <1>7, <1>8, <1>9, <1>10 DEF Next

(* Types, and each connection is in one place.                              *)
THEOREM ServerTypeCorrect == Spec => []TypeOK
<1>1. TypeInv => TypeOK
  BY DEF TypeInv
<1> QED BY <1>1, TypeInvInit, TypeInvNext, PTL DEF Spec

-----------------------------------------------------------------------------
(* The promise a user relies on: each waits for a reply before the next     *)
(* line, on a network that delivers lines whole.                            *)
Waiting == ~ Cuts /\ \A c \in Relying : Window[c] = 1

(* Where the last line of a waiting client can be: answered, or whole and   *)
(* alone in the stream.  Every reply but that of a closed connection is     *)
(* one of the executed lines, in their order.                               *)
Answered(c) == inbound[c] = <<>> /\ executed[c] = sent[c]
OnItsWay(c) == \E line \in Lines : /\ sent[c] = Append(executed[c], line)
                                   /\ inbound[c] = line \o <<EOL>>
RepliesAre(c) ==
    /\ Len(replies[c]) <= Len(executed[c])
    /\ peer[c] # "closed" => Len(replies[c]) = Len(executed[c])
    /\ \A n \in DOMAIN replies[c] : replies[c][n] = Kind(executed[c][n])
LineByLine ==
    \A c \in Relying : (Answered(c) \/ OnItsWay(c)) /\ RepliesAre(c)

ChannelInv == TypeInv /\ LineByLine

LEMMA LineByLineInit == Init => LineByLine
BY ServerAssumption DEF Init, LineByLine, Answered, RepliesAre

LEMMA LineByLineUndisturbed ==
    ASSUME LineByLine, NEW c \in Relying,
           inbound'[c] = inbound[c], sent'[c] = sent[c],
           executed'[c] = executed[c], replies'[c] = replies[c],
           peer'[c] # "closed" => peer[c] # "closed"
    PROVE  ((Answered(c) \/ OnItsWay(c)) /\ RepliesAre(c))'
  BY DEF LineByLine, Answered, OnItsWay, RepliesAre

LEMMA SendsOne ==
    ASSUME ChannelInv, Waiting, NEW c \in Relying, NEW line \in Lines,
           Len(sent[c]) - Len(replies[c]) < Window[c], Writes(c, line)
    PROVE  /\ (OnItsWay(c) /\ RepliesAre(c))'
           /\ sent' = [sent EXCEPT ![c] = Append(@, line)]
           /\ UNCHANGED executed
<1>1. /\ c \in Connections /\ Window[c] = 1
      /\ sent[c] \in Seq(Lines) /\ replies[c] \in Seq({"status", "ok", "error"})
      /\ executed[c] \in Seq(Seq(Tokens))
      /\ inbound \in [Connections -> Seq(Tokens)]
      /\ sent \in [Connections -> Seq(Lines)]
  BY ServerAssumption DEF ChannelInv, TypeInv, TypeOK, Waiting
<1>2. /\ peer[c] = "open" /\ UNCHANGED <<peer, executed, replies>>
      /\ sent' = [sent EXCEPT ![c] = Append(@, line)]
      /\ inbound' = [inbound EXCEPT ![c] = @ \o line \o <<EOL>>]
  BY DEF Writes
<1>3. Len(replies[c]) = Len(executed[c]) /\ RepliesAre(c)
  BY <1>2 DEF ChannelInv, LineByLine, RepliesAre
<1>4. ~ OnItsWay(c)
  <2> SUFFICES ASSUME NEW l \in Lines, sent[c] = Append(executed[c], l)
               PROVE  FALSE
    BY DEF OnItsWay
  <2>1. l \in Seq(Tokens)
    BY LineIs
  <2>2. Len(sent[c]) = Len(executed[c]) + 1
    BY <1>1, <2>1, AppendProperties
  <2>3. Len(sent[c]) \in Nat /\ Len(executed[c]) \in Nat
    BY <1>1
  <2> QED BY <1>1, <1>3, <2>2, <2>3
<1>5. Answered(c)
  BY <1>4 DEF ChannelInv, LineByLine
<1>6. sent'[c] = Append(executed'[c], line)
  BY <1>1, <1>2, <1>5 DEF Answered
<1>7. inbound'[c] = line \o <<EOL>>
  <2>1. line \in Seq(Tokens) /\ <<EOL>> \in Seq(Tokens)
    BY LineIs
  <2>2. inbound'[c] = <<>> \o line \o <<EOL>>
    BY <1>1, <1>2, <1>5 DEF Answered
  <2>3. <<>> \o line = line
    BY <2>1, ConcatEmptySeq
  <2> QED BY <2>2, <2>3
<1> QED BY <1>2, <1>3, <1>6, <1>7 DEF OnItsWay, RepliesAre

(* A recv for a waiting client takes the line as it was written.            *)
LEMMA ReceivesOne ==
    ASSUME ChannelInv, Waiting, Recv, connected \in Relying
    PROVE  LET c == connected
           IN  /\ OnItsWay(c)
               /\ \E line \in Lines :
                     /\ sent[c] = Append(executed[c], line)
                     /\ executed' = [executed EXCEPT ![c] = Append(@, line)]
                     /\ Reply(c, Kind(line))
               /\ inbound' = [inbound EXCEPT ![c] = <<>>]
               /\ UNCHANGED sent
<1> DEFINE c == connected
<1>1. PICK n \in Takes(inbound[c]) :
          LET argv == Argv(SubSeq(inbound[c], 1, n))
          IN  /\ inbound' = [inbound EXCEPT ![c] = SubSeq(@, n + 1, Len(@))]
              /\ IF argv = <<>>
                 THEN UNCHANGED <<server, connected, peer, executed, replies>>
                 ELSE /\ executed' = [executed EXCEPT ![c] = Append(@, argv)]
                      /\ Reply(c, Kind(argv))
  BY DEF Recv
<1>2. inbound[c] # <<>>
  BY <1>1 DEF Takes
<1>3. OnItsWay(c)
  BY <1>2 DEF ChannelInv, LineByLine, Answered
<1>4. PICK line \in Lines : /\ sent[c] = Append(executed[c], line)
                            /\ inbound[c] = line \o <<EOL>>
  BY <1>3 DEF OnItsWay
<1>5. /\ n = Len(inbound[c])
      /\ Argv(SubSeq(inbound[c], 1, n)) = line /\ line # <<>>
  <2>1. line # <<>>
    BY LinesAssumption
  <2> QED BY <1>1, <1>4, <2>1, WholeLineIs DEF Waiting
<1>6. inbound' = [inbound EXCEPT ![c] = <<>>]
  <2>1. inbound[c] \in Seq(Tokens)
    BY ServerAssumption DEF ChannelInv, TypeInv, TypeOK
  <2>2. Len(inbound[c]) \in Nat
    BY <2>1
  <2>3. SubSeq(inbound[c], n + 1, Len(inbound[c])) = <<>>
    BY <2>2, <1>5, SubSeqEmpty
  <2> QED BY <1>1, <2>3
<1>7. /\ executed' = [executed EXCEPT ![c] = Append(@, line)]
      /\ Reply(c, Kind(line))
  BY <1>1, <1>5
<1>8. UNCHANGED sent
  BY DEF Recv
<1> QED BY <1>3, <1>4, <1>6, <1>7, <1>8

LEMMA LineByLineRecv ==
    ASSUME ChannelInv, Waiting, Recv PROVE LineByLine'
<1>1. connected \in Connections
  BY DEF Recv, ChannelInv, TypeInv, TypeOK
<1>2. ASSUME NEW c \in Relying, c # connected
      PROVE  ((Answered(c) \/ OnItsWay(c)) /\ RepliesAre(c))'
  <2>1. /\ inbound'[c] = inbound[c] /\ sent'[c] = sent[c]
        /\ executed'[c] = executed[c] /\ replies'[c] = replies[c]
        /\ peer'[c] = peer[c]
    BY <1>1, <1>2, ServerAssumption
       DEF Recv, Reply, Hangs, ChannelInv, TypeInv, TypeOK
  <2> QED BY <1>2, <2>1, LineByLineUndisturbed DEF ChannelInv
<1>3. ASSUME NEW c \in Relying, c = connected
      PROVE  ((Answered(c) \/ OnItsWay(c)) /\ RepliesAre(c))'
  <2>1. PICK line \in Lines :
          /\ sent[c] = Append(executed[c], line)
          /\ executed' = [executed EXCEPT ![c] = Append(@, line)]
          /\ Reply(c, Kind(line))
    BY <1>3, ReceivesOne
  <2>2. inbound' = [inbound EXCEPT ![c] = <<>>] /\ UNCHANGED sent
    BY <1>3, ReceivesOne
  <2>3. /\ inbound \in [Connections -> Seq(Tokens)]
        /\ executed \in [Connections -> Seq(Seq(Tokens))]
        /\ replies \in [Connections -> Seq({"status", "ok", "error"})]
        /\ peer \in [Connections -> {"idle", "open", "closed"}]
        /\ line \in Seq(Tokens) /\ c \in Connections
    BY <1>1, <1>3, LineIs DEF ChannelInv, TypeInv, TypeOK
  <2>4. Answered(c)'
    BY <2>1, <2>2, <2>3 DEF Answered
  <2> DEFINE ran == executed[c]
             gave == replies[c]
  <2>5. /\ ran \in Seq(Seq(Tokens)) /\ Len(ran) \in Nat
        /\ gave \in Seq({"status", "ok", "error"}) /\ Len(gave) \in Nat
        /\ DOMAIN gave = 1..Len(gave)
        /\ executed'[c] = Append(ran, line)
        /\ Len(Append(ran, line)) = Len(ran) + 1
        /\ \A n \in 1..Len(ran) : Append(ran, line)[n] = ran[n]
        /\ Append(ran, line)[Len(ran) + 1] = line
    BY <2>1, <2>3, AppendProperties
  <2>6. /\ Len(gave) <= Len(ran)
        /\ peer[c] # "closed" => Len(gave) = Len(ran)
        /\ \A n \in 1..Len(gave) : gave[n] = Kind(ran[n])
    BY <1>3, <2>5 DEF ChannelInv, LineByLine, RepliesAre
  <2> HIDE DEF ran, gave
  <2>7. CASE peer[c] = "open" /\ replies'[c] = Append(gave, Kind(line))
    <3>1. Kind(line) \in {"status", "ok", "error"}
      BY KindIs
    <3>2. /\ Len(replies'[c]) = Len(gave) + 1
          /\ DOMAIN replies'[c] = 1..Len(gave) + 1
          /\ \A n \in 1..Len(gave) : replies'[c][n] = gave[n]
          /\ replies'[c][Len(gave) + 1] = Kind(line)
      BY <2>5, <2>7, <3>1, AppendProperties
    <3>3. Len(gave) = Len(ran)
      BY <2>6, <2>7
    <3>4. \A n \in 1..Len(gave) + 1 : n \in 1..Len(gave) \/ n = Len(gave) + 1
      BY <2>5
    <3>5. \A n \in DOMAIN replies'[c] : replies'[c][n] = Kind(executed'[c][n])
      BY <2>5, <2>6, <3>2, <3>3, <3>4
    <3>6. Len(replies'[c]) = Len(executed'[c])
      BY <2>5, <3>2, <3>3
    <3> QED BY <2>4, <2>5, <3>5, <3>6 DEF RepliesAre
  <2>8. CASE peer'[c] = "closed" /\ replies'[c] = gave
    BY <2>4, <2>5, <2>6, <2>8 DEF RepliesAre
  <2>9. \/ peer[c] = "open" /\ replies'[c] = Append(gave, Kind(line))
        \/ peer'[c] = "closed" /\ replies'[c] = gave
    BY <2>1, <2>3, <1>3 DEF Reply, Hangs, gave
  <2> QED BY <2>4, <2>7, <2>8, <2>9
<1> QED BY <1>2, <1>3 DEF LineByLine

LEMMA LineByLineNext ==
    ASSUME Waiting PROVE ChannelInv /\ [Next]_vars => LineByLine'
<1> SUFFICES ASSUME ChannelInv, [Next]_vars PROVE LineByLine'
  OBVIOUS
<1>1. CASE Recv
  BY <1>1, LineByLineRecv
<1>2. ASSUME NEW d \in Connections, ClientSends(d) PROVE LineByLine'
  <2>1. PICK line \in Lines : Writes(d, line)
    BY <1>2 DEF ClientSends
  <2>2. Len(sent[d]) - Len(replies[d]) < Window[d]
    BY <1>2 DEF ClientSends
  <2>3. ASSUME NEW c \in Relying, c = d
        PROVE  ((Answered(c) \/ OnItsWay(c)) /\ RepliesAre(c))'
    BY <2>1, <2>2, <2>3, SendsOne
  <2>4. ASSUME NEW c \in Relying, c # d
        PROVE  ((Answered(c) \/ OnItsWay(c)) /\ RepliesAre(c))'
    <3>1. /\ inbound'[c] = inbound[c] /\ sent'[c] = sent[c]
          /\ executed' = executed /\ replies' = replies /\ peer' = peer
      BY <2>1, <2>4, ServerAssumption DEF Writes, ChannelInv, TypeInv, TypeOK
    <3> QED BY <3>1, LineByLineUndisturbed DEF ChannelInv
  <2> QED BY <2>3, <2>4 DEF LineByLine
<1>3. ASSUME UNCHANGED <<inbound, sent, executed, replies>>,
             \A c \in Connections : peer'[c] # "closed" => peer[c] # "closed"
      PROVE  LineByLine'
  <2> SUFFICES ASSUME NEW c \in Relying
               PROVE  ((Answered(c) \/ OnItsWay(c)) /\ RepliesAre(c))'
    BY DEF LineByLine
  <2>1. peer'[c] # "closed" => peer[c] # "closed"
    BY <1>3, ServerAssumption
  <2> QED BY <1>3, <2>1, LineByLineUndisturbed DEF ChannelInv
<1>4. peer \in [Connections -> {"idle", "open", "closed"}]
  BY DEF ChannelInv, TypeInv, TypeOK
<1>5. CASE RemoteStart \/ SetUp \/ Accept \/ UNCHANGED vars
  BY <1>3, <1>5 DEF RemoteStart, SetUp, Accept, vars
<1>6. ASSUME NEW c \in Connections, Connect(c) \/ ClientCloses(c)
      PROVE  LineByLine'
  BY <1>3, <1>4, <1>6 DEF Connect, ClientCloses
<1>7. CASE AcceptFails \/ Disconnect
  BY <1>3, <1>4, <1>7 DEF AcceptFails, Disconnect, Hangs
<1> QED BY <1>1, <1>2, <1>5, <1>6, <1>7 DEF Next

LEMMA ChannelInvariant == ASSUME Waiting PROVE Spec => []ChannelInv
<1>1. Init => ChannelInv
  BY TypeInvInit, LineByLineInit DEF ChannelInv
<1>2. ChannelInv /\ [Next]_vars => ChannelInv'
  BY TypeInvNext, LineByLineNext DEF ChannelInv
<1> QED BY <1>1, <1>2, PTL DEF Spec

(* A waiting client's n-th reply answers its n-th line.                     *)
THEOREM WaitingRepliesMatch == ASSUME Waiting PROVE Spec => []RepliesMatch
<1>1. ChannelInv => RepliesMatch
  <2> SUFFICES ASSUME ChannelInv, NEW c \in Relying, NEW n \in DOMAIN replies[c]
               PROVE  n \in DOMAIN sent[c] /\ replies[c][n] = Kind(sent[c][n])
    BY DEF RepliesMatch
  <2>1. /\ replies[c] \in Seq({"status", "ok", "error"})
        /\ executed[c] \in Seq(Seq(Tokens)) /\ sent[c] \in Seq(Lines)
    BY ServerAssumption DEF ChannelInv, TypeInv, TypeOK
  <2>2. n \in 1..Len(executed[c]) /\ replies[c][n] = Kind(executed[c][n])
    BY <2>1 DEF ChannelInv, LineByLine, RepliesAre
  <2>3. CASE Answered(c)
    BY <2>1, <2>2, <2>3 DEF Answered
  <2>4. CASE OnItsWay(c)
    <3>1. PICK line \in Lines : sent[c] = Append(executed[c], line)
      BY <2>4 DEF OnItsWay
    <3>2. line \in Seq(Tokens)
      BY LineIs
    <3>3. n \in DOMAIN sent[c] /\ sent[c][n] = executed[c][n]
      BY <2>1, <2>2, <3>1, <3>2, AppendProperties
    <3> QED BY <2>2, <3>3
  <2> QED BY <2>3, <2>4 DEF ChannelInv, LineByLine
<1> QED BY <1>1, ChannelInvariant, PTL

(* Once all a waiting client wrote has been received, all its tunes have    *)
(* run, whatever the other clients, the network and the shell do.           *)
THEOREM WaitingLosesNothing == ASSUME Waiting PROVE Spec => []NothingLost
<1>1. ChannelInv => NothingLost
  <2> SUFFICES ASSUME ChannelInv, NEW c \in Relying, inbound[c] = <<>>
               PROVE  Tunes(executed[c]) = Tunes(sent[c])
    BY DEF NothingLost
  <2>1. ~ OnItsWay(c)
    <3> SUFFICES ASSUME NEW line \in Lines, line \o <<EOL>> = <<>>
                 PROVE  FALSE
      BY DEF OnItsWay
    <3>1. line \in Seq(Tokens) /\ <<EOL>> \in Seq(Tokens) /\ <<EOL>> # <<>>
      BY LineIs
    <3> QED BY <3>1, ConcatEqualIffEmpty
  <2> QED BY <2>1 DEF ChannelInv, LineByLine, Answered
<1> QED BY <1>1, ChannelInvariant, PTL

-----------------------------------------------------------------------------
(* The server is the channel of CommandChannel to those clients: their      *)
(* lines are executed one by one, each once, in the order of sending.       *)
THEOREM WaitingHasChannel == ASSUME Waiting PROVE Spec => ChannelSafety
<1>1. Init => Channel!Init
  BY ServerAssumption DEF Init, Channel!Init
<1>2. ChannelInv /\ [Next]_vars => [Channel!Next]_(Channel!vars)
  <2> SUFFICES ASSUME ChannelInv, [Next]_vars
               PROVE  Channel!Next \/ UNCHANGED Channel!vars
    OBVIOUS
  <2>0. /\ sent \in [Connections -> Seq(Lines)] /\ Relying \subseteq Connections
        /\ executed \in [Connections -> Seq(Seq(Tokens))]
    BY ServerAssumption DEF ChannelInv, TypeInv, TypeOK
  <2>1. ASSUME NEW d \in Connections, ClientSends(d)
        PROVE  Channel!Next \/ UNCHANGED Channel!vars
    <3>1. PICK line \in Lines : Writes(d, line)
      BY <2>1 DEF ClientSends
    <3>2. sent' = [sent EXCEPT ![d] = Append(@, line)] /\ UNCHANGED executed
      BY <3>1 DEF Writes
    <3>3. CASE d \in Relying
      <4>1. Channel!Request(d)
        BY <2>0, <3>2, <3>3 DEF Channel!Request
      <4> QED BY <3>3, <4>1 DEF Channel!Next
    <3>4. CASE d \notin Relying
      BY <2>0, <3>2, <3>4 DEF Channel!vars
    <3> QED BY <3>3, <3>4
  <2>2. CASE Recv /\ connected \in Relying
    <3>0. PICK c \in Relying : c = connected
      BY <2>2
    <3>1. PICK line \in Lines :
            /\ sent[c] = Append(executed[c], line)
            /\ executed' = [executed EXCEPT ![c] = Append(@, line)]
      BY <2>2, <3>0, ReceivesOne
    <3>2. UNCHANGED sent
      BY <2>2, <3>0, ReceivesOne
    <3>3. /\ Len(executed[c]) < Len(sent[c])
          /\ sent[c][Len(executed[c]) + 1] = line
      <4>1. line \in Seq(Tokens) /\ executed[c] \in Seq(Seq(Tokens))
        BY <2>0, LineIs
      <4> QED BY <3>1, <4>1, AppendProperties
    <3>4. Channel!Execute(c)
      BY <2>0, <3>1, <3>2, <3>3 DEF Channel!Execute
    <3> QED BY <3>4 DEF Channel!Next
  <2>3. CASE Recv /\ connected \notin Relying
    <3>1. UNCHANGED sent
          /\ \A c \in Relying : executed'[c] = executed[c]
      BY <2>0, <2>3 DEF Recv
    <3>2. [c \in Relying |-> executed'[c]] = [c \in Relying |-> executed[c]]
      BY <3>1
    <3> QED BY <3>1, <3>2 DEF Channel!vars
  <2>4. CASE UNCHANGED <<sent, executed>>
    BY <2>4 DEF Channel!vars
  <2>5. ASSUME NEW c \in Connections, Connect(c) \/ ClientCloses(c)
        PROVE  UNCHANGED <<sent, executed>>
    BY <2>5 DEF Connect, ClientCloses
  <2>6. ASSUME RemoteStart \/ SetUp \/ Accept \/ AcceptFails \/ Disconnect
               \/ UNCHANGED vars
        PROVE  UNCHANGED <<sent, executed>>
    BY <2>6 DEF RemoteStart, SetUp, Accept, AcceptFails, Disconnect, vars
  <2> QED BY <2>1, <2>2, <2>3, <2>4, <2>5, <2>6 DEF Next
<1> QED BY <1>1, <1>2, ChannelInvariant, PTL
        DEF ChannelSafety, Channel!Spec, Spec

-----------------------------------------------------------------------------
(* Clients that write ahead of the replies, on a network that delivers      *)
(* lines whole: a full buffer still cuts them, and no line but a tune has   *)
(* the word that a piece of it could begin with.                            *)
WholeTunes ==
    /\ ~ Cuts
    /\ \A line \in Lines : \A i \in 2..Len(line) : line[i] # "pid_tune"

(* The word or the line end at a spot of a line.                            *)
At(said, k) == IF k <= Len(said) THEN said[k] ELSE EOL

(* Of which line each part of the stream is, and which part of it: the rest *)
(* of a line is there to its end, and a line begins after all before it.    *)
Follows(stream, lines, line, spot) ==
    /\ line \in [1..Len(stream) -> 1..Len(lines)]
    /\ spot \in [1..Len(stream) -> Nat \ {0}]
    /\ \A i \in 1..Len(stream) :
          /\ spot[i] <= Len(lines[line[i]]) + 1
          /\ stream[i] = At(lines[line[i]], spot[i])
          /\ \A k \in spot[i]..(Len(lines[line[i]]) + 1) :
                /\ i + k - spot[i] \in 1..Len(stream)
                /\ line[i + k - spot[i]] = line[i]
                /\ spot[i + k - spot[i]] = k
    /\ \A i, j \in 1..Len(stream) : i < j /\ spot[j] = 1 => line[i] < line[j]

(* The stream's rest after n of its parts keeps what is known of it.        *)
Moved(stream, n, line, spot, line2, spot2) ==
    \A i \in 1..(Len(stream) - n) :
        /\ i + n \in 1..Len(stream)
        /\ line2[i] = line[i + n] /\ spot2[i] = spot[i + n]

LEMMA FollowsCut ==
    ASSUME NEW stream \in Seq(Tokens), NEW lines, NEW line, NEW spot,
           Follows(stream, lines, line, spot), NEW n \in 1..Len(stream)
    PROVE  \E line2, spot2 :
              /\ Follows(SubSeq(stream, n + 1, Len(stream)), lines, line2, spot2)
              /\ Moved(stream, n, line, spot, line2, spot2)
<1> DEFINE rest == SubSeq(stream, n + 1, Len(stream))
           line2 == [i \in 1..Len(rest) |-> line[i + n]]
           spot2 == [i \in 1..Len(rest) |-> spot[i + n]]
<1>1. /\ Len(stream) \in Nat /\ n \in Nat /\ n <= Len(stream)
      /\ Len(rest) = Len(stream) - n
      /\ \A i \in 1..(Len(stream) - n) : rest[i] = stream[i + n]
  OBVIOUS
<1> HIDE DEF rest
<1>2. \A i \in 1..Len(rest) : i + n \in 1..Len(stream)
  BY <1>1
<1>3. line2 \in [1..Len(rest) -> 1..Len(lines)]
      /\ spot2 \in [1..Len(rest) -> Nat \ {0}]
  BY <1>2 DEF Follows
<1>4. ASSUME NEW i \in 1..Len(rest)
      PROVE  /\ spot2[i] <= Len(lines[line2[i]]) + 1
             /\ rest[i] = At(lines[line2[i]], spot2[i])
             /\ \A k \in spot2[i]..(Len(lines[line2[i]]) + 1) :
                   /\ i + k - spot2[i] \in 1..Len(rest)
                   /\ line2[i + k - spot2[i]] = line2[i]
                   /\ spot2[i + k - spot2[i]] = k
  <2>1. /\ i + n \in 1..Len(stream) /\ rest[i] = stream[i + n]
        /\ spot2[i] = spot[i + n] /\ line2[i] = line[i + n]
    BY <1>1, <1>2
  <2>2. /\ spot[i + n] <= Len(lines[line[i + n]]) + 1
        /\ stream[i + n] = At(lines[line[i + n]], spot[i + n])
        /\ spot[i + n] \in Nat
    BY <2>1 DEF Follows
  <2>3. ASSUME NEW k \in spot[i + n]..(Len(lines[line[i + n]]) + 1)
        PROVE  /\ i + k - spot2[i] \in 1..Len(rest)
               /\ line2[i + k - spot2[i]] = line2[i]
               /\ spot2[i + k - spot2[i]] = k
    <3> DEFINE m == i + k - spot[i + n]
    <3>1. /\ i + n + k - spot[i + n] \in 1..Len(stream)
          /\ line[i + n + k - spot[i + n]] = line[i + n]
          /\ spot[i + n + k - spot[i + n]] = k
      BY <2>1 DEF Follows
    <3>2. k \in Int /\ k >= spot[i + n] /\ i \in Nat \ {0}
      BY <2>2
    <3>3. m + n = i + n + k - spot[i + n] /\ m \in 1..Len(rest)
      BY <1>1, <2>2, <3>1, <3>2
    <3> HIDE DEF m
    <3>4. line2[m] = line2[i] /\ spot2[m] = k
      BY <2>1, <3>1, <3>3
    <3> QED BY <2>1, <3>3, <3>4 DEF m
  <2> QED BY <2>1, <2>2, <2>3
<1>5. ASSUME NEW i \in 1..Len(rest), NEW j \in 1..Len(rest), i < j, spot2[j] = 1
      PROVE  line2[i] < line2[j]
  <2>1. i + n \in 1..Len(stream) /\ j + n \in 1..Len(stream) /\ i + n < j + n
    BY <1>1, <1>2, <1>5
  <2> QED BY <1>5, <2>1 DEF Follows
<1>6. Moved(stream, n, line, spot, line2, spot2)
  BY <1>1, <1>2 DEF Moved
<1> HIDE DEF line2, spot2
<1>7. Follows(rest, lines, line2, spot2)
  BY <1>3, <1>4, <1>5 DEF Follows
<1> QED BY <1>6, <1>7 DEF rest

LEMMA FollowsWritten ==
    ASSUME NEW stream \in Seq(Tokens), NEW lines \in Seq(Lines), NEW said \in Lines,
           NEW line, NEW spot, Follows(stream, lines, line, spot)
    PROVE  \E line2, spot2 :
              /\ Follows(stream \o said \o <<EOL>>, Append(lines, said), line2, spot2)
              /\ \A i \in 1..Len(stream \o said \o <<EOL>>) :
                    \/ i \in 1..Len(stream) /\ line2[i] = line[i] /\ spot2[i] = spot[i]
                    \/ line2[i] = Len(lines) + 1
<1> DEFINE whole == stream \o said \o <<EOL>>
           more == Append(lines, said)
           s == Len(stream)
           l == Len(said)
           m == Len(lines)
           line2 == [i \in 1..Len(whole) |-> IF i <= s THEN line[i] ELSE m + 1]
           spot2 == [i \in 1..Len(whole) |-> IF i <= s THEN spot[i] ELSE i - s]
<1>1. /\ s \in Nat /\ l \in Nat \ {0} /\ m \in Nat
      /\ Len(whole) = s + l + 1
      /\ \A i \in 1..s : whole[i] = stream[i]
      /\ \A i \in 1..l : whole[s + i] = said[i]
      /\ whole[s + l + 1] = EOL
  <2>1. /\ said \in Seq(Tokens) /\ <<EOL>> \in Seq(Tokens)
        /\ l \in Nat \ {0}
    BY LineIs
  <2>2. /\ stream \o said \in Seq(Tokens) /\ Len(stream \o said) = s + l
        /\ s \in Nat /\ m \in Nat
        /\ \A i \in 1..(s + l) : (stream \o said)[i] =
              IF i <= s THEN stream[i] ELSE said[i - s]
    BY <2>1, ConcatProperties
  <2>3. /\ Len(whole) = s + l + 1
        /\ \A i \in 1..(s + l + 1) : whole[i] =
              IF i <= s + l THEN (stream \o said)[i] ELSE <<EOL>>[i - (s + l)]
    BY <2>1, <2>2, ConcatProperties
  <2> DEFINE both == stream \o said
             end == <<EOL>>
  <2>4. /\ s \in Nat /\ l \in Nat \ {0} /\ end[1] = EOL
        /\ \A i \in 1..(s + l) : both[i] = IF i <= s THEN stream[i] ELSE said[i - s]
        /\ \A i \in 1..(s + l + 1) :
              whole[i] = IF i <= s + l THEN both[i] ELSE end[i - (s + l)]
    BY <2>1, <2>2, <2>3
  <2> HIDE DEF whole, s, l, both, end
  <2>5. ASSUME NEW i \in 1..s PROVE whole[i] = stream[i]
    <3>1. i \in 1..(s + l) /\ i \in 1..(s + l + 1) /\ i <= s + l /\ i <= s
      BY <2>4
    <3> QED BY <2>4, <3>1
  <2>6. ASSUME NEW i \in 1..l PROVE whole[s + i] = said[i]
    <3>1. /\ s + i \in 1..(s + l) /\ s + i \in 1..(s + l + 1)
          /\ s + i <= s + l /\ ~(s + i <= s) /\ s + i - s = i
      BY <2>4
    <3> QED BY <2>4, <3>1
  <2>7. whole[s + l + 1] = EOL
    <3>1. s + l + 1 - (s + l) = 1 /\ ~(s + l + 1 <= s + l)
          /\ s + l + 1 \in 1..(s + l + 1)
      BY <2>4
    <3> QED BY <2>4, <3>1
  <2> QED BY <2>3, <2>4, <2>5, <2>6, <2>7
<1>2. /\ Len(more) = m + 1 /\ more[m + 1] = said
      /\ \A n \in 1..m : more[n] = lines[n]
  BY AppendProperties
<1>3. /\ line \in [1..s -> 1..m] /\ spot \in [1..s -> Nat \ {0}]
      /\ \A i \in 1..s :
            /\ spot[i] <= Len(lines[line[i]]) + 1
            /\ stream[i] = At(lines[line[i]], spot[i])
            /\ \A k \in spot[i]..(Len(lines[line[i]]) + 1) :
                  /\ i + k - spot[i] \in 1..s
                  /\ line[i + k - spot[i]] = line[i]
                  /\ spot[i + k - spot[i]] = k
      /\ \A i, j \in 1..s : i < j /\ spot[j] = 1 => line[i] < line[j]
  BY DEF Follows
<1> HIDE DEF whole, more, s, l, m
<1>4. \A i \in 1..s : /\ i \in 1..Len(whole) /\ i <= s
                      /\ line2[i] = line[i] /\ spot2[i] = spot[i]
                      /\ line[i] \in 1..m /\ more[line2[i]] = lines[line[i]]
  BY <1>1, <1>2, <1>3
<1>5. \A i \in 1..(l + 1) : /\ s + i \in 1..Len(whole) /\ ~(s + i <= s)
                            /\ line2[s + i] = m + 1 /\ spot2[s + i] = i
  BY <1>1
<1>6. \A i \in 1..Len(whole) : i \in 1..s \/ \E k \in 1..(l + 1) : i = s + k
  <2> TAKE i \in 1..Len(whole)
  <2>1. CASE i <= s
    BY <1>1, <2>1
  <2>2. CASE ~(i <= s)
    <3>1. i - s \in 1..(l + 1) /\ i = s + (i - s)
      BY <1>1, <2>2
    <3> QED BY <3>1
  <2> QED BY <2>1, <2>2
<1>7. /\ line2 \in [1..Len(whole) -> 1..Len(more)]
      /\ spot2 \in [1..Len(whole) -> Nat \ {0}]
  <2>1. ASSUME NEW i \in 1..Len(whole)
        PROVE  line2[i] \in 1..Len(more) /\ spot2[i] \in Nat \ {0}
    <3>1. CASE i \in 1..s
      <4>1. line[i] \in 1..Len(more) /\ spot[i] \in Nat \ {0}
        BY <1>1, <1>2, <1>3, <3>1
      <4> QED BY <1>4, <3>1, <4>1
    <3>2. ASSUME NEW k \in 1..(l + 1), i = s + k
          PROVE  line2[i] \in 1..Len(more) /\ spot2[i] \in Nat \ {0}
      <4>1. m + 1 \in 1..Len(more) /\ k \in Nat \ {0}
        BY <1>1, <1>2
      <4> QED BY <1>5, <3>2, <4>1
    <3> QED BY <1>6, <3>1, <3>2
  <2> QED BY <2>1
<1>8. DOMAIN line2 = 1..Len(whole) /\ DOMAIN spot2 = 1..Len(whole)
  OBVIOUS
<1> HIDE DEF line2, spot2
<1>9. ASSUME NEW i \in 1..Len(whole)
      PROVE  /\ spot2[i] <= Len(more[line2[i]]) + 1
             /\ whole[i] = At(more[line2[i]], spot2[i])
             /\ \A k \in spot2[i]..(Len(more[line2[i]]) + 1) :
                   /\ i + k - spot2[i] \in 1..Len(whole)
                   /\ line2[i + k - spot2[i]] = line2[i]
                   /\ spot2[i + k - spot2[i]] = k
  <2>1. CASE i \in 1..s
    <3>1. \A k \in spot[i]..(Len(lines[line[i]]) + 1) :
             /\ i + k - spot[i] \in 1..Len(whole)
             /\ line2[i + k - spot[i]] = line[i]
             /\ spot2[i + k - spot[i]] = k
      BY <1>3, <1>4, <2>1
    <3> QED BY <1>1, <1>3, <1>4, <2>1, <3>1
  <2>2. ASSUME NEW d \in 1..(l + 1), i = s + d
        PROVE  /\ spot2[i] <= Len(more[line2[i]]) + 1
               /\ whole[i] = At(more[line2[i]], spot2[i])
               /\ \A k \in spot2[i]..(Len(more[line2[i]]) + 1) :
                     /\ i + k - spot2[i] \in 1..Len(whole)
                     /\ line2[i + k - spot2[i]] = line2[i]
                     /\ spot2[i + k - spot2[i]] = k
    <3>1. line2[i] = m + 1 /\ spot2[i] = d /\ more[line2[i]] = said
          /\ Len(said) = l
      BY <1>2, <1>5, <2>2 DEF l
    <3>2. whole[i] = At(said, d)
      <4>1. CASE d <= l
        BY <1>1, <2>2, <3>1, <4>1 DEF At
      <4>2. CASE ~(d <= l)
        <5>1. i = s + l + 1
          BY <1>1, <2>2, <4>2
        <5> QED BY <1>1, <3>1, <4>2, <5>1 DEF At
      <4> QED BY <4>1, <4>2
    <3>3. \A k \in d..(l + 1) : i + k - d = s + k /\ k \in 1..(l + 1)
      BY <1>1, <2>2
    <3>4. \A k \in d..(l + 1) : /\ i + k - d \in 1..Len(whole)
                                 /\ line2[i + k - d] = m + 1
                                 /\ spot2[i + k - d] = k
      BY <1>5, <3>3
    <3>5. d <= l + 1 /\ spot2[i] = d
      BY <1>1, <3>1
    <3> QED BY <3>1, <3>2, <3>4, <3>5
  <2> QED BY <1>6, <2>1, <2>2
<1>10. ASSUME NEW i \in 1..Len(whole), NEW j \in 1..Len(whole), i < j, spot2[j] = 1
       PROVE  line2[i] < line2[j]
  <2>1. CASE j \in 1..s
    <3>1. i \in 1..s
      BY <1>1, <1>10, <2>1
    <3> QED BY <1>3, <1>4, <1>10, <2>1, <3>1
  <2>2. CASE \E k \in 1..(l + 1) : j = s + k
    <3>1. PICK k \in 1..(l + 1) : j = s + k
      BY <2>2
    <3>2. k = 1 /\ line2[j] = m + 1
      BY <1>5, <1>10, <3>1
    <3>3. i \in 1..s
      BY <1>1, <1>10, <3>1, <3>2
    <3>4. line2[i] \in 1..m
      BY <1>3, <1>4, <3>3
    <3> QED BY <1>1, <3>2, <3>4
  <2> QED BY <1>6, <2>1, <2>2
<1>11. Follows(whole, more, line2, spot2)
  BY <1>7, <1>9, <1>10 DEF Follows
<1>12. \A i \in 1..Len(whole) :
          \/ i \in 1..s /\ line2[i] = line[i] /\ spot2[i] = spot[i]
          \/ line2[i] = m + 1
  BY <1>4, <1>5, <1>6
<1> QED BY <1>11, <1>12 DEF whole, more, s, m

(* What a recv makes of a stream begins as the stream does.                 *)
LEMMA ArgvStarts ==
    ASSUME NEW chunk \in Seq(Tokens), Argv(chunk) # <<>>
    PROVE  Argv(chunk)[1] = chunk[1]
<1> DEFINE words == FirstLine(chunk)
<1>1. words \in Seq(Tokens) /\ \A i \in 1..Len(words) : words[i] = chunk[i]
  <2>1. CASE LineEnds(chunk) = {}
    BY <2>1, FirstLineIs
  <2>2. CASE LineEnds(chunk) # {}
    <3>1. LineEnds(chunk) \in SUBSET Nat
      BY DEF LineEnds
    <3>2. Min(LineEnds(chunk)) \in 1..Len(chunk)
      BY <2>2, <3>1, LeastPosition DEF LineEnds
    <3>3. words = SubSeq(chunk, 1, Min(LineEnds(chunk)) - 1)
      BY <2>2, <3>2, FirstLineIs
    <3>4. Min(LineEnds(chunk)) - 1 \in 0..Len(chunk)
      BY <3>2
    <3> QED BY <3>3, <3>4, PrefixIs
  <2> QED BY <2>1, <2>2
<1> HIDE DEF words
<1>2. PICK n \in 0..Len(words) : n = Min({Len(words), MaxArgs})
  BY <1>1, ServerAssumption DEF Min
<1>3. Argv(chunk) = SubSeq(words, 1, n)
  BY <1>2 DEF Argv, words
<1>4. /\ Argv(chunk) \in Seq(Tokens) /\ Len(Argv(chunk)) = n
      /\ \A i \in 1..n : Argv(chunk)[i] = words[i]
  BY <1>1, <1>3, PrefixIs
<1>5. n # 0
  <2>1. Argv(chunk) \in Seq(Tokens) /\ (n = 0 => Len(Argv(chunk)) = 0)
    BY <1>4
  <2> QED BY <2>1
<1>6. 1 \in 1..n /\ 1 \in 1..Len(words)
  BY <1>1, <1>5
<1> QED BY <1>1, <1>4, <1>6

(* A recv that takes a tune's first word takes the line as it was written.  *)
LEMMA TuneWhole ==
    ASSUME WholeTunes, NEW stream \in Seq(Tokens), NEW lines \in Seq(Lines),
           NEW line, NEW spot, Follows(stream, lines, line, spot),
           NEW n \in Takes(stream), stream[1] = "pid_tune"
    PROVE  /\ spot[1] = 1 /\ line[1] \in 1..Len(lines)
           /\ Argv(SubSeq(stream, 1, n)) = lines[line[1]]
<1>1. /\ n \in 1..Len(stream) /\ n <= RecvRoom
      /\ n = RecvRoom \/ stream[n] = EOL
  BY DEF Takes, WholeTunes
<1>2. 1 \in 1..Len(stream) /\ line[1] \in 1..Len(lines) /\ spot[1] \in Nat \ {0}
  BY <1>1 DEF Follows
<1>3. PICK said \in Lines : said = lines[line[1]]
  BY <1>2
<1>4. /\ said \in Seq(Tokens) /\ Len(said) \in Nat \ {0}
      /\ \A i \in 1..Len(said) : said[i] # EOL
      /\ Len(said) < RecvRoom /\ Len(said) <= MaxArgs
  BY LineIs
<1>5. spot[1] = 1
  <2>1. spot[1] <= Len(said) + 1 /\ At(said, spot[1]) = "pid_tune"
    BY <1>2, <1>3 DEF Follows
  <2>2. spot[1] <= Len(said) /\ said[spot[1]] = "pid_tune"
    BY <1>2, <1>4, <2>1 DEF At, EOL
  <2>3. spot[1] \notin 2..Len(said)
    BY <2>2 DEF WholeTunes
  <2> QED BY <1>2, <1>4, <2>2, <2>3
<1>6. \A k \in 1..(Len(said) + 1) : k \in 1..Len(stream) /\ stream[k] = At(said, k)
  <2> TAKE k \in 1..(Len(said) + 1)
  <2>1. k \in spot[1]..(Len(lines[line[1]]) + 1) /\ 1 + k - spot[1] = k
    BY <1>3, <1>4, <1>5
  <2>2. k \in 1..Len(stream) /\ line[k] = line[1] /\ spot[k] = k
    BY <1>2, <2>1 DEF Follows
  <2>3. stream[k] = At(lines[line[k]], spot[k])
    BY <2>2 DEF Follows
  <2> QED BY <1>3, <2>2, <2>3
<1>7. n >= Len(said) + 1
  <2>1. \A k \in 1..Len(said) : stream[k] # EOL
    BY <1>4, <1>6 DEF At
  <2> QED BY <1>1, <1>4, <2>1, ServerAssumption
<1> DEFINE chunk == SubSeq(stream, 1, n)
<1>8. /\ chunk \in Seq(Tokens) /\ Len(chunk) = n /\ \A i \in 1..n : chunk[i] = stream[i]
  <2>1. n \in 0..Len(stream)
    BY <1>1
  <2> QED BY <2>1, PrefixIs
<1> HIDE DEF chunk
<1>9. Min(LineEnds(chunk)) = Len(said) + 1
  <2>1. Len(said) + 1 \in LineEnds(chunk)
    <3>1. Len(said) + 1 \in 1..n /\ stream[Len(said) + 1] = EOL
      BY <1>1, <1>4, <1>6, <1>7 DEF At
    <3> QED BY <1>8, <3>1 DEF LineEnds
  <2>2. \A i \in LineEnds(chunk) : i \in Nat /\ i >= Len(said) + 1
    <3> SUFFICES ASSUME NEW i \in 1..n, chunk[i] = EOL, i <= Len(said) PROVE FALSE
      BY <1>4, <1>8 DEF LineEnds
    <3>1. i \in 1..Len(said) /\ i \in 1..(Len(said) + 1)
      BY <1>4
    <3>2. stream[i] = said[i]
      BY <1>6, <3>1 DEF At
    <3> QED BY <1>4, <1>8, <3>1, <3>2
  <2>3. LineEnds(chunk) \in SUBSET Nat /\ LineEnds(chunk) # {}
    BY <2>1, <2>2
  <2>4. PICK first \in LineEnds(chunk) : first = Min(LineEnds(chunk))
        /\ \A y \in LineEnds(chunk) : first <= y
    BY <2>3, LeastPosition
  <2> QED BY <1>4, <2>1, <2>2, <2>4
<1>10. FirstLine(chunk) = said
  <2>1. LineEnds(chunk) # {}
    <3>1. Len(said) + 1 \in 1..n /\ stream[Len(said) + 1] = EOL
      BY <1>1, <1>4, <1>6, <1>7 DEF At
    <3> QED BY <1>8, <3>1 DEF LineEnds
  <2>2. FirstLine(chunk) = SubSeq(chunk, 1, Len(said))
    <3>1. Len(said) + 1 # 0 /\ Len(said) + 1 - 1 = Len(said)
      BY <1>4
    <3> QED BY <1>9, <2>1, <3>1, FirstLineIs
  <2>3. Len(said) \in 0..Len(chunk)
    BY <1>1, <1>4, <1>7, <1>8
  <2>4. /\ SubSeq(chunk, 1, Len(said)) \in Seq(Tokens)
        /\ Len(SubSeq(chunk, 1, Len(said))) = Len(said)
        /\ \A i \in 1..Len(said) : SubSeq(chunk, 1, Len(said))[i] = chunk[i]
    BY <1>8, <2>3, PrefixIs
  <2>5. \A i \in 1..Len(said) : chunk[i] = said[i]
    <3> TAKE i \in 1..Len(said)
    <3>1. i \in 1..n /\ i \in 1..(Len(said) + 1) /\ i <= Len(said)
      BY <1>1, <1>4, <1>7
    <3> QED BY <1>6, <1>8, <3>1 DEF At
  <2> QED BY <1>4, <2>2, <2>4, <2>5, SeqEqual
<1>11. Argv(chunk) = said
  <2>1. Min({Len(said), MaxArgs}) = Len(said)
    BY <1>4, ServerAssumption DEF Min
  <2>2. Argv(chunk) = SubSeq(said, 1, Len(said))
    BY <1>10, <2>1 DEF Argv
  <2> QED BY <1>4, <2>2, SubSeqFull
<1> QED BY <1>2, <1>3, <1>5, <1>11 DEF chunk

(* Which sent line each executed tune is.                                   *)
TunesPlaced(ran, lines, place) ==
    /\ place \in [TuneNumbers(ran) -> 1..Len(lines)]
    /\ \A i \in TuneNumbers(ran) : ran[i] = lines[place[i]]
    /\ \A i, j \in TuneNumbers(ran) : i < j => place[i] < place[j]

(* The tunes run so far are lines sent, in their order, and no line whose   *)
(* first word is still to be received is among them or before one of them.  *)
TunesOrdered(stream, lines, ran) ==
    \E line, spot, place :
        /\ Follows(stream, lines, line, spot) /\ TunesPlaced(ran, lines, place)
        /\ \A i \in 1..Len(stream) : \A t \in TuneNumbers(ran) :
              spot[i] = 1 => place[t] < line[i]

LEMMA OrderedWritten ==
    ASSUME NEW stream \in Seq(Tokens), NEW lines \in Seq(Lines), NEW said \in Lines,
           NEW ran, TunesOrdered(stream, lines, ran)
    PROVE  TunesOrdered(stream \o said \o <<EOL>>, Append(lines, said), ran)
<1>1. PICK line, spot, place :
          /\ Follows(stream, lines, line, spot) /\ TunesPlaced(ran, lines, place)
          /\ \A i \in 1..Len(stream) : \A t \in TuneNumbers(ran) :
                spot[i] = 1 => place[t] < line[i]
  BY DEF TunesOrdered
<1>2. PICK line2, spot2 :
          /\ Follows(stream \o said \o <<EOL>>, Append(lines, said), line2, spot2)
          /\ \A i \in 1..Len(stream \o said \o <<EOL>>) :
                \/ i \in 1..Len(stream) /\ line2[i] = line[i] /\ spot2[i] = spot[i]
                \/ line2[i] = Len(lines) + 1
  BY <1>1, FollowsWritten
<1>3. /\ Len(lines) \in Nat /\ Len(Append(lines, said)) = Len(lines) + 1
      /\ \A i \in 1..Len(lines) : Append(lines, said)[i] = lines[i]
  BY AppendProperties
<1>4. \A t \in TuneNumbers(ran) : place[t] \in 1..Len(lines)
  BY <1>1 DEF TunesPlaced
<1>5. TunesPlaced(ran, Append(lines, said), place)
  <2>1. 1..Len(lines) \subseteq 1..Len(Append(lines, said))
    BY <1>3
  <2>2. place \in [TuneNumbers(ran) -> 1..Len(Append(lines, said))]
    BY <1>1, <2>1 DEF TunesPlaced
  <2> QED BY <1>1, <1>3, <1>4, <2>2 DEF TunesPlaced
<1>6. \A i \in 1..Len(stream \o said \o <<EOL>>) : \A t \in TuneNumbers(ran) :
         spot2[i] = 1 => place[t] < line2[i]
  BY <1>1, <1>2, <1>3, <1>4
<1> QED BY <1>2, <1>5, <1>6 DEF TunesOrdered

LEMMA OrderedCut ==
    ASSUME NEW stream \in Seq(Tokens), NEW lines, NEW ran,
           TunesOrdered(stream, lines, ran), NEW n \in 1..Len(stream)
    PROVE  TunesOrdered(SubSeq(stream, n + 1, Len(stream)), lines, ran)
<1> DEFINE rest == SubSeq(stream, n + 1, Len(stream))
<1>1. PICK line, spot, place :
          /\ Follows(stream, lines, line, spot) /\ TunesPlaced(ran, lines, place)
          /\ \A i \in 1..Len(stream) : \A t \in TuneNumbers(ran) :
                spot[i] = 1 => place[t] < line[i]
  BY DEF TunesOrdered
<1>2. PICK line2, spot2 : /\ Follows(rest, lines, line2, spot2)
                          /\ Moved(stream, n, line, spot, line2, spot2)
  BY <1>1, FollowsCut
<1>3. Len(rest) = Len(stream) - n
  OBVIOUS
<1> HIDE DEF rest
<1>4. ASSUME NEW i \in 1..Len(rest), NEW t \in TuneNumbers(ran), spot2[i] = 1
      PROVE  place[t] < line2[i]
  BY <1>1, <1>2, <1>3, <1>4 DEF Moved
<1>5. TunesOrdered(rest, lines, ran)
  BY <1>1, <1>2, <1>4 DEF TunesOrdered
<1> QED BY <1>5 DEF rest

(* The numbers of the tunes when one more line has run.                     *)
LEMMA TuneNumbersAre ==
    ASSUME NEW ran \in Seq(Seq(Tokens)), NEW argv \in Seq(Tokens)
    PROVE  /\ TuneNumbers(ran) \subseteq 1..Len(ran) /\ Len(ran) \in Nat
           /\ \A i \in 1..Len(ran) : Append(ran, argv)[i] = ran[i]
           /\ Append(ran, argv)[Len(ran) + 1] = argv
           /\ TuneNumbers(Append(ran, argv)) =
                 IF argv[1] = "pid_tune" THEN TuneNumbers(ran) \cup {Len(ran) + 1}
                 ELSE TuneNumbers(ran)
<1>1. /\ DOMAIN ran = 1..Len(ran) /\ Len(ran) \in Nat
      /\ DOMAIN Append(ran, argv) = 1..(Len(ran) + 1)
      /\ \A i \in 1..Len(ran) : Append(ran, argv)[i] = ran[i]
      /\ Append(ran, argv)[Len(ran) + 1] = argv
  BY AppendProperties
<1>2. \A i \in 1..(Len(ran) + 1) : i \in 1..Len(ran) \/ i = Len(ran) + 1
  BY <1>1
<1>3. \A i \in 1..Len(ran) : i \in 1..(Len(ran) + 1)
  BY <1>1
<1>4. Len(ran) + 1 \in 1..(Len(ran) + 1)
  BY <1>1
<1> QED BY <1>1, <1>2, <1>3, <1>4 DEF TuneNumbers

LEMMA OrderedOther ==
    ASSUME NEW stream, NEW lines, NEW ran \in Seq(Seq(Tokens)),
           NEW argv \in Seq(Tokens), argv[1] # "pid_tune",
           TunesOrdered(stream, lines, ran)
    PROVE  TunesOrdered(stream, lines, Append(ran, argv))
<1>1. TuneNumbers(Append(ran, argv)) = TuneNumbers(ran)
      /\ \A i \in TuneNumbers(ran) : Append(ran, argv)[i] = ran[i]
  BY TuneNumbersAre
<1>2. \A place : TunesPlaced(ran, lines, place) => TunesPlaced(Append(ran, argv), lines, place)
  BY <1>1 DEF TunesPlaced
<1> QED BY <1>1, <1>2 DEF TunesOrdered

LEMMA OrderedTune ==
    ASSUME WholeTunes, NEW stream \in Seq(Tokens), NEW lines \in Seq(Lines),
           NEW ran \in Seq(Seq(Tokens)), TunesOrdered(stream, lines, ran),
           NEW n \in Takes(stream), stream[1] = "pid_tune"
    PROVE  TunesOrdered(SubSeq(stream, n + 1, Len(stream)), lines,
                   Append(ran, Argv(SubSeq(stream, 1, n))))
<1> DEFINE rest == SubSeq(stream, n + 1, Len(stream))
           argv == Argv(SubSeq(stream, 1, n))
<1>1. PICK line, spot, place :
          /\ Follows(stream, lines, line, spot) /\ TunesPlaced(ran, lines, place)
          /\ \A i \in 1..Len(stream) : \A t \in TuneNumbers(ran) :
                spot[i] = 1 => place[t] < line[i]
  BY DEF TunesOrdered
<1>2. n \in 1..Len(stream) /\ n \in Nat \ {0} /\ 1 \in 1..Len(stream)
  BY DEF Takes
<1>3. spot[1] = 1 /\ line[1] \in 1..Len(lines) /\ argv = lines[line[1]]
  BY <1>1, TuneWhole
<1>4. argv \in Seq(Tokens)
  BY <1>3, LineIs
<1>5. PICK line2, spot2 :
          /\ Follows(rest, lines, line2, spot2)
          /\ Moved(stream, n, line, spot, line2, spot2)
  BY <1>1, <1>2, FollowsCut
<1> DEFINE next == Len(ran) + 1
           place2 == [i \in TuneNumbers(ran) \cup {next} |->
                         IF i = next THEN line[1] ELSE place[i]]
<1>6. /\ TuneNumbers(ran) \subseteq 1..Len(ran) /\ Len(ran) \in Nat
      /\ \A i \in 1..Len(ran) : Append(ran, argv)[i] = ran[i]
      /\ Append(ran, argv)[next] = argv
      /\ TuneNumbers(Append(ran, argv)) \subseteq TuneNumbers(ran) \cup {next}
  BY <1>4, TuneNumbersAre
<1>7. TuneNumbers(Append(ran, argv)) = TuneNumbers(ran) \cup {next}
  <2>1. argv[1] = "pid_tune"
    <3>1. PICK said \in Lines : said = argv
      BY <1>3
    <3>2. 1 \in spot[1]..(Len(said) + 1) /\ 1 <= Len(said) /\ spot[1] = 1
      BY <1>3, <3>1, LineIs
    <3>3. stream[1] = At(argv, 1)
      BY <1>1, <1>2, <1>3 DEF Follows
    <3> QED BY <3>1, <3>2, <3>3 DEF At
  <2> QED BY <1>4, <2>1, TuneNumbersAre
<1>8. /\ \A i \in TuneNumbers(ran) :
            /\ i \in Nat /\ i # next /\ i < next /\ place2[i] = place[i]
            /\ place[i] \in 1..Len(lines) /\ place[i] < line[1]
      /\ place2[next] = line[1]
  BY <1>1, <1>2, <1>3, <1>6 DEF TunesPlaced
<1>9. DOMAIN place2 = TuneNumbers(ran) \cup {next}
       /\ place2 \in [TuneNumbers(ran) \cup {next} -> 1..Len(lines)]
  BY <1>3, <1>8
<1>10. Len(rest) = Len(stream) - n
  BY <1>2
<1> HIDE DEF rest, argv, place2, next
<1>11. TunesPlaced(Append(ran, argv), lines, place2)
  <2>1. \A i \in TuneNumbers(ran) \cup {next} :
           Append(ran, argv)[i] = lines[place2[i]]
    BY <1>1, <1>3, <1>6, <1>8 DEF TunesPlaced
  <2>2. ASSUME NEW i \in TuneNumbers(ran) \cup {next},
               NEW j \in TuneNumbers(ran) \cup {next}, i < j
        PROVE  place2[i] < place2[j]
    <3>1. next \in Nat /\ i # next
      BY <1>6, <1>8, <2>2 DEF next
    <3> QED BY <1>1, <1>8, <2>2, <3>1 DEF TunesPlaced
  <2> QED BY <1>7, <1>9, <2>1, <2>2 DEF TunesPlaced
<1>12. \A i \in 1..Len(rest) : spot2[i] = 1 => line[1] < line2[i]
  <2> SUFFICES ASSUME NEW i \in 1..Len(rest), spot2[i] = 1
               PROVE  line[1] < line2[i]
    OBVIOUS
  <2>1. i + n \in 1..Len(stream) /\ 1 < i + n /\ spot[i + n] = 1
        /\ line2[i] = line[i + n]
    BY <1>2, <1>5, <1>10 DEF Moved
  <2> QED BY <1>1, <1>2, <2>1 DEF Follows
<1>13. \A i \in 1..Len(rest) : line2[i] \in 1..Len(lines)
  BY <1>5 DEF Follows
<1>14. ASSUME NEW i \in 1..Len(rest), NEW t \in TuneNumbers(Append(ran, argv)),
              spot2[i] = 1
       PROVE  place2[t] < line2[i]
  <2>1. line[1] < line2[i] /\ line2[i] \in Int /\ line[1] \in Int
    BY <1>3, <1>12, <1>13, <1>14
  <2>2. CASE t = next
    BY <1>8, <2>1, <2>2
  <2>3. CASE t \in TuneNumbers(ran)
    <3>1. /\ place2[t] = place[t] /\ place[t] \in 1..Len(lines)
          /\ place[t] < line[1] /\ Len(lines) \in Nat
      BY <1>8, <2>3
    <3> QED BY <2>1, <3>1
  <2> QED BY <1>7, <2>2, <2>3
<1>15. TunesOrdered(rest, lines, Append(ran, argv))
  <2>1. \A i \in 1..Len(rest) : \A t \in TuneNumbers(Append(ran, argv)) :
           spot2[i] = 1 => place2[t] < line2[i]
    BY <1>14
  <2> QED BY <1>5, <1>11, <2>1 DEF TunesOrdered
<1> QED BY <1>15 DEF rest, argv

(* Each connection's stream, sent lines and executed commands.              *)
StreamsInv ==
    /\ TypeInv
    /\ \A c \in Connections : TunesOrdered(inbound[c], sent[c], executed[c])

LEMMA StreamsInvInit == Init => StreamsInv
<1> SUFFICES ASSUME Init, NEW c \in Connections
             PROVE  TunesOrdered(inbound[c], sent[c], executed[c])
  BY TypeInvInit DEF StreamsInv
<1> DEFINE none == [i \in {} |-> 0]
<1>1. inbound[c] = <<>> /\ sent[c] = <<>> /\ executed[c] = <<>>
  BY DEF Init
<1>2. 1..Len(<<>>) = {} /\ TuneNumbers(<<>>) = {}
  BY DEF TuneNumbers
<1>3. \A S, T : S = {} => none \in [S -> T]
  OBVIOUS
<1>4. Follows(<<>>, <<>>, none, none)
  BY <1>2, <1>3 DEF Follows
<1>5. TunesPlaced(<<>>, <<>>, none)
  BY <1>2, <1>3 DEF TunesPlaced
<1> HIDE DEF none
<1> QED BY <1>1, <1>2, <1>4, <1>5 DEF TunesOrdered

LEMMA StreamsKeptByWrites ==
    ASSUME StreamsInv, NEW d \in Connections, NEW said \in Lines, Writes(d, said),
           NEW c \in Connections
    PROVE  TunesOrdered(inbound[c], sent[c], executed[c])'
<1>1. /\ inbound \in [Connections -> Seq(Tokens)]
      /\ sent \in [Connections -> Seq(Lines)]
  BY DEF StreamsInv, TypeInv, TypeOK
<1>2. /\ inbound' = [inbound EXCEPT ![d] = inbound[d] \o said \o <<EOL>>]
      /\ sent' = [sent EXCEPT ![d] = Append(sent[d], said)]
      /\ executed' = executed
  BY DEF Writes
<1>3. TunesOrdered(inbound[c], sent[c], executed[c])
  BY DEF StreamsInv
<1>4. inbound[c] \in Seq(Tokens) /\ sent[c] \in Seq(Lines)
  BY <1>1
<1>5. CASE c = d
  <2>1. /\ inbound'[c] = inbound[c] \o said \o <<EOL>>
        /\ sent'[c] = Append(sent[c], said) /\ executed'[c] = executed[c]
    BY <1>1, <1>2, <1>5
  <2>2. TunesOrdered(inbound[c] \o said \o <<EOL>>, Append(sent[c], said), executed[c])
    BY <1>3, <1>4, OrderedWritten
  <2>3. TunesOrdered(inbound'[c], sent'[c], executed'[c])
    BY <2>1, <2>2
  <2> QED BY <2>3
<1>6. CASE c # d
  <2>1. /\ inbound'[c] = inbound[c] /\ sent'[c] = sent[c]
        /\ executed'[c] = executed[c]
    BY <1>1, <1>2, <1>6
  <2>2. TunesOrdered(inbound'[c], sent'[c], executed'[c])
    BY <1>3, <2>1
  <2> QED BY <2>2
<1> QED BY <1>5, <1>6

LEMMA StreamsKeptByRecv ==
    ASSUME WholeTunes, StreamsInv, Recv, NEW c \in Connections
    PROVE  TunesOrdered(inbound[c], sent[c], executed[c])'
<1> DEFINE argv(n) == Argv(SubSeq(inbound[connected], 1, n))
<1>1. PICK n \in Takes(inbound[connected]) :
          /\ inbound' = [inbound EXCEPT ![connected] =
                           SubSeq(@, n + 1, Len(@))]
          /\ IF argv(n) = <<>>
             THEN UNCHANGED executed
             ELSE executed' = [executed EXCEPT ![connected] = Append(@, argv(n))]
  BY DEF Recv
<1>2. /\ inbound \in [Connections -> Seq(Tokens)]
      /\ sent \in [Connections -> Seq(Lines)]
      /\ executed \in [Connections -> Seq(Seq(Tokens))]
      /\ sent' = sent
  BY DEF StreamsInv, TypeInv, TypeOK, Recv
<1>3. /\ TunesOrdered(inbound[c], sent[c], executed[c])
      /\ inbound[c] \in Seq(Tokens) /\ sent[c] \in Seq(Lines)
      /\ executed[c] \in Seq(Seq(Tokens)) /\ sent'[c] = sent[c]
  BY <1>2 DEF StreamsInv
<1>4. CASE c # connected
  <2>1. inbound'[c] = inbound[c] /\ executed'[c] = executed[c]
    BY <1>1, <1>2, <1>4
  <2>2. TunesOrdered(inbound'[c], sent'[c], executed'[c])
    BY <1>3, <2>1
  <2> QED BY <2>2
<1>5. CASE c = connected
  <2> DEFINE stream == inbound[c]
             rest == SubSeq(stream, n + 1, Len(stream))
             taken == SubSeq(stream, 1, n)
  <2>1. n \in 1..Len(stream) /\ n \in Takes(stream)
    BY <1>1, <1>5 DEF Takes
  <2>2. /\ inbound'[c] = rest
        /\ IF Argv(taken) = <<>> THEN executed'[c] = executed[c]
           ELSE executed'[c] = Append(executed[c], Argv(taken))
    BY <1>1, <1>2, <1>5
  <2>3. TunesOrdered(rest, sent[c], executed[c])
    BY <1>3, <2>1, OrderedCut
  <2>4. taken \in Seq(Tokens) /\ taken[1] = stream[1]
    <3>1. n \in 0..Len(stream) /\ 1 \in 1..n
      BY <2>1
    <3> QED BY <1>3, <3>1, PrefixIs
  <2>5. Argv(taken) \in Seq(Tokens)
    BY <2>4, ArgvIs
  <2>6. Argv(taken) # <<>> => Argv(taken)[1] = stream[1]
    BY <2>4, ArgvStarts
  <2> HIDE DEF taken, rest
  <2>7. CASE Argv(taken) = <<>>
    <3>1. TunesOrdered(inbound'[c], sent'[c], executed'[c])
      BY <1>3, <2>2, <2>3, <2>7
    <3> QED BY <3>1
  <2>8. CASE Argv(taken) # <<>> /\ stream[1] # "pid_tune"
    <3>1. TunesOrdered(rest, sent[c], Append(executed[c], Argv(taken)))
      BY <1>3, <2>3, <2>5, <2>6, <2>8, OrderedOther
    <3>2. TunesOrdered(inbound'[c], sent'[c], executed'[c])
      BY <1>3, <2>2, <2>8, <3>1
    <3> QED BY <3>2
  <2>9. CASE Argv(taken) # <<>> /\ stream[1] = "pid_tune"
    <3>1. TunesOrdered(rest, sent[c], Append(executed[c], Argv(taken)))
      BY <1>3, <2>1, <2>9, OrderedTune DEF rest, taken
    <3>2. TunesOrdered(inbound'[c], sent'[c], executed'[c])
      BY <1>3, <2>2, <2>9, <3>1
    <3> QED BY <3>2
  <2> QED BY <2>7, <2>8, <2>9
<1> QED BY <1>4, <1>5

LEMMA StreamsInvNext ==
    ASSUME WholeTunes PROVE StreamsInv /\ [Next]_vars => StreamsInv'
<1> SUFFICES ASSUME StreamsInv, [Next]_vars PROVE StreamsInv'
  OBVIOUS
<1>1. TypeInv'
  BY TypeInvNext DEF StreamsInv
<1> SUFFICES ASSUME NEW c \in Connections
             PROVE  TunesOrdered(inbound[c], sent[c], executed[c])'
  BY <1>1 DEF StreamsInv
<1>2. CASE Recv
  BY <1>2, StreamsKeptByRecv
<1>3. ASSUME NEW d \in Connections, ClientSends(d)
      PROVE  TunesOrdered(inbound[c], sent[c], executed[c])'
  <2>1. PICK said \in Lines : Writes(d, said)
    BY <1>3 DEF ClientSends
  <2> QED BY <2>1, StreamsKeptByWrites
<1>4. CASE UNCHANGED <<inbound, sent, executed>>
  <2>1. TunesOrdered(inbound[c], sent[c], executed[c])
    BY DEF StreamsInv
  <2>2. TunesOrdered(inbound'[c], sent'[c], executed'[c])
    BY <1>4, <2>1
  <2> QED BY <2>2
<1>5. \/ Recv \/ \E d \in Connections : ClientSends(d)
      \/ UNCHANGED <<inbound, sent, executed>>
  BY DEF Next, RemoteStart, SetUp, Connect, ClientCloses, Accept, AcceptFails,
         Disconnect, vars
<1> QED BY <1>2, <1>3, <1>4, <1>5

(* No tune is invented, merged with another, repeated or overtaken, however *)
(* far ahead of the replies the clients write and wherever a full buffer    *)
(* cuts what they wrote.                                                    *)
THEOREM TunesAlwaysInOrder == ASSUME WholeTunes PROVE Spec => []TunesInOrder
<1>1. StreamsInv => TunesInOrder
  <2> SUFFICES ASSUME StreamsInv, NEW c \in Connections
               PROVE  \E place \in [TuneNumbers(executed[c]) -> DOMAIN sent[c]] :
                         /\ \A i \in TuneNumbers(executed[c]) :
                               executed[c][i] = sent[c][place[i]]
                         /\ \A i, j \in TuneNumbers(executed[c]) :
                               i < j => place[i] < place[j]
    BY DEF TunesInOrder
  <2>1. PICK place : TunesPlaced(executed[c], sent[c], place)
    BY DEF StreamsInv, TunesOrdered
  <2>2. DOMAIN sent[c] = 1..Len(sent[c])
    <3>1. sent \in [Connections -> Seq(Lines)]
      BY DEF StreamsInv, TypeInv, TypeOK
    <3>2. sent[c] \in Seq(Lines)
      BY <3>1
    <3> QED BY <3>2
  <2> QED BY <2>1, <2>2 DEF TunesPlaced
<1>2. StreamsInv /\ [Next]_vars => StreamsInv'
  BY StreamsInvNext
<1> QED BY <1>1, <1>2, StreamsInvInit, PTL DEF Spec
=============================================================================
