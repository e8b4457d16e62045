-------------------------- MODULE StatusProxyProofs --------------------------
(* The proxy's shared writer, its pollers and the order in which pages are  *)
(* shown statuses, for every number of pages, connections and commands,     *)
(* against the board's server.                                              *)
EXTENDS StatusProxy, RemoteServerProofs

Linked == {"reading", "gathering", "sending"}

(* The poller that was started with the newest connection is not lost while *)
(* that connection lives: it writes to no other before a newer one opens.   *)
ReaderPolled ==
    opened # <<>> /\ peer[Reader] # "closed" =>
        pollers[Reader] \in {"asleep", Reader}

ProxyInv ==
    /\ TypeInv
    /\ opened \in Seq(Connections)
    /\ manager \in Linked => opened # <<>>
    /\ tcp_writer = NoConnection \/ (manager \in Linked /\ tcp_writer = Reader)
    /\ pollers \in [Connections -> {"none", "asleep", "ended"} \cup Connections]
    /\ ReaderPolled

LEMMA ReaderIs ==
    ASSUME ProxyInv, opened # <<>>
    PROVE  Reader \in Connections
  BY DEF ProxyInv, Reader, Last

LEMMA WriterIs ==
    ASSUME ProxyInv, tcp_writer # NoConnection
    PROVE  opened # <<>> /\ tcp_writer = Reader /\ tcp_writer \in Connections
  BY ReaderIs DEF ProxyInv

LEMMA ProxyInvInit == ProxyInit => ProxyInv
<1> SUFFICES ASSUME ProxyInit PROVE ProxyInv
  OBVIOUS
<1>1. TypeInv
  BY TypeInvInit DEF ProxyInit
<1> QED BY <1>1 DEF ProxyInit, ProxyInv, ReaderPolled, Linked

(* What the board and the network do to the newest connection.              *)
LEMMA StillPolled ==
    ASSUME ProxyInv, TypeInv',
           UNCHANGED <<manager, tcp_writer, opened, pollers>>,
           \A c \in Connections : peer'[c] # "closed" => peer[c] # "closed"
    PROVE  ProxyInv'
<1>1. ASSUME opened' # <<>>, peer'[Reader'] # "closed"
      PROVE  pollers'[Reader'] \in {"asleep", Reader'}
  <2>1. Reader' = Reader /\ opened # <<>>
    BY <1>1 DEF Reader
  <2>2. Reader \in Connections
    BY <2>1, ReaderIs
  <2> QED BY <1>1, <2>1, <2>2 DEF ProxyInv, ReaderPolled
<1> QED BY <1>1 DEF ProxyInv, ReaderPolled, Reader

LEMMA BoardStepInv == ProxyInv /\ BoardStep => ProxyInv'
<1> SUFFICES ASSUME ProxyInv, BoardStep PROVE ProxyInv'
  OBVIOUS
<1>1. RemoteStart \/ SetUp \/ Accept \/ AcceptFails \/ Recv \/ Disconnect
  BY DEF BoardStep
<1>2. TypeInv'
  BY <1>1, TypeInvNext DEF ProxyInv, Next
<1>3. peer \in [Connections -> {"idle", "open", "closed"}]
  BY DEF ProxyInv, TypeInv, TypeOK
<1>4. \A c \in Connections : peer'[c] # "closed" => peer[c] # "closed"
  <2>1. CASE RemoteStart \/ SetUp \/ Accept
    BY <2>1 DEF RemoteStart, SetUp, Accept
  <2>2. CASE AcceptFails \/ Disconnect
    BY <2>2, <1>3 DEF AcceptFails, Disconnect, Hangs
  <2>3. CASE Recv
    BY <2>3, <1>3 DEF Recv, Reply, Hangs
  <2> QED BY <1>1, <2>1, <2>2, <2>3
<1>5. UNCHANGED <<manager, tcp_writer, opened, pollers>>
  BY DEF BoardStep, proxy
<1> QED BY <1>2, <1>4, <1>5, StillPolled

LEMMA OpensInv ==
    ASSUME ProxyInv, NEW c \in Connections, Opens(c) PROVE ProxyInv'
<1>1. /\ Connect(c) /\ manager' = "reading" /\ tcp_writer' = c
      /\ opened' = Append(opened, c)
      /\ pollers' = [pollers EXCEPT ![c] = "asleep"]
  BY DEF Opens, StartsPoller
<1>2. TypeInv'
  BY <1>1, TypeInvNext DEF ProxyInv, Next
<1>3. opened' \in Seq(Connections) /\ opened' # <<>> /\ Reader' = c
  BY <1>1, AppendProperties DEF ProxyInv, Reader, Last
<1>4. pollers'[c] = "asleep"
      /\ pollers' \in [Connections -> {"none", "asleep", "ended"} \cup Connections]
  BY <1>1 DEF ProxyInv
<1> QED BY <1>1, <1>2, <1>3, <1>4 DEF ProxyInv, ReaderPolled, Linked

(* Everything the manager does after it has opened a connection.            *)
LEMMA ManagerInv ==
    ASSUME ProxyInv, UNCHANGED board, UNCHANGED <<opened, pollers>>,
           \/ manager' \notin Linked /\ tcp_writer' = NoConnection
           \/ manager \in Linked /\ manager' \in Linked /\ UNCHANGED tcp_writer
    PROVE  ProxyInv'
<1>1. TypeInv'
  BY TypeInvNext DEF ProxyInv, board
<1>2. Reader' = Reader /\ peer' = peer
  BY DEF Reader, board, vars
<1> QED BY <1>1, <1>2 DEF ProxyInv, ReaderPolled

LEMMA PollInv ==
    ASSUME ProxyInv, NEW d \in Connections, Poll(d) PROVE ProxyInv'
<1>1. /\ pollers[d] = "asleep" /\ tcp_writer # NoConnection
      /\ Writes(tcp_writer, GetStatus)
      /\ UNCHANGED <<manager, tcp_writer, opened>>
  BY DEF Poll
<1>2. PICK state \in {"asleep", tcp_writer} :
        pollers' = [pollers EXCEPT ![d] = state]
  BY DEF Poll
<1>3. opened # <<>> /\ tcp_writer = Reader /\ Reader \in Connections
  BY <1>1, WriterIs
<1>4. TypeInv' /\ UNCHANGED peer
  <2>1. GetStatus \in Lines
    BY ProxyAssumption
  <2>2. PICK c \in Connections : c = tcp_writer
    BY <1>3
  <2>3. Writes(c, GetStatus)
    BY <1>1, <2>2
  <2> QED BY <2>1, <2>3, WritesTyped DEF ProxyInv, Writes
<1>5. Reader' = Reader
  BY <1>1 DEF Reader
<1> QED BY <1>1, <1>2, <1>3, <1>4, <1>5 DEF ProxyInv, ReaderPolled

LEMMA DrainEndsInv ==
    ASSUME ProxyInv, NEW d \in Connections, DrainEnds(d) PROVE ProxyInv'
<1>1. /\ pollers[d] \in Connections /\ UNCHANGED board
      /\ pollers' = [pollers EXCEPT ![d] =
                       IF peer[@] = "closed" THEN "ended" ELSE "asleep"]
      /\ UNCHANGED <<manager, tcp_writer, opened>>
  BY DEF DrainEnds
<1>2. TypeInv' /\ peer' = peer /\ Reader' = Reader
  BY <1>1, TypeInvNext DEF ProxyInv, board, vars, Reader
<1>3. ASSUME opened # <<>>, peer[Reader] # "closed"
      PROVE  pollers'[Reader] \in {"asleep", Reader}
  <2>1. Reader \in Connections /\ pollers[Reader] \in {"asleep", Reader}
    BY <1>3, ReaderIs DEF ProxyInv, ReaderPolled
  <2>2. d = Reader => pollers[d] = Reader
    BY <2>1, <1>1, ProxyAssumption
  <2> QED BY <1>1, <1>3, <2>1, <2>2 DEF ProxyInv
<1>4. pollers' \in [Connections -> {"none", "asleep", "ended"} \cup Connections]
  BY <1>1 DEF ProxyInv
<1> QED BY <1>1, <1>2, <1>3, <1>4 DEF ProxyInv, ReaderPolled

LEMMA ProxyInvNext == ProxyInv /\ [ProxyNext]_allvars => ProxyInv'
<1> SUFFICES ASSUME ProxyInv, [ProxyNext]_allvars PROVE ProxyInv'
  OBVIOUS
<1>1. CASE BoardStep
  BY <1>1, BoardStepInv
<1>2. ASSUME NEW c \in Connections, Opens(c) \/ Poll(c) \/ DrainEnds(c)
      PROVE  ProxyInv'
  BY <1>2, OpensInv, PollInv, DrainEndsInv
<1>3. ASSUME NEW c \in Connections, Collect(c) PROVE ProxyInv'
  <2>1. ClientCloses(c) /\ UNCHANGED proxy
    BY <1>3 DEF Collect
  <2>2. TypeInv'
    BY <2>1, TypeInvNext DEF ProxyInv, Next
  <2>3. \A e \in Connections : peer'[e] # "closed" => peer[e] # "closed"
    BY <2>1 DEF ClientCloses, ProxyInv, TypeInv, TypeOK
  <2> QED BY <2>1, <2>2, <2>3, StillPolled DEF proxy
<1>4. CASE OpenFails \/ Retry
  <2>1. tcp_writer' = NoConnection
    BY <1>4 DEF OpenFails, Retry, ProxyInv, Linked
  <2> QED BY <1>4, <2>1, ManagerInv DEF OpenFails, Retry, Linked
<1>5. CASE Reads
  <2>1. manager = "reading" /\ manager' \in {"reading", "gathering"}
        /\ UNCHANGED <<board, tcp_writer, opened, pollers>>
    BY <1>5 DEF Reads, Proceed
  <2> QED BY <2>1, ManagerInv DEF Linked
<1>6. CASE ReadEnds
  BY <1>6, ManagerInv DEF ReadEnds, WriterAtEof, Linked
<1>7. CASE SendsStart \/ \E p \in Pages : SendEnds(p)
  <2>1. /\ manager \in Linked /\ UNCHANGED <<board, opened, pollers>>
        /\ \/ manager' = "pausing" /\ tcp_writer' = NoConnection
           \/ manager' \in Linked /\ UNCHANGED tcp_writer
    BY <1>7 DEF SendsStart, SendEnds, DropLink, Linked
  <2> QED BY <2>1, ManagerInv DEF Linked
<1>8. CASE SendsDone
  <2>1. manager = "sending" /\ manager' \in {"reading", "gathering"}
        /\ UNCHANGED <<board, tcp_writer, opened, pollers>>
    BY <1>8 DEF SendsDone, Proceed
  <2> QED BY <2>1, ManagerInv DEF Linked
<1>9. ASSUME NEW p \in Pages, Joins(p) \/ Leaves(p) PROVE ProxyInv'
  <2>1. UNCHANGED <<board, manager, tcp_writer, opened, pollers>>
    BY <1>9 DEF Joins, Leaves, Moves
  <2>2. TypeInv' /\ peer' = peer
    BY <2>1, TypeInvNext DEF ProxyInv, board, vars
  <2> QED BY <2>1, <2>2, StillPolled
<1>10. ASSUME NEW p \in Pages, Commanded(p) PROVE ProxyInv'
  <2>1. PICK line \in Commands : Writes(tcp_writer, line)
    BY <1>10 DEF Commanded
  <2>2. tcp_writer # NoConnection /\ UNCHANGED proxy /\ line \in Lines
    BY <1>10, ProxyAssumption DEF Commanded
  <2>3. PICK c \in Connections : c = tcp_writer
    BY <2>2, WriterIs
  <2>4. Writes(c, line)
    BY <2>1, <2>3
  <2>5. TypeInv' /\ peer' = peer
    BY <2>2, <2>4, WritesTyped DEF ProxyInv, Writes
  <2> QED BY <2>2, <2>5, StillPolled DEF proxy
<1>11. CASE UNCHANGED allvars
  <2>1. TypeInv' /\ UNCHANGED proxy /\ peer' = peer
    BY <1>11, TypeInvNext DEF ProxyInv, allvars, board, vars
  <2> QED BY <2>1, StillPolled DEF proxy
<1> QED BY <1>1, <1>2, <1>3, <1>4, <1>5, <1>6, <1>7, <1>8, <1>9, <1>10, <1>11
        DEF ProxyNext

LEMMA ProxyInvariant == ProxySpec => []ProxyInv
BY ProxyInvInit, ProxyInvNext, PTL DEF ProxySpec

(* Pollers and pages only ever write to the connection the manager reads.   *)
THEOREM WriterAlwaysRead == ProxySpec => []WriterIsRead
<1>1. ProxyInv => WriterIsRead
  <2> SUFFICES ASSUME ProxyInv PROVE WriterIsRead
    OBVIOUS
  <2>1. manager \in Linked => Reader # NoConnection
    BY ReaderIs, ServerAssumption DEF ProxyInv
  <2> QED BY <2>1 DEF ProxyInv, WriterIsRead, Linked
<1> QED BY <1>1, ProxyInvariant, PTL

(* While the proxy's connection is open, some poller asks for statuses.     *)
THEOREM AlwaysPolled == ProxySpec => []Polled
<1>1. ProxyInv => Polled
  <2> SUFFICES ASSUME ProxyInv, tcp_writer # NoConnection,
                      peer[tcp_writer] = "open"
               PROVE  \E d \in Connections : pollers[d] \notin {"none", "ended"}
    BY DEF Polled
  <2>1. tcp_writer = Reader /\ Reader \in Connections
        /\ pollers[Reader] \in {"asleep", Reader}
    BY WriterIs DEF ProxyInv, ReaderPolled
  <2>2. Reader \notin {"none", "ended"}
    BY <2>1, ProxyAssumption
  <2> QED BY <2>1, <2>2
<1> QED BY <1>1, ProxyInvariant, PTL

-----------------------------------------------------------------------------
LEMMA Appended ==
    ASSUME NEW S, NEW q \in Seq(S), NEW c \in S
    PROVE  /\ Append(q, c) \in Seq(S)
           /\ Len(q) \in Nat /\ DOMAIN q = 1..Len(q)
           /\ Len(Append(q, c)) = Len(q) + 1
           /\ DOMAIN Append(q, c) = 1..(Len(q) + 1)
           /\ \A i \in 1..Len(q) : Append(q, c)[i] = q[i]
           /\ Append(q, c)[Len(q) + 1] = c
  BY AppendProperties

(* The recursion of Statuses has a solution: one that reaches the m-th      *)
(* reply is extended to the next.                                           *)
StatusesSolved(f, c, first, m) ==
    f = [n \in (first - 1)..m |->
            IF n < first THEN <<>>
            ELSE IF replies[c][n] = "status" THEN Append(f[n - 1], <<c, n>>)
            ELSE f[n - 1]]

LEMMA StatusesUnfold ==
    ASSUME NEW c, NEW first \in Nat \ {0}, NEW last \in Nat, first <= last + 1
    PROVE  \E f : /\ \A n \in (first - 1)..last : f[n] =
                        IF n < first THEN <<>>
                        ELSE IF replies[c][n] = "status"
                             THEN Append(f[n - 1], <<c, n>>)
                             ELSE f[n - 1]
                  /\ Statuses(c, first, last) = f[last]
<1> DEFINE Solves(f, m) == StatusesSolved(f, c, first, m)
           Unsolved == {m \in Nat : m >= first - 1 /\ ~ \E f : Solves(f, m)}
<1>1. \E f : Solves(f, first - 1)
  <2> DEFINE f == [n \in (first - 1)..(first - 1) |-> <<>>]
  <2>1. f = [n \in (first - 1)..(first - 1) |->
                IF n < first THEN <<>>
                ELSE IF replies[c][n] = "status" THEN Append(f[n - 1], <<c, n>>)
                ELSE f[n - 1]]
    OBVIOUS
  <2> QED BY <2>1 DEF StatusesSolved
<1>2. ASSUME NEW m \in Nat, m >= first - 1, NEW f, Solves(f, m)
      PROVE  \E g : Solves(g, m + 1)
  <2> DEFINE g == [n \in (first - 1)..(m + 1) |->
                      IF n <= m THEN f[n]
                      ELSE IF replies[c][n] = "status" THEN Append(f[m], <<c, n>>)
                      ELSE f[m]]
  <2>1. ASSUME NEW n \in (first - 1)..(m + 1)
        PROVE  g[n] = IF n < first THEN <<>>
                      ELSE IF replies[c][n] = "status"
                           THEN Append(g[n - 1], <<c, n>>)
                           ELSE g[n - 1]
    <3>1. CASE n <= m
      <4>1. n \in (first - 1)..m /\ g[n] = f[n]
        BY <3>1
      <4>2. f[n] = IF n < first THEN <<>>
                   ELSE IF replies[c][n] = "status"
                        THEN Append(f[n - 1], <<c, n>>)
                        ELSE f[n - 1]
        BY <1>2, <4>1 DEF StatusesSolved
      <4>3. n >= first => n - 1 \in (first - 1)..(m + 1) /\ n - 1 <= m
        BY <4>1
      <4> QED BY <4>1, <4>2, <4>3
    <3>2. CASE ~(n <= m)
      <4>1. n = m + 1 /\ m \in (first - 1)..(m + 1) /\ n - 1 = m /\ ~(n < first)
        BY <1>2, <3>2
      <4> QED BY <4>1
    <3> QED BY <3>1, <3>2
  <2>2. g = [n \in (first - 1)..(m + 1) |-> g[n]]
    OBVIOUS
  <2> HIDE DEF g
  <2> QED BY <2>1, <2>2 DEF StatusesSolved
<1>3. Unsolved = {}
  <2> SUFFICES ASSUME Unsolved # {} PROVE FALSE
    OBVIOUS
  <2> DEFINE m == Min(Unsolved)
  <2>1. m \in Unsolved /\ \A y \in Unsolved : m <= y
    <3>1. Unsolved \in SUBSET Nat
      OBVIOUS
    <3> HIDE DEF Unsolved
    <3> QED BY <3>1, LeastPosition
  <2> HIDE DEF m, Solves
  <2>2. m # first - 1 /\ m \in Nat /\ m >= first - 1
    BY <1>1, <2>1
  <2>3. /\ m - 1 \in Nat /\ m - 1 + 1 = m /\ m - 1 >= first - 1
        /\ ~(m <= m - 1)
    BY <2>2
  <2>4. m - 1 \notin Unsolved
    BY <2>1, <2>3
  <2> QED BY <1>2, <2>1, <2>3, <2>4
<1> DEFINE upto == CHOOSE f : Solves(f, last)
<1>4. Solves(upto, last)
  <2>1. \E f : Solves(f, last)
    <3> HIDE DEF Solves
    <3> QED BY <1>3
  <2> HIDE DEF Solves
  <2> QED BY <2>1
<1>5. Statuses(c, first, last) = upto[last]
  BY DEF Statuses, StatusesSolved
<1>6. \A n \in (first - 1)..last : upto[n] =
         IF n < first THEN <<>>
         ELSE IF replies[c][n] = "status"
              THEN Append(upto[n - 1], <<c, n>>)
              ELSE upto[n - 1]
  <2> HIDE DEF upto
  <2> QED BY <1>4 DEF StatusesSolved
<1> QED BY <1>5, <1>6

(* They are the statuses among these replies, in their order.               *)
LEMMA StatusesAre ==
    ASSUME NEW c, NEW first \in Nat \ {0}, NEW last \in Nat, first <= last + 1
    PROVE  LET s == Statuses(c, first, last)
           IN  /\ s \in Seq({c} \X {n \in first..last : replies[c][n] = "status"})
               /\ \A i, j \in 1..Len(s) : i < j => s[i][2] < s[j][2]
<1> DEFINE S == {c} \X {n \in first..last : replies[c][n] = "status"}
<1>1. PICK f : /\ \A n \in (first - 1)..last : f[n] =
                        IF n < first THEN <<>>
                        ELSE IF replies[c][n] = "status"
                             THEN Append(f[n - 1], <<c, n>>)
                             ELSE f[n - 1]
               /\ Statuses(c, first, last) = f[last]
  BY StatusesUnfold
<1> DEFINE Good(n) == /\ f[n] \in Seq(S)
                      /\ \A i \in 1..Len(f[n]) : f[n][i][2] <= n
                      /\ \A i, j \in 1..Len(f[n]) : i < j => f[n][i][2] < f[n][j][2]
           Bad == {n \in Nat : n \in (first - 1)..last /\ ~ Good(n)}
<1>0. \A x \in S : x[2] \in Nat
  OBVIOUS
<1>2. Good(first - 1)
  <2>1. f[first - 1] = <<>>
    <3>1. first - 1 \in (first - 1)..last /\ first - 1 < first
      OBVIOUS
    <3> QED BY <1>1, <3>1
  <2>2. <<>> \in Seq(S) /\ 1..Len(<<>>) = {}
    <3> HIDE DEF S
    <3> QED OBVIOUS
  <2> HIDE DEF S
  <2> QED BY <2>1, <2>2
<1>3. ASSUME NEW n \in first..last, Good(n - 1) PROVE Good(n)
  <2>1. f[n] = IF replies[c][n] = "status" THEN Append(f[n - 1], <<c, n>>)
               ELSE f[n - 1]
    <3>1. n \in (first - 1)..last /\ ~(n < first)
      OBVIOUS
    <3> QED BY <1>1, <3>1
  <2>2. n \in Nat
    OBVIOUS
  <2> DEFINE q == f[n - 1]
  <2>3. /\ q \in Seq(S) /\ Len(q) \in Nat
        /\ \A i \in 1..Len(q) : q[i] \in S /\ q[i][2] <= n - 1
        /\ \A i, j \in 1..Len(q) : i < j => q[i][2] < q[j][2]
    <3>1. /\ q \in Seq(S)
          /\ \A i \in 1..Len(q) : q[i][2] <= n - 1
          /\ \A i, j \in 1..Len(q) : i < j => q[i][2] < q[j][2]
      BY <1>3
    <3> HIDE DEF q, S
    <3> QED BY <3>1
  <2>4. \A i \in 1..Len(q) : q[i][2] < n /\ q[i][2] <= n
    <3> HIDE DEF q, S
    <3> QED BY <1>0, <2>2, <2>3
  <2>5. CASE replies[c][n] # "status"
    <3>1. f[n] = q
      BY <2>1, <2>5
    <3> HIDE DEF q, S
    <3> QED BY <2>3, <2>4, <3>1
  <2>6. CASE replies[c][n] = "status"
    <3>1. f[n] = Append(q, <<c, n>>) /\ <<c, n>> \in S /\ <<c, n>>[2] = n
      BY <2>1, <2>6
    <3> HIDE DEF q, S
    <3>2. /\ f[n] \in Seq(S) /\ Len(f[n]) = Len(q) + 1
          /\ \A i \in 1..Len(q) : f[n][i] = q[i]
          /\ f[n][Len(q) + 1] = <<c, n>>
      BY <2>3, <3>1, AppendProperties
    <3>3. \A i \in 1..Len(f[n]) : i \in 1..Len(q) \/ i = Len(q) + 1
      BY <2>3, <3>2
    <3>4. \A i \in 1..Len(f[n]) : f[n][i][2] <= n
      BY <2>2, <2>4, <3>1, <3>2, <3>3
    <3>5. \A i, j \in 1..Len(f[n]) : i < j => f[n][i][2] < f[n][j][2]
      <4> TAKE i, j \in 1..Len(f[n])
      <4> HAVE i < j
      <4>1. i \in 1..Len(q) /\ f[n][i] = q[i]
        BY <2>3, <3>2
      <4>2. CASE j = Len(q) + 1
        BY <2>4, <3>1, <3>2, <4>1, <4>2
      <4>3. CASE j \in 1..Len(q)
        BY <2>3, <3>2, <4>1, <4>3
      <4> QED BY <3>3, <4>2, <4>3
    <3> QED BY <3>2, <3>4, <3>5
  <2> QED BY <2>5, <2>6
<1>4. Bad = {}
  <2> SUFFICES ASSUME Bad # {} PROVE FALSE
    OBVIOUS
  <2> DEFINE m == Min(Bad)
  <2>1. m \in Bad /\ \A y \in Bad : m <= y
    <3>1. Bad \in SUBSET Nat
      OBVIOUS
    <3> HIDE DEF Bad
    <3> QED BY <3>1, LeastPosition
  <2> HIDE DEF m, Good
  <2>2. m \in (first - 1)..last /\ m # first - 1
    BY <1>2, <2>1
  <2>3. m \in first..last /\ m - 1 \in (first - 1)..last /\ m - 1 \in Nat
        /\ ~(m <= m - 1)
    BY <2>2
  <2>4. Good(m - 1)
    BY <2>1, <2>3
  <2> QED BY <1>3, <2>1, <2>3, <2>4
<1>5. Good(last)
  <2>1. last \in (first - 1)..last /\ last \in Nat
    OBVIOUS
  <2> HIDE DEF Good
  <2> QED BY <1>4, <2>1
<1> QED BY <1>1, <1>5

-----------------------------------------------------------------------------
(* Statuses in the order they were sent.                                    *)
Places == {"connecting", "pausing", "reading", "gathering", "sending"}

Chained(s) == \A i, j \in DOMAIN s : i < j => Earlier(s[i], s[j])

(* How many of the statuses it holds the manager has sent already.          *)
Begun == IF manager = "sending" THEN 1 ELSE 0

(* What was shown and what is held are each in order, and all that a page   *)
(* was shown is earlier than all that the manager has still to send; the    *)
(* status whose sends are under way is held, but shown already.  What is    *)
(* read came over connections that were opened, each of them once.          *)
OrderInv ==
    /\ manager \in Places
    /\ IsInjective(opened)
    /\ \A i \in DOMAIN opened : peer[opened[i]] # "idle"
    /\ taken \in [Connections -> Nat]
    /\ \A c \in Connections :
          /\ taken[c] <= Len(replies[c])
          /\ taken[c] # 0 => \E i \in DOMAIN opened : opened[i] = c
    /\ page \in [Pages -> {"away", "open", "gone"}]
    /\ sending \subseteq Pages
    /\ buffer \in Seq(Received) /\ shown \in [Pages -> Seq(Received)]
    /\ manager = "gathering" \/ manager = "sending" => buffer # <<>>
    /\ Chained(buffer)
    /\ \A p \in Pages :
          /\ Chained(shown[p])
          /\ \A i \in DOMAIN shown[p], j \in DOMAIN buffer :
                j > Begun => Earlier(shown[p][i], buffer[j])

LEMMA ReceivedAre ==
    ASSUME NEW s
    PROVE  s \in Received <=>
              \E c \in Connections : \E n \in 1..taken[c] :
                 replies[c][n] = "status" /\ s = <<c, n>>
<1>1. ASSUME NEW c \in Connections
      PROVE  s \in {c} \X {n \in 1..taken[c] : replies[c][n] = "status"} <=>
                \E n \in 1..taken[c] : replies[c][n] = "status" /\ s = <<c, n>>
  OBVIOUS
<1> QED BY <1>1 DEF Received

LEMMA OrderInvInit == ProxyInit => OrderInv
<1> SUFFICES ASSUME ProxyInit PROVE OrderInv
  OBVIOUS
<1>1. /\ opened = <<>> /\ buffer = <<>> /\ sending = {}
      /\ manager = "connecting"
      /\ taken = [c \in Connections |-> 0]
      /\ page = [p \in Pages |-> "away"] /\ shown = [p \in Pages |-> <<>>]
      /\ replies = [c \in Connections |-> <<>>]
  BY DEF ProxyInit, Init
<1>2. \A S : <<>> \in Seq(S) /\ DOMAIN <<>> = {} /\ Len(<<>>) = 0
  OBVIOUS
<1>3. shown \in [Pages -> Seq(Received)] /\ buffer \in Seq(Received)
  BY <1>1, <1>2
<1>4. \A p \in Pages : DOMAIN shown[p] = {}
  BY <1>1, <1>2
<1>5. DOMAIN opened = {} /\ DOMAIN buffer = {}
  BY <1>1, <1>2
<1>6. \A c \in Connections : taken[c] = 0 /\ Len(replies[c]) = 0
  BY <1>1, <1>2
<1> QED BY <1>1, <1>3, <1>4, <1>5, <1>6 DEF OrderInv, Places, Chained, IsInjective

(* The order of two statuses stands when more connections are opened.       *)
LEMMA EarlierStands ==
    ASSUME opened \in Seq(Connections), NEW s, NEW t, Earlier(s, t),
           opened' = opened \/ \E c \in Connections : opened' = Append(opened, c)
    PROVE  Earlier(s, t)'
<1>1. PICK i, j \in DOMAIN opened :
          /\ opened[i] = s[1] /\ opened[j] = t[1]
          /\ i < j \/ (i = j /\ s[2] < t[2])
  BY DEF Earlier
<1>2. \A k \in DOMAIN opened : k \in DOMAIN opened' /\ opened'[k] = opened[k]
  <2>1. CASE opened' = opened
    BY <2>1
  <2>2. CASE \E c \in Connections : opened' = Append(opened, c)
    BY <2>2, Appended
  <2> QED BY <2>1, <2>2
<1> QED BY <1>1, <1>2 DEF Earlier

(* The board only adds replies.                                             *)
LEMMA RepliesGrow ==
    ASSUME ProxyInv, [ProxyNext]_allvars, NEW c \in Connections
    PROVE  /\ Len(replies[c]) \in Nat /\ Len(replies[c]) <= Len(replies'[c])
           /\ \A n \in 1..Len(replies[c]) : replies'[c][n] = replies[c][n]
<1>1. /\ replies \in [Connections -> Seq({"status", "ok", "error"})]
      /\ replies[c] \in Seq({"status", "ok", "error"})
      /\ Len(replies[c]) \in Nat
  <2> DEFINE R == {"status", "ok", "error"}
  <2>1. replies \in [Connections -> Seq(R)]
    BY DEF ProxyInv, TypeInv, TypeOK
  <2> HIDE DEF R
  <2>2. replies[c] \in Seq(R) /\ Len(replies[c]) \in Nat
    BY <2>1
  <2> QED BY <2>1, <2>2 DEF R
<1>2. CASE UNCHANGED replies
  BY <1>1, <1>2
<1>3. CASE Recv
  <2>1. CASE UNCHANGED replies
    BY <1>2, <2>1
  <2>2. CASE \E kind \in {"status", "ok", "error"} :
                replies' = [replies EXCEPT ![connected] = Append(@, kind)]
    <3>1. PICK kind \in {"status", "ok", "error"} :
                replies' = [replies EXCEPT ![connected] = Append(@, kind)]
      BY <2>2
    <3>2. replies'[c] = replies[c] \/ replies'[c] = Append(replies[c], kind)
      BY <1>1, <3>1
    <3> QED BY <1>1, <3>2, Appended
  <2> QED BY <1>3, <2>1, <2>2, KindIs DEF Recv, Reply
<1>4. Recv \/ UNCHANGED replies
  BY DEF ProxyNext, BoardStep, RemoteStart, SetUp, Accept, AcceptFails,
         Disconnect, Opens, Connect, OpenFails, Retry, Reads, ReadEnds, SendsStart,
         SendEnds, SendsDone, Collect, ClientCloses, Poll, Writes, DrainEnds,
         Joins, Leaves, Moves, Commanded, board, vars, allvars
<1> QED BY <1>2, <1>3, <1>4

LEMMA ReceivedGrow ==
    ASSUME ProxyInv, [ProxyNext]_allvars, taken \in [Connections -> Nat],
           taken' \in [Connections -> Nat],
           \A c \in Connections : taken[c] <= taken'[c] /\ taken[c] <= Len(replies[c])
    PROVE  Received \subseteq Received'
<1> SUFFICES ASSUME NEW s \in Received PROVE s \in Received'
  OBVIOUS
<1>0. PICK c \in Connections : \E n \in 1..taken[c] :
          replies[c][n] = "status" /\ s = <<c, n>>
  BY ReceivedAre
<1>1. PICK n \in 1..taken[c] : replies[c][n] = "status" /\ s = <<c, n>>
  BY <1>0
<1>2. replies'[c][n] = "status"
  <2>1. n \in 1..Len(replies[c])
    BY RepliesGrow
  <2> QED BY <1>1, <2>1, RepliesGrow
<1>3. n \in 1..taken'[c]
  BY <1>1
<1>4. s \in {c} \X {m \in 1..taken'[c] : replies'[c][m] = "status"}
  BY <1>1, <1>2, <1>3
<1> QED BY <1>4 DEF Received

LEMMA PeersStay ==
    ASSUME ProxyInv, [ProxyNext]_allvars, NEW c \in Connections, peer[c] # "idle"
    PROVE  peer'[c] # "idle"
<1>1. peer \in [Connections -> {"idle", "open", "closed"}]
  BY DEF ProxyInv, TypeInv, TypeOK
<1>2. CASE \E d : /\ peer' = [peer EXCEPT ![d] = "open"]
                  \/ peer' = [peer EXCEPT ![d] = "closed"]
  BY <1>1, <1>2
<1>3. CASE UNCHANGED peer
  BY <1>3
<1>4. \/ UNCHANGED peer
      \/ \E d : /\ peer' = [peer EXCEPT ![d] = "open"]
                \/ peer' = [peer EXCEPT ![d] = "closed"]
  <2>1. CASE BoardStep
    BY <2>1 DEF BoardStep, RemoteStart, SetUp, Accept, AcceptFails, Recv, Reply,
                Disconnect, Hangs
  <2>2. CASE ~ BoardStep
    BY <2>2 DEF ProxyNext, Opens, Connect, OpenFails, Retry, Reads, ReadEnds,
                SendsStart, SendEnds, SendsDone, Collect, ClientCloses, Poll,
                Writes, DrainEnds, Joins, Leaves, Moves, Commanded, board, vars,
                allvars
  <2> QED BY <2>1, <2>2
<1> QED BY <1>2, <1>3, <1>4

LEMMA BufferIs ==
    ASSUME OrderInv
    PROVE  /\ Len(buffer) \in Nat /\ DOMAIN buffer = 1..Len(buffer)
           /\ \A i \in DOMAIN buffer : buffer[i] \in Received
           /\ \A p \in Pages : /\ shown[p] \in Seq(Received)
                               /\ Len(shown[p]) \in Nat
                               /\ DOMAIN shown[p] = 1..Len(shown[p])
                               /\ \A i \in DOMAIN shown[p] : shown[p][i] \in Received
<1>1. buffer \in Seq(Received) /\ shown \in [Pages -> Seq(Received)]
  BY DEF OrderInv
<1> QED BY <1>1

(* Steps that move statuses from the buffer to pages, or drop them, d of    *)
(* them from its front.                                                     *)
LEMMA OrderKept ==
    ASSUME ProxyInv, OrderInv, [ProxyNext]_allvars,
           UNCHANGED <<opened, taken>>, manager' \in Places,
           page' \in [Pages -> {"away", "open", "gone"}], sending' \subseteq Pages,
           manager' = "gathering" \/ manager' = "sending" => buffer' # <<>>,
           NEW d \in {0, 1}, buffer' \in Seq(Received),
           \A j \in DOMAIN buffer' : j + d \in DOMAIN buffer
                                     /\ buffer'[j] = buffer[j + d],
           shown' \in [Pages -> Seq(Received)],
           d + Begun' >= Begun,
           \A p \in Pages :
              \/ shown'[p] = shown[p]
              \/ /\ buffer # <<>> /\ shown'[p] = Append(shown[p], buffer[1])
                 /\ Begun = 0 /\ d + Begun' = 1
    PROVE  OrderInv'
<1>1. \A i \in DOMAIN opened' : peer'[opened'[i]] # "idle"
  BY PeersStay DEF OrderInv, ProxyInv
<1>2. \A c \in Connections :
          /\ taken'[c] <= Len(replies'[c])
          /\ taken'[c] # 0 => \E i \in DOMAIN opened' : opened'[i] = c
  <2> TAKE c \in Connections
  <2>1. taken'[c] = taken[c] /\ taken[c] \in Nat /\ taken[c] <= Len(replies[c])
        /\ (taken[c] # 0 => \E i \in DOMAIN opened : opened[i] = c)
    BY DEF OrderInv
  <2>2. Len(replies[c]) \in Nat /\ Len(replies[c]) <= Len(replies'[c])
    BY RepliesGrow
  <2>3. Len(replies'[c]) \in Nat \/ replies'[c] = replies[c]
    BY <2>2
  <2> QED BY <2>1, <2>2
<1>3. buffer' \in Seq(Received') /\ shown' \in [Pages -> Seq(Received')]
  <2>1. Received \subseteq Received'
    BY ReceivedGrow DEF OrderInv
  <2> QED BY <2>1
<1>4. \A s, t : Earlier(s, t) => Earlier(s, t)'
  BY EarlierStands DEF ProxyInv
<1>5. DOMAIN buffer' = 1..Len(buffer') /\ Len(buffer') \in Nat
  OBVIOUS
<1>6. Chained(buffer)'
  <2> SUFFICES ASSUME NEW i \in DOMAIN buffer', NEW j \in DOMAIN buffer', i < j
               PROVE  Earlier(buffer[i], buffer[j])'
    BY DEF Chained
  <2>1. i \in Nat /\ j \in Nat /\ i + d < j + d
    BY <1>5
  <2>2. Earlier(buffer[i + d], buffer[j + d])
    BY <2>1 DEF OrderInv, Chained
  <2>3. buffer'[i] = buffer[i + d] /\ buffer'[j] = buffer[j + d]
    OBVIOUS
  <2> QED BY <1>4, <2>2, <2>3 DEF Earlier
<1>7. ASSUME NEW p \in Pages
      PROVE  /\ Chained(shown[p])'
             /\ \A i \in DOMAIN shown'[p], j \in DOMAIN buffer' :
                   j > Begun' => Earlier(shown[p][i], buffer[j])'
  <2>1. /\ Len(shown[p]) \in Nat /\ DOMAIN shown[p] = 1..Len(shown[p])
        /\ shown[p] \in Seq(Received)
    BY BufferIs
  <2>2. /\ \A i, j \in DOMAIN shown[p] : i < j => Earlier(shown[p][i], shown[p][j])
        /\ \A i \in DOMAIN shown[p], j \in DOMAIN buffer :
              j > Begun => Earlier(shown[p][i], buffer[j])
    BY DEF OrderInv, Chained
  <2>3. Begun \in {0, 1} /\ Begun' \in {0, 1}
    BY DEF Begun
  <2>4. \A j \in DOMAIN buffer' : j > Begun' =>
           /\ j + d \in DOMAIN buffer /\ buffer'[j] = buffer[j + d]
           /\ j \in Nat /\ j + d > Begun
    <3>1. PICK a \in {0, 1}, b \in {0, 1} : a = Begun /\ b = Begun'
      BY <2>3
    <3>2. d + b >= a
      BY <3>1
    <3> SUFFICES ASSUME NEW j \in DOMAIN buffer', j > b
                 PROVE  /\ j + d \in DOMAIN buffer /\ buffer'[j] = buffer[j + d]
                        /\ j \in Nat /\ j + d > a
      BY <3>1
    <3>3. j \in Nat
      BY <1>5
    <3>4. j + d > a
      BY <3>2, <3>3
    <3> QED BY <3>3, <3>4
  <2>5. CASE shown'[p] = shown[p]
    <3>1. Chained(shown[p])'
      BY <1>4, <2>2, <2>5 DEF Chained, Earlier
    <3>2. \A i \in DOMAIN shown'[p], j \in DOMAIN buffer' :
                   j > Begun' => Earlier(shown[p][i], buffer[j])'
      <4> TAKE i \in DOMAIN shown'[p], j \in DOMAIN buffer'
      <4> HAVE j > Begun'
      <4>1. /\ j + d \in DOMAIN buffer /\ buffer'[j] = buffer[j + d]
            /\ j + d > Begun
        BY <2>4
      <4>2. i \in DOMAIN shown[p] /\ shown'[p][i] = shown[p][i]
        BY <2>5
      <4>3. Earlier(shown[p][i], buffer[j + d])
        BY <2>2, <4>1, <4>2
      <4> QED BY <1>4, <4>1, <4>2, <4>3 DEF Earlier
    <3> QED BY <3>1, <3>2
  <2>6. CASE /\ buffer # <<>> /\ shown'[p] = Append(shown[p], buffer[1])
             /\ Begun = 0 /\ d + Begun' = 1
    <3>1. 1 \in DOMAIN buffer /\ buffer[1] \in Received
      BY <2>6, BufferIs
    <3>2. /\ DOMAIN shown'[p] = 1..(Len(shown[p]) + 1)
          /\ \A i \in 1..Len(shown[p]) : shown'[p][i] = shown[p][i]
          /\ shown'[p][Len(shown[p]) + 1] = buffer[1]
      BY <2>1, <2>6, <3>1, Appended
    <3>3. \A i \in DOMAIN shown'[p] : i \in DOMAIN shown[p] \/ i = Len(shown[p]) + 1
      BY <2>1, <3>2
    <3>4. \A i \in DOMAIN shown[p] : Earlier(shown[p][i], buffer[1])
      BY <2>2, <2>6, <3>1
    <3>5. \A i, j \in DOMAIN shown'[p] : i < j =>
             Earlier(shown'[p][i], shown'[p][j])
      <4> TAKE i, j \in DOMAIN shown'[p]
      <4> HAVE i < j
      <4>1. i \in DOMAIN shown[p]
        BY <2>1, <3>2
      <4>2. CASE j \in DOMAIN shown[p]
        BY <2>1, <2>2, <3>2, <4>1, <4>2
      <4>3. CASE j = Len(shown[p]) + 1
        BY <2>1, <3>2, <3>4, <4>1, <4>3
      <4> QED BY <3>3, <4>2, <4>3
    <3>6. \A i \in DOMAIN shown'[p], j \in DOMAIN buffer' :
             j > Begun' => Earlier(shown'[p][i], buffer'[j])
      <4> TAKE i \in DOMAIN shown'[p], j \in DOMAIN buffer'
      <4> HAVE j > Begun'
      <4>1. j + d \in DOMAIN buffer /\ buffer'[j] = buffer[j + d] /\ j + d > 1
            /\ j + d > Begun
        <5>1. PICK b \in {0, 1} : b = Begun'
          BY <2>3
        <5>2. j \in Nat /\ j > b /\ d + b = 1 /\ j + d > Begun
          BY <2>4, <2>6, <5>1
        <5> QED BY <5>2
      <4>2. CASE i \in DOMAIN shown[p]
        BY <2>1, <2>2, <3>2, <4>1, <4>2
      <4>3. CASE i = Len(shown[p]) + 1
        <5>1. Earlier(buffer[1], buffer[j + d])
          BY <3>1, <4>1 DEF OrderInv, Chained
        <5> QED BY <3>2, <4>1, <4>3, <5>1
      <4> QED BY <3>3, <4>2, <4>3
    <3> QED BY <1>4, <3>5, <3>6 DEF Chained, Earlier
  <2> QED BY <2>5, <2>6
<1> QED BY <1>1, <1>2, <1>3, <1>6, <1>7 DEF OrderInv, Begun

(* Steps that leave the statuses where they are, if the manager goes on at  *)
(* most to a place where it holds none.                                     *)
LEMMA HeldKept ==
    ASSUME ProxyInv, OrderInv, [ProxyNext]_allvars,
           UNCHANGED <<opened, taken, buffer, shown>>,
           manager' = manager \/ (Begun = 0 /\ manager' \in {"connecting", "pausing"}),
           page' \in [Pages -> {"away", "open", "gone"}], sending' \subseteq Pages
    PROVE  OrderInv'
<1>1. manager' \in Places
  BY DEF OrderInv, Places
<1>2. manager' = "gathering" \/ manager' = "sending" => buffer' # <<>>
  BY DEF OrderInv
<1>3. Begun \in {0, 1} /\ Begun' \in {0, 1} /\ 0 + Begun' >= Begun
  BY DEF Begun
<1>4. buffer' \in Seq(Received) /\ shown' \in [Pages -> Seq(Received)]
  BY DEF OrderInv
<1>5. \A j \in DOMAIN buffer' : j + 0 \in DOMAIN buffer /\ buffer'[j] = buffer[j + 0]
  BY BufferIs
<1>6. \A p \in Pages : shown'[p] = shown[p]
  OBVIOUS
<1>7. PICK d \in {0, 1} : d = 0
  OBVIOUS
<1> QED BY <1>1, <1>2, <1>3, <1>4, <1>5, <1>6, <1>7, OrderKept

(* What is behind the first status moves up.                                *)
LEMMA Shortened ==
    ASSUME OrderInv, buffer # <<>>
    PROVE  /\ Tail(buffer) \in Seq(Received)
           /\ \A j \in DOMAIN Tail(buffer) :
                 j + 1 \in DOMAIN buffer /\ Tail(buffer)[j] = buffer[j + 1]
<1>1. buffer \in Seq(Received)
  BY DEF OrderInv
<1>2. /\ Tail(buffer) \in Seq(Received) /\ Len(Tail(buffer)) = Len(buffer) - 1
      /\ \A i \in 1..Len(Tail(buffer)) : Tail(buffer)[i] = buffer[i + 1]
  BY <1>1, HeadTailProperties
<1>3. DOMAIN Tail(buffer) = 1..Len(Tail(buffer)) /\ Len(buffer) \in Nat
      /\ DOMAIN buffer = 1..Len(buffer)
  BY <1>1, <1>2
<1> QED BY <1>2, <1>3

LEMMA SendsStartOrder ==
    ASSUME ProxyInv, OrderInv, SendsStart PROVE OrderInv'
<1>0. [ProxyNext]_allvars
  BY DEF ProxyNext
<1>1. /\ manager = "gathering" /\ Begun = 0 /\ buffer # <<>>
      /\ UNCHANGED <<opened, taken, page>>
  BY DEF SendsStart, OrderInv, Begun
<1>2. Head(buffer) = buffer[1] /\ buffer[1] \in Received
  BY <1>1, BufferIs
<1>3. \A p \in Pages : \/ shown'[p] = shown[p]
                       \/ shown'[p] = Append(shown[p], buffer[1])
  BY <1>2 DEF SendsStart
<1>4. shown' \in [Pages -> Seq(Received)]
  <2>1. \A p \in Pages : shown[p] \in Seq(Received)
                         /\ Append(shown[p], buffer[1]) \in Seq(Received)
    BY <1>2, BufferIs, Appended
  <2>2. shown' = [p \in Pages |-> shown'[p]]
    BY DEF SendsStart
  <2> QED BY <1>3, <2>1, <2>2
<1>5. page' \in [Pages -> {"away", "open", "gone"}]
  BY <1>1 DEF OrderInv
<1>6. CASE manager' = "sending" /\ UNCHANGED <<buffer, sending>>
  <2>1. manager' \in Places /\ Begun' = 1 /\ sending' \subseteq Pages
        /\ buffer' # <<>> /\ buffer' \in Seq(Received)
    BY <1>1, <1>6 DEF Places, Begun, OrderInv
  <2>2. \A j \in DOMAIN buffer' : j + 0 \in DOMAIN buffer /\ buffer'[j] = buffer[j + 0]
    BY <1>6, BufferIs
  <2>3. PICK d \in {0, 1} : d = 0
    OBVIOUS
  <2>4. d + Begun' = 1 /\ d + Begun' >= Begun
    BY <1>1, <2>1, <2>3
  <2> QED BY <1>0, <1>1, <1>3, <1>4, <1>5, <2>1, <2>2, <2>3, <2>4, OrderKept
<1>7. CASE DropLink
  <2>1. manager' = "pausing" /\ buffer' = Tail(buffer) /\ sending' = {}
    BY <1>7 DEF DropLink
  <2>2. manager' \in Places /\ Begun' = 0
    BY <2>1 DEF Places, Begun
  <2>3. PICK d \in {0, 1} : d = 1
    OBVIOUS
  <2>4. d + Begun' = 1 /\ d + Begun' >= Begun
    BY <1>1, <2>2, <2>3
  <2>5. /\ buffer' \in Seq(Received)
        /\ \A j \in DOMAIN buffer' : j + d \in DOMAIN buffer
                                     /\ buffer'[j] = buffer[j + d]
    BY <1>1, <2>1, <2>3, Shortened
  <2> QED BY <1>0, <1>1, <1>3, <1>4, <1>5, <2>1, <2>2, <2>4, <2>5, OrderKept
<1> QED BY <1>6, <1>7 DEF SendsStart

LEMMA SendsEndOrder ==
    ASSUME ProxyInv, OrderInv, SendsDone \/ \E p \in Pages : SendEnds(p)
    PROVE  OrderInv'
<1>0. [ProxyNext]_allvars
  BY DEF ProxyNext
<1>1. /\ manager = "sending" /\ Begun = 1 /\ buffer # <<>>
      /\ UNCHANGED <<opened, taken, page, shown>>
  BY DEF SendsDone, SendEnds, OrderInv, Begun
<1>2. /\ page' \in [Pages -> {"away", "open", "gone"}]
      /\ shown' \in [Pages -> Seq(Received)] /\ \A p \in Pages : shown'[p] = shown[p]
  BY <1>1 DEF OrderInv
<1>3. CASE \E p \in Pages : sending' = sending \ {p} /\ UNCHANGED <<manager, buffer>>
  <2>1. sending' \subseteq Pages
    BY <1>3 DEF OrderInv
  <2> QED BY <1>0, <1>1, <1>2, <1>3, <2>1, HeldKept
<1>4. ASSUME buffer' = Tail(buffer) \/ buffer' = <<>>, manager' \in Places,
             manager' = "gathering" => buffer' # <<>>, manager' # "sending",
             sending' \subseteq Pages
      PROVE  OrderInv'
  <2>1. PICK d \in {0, 1} : d = 1
    OBVIOUS
  <2>2. Begun' = 0 /\ d + Begun' >= Begun
    BY <1>1, <1>4, <2>1 DEF Begun
  <2>3. buffer' \in Seq(Received)
    <3>1. <<>> \in Seq(Received)
      OBVIOUS
    <3> QED BY <1>1, <1>4, <3>1, Shortened
  <2>4. \A j \in DOMAIN buffer' : j + d \in DOMAIN buffer
                                  /\ buffer'[j] = buffer[j + d]
    <3>1. CASE buffer' = <<>>
      <4>1. DOMAIN <<>> = {}
        OBVIOUS
      <4> QED BY <3>1, <4>1
    <3>2. CASE buffer' = Tail(buffer)
      BY <1>1, <2>1, <3>2, Shortened
    <3> QED BY <1>4, <3>1, <3>2
  <2> QED BY <1>0, <1>1, <1>2, <1>4, <2>2, <2>3, <2>4, OrderKept
<1>5. CASE DropLink
  <2>1. manager' = "pausing" /\ buffer' = Tail(buffer) /\ sending' = {}
    BY <1>5 DEF DropLink
  <2> QED BY <1>4, <2>1 DEF Places
<1>6. CASE SendsDone
  <2>1. \/ manager' = "reading" /\ buffer' = <<>> /\ sending' = {}
        \/ /\ manager' = "gathering" /\ buffer' = Tail(buffer)
           /\ Tail(buffer) # <<>> /\ sending' = OpenPages
    BY <1>6 DEF SendsDone, Proceed
  <2>2. OpenPages \subseteq Pages
    BY DEF OpenPages
  <2> QED BY <1>4, <2>1, <2>2 DEF Places
<1> QED BY <1>3, <1>5, <1>6 DEF SendEnds

(* A connection is opened once, so that what was read so far came over      *)
(* earlier ones.                                                            *)
LEMMA OpensOrder ==
    ASSUME ProxyInv, OrderInv, NEW c \in Connections, Opens(c) PROVE OrderInv'
<1>0. [ProxyNext]_allvars
  BY DEF ProxyNext
<1>1. /\ Connect(c) /\ manager = "connecting" /\ manager' = "reading"
      /\ opened' = Append(opened, c)
      /\ UNCHANGED <<page, taken, buffer, sending, shown>>
  BY DEF Opens
<1>2. /\ peer[c] = "idle" /\ peer' = [peer EXCEPT ![c] = "open"]
      /\ UNCHANGED replies
  BY <1>1 DEF Connect
<1>3. /\ opened \in Seq(Connections) /\ Len(opened) \in Nat
      /\ DOMAIN opened = 1..Len(opened)
      /\ DOMAIN opened' = 1..(Len(opened) + 1)
      /\ \A i \in 1..Len(opened) : opened'[i] = opened[i]
      /\ opened'[Len(opened) + 1] = c
  <2>1. opened \in Seq(Connections)
    BY DEF ProxyInv
  <2> QED BY <1>1, <2>1, Appended
<1>4. \A i \in DOMAIN opened' : i \in DOMAIN opened \/ i = Len(opened) + 1
  BY <1>3
<1>5. \A i \in DOMAIN opened : opened[i] # c
  BY <1>2 DEF OrderInv
<1>6. IsInjective(opened')
  <2>1. \A i, j \in DOMAIN opened : opened[i] = opened[j] => i = j
    BY DEF OrderInv, IsInjective
  <2>2. \A i, j \in DOMAIN opened' : opened'[i] = opened'[j] => i = j
    BY <1>3, <1>4, <1>5, <2>1
  <2> QED BY <2>2 DEF IsInjective
<1>7. \A i \in DOMAIN opened' : peer'[opened'[i]] # "idle"
  <2>1. peer'[c] # "idle"
    BY <1>2 DEF ProxyInv, TypeInv, TypeOK
  <2>2. \A i \in DOMAIN opened : peer'[opened[i]] # "idle"
    BY <1>0, <1>3, PeersStay DEF OrderInv
  <2> QED BY <1>3, <1>4, <2>1, <2>2
<1>8. \A e \in Connections :
         /\ taken'[e] <= Len(replies'[e])
         /\ taken'[e] # 0 => \E i \in DOMAIN opened' : opened'[i] = e
  BY <1>1, <1>2, <1>3 DEF OrderInv
<1>9. Received' = Received
  BY <1>1, <1>2 DEF Received
<1>10. \A s, t : Earlier(s, t) => Earlier(s, t)'
  BY <1>1, <1>3, EarlierStands
<1>11. Chained(buffer)'
  <2> SUFFICES ASSUME NEW i \in DOMAIN buffer, NEW j \in DOMAIN buffer, i < j
               PROVE  Earlier(buffer[i], buffer[j])'
    BY <1>1 DEF Chained
  <2>1. Earlier(buffer[i], buffer[j])
    BY DEF OrderInv, Chained
  <2>2. buffer'[i] = buffer[i] /\ buffer'[j] = buffer[j]
    BY <1>1
  <2> QED BY <1>10, <2>1, <2>2 DEF Earlier
<1>12. \A p \in Pages :
          /\ Chained(shown[p])'
          /\ \A i \in DOMAIN shown'[p], j \in DOMAIN buffer' :
                j > Begun' => Earlier(shown[p][i], buffer[j])'
  <2> TAKE p \in Pages
  <2>1. Chained(shown[p])'
    <3> SUFFICES ASSUME NEW i \in DOMAIN shown[p], NEW j \in DOMAIN shown[p], i < j
                 PROVE  Earlier(shown[p][i], shown[p][j])'
      BY <1>1 DEF Chained
    <3>1. Earlier(shown[p][i], shown[p][j])
      BY DEF OrderInv, Chained
    <3>2. shown'[p][i] = shown[p][i] /\ shown'[p][j] = shown[p][j]
      BY <1>1
    <3> QED BY <1>10, <3>1, <3>2 DEF Earlier
  <2>2. Begun = 0 /\ Begun' = 0
    BY <1>1 DEF Begun
  <2>3. \A i \in DOMAIN shown[p], j \in DOMAIN buffer :
                j > 0 => Earlier(shown[p][i], buffer[j])
    BY <2>2 DEF OrderInv
  <2>4. ASSUME NEW i \in DOMAIN shown[p], NEW j \in DOMAIN buffer, j > 0
        PROVE  Earlier(shown[p][i], buffer[j])'
    <3>1. Earlier(shown[p][i], buffer[j])
      BY <2>3, <2>4
    <3>2. shown'[p][i] = shown[p][i] /\ buffer'[j] = buffer[j]
      BY <1>1
    <3> QED BY <1>10, <3>1, <3>2 DEF Earlier
  <2> QED BY <1>1, <2>1, <2>2, <2>4
<1>13. /\ manager' \in Places /\ taken' \in [Connections -> Nat]
       /\ page' \in [Pages -> {"away", "open", "gone"}] /\ sending' \subseteq Pages
       /\ buffer' \in Seq(Received') /\ shown' \in [Pages -> Seq(Received')]
       /\ manager' # "gathering" /\ manager' # "sending"
  BY <1>1, <1>9 DEF OrderInv, Places
<1> QED BY <1>6, <1>7, <1>8, <1>11, <1>12, <1>13 DEF OrderInv

(* Whatever was received came before what the manager reads next, which is  *)
(* of the newest connection and has higher numbers.                         *)
LEMMA ReceivedBefore ==
    ASSUME ProxyInv, OrderInv, opened # <<>>, NEW s \in Received, NEW t,
           t[1] = Reader, t[2] \in Nat, t[2] > taken[Reader]
    PROVE  Earlier(s, t)
<1>1. Len(opened) \in Nat \ {0} /\ DOMAIN opened = 1..Len(opened)
      /\ opened[Len(opened)] = Reader
  BY DEF ProxyInv, Reader, Last
<1>2. PICK c \in Connections : \E n \in 1..taken[c] :
          replies[c][n] = "status" /\ s = <<c, n>>
  BY ReceivedAre
<1>3. PICK n \in 1..taken[c] : replies[c][n] = "status" /\ s = <<c, n>>
  BY <1>2
<1>4. s[1] = c /\ s[2] = n /\ n <= taken[c] /\ taken[c] \in Nat /\ n \in Nat
      /\ taken[c] # 0
  BY <1>3 DEF OrderInv
<1>5. PICK i \in DOMAIN opened : opened[i] = c
  BY <1>4 DEF OrderInv
<1>6. CASE i = Len(opened)
  <2>1. c = Reader /\ s[2] < t[2]
    BY <1>1, <1>4, <1>5, <1>6
  <2> QED BY <1>1, <1>4, <2>1 DEF Earlier
<1>7. CASE i < Len(opened)
  BY <1>1, <1>4, <1>5, <1>7 DEF Earlier
<1> QED BY <1>1, <1>6, <1>7

(* Statuses read after the ones in order are in order with them.            *)
LEMMA ReadInOrder ==
    ASSUME ProxyInv, OrderInv, opened # <<>>,
           NEW new \in Seq({Reader} \X {n \in Nat : n > taken[Reader]}),
           \A i, j \in 1..Len(new) : i < j => new[i][2] < new[j][2],
           NEW q \in Seq(Received), Chained(q)
    PROVE  Chained(q \o new)
<1> DEFINE S == {Reader} \X {n \in Nat : n > taken[Reader]}
           T == Received \cup S
<1>1. \A i \in 1..Len(new) : new[i][1] = Reader /\ new[i][2] \in Nat
                             /\ new[i][2] > taken[Reader]
  <2>1. \A i \in 1..Len(new) : new[i] \in S
    <3>1. new \in Seq(S)
      OBVIOUS
    <3> HIDE DEF S
    <3> QED BY <3>1
  <2> QED BY <2>1
<1>2. Len(opened) \in DOMAIN opened /\ opened[Len(opened)] = Reader
  BY DEF ProxyInv, Reader, Last
<1>3. /\ q \in Seq(T) /\ new \in Seq(T) /\ Len(q) \in Nat /\ Len(new) \in Nat
      /\ DOMAIN q = 1..Len(q)
  <2>1. Received \subseteq T /\ S \subseteq T
    OBVIOUS
  <2>2. new \in Seq(S)
    OBVIOUS
  <2> HIDE DEF S, T
  <2> QED BY <2>1, <2>2
<1>4. /\ DOMAIN (q \o new) = 1..(Len(q) + Len(new))
      /\ \A i \in 1..(Len(q) + Len(new)) :
            (q \o new)[i] = IF i <= Len(q) THEN q[i] ELSE new[i - Len(q)]
  <2> HIDE DEF T
  <2> QED BY <1>3, ConcatProperties
<1> SUFFICES ASSUME NEW i \in 1..(Len(q) + Len(new)),
                    NEW j \in 1..(Len(q) + Len(new)), i < j
             PROVE  Earlier((q \o new)[i], (q \o new)[j])
  BY <1>4 DEF Chained
<1>5. CASE j <= Len(q)
  <2>1. i \in DOMAIN q /\ j \in DOMAIN q
    BY <1>3, <1>5
  <2> QED BY <1>4, <1>5, <2>1 DEF Chained
<1>6. CASE i <= Len(q) /\ ~(j <= Len(q))
  <2>1. q[i] \in Received /\ j - Len(q) \in 1..Len(new)
    BY <1>3, <1>6
  <2>2. (q \o new)[i] = q[i] /\ (q \o new)[j] = new[j - Len(q)]
    BY <1>4, <1>6
  <2> QED BY <1>1, <2>1, <2>2, ReceivedBefore
<1>7. CASE ~(i <= Len(q)) /\ ~(j <= Len(q))
  <2>1. PICK a \in 1..Len(new), b \in 1..Len(new) :
            a < b /\ a = i - Len(q) /\ b = j - Len(q)
    <3>1. Len(q) \in Nat /\ Len(new) \in Nat
      BY <1>3
    <3>2. i - Len(q) \in 1..Len(new) /\ j - Len(q) \in 1..Len(new)
          /\ i - Len(q) < j - Len(q)
      BY <1>7, <3>1
    <3> QED BY <3>2
  <2>2. (q \o new)[i] = new[a] /\ (q \o new)[j] = new[b]
    BY <1>4, <1>7, <2>1
  <2>3. new[a][1] = Reader /\ new[b][1] = Reader /\ new[a][2] < new[b][2]
    BY <1>1, <2>1
  <2> QED BY <1>2, <2>2, <2>3 DEF Earlier
<1>8. j <= Len(q) => i <= Len(q)
  BY <1>3
<1> QED BY <1>5, <1>6, <1>7, <1>8

LEMMA ReadsOrder ==
    ASSUME ProxyInv, OrderInv, Reads PROVE OrderInv'
<1>0. [ProxyNext]_allvars
  BY DEF ProxyNext
<1>1. /\ manager = "reading" /\ opened # <<>>
      /\ UNCHANGED <<replies, peer, opened, page, shown>>
  BY DEF Reads, ProxyInv, Linked, board, vars
<1>2. Reader \in Connections /\ Reader' = Reader
  BY <1>1, ReaderIs DEF Reader
<1>3. taken[Reader] \in Nat /\ Len(replies[Reader]) \in Nat
  BY <1>0, <1>2, RepliesGrow DEF OrderInv
<1>4. PICK n \in 1..(Len(replies[Reader]) - taken[Reader]) :
          /\ taken' = [taken EXCEPT ![Reader] = taken[Reader] + n]
          /\ \E first \in taken[Reader] + 1..taken[Reader]
                          + (IF Spoilable(Reader) THEN 2 ELSE 1) :
                Proceed(buffer \o Statuses(Reader, first, taken[Reader] + n))
  BY DEF Reads, Taken
<1>5. PICK first \in taken[Reader] + 1..taken[Reader] + 2 :
          Proceed(buffer \o Statuses(Reader, first, taken[Reader] + n))
  <2>1. (IF Spoilable(Reader) THEN 2 ELSE 1) \in {1, 2}
    OBVIOUS
  <2>2. PICK k \in {1, 2} : \E first \in taken[Reader] + 1..taken[Reader] + k :
            Proceed(buffer \o Statuses(Reader, first, taken[Reader] + n))
    BY <1>4, <2>1
  <2>3. taken[Reader] + 1..taken[Reader] + k \subseteq
            taken[Reader] + 1..taken[Reader] + 2
    BY <1>3
  <2> QED BY <2>2, <2>3
<1> DEFINE last == taken[Reader] + n
           new == Statuses(Reader, first, last)
<1>6. /\ last \in Nat /\ last > taken[Reader] /\ last <= Len(replies[Reader])
      /\ first \in Nat \ {0} /\ first > taken[Reader] /\ first <= last + 1
  BY <1>3
<1>7. /\ new \in Seq({Reader} \X {k \in first..last : replies[Reader][k] = "status"})
      /\ \A i, j \in 1..Len(new) : i < j => new[i][2] < new[j][2]
  <2> HIDE DEF last
  <2> QED BY <1>6, StatusesAre
<1>8. /\ taken' \in [Connections -> Nat] /\ taken'[Reader] = last
      /\ \A c \in Connections : c # Reader => taken'[c] = taken[c]
  <2>1. taken \in [Connections -> Nat]
    BY DEF OrderInv
  <2> QED BY <1>2, <1>4, <1>6, <2>1
<1> HIDE DEF last, new
<1>9. /\ new \in Seq({Reader} \X {k \in Nat : k > taken[Reader]})
      /\ new \in Seq(Received')
  <2> DEFINE S == {Reader} \X {k \in first..last : replies[Reader][k] = "status"}
             U == {Reader} \X {k \in Nat : k > taken[Reader]}
  <2>1. S \subseteq U
    BY <1>3, <1>6
  <2>2. S \subseteq Received'
    <3>1. \A k \in first..last : k \in 1..taken'[Reader]
      BY <1>6, <1>8
    <3>2. S \subseteq {Reader} \X {k \in 1..taken'[Reader] :
                                      replies'[Reader][k] = "status"}
      BY <1>1, <3>1
    <3> QED BY <1>2, <3>2 DEF Received
  <2>3. new \in Seq(S)
    BY <1>7
  <2>4. new \in Seq(U) /\ new \in Seq(Received')
    <3> HIDE DEF S, U
    <3> QED BY <2>1, <2>2, <2>3
  <2> QED BY <2>4
<1>10. \A c \in Connections :
          /\ taken'[c] <= Len(replies'[c]) /\ taken[c] <= taken'[c]
          /\ taken[c] <= Len(replies[c])
          /\ taken'[c] # 0 => \E i \in DOMAIN opened' : opened'[i] = c
  <2> TAKE c \in Connections
  <2>1. /\ taken[c] \in Nat /\ taken[c] <= Len(replies[c])
        /\ taken[c] # 0 => \E i \in DOMAIN opened : opened[i] = c
    BY DEF OrderInv
  <2>2. CASE c # Reader
    BY <1>1, <1>8, <2>1, <2>2
  <2>3. CASE c = Reader
    <3>1. Len(opened) \in DOMAIN opened /\ opened[Len(opened)] = Reader
      BY <1>1 DEF ProxyInv, Reader, Last
    <3> QED BY <1>1, <1>6, <1>8, <2>1, <2>3, <3>1
  <2> QED BY <2>2, <2>3
<1>11. Received \subseteq Received'
  BY <1>0, <1>8, <1>10, ReceivedGrow DEF OrderInv
<1>12. /\ buffer \o new \in Seq(Received')
       /\ DOMAIN (buffer \o new) = 1..(Len(buffer) + Len(new))
       /\ \A i \in 1..(Len(buffer) + Len(new)) : (buffer \o new)[i] =
             IF i <= Len(buffer) THEN buffer[i] ELSE new[i - Len(buffer)]
       /\ Len(buffer) \in Nat /\ Len(new) \in Nat
  <2>1. buffer \in Seq(Received') /\ new \in Seq(Received')
    BY <1>9, <1>11 DEF OrderInv
  <2> QED BY <2>1, ConcatProperties
<1>13. Chained(buffer \o new)
  BY <1>1, <1>7, <1>9, ReadInOrder DEF OrderInv
<1>14. ASSUME NEW p \in Pages, NEW i \in DOMAIN shown[p],
              NEW j \in DOMAIN (buffer \o new)
       PROVE  Earlier(shown[p][i], (buffer \o new)[j])
  <2>1. shown[p][i] \in Received
    BY BufferIs
  <2>2. CASE j <= Len(buffer)
    <3>1. j \in DOMAIN buffer /\ j > 0 /\ (buffer \o new)[j] = buffer[j]
      BY <1>12, <2>2, BufferIs
    <3>2. Begun = 0
      BY <1>1 DEF Begun
    <3> QED BY <3>1, <3>2 DEF OrderInv
  <2>3. CASE ~(j <= Len(buffer))
    <3>1. j - Len(buffer) \in 1..Len(new)
          /\ (buffer \o new)[j] = new[j - Len(buffer)]
      BY <1>12, <2>3
    <3>2. PICK k \in 1..Len(new) : k = j - Len(buffer)
      BY <3>1
    <3>3. new[k] \in {Reader} \X {m \in Nat : m > taken[Reader]}
      <4> DEFINE T == {Reader} \X {m \in Nat : m > taken[Reader]}
      <4>1. new \in Seq(T)
        BY <1>9
      <4> HIDE DEF T
      <4>2. new[k] \in T
        BY <4>1
      <4> QED BY <4>2 DEF T
    <3>4. new[k][1] = Reader /\ new[k][2] \in Nat /\ new[k][2] > taken[Reader]
      BY <3>3
    <3>5. Earlier(shown[p][i], new[k])
      BY <1>1, <2>1, <3>4, ReceivedBefore
    <3> QED BY <3>1, <3>2, <3>5
  <2> QED BY <2>2, <2>3
<1>15. \/ manager' = "reading" /\ buffer' = <<>> /\ sending' = {}
       \/ /\ manager' = "gathering" /\ buffer' = buffer \o new
          /\ buffer \o new # <<>> /\ sending' = OpenPages
  BY <1>5 DEF Proceed, new, last
<1>16. /\ buffer' \in Seq(Received') /\ Chained(buffer)'
       /\ \A p \in Pages : \A i \in DOMAIN shown'[p], j \in DOMAIN buffer' :
             Earlier(shown[p][i], buffer[j])'
  <2>1. CASE buffer' = <<>>
    <3>1. <<>> \in Seq(Received') /\ DOMAIN <<>> = {}
      OBVIOUS
    <3> QED BY <2>1, <3>1 DEF Chained
  <2>2. CASE buffer' = buffer \o new
    <3>1. Chained(buffer)'
      <4> SUFFICES ASSUME NEW i \in DOMAIN buffer', NEW j \in DOMAIN buffer', i < j
                   PROVE  Earlier(buffer[i], buffer[j])'
        BY DEF Chained
      <4>1. Earlier(buffer'[i], buffer'[j])
        BY <1>13, <2>2 DEF Chained
      <4> QED BY <1>1, <4>1 DEF Earlier
    <3>2. ASSUME NEW p \in Pages, NEW i \in DOMAIN shown'[p],
                 NEW j \in DOMAIN buffer'
          PROVE  Earlier(shown[p][i], buffer[j])'
      <4>1. Earlier(shown'[p][i], buffer'[j])
        BY <1>1, <1>14, <2>2
      <4> QED BY <1>1, <4>1 DEF Earlier
    <3> QED BY <2>2, <1>12, <3>1, <3>2
  <2> QED BY <1>15, <2>1, <2>2
<1>17. ASSUME NEW p \in Pages
       PROVE  /\ Chained(shown[p])'
              /\ \A i \in DOMAIN shown'[p], j \in DOMAIN buffer' :
                    j > Begun' => Earlier(shown[p][i], buffer[j])'
  <2> SUFFICES ASSUME NEW i \in DOMAIN shown[p], NEW j \in DOMAIN shown[p], i < j
               PROVE  Earlier(shown[p][i], shown[p][j])'
    BY <1>1, <1>16 DEF Chained
  <2>1. Earlier(shown[p][i], shown[p][j])
    BY DEF OrderInv, Chained
  <2> QED BY <1>1, <2>1 DEF Earlier
<1>18. /\ manager' \in Places /\ sending' \subseteq Pages
       /\ manager' = "gathering" \/ manager' = "sending" => buffer' # <<>>
  BY <1>15 DEF Places, OpenPages
<1>19. /\ IsInjective(opened') /\ page' \in [Pages -> {"away", "open", "gone"}]
       /\ shown' \in [Pages -> Seq(Received')]
       /\ \A i \in DOMAIN opened' : peer'[opened'[i]] # "idle"
  BY <1>1, <1>11 DEF OrderInv
<1> QED BY <1>8, <1>10, <1>16, <1>17, <1>18, <1>19 DEF OrderInv

LEMMA OrderInvNext == ProxyInv /\ OrderInv /\ [ProxyNext]_allvars => OrderInv'
<1> SUFFICES ASSUME ProxyInv, OrderInv, [ProxyNext]_allvars PROVE OrderInv'
  OBVIOUS
<1>1. ASSUME UNCHANGED <<opened, taken, buffer, shown, page, sending>>,
             \/ manager' = manager
             \/ Begun = 0 /\ manager' \in {"connecting", "pausing"}
      PROVE  OrderInv'
  BY <1>1, HeldKept DEF OrderInv
<1>2. ASSUME UNCHANGED proxy PROVE OrderInv'
  BY <1>1, <1>2 DEF proxy
<1>3. CASE BoardStep \/ UNCHANGED allvars
  BY <1>2, <1>3 DEF BoardStep, allvars
<1>4. ASSUME NEW c \in Connections, Opens(c) PROVE OrderInv'
  BY <1>4, OpensOrder
<1>5. ASSUME NEW c \in Connections, Collect(c) PROVE OrderInv'
  BY <1>2, <1>5 DEF Collect
<1>6. ASSUME NEW d \in Connections, Poll(d) \/ DrainEnds(d) PROVE OrderInv'
  BY <1>1, <1>6 DEF Poll, DrainEnds
<1>7. CASE OpenFails \/ Retry \/ ReadEnds
  BY <1>1, <1>7 DEF OpenFails, Retry, ReadEnds, Begun
<1>8. CASE Reads
  BY <1>8, ReadsOrder
<1>9. CASE SendsStart
  BY <1>9, SendsStartOrder
<1>10. CASE SendsDone \/ \E p \in Pages : SendEnds(p)
  BY <1>10, SendsEndOrder
<1>11. ASSUME NEW p \in Pages, Joins(p) \/ Leaves(p) PROVE OrderInv'
  <2>1. /\ UNCHANGED <<opened, taken, buffer, shown, manager, sending>>
        /\ \/ page' = [page EXCEPT ![p] = "open"]
           \/ page' = [page EXCEPT ![p] = "gone"]
    BY <1>11 DEF Joins, Leaves, Moves
  <2>2. page' \in [Pages -> {"away", "open", "gone"}] /\ sending' \subseteq Pages
    BY <2>1 DEF OrderInv
  <2> QED BY <2>1, <2>2, HeldKept
<1>12. ASSUME NEW p \in Pages, Commanded(p) PROVE OrderInv'
  BY <1>2, <1>12 DEF Commanded
<1> QED BY <1>3, <1>4, <1>5, <1>6, <1>7, <1>8, <1>9, <1>10, <1>11, <1>12
        DEF ProxyNext

LEMMA OrderInvariant == ProxySpec => []OrderInv
<1>1. ProxyInv /\ OrderInv /\ [ProxyNext]_allvars => OrderInv'
  BY OrderInvNext
<1> QED BY <1>1, OrderInvInit, ProxyInvariant, PTL DEF ProxySpec

(* What the proxy keeps and what the pages are shown are statuses the board *)
(* sent, through lost connections and broadcasts that failed.               *)
THEOREM ProxyTypeCorrect == ProxySpec => []ProxyTypeOK
<1>1. ProxyInv /\ OrderInv => ProxyTypeOK
  <2> SUFFICES ASSUME ProxyInv, OrderInv PROVE ProxyTypeOK
    OBVIOUS
  <2>1. tcp_writer \in Connections \cup {NoConnection}
    BY WriterIs
  <2>2. \A c \in Connections : taken[c] \in 0..Len(replies[c])
    <3> TAKE c \in Connections
    <3>1. Len(replies[c]) \in Nat
      <4> DEFINE R == {"status", "ok", "error"}
      <4>1. replies \in [Connections -> Seq(R)]
        BY DEF ProxyInv, TypeInv, TypeOK
      <4> HIDE DEF R
      <4> QED BY <4>1
    <3> QED BY <3>1 DEF OrderInv
  <2> QED BY <2>1, <2>2 DEF ProxyInv, OrderInv, ProxyTypeOK, Places
<1> QED BY <1>1, ProxyInvariant, OrderInvariant, PTL

(* Every page is shown statuses in the order the board sent them.           *)
THEOREM AlwaysInOrder == ProxySpec => []ShownInOrder
<1>1. OrderInv => ShownInOrder
  <2> SUFFICES ASSUME OrderInv, NEW p \in Pages, NEW i \in 1..(Len(shown[p]) - 1)
               PROVE  Earlier(shown[p][i], shown[p][i + 1])
    BY DEF ShownInOrder
  <2>1. Len(shown[p]) \in Nat /\ DOMAIN shown[p] = 1..Len(shown[p])
    BY BufferIs
  <2>2. i \in DOMAIN shown[p] /\ i + 1 \in DOMAIN shown[p] /\ i < i + 1
    BY <2>1
  <2> QED BY <2>2 DEF OrderInv, Chained
<1> QED BY <1>1, OrderInvariant, PTL
=============================================================================
