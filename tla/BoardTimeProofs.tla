-------------------------- MODULE BoardTimeProofs --------------------------
(***************************************************************************)
(* The two delays of the board, for any threads, priorities, delays, tick  *)
(* width and counter.                                                      *)
(*                                                                         *)
(* rt_hw_us_delay never returns early: what it has measured, with what it  *)
(* has not read yet, never exceeds the counts that have passed.            *)
(*                                                                         *)
(* rt_thread_mdelay ends with exactly its tick, and the right thread runs. *)
(* Two facts carry the proof: the records of the scheduler agree with one  *)
(* another (SchedOK), and the timer list holds one timer for each thread   *)
(* whose delay runs, in the order of the ticks that are left, all of them  *)
(* less than half of the circle of ticks (TimersOK).                       *)
(***************************************************************************)
EXTENDS BoardTime, ExtremePositions, FiniteSetTheorems, SequenceTheorems, TLAPS

(* The sums a call starts and polls with fit in a word.                     *)
Fits == polling => tcnt <= ticks /\ ticks + Reload < WordRange

DelayInv == UsTypeOK /\ Fits /\ Measured /\ NeverEarly

(* The counts of a delay fit in a word with a turn of the counter to spare, *)
(* so the product on the way to them does not wrap.                         *)
LEMMA CountsFit ==
    ASSUME NEW us \in Micros
    PROVE  /\ Counts(us) \in Nat /\ Counts(us) + Reload < WordRange
           /\ ((us * Reload) % WordRange) \div MicrosPerTick = Counts(us)
  <1> DEFINE product == us * Reload
  <1>1. product \in Nat /\ product + Reload < WordRange
    BY UsAssumption
  <1>2. product % WordRange = product
    <2> HIDE DEF product
    <2> QED BY <1>1, UsAssumption
  <1>3. \A n, m \in Nat : m > 0 => n \div m \in Nat /\ n \div m <= n
    OBVIOUS
  <1>4. product \div MicrosPerTick \in Nat
        /\ product \div MicrosPerTick <= product
    <2> HIDE DEF product
    <2> QED BY <1>1, <1>3, UsAssumption
  <1> QED
    <2> HIDE DEF product
    <2>1. product \div MicrosPerTick + Reload < WordRange
      BY <1>1, <1>4, UsAssumption
    <2> QED BY <1>2, <1>4, <2>1 DEF Counts, product

LEMMA DelayInit == Init => DelayInv
  <1> SUFFICES ASSUME Init PROVE DelayInv
    OBVIOUS
  <1>1. ~polling /\ owed = 0
    BY DEF Init
  <1>2. UsTypeOK
    <2>1. val \in 0..Reload /\ told \in 0..Reload
      BY UsAssumption DEF Init
    <2>2. ticks \in Nat /\ tcnt \in Nat /\ owed \in Nat
      BY DEF Init
    <2>3. polling \in BOOLEAN
      BY DEF Init
    <2> QED BY <2>1, <2>2, <2>3 DEF UsTypeOK
  <1> QED BY <1>1, <1>2 DEF DelayInv, Fits, Measured, NeverEarly

(* The counter moves on, also across its reload.                            *)
LEMMA CountKeeps ==
    ASSUME DelayInv, Count
    PROVE  DelayInv'
  BY UsAssumption
     DEF DelayInv, UsTypeOK, Fits, Measured, NeverEarly, Unread, Count

LEMMA CallKeeps ==
    ASSUME DelayInv, NEW us \in Micros, Call(us)
    PROVE  DelayInv'
  <1>1. Counts(us) \in Nat /\ Counts(us) + Reload < WordRange
        /\ ticks' = Counts(us) /\ owed' = Counts(us)
    BY CountsFit DEF Call
  <1>2. polling' = TRUE /\ told' = val /\ tcnt' = 0 /\ val' = val
    BY DEF Call
  <1> QED BY <1>1, <1>2, UsAssumption
          DEF DelayInv, UsTypeOK, Fits, Measured, NeverEarly, Unread

(* A poll reads at most what has passed since the last one, and returns     *)
(* only once that is enough.                                                *)
LEMMA PollKeeps ==
    ASSUME DelayInv, Poll
    PROVE  DelayInv'
  <1>1. /\ val \in 0..Reload /\ told \in 0..Reload /\ val # told
        /\ ticks \in Nat /\ tcnt \in Nat /\ owed \in Nat
        /\ tcnt <= ticks /\ ticks + Reload < WordRange
        /\ owed = 0 \/ tcnt + Unread + owed <= ticks
    BY DEF DelayInv, UsTypeOK, Fits, Measured, Poll
  <1>2. Passed(val) \in 0..Reload /\ Passed(val) <= Unread
    BY <1>1, UsAssumption DEF Passed, Unread
  <1>3. tcnt + Passed(val) \in Nat /\ tcnt + Passed(val) < WordRange
    BY <1>1, <1>2, UsAssumption
  <1>4. tcnt' = tcnt + Passed(val)
    BY <1>3, UsAssumption DEF Poll
  <1>5. /\ told' = val /\ val' = val /\ ticks' = ticks /\ owed' = owed
        /\ polling' = (tcnt' < ticks)
    BY DEF Poll
  <1>6. UsTypeOK'
    BY <1>1, <1>3, <1>4, <1>5 DEF UsTypeOK
  <1>7. Unread' = 0
    BY <1>1, <1>5 DEF Unread
  <1>9. CASE tcnt' < ticks
    <2>1. owed = 0 \/ tcnt' + owed <= ticks
      BY <1>1, <1>2, <1>4, UsAssumption DEF Unread
    <2>2. owed' = 0 \/ tcnt' + Unread' + owed' <= ticks'
      BY <2>1, <1>1, <1>2, <1>4, <1>5, <1>7
    <2>3. tcnt' <= ticks' /\ ticks' + Reload < WordRange
      BY <1>1, <1>2, <1>4, <1>5, <1>9
    <2>4. polling'
      BY <1>5, <1>9
    <2> QED BY <1>6, <2>2, <2>3, <2>4 DEF DelayInv, Fits, Measured, NeverEarly
  <1>10. CASE ~(tcnt' < ticks)
    <2>1. owed' = 0
      BY <1>1, <1>2, <1>4, <1>5, <1>10, UsAssumption DEF Unread
    <2>2. ~polling'
      BY <1>5, <1>10
    <2> QED BY <1>6, <2>1, <2>2 DEF DelayInv, Fits, Measured, NeverEarly
  <1> QED BY <1>9, <1>10

LEMMA DelayStep ==
    ASSUME DelayInv, [Next]_<<val, delay>>
    PROVE  DelayInv'
  <1>1. CASE Next
    BY <1>1, CountKeeps, CallKeeps, PollKeeps DEF Next
  <1>2. CASE UNCHANGED <<val, delay>>
    BY <1>2 DEF delay, DelayInv, UsTypeOK, Fits, Measured, NeverEarly, Unread
  <1> QED BY <1>1, <1>2

(* The busy wait alone, for every counter and every delay that fits.        *)
THEOREM UsDelayNeverEarly == Spec => []NeverEarly
  <1>1. DelayInv => NeverEarly
    BY DEF DelayInv
  <1> QED BY <1>1, DelayInit, DelayStep, PTL DEF Spec

(* On the board a step of the scheduler, the tick or another thread is a    *)
(* step of the busy wait or leaves it alone.                                *)
THEOREM BoardNeverEarly == BoardSpec => []NeverEarly
  <1>1. BoardInit => DelayInv
    BY DelayInit DEF BoardInit
  <1>2. DelayInv /\ [BoardNext]_board => DelayInv'
    <2>1. BoardNext => Next \/ UNCHANGED <<val, delay>>
      <3>1. TimePasses => Count
        BY DEF TimePasses
      <3>2. ASSUME NEW t \in Threads, Asks(t)
            PROVE  Next \/ UNCHANGED <<val, delay>>
        BY <3>2 DEF Asks, Next
      <3>3. ASSUME NEW t \in Threads, Runs(t)
            PROVE  Next \/ UNCHANGED <<val, delay>>
        BY <3>3 DEF Runs, Next
      <3> QED BY <3>1, <3>2, <3>3 DEF BoardNext, Next
    <2>2. UNCHANGED board => UNCHANGED <<val, delay>>
      BY DEF board
    <2> QED BY <2>1, <2>2, DelayStep
  <1>3. DelayInv => NeverEarly
    BY DEF DelayInv
  <1> QED BY <1>1, <1>2, <1>3, PTL DEF BoardSpec

-----------------------------------------------------------------------------
(* Queues: sequences that hold nothing twice.                               *)

Distinct(q) == \A i, j \in DOMAIN q : q[i] = q[j] => i = j
Holds(q, x) == \E i \in DOMAIN q : q[i] = x

(* What the list operations of the community modules do to the places of a  *)
(* sequence.                                                                *)
LEMMA InsertAtEffect ==
    ASSUME NEW S, NEW q \in Seq(S), NEW p \in 1..(Len(q) + 1), NEW e \in S
    PROVE  /\ InsertAt(q, p, e) \in Seq(S)
           /\ Len(InsertAt(q, p, e)) = Len(q) + 1
           /\ \A k \in 1..(Len(q) + 1) : InsertAt(q, p, e)[k] =
                 IF k < p THEN q[k] ELSE IF k = p THEN e ELSE q[k - 1]
  <1> DEFINE front == SubSeq(q, 1, p - 1)
             back == SubSeq(q, p, Len(q))
             n == Len(q)
  <1>0. n \in Nat /\ p \in Nat
    OBVIOUS
  <1>1. front \in Seq(S) /\ Len(front) = p - 1
        /\ \A k \in 1..(p - 1) : front[k] = q[k]
    OBVIOUS
  <1>2. back \in Seq(S) /\ Len(back) = n + 1 - p
        /\ \A k \in 1..(n + 1 - p) : back[k] = q[p - 1 + k]
    OBVIOUS
  <1>3. InsertAt(q, p, e) = (front \o <<e>>) \o back
    BY DEF InsertAt
  <1> HIDE DEF front, back
  <1>4. /\ front \o <<e>> \in Seq(S) /\ Len(front \o <<e>>) = p
        /\ \A k \in 1..p : (front \o <<e>>)[k] = IF k < p THEN q[k] ELSE e
    BY <1>0, <1>1
  <1> DEFINE upto == front \o <<e>>
  <1>5. \A k \in 1..(n + 1) : IF k <= p THEN k \in 1..Len(upto)
           ELSE k - p \in 1..Len(back) /\ p - 1 + (k - p) = k - 1
    BY <1>0, <1>2, <1>4
  <1> HIDE DEF upto, n
  <1>6. /\ upto \o back \in Seq(S) /\ Len(upto \o back) = n + 1
        /\ \A k \in 1..(n + 1) : (upto \o back)[k] =
              IF k <= p THEN upto[k] ELSE back[k - p]
    <2>1. upto \in Seq(S) /\ back \in Seq(S) /\ Len(upto) = p
          /\ Len(back) = n + 1 - p
      BY <1>2, <1>4 DEF upto, n
    <2>2. n \in Nat /\ p \in Nat
      BY <1>0 DEF n
    <2>3. Len(upto) + Len(back) = n + 1
      BY <2>1, <2>2
    <2>4. /\ upto \o back \in Seq(S)
          /\ Len(upto \o back) = Len(upto) + Len(back)
          /\ \A k \in 1..(Len(upto) + Len(back)) : (upto \o back)[k] =
                IF k <= Len(upto) THEN upto[k] ELSE back[k - Len(upto)]
      BY <2>1, ConcatProperties
    <2>5. ASSUME NEW k \in 1..(n + 1)
          PROVE  (upto \o back)[k] = IF k <= p THEN upto[k] ELSE back[k - p]
      BY <2>1, <2>3, <2>4
    <2> QED BY <2>3, <2>4, <2>5
  <1>7. ASSUME NEW k \in 1..(n + 1)
        PROVE  (upto \o back)[k] =
                 IF k < p THEN q[k] ELSE IF k = p THEN e ELSE q[k - 1]
    <2>1. p \in Nat /\ k \in Nat /\ k >= 1
      BY <1>0 DEF n
    <2>2. CASE k <= p
      <3>1. k \in 1..p
        BY <2>1, <2>2
      <3> QED BY <1>4, <1>6, <2>1, <2>2, <3>1 DEF upto
    <2>3. CASE ~(k <= p)
      <3>1. k - p \in 1..(n + 1 - p) /\ p - 1 + (k - p) = k - 1
        BY <1>0, <2>1, <2>3 DEF n
      <3> QED BY <1>2, <1>6, <2>1, <2>3, <3>1 DEF n
    <2> QED BY <2>2, <2>3
  <1> QED BY <1>3, <1>6, <1>7 DEF upto, n

LEMMA RemoveAtEffect ==
    ASSUME NEW S, NEW q \in Seq(S), NEW p \in 1..Len(q)
    PROVE  /\ RemoveAt(q, p) \in Seq(S)
           /\ Len(RemoveAt(q, p)) = Len(q) - 1
           /\ \A k \in 1..(Len(q) - 1) : RemoveAt(q, p)[k] =
                 IF k < p THEN q[k] ELSE q[k + 1]
  <1> DEFINE front == SubSeq(q, 1, p - 1)
             back == SubSeq(q, p + 1, Len(q))
             n == Len(q)
  <1>0. n \in Nat /\ p \in Nat
    OBVIOUS
  <1>1. front \in Seq(S) /\ Len(front) = p - 1
        /\ \A k \in 1..(p - 1) : front[k] = q[k]
    OBVIOUS
  <1>2. back \in Seq(S) /\ Len(back) = n - p
        /\ \A k \in 1..(n - p) : back[k] = q[p + k]
    OBVIOUS
  <1>3. RemoveAt(q, p) = front \o back
    BY DEF RemoveAt
  <1> HIDE DEF front, back
  <1> QED BY <1>0, <1>1, <1>2, <1>3

(* Removing an element.                                                     *)
LEMMA Removed ==
    ASSUME NEW S, NEW q \in Seq(S), Distinct(q), NEW p \in 1..Len(q)
    PROVE  /\ RemoveAt(q, p) \in Seq(S) /\ Distinct(RemoveAt(q, p))
           /\ \A x : Holds(RemoveAt(q, p), x) <=> Holds(q, x) /\ x # q[p]
  <1> DEFINE r == RemoveAt(q, p)
             n == Len(q)
  <1>1. /\ r \in Seq(S) /\ Len(r) = n - 1 /\ n \in Nat /\ p \in Nat
        /\ \A k \in 1..(n - 1) : r[k] = IF k < p THEN q[k] ELSE q[k + 1]
    <2>1. n \in Nat /\ p \in Nat
      OBVIOUS
    <2>2. /\ RemoveAt(q, p) \in Seq(S) /\ Len(RemoveAt(q, p)) = Len(q) - 1
          /\ \A k \in 1..(Len(q) - 1) : RemoveAt(q, p)[k] =
                IF k < p THEN q[k] ELSE q[k + 1]
      BY RemoveAtEffect
    <2> QED BY <2>1, <2>2
  <1>2. DOMAIN q = 1..n /\ DOMAIN r = 1..(n - 1)
    BY <1>1
  <1> HIDE DEF r, n
  <1>3. Distinct(r)
    <2> SUFFICES ASSUME NEW i \in 1..(n - 1), NEW j \in 1..(n - 1),
                        r[i] = r[j]
                 PROVE  i = j
      BY <1>2 DEF Distinct
    <2> DEFINE at(k) == IF k < p THEN k ELSE k + 1
    <2>1. at(i) \in 1..n /\ at(j) \in 1..n /\ q[at(i)] = q[at(j)]
      BY <1>1
    <2>2. at(i) = at(j)
      <3> HIDE DEF at
      <3> QED BY <1>2, <2>1 DEF Distinct
    <2> QED BY <1>1, <2>2
  <1>4. ASSUME NEW x, Holds(r, x) PROVE Holds(q, x) /\ x # q[p]
    <2>1. PICK k \in 1..(n - 1) : r[k] = x
      BY <1>2, <1>4 DEF Holds
    <2>2. PICK j \in 1..n : j # p /\ q[j] = x
      <3>1. CASE k < p
        BY <1>1, <2>1, <3>1
      <3>2. CASE ~(k < p)
        <4>1. k + 1 \in 1..n /\ k + 1 # p /\ q[k + 1] = x
          BY <1>1, <2>1, <3>2
        <4> QED BY <4>1
      <3> QED BY <3>1, <3>2
    <2> QED BY <1>2, <2>2 DEF Distinct, Holds, n
  <1>5. ASSUME NEW x, Holds(q, x), x # q[p] PROVE Holds(r, x)
    <2>1. PICK k \in 1..n : q[k] = x /\ k # p
      BY <1>2, <1>5 DEF Holds
    <2>2. r[IF k < p THEN k ELSE k - 1] = x
          /\ (IF k < p THEN k ELSE k - 1) \in 1..(n - 1)
      BY <1>1, <2>1 DEF n
    <2> QED BY <1>2, <2>2 DEF Holds
  <1> QED BY <1>1, <1>3, <1>4, <1>5 DEF r

(* Adding a new element at either end.                                      *)
LEMMA Inserted ==
    ASSUME NEW S, NEW q \in Seq(S), Distinct(q), NEW e \in S, ~Holds(q, e),
           NEW r, r = Append(q, e) \/ r = <<e>> \o q
    PROVE  /\ r \in Seq(S) /\ Distinct(r)
           /\ \A x : Holds(r, x) <=> Holds(q, x) \/ x = e
  <1> DEFINE n == Len(q)
  <1>1. CASE r = Append(q, e)
    <2>1. /\ r \in Seq(S) /\ DOMAIN r = 1..(n + 1) /\ DOMAIN q = 1..n
          /\ n \in Nat /\ r[n + 1] = e /\ \A k \in 1..n : r[k] = q[k]
      BY <1>1
    <2> HIDE DEF n
    <2>2. Distinct(r)
      BY <2>1 DEF Distinct, Holds
    <2>3. \A x : Holds(r, x) => Holds(q, x) \/ x = e
      BY <2>1 DEF Holds
    <2>4. \A x : Holds(q, x) \/ x = e => Holds(r, x)
      BY <2>1 DEF Holds
    <2> QED BY <2>1, <2>2, <2>3, <2>4
  <1>2. CASE r = <<e>> \o q
    <2>1. /\ r \in Seq(S) /\ DOMAIN r = 1..(n + 1) /\ DOMAIN q = 1..n
          /\ n \in Nat /\ r[1] = e /\ \A k \in 1..n : r[k + 1] = q[k]
      BY <1>2
    <2> HIDE DEF n
    <2>5. \A k \in 1..(n + 1) : k = 1 \/ (k - 1 \in 1..n /\ r[k] = q[k - 1])
      BY <2>1
    <2>2. Distinct(r)
      <3> SUFFICES ASSUME NEW i \in 1..(n + 1), NEW j \in 1..(n + 1),
                          r[i] = r[j]
                   PROVE  i = j
        BY <2>1 DEF Distinct
      <3>1. \A k \in 1..(n + 1) \ {1} :
               k - 1 \in 1..n /\ r[k] = q[k - 1] /\ r[k] # e
        <4> SUFFICES ASSUME NEW k \in 2..(n + 1)
                     PROVE  k - 1 \in 1..n /\ r[k] = q[k - 1] /\ r[k] # e
          BY <2>1
        <4>1. k - 1 \in 1..n /\ r[k] = q[k - 1]
          BY <2>1, <2>5
        <4> QED BY <2>1, <4>1 DEF Holds
      <3>2. CASE i = 1 \/ j = 1
        BY <2>1, <3>1, <3>2
      <3>3. CASE i # 1 /\ j # 1
        <4>1. i - 1 \in 1..n /\ j - 1 \in 1..n /\ q[i - 1] = q[j - 1]
          BY <3>1, <3>3
        <4>2. i - 1 = j - 1
          BY <2>1, <4>1 DEF Distinct
        <4> QED BY <2>1, <4>2
      <3> QED BY <3>2, <3>3
    <2>3. \A x : Holds(r, x) => Holds(q, x) \/ x = e
      <3> SUFFICES ASSUME NEW x, NEW k \in 1..(n + 1), r[k] = x, x # e
                   PROVE  \E i \in 1..n : q[i] = x
        BY <2>1 DEF Holds
      <3> QED BY <2>1, <2>5
    <2>4. \A x : Holds(q, x) \/ x = e => Holds(r, x)
      <3>1. 1 \in 1..(n + 1) /\ \A k \in 1..n : k + 1 \in 1..(n + 1)
        BY <2>1
      <3>2. \A k \in 1..n : \E i \in 1..(n + 1) : r[i] = q[k]
        BY <2>1, <3>1
      <3> QED BY <2>1, <3>1, <3>2 DEF Holds
    <2> QED BY <2>1, <2>2, <2>3, <2>4
  <1> QED BY <1>1, <1>2

-----------------------------------------------------------------------------
(* The scheduler.                                                           *)

Stats == {"running", "ready", "suspend"}
Scheduler ==
    [current: Threads, locked: BOOLEAN, yielded: SUBSET Threads,
     ready: Seq(Threads),
     stat: [Threads -> Stats]]

(* A scheduler whose records agree: no thread is queued twice, exactly the  *)
(* queued ones are ready, only the current one runs, and the idle thread    *)
(* never lies down.                                                         *)
SchedOK(s) ==
    /\ s \in Scheduler /\ Distinct(s.ready)
    /\ \A t \in Threads : /\ s.stat[t] = "ready" <=> Holds(s.ready, t)
                          /\ s.stat[t] = "running" => t = s.current
    /\ s.stat[s.current] # "ready" /\ s.stat[Idle] # "suspend"

RightChoice(s) ==
    /\ s.stat[s.current] = "running"
    /\ \A t \in Threads : s.stat[t] = "ready" =>
          Priority[s.current] <= Priority[t]

SameAsleep(s, r) ==
    \A t \in Threads : s.stat[t] = "suspend" <=> r.stat[t] = "suspend"

(* The scheduler s after t got the state v and the ready queue became q.    *)
Marked(s, t, v, q) == [s EXCEPT !.stat[t] = v, !.ready = q]

(* What a mark changes and what it leaves.                                  *)
LEMMA MarkedFields ==
    ASSUME NEW s \in Scheduler, NEW t \in Threads, NEW v \in Stats,
           NEW q \in Seq(Threads)
    PROVE  LET r == Marked(s, t, v, q)
           IN  /\ r \in Scheduler
               /\ r.current = s.current /\ r.locked = s.locked
               /\ r.yielded = s.yielded /\ r.ready = q
               /\ \A u \in Threads :
                     r.stat[u] = IF u = t THEN v ELSE s.stat[u]
  <1> DEFINE r == Marked(s, t, v, q)
  <1>1. r \in Scheduler
    BY DEF Scheduler, Marked
  <1>2. /\ r.current = s.current /\ r.locked = s.locked
        /\ r.yielded = s.yielded /\ r.ready = q
    BY DEF Scheduler, Marked
  <1>3. \A u \in Threads : r.stat[u] = IF u = t THEN v ELSE s.stat[u]
    BY DEF Scheduler, Marked
  <1> QED BY <1>1, <1>2, <1>3

(* rt_sched_insert_thread for a thread that sleeps wakes it and nobody      *)
(* else.                                                                    *)
LEMMA InsertKeeps ==
    ASSUME NEW s, SchedOK(s), NEW t \in Threads, s.stat[t] = "suspend"
    PROVE  /\ SchedOK(Insert(s, t))
           /\ Insert(s, t).current = s.current
           /\ Insert(s, t).locked = s.locked
           /\ \A u \in Threads : Insert(s, t).stat[u] = "suspend" <=>
                 s.stat[u] = "suspend" /\ u # t
  <1> DEFINE r == Insert(s, t)
  <1>1. s \in Scheduler /\ Distinct(s.ready) /\ ~Holds(s.ready, t)
    BY DEF SchedOK
  <1>2. CASE t = s.current
    <2>1. r = [s EXCEPT !.stat[t] = "running"]
      BY <1>2 DEF Insert
    <2>2. /\ r \in Scheduler /\ r.current = s.current /\ r.locked = s.locked
          /\ r.ready = s.ready
          /\ \A u \in Threads :
                r.stat[u] = IF u = t THEN "running" ELSE s.stat[u]
      BY <1>1, <2>1 DEF Scheduler, Stats
    <2> HIDE DEF r
    <2>3. SchedOK(r)
      BY <1>1, <1>2, <2>2, DelayAssumption DEF SchedOK
    <2> QED BY <1>2, <2>2, <2>3 DEF SchedOK, r
  <1>3. CASE t # s.current
    <2>1. PICK q : (q = Append(s.ready, t) \/ q = <<t>> \o s.ready) /\ 
            r = Marked(s, t, "ready", q)
      BY <1>3 DEF Insert, Marked
    <2>2. /\ q \in Seq(Threads) /\ Distinct(q)
          /\ \A x : Holds(q, x) <=> Holds(s.ready, x) \/ x = t
      <3>1. s.ready \in Seq(Threads)
        BY <1>1 DEF Scheduler
      <3>2. q = Append(s.ready, t) \/ q = <<t>> \o s.ready
        BY <2>1
      <3>3. q \in Seq(Threads) /\ Distinct(q)
        BY <1>1, <3>1, <3>2, Inserted
      <3>4. \A x : Holds(q, x) <=> Holds(s.ready, x) \/ x = t
        BY <1>1, <3>1, <3>2, Inserted
      <3> QED BY <3>3, <3>4
    <2>3. /\ r \in Scheduler /\ r.current = s.current /\ r.locked = s.locked
          /\ r.ready = q
          /\ \A u \in Threads :
                r.stat[u] = IF u = t THEN "ready" ELSE s.stat[u]
      <3>1. s \in Scheduler /\ "ready" \in Stats /\ q \in Seq(Threads)
        BY <1>1, <2>2 DEF Stats
      <3> QED BY <2>1, <3>1, MarkedFields
    <2> HIDE DEF r
    <2>4. SchedOK(r)
      <3>1. \A u \in Threads : r.stat[u] = "ready" <=> Holds(r.ready, u)
        BY <2>2, <2>3 DEF SchedOK
      <3>2. \A u \in Threads : r.stat[u] = "running" => u = r.current
        BY <2>3 DEF SchedOK
      <3>3. r.stat[r.current] # "ready" /\ r.stat[Idle] # "suspend"
        BY <1>3, <2>3, DelayAssumption DEF SchedOK, Scheduler
      <3> QED BY <2>2, <2>3, <3>1, <3>2, <3>3 DEF SchedOK
    <2> QED BY <1>3, <2>3, <2>4 DEF SchedOK, r
  <1> QED BY <1>2, <1>3

(* The first place of a queue that holds a member of a set.                 *)
LEMMA FirstPlaceIn ==
    ASSUME NEW T, NEW q \in Seq(T), NEW S, NEW x \in S, Holds(q, x)
    PROVE  FirstPlace(q, S) \in 1..Len(q) /\ q[FirstPlace(q, S)] \in S
  <1> DEFINE P == {i \in DOMAIN q : q[i] \in S}
  <1>1. P \in SUBSET Nat /\ P # {} /\ P \subseteq 1..Len(q)
    BY DEF Holds
  <1>2. Min(P) \in P
    <2> HIDE DEF P
    <2> QED BY <1>1, LeastPosition
  <1> QED BY <1>1, <1>2 DEF FirstPlace

(* The scheduler finds a queued thread that no queued one outranks.         *)
LEMMA FirstReadyIsHighest ==
    ASSUME NEW s, SchedOK(s), s.ready # <<>>
    PROVE  /\ FirstReady(s) \in Threads /\ Holds(s.ready, FirstReady(s))
           /\ \A t \in Threads : Holds(s.ready, t) =>
                 Priority[FirstReady(s)] <= Priority[t]
  <1>1. s.ready \in Seq(Threads) /\ ToSet(s.ready) \subseteq Threads
    BY DEF SchedOK, Scheduler, ToSet
  <1> DEFINE P == {Priority[t] : t \in ToSet(s.ready)}
  <1>2. P \in SUBSET Nat /\ P # {}
    <2>1. 1 \in DOMAIN s.ready
      BY <1>1
    <2> QED BY <1>1, <2>1, DelayAssumption DEF ToSet
  <1>3. PICK h \in ToSet(s.ready) : \A t \in ToSet(s.ready) :
                                       Priority[h] <= Priority[t]
    <2>1. Min(P) \in P /\ \A y \in P : Min(P) <= y
      <3> HIDE DEF P
      <3> QED BY <1>2, LeastPosition
    <2> QED BY <2>1
  <1>4. h \in Highest(s) /\ Holds(s.ready, h)
    BY <1>3 DEF Highest, ToSet, Holds
  <1>5. /\ FirstPlace(s.ready, Highest(s)) \in 1..Len(s.ready)
        /\ FirstReady(s) \in Highest(s)
    BY <1>1, <1>4, FirstPlaceIn DEF FirstReady
  <1>6. Holds(s.ready, FirstReady(s))
    BY <1>1, <1>5 DEF FirstReady, Holds
  <1> QED BY <1>1, <1>5, <1>6 DEF Highest, ToSet, Holds

(* A switch to a queued thread.                                             *)
LEMMA SwitchKeeps ==
    ASSUME NEW s, SchedOK(s), NEW to \in Threads, Holds(s.ready, to)
    PROVE  LET r == SwitchTo(s, to)
           IN  /\ SchedOK(r) /\ SameAsleep(s, r)
               /\ r.current = to /\ r.locked = s.locked
               /\ r.stat[to] = "running"
               /\ \A t \in Threads : r.stat[t] = "ready" =>
                     \/ t = s.current /\ s.stat[t] = "running"
                     \/ s.stat[t] = "ready"
  <1> DEFINE from == s.current
             moved == [s EXCEPT !.current = to]
             queued == IF s.stat[from] = "running" THEN Insert(moved, from)
                                                   ELSE moved
             r == SwitchTo(s, to)
  <1>1. /\ s \in Scheduler /\ Distinct(s.ready) /\ from \in Threads
        /\ ~Holds(s.ready, from) /\ from # to
        /\ s.ready \in Seq(Threads)
    BY DEF SchedOK, Scheduler
  <1>2. /\ queued \in Scheduler /\ Distinct(queued.ready)
        /\ queued.current = to /\ queued.locked = s.locked
        /\ \A x : Holds(queued.ready, x) <=>
                  \/ Holds(s.ready, x)
                  \/ x = from /\ s.stat[from] = "running"
        /\ \A t \in Threads : queued.stat[t] =
              IF t = from /\ s.stat[from] = "running" THEN "ready"
                                                      ELSE s.stat[t]
    <2>1. /\ moved \in Scheduler /\ moved.current = to
          /\ moved.ready = s.ready /\ moved.locked = s.locked
          /\ moved.stat = s.stat /\ moved.yielded = s.yielded
      BY <1>1 DEF Scheduler
    <2>2. CASE s.stat[from] = "running"
      <3> HIDE DEF moved
      <3>1. PICK q : (q = Append(s.ready, from) \/ q = <<from>> \o s.ready) /\ 
              queued = Marked(moved, from, "ready", q)
        BY <1>1, <2>1, <2>2 DEF Insert, Marked
      <3>2. /\ q \in Seq(Threads) /\ Distinct(q)
            /\ \A x : Holds(q, x) <=> Holds(s.ready, x) \/ x = from
        BY <1>1, <3>1, Inserted
      <3>3. /\ queued \in Scheduler /\ queued.current = to
            /\ queued.locked = s.locked /\ queued.ready = q
            /\ \A t \in Threads :
                  queued.stat[t] = IF t = from THEN "ready" ELSE s.stat[t]
        <4>1. "ready" \in Stats
          BY DEF Stats
        <4>2. queued = Marked(moved, from, "ready", q)
          BY <3>1
        <4>3. /\ Marked(moved, from, "ready", q) \in Scheduler
              /\ Marked(moved, from, "ready", q).current = moved.current
              /\ Marked(moved, from, "ready", q).locked = moved.locked
              /\ Marked(moved, from, "ready", q).ready = q
              /\ \A u \in Threads : Marked(moved, from, "ready", q).stat[u] =
                    IF u = from THEN "ready" ELSE moved.stat[u]
          BY <1>1, <2>1, <3>2, <4>1, MarkedFields
        <4> HIDE DEF queued
        <4> QED BY <2>1, <4>2, <4>3
      <3> HIDE DEF queued
      <3> QED BY <2>2, <3>2, <3>3
    <2>3. CASE s.stat[from] # "running"
      <3>1. queued = moved
        BY <2>3
      <3> HIDE DEF queued, moved
      <3> QED BY <1>1, <2>1, <2>3, <3>1
    <2> QED BY <2>2, <2>3
  <1> HIDE DEF queued
  <1> DEFINE p == FirstPlace(queued.ready, {to})
  <1>3. queued.ready \in Seq(Threads)
    BY <1>2 DEF Scheduler
  <1>4. p \in 1..Len(queued.ready) /\ queued.ready[p] = to
    <2>1. Holds(queued.ready, to) /\ to \in {to}
      BY <1>2
    <2>2. p \in 1..Len(queued.ready) /\ queued.ready[p] \in {to}
      BY <1>3, <2>1, FirstPlaceIn
    <2> QED BY <2>2
  <1> DEFINE rest == RemoveAt(queued.ready, p)
  <1>5. /\ rest \in Seq(Threads) /\ Distinct(rest)
        /\ \A x : Holds(rest, x) <=> Holds(queued.ready, x) /\ x # to
    <2> HIDE DEF p
    <2> QED BY <1>2, <1>3, <1>4, Removed
  <1> DEFINE forgotten == [queued EXCEPT !.yielded = @ \ {from}]
  <1>6. r = Marked(forgotten, to, "running", rest)
    BY <1>2 DEF SwitchTo, queued, Marked, Scheduler
  <1>11. /\ forgotten \in Scheduler /\ forgotten.current = queued.current
         /\ forgotten.locked = queued.locked /\ forgotten.stat = queued.stat
    BY <1>2 DEF Scheduler
  <1> HIDE DEF rest, p, forgotten
  <1>7. /\ r \in Scheduler /\ r.current = to /\ r.locked = s.locked
        /\ r.ready = rest
        /\ \A t \in Threads :
              r.stat[t] = IF t = to THEN "running" ELSE queued.stat[t]
    <2>1. "running" \in Stats
      BY DEF Stats
    <2> QED BY <1>2, <1>5, <1>6, <1>11, <2>1, MarkedFields
  <1> HIDE DEF r
  <1>8. s.stat[to] = "ready"
    BY DEF SchedOK
  <1>9. SchedOK(r)
    <2>1. \A t \in Threads : r.stat[t] = "ready" <=> Holds(r.ready, t)
      BY <1>1, <1>2, <1>5, <1>7 DEF SchedOK
    <2>2. \A t \in Threads : r.stat[t] = "running" => t = r.current
      BY <1>1, <1>2, <1>7 DEF SchedOK
    <2>3. r.stat[Idle] # "suspend"
      BY <1>2, <1>7, DelayAssumption DEF SchedOK
    <2> QED BY <1>5, <1>7, <2>1, <2>2, <2>3 DEF SchedOK
  <1>10. SameAsleep(s, r)
    BY <1>2, <1>7, <1>8 DEF SameAsleep
  <1> QED BY <1>2, <1>7, <1>9, <1>10 DEF r

(* Whatever state the scheduler is called in, it leaves the right thread    *)
(* running unless it is locked, and it neither wakes a thread nor puts one  *)
(* to sleep.                                                                *)
LEMMA RescheduleKeeps ==
    ASSUME NEW s, SchedOK(s)
    PROVE  LET r == Reschedule(s)
           IN  /\ SchedOK(r) /\ SameAsleep(s, r) /\ r.locked = s.locked
               /\ s.locked => r = s
               /\ ~s.locked => RightChoice(r)
  <1> DEFINE first == FirstReady(s)
  <1>0. s \in Scheduler /\ s.current \in Threads
        /\ s.stat \in [Threads -> {"running", "ready", "suspend"}]
    BY DEF SchedOK, Scheduler, Stats
  <1>1. CASE s.locked
    BY <1>1 DEF Reschedule, SameAsleep
  <1>2. CASE ~s.locked /\ s.ready = <<>>
    <2>1. \A t \in Threads : ~Holds(s.ready, t)
      BY <1>2 DEF Holds
    <2>2. s.stat[Idle] = "running" /\ Idle = s.current
      BY <1>0, <2>1, DelayAssumption DEF SchedOK
    <2>3. RightChoice(s)
      BY <2>1, <2>2 DEF RightChoice, SchedOK
    <2> QED BY <1>2, <2>3 DEF Reschedule, SameAsleep
  <1>3. CASE ~s.locked /\ s.ready # <<>> /\ Stays(s, s.current)
    <2>1. /\ s.stat[s.current] = "running"
          /\ Priority[s.current] <= Priority[first] /\ first \in Threads
      BY <1>0, <1>3, FirstReadyIsHighest, DelayAssumption DEF Stays
    <2>2. \A t \in Threads : s.stat[t] = "ready" =>
             Priority[s.current] <= Priority[t]
      <3> HIDE DEF first
      <3>1. \A t \in Threads :
               Holds(s.ready, t) => Priority[first] <= Priority[t]
        BY <1>3, FirstReadyIsHighest DEF first
      <3> QED BY <1>0, <2>1, <3>1, DelayAssumption DEF SchedOK
    <2> QED BY <1>3, <2>1, <2>2 DEF Reschedule, SameAsleep, RightChoice
  <1>4. CASE ~s.locked /\ s.ready # <<>> /\ ~Stays(s, s.current)
    <2>1. /\ first \in Threads /\ Holds(s.ready, first)
          /\ \A t \in Threads : Holds(s.ready, t) =>
                Priority[first] <= Priority[t]
      BY <1>4, FirstReadyIsHighest
    <2>2. s.stat[s.current] = "running" =>
             Priority[first] <= Priority[s.current]
      BY <1>0, <1>4, <2>1, DelayAssumption DEF Stays
    <2> DEFINE r == SwitchTo(s, first)
    <2>3. /\ SchedOK(r) /\ SameAsleep(s, r)
          /\ r.current = first /\ r.locked = s.locked
          /\ r.stat[first] = "running"
          /\ \A t \in Threads : r.stat[t] = "ready" =>
                \/ t = s.current /\ s.stat[t] = "running"
                \/ s.stat[t] = "ready"
      <3> HIDE DEF first
      <3> QED BY <2>1, SwitchKeeps
    <2>4. RightChoice(r)
      <3> HIDE DEF r, first
      <3> QED BY <2>1, <2>2, <2>3 DEF RightChoice, SchedOK
    <2>5. Reschedule(s) = r
      BY <1>4 DEF Reschedule
    <2> HIDE DEF r
    <2> QED BY <1>4, <2>3, <2>4, <2>5
  <1> QED BY <1>1, <1>2, <1>3, <1>4

(* The recursion of Resumed has a solution, so that Resumed is its last     *)
(* value: it is found by extending a solution for m timers by one.          *)
LEMMA ResumedUnfolds ==
    ASSUME NEW s, NEW woken, Len(woken) \in Nat
    PROVE  \E f : /\ \A k \in 0..Len(woken) : f[k] =
                        IF k = 0 THEN s
                        ELSE Reschedule(Insert(f[k - 1], woken[k].thread))
                  /\ Resumed(s, woken) = f[Len(woken)]
  <1> DEFINE n == Len(woken)
             Solves(f, m) ==
                f = [k \in 0..m |->
                        IF k = 0 THEN s
                        ELSE Reschedule(Insert(f[k - 1], woken[k].thread))]
             Unsolved == {m \in Nat : ~ \E f : Solves(f, m)}
  <1>1. \E f : Solves(f, 0)
    <2>1. Solves([k \in 0..0 |-> s], 0)
      OBVIOUS
    <2> QED BY <2>1
  <1>2. ASSUME NEW m \in Nat, NEW f, Solves(f, m)
        PROVE  \E g : Solves(g, m + 1)
    <2> DEFINE g == [k \in 0..(m + 1) |->
                        IF k <= m THEN f[k]
                        ELSE Reschedule(Insert(f[m], woken[m + 1].thread))]
    <2>1. ASSUME NEW k \in 0..(m + 1)
          PROVE  g[k] = IF k = 0 THEN s
                        ELSE Reschedule(Insert(g[k - 1], woken[k].thread))
      <3>1. CASE k = 0
        BY <1>2, <3>1
      <3>2. CASE k # 0 /\ k <= m
        <4>1. k \in 0..m /\ k - 1 \in 0..(m + 1) /\ k - 1 <= m
          BY <3>2
        <4>2. f[k] = Reschedule(Insert(f[k - 1], woken[k].thread))
          BY <1>2, <3>2, <4>1
        <4> QED BY <3>2, <4>1, <4>2
      <3>3. CASE ~(k <= m)
        <4>1. k = m + 1 /\ m \in 0..(m + 1) /\ k - 1 = m /\ k # 0
          BY <3>3
        <4> QED BY <4>1
      <3> QED BY <3>1, <3>2, <3>3
    <2>2. Solves(g, m + 1)
      <3> HIDE DEF g
      <3>1. g = [k \in 0..(m + 1) |-> g[k]]
        BY DEF g
      <3> QED BY <2>1, <3>1
    <2> QED BY <2>2
  <1>3. Unsolved = {}
    <2> SUFFICES ASSUME Unsolved # {} PROVE FALSE
      OBVIOUS
    <2>1. Unsolved \in SUBSET Nat
      OBVIOUS
    <2> DEFINE m == Min(Unsolved)
    <2>2. m \in Unsolved /\ \A y \in Unsolved : m <= y
      <3> HIDE DEF Unsolved
      <3> QED BY <2>1, LeastPosition
    <2> HIDE DEF m, Solves
    <2>3. m # 0 /\ m \in Nat
      BY <1>1, <2>2
    <2>4. m - 1 \in Nat /\ m - 1 + 1 = m /\ ~(m <= m - 1)
      BY <2>3
    <2>5. m - 1 \notin Unsolved
      BY <2>2, <2>4
    <2> QED BY <1>2, <2>2, <2>4, <2>5
  <1> DEFINE after == CHOOSE f : Solves(f, n)
  <1>4. Solves(after, n)
    <2> HIDE DEF Solves
    <2> QED BY <1>3
  <1>5. Resumed(s, woken) = after[n]
    BY DEF Resumed
  <1>6. \A k \in 0..n : after[k] =
           IF k = 0 THEN s
           ELSE Reschedule(Insert(after[k - 1], woken[k].thread))
    <2> HIDE DEF after
    <2> QED BY <1>4
  <1> QED BY <1>5, <1>6

(* _thread_timeout for a list of threads that sleep, each followed by       *)
(* rt_schedule, wakes exactly these and leaves the right thread running.    *)
LEMMA ResumedKeeps ==
    ASSUME NEW s, SchedOK(s),
           NEW woken, Len(woken) \in Nat,
           \A i \in 1..Len(woken) : /\ woken[i].thread \in Threads
                                    /\ s.stat[woken[i].thread] = "suspend",
           \A i, j \in 1..Len(woken) :
              woken[i].thread = woken[j].thread => i = j
    PROVE  LET r == Resumed(s, woken)
           IN  /\ SchedOK(r) /\ r.locked = s.locked
               /\ s.locked => r.current = s.current
               /\ ~r.locked => r = s \/ RightChoice(r)
               /\ \A t \in Threads : r.stat[t] = "suspend" <=>
                     /\ s.stat[t] = "suspend"
                     /\ \A i \in 1..Len(woken) : woken[i].thread # t
  <1> DEFINE n == Len(woken)
  <1>1. PICK f : /\ \A k \in 0..n : f[k] =
                       IF k = 0 THEN s
                       ELSE Reschedule(Insert(f[k - 1], woken[k].thread))
                 /\ Resumed(s, woken) = f[n]
    BY ResumedUnfolds
  <1> DEFINE Good(k) ==
                /\ SchedOK(f[k]) /\ f[k].locked = s.locked
                /\ s.locked => f[k].current = s.current
                /\ ~s.locked => f[k] = s \/ RightChoice(f[k])
                /\ \A t \in Threads : f[k].stat[t] = "suspend" <=>
                      /\ s.stat[t] = "suspend"
                      /\ \A i \in 1..k : woken[i].thread # t
             Bad == {k \in 0..n : ~Good(k)}
  <1>2. Good(0)
    <2>1. f[0] = s
      BY <1>1
    <2> QED BY <2>1
  <1>3. ASSUME NEW k \in 1..n, Good(k - 1)
        PROVE  Good(k)
    <2> DEFINE g == f[k - 1]
               t == woken[k].thread
               h == Insert(g, t)
               r == Reschedule(h)
    <2>1. f[k] = r
      <3>1. k \in 0..n /\ k # 0
        OBVIOUS
      <3> QED BY <1>1, <3>1
    <2>2. /\ SchedOK(g) /\ g.locked = s.locked
          /\ s.locked => g.current = s.current
          /\ \A u \in Threads : g.stat[u] = "suspend" <=>
                /\ s.stat[u] = "suspend"
                /\ \A i \in 1..(k - 1) : woken[i].thread # u
      BY <1>3
    <2>3. t \in Threads /\ g.stat[t] = "suspend"
      <3>1. \A i \in 1..(k - 1) : i \in 1..n /\ i # k
        OBVIOUS
      <3> QED BY <2>2, <3>1
    <2> HIDE DEF g, t, Good
    <2>4. /\ SchedOK(h) /\ h.current = g.current /\ h.locked = g.locked
          /\ \A u \in Threads : h.stat[u] = "suspend" <=>
                g.stat[u] = "suspend" /\ u # t
      BY <2>2, <2>3, InsertKeeps
    <2> HIDE DEF h
    <2>5. /\ SchedOK(r) /\ SameAsleep(h, r) /\ r.locked = h.locked
          /\ h.locked => r = h
          /\ ~h.locked => RightChoice(r)
      BY <2>4, RescheduleKeeps
    <2> HIDE DEF r
    <2>6. \A u \in Threads : r.stat[u] = "suspend" <=>
             /\ s.stat[u] = "suspend"
             /\ \A i \in 1..k : woken[i].thread # u
      <3>1. \A u : (\A i \in 1..k : woken[i].thread # u) <=>
                   (\A i \in 1..(k - 1) : woken[i].thread # u) /\ t # u
        BY DEF t
      <3>2. \A u \in Threads : r.stat[u] = "suspend" <=>
               g.stat[u] = "suspend" /\ u # t
        BY <2>4, <2>5 DEF SameAsleep
      <3> QED BY <2>2, <3>1, <3>2
    <2> QED BY <2>1, <2>2, <2>4, <2>5, <2>6 DEF Good
  <1>4. Bad = {}
    <2> SUFFICES ASSUME Bad # {} PROVE FALSE
      OBVIOUS
    <2> DEFINE m == Min(Bad)
    <2>1. n \in Nat /\ Bad \in SUBSET Nat
      OBVIOUS
    <2>2. m \in Bad /\ \A y \in Bad : m <= y
      <3> HIDE DEF Bad
      <3> QED BY <2>1, LeastPosition
    <2> HIDE DEF m, Good
    <2>3. m \in 0..n /\ m # 0
      BY <1>2, <2>2
    <2>4. m \in 1..n /\ m - 1 \in 0..n /\ ~(m <= m - 1)
      BY <2>1, <2>3
    <2>5. Good(m - 1)
      BY <2>2, <2>4
    <2> QED BY <1>3, <2>2, <2>4, <2>5
  <1>5. Good(n)
    <2> HIDE DEF Good
    <2>1. n \in 0..n
      OBVIOUS
    <2> QED BY <1>4, <2>1
  <1> QED BY <1>1, <1>5

-----------------------------------------------------------------------------
(* Ticks and the timer list.                                                *)

Running == [thread: Threads, timeout: 0..TickMax]

(* The ticks a timer of the list still has to run.                          *)
Left(i) == Minus(timers[i].timeout, tick)

(* The regions of a call before which the scheduler is locked.              *)
InLock == {"entered", "suspended", "timed"}

(* Only the current thread is in a critical section, and the scheduler is   *)
(* locked exactly then; the thread is suspended in the one state in which   *)
(* its timer is not in the list yet.                                        *)
InCall ==
    /\ \A t \in Threads : pc[t] \in InLock => t = sched.current
    /\ \A t \in Threads : pc[t] # "awake" => t # Idle
    /\ sched.locked <=> pc[sched.current] \in InLock
    /\ pc[sched.current] = "entered" => sched.stat[sched.current] = "running"
    /\ pc[sched.current] = "suspended" => sched.stat[sched.current] = "suspend"
    /\ \A t \in Threads :
          pc[t] \in {"entered", "suspended"} => init_tick[t] \in Durations

(* One timer for each thread whose delay runs, sorted by what is left.      *)
TimersOK ==
    /\ \A i, j \in DOMAIN timers : timers[i].thread = timers[j].thread => i = j
    /\ \A t \in Threads :
          (\E i \in DOMAIN timers : timers[i].thread = t) <=>
          sched.stat[t] = "suspend" /\ pc[t] # "suspended"
    /\ \A i \in DOMAIN timers : Left(i) \in 1..(HalfRange - 1)
    /\ \A i, j \in DOMAIN timers : i < j => Left(i) <= Left(j)

KernelInv == DelayTypeOK /\ SchedOK(sched) /\ InCall /\ TimersOK /\ HighestRuns

LEMMA HalfOfRange == HalfRange \in Nat /\ 2 * HalfRange <= TickMax
  BY DelayAssumption DEF HalfRange

(* The remainder of a division is known from any quotient.                  *)
LEMMA Remainder ==
    ASSUME NEW n \in Nat, n > 0, NEW a \in Int, NEW q \in Int,
           NEW r \in 0..(n - 1), a = q * n + r
    PROVE  a % n = r
  OBVIOUS

(* Ticks are subtracted on the circle.                                      *)
LEMMA MinusIs ==
    ASSUME NEW a \in 0..TickMax, NEW b \in 0..TickMax
    PROVE  Minus(a, b) = IF a >= b THEN a - b ELSE a - b + TickMax + 1
  <1> DEFINE n == TickMax + 1
  <1>1. n \in Nat /\ n > 0 /\ a - b \in Int /\ TickMax \in Nat
    BY DelayAssumption
  <1>2. CASE a >= b
    <2>1. a - b \in 0..(n - 1) /\ a - b = 0 * n + (a - b)
      BY <1>1, <1>2
    <2> HIDE DEF n
    <2>2. (a - b) % n = a - b
      BY <1>1, <2>1, Remainder
    <2> QED BY <1>2, <2>2 DEF Minus, n
  <1>3. CASE ~(a >= b)
    <2>1. a - b + n \in 0..(n - 1) /\ a - b = (-1) * n + (a - b + n)
      BY <1>1, <1>3
    <2> HIDE DEF n
    <2>2. (a - b) % n = a - b + n
      BY <1>1, <2>1, Remainder
    <2> QED BY <1>1, <1>3, <2>2 DEF Minus, n
  <1> QED BY <1>2, <1>3

LEMMA Ahead ==
    ASSUME NEW now \in 0..TickMax, NEW d \in 0..TickMax
    PROVE  (now + d) % (TickMax + 1) =
              IF now + d <= TickMax THEN now + d ELSE now + d - TickMax - 1
  <1> DEFINE n == TickMax + 1
  <1>1. n \in Nat /\ n > 0 /\ now + d \in Int /\ TickMax \in Nat
    BY DelayAssumption
  <1>2. CASE now + d <= TickMax
    <2>1. now + d \in 0..(n - 1) /\ now + d = 0 * n + (now + d)
      BY <1>1, <1>2
    <2> HIDE DEF n
    <2>2. (now + d) % n = now + d
      BY <1>1, <2>1, Remainder
    <2> QED BY <1>2, <2>2 DEF n
  <1>3. CASE ~(now + d <= TickMax)
    <2>1. now + d - n \in 0..(n - 1) /\ now + d = 1 * n + (now + d - n)
      BY <1>1, <1>3
    <2> HIDE DEF n
    <2>2. (now + d) % n = now + d - n
      BY <1>1, <2>1, Remainder
    <2> QED BY <1>1, <1>3, <2>2 DEF n
  <1> QED BY <1>2, <1>3

(* The next tick is due exactly for a timer with one tick left, and takes   *)
(* one from every other.                                                    *)
LEMMA NextTickTakesOne ==
    ASSUME NEW now \in 0..TickMax, NEW timeout \in 0..TickMax,
           Minus(timeout, now) \in 1..(HalfRange - 1)
    PROVE  LET next == (now + 1) % (TickMax + 1)
           IN  /\ Due(timeout, next) <=> Minus(timeout, now) = 1
               /\ Minus(timeout, next) = Minus(timeout, now) - 1
  <1> DEFINE next == (now + 1) % (TickMax + 1)
  <1>1. TickMax \in Nat /\ HalfRange \in Nat /\ 2 * HalfRange <= TickMax
    BY HalfOfRange, DelayAssumption
  <1>2. 1 \in 0..TickMax
    BY <1>1, MinusIs
  <1>3. next = IF now + 1 <= TickMax THEN now + 1 ELSE now + 1 - TickMax - 1
    BY <1>2, Ahead
  <1>4. next \in 0..TickMax
    BY <1>1, <1>3
  <1> HIDE DEF next
  <1>5. Minus(timeout, now) =
           IF timeout >= now THEN timeout - now ELSE timeout - now + TickMax + 1
    BY MinusIs
  <1>6. Minus(timeout, next) =
           IF timeout >= next THEN timeout - next
                              ELSE timeout - next + TickMax + 1
    BY <1>4, MinusIs
  <1>7. Minus(next, timeout) =
           IF next >= timeout THEN next - timeout
                              ELSE next - timeout + TickMax + 1
    BY <1>4, MinusIs
  <1>8. Minus(timeout, next) = Minus(timeout, now) - 1
    BY <1>1, <1>3, <1>5, <1>6
  <1>9. Minus(next, timeout) < HalfRange <=> Minus(timeout, now) = 1
    BY <1>1, <1>3, <1>5, <1>7
  <1> QED BY <1>8, <1>9 DEF Due, next

(* A timer set for d ticks has d ticks left, and the walk stops before the  *)
(* timers that have more.                                                   *)
LEMMA LaterIsLonger ==
    ASSUME NEW now \in 0..TickMax, NEW timeout \in 0..TickMax,
           Minus(timeout, now) \in 1..(HalfRange - 1),
           NEW d \in 1..(HalfRange - 1)
    PROVE  LET new == (now + d) % (TickMax + 1)
           IN  Later(timeout, new) <=> Minus(timeout, now) > d
  <1> DEFINE new == (now + d) % (TickMax + 1)
  <1>1. TickMax \in Nat /\ HalfRange \in Nat /\ 2 * HalfRange <= TickMax
    BY HalfOfRange, DelayAssumption
  <1>2. d \in 0..TickMax
    BY <1>1
  <1>3. new = IF now + d <= TickMax THEN now + d ELSE now + d - TickMax - 1
    BY <1>2, Ahead
  <1>4. new \in 0..TickMax
    BY <1>1, <1>3
  <1> HIDE DEF new
  <1>5. Minus(timeout, now) =
           IF timeout >= now THEN timeout - now ELSE timeout - now + TickMax + 1
    BY MinusIs
  <1>6. Minus(timeout, new) =
           IF timeout >= new THEN timeout - new ELSE timeout - new + TickMax + 1
    BY <1>4, MinusIs
  <1>7. Minus(timeout, new) \in 1..(HalfRange - 1) <=> Minus(timeout, now) > d
    BY <1>1, <1>3, <1>5, <1>6
  <1> QED BY <1>7 DEF Later, new

LEMMA NewTimerHasItsTicks ==
    ASSUME NEW now \in 0..TickMax, NEW d \in 1..(HalfRange - 1)
    PROVE  LET new == (now + d) % (TickMax + 1)
           IN  new \in 0..TickMax /\ Minus(new, now) = d
  <1> DEFINE new == (now + d) % (TickMax + 1)
  <1>1. TickMax \in Nat /\ HalfRange \in Nat /\ 2 * HalfRange <= TickMax
    BY HalfOfRange, DelayAssumption
  <1>2. d \in 0..TickMax
    BY <1>1
  <1>3. new = IF now + d <= TickMax THEN now + d ELSE now + d - TickMax - 1
    BY <1>2, Ahead
  <1>4. new \in 0..TickMax
    BY <1>1, <1>3
  <1> HIDE DEF new
  <1>5. Minus(new, now) =
           IF new >= now THEN new - now ELSE new - now + TickMax + 1
    BY <1>4, MinusIs
  <1> QED BY <1>1, <1>3, <1>4, <1>5 DEF new

(* Leading counts the places before the first stop.                         *)
LEMMA LeadingIs ==
    ASSUME Len(timers) \in Nat, NEW S \in SUBSET (1..Len(timers))
    PROVE  /\ Leading(S) \in 0..Len(timers)
           /\ \A i \in 1..Leading(S) : i \notin S
           /\ Leading(S) < Len(timers) => Leading(S) + 1 \in S
  <1> DEFINE P == S \cup {Len(timers) + 1}
  <1>1. P \in SUBSET Nat /\ P # {} /\ P \subseteq 1..(Len(timers) + 1)
    <2>1. \A x \in P : x \in Nat /\ x \in 1..(Len(timers) + 1)
      OBVIOUS
    <2>2. P # {}
      OBVIOUS
    <2> QED BY <2>1, <2>2
  <1>2. Min(P) \in P /\ \A y \in P : Min(P) <= y
    <2> HIDE DEF P
    <2> QED BY <1>1, LeastPosition
  <1> DEFINE m == Min(P)
  <1> HIDE DEF m
  <1>3. m \in P /\ (\A y \in P : m <= y) /\ Leading(S) = m - 1
    BY <1>2 DEF m, Leading
  <1> QED BY <1>1, <1>3

-----------------------------------------------------------------------------
(* The steps of the kernel.                                                 *)

(* The order of the ready threads at the start holds each of them once.     *)
LEMMA SetToSeqIs ==
    ASSUME NEW S, IsFiniteSet(S)
    PROVE  /\ SetToSeq(S) \in Seq(S) /\ Distinct(SetToSeq(S))
           /\ \A x : Holds(SetToSeq(S), x) <=> x \in S
  <1> DEFINE n == Cardinality(S)
             q == SetToSeq(S)
  <1>1. n \in Nat /\ ExistsBijection(1..n, S)
    BY FS_CardinalityType
  <1>2. \E f \in [1..n -> S] : IsInjective(f)
    BY <1>1 DEF ExistsBijection, Bijection, Injection
  <1>3. q \in [1..n -> S] /\ IsInjective(q)
    BY <1>2 DEF SetToSeq
  <1> HIDE DEF q, n
  <1>4. q \in Injection(1..n, S)
    BY <1>3 DEF Injection
  <1>5. Cardinality(1..n) = n
    BY <1>1, FS_Interval
  <1>6. q \in Surjection(1..n, S)
    BY <1>4, <1>5, FS_Injection DEF n
  <1>7. \A x \in S : \E i \in 1..n : q[i] = x
    BY <1>6 DEF Surjection
  <1>8. q \in Seq(S) /\ DOMAIN q = 1..n
    BY <1>1, <1>3
  <1> QED BY <1>3, <1>7, <1>8 DEF Distinct, Holds, IsInjective, q

(* The kernel starts in the invariant.                                      *)
LEMMA InitHolds == KernelInit => KernelInv
  <1> SUFFICES ASSUME KernelInit PROVE KernelInv
    OBVIOUS
  <1>1. /\ tick = 0 /\ timers = <<>> /\ init_tick = [t \in Threads |-> 0]
        /\ pc = [t \in Threads |-> "awake"]
    BY DEF KernelInit
  <1>2. PICK first \in Threads :
          /\ \A t \in Threads : Priority[first] <= Priority[t]
          /\ sched = [current |-> first, locked |-> FALSE, yielded |-> {},
                      ready |-> SetToSeq(Threads \ {first}),
                      stat |-> [t \in Threads |->
                                  IF t = first THEN "running" ELSE "ready"]]
    BY DEF KernelInit
  <1> DEFINE q == SetToSeq(Threads \ {first})
  <1>3. /\ q \in Seq(Threads \ {first}) /\ Distinct(q)
        /\ \A x : Holds(q, x) <=> x \in Threads \ {first}
    BY SetToSeqIs, FS_RemoveElement, DelayAssumption
  <1>4. q \in Seq(Threads)
    <2> HIDE DEF q
    <2> QED BY <1>3
  <1>5. /\ sched.current = first /\ sched.locked = FALSE
        /\ sched.ready = q /\ sched.yielded = {}
        /\ \A t \in Threads :
              sched.stat[t] = IF t = first THEN "running" ELSE "ready"
    BY <1>2
  <1>6. sched \in Scheduler
    <2> DEFINE st == [t \in Threads |->
                        IF t = first THEN "running" ELSE "ready"]
    <2>1. st \in [Threads -> Stats]
      BY DEF Stats
    <2> HIDE DEF st
    <2>2. sched = [current |-> first, locked |-> FALSE, yielded |-> {},
                   ready |-> q, stat |-> st]
      BY <1>2 DEF st
    <2> HIDE DEF q
    <2> QED BY <1>4, <2>1, <2>2 DEF Scheduler
  <1> HIDE DEF q
  <1>7. SchedOK(sched)
    BY <1>3, <1>5, <1>6, DelayAssumption DEF SchedOK
  <1>8. DelayTypeOK
    <2>1. tick \in 0..TickMax
      BY <1>1, DelayAssumption
    <2>2. timers \in Seq([thread: Threads, timeout: 0..TickMax])
      BY <1>1, EmptySeq
    <2>3. init_tick \in [Threads -> Durations \cup {0}]
      BY <1>1
    <2>4. pc \in [Threads -> {"awake", "entered", "suspended", "timed",
                              "unlocked"}]
      BY <1>1
    <2> QED BY <1>6, <2>1, <2>2, <2>3, <2>4 DEF DelayTypeOK, Scheduler, Stats
  <1>9. InCall
    BY <1>1, <1>5 DEF InCall, InLock
  <1>10. TimersOK
    BY <1>1, <1>5 DEF TimersOK
  <1>11. HighestRuns
    BY <1>2, <1>3, <1>5 DEF HighestRuns, ToSet, Holds
  <1> QED BY <1>7, <1>8, <1>9, <1>10, <1>11 DEF KernelInv

(* The types in the invariant, in the form the steps use.     *)
LEMMA Types ==
    ASSUME KernelInv
    PROVE  /\ tick \in 0..TickMax
           /\ timers \in Seq(Running) /\ Len(timers) \in Nat
           /\ DOMAIN timers = 1..Len(timers)
           /\ \A i \in 1..Len(timers) : /\ timers[i].thread \in Threads
                                        /\ timers[i].timeout \in 0..TickMax
           /\ init_tick \in [Threads -> Durations \cup {0}]
           /\ sched \in Scheduler /\ sched.current \in Threads
           /\ pc \in [Threads -> {"awake", "entered", "suspended", "timed",
                                  "unlocked"}]
  <1>1. /\ tick \in 0..TickMax /\ timers \in Seq(Running)
        /\ init_tick \in [Threads -> Durations \cup {0}]
        /\ pc \in [Threads -> {"awake", "entered", "suspended", "timed",
                               "unlocked"}]
    BY DEF KernelInv, DelayTypeOK, Running
  <1>2. sched \in Scheduler
    BY DEF KernelInv, SchedOK
  <1>3. sched.current \in Threads
    BY <1>2 DEF Scheduler
  <1>4. \A i \in 1..Len(timers) : timers[i] \in Running
    BY <1>1
  <1> QED BY <1>1, <1>2, <1>3, <1>4 DEF Running

(* HighestRuns of a scheduler whose records agree.                          *)
LEMMA ChoiceIsHighest ==
    ASSUME NEW s, SchedOK(s), ~s.locked => RightChoice(s)
    PROVE  ~s.locked =>
              /\ s.stat[s.current] = "running"
              /\ \A t \in Threads : s.stat[t] = "ready" =>
                    t \in ToSet(s.ready) /\ Priority[s.current] <= Priority[t]
  BY DEF SchedOK, Holds, ToSet, RightChoice

(* One lemma for each region of a call; beside the invariant each says what *)
(* the refinement needs of its step.                                        *)
LEMMA EnterKeeps ==
    ASSUME KernelInv, NEW t \in Threads \ {Idle}, NEW d \in Durations,
           EnterCritical(t, d)
    PROVE  KernelInv' /\ UNCHANGED timers /\ sched'.stat = sched.stat
  <1>1. /\ t = sched.current /\ pc[t] = "awake"
        /\ pc' = [pc EXCEPT ![t] = "entered"]
        /\ sched' = [sched EXCEPT !.locked = TRUE]
        /\ init_tick' = [init_tick EXCEPT ![t] = d]
        /\ tick' = tick /\ timers' = timers
    BY DEF EnterCritical, Goes
  <1>2. sched \in Scheduler
    BY Types
  <1>3. /\ sched' \in Scheduler /\ sched'.current = sched.current
        /\ sched'.locked = TRUE /\ sched'.ready = sched.ready
        /\ sched'.stat = sched.stat
    BY <1>1, <1>2 DEF Scheduler
  <1>4. SchedOK(sched)
    BY DEF KernelInv
  <1>5. SchedOK(sched')
    BY <1>3, <1>4 DEF SchedOK
  <1>6. DelayTypeOK'
    <2>1. /\ init_tick' \in [Threads -> Durations \cup {0}]
          /\ pc' \in [Threads -> {"awake", "entered", "suspended", "timed",
                                  "unlocked"}]
          /\ tick' \in 0..TickMax /\ timers' \in Seq(Running)
      BY <1>1, Types
    <2> QED BY <1>5, <2>1 DEF DelayTypeOK, Running, SchedOK, Scheduler, Stats
  <1>7. InCall
    BY DEF KernelInv
  <1>8. \A u \in Threads : /\ pc'[u] = IF u = t THEN "entered" ELSE pc[u]
                           /\ init_tick'[u] = IF u = t THEN d ELSE init_tick[u]
    BY <1>1, Types
  <1>9. sched.stat[t] = "running"
    <2>1. ~sched.locked
      BY <1>1, <1>7 DEF InCall, InLock
    <2> QED BY <1>1, <2>1 DEF KernelInv, HighestRuns, GivingWay
  <1>10. InCall'
    BY <1>1, <1>3, <1>7, <1>8, <1>9 DEF InCall, InLock
  <1>11. TimersOK'
    <2>1. TimersOK
      BY DEF KernelInv
    <2> QED BY <1>1, <1>3, <1>8, <2>1 DEF TimersOK, Left
  <1>12. HighestRuns'
    BY <1>3 DEF HighestRuns
  <1> QED BY <1>1, <1>3, <1>5, <1>6, <1>10, <1>11, <1>12 DEF KernelInv

LEMMA SuspendKeeps ==
    ASSUME KernelInv, NEW t \in Threads \ {Idle}, Suspend(t)
    PROVE  /\ KernelInv' /\ UNCHANGED <<tick, timers>>
           /\ \A u \in Threads : sched'.stat[u] =
                 IF u = t THEN "suspend" ELSE sched.stat[u]
           /\ sched.stat[t] = "running"
  <1>1. /\ t = sched.current /\ pc[t] = "entered"
        /\ pc' = [pc EXCEPT ![t] = "suspended"]
        /\ sched' = [sched EXCEPT !.stat[t] = "suspend"]
        /\ tick' = tick /\ timers' = timers /\ init_tick' = init_tick
    BY DEF Suspend, Goes
  <1>2. sched \in Scheduler /\ SchedOK(sched) /\ InCall /\ TimersOK
    BY Types DEF KernelInv
  <1>3. sched' = Marked(sched, t, "suspend", sched.ready)
    BY <1>1, <1>2 DEF Marked, Scheduler
  <1>4. sched.ready \in Seq(Threads) /\ "suspend" \in Stats
    BY <1>2 DEF Scheduler, Stats
  <1>5. /\ sched' \in Scheduler /\ sched'.current = sched.current
        /\ sched'.locked = sched.locked /\ sched'.ready = sched.ready
        /\ \A u \in Threads : sched'.stat[u] =
              IF u = t THEN "suspend" ELSE sched.stat[u]
    BY <1>2, <1>3, <1>4, MarkedFields
  <1>6. sched.stat[t] = "running"
    BY <1>1, <1>2 DEF InCall
  <1>7. SchedOK(sched')
    BY <1>1, <1>2, <1>5, <1>6 DEF SchedOK
  <1>8. \A u \in Threads : pc'[u] = IF u = t THEN "suspended" ELSE pc[u]
    BY <1>1, Types
  <1>9. DelayTypeOK'
    <2>1. /\ init_tick' \in [Threads -> Durations \cup {0}]
          /\ pc' \in [Threads -> {"awake", "entered", "suspended", "timed",
                                  "unlocked"}]
          /\ tick' \in 0..TickMax /\ timers' \in Seq(Running)
      BY <1>1, Types
    <2> QED BY <1>7, <2>1 DEF DelayTypeOK, Running, SchedOK, Scheduler, Stats
  <1>10. InCall'
    BY <1>1, <1>2, <1>5, <1>8 DEF InCall, InLock
  <1>11. TimersOK'
    <2>1. \A u \in Threads :
             sched'.stat[u] = "suspend" /\ pc'[u] # "suspended" <=>
             sched.stat[u] = "suspend" /\ pc[u] # "suspended"
      BY <1>1, <1>2, <1>5, <1>6, <1>8 DEF InCall
    <2> QED BY <1>1, <1>2, <2>1 DEF TimersOK, Left
  <1>12. HighestRuns'
    BY <1>1, <1>2, <1>5 DEF HighestRuns, InCall, InLock
  <1> QED BY <1>1, <1>5, <1>6, <1>7, <1>9, <1>10, <1>11, <1>12 DEF KernelInv

LEMMA StartKeeps ==
    ASSUME KernelInv, NEW t \in Threads \ {Idle}, StartTimer(t)
    PROVE  /\ KernelInv' /\ UNCHANGED <<tick, sched>>
           /\ init_tick[t] \in Durations
           /\ sched.stat[t] = "suspend"
           /\ \A i \in DOMAIN timers : timers[i].thread # t
           /\ \E p \in DOMAIN timers' :
                 /\ timers'[p].thread = t
                 /\ Minus(timers'[p].timeout, tick) = init_tick[t]
                 /\ \A k \in DOMAIN timers' \ {p} :
                       \E i \in DOMAIN timers : timers'[k] = timers[i]
           /\ \A i \in DOMAIN timers :
                 \E k \in DOMAIN timers' : timers'[k] = timers[i]
  <1> DEFINE d == init_tick[t]
             new == (tick + d) % (TickMax + 1)
             S == {i \in DOMAIN timers : Later(timers[i].timeout, new)}
             p == Leading(S) + 1
             e == [thread |-> t, timeout |-> new]
             n == Len(timers)
  <1>1. /\ t = sched.current /\ pc[t] = "suspended"
        /\ pc' = [pc EXCEPT ![t] = "timed"]
        /\ timers' = InsertAt(timers, p, e)
        /\ init_tick' = [init_tick EXCEPT ![t] = 0]
        /\ tick' = tick /\ sched' = sched
    BY DEF StartTimer, Goes
  <1>2. SchedOK(sched) /\ InCall /\ TimersOK /\ HighestRuns
    BY DEF KernelInv
  <1>3. d \in Durations /\ sched.stat[t] = "suspend" /\ sched.locked
    BY <1>1, <1>2 DEF InCall, InLock
  <1>4. d \in 1..(HalfRange - 1) /\ HalfRange \in Nat
    BY <1>3, HalfOfRange, DelayAssumption
  <1>5. new \in 0..TickMax /\ Minus(new, tick) = d
    BY <1>4, Types, NewTimerHasItsTicks
  <1>6. \A i \in 1..n : /\ Left(i) \in 1..(HalfRange - 1)
                        /\ Later(timers[i].timeout, new) <=> Left(i) > d
    <2>1. \A i \in 1..n : Left(i) \in 1..(HalfRange - 1)
      BY <1>2, Types DEF TimersOK
    <2> SUFFICES ASSUME NEW i \in 1..n
                 PROVE  Later(timers[i].timeout, new) <=> Left(i) > d
      BY <2>1
    <2>2. /\ tick \in 0..TickMax /\ timers[i].timeout \in 0..TickMax
          /\ Minus(timers[i].timeout, tick) \in 1..(HalfRange - 1)
      BY <2>1, Types DEF Left
    <2> QED BY <1>4, <2>2, LaterIsLonger DEF Left
  <1>7. n \in Nat /\ p \in 1..(n + 1)
        /\ (\A i \in 1..n : i < p => Left(i) <= d)
        /\ (\A i \in 1..n : i >= p => Left(i) > d)
    <2>1. S \in SUBSET (1..n) /\ n \in Nat /\ DOMAIN timers = 1..n
      BY Types
    <2>2. /\ Leading(S) \in 0..n
          /\ \A i \in 1..Leading(S) : i \notin S
          /\ Leading(S) < n => Leading(S) + 1 \in S
      <3> HIDE DEF S
      <3> QED BY <2>1, LeadingIs
    <2>3. \A i \in 1..n : i \in S <=> Left(i) > d
      BY <1>6, <2>1
    <2> DEFINE l == Leading(S)
    <2> HIDE DEF S, l, new, d, n
    <2>4. p = l + 1 /\ l \in 0..n
      BY <2>2 DEF l
    <2>5. \A i \in 1..n : i < p => Left(i) <= d
      <3> SUFFICES ASSUME NEW i \in 1..n, i < p PROVE Left(i) <= d
        OBVIOUS
      <3>1. i \in 1..l
        BY <2>4
      <3>2. i \notin S
        BY <2>2, <3>1 DEF l
      <3>3. Left(i) \in Nat /\ d \in Nat
        BY <1>4, <1>6 DEF n
      <3> QED BY <2>3, <3>2, <3>3
    <2>6. \A i \in 1..n : i >= p => Left(i) > d
      <3> SUFFICES ASSUME NEW i \in 1..n, i >= p PROVE Left(i) > d
        OBVIOUS
      <3>1. l < n /\ l + 1 \in 1..n
        BY <2>1, <2>4 DEF n
      <3>2. Left(l + 1) > d
        BY <2>2, <2>3, <3>1 DEF l
      <3>3. /\ Left(i) \in Nat /\ Left(l + 1) \in Nat /\ d \in Nat
        BY <1>4, <1>6, <3>1 DEF n
      <3>4. i = l + 1 \/ l + 1 < i
        BY <2>4
      <3>5. l + 1 < i => Left(l + 1) <= Left(i)
        BY <1>2, <2>1, <3>1 DEF TimersOK, n
      <3> QED BY <3>2, <3>3, <3>4, <3>5
    <2>7. p \in 1..(n + 1)
      BY <2>1, <2>4 DEF n
    <2> QED BY <2>1, <2>5, <2>6, <2>7 DEF n
  <1>8. e \in Running /\ timers \in Seq(Running)
    BY <1>5, Types DEF Running
  <1> HIDE DEF p, new, d, S
  <1>9. /\ timers' \in Seq(Running) /\ DOMAIN timers' = 1..(n + 1)
        /\ Len(timers') = n + 1
        /\ \A k \in 1..(n + 1) : timers'[k] =
              IF k < p THEN timers[k] ELSE IF k = p THEN e ELSE timers[k - 1]
    <2> HIDE DEF e
    <2>1. /\ timers' \in Seq(Running) /\ Len(timers') = n + 1
          /\ \A k \in 1..(n + 1) : timers'[k] =
                IF k < p THEN timers[k] ELSE IF k = p THEN e ELSE timers[k - 1]
      <3> DEFINE q == InsertAt(timers, p, e)
      <3>1. /\ q \in Seq(Running) /\ Len(q) = n + 1
            /\ \A k \in 1..(n + 1) : q[k] =
                  IF k < p THEN timers[k]
                  ELSE IF k = p THEN e ELSE timers[k - 1]
        <4>1. /\ timers \in Seq(Running) /\ e \in Running
              /\ p \in 1..(Len(timers) + 1)
          BY <1>7, <1>8
        <4>2. q \in Seq(Running) /\ Len(q) = Len(timers) + 1
          BY <4>1, InsertAtEffect
        <4>3. \A k \in 1..(Len(timers) + 1) : q[k] =
                IF k < p THEN timers[k] ELSE IF k = p THEN e ELSE timers[k - 1]
          BY <4>1, InsertAtEffect
        <4> QED BY <4>2, <4>3
      <3> HIDE DEF q
      <3> QED BY <1>1, <3>1 DEF q
    <2> QED BY <2>1
  <1>10. \A u \in Threads : pc'[u] = IF u = t THEN "timed" ELSE pc[u]
    BY <1>1, Types
  <1>11. InCall'
    BY <1>1, <1>2, <1>10, Types DEF InCall, InLock
  <1>12. \A i \in 1..n : timers[i].thread # t
    BY <1>1, <1>2, Types DEF TimersOK
  <1> DEFINE from(k) == IF k < p THEN k ELSE k - 1
             to(i) == IF i < p THEN i ELSE i + 1
  <1>13. \A k \in 1..(n + 1) : k # p =>
            from(k) \in 1..n /\ timers'[k] = timers[from(k)]
    BY <1>7, <1>9
  <1>14. \A i \in 1..n : to(i) \in 1..(n + 1) /\ timers'[to(i)] = timers[i]
    BY <1>7, <1>9
  <1>15. p \in 1..(n + 1) /\ timers'[p] = e /\ e.thread = t /\ e.timeout = new
    BY <1>7, <1>9
  <1> DEFINE left(k) == Minus(timers'[k].timeout, tick)
  <1>16. left(p) = d
    BY <1>5, <1>15
  <1>17. \A k \in 1..(n + 1) : k # p => left(k) = Left(from(k))
    BY <1>13 DEF Left
  <1>18. TimersOK'
    <2>1. ASSUME NEW i \in 1..(n + 1), NEW j \in 1..(n + 1),
                 timers'[i].thread = timers'[j].thread
          PROVE  i = j
      <3>1. CASE i = p \/ j = p
        <4> HIDE DEF from
        <4> QED BY <1>12, <1>13, <1>15, <2>1, <3>1
      <3>2. CASE i # p /\ j # p
        <4>1. from(i) = from(j)
          <5> HIDE DEF from
          <5> QED BY <1>2, <1>13, <2>1, <3>2, Types DEF TimersOK
        <4> QED BY <1>7, <3>2, <4>1
      <3> QED BY <3>1, <3>2
    <2>2. ASSUME NEW u \in Threads
          PROVE  (\E k \in 1..(n + 1) : timers'[k].thread = u) <=>
                 sched'.stat[u] = "suspend" /\ pc'[u] # "suspended"
      <3>1. CASE u = t
        BY <1>1, <1>3, <1>10, <1>15, <3>1
      <3>2. CASE u # t
        <4> HIDE DEF from, to
        <4>1. (\E k \in 1..(n + 1) : timers'[k].thread = u) <=>
              (\E i \in 1..n : timers[i].thread = u)
          BY <1>13, <1>14, <1>15, <3>2
        <4>2. (\E i \in 1..n : timers[i].thread = u) <=>
              sched.stat[u] = "suspend" /\ pc[u] # "suspended"
          BY <1>2, Types DEF TimersOK
        <4> QED BY <1>1, <1>10, <3>2, <4>1, <4>2
      <3> QED BY <3>1, <3>2
    <2>3. ASSUME NEW k \in 1..(n + 1)
          PROVE  left(k) \in 1..(HalfRange - 1)
      <3> HIDE DEF from, left
      <3> QED BY <1>4, <1>6, <1>13, <1>16, <1>17
    <2>4. ASSUME NEW i \in 1..(n + 1), NEW j \in 1..(n + 1), i < j
          PROVE  left(i) <= left(j)
      <3> HIDE DEF left
      <3>1. CASE i = p
        <4>1. from(j) \in 1..n /\ from(j) >= p /\ j # p
          BY <1>7, <2>4, <3>1
        <4> HIDE DEF from
        <4>2. Left(from(j)) \in Nat /\ d \in Nat
          BY <1>4, <1>6, <4>1
        <4> QED BY <1>7, <1>16, <1>17, <3>1, <4>1, <4>2
      <3>2. CASE j = p
        <4>1. from(i) \in 1..n /\ from(i) < p /\ i # p
          BY <1>7, <2>4, <3>2
        <4> HIDE DEF from
        <4> QED BY <1>7, <1>16, <1>17, <3>2, <4>1
      <3>3. CASE i # p /\ j # p
        <4>1. from(i) \in 1..n /\ from(j) \in 1..n /\ from(i) < from(j)
          BY <1>7, <2>4, <3>3
        <4> HIDE DEF from
        <4> QED BY <1>2, <1>17, <3>3, <4>1, Types DEF TimersOK
      <3> QED BY <3>1, <3>2, <3>3
    <2>5. \A k : Left(k)' = left(k)
      BY <1>1 DEF Left
    <2> HIDE DEF left
    <2> QED BY <1>9, <2>1, <2>2, <2>3, <2>4, <2>5 DEF TimersOK
  <1>19. DelayTypeOK'
    <2>1. /\ init_tick' \in [Threads -> Durations \cup {0}]
          /\ pc' \in [Threads -> {"awake", "entered", "suspended", "timed",
                                  "unlocked"}]
          /\ tick' \in 0..TickMax
      BY <1>1, Types
    <2> QED BY <1>1, <1>2, <1>9, <2>1
            DEF DelayTypeOK, Running, SchedOK, Scheduler, Stats
  <1>20. HighestRuns'
    BY <1>1, <1>3 DEF HighestRuns
  <1>21. KernelInv'
    BY <1>1, <1>2, <1>11, <1>18, <1>19, <1>20 DEF KernelInv
  <1>22. \A k \in (1..(n + 1)) \ {p} : \E i \in 1..n : timers'[k] = timers[i]
    <2> HIDE DEF from
    <2> QED BY <1>13
  <1>23. \A i \in 1..n : \E k \in 1..(n + 1) : timers'[k] = timers[i]
    <2> HIDE DEF to
    <2> QED BY <1>14
  <1>24. DOMAIN timers = 1..n
    BY Types
  <1>25. /\ p \in DOMAIN timers' /\ timers'[p].thread = t
         /\ Minus(timers'[p].timeout, tick) = init_tick[t]
         /\ \A k \in DOMAIN timers' \ {p} :
               \E i \in DOMAIN timers : timers'[k] = timers[i]
    <2> HIDE DEF e, n
    <2> QED BY <1>9, <1>15, <1>16, <1>22, <1>24 DEF d
  <1>26. \A i \in DOMAIN timers : /\ timers[i].thread # t
            /\ \E k \in DOMAIN timers' : timers'[k] = timers[i]
    <2> HIDE DEF e, n
    <2> QED BY <1>9, <1>12, <1>23, <1>24
  <1> QED BY <1>1, <1>3, <1>21, <1>25, <1>26 DEF d

LEMMA ExitKeeps ==
    ASSUME KernelInv, NEW t \in Threads \ {Idle}, ExitCritical(t)
    PROVE  KernelInv' /\ UNCHANGED <<tick, timers>> /\ SameAsleep(sched, sched')
  <1>1. /\ t = sched.current /\ pc[t] = "timed"
        /\ pc' = [pc EXCEPT ![t] = "unlocked"]
        /\ sched' = [sched EXCEPT !.locked = FALSE]
        /\ tick' = tick /\ timers' = timers /\ init_tick' = init_tick
    BY DEF ExitCritical, Goes
  <1>2. sched \in Scheduler /\ SchedOK(sched) /\ InCall /\ TimersOK
    BY Types DEF KernelInv
  <1>3. /\ sched' \in Scheduler /\ sched'.current = sched.current
        /\ sched'.locked = FALSE /\ sched'.ready = sched.ready
        /\ sched'.stat = sched.stat
    BY <1>1, <1>2 DEF Scheduler
  <1>4. SchedOK(sched') /\ SameAsleep(sched, sched')
    BY <1>2, <1>3 DEF SchedOK, SameAsleep
  <1>5. \A u \in Threads : pc'[u] = IF u = t THEN "unlocked" ELSE pc[u]
    BY <1>1, Types
  <1>6. InCall'
    BY <1>1, <1>2, <1>3, <1>5 DEF InCall, InLock
  <1>7. TimersOK'
    <2>1. \A u \in Threads :
             sched'.stat[u] = "suspend" /\ pc'[u] # "suspended" <=>
             sched.stat[u] = "suspend" /\ pc[u] # "suspended"
      BY <1>1, <1>3, <1>5
    <2> QED BY <1>1, <1>2, <2>1 DEF TimersOK, Left
  <1>8. DelayTypeOK'
    <2>1. /\ init_tick' \in [Threads -> Durations \cup {0}]
          /\ pc' \in [Threads -> {"awake", "entered", "suspended", "timed",
                                 "unlocked"}]
          /\ tick' \in 0..TickMax /\ timers' \in Seq(Running)
      BY <1>1, Types
    <2> QED BY <1>4, <2>1 DEF DelayTypeOK, Running, SchedOK, Scheduler, Stats
  <1>9. HighestRuns'
    BY <1>1, <1>3, <1>5 DEF HighestRuns, GivingWay
  <1> QED BY <1>1, <1>4, <1>6, <1>7, <1>8, <1>9 DEF KernelInv

LEMMA GiveWayKeeps ==
    ASSUME KernelInv, NEW t \in Threads \ {Idle}, GiveWay(t)
    PROVE  KernelInv' /\ UNCHANGED <<tick, timers>> /\ SameAsleep(sched, sched')
  <1>1. /\ t = sched.current /\ pc[t] = "unlocked"
        /\ pc' = [pc EXCEPT ![t] = "awake"]
        /\ sched' = Reschedule(sched)
        /\ tick' = tick /\ timers' = timers /\ init_tick' = init_tick
    BY DEF GiveWay, Goes
  <1>2. sched \in Scheduler /\ SchedOK(sched) /\ InCall /\ TimersOK
    BY Types DEF KernelInv
  <1>3. ~sched.locked
    BY <1>1, <1>2 DEF InCall, InLock
  <1>4. /\ SchedOK(sched') /\ SameAsleep(sched, sched')
        /\ ~sched'.locked /\ RightChoice(sched')
    BY <1>1, <1>2, <1>3, RescheduleKeeps
  <1>5. \A u \in Threads : pc[u] \notin InLock
    BY <1>1, <1>2 DEF InCall, InLock
  <1>6. \A u \in Threads : pc'[u] = IF u = t THEN "awake" ELSE pc[u]
    BY <1>1, Types
  <1>7. sched'.current \in Threads
    BY <1>4 DEF SchedOK, Scheduler
  <1>8. InCall'
    BY <1>1, <1>2, <1>4, <1>5, <1>6, <1>7 DEF InCall, InLock
  <1>9. TimersOK'
    <2>1. \A u \in Threads :
             sched'.stat[u] = "suspend" /\ pc'[u] # "suspended" <=>
             sched.stat[u] = "suspend" /\ pc[u] # "suspended"
      BY <1>1, <1>4, <1>6 DEF SameAsleep
    <2> QED BY <1>1, <1>2, <2>1 DEF TimersOK, Left
  <1>10. DelayTypeOK'
    <2>1. /\ init_tick' \in [Threads -> Durations \cup {0}]
          /\ pc' \in [Threads -> {"awake", "entered", "suspended", "timed",
                                 "unlocked"}]
          /\ tick' \in 0..TickMax /\ timers' \in Seq(Running)
      BY <1>1, Types
    <2> QED BY <1>4, <2>1 DEF DelayTypeOK, Running, SchedOK, Scheduler, Stats
  <1>11. HighestRuns'
    BY <1>4, ChoiceIsHighest DEF HighestRuns
  <1> QED BY <1>1, <1>4, <1>8, <1>9, <1>10, <1>11 DEF KernelInv

(* The end of a time slice.                                                 *)
LEMMA SlicedIs ==
    ASSUME KernelInv,
           NEW s, \/ s = sched
                  \/ s = Reschedule([sched EXCEPT
                                        !.yielded = @ \cup {sched.current}])
    PROVE  /\ SchedOK(s) /\ SameAsleep(sched, s) /\ s.locked = sched.locked
           /\ sched.locked => s.current = sched.current
           /\ ~s.locked => s = sched \/ RightChoice(s)
  <1>1. sched \in Scheduler /\ SchedOK(sched)
    BY Types DEF KernelInv
  <1>2. CASE s = sched
    BY <1>1, <1>2 DEF SameAsleep
  <1>3. CASE s = Reschedule([sched EXCEPT !.yielded = @ \cup {sched.current}])
    <2> DEFINE y == [sched EXCEPT !.yielded = @ \cup {sched.current}]
    <2>1. /\ y \in Scheduler /\ y.current = sched.current
          /\ y.locked = sched.locked /\ y.ready = sched.ready
          /\ y.stat = sched.stat
      BY <1>1 DEF Scheduler
    <2>2. s = Reschedule(y)
      BY <1>3
    <2> HIDE DEF y
    <2>3. SchedOK(y)
      BY <1>1, <2>1 DEF SchedOK
    <2>4. /\ SchedOK(s) /\ SameAsleep(y, s) /\ s.locked = y.locked
          /\ y.locked => s = y
          /\ ~y.locked => RightChoice(s)
      BY <2>2, <2>3, RescheduleKeeps
    <2> QED BY <2>1, <2>4 DEF SameAsleep
  <1> QED BY <1>2, <1>3

(* The tick interrupt takes one tick from each timer, wakes exactly the     *)
(* threads whose timer had one left, and drops these timers.                *)
LEMMA TickKeeps ==
    ASSUME KernelInv, SysTick
    PROVE  /\ KernelInv'
           /\ \A k \in DOMAIN timers' : \E i \in DOMAIN timers :
                 /\ timers[i].thread = timers'[k].thread /\ Left(i) # 1
                 /\ Minus(timers'[k].timeout, tick') = Left(i) - 1
           /\ \A i \in DOMAIN timers : Left(i) # 1 =>
                 \E k \in DOMAIN timers' : timers'[k].thread = timers[i].thread
           /\ \A t \in Threads : sched'.stat[t] = "suspend" <=>
                 /\ sched.stat[t] = "suspend"
                 /\ \A i \in DOMAIN timers :
                       timers[i].thread = t => Left(i) # 1
  <1> DEFINE N == Len(timers)
             S == {i \in DOMAIN timers : ~Due(timers[i].timeout, tick')}
             n == Leading(S)
             woken == SubSeq(timers, 1, n)
  <1>1. /\ tick' = (tick + 1) % (TickMax + 1)
        /\ timers' = SubSeq(timers, n + 1, N)
        /\ init_tick' = init_tick /\ pc' = pc
    BY DEF SysTick, NextTick
  <1>2. PICK sliced :
          /\ \/ sliced = sched
             \/ sliced = Reschedule([sched EXCEPT
                                        !.yielded = @ \cup {sched.current}])
          /\ sched' = Resumed(sliced, woken)
    BY DEF SysTick
  <1>3. SchedOK(sched) /\ InCall /\ TimersOK /\ sched.current \in Threads
    BY Types DEF KernelInv
  <1>4. /\ SchedOK(sliced) /\ SameAsleep(sched, sliced)
        /\ sliced.locked = sched.locked
        /\ sched.locked => sliced.current = sched.current
        /\ ~sliced.locked => sliced = sched \/ RightChoice(sliced)
    BY <1>2, SlicedIs
  <1>5. \A i \in 1..N : Left(i) \in 1..(HalfRange - 1)
    BY <1>3, Types DEF TimersOK
  <1>6. ASSUME NEW i \in 1..N
        PROVE  /\ Due(timers[i].timeout, tick') <=> Left(i) = 1
               /\ Minus(timers[i].timeout, tick') = Left(i) - 1
    <2>1. /\ tick \in 0..TickMax /\ timers[i].timeout \in 0..TickMax
          /\ Minus(timers[i].timeout, tick) \in 1..(HalfRange - 1)
      BY <1>5, Types DEF Left
    <2> QED BY <1>1, <2>1, NextTickTakesOne DEF Left
  <1>7. N \in Nat /\ DOMAIN timers = 1..N /\ timers \in Seq(Running)
    BY Types
  <1>8. /\ n \in 0..N
        /\ \A i \in 1..n : Left(i) = 1
        /\ \A i \in (n + 1)..N : Left(i) > 1
    <2>1. S \in SUBSET (1..N)
      BY <1>7
    <2>2. /\ n \in 0..N /\ (\A i \in 1..n : i \notin S)
          /\ n < N => n + 1 \in S
      <3> HIDE DEF S
      <3> QED BY <1>7, <2>1, LeadingIs
    <2>3. \A i \in 1..N : i \notin S <=> Left(i) = 1
      BY <1>6, <1>7
    <2> HIDE DEF n, S, N
    <2>4. \A i \in 1..n : Left(i) = 1
      BY <1>7, <2>2, <2>3
    <2>5. ASSUME NEW i \in (n + 1)..N
          PROVE  Left(i) > 1
      <3>1. n + 1 \in 1..N /\ i \in 1..N /\ n < N
        BY <1>7, <2>2
      <3>2. Left(n + 1) > 1 /\ HalfRange \in Nat
        BY <1>5, <2>2, <2>3, <3>1, HalfOfRange
      <3>3. i = n + 1 \/ Left(n + 1) <= Left(i)
        BY <1>3, <1>7, <3>1 DEF TimersOK
      <3>4. Left(i) \in Nat /\ Left(n + 1) \in Nat
        BY <1>5, <3>1, HalfOfRange
      <3> QED BY <3>2, <3>3, <3>4
    <2> QED BY <2>2, <2>4, <2>5
  <1> HIDE DEF n, S
  <1>9. /\ Len(woken) = n /\ \A i \in 1..n : woken[i] = timers[i]
    BY <1>7, <1>8
  <1>10. /\ timers' \in Seq(Running) /\ DOMAIN timers' = 1..(N - n)
         /\ \A k \in 1..(N - n) : /\ n + k \in (n + 1)..N /\ n + k \in 1..N
                                  /\ timers'[k] = timers[n + k]
    BY <1>1, <1>7, <1>8
  <1> HIDE DEF woken, N
  <1>11. \A i \in 1..n : i \in 1..N /\ timers[i].thread \in Threads
    BY <1>7, <1>8, Types DEF N
  <1>12. \A i \in 1..N : /\ sched.stat[timers[i].thread] = "suspend"
                         /\ pc[timers[i].thread] # "suspended"
                         /\ timers[i].thread \in Threads
    BY <1>3, <1>7, Types DEF TimersOK, N
  <1>13. /\ SchedOK(sched') /\ sched'.locked = sliced.locked
         /\ sliced.locked => sched'.current = sliced.current
         /\ ~sched'.locked => sched' = sliced \/ RightChoice(sched')
         /\ \A t \in Threads : sched'.stat[t] = "suspend" <=>
               /\ sliced.stat[t] = "suspend"
               /\ \A i \in 1..n : woken[i].thread # t
    <2>1. \A i \in 1..n : /\ woken[i].thread \in Threads
                          /\ sliced.stat[woken[i].thread] = "suspend"
      BY <1>4, <1>9, <1>11, <1>12 DEF SameAsleep
    <2>2. \A i, j \in 1..n : woken[i].thread = woken[j].thread => i = j
      BY <1>3, <1>7, <1>9, <1>11 DEF TimersOK
    <2>3. Len(woken) \in Nat
      BY <1>8, <1>9
    <2>4. /\ \A i \in 1..Len(woken) :
                /\ woken[i].thread \in Threads
                /\ sliced.stat[woken[i].thread] = "suspend"
          /\ \A i, j \in 1..Len(woken) :
                woken[i].thread = woken[j].thread => i = j
      BY <1>9, <2>1, <2>2
    <2> DEFINE r == Resumed(sliced, woken)
    <2>5. /\ SchedOK(r) /\ r.locked = sliced.locked
          /\ sliced.locked => r.current = sliced.current
          /\ ~r.locked => r = sliced \/ RightChoice(r)
          /\ \A t \in Threads : r.stat[t] = "suspend" <=>
                /\ sliced.stat[t] = "suspend"
                /\ \A i \in 1..Len(woken) : woken[i].thread # t
      BY <1>4, <2>3, <2>4, ResumedKeeps
    <2> HIDE DEF r
    <2>6. sched' = r
      BY <1>2 DEF r
    <2> QED BY <1>9, <2>5, <2>6
  <1>14. ASSUME NEW t \in Threads
         PROVE  sched'.stat[t] = "suspend" <=>
                   /\ sched.stat[t] = "suspend"
                   /\ \A i \in 1..N : timers[i].thread = t => Left(i) # 1
    <2>1. (\A i \in 1..n : woken[i].thread # t) <=>
          (\A i \in 1..N : timers[i].thread = t => Left(i) # 1)
      <3>1. \A i \in 1..N : Left(i) = 1 <=> i \in 1..n
        <4>1. \A i \in 1..N : i \in 1..n \/ i \in (n + 1)..N
          BY <1>7, <1>8
        <4> QED BY <1>8, <4>1
      <3> QED BY <1>9, <1>11, <3>1
    <2> QED BY <1>4, <1>13, <2>1 DEF SameAsleep
  <1>15. ASSUME NEW k \in 1..(N - n)
         PROVE  /\ timers[n + k].thread = timers'[k].thread
                /\ Left(n + k) # 1 /\ n + k \in 1..N
                /\ Minus(timers'[k].timeout, tick') = Left(n + k) - 1
    BY <1>6, <1>8, <1>10
  <1>16. ASSUME NEW i \in 1..N, Left(i) # 1
         PROVE  i - n \in 1..(N - n) /\ timers'[i - n] = timers[i]
    <2>1. i \notin 1..n
      BY <1>8, <1>16
    <2>2. i - n \in 1..(N - n) /\ n + (i - n) = i
      BY <1>7, <1>8, <2>1
    <2> QED BY <1>10, <2>2
  <1>17. TimersOK'
    <2>1. ASSUME NEW i \in 1..(N - n), NEW j \in 1..(N - n),
                 timers'[i].thread = timers'[j].thread
          PROVE  i = j
      <3>1. n + i = n + j
        BY <1>3, <1>7, <1>10, <2>1 DEF TimersOK
      <3> QED BY <1>8, <3>1
    <2>2. ASSUME NEW t \in Threads
          PROVE  (\E k \in 1..(N - n) : timers'[k].thread = t) <=>
                 sched'.stat[t] = "suspend" /\ pc'[t] # "suspended"
      <3>1. (\E k \in 1..(N - n) : timers'[k].thread = t) <=>
            (\E i \in 1..N : timers[i].thread = t /\ Left(i) # 1)
        BY <1>15, <1>16
      <3>2. (\E i \in 1..N : timers[i].thread = t) <=>
            sched.stat[t] = "suspend" /\ pc[t] # "suspended"
        BY <1>3, <1>7 DEF TimersOK
      <3>3. \A i, j \in 1..N :
               timers[i].thread = t /\ timers[j].thread = t => i = j
        BY <1>3, <1>7 DEF TimersOK
      <3> QED BY <1>1, <1>14, <3>1, <3>2, <3>3
    <2> DEFINE left(k) == Minus(timers'[k].timeout, tick')
    <2>3. ASSUME NEW k \in 1..(N - n)
          PROVE  left(k) \in 1..(HalfRange - 1)
      <3>1. Left(n + k) \in 1..(HalfRange - 1) /\ Left(n + k) > 1
        BY <1>5, <1>8, <1>10, <1>15 DEF N
      <3>2. HalfRange \in Nat
        BY HalfOfRange
      <3> QED BY <1>15, <3>1, <3>2
    <2>4. ASSUME NEW i \in 1..(N - n), NEW j \in 1..(N - n), i < j
          PROVE  left(i) <= left(j)
      <3>1. n + i \in 1..N /\ n + j \in 1..N /\ n + i < n + j
        BY <1>8, <1>10, <2>4
      <3>2. Left(n + i) <= Left(n + j)
        BY <1>3, <1>7, <3>1 DEF TimersOK
      <3>3. Left(n + i) \in Nat /\ Left(n + j) \in Nat
        BY <1>5, <3>1, HalfOfRange DEF N
      <3> QED BY <1>15, <3>2, <3>3
    <2>5. \A k : Left(k)' = left(k)
      BY DEF Left
    <2> HIDE DEF left
    <2> QED BY <1>10, <2>1, <2>2, <2>3, <2>4, <2>5 DEF TimersOK
  <1>18. sched'.current \in Threads
    BY <1>13 DEF SchedOK, Scheduler
  <1>19. InCall'
    <2>1. CASE ~sched.locked
      <3>1. \A t \in Threads : pc[t] \notin InLock
        BY <1>3, <2>1 DEF InCall
      <3> QED BY <1>1, <1>3, <1>4, <1>13, <1>18, <2>1, <3>1 DEF InCall, InLock
    <2>2. CASE sched.locked
      <3>1. sched'.current = sched.current /\ sched'.locked
        BY <1>4, <1>13, <2>2
      <3> DEFINE c == sched.current
      <3>2. pc[c] = "entered" => sched'.stat[c] = "running"
        <4>1. sched'.stat[c] \in Stats /\ sched'.stat[c] # "ready"
          BY <1>3, <1>13, <3>1 DEF SchedOK, Scheduler
        <4>2. sched.stat[c] = "running" => sched'.stat[c] # "suspend"
          BY <1>3, <1>14
        <4> QED BY <1>3, <4>1, <4>2 DEF InCall, Stats
      <3>3. pc[c] = "suspended" => sched'.stat[c] = "suspend"
        <4>1. pc[c] = "suspended" => \A i \in 1..N : timers[i].thread # c
          BY <1>12
        <4> QED BY <1>3, <1>14, <4>1 DEF InCall
      <3> QED BY <1>1, <1>3, <2>2, <3>1, <3>2, <3>3 DEF InCall
    <2> QED BY <2>1, <2>2
  <1>20. DelayTypeOK'
    <2>1. /\ init_tick' \in [Threads -> Durations \cup {0}]
          /\ pc' \in [Threads -> {"awake", "entered", "suspended", "timed",
                                  "unlocked"}]
      BY <1>1, Types
    <2>2. tick' \in 0..TickMax
      <3>1. tick \in 0..TickMax /\ TickMax \in Nat
        BY Types, DelayAssumption
      <3> QED BY <1>1, <3>1
    <2> QED BY <1>10, <1>13, <2>1, <2>2
            DEF DelayTypeOK, Running, SchedOK, Scheduler, Stats
  <1>21. HighestRuns'
    <2>1. CASE sched'.locked \/ RightChoice(sched')
      BY <1>13, <2>1, ChoiceIsHighest DEF HighestRuns
    <2>2. CASE ~sched'.locked /\ ~RightChoice(sched')
      <3>1. sched' = sched /\ pc' = pc
        BY <1>1, <1>4, <1>13, <2>2
      <3>2. HighestRuns
        BY DEF KernelInv
      <3> QED BY <3>1, <3>2 DEF HighestRuns, GivingWay
    <2> QED BY <2>1, <2>2
  <1>22. KernelInv'
    BY <1>13, <1>17, <1>19, <1>20, <1>21 DEF KernelInv
  <1>23. \A k \in DOMAIN timers' : \E i \in DOMAIN timers :
            /\ timers[i].thread = timers'[k].thread /\ Left(i) # 1
            /\ Minus(timers'[k].timeout, tick') = Left(i) - 1
    BY <1>7, <1>10, <1>15
  <1>24. \A i \in DOMAIN timers : Left(i) # 1 =>
            \E k \in DOMAIN timers' : timers'[k].thread = timers[i].thread
    BY <1>7, <1>10, <1>16
  <1> QED BY <1>7, <1>14, <1>22, <1>23, <1>24

(* What a step of the board is to the kernel.                               *)
KernelStep ==
    \/ SysTick
    \/ \E t \in Threads \ {Idle} :
          \/ \E d \in Durations : EnterCritical(t, d)
          \/ Suspend(t) \/ StartTimer(t) \/ ExitCritical(t) \/ GiveWay(t)
    \/ UNCHANGED kernel

LEMMA BoardStepIs == [BoardNext]_board => KernelStep
  <1>1. TimePasses => KernelStep
    BY DEF TimePasses, KernelStep
  <1>2. ASSUME NEW t \in Threads \ {Idle}, Asks(t) PROVE KernelStep
    BY <1>2 DEF Asks, KernelStep
  <1>3. ASSUME NEW t \in Threads \ {Idle}, Runs(t) PROVE KernelStep
    BY <1>3 DEF Runs, Sleeps, KernelStep
  <1>4. UNCHANGED board => KernelStep
    BY DEF board, KernelStep
  <1> QED BY <1>1, <1>2, <1>3, <1>4 DEF BoardNext

LEMMA KernelKeeps == KernelInv /\ KernelStep => KernelInv'
  <1>1. KernelInv /\ UNCHANGED kernel => KernelInv'
    BY DEF kernel, KernelInv, DelayTypeOK, InCall, TimersOK, Left, HighestRuns,
           GivingWay
  <1> QED BY <1>1, TickKeeps, EnterKeeps, SuspendKeeps, StartKeeps, ExitKeeps,
             GiveWayKeeps
          DEF KernelStep

(* The invariant that both theorems and the refinement rest on.             *)
LEMMA BoardInvariant == BoardSpec => []KernelInv
  <1>1. BoardInit => KernelInv
    BY InitHolds DEF BoardInit
  <1>2. KernelInv /\ [BoardNext]_board => KernelInv'
    BY BoardStepIs, KernelKeeps
  <1> QED BY <1>1, <1>2, PTL DEF BoardSpec

(* The kernel keeps its types: the tick, each timeout and each delay stay   *)
(* in their ranges.                                                         *)
THEOREM DelayTypeCorrect == BoardSpec => []DelayTypeOK
  <1>1. KernelInv => DelayTypeOK
    BY DEF KernelInv
  <1> QED BY <1>1, BoardInvariant, PTL

(* No ready thread outranks the one that runs unlocked, except between the  *)
(* two regions of rt_exit_critical: rt_schedule leaves the right choice.    *)
THEOREM HighestAlwaysRuns == BoardSpec => []HighestRuns
  <1>1. KernelInv => HighestRuns
    BY DEF KernelInv
  <1> QED BY <1>1, BoardInvariant, PTL

-----------------------------------------------------------------------------
(* Promise's mapping: what a list says that a thread still has to sleep.    *)
AlarmOf(q, now, t) ==
    IF \E w \in ToSet(q) : w.thread = t
    THEN Minus((CHOOSE w \in ToSet(q) : w.thread = t).timeout, now)
    ELSE 0

(* The timer of a thread in a list that has one for each thread.            *)
LEMMA AlarmIs ==
    ASSUME NEW q, NEW now,
           \A i, j \in DOMAIN q : q[i].thread = q[j].thread => i = j
    PROVE  /\ \A i \in DOMAIN q :
                 AlarmOf(q, now, q[i].thread) = Minus(q[i].timeout, now)
           /\ \A t : (\A i \in DOMAIN q : q[i].thread # t) =>
                 AlarmOf(q, now, t) = 0
  <1>1. ASSUME NEW i \in DOMAIN q
        PROVE  AlarmOf(q, now, q[i].thread) = Minus(q[i].timeout, now)
    <2> DEFINE w == CHOOSE w \in ToSet(q) : w.thread = q[i].thread
    <2>1. w \in ToSet(q) /\ w.thread = q[i].thread
      BY DEF ToSet
    <2>2. w = q[i]
      <3> HIDE DEF w
      <3> QED BY <2>1 DEF ToSet
    <2>3. AlarmOf(q, now, q[i].thread) = Minus(w.timeout, now)
      BY DEF AlarmOf, ToSet
    <2> HIDE DEF w
    <2> QED BY <2>2, <2>3
  <1>2. ASSUME NEW t, \A i \in DOMAIN q : q[i].thread # t
        PROVE  AlarmOf(q, now, t) = 0
    BY <1>2 DEF AlarmOf, ToSet
  <1> QED BY <1>1, <1>2

asleep == [t \in Threads |-> sched.stat[t] = "suspend"]
left == [t \in Threads |-> AlarmOf(timers, tick, t)]

LEMMA LeftIs ==
    ASSUME KernelInv
    PROVE  /\ \A i \in DOMAIN timers : left[timers[i].thread] = Left(i)
           /\ \A t \in Threads :
                 (\A i \in DOMAIN timers : timers[i].thread # t) => left[t] = 0
  BY Types, AlarmIs DEF KernelInv, TimersOK, left, Left

(* The steps of the kernel are steps of Sleeping.                           *)
LEMMA TickIsTick ==
    ASSUME KernelInv, SysTick
    PROVE  /\ left' = [t \in Threads |-> IF left[t] > 0 THEN left[t] - 1 ELSE 0]
           /\ asleep' = [t \in Threads |-> asleep[t] /\ left[t] # 1]
  <1>1. KernelInv' 
    BY TickKeeps
  <1>2. TimersOK /\ TimersOK'
    BY <1>1 DEF KernelInv
  <1>3. ASSUME NEW t \in Threads
        PROVE  /\ left'[t] = IF left[t] > 0 THEN left[t] - 1 ELSE 0
               /\ sched'.stat[t] = "suspend" <=>
                     sched.stat[t] = "suspend" /\ left[t] # 1
    <2>1. left'[t] = AlarmOf(timers', tick', t)
      BY DEF left
    <2>2. \A k \in DOMAIN timers' : AlarmOf(timers', tick', timers'[k].thread)
                                       = Minus(timers'[k].timeout, tick')
      BY <1>2, AlarmIs DEF TimersOK
    <2>3. (\A k \in DOMAIN timers' : timers'[k].thread # t) =>
             AlarmOf(timers', tick', t) = 0
      BY <1>2, AlarmIs DEF TimersOK
    <2>4. CASE \A i \in DOMAIN timers : timers[i].thread # t
      <3>1. left[t] = 0
        BY <2>4, LeftIs
      <3>2. \A k \in DOMAIN timers' : timers'[k].thread # t
        BY <2>4, TickKeeps
      <3>3. sched'.stat[t] = "suspend" <=> sched.stat[t] = "suspend"
        BY <2>4, TickKeeps
      <3> QED BY <2>1, <2>3, <3>1, <3>2, <3>3
    <2>5. ASSUME NEW i \in DOMAIN timers, timers[i].thread = t
          PROVE  /\ left'[t] = IF left[t] > 0 THEN left[t] - 1 ELSE 0
                 /\ sched'.stat[t] = "suspend" <=>
                       sched.stat[t] = "suspend" /\ left[t] # 1
      <3>1. left[t] = Left(i) /\ Left(i) \in 1..(HalfRange - 1)
        BY <1>2, <2>5, LeftIs DEF TimersOK
      <3>2. HalfRange \in Nat
        BY HalfOfRange
      <3>3. \A j \in DOMAIN timers : timers[j].thread = t => j = i
        BY <1>2, <2>5 DEF TimersOK
      <3>4. sched'.stat[t] = "suspend" <=>
               sched.stat[t] = "suspend" /\ left[t] # 1
        BY <2>5, <3>1, <3>3, TickKeeps
      <3>5. CASE Left(i) = 1
        <4>1. \A k \in DOMAIN timers' : timers'[k].thread # t
          BY <3>3, <3>5, TickKeeps
        <4> QED BY <2>1, <2>3, <3>1, <3>4, <3>5, <4>1
      <3>6. CASE Left(i) # 1
        <4>1. PICK k \in DOMAIN timers' : timers'[k].thread = t
          BY <2>5, <3>6, TickKeeps
        <4>2. Minus(timers'[k].timeout, tick') = Left(i) - 1
          BY <3>3, <4>1, TickKeeps
        <4> QED BY <2>1, <2>2, <3>1, <3>2, <3>4, <3>6, <4>1, <4>2
      <3> QED BY <3>5, <3>6
    <2> QED BY <2>4, <2>5
  <1>4. left' = [t \in Threads |-> left'[t]]
    BY DEF left
  <1>5. left' = [t \in Threads |-> IF left[t] > 0 THEN left[t] - 1 ELSE 0]
    BY <1>3, <1>4
  <1>6. asleep' = [t \in Threads |-> asleep[t] /\ left[t] # 1]
    <2>1. \A t \in Threads : (sched'.stat[t] = "suspend") =
                             (asleep[t] /\ left[t] # 1)
      BY <1>3 DEF asleep
    <2> QED BY <2>1, Zenon DEF asleep
  <1> QED BY <1>5, <1>6

LEMMA SuspendIsLieDown ==
    ASSUME KernelInv, NEW t \in Threads \ {Idle}, Suspend(t)
    PROVE  /\ ~asleep[t] /\ asleep' = [asleep EXCEPT ![t] = TRUE]
           /\ left' = left
  <1>1. /\ \A u \in Threads : sched'.stat[u] =
              IF u = t THEN "suspend" ELSE sched.stat[u]
        /\ sched.stat[t] = "running" /\ tick' = tick /\ timers' = timers
    BY SuspendKeeps
  <1>2. left' = left
    BY <1>1 DEF left
  <1>3. ~asleep[t]
    BY <1>1 DEF asleep
  <1>4. asleep' = [asleep EXCEPT ![t] = TRUE]
    <2>1. asleep' = [u \in Threads |-> IF u = t THEN TRUE ELSE asleep[u]]
      BY <1>1 DEF asleep
    <2> QED BY <2>1 DEF asleep
  <1> QED BY <1>2, <1>3, <1>4

LEMMA StartIsSetAlarm ==
    ASSUME KernelInv, NEW t \in Threads \ {Idle}, StartTimer(t)
    PROVE  /\ asleep[t] /\ left[t] = 0 /\ init_tick[t] \in Durations
           /\ left' = [left EXCEPT ![t] = init_tick[t]]
           /\ asleep' = asleep
  <1>1. /\ KernelInv' /\ tick' = tick /\ sched' = sched
        /\ init_tick[t] \in Durations /\ sched.stat[t] = "suspend"
        /\ \A i \in DOMAIN timers : timers[i].thread # t
        /\ \A i \in DOMAIN timers :
              \E k \in DOMAIN timers' : timers'[k] = timers[i]
    BY StartKeeps
  <1>2. PICK p \in DOMAIN timers' :
           /\ timers'[p].thread = t
           /\ Minus(timers'[p].timeout, tick) = init_tick[t]
           /\ \A k \in DOMAIN timers' \ {p} :
                 \E i \in DOMAIN timers : timers'[k] = timers[i]
    BY StartKeeps
  <1>3. TimersOK'
    BY <1>1 DEF KernelInv
  <1>4. /\ \A k \in DOMAIN timers' : AlarmOf(timers', tick, timers'[k].thread)
                                       = Minus(timers'[k].timeout, tick)
        /\ \A u : (\A k \in DOMAIN timers' : timers'[k].thread # u) =>
              AlarmOf(timers', tick, u) = 0
    BY <1>3, AlarmIs DEF TimersOK
  <1>5. ASSUME NEW u \in Threads
        PROVE  AlarmOf(timers', tick, u) =
                  IF u = t THEN init_tick[t] ELSE left[u]
    <2>1. CASE u = t
      BY <1>2, <1>4, <2>1
    <2>2. CASE u # t /\ \A i \in DOMAIN timers : timers[i].thread # u
      <3>1. \A k \in DOMAIN timers' : timers'[k].thread # u
        BY <1>2, <2>2
      <3>2. left[u] = 0
        BY <2>2, LeftIs
      <3> QED BY <1>4, <2>2, <3>1, <3>2
    <2>3. ASSUME NEW i \in DOMAIN timers, u # t, timers[i].thread = u
          PROVE  AlarmOf(timers', tick, u) = left[u]
      <3>1. PICK k \in DOMAIN timers' : timers'[k] = timers[i]
        BY <1>1
      <3>2. left[u] = Left(i)
        BY <2>3, LeftIs
      <3> QED BY <1>4, <2>3, <3>1, <3>2 DEF Left
    <2> QED BY <2>1, <2>2, <2>3
  <1>6. left' = [left EXCEPT ![t] = init_tick[t]]
    <2>1. left' = [u \in Threads |-> IF u = t THEN init_tick[t] ELSE left[u]]
      BY <1>1, <1>5 DEF left
    <2> QED BY <2>1 DEF left
  <1>7. asleep[t] /\ left[t] = 0 /\ asleep' = asleep
    BY <1>1, LeftIs DEF asleep
  <1> QED BY <1>1, <1>6, <1>7

(* The kernel is one of the implementations that Sleeping allows: delays    *)
(* end with exactly their tick.                                             *)
THEOREM KernelKeepsPromise == BoardSpec => DelaysExactly
  <1>1. BoardInit => Promise!Init
    <2> SUFFICES ASSUME BoardInit PROVE Promise!Init
      OBVIOUS
    <2>1. KernelInv /\ timers = <<>>
      BY InitHolds DEF BoardInit, KernelInit
    <2>2. \A t \in Threads : sched.stat[t] # "suspend"
      BY DEF BoardInit, KernelInit
    <2>3. \A t : ~ \E w \in ToSet(timers) : w.thread = t
      BY <2>1 DEF ToSet
    <2> QED BY <2>2, <2>3 DEF Promise!Init
  <1>2. KernelInv /\ KernelStep => [Promise!Next]_<<asleep, left>>
    <2> SUFFICES ASSUME KernelInv, KernelStep
                 PROVE  [Promise!Next]_<<asleep, left>>
      OBVIOUS
    <2>1. CASE SysTick
      <3>1. Promise!Tick
        BY <2>1, TickIsTick DEF Promise!Tick, asleep, left, AlarmOf
      <3> QED BY <3>1 DEF Promise!Next
    <2>2. CASE UNCHANGED kernel
      BY <2>2 DEF kernel, asleep, left, AlarmOf
    <2>3. ASSUME NEW t \in Threads \ {Idle}, NEW d \in Durations,
                 EnterCritical(t, d)
          PROVE  UNCHANGED <<asleep, left>>
      <3>1. timers' = timers /\ sched'.stat = sched.stat /\ tick' = tick
        BY <2>3, EnterKeeps DEF EnterCritical
      <3> QED BY <3>1 DEF asleep, left
    <2>4. ASSUME NEW t \in Threads \ {Idle}, Suspend(t)
          PROVE  Promise!LieDown(t)
      BY <2>4, SuspendIsLieDown DEF Promise!LieDown, asleep, left, AlarmOf
    <2>5. ASSUME NEW t \in Threads \ {Idle}, ExitCritical(t) \/ GiveWay(t)
          PROVE  UNCHANGED <<asleep, left>>
      <3>1. timers' = timers /\ tick' = tick /\ SameAsleep(sched, sched')
        BY <2>5, ExitKeeps, GiveWayKeeps
      <3> QED BY <3>1 DEF asleep, left, SameAsleep
    <2>6. ASSUME NEW t \in Threads \ {Idle}, Suspend(t) \/ StartTimer(t)
          PROVE  Promise!Next
      <3>1. t \in Threads
        OBVIOUS
      <3>2. CASE Suspend(t)
        <4>1. Promise!LieDown(t)
          BY <2>4, <3>2
        <4> QED BY <3>1, <4>1, Zenon DEF Promise!Next
      <3>3. CASE StartTimer(t)
        <4>1. PICK d \in Durations : d = init_tick[t]
          BY <3>3, StartIsSetAlarm
        <4>2. Promise!SetAlarm(t, d)
          BY <3>3, <4>1, StartIsSetAlarm
             DEF Promise!SetAlarm, asleep, left, AlarmOf
        <4> QED BY <3>1, <4>2, Zenon DEF Promise!Next
      <3> QED BY <2>6, <3>2, <3>3
    <2> QED BY <2>1, <2>2, <2>3, <2>5, <2>6 DEF KernelStep
  <1>3. KernelInv /\ [BoardNext]_board => [Promise!Next]_<<asleep, left>>
    BY <1>2, BoardStepIs
  <1> QED BY <1>1, <1>3, BoardInvariant, PTL
          DEF BoardSpec, DelaysExactly, Promise!Spec, asleep, left, AlarmOf
=============================================================================
