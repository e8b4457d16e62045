----------------------------- MODULE ThreadDelay -----------------------------
(***************************************************************************)
(* The delay every thread of the firmware waits with, rt_thread_mdelay of  *)
(* the RT-Thread kernel: src/thread.c, the timer list of src/timer.c and   *)
(* the single-core scheduler of src/scheduler_up.c.                        *)
(*                                                                         *)
(* A step of a thread is a region in which interrupts are off; the tick    *)
(* interrupt falls between any two of them.  rtconfig.h has 1000 ticks a   *)
(* second, so a millisecond is a tick, and one level of the skip list.     *)
(***************************************************************************)
EXTENDS Integers, Sequences, FiniteSets, SequencesExt

CONSTANTS
    Threads, Idle,  \* the threads, the idle thread among them
    Priority,       \* of each thread; the smallest number is the highest
    Durations,      \* the delays asked for, in ticks
    TickMax         \* RT_TICK_MAX, the largest tick

HalfRange == TickMax \div 2

ASSUME DelayAssumption ==
    /\ TickMax \in Nat /\ Durations \subseteq 1..(HalfRange - 1)
    /\ IsFiniteSet(Threads) /\ Idle \in Threads
    /\ Priority \in [Threads -> Nat]
    /\ \A t \in Threads \ {Idle} : Priority[t] < Priority[Idle]

VARIABLES
    tick,        \* rt_tick
    timers,      \* the list of the thread timers that run, in its order:
                 \* whose timer it is and its timeout_tick
    init_tick,   \* the delay a thread's timer is set to, until it is started
    sched,       \* the scheduler: the current thread, the ready queues (one
                 \* sequence: only the order within a priority counts), the
                 \* threads marked as yielding, stat, and its lock
    pc           \* where in _thread_sleep each thread is

kernel == <<tick, timers, init_tick, sched, pc>>

KernelInit ==
    /\ tick = 0 /\ timers = <<>>
    /\ init_tick = [t \in Threads |-> 0]
    /\ pc = [t \in Threads |-> "awake"]
    /\ \E first \in Threads :
          /\ \A t \in Threads : Priority[first] <= Priority[t]
          /\ sched = [current |-> first, locked |-> FALSE, yielded |-> {},
                      ready |-> SetToSeq(Threads \ {first}),
                      stat |-> [t \in Threads |->
                                  IF t = first THEN "running" ELSE "ready"]]

-----------------------------------------------------------------------------
(* Unsigned arithmetic on ticks.                                            *)
Minus(a, b) == (a - b) % (TickMax + 1)
NextTickMutant == tick + 1
NextTick == (tick + 1) % (TickMax + 1)

(* How many timers stand in the list before the first of the places that    *)
(* stop the walk.                                                           *)
Leading(stops) == Min(stops \cup {Len(timers) + 1}) - 1

(* A timer is started behind those that end before it or with it.           *)
LaterMutant(timeout, new) == timeout > new
Later(timeout, new) == Minus(timeout, new) \in 1..(HalfRange - 1)

Due(timeout, now) == Minus(now, timeout) < HalfRange

-----------------------------------------------------------------------------
(* rt_sched_insert_thread and rt_schedule on a scheduler s.                 *)
InsertMutant(s, t) ==
    IF t = s.current THEN s
    ELSE [s EXCEPT !.stat[t] = "ready", !.ready = <<t>> \o @]

Insert(s, t) ==
    IF t = s.current THEN [s EXCEPT !.stat[t] = "running"]
    ELSE [s EXCEPT !.stat[t] = "ready",
                   !.ready = IF t \in s.yielded THEN Append(@, t)
                                                ELSE <<t>> \o @]

Highest(s) == {t \in ToSet(s.ready) :
                  \A u \in ToSet(s.ready) : Priority[t] <= Priority[u]}
FirstPlace(q, S) == Min({i \in DOMAIN q : q[i] \in S})
FirstReady(s) == s.ready[FirstPlace(s.ready, Highest(s))]

StaysMutant(s, t) == s.stat[t] = "running" /\ t \notin s.yielded

Stays(s, t) ==
    /\ s.stat[t] = "running"
    /\ \/ Priority[t] < Priority[FirstReady(s)]
       \/ Priority[t] = Priority[FirstReady(s)] /\ t \notin s.yielded

SwitchTo(s, to) ==
    LET from == s.current
        moved == [s EXCEPT !.current = to]
        queued == IF s.stat[from] = "running" THEN Insert(moved, from)
                                              ELSE moved
    IN  [queued EXCEPT !.yielded = @ \ {from}, !.stat[to] = "running",
                       !.ready = RemoveAt(@, FirstPlace(@, {to}))]

Reschedule(s) ==
    IF s.locked \/ s.ready = <<>> \/ Stays(s, s.current) THEN s
    ELSE SwitchTo(s, FirstReady(s))

(* _thread_timeout for each of the timers woken, in their order.            *)
Resumed(s, woken) ==
    LET after[k \in 0..Len(woken)] ==
            IF k = 0 THEN s
            ELSE Reschedule(Insert(after[k - 1], woken[k].thread))
    IN  after[Len(woken)]

-----------------------------------------------------------------------------
(* SysTick_Handler, rt_tick_increase.  Any tick may be the last of the      *)
(* running thread's time slice; then the threads whose timers are due are   *)
(* resumed.                                                                 *)
SysTick ==
    LET n == Leading({i \in DOMAIN timers : ~Due(timers[i].timeout, tick')})
        woken == SubSeq(timers, 1, n)
    IN  /\ tick' = NextTick
        /\ \E sliced \in {sched, Reschedule([sched EXCEPT
                                         !.yielded = @ \cup {sched.current}])} :
              sched' = Resumed(sliced, woken)
        /\ timers' = SubSeq(timers, n + 1, Len(timers))
        /\ UNCHANGED <<init_tick, pc>>

Goes(t, from, to) ==
    /\ t = sched.current /\ pc[t] = from
    /\ pc' = [pc EXCEPT ![t] = to]

(* _thread_sleep for d ticks; none of these regions gives up the processor  *)
(* until rt_exit_critical has unlocked the scheduler, which it does in a    *)
(* region of its own before it calls rt_schedule.  The error number is left *)
(* out: nothing in the firmware reads it.                                   *)
EnterCritical(t, d) ==
    /\ Goes(t, "awake", "entered")
    /\ sched' = [sched EXCEPT !.locked = TRUE]
    /\ init_tick' = [init_tick EXCEPT ![t] = d]
    /\ UNCHANGED <<tick, timers>>

Suspend(t) ==
    /\ Goes(t, "entered", "suspended")
    /\ sched' = [sched EXCEPT !.stat[t] = "suspend"]
    /\ UNCHANGED <<tick, timers, init_tick>>

StartTimer(t) ==
    LET new == (tick + init_tick[t]) % (TickMax + 1)
        place == Leading({i \in DOMAIN timers :
                              Later(timers[i].timeout, new)}) + 1
    IN  /\ Goes(t, "suspended", "timed")
        /\ timers' = InsertAt(timers, place, [thread |-> t, timeout |-> new])
        /\ init_tick' = [init_tick EXCEPT ![t] = 0]
        /\ UNCHANGED <<tick, sched>>

ExitCritical(t) ==
    /\ Goes(t, "timed", "unlocked")
    /\ sched' = [sched EXCEPT !.locked = FALSE]
    /\ UNCHANGED <<tick, timers, init_tick>>

(* A tick in between may have rescheduled already, or woken the thread.     *)
GiveWay(t) ==
    /\ Goes(t, "unlocked", "awake")
    /\ sched' = Reschedule(sched)
    /\ UNCHANGED <<tick, timers, init_tick>>

(* The rest of a call once it has begun.                                    *)
Sleeps(t) == Suspend(t) \/ StartTimer(t) \/ ExitCritical(t) \/ GiveWay(t)

-----------------------------------------------------------------------------
DelayTypeOK ==
    /\ tick \in 0..TickMax
    /\ timers \in Seq([thread: Threads, timeout: 0..TickMax])
    /\ init_tick \in [Threads -> Durations \cup {0}]
    /\ sched \in [current: Threads, locked: BOOLEAN, yielded: SUBSET Threads,
                  ready: Seq(Threads),
                  stat: [Threads -> {"running", "ready", "suspend"}]]
    /\ pc \in [Threads -> {"awake", "entered", "suspended", "timed",
                           "unlocked"}]

(* The current thread has unlocked the scheduler, and has yet to return     *)
(* from the rt_schedule that rt_exit_critical calls next.                   *)
GivingWay == pc[sched.current] = "unlocked"

(* Outside a critical section no thread that could run outranks the one     *)
(* that does: an interrupt, a thread that lies down and one that is woken   *)
(* all end in the right choice, several woken by one tick included.  The    *)
(* exception is the end of a delay's critical section, between the two      *)
(* regions of rt_exit_critical (scheduler_up.c:538-543): there the current  *)
(* thread may be suspended, or woken and outranked by others a tick woke    *)
(* under the lock.                                                          *)
HighestRuns ==
    ~sched.locked =>
        \/ GivingWay
        \/ /\ sched.stat[sched.current] = "running"
           /\ \A t \in Threads : sched.stat[t] = "ready" =>
                 /\ t \in ToSet(sched.ready)
                 /\ Priority[sched.current] <= Priority[t]

(* The kernel keeps the promise of Sleeping: each delay ends with the tick  *)
(* it was set to end with, across the wrap of the tick, however many timers *)
(* run, and with the interrupt at any point of the call.                    *)
Promise == INSTANCE Sleeping WITH
    asleep <- [t \in Threads |-> sched.stat[t] = "suspend"],
    left <- [t \in Threads |->
              IF \E w \in ToSet(timers) : w.thread = t
              THEN Minus((CHOOSE w \in ToSet(timers) : w.thread = t).timeout,
                         tick)
              ELSE 0]

DelaysExactly == Promise!Spec
=============================================================================
