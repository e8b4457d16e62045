------------------------------ MODULE Sleeping ------------------------------
(***************************************************************************)
(* What rt_thread_mdelay promises its callers: a thread that lies down is  *)
(* woken by exactly the tick its delay runs to, whatever the others do.    *)
(***************************************************************************)
EXTENDS Naturals

CONSTANTS Threads, Durations

VARIABLES asleep, left    \* left[t]: ticks t still has to sleep, once set

Init == asleep = [t \in Threads |-> FALSE] /\ left = [t \in Threads |-> 0]

LieDown(t) ==
    /\ ~asleep[t]
    /\ asleep' = [asleep EXCEPT ![t] = TRUE]
    /\ UNCHANGED left

SetAlarm(t, d) ==
    /\ asleep[t] /\ left[t] = 0
    /\ left' = [left EXCEPT ![t] = d]
    /\ UNCHANGED asleep

Tick ==
    /\ left' = [t \in Threads |-> IF left[t] > 0 THEN left[t] - 1 ELSE 0]
    /\ asleep' = [t \in Threads |-> asleep[t] /\ left[t] # 1]

Next ==
    \/ \E t \in Threads : LieDown(t) \/ \E d \in Durations : SetAlarm(t, d)
    \/ Tick

Spec == Init /\ [][Next]_<<asleep, left>>
=============================================================================
