------------------------------ MODULE BoardTime ------------------------------
(***************************************************************************)
(* The board's time: the counter of rt_hw_us_delay raises the tick of      *)
(* rt_thread_mdelay, and the scheduler decides when a busy thread polls.   *)
(* Busy is the thread whose sensor sits on the bit-banged bus.             *)
(***************************************************************************)
EXTENDS ThreadDelay, UsDelay

CONSTANT Busy

ASSUME BusyAssumption == Busy \in Threads \ {Idle}

board == <<kernel, val, delay>>

BoardInit == KernelInit /\ Init

(* The counter interrupts when it gets to 0.                                *)
TimePasses ==
    /\ Count
    /\ IF val' = 0 THEN SysTick ELSE UNCHANGED kernel

(* Every thread but the idle one may ask for a delay when it runs, the busy *)
(* one of either kind.                                                      *)
Asks(t) ==
    \/ /\ t = Busy => ~polling
       /\ \E d \in Durations : EnterCritical(t, d)
       /\ UNCHANGED <<val, delay>>
    \/ /\ t = Busy /\ t = sched.current /\ pc[t] = "awake"
       /\ \E us \in Micros : Call(us)
       /\ UNCHANGED kernel

Runs(t) ==
    \/ Sleeps(t) /\ UNCHANGED <<val, delay>>
    \/ t = Busy /\ t = sched.current /\ Poll /\ UNCHANGED kernel

BoardNext ==
    \/ TimePasses
    \/ \E t \in Threads \ {Idle} : Asks(t) \/ Runs(t)

BoardSpec == BoardInit /\ [][BoardNext]_board

(* The counter counts, and the processor goes on with a call under way.     *)
FairBoard ==
    BoardSpec /\ WF_val(Count) /\ WF_pc(\E t \in Threads : Sleeps(t))

-----------------------------------------------------------------------------
(* No thread is lost in its delay: whoever starts one is woken with the     *)
(* scheduler unlocked, also when the tick it waits for falls anywhere into  *)
(* its own call, and whoever else sleeps.                                   *)
Wakes == \A t \in Threads \ {Idle} :
            pc[t] = "suspended" ~> /\ pc[t] \in {"unlocked", "awake"}
                                   /\ sched.stat[t] # "suspend"
=============================================================================
