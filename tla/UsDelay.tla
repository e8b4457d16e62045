------------------------------- MODULE UsDelay -------------------------------
(***************************************************************************)
(* The busy wait of the board, rt_hw_us_delay (board/board.c): it measures *)
(* microseconds on the counter the kernel's tick runs on.                  *)
(***************************************************************************)
EXTENDS Naturals

CONSTANTS
    Reload,         \* SysTick->LOAD
    MicrosPerTick,  \* 1000000 / RT_TICK_PER_SECOND
    Micros,         \* the delays asked for
    WordRange       \* of a uint32_t

ASSUME UsAssumption ==
    /\ Reload \in Nat \ {0} /\ MicrosPerTick \in Nat \ {0}
    /\ Micros \subseteq Nat /\ WordRange \in Nat
    /\ \A us \in Micros : us * Reload + Reload < WordRange

VARIABLES
    val,      \* SysTick->VAL, which counts down from Reload to 0
    polling,  \* whether a call is in its loop, and the locals of that call
    ticks, told, tcnt,
    owed      \* history: counts that must still pass before it may return

delay == <<polling, ticks, told, tcnt, owed>>

Init ==
    /\ val = Reload
    /\ polling = FALSE /\ ticks = 0 /\ told = 0 /\ tcnt = 0 /\ owed = 0

Counts(us) == (us * Reload) \div MicrosPerTick

(* The hardware counts, whatever the thread does.                           *)
Count ==
    /\ val' = IF val = 0 THEN Reload ELSE val - 1
    /\ owed' = IF owed = 0 THEN 0 ELSE owed - 1
    /\ UNCHANGED <<polling, ticks, told, tcnt>>

Call(us) ==
    /\ ~polling /\ polling' = TRUE
    /\ ticks' = ((us * Reload) % WordRange) \div MicrosPerTick
    /\ told' = val /\ tcnt' = 0
    /\ owed' = Counts(us)
    /\ UNCHANGED val

PassedMutant(tnow) == IF tnow < told THEN told - tnow ELSE Reload + tnow - told
Passed(tnow) == IF tnow < told THEN told - tnow ELSE Reload - tnow + told

Poll ==
    /\ polling /\ val # told
    /\ tcnt' = (tcnt + Passed(val)) % WordRange
    /\ told' = val
    /\ polling' = (tcnt' < ticks)
    /\ UNCHANGED <<val, ticks, owed>>

Next == Count \/ (\E us \in Micros : Call(us)) \/ Poll

Spec == Init /\ [][Next]_<<val, delay>>

-----------------------------------------------------------------------------
UsTypeOK ==
    /\ val \in 0..Reload /\ told \in 0..Reload
    /\ polling \in BOOLEAN
    /\ ticks \in Nat /\ tcnt \in Nat /\ owed \in Nat

(* A call never returns before the counts it was asked for have passed: not *)
(* when the counter wraps under it, nor when another thread runs for more   *)
(* than a turn of the counter between two of its polls.                     *)
NeverEarly == ~polling => owed = 0

(* What is measured and not yet read never runs ahead of the counter.       *)
Unread == IF val <= told THEN told - val ELSE told + Reload + 1 - val
Measured == polling => owed = 0 \/ tcnt + Unread + owed <= ticks
=============================================================================
