------------------------------ MODULE WindTunnel ------------------------------
(***************************************************************************)
(* The control program of applications/main.c: the globals the threads     *)
(* share, the 20 ms control loop of the main thread, and the shell         *)
(* commands pid_tune and pid_eval that other threads run against it.       *)
(*                                                                         *)
(* Three threads of one preemptive core touch the globals, without a lock: *)
(* main (priority 10), the TCP server (12), which calls pid_tune, and the  *)
(* FinSH shell (20), which runs both commands.  A thread runs only while   *)
(* every thread above it is blocked.  Main blocks in rt_thread_mdelay and, *)
(* if ReadBlocks, inside the vendor driver's read of the sensor; nothing   *)
(* between the return of the read and the delay blocks, so that stretch is *)
(* one action.  While the board starts, main waits for the drivers it sets *)
(* up, and the commands run before it has entered its loop; if there is no *)
(* sensor it ends, and they go on without it.  A command of the other two  *)
(* threads is one action per shared store or test, for main's timer can    *)
(* preempt it between any two of them.                                     *)
(***************************************************************************)
EXTENDS ControlLaw

CONSTANTS
    GainTable,      \* gain_schedule_table: rows [height, kp, ki, kd]
    FeedTable,      \* ff_table at power-up: rows [height, base_fan_speed]
    InitialHeight,  \* target_height and ramped_height at power-up
    RampStep,       \* RAMP_STEP
    MinHeight,      \* MIN_HEIGHT
    FullSpeed,      \* fan speed 1.0
    Sentinel,       \* 9999, the previous_error that suppresses the D term
    Heights,        \* sensor readings the loop uses (at most 8000)
    ReadBlocks,     \* whether a sensor read gives up the processor
    AfterOpening,   \* what looking for the sensor may lead to
    Commands,       \* [Threads -> set of command lines, as option lists]
    MaxIntegral,    \* bound on the |integral_error| a cycle starts from
    MaxTotal        \* bound on the total_abs_error an evaluation goes on from

Threads == {"remote", "finsh"}

(* A command line is the sequence of the options it carries.  todo[t] is    *)
(* what is left of the one t is running, from the option at work on, and    *)
(* pc[t] how far that option has got.                                       *)
Options == [name : {"-p", "-i", "-d", "-t", "-ff_set", "unknown", "pid_eval"},
            index : Int, value : Int, speed : Int]
Places == {"option", "clamp_test", "clamp", "ff_speed", "e_previous",
           "e_total", "e_on", "e_wait", "e_off", "e_print"}

(* Before the fan is set up, opening the sensor, reading it, in the delay of *)
(* the loop, returned.                                                      *)
Stages == {"starting", "opening", "reading", "sleeping", "ended"}

GainRows == [height : Int, kp : Int, ki : Int, kd : Int]
FeedRows == [height : Int, base_fan_speed : Int]

ASSUME ConstantsAssumption ==
    /\ InitialHeight \in Int /\ MinHeight \in Int /\ Sentinel \in Int
    /\ MinHeight <= InitialHeight
    /\ RampStep \in Nat \ {0} /\ FullSpeed \in Nat \ {0}
    /\ MaxIntegral \in Nat /\ MaxTotal \in Nat
    /\ Heights \subseteq Int /\ Heights # {} /\ ReadBlocks \in BOOLEAN
    /\ AfterOpening \subseteq {"reading", "ended"}

ASSUME TablesAssumption ==
    /\ GainTable # <<>> /\ FeedTable # <<>>
    /\ GainTable \in Seq(GainRows) /\ FeedTable \in Seq(FeedRows)
    /\ \A i, j \in DOMAIN GainTable :
          i < j => GainTable[i].height < GainTable[j].height

ASSUME CommandsAssumption ==
    /\ Commands \in [Threads -> SUBSET Seq(Options)]
    /\ \A t \in Threads : \A c \in Commands[t] :
          /\ c # <<>>
          /\ \A k \in DOMAIN c :
                /\ c[k].name \in {"-ff_set", "pid_eval"} => Len(c) = 1
                /\ c[k].name = "pid_eval" => t = "finsh"

VARIABLES
    current_height, target_height, ramped_height,
    KP, KI, KD,
    integral_error, previous_error,
    is_evaluating, total_abs_error,
    ff_table,
    fan_speed,   \* argument of the last ys4028b12h_set_speed
    main,        \* where the main thread is, one of Stages
    todo,        \* [Threads -> what is left of the command being run]
    pc,          \* [Threads -> place in its first option]
    window_sum   \* history: sum of |error| over the cycles of an evaluation

setpoint == <<target_height, ramped_height>>
gains == <<KP, KI, KD>>
pid == <<integral_error, previous_error>>
evaluation == <<is_evaluating, total_abs_error, window_sum>>
vars == <<current_height, setpoint, gains, pid, evaluation, ff_table,
          fan_speed, main, todo, pc>>

GainsAt(h) == <<Lookup(GainTable, "kp", h), Lookup(GainTable, "ki", h),
                Lookup(GainTable, "kd", h)>>

-----------------------------------------------------------------------------
(* The globals at power-up.                                                 *)
Init ==
    /\ current_height = 20
    /\ target_height = InitialHeight /\ ramped_height = InitialHeight
    /\ KP = 0 /\ KI = 0 /\ KD = 0
    /\ integral_error = 0 /\ previous_error = 0
    /\ is_evaluating = FALSE /\ total_abs_error = 0
    /\ ff_table = FeedTable
    /\ fan_speed = 0
    /\ main = "starting"
    /\ todo = [t \in Threads |-> <<>>] /\ pc = [t \in Threads |-> "option"]
    /\ window_sum = 0

-----------------------------------------------------------------------------
(* The main thread.                                                         *)

(* The fan is set up and stopped before the sensor is looked for.           *)
StartFan ==
    /\ main = "starting" /\ main' = "opening"
    /\ fan_speed' = 0
    /\ UNCHANGED <<current_height, setpoint, gains, pid, evaluation, ff_table,
                   todo, pc>>

(* Gains stored by commands before this are lost; a target is kept, and the *)
(* gains are those of the setpoint that has not begun to follow it.         *)
EnterLoop ==
    LET gain == GainsAt(ramped_height)
    IN  /\ main = "opening" /\ main' = "reading" /\ main' \in AfterOpening
        /\ KP' = gain[1] /\ KI' = gain[2] /\ KD' = gain[3]
        /\ UNCHANGED <<current_height, setpoint, pid, evaluation, ff_table,
                       fan_speed, todo, pc>>

SensorMissing ==
    /\ main = "opening" /\ main' = "ended" /\ main' \in AfterOpening
    /\ UNCHANGED <<current_height, setpoint, gains, pid, evaluation, ff_table,
                   fan_speed, todo, pc>>

StartUp == StartFan \/ EnterLoop \/ SensorMissing

(* The two bounds keep the sums finite: an evaluation's delay elapses before *)
(* its total exceeds MaxTotal, and no run goes on from a larger integral.   *)
Wake ==
    /\ main = "sleeping"
    /\ is_evaluating => total_abs_error <= MaxTotal
    /\ Abs(integral_error) <= MaxIntegral
    /\ main' = "reading"
    /\ UNCHANGED <<current_height, setpoint, gains, pid, evaluation, ff_table,
                   fan_speed, todo, pc>>

(* A failed read prints and continues: no delay, no new fan speed.          *)
ReadFails ==
    /\ main = "reading"
    /\ UNCHANGED vars

(* A reading above 8000 is stored, then discarded the same way.             *)
ReadTooHigh ==
    /\ main = "reading"
    /\ current_height' = 8001
    /\ UNCHANGED <<setpoint, gains, pid, evaluation, ff_table, fan_speed,
                   main, todo, pc>>

(* Between pid_eval's raising and its dropping of the flag.                 *)
InWindow == pc["finsh"] \in {"e_wait", "e_off"}

GainsInUseMutant(ramped, moving) ==
    IF moving THEN GainsAt(target_height) ELSE gains
GainsAlwaysMutant(ramped, moving) == GainsAt(ramped)
GainsInUse(ramped, moving) == IF moving THEN GainsAt(ramped) ELSE gains

AccumulatedMutant(error) == total_abs_error + Abs(error)
Accumulated(error) ==
    IF is_evaluating THEN total_abs_error + Abs(error) ELSE total_abs_error

ControlCycle(height) ==
    LET moving == OutOfReach(ramped_height, target_height, RampStep)
        ramped == RampToward(ramped_height, target_height, RampStep)
        gain == GainsInUse(ramped, moving)
        error == ramped - height
        integral == integral_error + error
        derivative == IF previous_error = Sentinel
                      THEN 0 ELSE error - previous_error
        speed == Lookup(ff_table, "base_fan_speed", ramped)
                 + PidOutput(gain[1], gain[2], gain[3],
                             error, integral, derivative)
    IN  /\ main = "reading"
        /\ current_height' = height
        /\ ramped_height' = ramped
        /\ KP' = gain[1] /\ KI' = gain[2] /\ KD' = gain[3]
        /\ total_abs_error' = Accumulated(error)
        /\ previous_error' = error
        /\ integral_error' = Unwound(integral, error, speed, FullSpeed)
        /\ fan_speed' = Clip(speed, FullSpeed)
        /\ main' = "sleeping"
        /\ window_sum' = IF InWindow THEN window_sum + Abs(error)
                         ELSE window_sum
        /\ UNCHANGED <<target_height, is_evaluating, ff_table, todo, pc>>

-----------------------------------------------------------------------------
(* The two command threads.                                                 *)

InLoop == main \in {"reading", "sleeping"}

MainBlocked == main # "reading" \/ ReadBlocks

Scheduled(t) == MainBlocked /\ (t = "finsh" => todo["remote"] = <<>>)

Reads(t, name) == /\ Scheduled(t) /\ todo[t] # <<>> /\ pc[t] = "option"
                  /\ Head(todo[t]).name = name

At(t, place) == Scheduled(t) /\ todo[t] # <<>> /\ pc[t] = place

GoTo(t, place) == pc' = [pc EXCEPT ![t] = place] /\ UNCHANGED todo

DoneMutant(t) == UNCHANGED todo /\ pc' = [pc EXCEPT ![t] = "option"]
Done(t) == /\ todo' = [todo EXCEPT ![t] = Tail(@)]
           /\ pc' = [pc EXCEPT ![t] = "option"]

Return(t) == todo' = [todo EXCEPT ![t] = <<>>] /\ UNCHANGED pc

Issue(t) ==
    /\ Scheduled(t) /\ todo[t] = <<>>
    /\ \E command \in Commands[t] : todo' = [todo EXCEPT ![t] = command]
    /\ UNCHANGED <<current_height, setpoint, gains, pid, evaluation, ff_table,
                   fan_speed, main, pc>>

StoreGain(t) ==
    LET value == Head(todo[t]).value
    IN  /\ \/ Reads(t, "-p") /\ KP' = value /\ UNCHANGED <<KI, KD>>
           \/ Reads(t, "-i") /\ KI' = value /\ UNCHANGED <<KP, KD>>
           \/ Reads(t, "-d") /\ KD' = value /\ UNCHANGED <<KP, KI>>
        /\ Done(t)
        /\ UNCHANGED <<current_height, setpoint, pid, evaluation, ff_table,
                       fan_speed, main>>

BelowMinimumMutant == ramped_height < MinHeight
BelowMinimum == target_height < MinHeight

(* -t stores the value as given, then tests the global it stored to, prints *)
(* a warning and stores the minimum over it.                                *)
StoreTarget(t) ==
    /\ \/ /\ Reads(t, "-t")
          /\ target_height' = Head(todo[t]).value
          /\ GoTo(t, "clamp_test")
       \/ /\ At(t, "clamp_test")
          /\ UNCHANGED target_height
          /\ IF BelowMinimum THEN GoTo(t, "clamp") ELSE Done(t)
       \/ /\ At(t, "clamp")
          /\ target_height' = MinHeight
          /\ Done(t)
    /\ UNCHANGED <<current_height, ramped_height, gains, pid, evaluation,
                   ff_table, fan_speed, main>>

(* The options before an unknown one have taken effect by now.              *)
RejectOption(t) ==
    /\ Reads(t, "unknown")
    /\ Return(t)
    /\ UNCHANGED <<current_height, setpoint, gains, pid, evaluation, ff_table,
                   fan_speed, main>>

Row(height, speed) == [height |-> height, base_fan_speed |-> speed]

StoreFeedforward(t) ==
    LET option == Head(todo[t])
    IN  /\ \/ /\ Reads(t, "-ff_set") /\ option.index \notin DOMAIN ff_table
              /\ Return(t)
              /\ UNCHANGED ff_table
           \/ /\ Reads(t, "-ff_set") /\ option.index \in DOMAIN ff_table
              /\ ff_table' = [ff_table EXCEPT ![option.index] =
                                Row(option.value, @.base_fan_speed)]
              /\ GoTo(t, "ff_speed")
           \/ /\ At(t, "ff_speed")
              /\ ff_table' = [ff_table EXCEPT ![option.index] =
                                Row(@.height, option.speed)]
              /\ Done(t)
        /\ UNCHANGED <<current_height, setpoint, gains, pid, evaluation,
                       fan_speed, main>>

(* pid_eval, store by store: the integral, the previous error, the total,   *)
(* the flag, and after the delay the flag again and the printed total.      *)
Evaluate ==
    /\ \/ /\ Reads("finsh", "pid_eval")
          /\ integral_error' = 0
          /\ GoTo("finsh", "e_previous")
          /\ UNCHANGED <<previous_error, evaluation>>
       \/ /\ At("finsh", "e_previous")
          /\ previous_error' = 0
          /\ GoTo("finsh", "e_total")
          /\ UNCHANGED <<integral_error, evaluation>>
       \/ /\ At("finsh", "e_total")
          /\ total_abs_error' = 0
          /\ GoTo("finsh", "e_on")
          /\ UNCHANGED <<pid, is_evaluating, window_sum>>
       \/ /\ At("finsh", "e_on")
          /\ is_evaluating' = TRUE /\ window_sum' = 0
          /\ GoTo("finsh", "e_wait")
          /\ UNCHANGED <<pid, total_abs_error>>
       \/ /\ At("finsh", "e_wait")
          /\ GoTo("finsh", "e_off")
          /\ UNCHANGED <<pid, evaluation>>
       \/ /\ At("finsh", "e_off")
          /\ is_evaluating' = FALSE
          /\ GoTo("finsh", "e_print")
          /\ UNCHANGED <<pid, total_abs_error, window_sum>>
       \/ /\ At("finsh", "e_print")
          /\ Done("finsh")
          /\ window_sum' = 0
          /\ UNCHANGED <<pid, is_evaluating, total_abs_error>>
    /\ UNCHANGED <<current_height, setpoint, gains, ff_table, fan_speed, main>>

TuneStep(t) == StoreGain(t) \/ StoreTarget(t) \/ RejectOption(t)
           \/ StoreFeedforward(t)

Next ==
    \/ StartUp
    \/ Wake \/ ReadFails \/ ReadTooHigh
    \/ \E height \in Heights : ControlCycle(height)
    \/ \E t \in Threads : Issue(t) \/ TuneStep(t)
    \/ Evaluate

Spec == Init /\ [][Next]_vars

(* Only ControlCycle takes main from the sensor to its sleep.               *)
Cycles == main = "reading" /\ main' = "sleeping"

(* Nothing above main keeps it from starting.  The timer always wakes it.   *)
(* The sensor, however often it fails, goes on delivering usable readings.  *)
(* A command thread that is ready again and again is resumed: a cycle       *)
(* leaves most of its 20 ms to the others.                                  *)
Fairness ==
    /\ WF_vars(StartUp) /\ WF_vars(Wake)
    /\ WF_main(Cycles)
    /\ \A t \in Threads : SF_vars(TuneStep(t))
    /\ SF_vars(Evaluate)

FairSpec == Spec /\ Fairness

-----------------------------------------------------------------------------
(* Every variable holds a value of its C type's model.                      *)
TypeOK ==
    /\ current_height \in Int /\ target_height \in Int /\ ramped_height \in Int
    /\ KP \in Int /\ KI \in Int /\ KD \in Int
    /\ integral_error \in Int /\ previous_error \in Int
    /\ is_evaluating \in BOOLEAN /\ total_abs_error \in Nat
    /\ ff_table \in Seq(FeedRows) /\ DOMAIN ff_table = DOMAIN FeedTable
    /\ fan_speed \in Int
    /\ main \in Stages
    /\ todo \in [Threads -> Seq(Options)] /\ pc \in [Threads -> Places]
    /\ window_sum \in Nat

(* Whatever gains and table entries the users store, the speed the loop     *)
(* asks for is one ys4028b12h_set_speed accepts: a rejected request would   *)
(* leave the fan at its previous speed.                                     *)
SpeedAccepted == fan_speed \in 0..FullSpeed

(* A target below the minimum (main.c:292-296 stores first and clamps after *)
(* a printed line) is never left behind: whenever one is visible, a command *)
(* that will look at it again is still running, whichever of the two        *)
(* threads stored it and however the loop and the other thread interleave.  *)
LowTargetIsTransient ==
    BelowMinimum =>
        \E t \in Threads : pc[t] \in {"clamp_test", "clamp"}

(* The number pid_eval prints is the sum of |error| over exactly the cycles *)
(* that ran while the flag was up, none lost to or added by the loop        *)
(* preempting the command between its resets, its flag and its print.       *)
EvaluationExact ==
    /\ is_evaluating <=> InWindow
    /\ InWindow \/ pc["finsh"] = "e_print" => total_abs_error = window_sum

(* The gains in use are the scheduled ones of a height within one ramp step *)
(* of the tracked setpoint (main.c:199 accepts an error of 0.5 mm, one      *)
(* step), as long as nobody overrides them by hand and nobody moves the     *)
(* target by a step or less: the branch of l. 205 changes the setpoint and  *)
(* leaves the gains.  A target stored while the board starts is no          *)
(* exception.                                                               *)
GainsTrackSetpoint ==
    InLoop => \E d \in -RampStep..RampStep : gains = GainsAt(ramped_height + d)

(* The ramp of the report's section 6.2, with its promise to arrive.        *)
Ramp == INSTANCE SetpointRamp WITH
            Step <- RampStep, Initial <- InitialHeight,
            target <- target_height, ramped <- ramped_height
RampSafety == Ramp!Spec
RampRefined == Ramp!FairSpec

(* Every command either thread starts runs to its end, pid_eval included,   *)
(* although the loop preempts both and the server preempts the shell.       *)
CommandsFinish == \A t \in Threads : todo[t] # <<>> ~> todo[t] = <<>>
=============================================================================
