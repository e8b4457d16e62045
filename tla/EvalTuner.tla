------------------------------ MODULE EvalTuner ------------------------------
(***************************************************************************)
(* applications/test/evaluate.py against the board: a PC script goes       *)
(* through profiles, heights to tune the gains for.  For each it tries one *)
(* set of gains after another, by typing commands into the FinSH shell     *)
(* over a serial line and reading the total that pid_eval prints, and it   *)
(* saves the best of every profile when it is through with all of them.    *)
(*                                                                         *)
(* The shell is WindTunnel's thread "finsh", fed from the line instead of  *)
(* from Commands["finsh"].  It reads the next command only when the one    *)
(* before has returned; what the script sends meanwhile waits in the       *)
(* board's receive ring, which overwrites its oldest bytes when it is      *)
(* full.  What is left of a command whose head is overwritten is no        *)
(* command the shell knows.                                                *)
(***************************************************************************)
EXTENDS WindTunnel, SequencesExt

CONSTANTS
    Trials,   \* what to try: a sequence of [profile, kp, ki, kd]
    Targets,  \* target_height of each profile
    RingSize  \* RT_SERIAL_RB_BUFSZ, in bytes

ASSUME TunerAssumption ==
    /\ Targets \in Seq(Int) /\ \A p \in DOMAIN Targets : Targets[p] >= MinHeight
    /\ Trials \in Seq([profile : DOMAIN Targets, kp : Int, ki : Int, kd : Int])
    /\ Trials # <<>> /\ Trials[1].profile = 1
    /\ \A k \in DOMAIN Trials \ {1} :
          Trials[k].profile \in {Trials[k-1].profile, Trials[k-1].profile + 1}
    /\ Commands["finsh"] = {} /\ RingSize \in Nat

VARIABLES
    script,   \* the step the script is at
    trial,    \* number of the trial it is at
    serial,   \* commands in the receive ring, not yet read by the shell
    output,   \* results printed and not yet read by the script
    results,  \* all_results: the best trial of each finished profile, or 0
    saved,    \* what it has written of them to the results file
    started,  \* history: trial whose pid_eval was started last
    scored,   \* history: for each trial, whose result it got, or 0
    hurried,  \* history: the trials one of whose commands was sent before the
              \* board was through with the commands before it
    settled   \* history: whether the setpoint had arrived at its target, and
              \* within a step of the trial's, when gains were read last

found == <<results, saved>>
histories == <<started, scored, hurried, settled>>
tuner == <<script, trial, serial, output, found, histories>>
tunnel == vars

TunerInit ==
    /\ Init
    /\ script = "off" /\ trial = 1
    /\ serial = <<>> /\ output = <<>> /\ started = 0
    /\ results = [p \in DOMAIN Targets |-> 0] /\ saved = results
    /\ scored = [k \in DOMAIN Trials |-> 0]
    /\ hurried = {} /\ settled = FALSE

Option(name, value) ==
    [name |-> name, index |-> 0, value |-> value, speed |-> 0]
Gains(g) == <<Option("-p", g.kp), Option("-i", g.ki), Option("-d", g.kd)>>
NoGains == Gains([kp |-> 0, ki |-> 0, kd |-> 0])
TargetLine(k) == <<Option("-t", Targets[Trials[k].profile])>>
Evaluation(k) == <<[Option("pid_eval", 0) EXCEPT !.index = k]>>

(* The length of a command on the line, its end of line included: gains are *)
(* written with eight decimals and targets with one.                        *)
Bytes(command) ==
    CASE Head(command).name = "pid_eval" -> 15
      [] Head(command).name = "-t" -> 18
      [] command = NoGains -> 24
      [] OTHER -> 51

(* The ring after another command: the latest that fit, whole, in one byte  *)
(* less than its size.                                                      *)
Received(lines, command) ==
    LET all == Append(lines, command)
        Load(n) == SumFunction([k \in n..Len(all) |-> Bytes(all[k])])
        first == Min({n \in DOMAIN all : n = Len(all) \/ Load(n) < RingSize})
    IN  SubSeq(all, first, Len(all))

-----------------------------------------------------------------------------
(* The script.                                                              *)

(* It is started beside a board that runs; it ends if it cannot open the    *)
(* port.                                                                    *)
OpenPort ==
    /\ script = "off" /\ InLoop
    /\ script' \in {"reset", "closed"}
    /\ UNCHANGED <<tunnel, trial, serial, output, found, histories>>

(* The board is through with all that was sent.                             *)
CaughtUp == serial = <<>> /\ todo["finsh"] = <<>>

(* send_cmd sleeps, which is enough for pid_tune to be executed unless      *)
(* pid_eval is, or a sensor that goes on failing keeps the processor from   *)
(* the shell.                                                               *)
Slept == CaughtUp \/ pc["finsh"] = "e_wait" \/ ~ ReadBlocks

(* It throws away what has come in (reset_input_buffer).                    *)
DiscardedMutant == output
Discarded == <<>>

(* An exception of the write takes the script past all profiles and the     *)
(* results to its end.                                                      *)
Sends(from, to, command) ==
    /\ script = from
    /\ \/ /\ script' = to
          /\ serial' = Received(serial, command) /\ output' = Discarded
       \/ /\ script' = IF from = "last" THEN "closed" ELSE "last"
          /\ output' \in {output, Discarded}
          /\ serial' \in {serial, Received(serial, command)}
    /\ UNCHANGED <<tunnel, trial, found, started, scored, settled>>

Hurries == hurried' = IF CaughtUp THEN hurried ELSE hurried \cup {trial}

SendReset == Sends("reset", "gains", NoGains) /\ Hurries
SendGains == Slept /\ Sends("gains", "target", Gains(Trials[trial])) /\ Hurries
SendTarget == Slept /\ Sends("target", "eval", TargetLine(trial)) /\ Hurries
SendEval == Slept /\ Sends("eval", "wait", Evaluation(trial)) /\ Hurries
SendLast == Sends("last", "closed", NoGains) /\ UNCHANGED hurried

(* Opening the file empties it, and writing it may raise.                   *)
Save ==
    /\ script = "save" /\ script' = "last"
    /\ saved' \in {results, [p \in DOMAIN Targets |-> 0]}
    /\ UNCHANGED <<tunnel, trial, serial, output, results, histories>>

Mine == {k \in DOMAIN Trials : Trials[k].profile = Trials[trial].profile}

(* The trial with the least score: one that did not fail, if there is one.  *)
Best == LET succeeded == {k \in Mine : scored'[k] # 0}
        IN  IF succeeded = {} THEN Mine ELSE succeeded

(* A profile whose first trial fails is skipped.                            *)
SkipsMutant(k) == FALSE
Skips(k) == k = 0 /\ trial = Min(Mine)

GoesTo(next) ==
    IF next \in DOMAIN Trials THEN script' = "reset" /\ trial' = next
    ELSE script' = "save" /\ UNCHANGED trial

(* The trial gets the result of trial k, or is taken for a failure (0).     *)
Finish(k) ==
    /\ scored' = [scored EXCEPT ![trial] = k]
    /\ \/ Skips(k) /\ GoesTo(Max(Mine) + 1) /\ UNCHANGED results
       \/ /\ ~ Skips(k) /\ trial # Max(Mine)
          /\ GoesTo(trial + 1) /\ UNCHANGED results
       \/ /\ ~ Skips(k) /\ trial = Max(Mine)
          /\ GoesTo(trial + 1)
          /\ \E best \in Best :
                results' = [results EXCEPT ![Trials[trial].profile] = best]
    /\ UNCHANGED <<tunnel, serial, saved, started, hurried, settled>>

(* A total of 1.0 or less counts as a failure.                              *)
GetResult ==
    /\ script = "wait" /\ output # <<>> /\ output' = Tail(output)
    /\ Finish(Head(output)) \/ Finish(0)

(* A line that noise has made unreadable is passed over.                    *)
Garbled ==
    /\ script = "wait" /\ output # <<>> /\ output' = Tail(output)
    /\ UNCHANGED <<tunnel, script, trial, serial, found, histories>>

(* An exception of the read ends the trial, not the evaluation.             *)
ReadError ==
    /\ script = "wait"
    /\ Finish(0)
    /\ UNCHANGED output

(* The script waits five seconds longer than an evaluation takes that       *)
(* starts at once: it gives up a result that was unreadable, or one that is *)
(* late.                                                                    *)
GiveUp ==
    /\ script = "wait"
    /\ (CaughtUp /\ output = <<>>) \/ trial \in hurried \/ ~ ReadBlocks
    /\ Finish(0)
    /\ UNCHANGED output

-----------------------------------------------------------------------------
(* The shell.                                                               *)

(* Nothing is left to ramp, now or by the target of the trial.              *)
Settled ==
    /\ ramped_height = target_height
    /\ ~ OutOfReach(target_height, Targets[Trials[trial].profile], RampStep)

ShellReads ==
    LET command == Head(serial)
    IN  /\ Scheduled("finsh") /\ todo["finsh"] = <<>> /\ serial # <<>>
        /\ todo' = [todo EXCEPT !["finsh"] = command]
        /\ serial' = Tail(serial)
        /\ started' = IF command[1].name = "pid_eval" THEN command[1].index
                      ELSE started
        /\ settled' = IF command[1].name = "-p" THEN Settled ELSE settled
        /\ UNCHANGED <<script, trial, output, found, scored, hurried>>
        /\ UNCHANGED <<current_height, setpoint, gains, pid, evaluation,
                       ff_table, fan_speed, main, pc>>

ShellRuns ==
    /\ TuneStep("finsh") \/ Evaluate
    /\ output' = IF pc["finsh"] = "e_print" THEN Append(output, started)
                 ELSE output
    /\ UNCHANGED <<script, trial, serial, found, histories>>

LoopRuns ==
    /\ \/ StartUp \/ Wake \/ ReadFails \/ ReadTooHigh
       \/ \E height \in Heights : ControlCycle(height)
    /\ UNCHANGED tuner

TunerNext ==
    \/ OpenPort \/ Save
    \/ SendReset \/ SendGains \/ SendTarget \/ SendEval \/ SendLast
    \/ GetResult \/ Garbled \/ ReadError \/ GiveUp
    \/ ShellReads \/ ShellRuns \/ LoopRuns

tunervars == <<tunnel, tuner>>
TunerSpec == TunerInit /\ [][TunerNext]_tunervars

-----------------------------------------------------------------------------
OwnGains == LET g == Trials[started] IN gains = <<g.kp, g.ki, g.kd>>

(* "Testing params: Kp, Ki, Kd for target_height" (evaluate.py:164): the    *)
(* evaluation whose result the script waits for next runs with the trial's  *)
(* gains.                                                                   *)
AlwaysTestsItsGains ==
    is_evaluating /\ script = "wait" /\ started = trial /\ output = <<>>
    => OwnGains

(* Every evaluation does if the board was through with each command when    *)
(* the next of its trial was sent, and nothing was left to ramp: also       *)
(* beside a script that has gone on to other trials, whose commands pile up *)
(* in the ring, and after trials that ran into one another.                 *)
TestsItsGains ==
    is_evaluating /\ settled /\ started \notin hurried => OwnGains

(* "Score received" (evaluate.py:183, 196): the result a trial is credited  *)
(* with is that of its own evaluation, unless the board was behind when one *)
(* of its commands was sent, whatever results before it were late, garbled, *)
(* given up or lost with the port: a trial that finds the board at rest     *)
(* takes none of them.                                                      *)
ScoreIsOwn == \A k \in DOMAIN scored \ hurried : scored[k] \in {0, k}

(* The best gains in the file (evaluate.py:259-268, 294) are ones that were *)
(* tried at the height they are saved for and got a result, however many    *)
(* trials of the profile and of others before it failed, were skipped or    *)
(* were cut off by the port.                                                *)
SavedWasMeasured ==
    \A p \in DOMAIN saved : saved[p] # 0 =>
        Trials[saved[p]].profile = p /\ scored[saved[p]] # 0
=============================================================================
