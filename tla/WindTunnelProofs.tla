--------------------------- MODULE WindTunnelProofs ---------------------------
(* The theorems about WindTunnel, for every table, reading set and set of    *)
(* commands the assumptions of that module allow.                            *)
EXTENDS WindTunnel, ExtremePositions

-----------------------------------------------------------------------------
(* What the table lookup, the ramp and the clip of ControlLaw return, for    *)
(* every table and every height.                                             *)

(* Linear interpolation stays between the two values it interpolates.        *)
LEMMA BetweenIsBounded ==
    ASSUME NEW h \in Int, NEW low \in Int, NEW high \in Int,
           NEW a \in Int, NEW b \in Int,
           low <= h, h <= high, low < high
    PROVE  /\ Between(h, low, high, a, b) \in Int
           /\ a <= b => a <= Between(h, low, high, a, b)
                        /\ Between(h, low, high, a, b) <= b
           /\ b <= a => b <= Between(h, low, high, a, b)
                        /\ Between(h, low, high, a, b) <= a
<1> DEFINE d == high - low
           p == (h - low) * (b - a)
           q == p \div d
<1>1. d \in Nat \ {0} /\ p \in Int
  OBVIOUS
<1>2. q \in Int /\ d * q <= p /\ p < d * (q + 1)
  <2> HIDE DEF p, d
  <2> QED BY <1>1
<1>3. h - low \in 0..d
  OBVIOUS
<1>4. ASSUME a <= b PROVE 0 <= q /\ q <= b - a
  <2>1. 0 <= p /\ p <= d * (b - a)
    BY <1>3, <1>4
  <2> HIDE DEF p, d, q
  <2>2. 0 < d * (q + 1) /\ d * q <= d * (b - a)
    BY <2>1, <1>1, <1>2
  <2> QED BY <2>2, <1>1, <1>2
<1>5. ASSUME b <= a PROVE b - a <= q /\ q <= 0
  <2>1. d * (b - a) <= p /\ p <= 0
    BY <1>3, <1>5
  <2> HIDE DEF p, d, q
  <2>2. d * (b - a) < d * (q + 1) /\ d * q <= 0
    BY <2>1, <1>1, <1>2
  <2> QED BY <2>2, <1>1, <1>2
<1> QED BY <1>2, <1>4, <1>5 DEF Between

(* Whatever the table, even an unsorted one with equal heights, a lookup    *)
(* returns a value between those of two of its rows, and never divides by   *)
(* zero: get_feedforward_speed cannot leave the range of the speeds that    *)
(* pid_tune -ff_set put in the table.                                       *)
THEOREM LookupBetweenRows ==
    ASSUME NEW Rows, NEW table \in Seq(Rows), table # <<>>, NEW column,
           \A i \in DOMAIN table : /\ table[i].height \in Int
                                   /\ table[i][column] \in Int,
           NEW h \in Int
    PROVE  \E i, j \in DOMAIN table :
              /\ Lookup(table, column, h) \in Int
              /\ table[i][column] <= Lookup(table, column, h)
              /\ Lookup(table, column, h) <= table[j][column]
<1> DEFINE below == RowsAtOrBelow(table, h)
           above == RowsAtOrAbove(table, h)
           lo == LowerIndex(table, h)
           up == UpperIndex(table, h)
<1>1. PICK n \in Nat \ {0} : DOMAIN table = 1..n
  OBVIOUS
<1>2. below # {} => lo \in DOMAIN table /\ table[lo].height <= h
  <2>1. below \in SUBSET (1..n)
    BY <1>1 DEF RowsAtOrBelow
  <2>2. below # {} => lo \in below
    BY <2>1, GreatestPosition DEF LowerIndex
  <2> QED BY <2>2 DEF RowsAtOrBelow
<1>3. above # {} => up \in DOMAIN table /\ h <= table[up].height
  <2>1. above \in SUBSET Nat
    BY <1>1 DEF RowsAtOrAbove
  <2>2. above # {} => up \in above
    BY <2>1, LeastPosition DEF UpperIndex
  <2> QED BY <2>2 DEF RowsAtOrAbove
<1>4. CASE below = {}
  <2>1. Lookup(table, column, h) = table[1][column] /\ 1 \in DOMAIN table
    BY <1>1, <1>4 DEF Lookup
  <2> QED BY <2>1
<1>5. CASE below # {} /\ (above = {} \/ table[lo].height = table[up].height)
  <2>1. Lookup(table, column, h) = table[lo][column]
    BY <1>5 DEF Lookup
  <2> QED BY <2>1, <1>2, <1>5
<1>6. CASE below # {} /\ above # {} /\ table[lo].height # table[up].height
  <2>1. Lookup(table, column, h) = Between(h, table[lo].height,
                table[up].height, table[lo][column], table[up][column])
    BY <1>6 DEF Lookup
  <2>2. /\ lo \in DOMAIN table /\ up \in DOMAIN table
        /\ table[lo].height <= h /\ h <= table[up].height
        /\ table[lo].height < table[up].height
    BY <1>2, <1>3, <1>6
  <2> DEFINE x == table[lo].height
             y == table[up].height
             a == table[lo][column]
             b == table[up][column]
  <2>3. x \in Int /\ y \in Int /\ a \in Int /\ b \in Int
    BY <2>2
  <2>4. x <= h /\ h <= y /\ x < y /\ Lookup(table, column, h) = Between(h, x, y, a, b)
    BY <2>1, <2>2
  <2> HIDE DEF x, y, a, b
  <2>5. /\ Lookup(table, column, h) \in Int
        /\ a <= b => a <= Lookup(table, column, h)
                     /\ Lookup(table, column, h) <= b
        /\ b <= a => b <= Lookup(table, column, h)
                     /\ Lookup(table, column, h) <= a
    BY <2>3, <2>4, BetweenIsBounded
  <2>6. \/ a <= Lookup(table, column, h) /\ Lookup(table, column, h) <= b
        \/ b <= Lookup(table, column, h) /\ Lookup(table, column, h) <= a
    BY <2>3, <2>5
  <2> QED BY <2>2, <2>5, <2>6 DEF a, b
<1> QED BY <1>4, <1>5, <1>6

(* A cycle moves the tracked setpoint towards the target, by at most one     *)
(* step, and never past it.                                                  *)
LEMMA RampMovesTowardTarget ==
    ASSUME NEW ramped \in Int, NEW target \in Int, NEW step \in Nat \ {0}
    PROVE  LET next == RampToward(ramped, target, step)
           IN  /\ next \in Int
               /\ ramped <= target => ramped <= next /\ next <= target
               /\ target <= ramped => target <= next /\ next <= ramped
               /\ ramped - step <= next /\ next <= ramped + step
BY DEF RampToward, OutOfReach, Abs

(* The same as a walk: no move, or one of 1..step towards the target.        *)
LEMMA RampWalks ==
    ASSUME NEW ramped \in Int, NEW target \in Int, NEW step \in Nat \ {0}
    PROVE  LET next == RampToward(ramped, target, step)
           IN  \/ next = ramped
               \/ \E d \in 1..step :
                     \/ ramped + d <= target /\ next = ramped + d
                     \/ target <= ramped - d /\ next = ramped - d
<1> DEFINE next == RampToward(ramped, target, step)
<1>1. /\ next \in Int
      /\ ramped <= target => ramped <= next /\ next <= target
      /\ target <= ramped => target <= next /\ next <= ramped
      /\ ramped - step <= next /\ next <= ramped + step
  BY RampMovesTowardTarget
<1> HIDE DEF next
<1>2. CASE ramped < next
  <2>1. /\ next - ramped \in 1..step
        /\ ramped + (next - ramped) <= target
        /\ next = ramped + (next - ramped)
    BY <1>1, <1>2
  <2> QED BY <2>1 DEF next
<1>3. CASE next < ramped
  <2>1. /\ ramped - next \in 1..step
        /\ target <= ramped - (ramped - next)
        /\ next = ramped - (ramped - next)
    BY <1>1, <1>3
  <2> QED BY <2>1 DEF next
<1>4. CASE next = ramped
  BY <1>4 DEF next
<1> QED BY <1>1, <1>2, <1>3, <1>4

LEMMA ClipInRange ==
    ASSUME NEW speed \in Int, NEW full \in Nat
    PROVE  Clip(speed, full) \in 0..full
BY DEF Clip

-----------------------------------------------------------------------------
(* Types.                                                                    *)

USE DEF setpoint, gains, pid, evaluation, Threads

(* The gain table yields integer gains at every height.                      *)
LEMMA GainsType ==
    ASSUME NEW h \in Int
    PROVE  GainsAt(h) \in Int \X Int \X Int
<1>1. GainTable \in Seq(GainRows) /\ GainTable # <<>>
  BY TablesAssumption
<1>2. \A i \in DOMAIN GainTable : GainTable[i] \in GainRows
  BY <1>1
<1>3. \A i \in DOMAIN GainTable :
        /\ GainTable[i].height \in Int /\ GainTable[i]["kp"] \in Int
        /\ GainTable[i]["ki"] \in Int /\ GainTable[i]["kd"] \in Int
  BY <1>2 DEF GainRows
<1>4. Lookup(GainTable, "kp", h) \in Int
  BY <1>1, <1>3, LookupBetweenRows
<1>5. Lookup(GainTable, "ki", h) \in Int
  BY <1>1, <1>3, LookupBetweenRows
<1>6. Lookup(GainTable, "kd", h) \in Int
  BY <1>1, <1>3, LookupBetweenRows
<1> QED BY <1>4, <1>5, <1>6 DEF GainsAt

(* So does any feedforward table pid_tune -ff_set can produce.               *)
LEMMA FeedType ==
    ASSUME NEW table \in Seq(FeedRows), table # <<>>, NEW h \in Int
    PROVE  Lookup(table, "base_fan_speed", h) \in Int
<1>1. \A i \in DOMAIN table : table[i] \in FeedRows
  OBVIOUS
<1>2. \A i \in DOMAIN table : /\ table[i].height \in Int
                              /\ table[i]["base_fan_speed"] \in Int
  BY <1>1 DEF FeedRows
<1> QED BY <1>2, LookupBetweenRows

(* The option at work is an option, and the rest of a line is a line.        *)
LEMMA LineType ==
    ASSUME TypeOK, NEW t \in Threads, todo[t] # <<>>
    PROVE  /\ Head(todo[t]).value \in Int /\ Head(todo[t]).speed \in Int
           /\ Done(t) \/ Return(t) \/ (\E place \in Places : GoTo(t, place))
                => /\ todo' \in [Threads -> Seq(Options)]
                   /\ pc' \in [Threads -> Places]
<1>1. /\ todo[t] \in Seq(Options) /\ todo \in [Threads -> Seq(Options)]
      /\ pc \in [Threads -> Places]
  BY DEF TypeOK
<1>2. Head(todo[t]) \in Options /\ Tail(todo[t]) \in Seq(Options)
  BY <1>1
<1>3. Head(todo[t]).value \in Int /\ Head(todo[t]).speed \in Int
  BY <1>2 DEF Options
<1>4. ASSUME Done(t) \/ Return(t)
      PROVE  todo' \in [Threads -> Seq(Options)] /\ pc' \in [Threads -> Places]
  <2>1. "option" \in Places
    BY DEF Places
  <2>2. CASE Done(t)
    BY <2>1, <2>2, <1>1, <1>2 DEF Done
  <2>3. CASE Return(t)
    BY <2>3, <1>1 DEF Return
  <2> QED BY <1>4, <2>2, <2>3
<1>5. ASSUME NEW place \in Places, GoTo(t, place)
      PROVE  todo' \in [Threads -> Seq(Options)] /\ pc' \in [Threads -> Places]
  BY <1>1, <1>5 DEF GoTo
<1> QED BY <1>3, <1>4, <1>5

LEMMA InitType == Init => TypeOK
<1> SUFFICES ASSUME Init PROVE TypeOK
  OBVIOUS
<1>1. KP \in Int /\ KI \in Int /\ KD \in Int
  BY DEF Init
<1>2. todo \in [Threads -> Seq(Options)] /\ pc \in [Threads -> Places]
  BY DEF Init, Places
<1>3. ff_table \in Seq(FeedRows) /\ DOMAIN ff_table = DOMAIN FeedTable
  BY TablesAssumption DEF Init
<1>4. target_height \in Int /\ ramped_height \in Int
  BY ConstantsAssumption DEF Init
<1>5. /\ current_height \in Int /\ integral_error \in Int
      /\ previous_error \in Int /\ total_abs_error \in Nat
      /\ fan_speed \in Int /\ window_sum \in Nat
      /\ main \in Stages
  BY DEF Init, Stages
<1>6. is_evaluating \in BOOLEAN
  BY DEF Init
<1> QED BY <1>1, <1>2, <1>3, <1>4, <1>5, <1>6 DEF TypeOK

(* The one step with arithmetic of its own also sets the fan speed.          *)
LEMMA CycleType ==
    ASSUME TypeOK, NEW height \in Heights, ControlCycle(height)
    PROVE  TypeOK' /\ SpeedAccepted'
<1> DEFINE ramped == RampToward(ramped_height, target_height, RampStep)
           gain == GainsInUse(ramped, OutOfReach(ramped_height, target_height,
                                                 RampStep))
           error == ramped - height
           derivative == IF previous_error = Sentinel
                         THEN 0 ELSE error - previous_error
           output == PidOutput(gain[1], gain[2], gain[3], error,
                               integral_error + error, derivative)
           feed == Lookup(ff_table, "base_fan_speed", ramped)
<1>1. ramped \in Int /\ height \in Int
  BY ConstantsAssumption, RampMovesTowardTarget DEF TypeOK
<1>2. error \in Int /\ derivative \in Int /\ integral_error + error \in Int
  BY <1>1 DEF TypeOK
<1>3. gain[1] \in Int /\ gain[2] \in Int /\ gain[3] \in Int
  BY <1>1, GainsType DEF TypeOK, GainsInUse
<1>4. feed \in Int
  <2>1. ff_table # <<>>
    BY TablesAssumption DEF TypeOK
  <2> QED BY <1>1, <2>1, FeedType DEF TypeOK
<1>5. output \in Int
  BY <1>2, <1>3 DEF PidOutput
<1>6. Abs(error) \in Nat
  BY <1>2 DEF Abs
<1>7. /\ current_height' = height /\ ramped_height' = ramped
      /\ KP' = gain[1] /\ KI' = gain[2] /\ KD' = gain[3]
      /\ previous_error' = error /\ main' = "sleeping"
      /\ UNCHANGED <<target_height, is_evaluating, ff_table, todo, pc>>
  BY DEF ControlCycle
<1>9. total_abs_error' = total_abs_error
      \/ total_abs_error' = total_abs_error + Abs(error)
  BY DEF ControlCycle, Accumulated
<1>11. window_sum' = window_sum \/ window_sum' = window_sum + Abs(error)
  BY DEF ControlCycle
<1>12. integral_error' = Unwound(integral_error + error, error,
                                    feed + output, FullSpeed)
  BY DEF ControlCycle
<1>10. fan_speed' = Clip(feed + output, FullSpeed)
  BY DEF ControlCycle
<1>8. fan_speed' \in Int /\ fan_speed' \in 0..FullSpeed
  BY <1>4, <1>5, <1>10, ConstantsAssumption, ClipInRange
<1> HIDE DEF ramped, gain, error, derivative, output, feed
<1>13. /\ total_abs_error' \in Nat /\ window_sum' \in Nat
       /\ integral_error' \in Int
  BY <1>2, <1>6, <1>9, <1>11, <1>12 DEF TypeOK, Unwound
<1>14. TypeOK'
  BY <1>1, <1>2, <1>3, <1>7, <1>8, <1>13 DEF TypeOK, Stages
<1> QED BY <1>8, <1>14 DEF SpeedAccepted

(* TypeOK is inductive.                                                      *)
LEMMA NextType == TypeOK /\ [Next]_vars => TypeOK'
<1> SUFFICES ASSUME TypeOK, [Next]_vars PROVE TypeOK'
  OBVIOUS
<1>1. CASE Wake
  BY <1>1 DEF Wake, TypeOK, Stages
<1>12. CASE StartFan
  BY <1>12 DEF StartFan, TypeOK, Stages
<1>14. CASE SensorMissing
  BY <1>14 DEF SensorMissing, TypeOK, Stages
<1>13. CASE EnterLoop
  <2>1. KP' \in Int /\ KI' \in Int /\ KD' \in Int
    BY <1>13, GainsType DEF EnterLoop, TypeOK
  <2> QED BY <1>13, <2>1 DEF EnterLoop, TypeOK, Stages
<1>2. CASE ReadFails
  BY <1>2 DEF ReadFails, vars, TypeOK
<1>3. CASE ReadTooHigh
  BY <1>3 DEF ReadTooHigh, TypeOK
<1>4. ASSUME NEW height \in Heights, ControlCycle(height) PROVE TypeOK'
  BY <1>4, CycleType
<1>5. ASSUME NEW t \in Threads, Issue(t) PROVE TypeOK'
  <2>1. PICK command \in Commands[t] : todo' = [todo EXCEPT ![t] = command]
    BY <1>5 DEF Issue
  <2>2. command \in Seq(Options)
    BY CommandsAssumption
  <2>3. todo' \in [Threads -> Seq(Options)]
    BY <2>1, <2>2 DEF TypeOK
  <2> QED BY <1>5, <2>3 DEF Issue, TypeOK
<1>6. ASSUME NEW t \in Threads, StoreGain(t) PROVE TypeOK'
  <2>1. todo[t] # <<>>
    BY <1>6 DEF StoreGain, Reads
  <2>2. /\ todo' \in [Threads -> Seq(Options)] /\ pc' \in [Threads -> Places]
        /\ Head(todo[t]).value \in Int
    BY <1>6, <2>1, LineType DEF StoreGain
  <2> QED BY <1>6, <2>2 DEF StoreGain, TypeOK
<1>7. ASSUME NEW t \in Threads, StoreTarget(t) PROVE TypeOK'
  <2>1. todo[t] # <<>>
    BY <1>7 DEF StoreTarget, Reads, At
  <2>2. /\ todo' \in [Threads -> Seq(Options)] /\ pc' \in [Threads -> Places]
        /\ Head(todo[t]).value \in Int
    BY <1>7, <2>1, LineType DEF StoreTarget, Places
  <2> QED BY <1>7, <2>2, ConstantsAssumption DEF StoreTarget, TypeOK
<1>8. ASSUME NEW t \in Threads, RejectOption(t) PROVE TypeOK'
  <2>1. /\ todo' \in [Threads -> Seq(Options)] /\ pc' \in [Threads -> Places]
    BY <1>8, LineType DEF RejectOption, Reads
  <2> QED BY <1>8, <2>1 DEF RejectOption, TypeOK
<1>9. ASSUME NEW t \in Threads, StoreFeedforward(t) PROVE TypeOK'
  <2>1. todo[t] # <<>>
    BY <1>9 DEF StoreFeedforward, Reads, At
  <2>2. /\ todo' \in [Threads -> Seq(Options)] /\ pc' \in [Threads -> Places]
        /\ Head(todo[t]).value \in Int /\ Head(todo[t]).speed \in Int
    BY <1>9, <2>1, LineType DEF StoreFeedforward, Places
  <2>3. \A i \in DOMAIN ff_table : /\ ff_table[i].height \in Int
                                   /\ ff_table[i].base_fan_speed \in Int
    <3>1. \A i \in DOMAIN ff_table : ff_table[i] \in FeedRows
      BY DEF TypeOK
    <3> QED BY <3>1 DEF FeedRows
  <2>4. ASSUME NEW x \in Int, NEW y \in Int PROVE Row(x, y) \in FeedRows
    BY DEF Row, FeedRows
  <2>5. ff_table' \in Seq(FeedRows) /\ DOMAIN ff_table' = DOMAIN FeedTable
    <3> DEFINE i == Head(todo[t]).index
    <3>1. PICK n \in Nat : ff_table \in [1..n -> FeedRows] /\ DOMAIN ff_table = 1..n
      BY DEF TypeOK
    <3>2. \/ UNCHANGED ff_table
          \/ /\ i \in DOMAIN ff_table
             /\ ff_table' = [ff_table EXCEPT ![i] = Row(Head(todo[t]).value,
                                                ff_table[i].base_fan_speed)]
          \/ ff_table' = [ff_table EXCEPT ![i] = Row(ff_table[i].height,
                                                Head(todo[t]).speed)]
      BY <1>9 DEF StoreFeedforward
    <3>3. i \in 1..n => /\ Row(Head(todo[t]).value, ff_table[i].base_fan_speed)
                              \in FeedRows
                        /\ Row(ff_table[i].height, Head(todo[t]).speed)
                              \in FeedRows
      BY <2>2, <2>3, <2>4, <3>1
    <3> HIDE DEF i
    <3>4. ff_table' \in [1..n -> FeedRows]
      BY <3>1, <3>2, <3>3
    <3> QED BY <3>1, <3>4 DEF TypeOK
  <2> QED BY <1>9, <2>2, <2>5 DEF StoreFeedforward, TypeOK
<1>10. CASE Evaluate
  <2>1. todo["finsh"] # <<>> /\ "finsh" \in Threads
    BY <1>10 DEF Evaluate, Reads, At
  <2>2. /\ todo' \in [Threads -> Seq(Options)] /\ pc' \in [Threads -> Places]
    BY <1>10, <2>1, LineType DEF Evaluate, Places
  <2>3. integral_error' \in Int /\ previous_error' \in Int
    BY <1>10 DEF Evaluate, TypeOK
  <2>4. is_evaluating' \in BOOLEAN
    BY <1>10 DEF Evaluate, TypeOK
  <2>5. total_abs_error' \in Nat /\ window_sum' \in Nat
    BY <1>10, SMT DEF Evaluate, TypeOK
  <2> QED BY <1>10, <2>2, <2>3, <2>4, <2>5 DEF Evaluate, TypeOK
<1>11. CASE UNCHANGED vars
  BY <1>11 DEF vars, TypeOK
<1> QED BY <1>1, <1>2, <1>3, <1>4, <1>5, <1>6, <1>7, <1>8, <1>9, <1>10, <1>11,
           <1>12, <1>13, <1>14 DEF Next, TuneStep, StartUp

(* The type invariant of every variable of main.c and of the two threads.    *)
THEOREM TypeCorrect == Spec => []TypeOK
BY InitType, NextType, PTL DEF Spec

-----------------------------------------------------------------------------
(* The safety properties: the speed the fan is asked for, the clamping of    *)
(* the target, the number an evaluation prints and the refinement of         *)
(* SetpointRamp.  Each invariant is inductive beside TypeOK, once            *)
(* EvaluationExact is strengthened below.                                    *)
USE DEF setpoint, gains, pid, evaluation, Threads, BelowMinimum

(* The fan is only ever asked for a speed its driver accepts.                *)
THEOREM SpeedIsAccepted == Spec => []SpeedAccepted
<1>1. Init => SpeedAccepted
  BY ConstantsAssumption DEF Init, SpeedAccepted
<1>2. TypeOK /\ SpeedAccepted /\ [Next]_vars => SpeedAccepted'
  <2> SUFFICES ASSUME TypeOK, SpeedAccepted, [Next]_vars
               PROVE  SpeedAccepted'
    OBVIOUS
  <2>1. ASSUME NEW height \in Heights, ControlCycle(height)
        PROVE  SpeedAccepted'
    BY <2>1, CycleType
  <2>2. CASE Wake \/ ReadFails \/ ReadTooHigh \/ UNCHANGED vars
    BY <2>2 DEF Wake, ReadFails, ReadTooHigh, vars, SpeedAccepted
  <2>3. ASSUME NEW t \in Threads, Issue(t) \/ TuneStep(t)
        PROVE  SpeedAccepted'
    BY <2>3 DEF Issue, TuneStep, StoreGain, StoreTarget, RejectOption,
                StoreFeedforward, SpeedAccepted
  <2>4. CASE Evaluate
    BY <2>4 DEF Evaluate, SpeedAccepted
  <2>5. CASE StartUp
    BY <2>5, ConstantsAssumption
       DEF StartUp, StartFan, EnterLoop, SensorMissing, SpeedAccepted
  <2> QED BY <2>1, <2>2, <2>3, <2>4, <2>5 DEF Next
<1> QED BY <1>1, <1>2, TypeCorrect, PTL DEF Spec

-----------------------------------------------------------------------------
(* A step that leaves the target alone and is not taken from a clamping      *)
(* place keeps LowTargetIsTransient: the thread that still has to clamp is   *)
(* another one, and stays where it is.                                       *)
LEMMA ClampStillPending ==
    ASSUME TypeOK, LowTargetIsTransient, UNCHANGED target_height,
           NEW t \in Threads, pc[t] \notin {"clamp_test", "clamp"},
           \/ UNCHANGED pc
           \/ \E place \in Places : pc' = [pc EXCEPT ![t] = place]
    PROVE  LowTargetIsTransient'
<1>1. \A u \in Threads : u # t => pc'[u] = pc[u]
  BY DEF TypeOK
<1>2. CASE UNCHANGED pc
  BY <1>2 DEF LowTargetIsTransient
<1>3. CASE target_height < MinHeight
  <2>1. PICK u \in Threads : pc[u] \in {"clamp_test", "clamp"}
    BY <1>3 DEF LowTargetIsTransient
  <2> QED BY <1>1, <2>1 DEF LowTargetIsTransient
<1>4. CASE ~ (target_height < MinHeight)
  BY <1>4 DEF LowTargetIsTransient
<1> QED BY <1>3, <1>4

(* Every target below the minimum is about to be tested and clamped.         *)
THEOREM LowTargetIsClamped == Spec => []LowTargetIsTransient
<1>1. Init => LowTargetIsTransient
  BY ConstantsAssumption DEF Init, LowTargetIsTransient
<1>2. TypeOK /\ LowTargetIsTransient /\ [Next]_vars => LowTargetIsTransient'
  <2> SUFFICES ASSUME TypeOK, LowTargetIsTransient, [Next]_vars
               PROVE  LowTargetIsTransient'
    OBVIOUS
  <2>1. CASE Wake \/ ReadFails \/ ReadTooHigh \/ UNCHANGED vars
    BY <2>1 DEF Wake, ReadFails, ReadTooHigh, vars, LowTargetIsTransient
  <2>2. ASSUME NEW height \in Heights, ControlCycle(height)
        PROVE  LowTargetIsTransient'
    BY <2>2 DEF ControlCycle, LowTargetIsTransient
  <2>3. ASSUME NEW t \in Threads, Issue(t) PROVE LowTargetIsTransient'
    BY <2>3 DEF Issue, LowTargetIsTransient
  <2>4. ASSUME NEW t \in Threads, StoreGain(t) PROVE LowTargetIsTransient'
    BY <2>4, ClampStillPending DEF StoreGain, Reads, Done, Places
  <2>5. ASSUME NEW t \in Threads, StoreTarget(t) PROVE LowTargetIsTransient'
    <3>1. CASE GoTo(t, "clamp_test") \/ GoTo(t, "clamp")
      BY <3>1 DEF GoTo, TypeOK, LowTargetIsTransient
    <3>2. CASE target_height' = MinHeight
      BY <3>2, ConstantsAssumption DEF LowTargetIsTransient
    <3>3. CASE ~ (target_height < MinHeight) /\ UNCHANGED target_height
      BY <3>3 DEF LowTargetIsTransient
    <3> QED BY <2>5, <3>1, <3>2, <3>3 DEF StoreTarget
  <2>6. ASSUME NEW t \in Threads, RejectOption(t) PROVE LowTargetIsTransient'
    BY <2>6 DEF RejectOption, Return, LowTargetIsTransient
  <2>7. ASSUME NEW t \in Threads, StoreFeedforward(t)
        PROVE  LowTargetIsTransient'
    BY <2>7, ClampStillPending
       DEF StoreFeedforward, Reads, At, Done, Return, GoTo, Places
  <2>8. CASE Evaluate
    BY <2>8, ClampStillPending DEF Evaluate, Reads, At, Done, GoTo, Places
  <2>9. CASE StartUp
    BY <2>9 DEF StartUp, StartFan, EnterLoop, SensorMissing,
                LowTargetIsTransient
  <2> QED BY <2>1, <2>2, <2>3, <2>4, <2>5, <2>6, <2>7, <2>8, <2>9
          DEF Next, TuneStep
<1> QED BY <1>1, <1>2, TypeCorrect, PTL DEF Spec

-----------------------------------------------------------------------------
(* What makes EvaluationExact inductive: the total pid_eval has reset is     *)
(* still zero when it raises the flag, because no cycle adds to it before.   *)
EvaluationInv ==
    /\ EvaluationExact
    /\ pc["finsh"] = "e_on" => total_abs_error = 0

(* A step that leaves the totals and the flag alone keeps it, unless it      *)
(* moves the shell within pid_eval.                                          *)
LEMMA EvaluationUndisturbed ==
    ASSUME TypeOK, EvaluationInv,
           UNCHANGED <<is_evaluating, total_abs_error, window_sum>>,
           \/ pc'["finsh"] = pc["finsh"]
           \/ /\ pc["finsh"] \notin {"e_wait", "e_off"}
              /\ pc'["finsh"] \notin {"e_on", "e_wait", "e_off", "e_print"}
    PROVE  EvaluationInv'
<1>1. is_evaluating' <=> InWindow'
  BY DEF EvaluationInv, EvaluationExact, InWindow
<1>2. InWindow' \/ pc'["finsh"] = "e_print" => total_abs_error' = window_sum'
  BY DEF EvaluationInv, EvaluationExact, InWindow
<1>3. pc'["finsh"] = "e_on" => total_abs_error' = 0
  BY DEF EvaluationInv
<1> QED BY <1>1, <1>2, <1>3 DEF EvaluationInv, EvaluationExact

LEMMA EvaluationStep == TypeOK /\ EvaluationInv /\ [Next]_vars => EvaluationInv'
<1> SUFFICES ASSUME TypeOK, EvaluationInv, [Next]_vars PROVE EvaluationInv'
  OBVIOUS
<1>1. CASE Wake \/ ReadFails \/ ReadTooHigh \/ UNCHANGED vars
  BY <1>1, EvaluationUndisturbed DEF Wake, ReadFails, ReadTooHigh, vars
<1>2. ASSUME NEW height \in Heights, ControlCycle(height)
      PROVE  EvaluationInv'
  <2> DEFINE error == RampToward(ramped_height, target_height, RampStep)
                      - height
  <2>1. /\ total_abs_error' = IF is_evaluating
                              THEN total_abs_error + Abs(error)
                              ELSE total_abs_error
        /\ window_sum' = IF InWindow THEN window_sum + Abs(error)
                         ELSE window_sum
        /\ UNCHANGED <<is_evaluating, pc>>
    BY <1>2 DEF ControlCycle, Accumulated
  <2> HIDE DEF error
  <2>2. CASE InWindow
    BY <2>1, <2>2 DEF EvaluationInv, EvaluationExact, InWindow
  <2>3. CASE ~ InWindow
    <3>1. UNCHANGED <<is_evaluating, total_abs_error, window_sum>>
      BY <2>1, <2>3 DEF EvaluationInv, EvaluationExact
    <3> QED BY <2>1, <3>1, EvaluationUndisturbed
  <2> QED BY <2>2, <2>3
<1>3. ASSUME NEW t \in Threads, Issue(t) PROVE EvaluationInv'
  BY <1>3, EvaluationUndisturbed DEF Issue
<1>4. ASSUME NEW t \in Threads, TuneStep(t) PROVE EvaluationInv'
  <2>1. UNCHANGED <<is_evaluating, total_abs_error, window_sum>>
    BY <1>4 DEF TuneStep, StoreGain, StoreTarget, RejectOption,
                StoreFeedforward
  <2>2. \/ UNCHANGED pc
        \/ /\ pc[t] \in {"option", "clamp_test", "clamp", "ff_speed"}
           /\ \E place \in {"option", "clamp_test", "clamp", "ff_speed"} :
                 pc' = [pc EXCEPT ![t] = place]
    BY <1>4 DEF TuneStep, StoreGain, StoreTarget, RejectOption,
                StoreFeedforward, Reads, At, Done, Return, GoTo
  <2>3. \/ pc'["finsh"] = pc["finsh"]
        \/ /\ pc["finsh"] \notin {"e_wait", "e_off"}
           /\ pc'["finsh"] \notin {"e_on", "e_wait", "e_off", "e_print"}
    BY <2>2 DEF TypeOK
  <2> QED BY <2>1, <2>3, EvaluationUndisturbed
<1>5. CASE Evaluate
  <2>1. pc \in [Threads -> Places]
    BY DEF TypeOK
  <2>2. CASE /\ Reads("finsh", "pid_eval") \/ At("finsh", "e_previous")
             /\ GoTo("finsh", "e_previous") \/ GoTo("finsh", "e_total")
             /\ UNCHANGED evaluation
    BY <2>1, <2>2, EvaluationUndisturbed DEF Reads, At, GoTo
  <2>3. CASE /\ At("finsh", "e_total") /\ GoTo("finsh", "e_on")
             /\ total_abs_error' = 0 /\ UNCHANGED is_evaluating
    <3>1. pc["finsh"] = "e_total" /\ pc'["finsh"] = "e_on"
      BY <2>1, <2>3 DEF At, GoTo
    <3>2. ~ InWindow /\ ~ InWindow' /\ UNCHANGED is_evaluating
      BY <2>3, <3>1 DEF InWindow
    <3> QED BY <2>3, <3>1, <3>2 DEF EvaluationInv, EvaluationExact
  <2>4. CASE /\ At("finsh", "e_on") /\ GoTo("finsh", "e_wait")
             /\ is_evaluating' = TRUE /\ window_sum' = 0
             /\ UNCHANGED total_abs_error
    <3>1. pc["finsh"] = "e_on" /\ pc'["finsh"] = "e_wait"
      BY <2>1, <2>4 DEF At, GoTo
    <3>2. total_abs_error' = window_sum'
      BY <2>4, <3>1 DEF EvaluationInv
    <3>3. InWindow' /\ is_evaluating'
      BY <2>4, <3>1 DEF InWindow
    <3> QED BY <3>1, <3>2, <3>3 DEF EvaluationInv, EvaluationExact
  <2>5. CASE /\ At("finsh", "e_wait") /\ GoTo("finsh", "e_off")
             /\ UNCHANGED evaluation
    <3>1. pc["finsh"] = "e_wait" /\ pc'["finsh"] = "e_off"
      BY <2>1, <2>5 DEF At, GoTo
    <3>2. InWindow /\ InWindow'
      BY <3>1 DEF InWindow
    <3> QED BY <2>5, <3>1, <3>2 DEF EvaluationInv, EvaluationExact
  <2>6. CASE /\ At("finsh", "e_off") /\ GoTo("finsh", "e_print")
             /\ is_evaluating' = FALSE
             /\ UNCHANGED <<total_abs_error, window_sum>>
    <3>1. pc["finsh"] = "e_off" /\ pc'["finsh"] = "e_print"
      BY <2>1, <2>6 DEF At, GoTo
    <3>2. InWindow /\ ~ InWindow' /\ ~ is_evaluating'
      BY <2>6, <3>1 DEF InWindow
    <3> QED BY <2>6, <3>1, <3>2 DEF EvaluationInv, EvaluationExact
  <2>7. CASE /\ At("finsh", "e_print") /\ Done("finsh")
             /\ UNCHANGED is_evaluating
    <3>1. pc["finsh"] = "e_print" /\ pc'["finsh"] = "option"
      BY <2>1, <2>7 DEF At, Done
    <3>2. ~ InWindow /\ ~ InWindow'
      BY <3>1 DEF InWindow
    <3> QED BY <2>7, <3>1, <3>2 DEF EvaluationInv, EvaluationExact
  <2> QED BY <1>5, <2>2, <2>3, <2>4, <2>5, <2>6, <2>7 DEF Evaluate
<1>6. CASE StartUp
  BY <1>6, EvaluationUndisturbed DEF StartUp, StartFan, EnterLoop, SensorMissing
<1> QED BY <1>1, <1>2, <1>3, <1>4, <1>5, <1>6 DEF Next

(* The printed total is the sum over exactly the cycles of the evaluation.   *)
THEOREM EvaluationIsExact == Spec => []EvaluationExact
<1>1. Init => EvaluationInv
  BY DEF Init, EvaluationInv, EvaluationExact, InWindow
<1>2. EvaluationInv => EvaluationExact
  BY DEF EvaluationInv
<1> QED BY <1>1, <1>2, EvaluationStep, TypeCorrect, PTL DEF Spec

-----------------------------------------------------------------------------
(* Every step of the program is a step of SetpointRamp or leaves the target  *)
(* and the setpoint alone.                                                   *)
LEMMA RampStepRefines ==
    TypeOK /\ TypeOK' /\ [Next]_vars => [Ramp!Next]_(Ramp!vars)
<1> SUFFICES ASSUME TypeOK, TypeOK', [Next]_vars
             PROVE  [Ramp!Next]_(Ramp!vars)
  OBVIOUS
<1>1. CASE Wake \/ ReadFails \/ ReadTooHigh \/ UNCHANGED vars
  BY <1>1 DEF Wake, ReadFails, ReadTooHigh, vars, Ramp!vars
<1>2. ASSUME NEW height \in Heights, ControlCycle(height)
      PROVE  [Ramp!Next]_(Ramp!vars)
  <2>1. /\ ramped_height' = RampToward(ramped_height, target_height, RampStep)
        /\ UNCHANGED target_height
    BY <1>2 DEF ControlCycle
  <2>2. /\ target_height \in Int /\ ramped_height \in Int
        /\ ramped_height' \in Int /\ RampStep \in Nat \ {0}
    BY ConstantsAssumption DEF TypeOK
  <2>3. \/ ramped_height' = ramped_height
        \/ \E d \in 1..RampStep :
              \/ /\ ramped_height + d <= target_height
                 /\ ramped_height' = ramped_height + d
              \/ /\ target_height <= ramped_height - d
                 /\ ramped_height' = ramped_height - d
    BY <2>1, <2>2, RampWalks
  <2> QED BY <2>1, <2>3 DEF Ramp!Next, Ramp!Advance, Ramp!vars
<1>3. ASSUME NEW t \in Threads, Issue(t) \/ TuneStep(t)
      PROVE  [Ramp!Next]_(Ramp!vars)
  <2>1. UNCHANGED ramped_height /\ target_height' \in Int
    BY <1>3 DEF Issue, TuneStep, StoreGain, StoreTarget, RejectOption,
                StoreFeedforward, TypeOK
  <2> QED BY <2>1 DEF Ramp!Next, Ramp!Choose
<1>4. CASE Evaluate
  BY <1>4 DEF Evaluate, Ramp!vars
<1>5. CASE StartUp
  BY <1>5 DEF StartUp, StartFan, EnterLoop, SensorMissing, Ramp!vars
<1> QED BY <1>1, <1>2, <1>3, <1>4, <1>5 DEF Next

(* The control program implements the ramp of the report's section 6.2.      *)
THEOREM ImplementsRamp == Spec => RampSafety
<1>1. Init => Ramp!Init
  BY DEF Init, Ramp!Init
<1> QED BY <1>1, RampStepRefines, TypeCorrect, PTL DEF Spec, RampSafety, Ramp!Spec
-----------------------------------------------------------------------------
(* The schedule.  Where the target may rest: what is stored, and the minimum *)
(* that is stored over it.                                                   *)
Marks ==
    {MinHeight} \cup
    {v \in Int : \E t \in Threads : \E c \in Commands[t] : \E k \in DOMAIN c :
                    c[k].name = "-t" /\ c[k].value = v}

(* Options that leave the gains alone and move the target between marks.     *)
TargetOptions ==
    {o \in Options : o.name \notin {"-p", "-i", "-d"}
                     /\ (o.name = "-t" => o.value \in Marks)}

(* Nobody sets gains by hand, and no two marks are within a step.            *)
SpacedTargets ==
    /\ \A t \in Threads : \A c \in Commands[t] : \A k \in DOMAIN c :
          c[k].name \notin {"-p", "-i", "-d"}
    /\ \A a, b \in Marks : a = b \/ OutOfReach(a, b, RampStep)

(* Gains that are not those of the setpoint are those of a height within a   *)
(* step, and the setpoint is at a mark: it takes another target more than a  *)
(* step away to move it.                                                     *)
TrackInv ==
    /\ todo \in [Threads -> Seq(TargetOptions)]
    /\ target_height \in Marks \/ target_height = ramped_height
    /\ InLoop => \/ gains = GainsAt(ramped_height)
                 \/ /\ ramped_height \in Marks
                    /\ \E d \in -RampStep..RampStep :
                          gains = GainsAt(ramped_height + d)

LEMMA MarksAre ==
    ASSUME SpacedTargets
    PROVE  /\ Marks \in SUBSET Int /\ MinHeight \in Marks
           /\ \A t \in Threads : Commands[t] \subseteq Seq(TargetOptions)
<1>1. Marks \in SUBSET Int /\ MinHeight \in Marks
  BY ConstantsAssumption DEF Marks
<1>2. ASSUME NEW t \in Threads, NEW c \in Commands[t]
      PROVE  c \in Seq(TargetOptions)
  <2>1. c \in Seq(Options)
    BY CommandsAssumption
  <2>2. ASSUME NEW k \in DOMAIN c PROVE c[k] \in TargetOptions
    <3>1. c[k] \in Options /\ c[k].name \notin {"-p", "-i", "-d"}
      BY <2>1, <2>2 DEF SpacedTargets
    <3>2. c[k].value \in Int
      BY <3>1 DEF Options
    <3>3. c[k].name = "-t" => c[k].value \in Marks
      BY <2>2, <3>2 DEF Marks
    <3> QED BY <3>1, <3>3 DEF TargetOptions
  <2>3. /\ Len(c) \in Nat /\ DOMAIN c = 1..Len(c)
        /\ c = [k \in 1..Len(c) |-> c[k]]
    BY <2>1
  <2>4. c \in [1..Len(c) -> TargetOptions]
    BY <2>2, <2>3
  <2> QED BY <2>3, <2>4
<1> QED BY <1>1, <1>2

LEMMA CycleTracks ==
    ASSUME SpacedTargets, TypeOK, TrackInv,
           NEW height \in Heights, ControlCycle(height)
    PROVE  TrackInv'
<1> DEFINE moving == OutOfReach(ramped_height, target_height, RampStep)
<1>1. /\ ramped_height' = RampToward(ramped_height, target_height, RampStep)
      /\ UNCHANGED <<todo, target_height>> /\ InLoop
      /\ LET gain == GainsInUse(ramped_height', moving)
         IN  gains' = <<gain[1], gain[2], gain[3]>>
  BY DEF ControlCycle, InLoop
<1>2. /\ ramped_height \in Int /\ target_height \in Int
      /\ RampStep \in Nat \ {0} /\ Marks \in SUBSET Int
  BY ConstantsAssumption, MarksAre DEF TypeOK
<1>3. CASE moving
  <2>1. gains' = GainsAt(ramped_height')
    BY <1>1, <1>3 DEF GainsInUse, GainsAt
  <2>2. target_height \in Marks
    BY <1>2, <1>3 DEF TrackInv, OutOfReach, Abs
  <2> QED BY <1>1, <2>1, <2>2 DEF TrackInv, GainsAt
<1>4. CASE ~ moving
  <2>1. gains' = gains /\ ramped_height' = target_height
    BY <1>1, <1>4 DEF GainsInUse, RampToward
  <2>2. CASE target_height = ramped_height
    BY <1>1, <2>1, <2>2 DEF TrackInv, GainsAt
  <2>3. CASE target_height # ramped_height
    <3>1. target_height \in Marks
      BY <2>3 DEF TrackInv
    <3>2. ramped_height \notin Marks
      BY <1>4, <2>3, <3>1 DEF SpacedTargets
    <3>3. gains = GainsAt(ramped_height)
      BY <1>1, <3>2 DEF TrackInv
    <3>4. PICK d \in -RampStep..RampStep : ramped_height = target_height + d
      <4>1. ramped_height - target_height \in -RampStep..RampStep
        BY <1>2, <1>4 DEF OutOfReach, Abs
      <4>2. ramped_height = target_height + (ramped_height - target_height)
        BY <1>2
      <4> QED BY <4>1, <4>2
    <3>5. gains' = GainsAt(ramped_height' + d)
      BY <2>1, <3>3, <3>4
    <3> QED BY <1>1, <2>1, <3>1, <3>5 DEF TrackInv, GainsAt
  <2> QED BY <2>2, <2>3
<1> QED BY <1>3, <1>4

(* Steps of the command threads that store no gain.                          *)
LEMMA CommandTracks ==
    ASSUME SpacedTargets, TrackInv, NEW t \in Threads,
           UNCHANGED <<ramped_height, gains, main>>,
           todo' \in [Threads -> Seq(TargetOptions)],
           UNCHANGED target_height \/ target_height' \in Marks
    PROVE  TrackInv'
  BY DEF TrackInv, InLoop, GainsAt

(* What is left of a command line, and the option at work.                   *)
LEMMA LineTracks ==
    ASSUME TrackInv, NEW t \in Threads, todo[t] # <<>>
    PROVE  /\ Head(todo[t]) \in TargetOptions
           /\ Done(t) \/ Return(t) \/ (\E place \in Places : GoTo(t, place))
                => todo' \in [Threads -> Seq(TargetOptions)]
<1>1. todo \in [Threads -> Seq(TargetOptions)]
  BY DEF TrackInv
<1>2. Head(todo[t]) \in TargetOptions /\ Tail(todo[t]) \in Seq(TargetOptions)
  BY <1>1
<1>3. ASSUME Done(t) PROVE todo' \in [Threads -> Seq(TargetOptions)]
  BY <1>1, <1>2, <1>3 DEF Done
<1>4. ASSUME Return(t) PROVE todo' \in [Threads -> Seq(TargetOptions)]
  BY <1>1, <1>4 DEF Return
<1>5. ASSUME NEW place \in Places, GoTo(t, place)
      PROVE  todo' \in [Threads -> Seq(TargetOptions)]
  BY <1>1, <1>5 DEF GoTo
<1> QED BY <1>2, <1>3, <1>4, <1>5

LEMMA TrackStep ==
    ASSUME SpacedTargets, TypeOK, TrackInv, [Next]_vars PROVE TrackInv'
<1>1. ASSUME NEW height \in Heights, ControlCycle(height) PROVE TrackInv'
  BY <1>1, CycleTracks
<1>2. CASE Wake \/ ReadFails \/ ReadTooHigh \/ UNCHANGED vars
  BY <1>2 DEF Wake, ReadFails, ReadTooHigh, vars, TrackInv, InLoop, GainsAt
<1>3. CASE StartUp
  <2>1. CASE EnterLoop
    BY <2>1 DEF EnterLoop, TrackInv, InLoop, GainsAt
  <2>2. CASE StartFan \/ SensorMissing
    BY <2>2 DEF StartFan, SensorMissing, TrackInv, InLoop
  <2> QED BY <1>3, <2>1, <2>2 DEF StartUp
<1>4. ASSUME NEW t \in Threads, Issue(t) PROVE TrackInv'
  <2>1. todo' \in [Threads -> Seq(TargetOptions)]
    BY <1>4, MarksAre DEF Issue, TrackInv
  <2> QED BY <1>4, <2>1, CommandTracks DEF Issue
<1>5. ASSUME NEW t \in Threads, StoreGain(t) PROVE TrackInv'
  <2>1. todo[t] # <<>> /\ Head(todo[t]).name \in {"-p", "-i", "-d"}
    BY <1>5 DEF StoreGain, Reads
  <2> QED BY <2>1, LineTracks DEF TargetOptions
<1>6. ASSUME NEW t \in Threads, StoreTarget(t) PROVE TrackInv'
  <2>1. /\ todo[t] # <<>> /\ UNCHANGED <<ramped_height, gains, main>>
        /\ Done(t) \/ \E place \in Places : GoTo(t, place)
    BY <1>6 DEF StoreTarget, Reads, At, Places
  <2>2. \/ UNCHANGED target_height
        \/ target_height' = MinHeight
        \/ Head(todo[t]).name = "-t" /\ target_height' = Head(todo[t]).value
    BY <1>6 DEF StoreTarget, Reads
  <2>3. UNCHANGED target_height \/ target_height' \in Marks
    BY <2>1, <2>2, MarksAre, LineTracks DEF TargetOptions
  <2> QED BY <2>1, <2>3, LineTracks, CommandTracks
<1>7. ASSUME NEW t \in Threads, RejectOption(t) PROVE TrackInv'
  BY <1>7, LineTracks, CommandTracks DEF RejectOption, Reads
<1>8. ASSUME NEW t \in Threads, StoreFeedforward(t) PROVE TrackInv'
  <2>1. /\ todo[t] # <<>> /\ UNCHANGED <<target_height, ramped_height, gains, main>>
        /\ Done(t) \/ Return(t) \/ \E place \in Places : GoTo(t, place)
    BY <1>8 DEF StoreFeedforward, Reads, At, Places
  <2> QED BY <2>1, LineTracks, CommandTracks
<1>9. CASE Evaluate
  <2>1. /\ todo["finsh"] # <<>> /\ "finsh" \in Threads
        /\ UNCHANGED <<target_height, ramped_height, gains, main>>
        /\ \/ Done("finsh")
           \/ \E place \in Places : GoTo("finsh", place)
    BY <1>9 DEF Evaluate, Reads, At, Places
  <2> QED BY <2>1, LineTracks, CommandTracks
<1> QED BY <1>1, <1>2, <1>3, <1>4, <1>5, <1>6, <1>7, <1>8, <1>9
        DEF Next, TuneStep

(* Whoever stores targets more than a step apart, and no gains, finds the    *)
(* gains those of a height within a step of the setpoint.                    *)
THEOREM ScheduleIsFollowed ==
    ASSUME SpacedTargets PROVE Spec => []GainsTrackSetpoint
<1>1. Init => TrackInv
  <2> SUFFICES ASSUME Init PROVE TrackInv
    OBVIOUS
  <2>1. todo \in [Threads -> Seq(TargetOptions)]
    BY DEF Init
  <2> QED BY <2>1 DEF Init, TrackInv, InLoop
<1>2. TypeOK /\ TrackInv /\ [Next]_vars => TrackInv'
  BY TrackStep
<1>3. TypeOK /\ TrackInv => GainsTrackSetpoint
  <2> SUFFICES ASSUME TypeOK, TrackInv, InLoop
               PROVE  \E d \in -RampStep..RampStep : gains = GainsAt(ramped_height + d)
    BY DEF GainsTrackSetpoint
  <2>1. CASE gains = GainsAt(ramped_height)
    <3>1. 0 \in -RampStep..RampStep /\ ramped_height = ramped_height + 0
      BY ConstantsAssumption DEF TypeOK
    <3>2. gains = GainsAt(ramped_height + 0)
      BY <2>1, <3>1
    <3> QED BY <3>1, <3>2
  <2> QED BY <2>1 DEF TrackInv
<1> QED BY <1>1, <1>2, <1>3, TypeCorrect, PTL DEF Spec
=============================================================================
