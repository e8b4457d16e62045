--------------------------- MODULE AntiWindupProofs ---------------------------
(* The integral of main.c is bounded, for every table, command set and       *)
(* sequence of readings within the bounds of AntiWindup.  What is inductive  *)
(* is WindupInv: the limit follows from the test for clipping only because   *)
(* the other terms of the output are bounded, and they are because gains,    *)
(* setpoint, previous error and table speeds are.                            *)
EXTENDS AntiWindup, WindTunnelProofs

USE DEF setpoint, gains, pid, evaluation, Threads

(* A product of factors in bounds.                                           *)
LEMMA ProductBound ==
    ASSUME NEW g \in Nat, NEW a \in 0..g, NEW c \in Nat, NEW x \in -c..c
    PROVE  a * x \in Int /\ -(g * c) <= a * x /\ a * x <= g * c
<1>1. g * c \in Nat /\ a * c \in Nat /\ a * x \in Int
  OBVIOUS
<1>2. a * c <= g * c
  OBVIOUS
<1>3. a * x <= a * c /\ -(a * c) <= a * x
  OBVIOUS
<1> QED BY <1>1, <1>2, <1>3

(* An interpolated gain is within the bounds of the table's.                 *)
LEMMA GainsBounded ==
    ASSUME NEW h \in Int
    PROVE  Bounded(GainsAt(h)[1], GainsAt(h)[2], GainsAt(h)[3])
<1>1. GainTable \in Seq(GainRows) /\ GainTable # <<>>
  BY TablesAssumption
<1>2. \A i \in DOMAIN GainTable : GainTable[i] \in GainRows
  BY <1>1
<1>3. \A i \in DOMAIN GainTable :
        /\ GainTable[i].height \in Int /\ GainTable[i]["kp"] \in Int
        /\ GainTable[i]["ki"] \in Int /\ GainTable[i]["kd"] \in Int
  BY <1>2 DEF GainRows
<1>4. MaxGain \in Nat /\ MinKi \in Nat
  BY BoundsAssumption
<1>5. \A i \in DOMAIN GainTable :
         /\ GainTable[i]["kp"] \in 0..MaxGain /\ GainTable[i]["kd"] \in 0..MaxGain
         /\ GainTable[i]["ki"] \in MinKi..MaxGain
  BY BoundsAssumption DEF Bounded
<1>6. Lookup(GainTable, "kp", h) \in 0..MaxGain
  <2>1. PICK i \in DOMAIN GainTable, j \in DOMAIN GainTable :
            /\ Lookup(GainTable, "kp", h) \in Int
            /\ GainTable[i]["kp"] <= Lookup(GainTable, "kp", h)
            /\ Lookup(GainTable, "kp", h) <= GainTable[j]["kp"]
    BY <1>1, <1>3, LookupBetweenRows
  <2> QED BY <2>1, <1>3, <1>4, <1>5
<1>7. Lookup(GainTable, "ki", h) \in MinKi..MaxGain
  <2>1. PICK i \in DOMAIN GainTable, j \in DOMAIN GainTable :
            /\ Lookup(GainTable, "ki", h) \in Int
            /\ GainTable[i]["ki"] <= Lookup(GainTable, "ki", h)
            /\ Lookup(GainTable, "ki", h) <= GainTable[j]["ki"]
    BY <1>1, <1>3, LookupBetweenRows
  <2> QED BY <2>1, <1>3, <1>4, <1>5
<1>8. Lookup(GainTable, "kd", h) \in 0..MaxGain
  <2>1. PICK i \in DOMAIN GainTable, j \in DOMAIN GainTable :
            /\ Lookup(GainTable, "kd", h) \in Int
            /\ GainTable[i]["kd"] <= Lookup(GainTable, "kd", h)
            /\ Lookup(GainTable, "kd", h) <= GainTable[j]["kd"]
    BY <1>1, <1>3, LookupBetweenRows
  <2> QED BY <2>1, <1>3, <1>4, <1>5
<1> QED BY <1>6, <1>7, <1>8 DEF GainsAt, Bounded

(* The feedforward speed stays within the fan's range.                       *)
LEMMA FeedBounded ==
    ASSUME NEW table \in Seq(FeedRows), table # <<>>, NEW h \in Int,
           \A i \in DOMAIN table : table[i].base_fan_speed \in 0..FullSpeed
    PROVE  Lookup(table, "base_fan_speed", h) \in 0..FullSpeed
<1>1. \A i \in DOMAIN table : table[i] \in FeedRows
  OBVIOUS
<1>2. \A i \in DOMAIN table : /\ table[i].height \in Int
                              /\ table[i]["base_fan_speed"] \in Int
  BY <1>1 DEF FeedRows
<1>3. PICK i \in DOMAIN table, j \in DOMAIN table :
          /\ Lookup(table, "base_fan_speed", h) \in Int
          /\ table[i]["base_fan_speed"] <= Lookup(table, "base_fan_speed", h)
          /\ Lookup(table, "base_fan_speed", h) <= table[j]["base_fan_speed"]
  BY <1>2, LookupBetweenRows
<1>4. FullSpeed \in Nat
  BY ConstantsAssumption
<1> QED BY <1>2, <1>3, <1>4

(* A clipped cycle leaves the integral as it found it.                       *)
LEMMA TakenBackWhenClipped ==
    ASSUME NEW integral \in Int, NEW error \in Int, NEW speed, NEW full,
           ~ (Clip(speed, full) = speed)
    PROVE  Unwound(integral + error, error, speed, full) = integral
BY DEF Unwound

(* An output inside the fan's range bounds the integral it was made from.    *)
LEMMA UnclippedIntegral ==
    ASSUME NEW full \in Nat, NEW g \in Nat, NEW c \in Nat, NEW m \in Nat \ {0},
           NEW kp \in 0..g, NEW ki \in m..g, NEW kd \in 0..g,
           NEW e \in -c..c, NEW d \in -(2 * c)..(2 * c), NEW i \in Int,
           NEW feed \in 0..full,
           Clip(feed + PidOutput(kp, ki, kd, e, i, d), full)
              = feed + PidOutput(kp, ki, kd, e, i, d)
    PROVE  m * Abs(i) <= full + 3 * (g * c)
<1>1. /\ kp * e \in Int /\ -(g * c) <= kp * e /\ kp * e <= g * c
  BY ProductBound
<1>2. /\ kd * d \in Int /\ -(g * (2 * c)) <= kd * d /\ kd * d <= g * (2 * c)
  BY ProductBound
<1>3. g * (2 * c) = 2 * (g * c) /\ g * c \in Nat
  OBVIOUS
<1>4. ki * i \in Int
  OBVIOUS
<1>5. PidOutput(kp, ki, kd, e, i, d) = kp * e + ki * i + kd * d
  BY DEF PidOutput
<1>6. feed + (kp * e + ki * i + kd * d) \in 0..full
  <2>1. feed + (kp * e + ki * i + kd * d) \in Int
    BY <1>1, <1>2, <1>4
  <2> QED BY <2>1, <1>5, ClipInRange
<1>7. ki * i <= full + 3 * (g * c) /\ -(full + 3 * (g * c)) <= ki * i
  <2> DEFINE x == kp * e
             y == ki * i
             z == kd * d
             b == g * c
  <2>1. /\ x \in Int /\ y \in Int /\ z \in Int /\ b \in Nat
        /\ -b <= x /\ x <= b /\ -(2 * b) <= z /\ z <= 2 * b
        /\ feed + (x + y + z) \in 0..full
    BY <1>1, <1>2, <1>3, <1>4, <1>6
  <2> HIDE DEF x, y, z, b
  <2>2. y <= full + 3 * b /\ -(full + 3 * b) <= y
    BY <2>1
  <2> QED BY <2>2 DEF y, b
<1>8. CASE i > 0
  <2>1. m * i <= ki * i
    BY <1>8
  <2> QED BY <2>1, <1>3, <1>4, <1>7, <1>8 DEF Abs
<1>9. CASE ~ (i > 0)
  <2>1. m * (-i) <= ki * (-i) /\ ki * (-i) = -(ki * i)
    BY <1>9
  <2> QED BY <2>1, <1>3, <1>4, <1>7, <1>9 DEF Abs
<1> QED BY <1>8, <1>9

-----------------------------------------------------------------------------
(* The gains after a cycle: scheduled ones, or those from before.            *)
LEMMA GainsInUseBounded ==
    ASSUME NEW ramped \in Int, NEW moving, Bounded(KP, KI, KD)
    PROVE  LET gain == GainsInUse(ramped, moving)
           IN  Bounded(gain[1], gain[2], gain[3])
<1>1. CASE moving
  BY <1>1, GainsBounded DEF GainsInUse
<1>2. CASE ~ moving
  BY <1>2 DEF GainsInUse
<1> QED BY <1>1, <1>2

LEMMA CycleBounded ==
    ASSUME WindupInv, NEW height \in Heights, ControlCycle(height)
    PROVE  InputsBounded' /\ IntegralBounded'
<1> DEFINE ramped == RampToward(ramped_height, target_height, RampStep)
           gain == GainsInUse(ramped, OutOfReach(ramped_height, target_height,
                                                 RampStep))
           error == ramped - height
           derivative == IF previous_error = Sentinel
                         THEN 0 ELSE error - previous_error
           output == PidOutput(gain[1], gain[2], gain[3], error,
                               integral_error + error, derivative)
           feed == Lookup(ff_table, "base_fan_speed", ramped)
<1>1. /\ ramped_height \in 0..Ceiling /\ target_height \in 0..Ceiling
      /\ height \in 0..Ceiling /\ previous_error \in -Ceiling..Ceiling
      /\ Ceiling \in Nat /\ RampStep \in Nat \ {0} /\ integral_error \in Int
  BY ConstantsAssumption, BoundsAssumption
     DEF WindupInv, InputsBounded, TypeOK
<1>2. ramped \in 0..Ceiling
  <2>1. /\ ramped \in Int
        /\ ramped_height <= target_height =>
              ramped_height <= ramped /\ ramped <= target_height
        /\ target_height <= ramped_height =>
              target_height <= ramped /\ ramped <= ramped_height
    BY <1>1, RampMovesTowardTarget
  <2> HIDE DEF ramped
  <2> QED BY <1>1, <2>1
<1>3. error \in -Ceiling..Ceiling
  <2> HIDE DEF ramped
  <2> QED BY <1>1, <1>2
<1>4. derivative \in -(2 * Ceiling)..(2 * Ceiling)
  <2> HIDE DEF error
  <2> QED BY <1>1, <1>3
<1>5. Bounded(gain[1], gain[2], gain[3])
  <2> HIDE DEF ramped
  <2>1. Bounded(KP, KI, KD)
    BY DEF ControlCycle, WindupInv, InputsBounded, InLoop
  <2> QED BY <1>2, <2>1, GainsInUseBounded
<1>6. feed \in 0..FullSpeed
  <2>1. ff_table # <<>> /\ ff_table \in Seq(FeedRows)
    BY TablesAssumption DEF WindupInv, TypeOK
  <2> HIDE DEF ramped
  <2> QED BY <1>2, <2>1, FeedBounded DEF WindupInv, InputsBounded
<1>7. /\ ramped_height' = ramped /\ previous_error' = error
      /\ KP' = gain[1] /\ KI' = gain[2] /\ KD' = gain[3]
      /\ UNCHANGED <<target_height, ff_table, todo>>
  BY DEF ControlCycle
<1>8. integral_error' = Unwound(integral_error + error, error, feed + output,
                                FullSpeed)
  BY DEF ControlCycle
<1> HIDE DEF ramped, gain, error, derivative, output, feed
<1>9. InputsBounded'
  BY <1>2, <1>3, <1>5, <1>7 DEF WindupInv, InputsBounded
<1>10. CASE Clip(feed + output, FullSpeed) = feed + output
  <2>1. integral_error' = integral_error + error
    BY <1>8, <1>10 DEF Unwound
  <2>2. /\ gain[1] \in 0..MaxGain /\ gain[2] \in MinKi..MaxGain
        /\ gain[3] \in 0..MaxGain
    BY <1>5 DEF Bounded
  <2>3. integral_error + error \in Int /\ FullSpeed \in Nat /\ MaxGain \in Nat
        /\ MinKi \in Nat \ {0}
    BY <1>1, <1>3, ConstantsAssumption, BoundsAssumption
  <2>4. MinKi * Abs(integral_error + error) <= IntegralLimit
    BY <1>1, <1>3, <1>4, <1>6, <1>10, <2>2, <2>3, UnclippedIntegral
       DEF IntegralLimit, output
  <2> QED BY <1>9, <2>1, <2>4 DEF IntegralBounded, IntegralLimit
<1>11. CASE ~ (Clip(feed + output, FullSpeed) = feed + output)
  <2>1. error \in Int
    BY <1>1, <1>3
  <2>2. integral_error' = integral_error
    BY <1>1, <1>8, <1>11, <2>1, TakenBackWhenClipped
  <2> QED BY <1>9, <2>2 DEF WindupInv, IntegralBounded, IntegralLimit
<1> QED BY <1>9, <1>10, <1>11

(* What is left of a command line stays within bounds.                       *)
LEMMA LineBounded ==
    ASSUME WindupInv, NEW t \in Threads, todo[t] # <<>>
    PROVE  /\ Head(todo[t]) \in BoundedOptions
           /\ Done(t) \/ Return(t) \/ (\E place \in Places : GoTo(t, place))
                => todo' \in [Threads -> Seq(BoundedOptions)]
<1>1. todo \in [Threads -> Seq(BoundedOptions)]
  BY DEF WindupInv, InputsBounded
<1>2. Head(todo[t]) \in BoundedOptions /\ Tail(todo[t]) \in Seq(BoundedOptions)
  BY <1>1
<1>3. ASSUME Done(t) PROVE todo' \in [Threads -> Seq(BoundedOptions)]
  BY <1>1, <1>2, <1>3 DEF Done
<1>4. ASSUME Return(t) PROVE todo' \in [Threads -> Seq(BoundedOptions)]
  BY <1>1, <1>4 DEF Return
<1>5. ASSUME NEW place \in Places, GoTo(t, place)
      PROVE  todo' \in [Threads -> Seq(BoundedOptions)]
  BY <1>1, <1>5 DEF GoTo
<1> QED BY <1>2, <1>3, <1>4, <1>5

LEMMA WindupInit == Init => WindupInv
<1> SUFFICES ASSUME Init PROVE WindupInv
  OBVIOUS
<1>1. ~ InLoop
  BY DEF Init, InLoop
<1>2. todo \in [Threads -> Seq(BoundedOptions)]
  BY DEF Init
<1>3. IntegralBounded
  <2>1. FullSpeed \in Nat /\ MaxGain \in Nat /\ Ceiling \in Nat /\ MinKi \in Nat
    BY ConstantsAssumption, BoundsAssumption
  <2>2. MaxGain * Ceiling \in Nat
    BY <2>1
  <2>3. MinKi * Abs(integral_error) = 0
    BY <2>1 DEF Init, Abs
  <2> QED BY <2>1, <2>2, <2>3 DEF IntegralBounded, IntegralLimit
<1>4. previous_error \in -Ceiling..Ceiling
  BY BoundsAssumption DEF Init
<1>5. /\ target_height \in 0..Ceiling /\ ramped_height \in 0..Ceiling
      /\ \A i \in DOMAIN ff_table : ff_table[i].base_fan_speed \in 0..FullSpeed
  BY BoundsAssumption DEF Init
<1> QED BY <1>1, <1>2, <1>3, <1>4, <1>5, InitType DEF WindupInv, InputsBounded

LEMMA WindupStep == WindupInv /\ [Next]_vars => WindupInv'
<1> SUFFICES ASSUME WindupInv, [Next]_vars PROVE WindupInv'
  OBVIOUS
<1>1. TypeOK'
  BY NextType DEF WindupInv
<1>2. CASE Wake \/ ReadFails \/ ReadTooHigh \/ UNCHANGED vars
  BY <1>1, <1>2 DEF Wake, ReadFails, ReadTooHigh, vars, WindupInv, InLoop,
                    InputsBounded, IntegralBounded, IntegralLimit
<1>10. CASE StartFan \/ SensorMissing
  BY <1>1, <1>10 DEF StartFan, SensorMissing, WindupInv, InputsBounded,
                     InLoop, IntegralBounded, IntegralLimit
<1>11. CASE EnterLoop
  <2>1. Bounded(KP', KI', KD')
    <3>1. ramped_height \in Int
      BY DEF WindupInv, TypeOK
    <3> QED BY <1>11, <3>1, GainsBounded DEF EnterLoop
  <2> QED BY <1>1, <1>11, <2>1 DEF EnterLoop, WindupInv, InputsBounded,
                                   IntegralBounded, IntegralLimit
<1>3. ASSUME NEW height \in Heights, ControlCycle(height) PROVE WindupInv'
  BY <1>1, <1>3, CycleBounded DEF WindupInv
<1>4. ASSUME NEW t \in Threads, Issue(t) PROVE WindupInv'
  <2>1. PICK command \in Commands[t] : todo' = [todo EXCEPT ![t] = command]
    BY <1>4 DEF Issue
  <2>2. command \in Seq(BoundedOptions)
    BY BoundsAssumption
  <2>3. todo' \in [Threads -> Seq(BoundedOptions)]
    BY <2>1, <2>2 DEF WindupInv, InputsBounded
  <2> QED BY <1>1, <1>4, <2>3 DEF Issue, WindupInv, InLoop, InputsBounded,
                                  IntegralBounded, IntegralLimit
<1>5. ASSUME NEW t \in Threads, StoreGain(t) PROVE WindupInv'
  <2>1. todo[t] # <<>> /\ Done(t)
    BY <1>5 DEF StoreGain, Reads
  <2>2. /\ todo' \in [Threads -> Seq(BoundedOptions)]
        /\ Head(todo[t]) \in BoundedOptions
    BY <2>1, LineBounded
  <2>3. InLoop' => Bounded(KP', KI', KD')
    BY <1>5, <2>2 DEF StoreGain, Reads, BoundedOptions, Bounded, WindupInv,
                      InputsBounded, InLoop
  <2> QED BY <1>1, <1>5, <2>2, <2>3 DEF StoreGain, WindupInv, InLoop, InputsBounded,
                                        IntegralBounded, IntegralLimit
<1>6. ASSUME NEW t \in Threads, StoreTarget(t) PROVE WindupInv'
  <2>1. todo[t] # <<>>
    BY <1>6 DEF StoreTarget, Reads, At
  <2>2. /\ todo' \in [Threads -> Seq(BoundedOptions)]
        /\ Head(todo[t]) \in BoundedOptions
    BY <1>6, <2>1, LineBounded DEF StoreTarget, Places
  <2>3. target_height' \in 0..Ceiling
    BY <1>6, <2>2, BoundsAssumption
       DEF StoreTarget, Reads, BoundedOptions, WindupInv, InputsBounded
  <2> QED BY <1>1, <1>6, <2>2, <2>3 DEF StoreTarget, WindupInv, InLoop, InputsBounded,
                                        IntegralBounded, IntegralLimit
<1>7. ASSUME NEW t \in Threads, RejectOption(t) PROVE WindupInv'
  <2>1. todo' \in [Threads -> Seq(BoundedOptions)]
    BY <1>7, LineBounded DEF RejectOption, Reads
  <2> QED BY <1>1, <1>7, <2>1 DEF RejectOption, WindupInv, InLoop, InputsBounded,
                                  IntegralBounded, IntegralLimit
<1>8. ASSUME NEW t \in Threads, StoreFeedforward(t) PROVE WindupInv'
  <2> DEFINE option == Head(todo[t])
             i == option.index
  <2>1. todo[t] # <<>>
    BY <1>8 DEF StoreFeedforward, Reads, At
  <2>2. todo' \in [Threads -> Seq(BoundedOptions)] /\ option \in BoundedOptions
    BY <1>8, <2>1, LineBounded DEF StoreFeedforward, Places
  <2>3. \A k \in DOMAIN ff_table : ff_table[k].base_fan_speed \in 0..FullSpeed
    BY DEF WindupInv, InputsBounded
  <2>4. \/ UNCHANGED ff_table
        \/ /\ i \in DOMAIN ff_table
           /\ ff_table' = [ff_table EXCEPT ![i] =
                             Row(option.value, ff_table[i].base_fan_speed)]
        \/ /\ option.speed \in 0..FullSpeed
           /\ ff_table' = [ff_table EXCEPT ![i] =
                             Row(ff_table[i].height, option.speed)]
    BY <1>8, <2>2 DEF StoreFeedforward, BoundedOptions
  <2>5. \A k \in DOMAIN ff_table' : ff_table'[k].base_fan_speed \in 0..FullSpeed
    BY <2>3, <2>4 DEF Row
  <2> QED BY <1>1, <1>8, <2>2, <2>5 DEF StoreFeedforward, WindupInv, InLoop,
                          InputsBounded, IntegralBounded, IntegralLimit
<1>9. CASE Evaluate
  <2>1. todo["finsh"] # <<>> /\ "finsh" \in Threads
    BY <1>9 DEF Evaluate, Reads, At
  <2>2. todo' \in [Threads -> Seq(BoundedOptions)]
    BY <1>9, <2>1, LineBounded DEF Evaluate, Places
  <2>3. previous_error' \in -Ceiling..Ceiling
    BY <1>9, BoundsAssumption DEF Evaluate, WindupInv, InputsBounded
  <2>4. UNCHANGED <<target_height, ramped_height, KP, KI, KD, ff_table, main>>
        /\ (integral_error' = 0 \/ UNCHANGED integral_error)
    BY <1>9 DEF Evaluate
  <2>5. IntegralBounded'
    <3>1. CASE UNCHANGED integral_error
      BY <3>1 DEF WindupInv, IntegralBounded, IntegralLimit
    <3>2. CASE integral_error' = 0
      <4>1. FullSpeed \in Nat /\ MaxGain \in Nat /\ Ceiling \in Nat
            /\ MinKi \in Nat
        BY ConstantsAssumption, BoundsAssumption
      <4>2. MaxGain * Ceiling \in Nat
        BY <4>1
      <4>3. MinKi * Abs(integral_error') = 0
        BY <3>2, <4>1 DEF Abs
      <4> QED BY <4>1, <4>2, <4>3 DEF IntegralBounded, IntegralLimit
    <3> QED BY <2>4, <3>1, <3>2
  <2> QED BY <1>1, <2>2, <2>3, <2>4, <2>5 DEF WindupInv, InputsBounded, InLoop
<1> QED BY <1>2, <1>3, <1>4, <1>5, <1>6, <1>7, <1>8, <1>9, <1>10, <1>11
        DEF Next, TuneStep, StartUp

(* The integral stays within the limit anti-windup sets.                     *)
THEOREM IntegralIsBounded == Spec => []IntegralBounded
<1>1. WindupInv => IntegralBounded
  BY DEF WindupInv
<1> QED BY <1>1, WindupInit, WindupStep, PTL DEF Spec
=============================================================================
