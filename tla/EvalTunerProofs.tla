--------------------------- MODULE EvalTunerProofs ---------------------------
(* The tuning script for every list of profiles and trials and every ring:  *)
(* what is saved of a profile was measured for it, and a trial that finds   *)
(* the board at rest gets the score of its own evaluation, which runs with  *)
(* its own gains if nothing is left to ramp, whatever went on before it and *)
(* whatever the script sends beside it.                                     *)
EXTENDS EvalTuner, SequenceTheorems, ExtremePositions

-----------------------------------------------------------------------------
(* The trials of a profile are next to one another.                         *)
TrialsOf(t) == {k \in DOMAIN Trials : Trials[k].profile = Trials[t].profile}

LEMMA TrialsAre ==
    /\ DOMAIN Trials = 1..Len(Trials) /\ Len(Trials) \in Nat /\ 1 \in DOMAIN Trials
    /\ \A k \in DOMAIN Trials :
          /\ k \in Nat \ {0}
          /\ Trials[k].profile \in DOMAIN Targets /\ Trials[k].profile \in Nat
          /\ Trials[k].kp \in Int /\ Trials[k].ki \in Int /\ Trials[k].kd \in Int
    /\ \A p \in DOMAIN Targets : Targets[p] \in Int
<1> DEFINE R == [profile : DOMAIN Targets, kp : Int, ki : Int, kd : Int]
<1>1. Trials \in Seq(R) /\ Trials # <<>> /\ Targets \in Seq(Int)
  BY TunerAssumption
<1>2. DOMAIN Targets = 1..Len(Targets) /\ \A p \in DOMAIN Targets : Targets[p] \in Int
  BY <1>1
<1>3. \A k \in DOMAIN Trials : Trials[k] \in R
  <2> HIDE DEF R
  <2> QED BY <1>1
<1>4. \A r \in R : r.profile \in DOMAIN Targets /\ r.kp \in Int /\ r.ki \in Int
                   /\ r.kd \in Int
  OBVIOUS
<1>5. DOMAIN Trials = 1..Len(Trials) /\ Len(Trials) \in Nat /\ 1 \in DOMAIN Trials
  <2> HIDE DEF R
  <2> QED BY <1>1
<1>6. \A p \in DOMAIN Targets : p \in Nat
  BY <1>2
<1>7. \A k \in DOMAIN Trials : k \in Nat \ {0}
  BY <1>5
<1> HIDE DEF R
<1> QED BY <1>2, <1>3, <1>4, <1>5, <1>6, <1>7

LEMMA ProfilesAscend ==
    ASSUME NEW i \in DOMAIN Trials, NEW j \in DOMAIN Trials, i <= j
    PROVE  Trials[i].profile <= Trials[j].profile
<1> DEFINE P(m) == Trials[m].profile
           S == {m \in DOMAIN Trials : i < m /\ P(m) < P(i)}
<1>0. /\ DOMAIN Trials = 1..Len(Trials) /\ Len(Trials) \in Nat
      /\ \A m \in DOMAIN Trials : P(m) \in Nat
  BY TrialsAre
<1>a. \A m \in DOMAIN Trials \ {1} : P(m) \in {P(m - 1), P(m - 1) + 1}
  BY TunerAssumption
<1> HIDE DEF P
<1>1. ASSUME j \in S PROVE FALSE
  <2>1. S \in SUBSET Nat /\ S # {}
    BY <1>0, <1>1
  <2>2. PICK m \in S : \A y \in S : m <= y
    <3> HIDE DEF S
    <3> QED BY <2>1, LeastPosition
  <2>3. m \in 1..Len(Trials) /\ i < m /\ i \in 1..Len(Trials) /\ P(m) < P(i)
    BY <1>0, <2>2
  <2>4. m - 1 \in DOMAIN Trials /\ m \in DOMAIN Trials \ {1} /\ i <= m - 1
    BY <2>3, <1>0
  <2>5. P(m - 1) <= P(m)
    <3>1. P(m - 1) \in Nat
      BY <2>4, <1>0
    <3>2. P(m) \in {P(m - 1), P(m - 1) + 1}
      BY <2>4, <1>a
    <3> QED BY <3>1, <3>2
  <2>6. m - 1 \notin S
    BY <2>2, <2>3
  <2>7. P(i) <= P(m - 1)
    <3>1. CASE i = m - 1
      BY <3>1, <1>0
    <3>2. CASE i # m - 1
      <4>1. i < m - 1
        BY <3>2, <2>3, <2>4
      <4> QED BY <4>1, <2>4, <2>6, <1>0
    <3> QED BY <3>1, <3>2
  <2>8. P(i) \in Nat /\ P(m) \in Nat /\ P(m - 1) \in Nat
    BY <1>0, <2>4
  <2> QED BY <2>3, <2>5, <2>7, <2>8
<1>2. P(i) <= P(j)
  BY <1>1, <1>0
<1> QED BY <1>2 DEF P

LEMMA EndsOfProfile ==
    ASSUME NEW t \in DOMAIN Trials
    PROVE  /\ t \in TrialsOf(t) /\ TrialsOf(t) \in SUBSET DOMAIN Trials
           /\ TrialsOf(t) \in SUBSET Nat
           /\ Min(TrialsOf(t)) \in TrialsOf(t) /\ Max(TrialsOf(t)) \in TrialsOf(t)
           /\ \A k \in TrialsOf(t) :
                 Min(TrialsOf(t)) <= k /\ k <= Max(TrialsOf(t))
<1>1. /\ TrialsOf(t) \in SUBSET DOMAIN Trials /\ t \in TrialsOf(t)
      /\ TrialsOf(t) # {}
  BY DEF TrialsOf
<1>2. Len(Trials) \in Nat /\ TrialsOf(t) \in SUBSET (1..Len(Trials))
      /\ TrialsOf(t) \in SUBSET Nat
  BY <1>1, TrialsAre
<1>3. PICK n \in Nat : n = Len(Trials)
  BY <1>2
<1>4. Min(TrialsOf(t)) \in TrialsOf(t)
      /\ \A k \in TrialsOf(t) : Min(TrialsOf(t)) <= k
  BY <1>1, <1>2, LeastPosition
<1>5. Max(TrialsOf(t)) \in TrialsOf(t)
      /\ \A k \in TrialsOf(t) : k <= Max(TrialsOf(t))
  <2>1. TrialsOf(t) \in SUBSET (1..n)
    BY <1>2, <1>3
  <2> QED BY <1>1, <2>1, GreatestPosition
<1> QED BY <1>1, <1>2, <1>4, <1>5

(* The trial after a profile's last is the first of its own.                *)
LEMMA NextProfile ==
    ASSUME NEW t \in DOMAIN Trials, NEW n \in DOMAIN Trials,
           n = Max(TrialsOf(t)) + 1
    PROVE  t < n /\ Min(TrialsOf(n)) = n
<1>1. PICK m \in DOMAIN Trials : /\ m = Max(TrialsOf(t)) /\ m \in TrialsOf(t)
                                 /\ \A k \in TrialsOf(t) : k <= m
  BY EndsOfProfile
<1>2. /\ m \in Nat /\ n \in Nat /\ t \in Nat /\ n = m + 1 /\ t <= m
      /\ Trials[m].profile = Trials[t].profile
  BY <1>1, TrialsAre, EndsOfProfile DEF TrialsOf
<1>3. t < n /\ m < n
  BY <1>2
<1>4. Trials[n].profile # Trials[m].profile
  <2>1. n \notin TrialsOf(t)
    BY <1>1, <1>2
  <2> QED BY <2>1, <1>2 DEF TrialsOf
<1>5. Trials[m].profile < Trials[n].profile
  <2>1. Trials[m].profile \in Nat /\ Trials[n].profile \in Nat
    BY TrialsAre
  <2>2. m <= n
    BY <1>2
  <2>3. Trials[m].profile <= Trials[n].profile
    BY <2>2, ProfilesAscend
  <2> QED BY <2>1, <2>3, <1>4
<1>6. PICK l \in TrialsOf(n) : l = Min(TrialsOf(n)) /\ l <= n
  BY EndsOfProfile
<1>7. l \in DOMAIN Trials /\ l \in Nat /\ Trials[l].profile = Trials[n].profile
  BY <1>6, TrialsAre DEF TrialsOf
<1>8. ASSUME l < n PROVE FALSE
  <2>1. l <= m
    BY <1>8, <1>2, <1>7
  <2>2. Trials[l].profile <= Trials[m].profile
    BY <2>1, <1>7, ProfilesAscend
  <2>3. Trials[m].profile \in Nat /\ Trials[n].profile \in Nat
    BY TrialsAre
  <2> QED BY <2>2, <2>3, <1>5, <1>7
<1>9. l = n
  BY <1>6, <1>7, <1>8, <1>2
<1> QED BY <1>3, <1>6, <1>9

LEMMA SameProfile ==
    ASSUME NEW t \in DOMAIN Trials, t # Max(TrialsOf(t))
    PROVE  t + 1 \in DOMAIN Trials /\ TrialsOf(t + 1) = TrialsOf(t)
<1>1. PICK m \in DOMAIN Trials : /\ m = Max(TrialsOf(t)) /\ m \in TrialsOf(t)
                                 /\ t <= m
  BY EndsOfProfile
<1>2. m \in 1..Len(Trials) /\ t \in 1..Len(Trials) /\ Len(Trials) \in Nat /\ t < m
  BY <1>1, TrialsAre
<1>3. t + 1 \in 1..Len(Trials) /\ t <= t + 1 /\ t + 1 <= m
  BY <1>2
<1>4. t + 1 \in DOMAIN Trials
  BY <1>3, TrialsAre
<1>5. Trials[t + 1].profile = Trials[t].profile
  <2>1. /\ Trials[t].profile <= Trials[t + 1].profile
        /\ Trials[t + 1].profile <= Trials[m].profile
    BY <1>3, <1>4, ProfilesAscend
  <2>2. Trials[m].profile = Trials[t].profile
    BY <1>1 DEF TrialsOf
  <2>3. Trials[t].profile \in Nat /\ Trials[t + 1].profile \in Nat
    BY <1>4, TrialsAre
  <2> QED BY <2>1, <2>2, <2>3
<1> QED BY <1>4, <1>5 DEF TrialsOf

-----------------------------------------------------------------------------
(* What the script has noted.                                               *)
Active == {"off", "reset", "gains", "target", "eval", "wait"}

NoneFound == [p \in DOMAIN Targets |-> 0]

(* The first trial of the profile under way succeeded: otherwise the        *)
(* profile would have been skipped.                                         *)
FirstHeld ==
    script \in Active =>
        trial = Min(Mine) \/ scored[Min(Mine)] # 0

Measured(p, b) == /\ b \in DOMAIN Trials /\ Trials[b].profile = p
                  /\ scored[b] # 0

(* What was found is of trials the script will not run again.               *)
Kept ==
    \A p \in DOMAIN Targets : results[p] # 0 =>
        Measured(p, results[p]) /\ (script \in Active => results[p] < trial)

Written == saved = NoneFound \/ (script \notin Active /\ saved = results)

ScoresInv ==
    /\ trial \in DOMAIN Trials
    /\ DOMAIN scored = DOMAIN Trials
    /\ \A k \in DOMAIN Trials \ hurried : scored[k] \in {0, k}
    /\ DOMAIN results = DOMAIN Targets
    /\ FirstHeld /\ Kept /\ Written

LEMMA ScoresInvInit == TunerInit => ScoresInv
<1> SUFFICES ASSUME TunerInit PROVE ScoresInv
  OBVIOUS
<1>1. trial = 1 /\ 1 \in DOMAIN Trials /\ Mine = TrialsOf(1)
  BY TrialsAre DEF TunerInit, Mine, TrialsOf
<1>2. Min(TrialsOf(1)) = 1
  <2>1. PICK l \in DOMAIN Trials : l = Min(TrialsOf(1)) /\ l <= 1
    BY <1>1, EndsOfProfile
  <2> QED BY <2>1, TrialsAre
<1> QED BY <1>1, <1>2 DEF TunerInit, ScoresInv, FirstHeld, Kept, Written, NoneFound

(* Steps of the script in which it notes nothing.                           *)
LEMMA ScoresKept ==
    ASSUME ScoresInv, UNCHANGED <<trial, found, scored>>,
           hurried \subseteq hurried',
           script \notin Active => script' \notin Active
    PROVE  ScoresInv'
  BY DEF ScoresInv, FirstHeld, Kept, Measured, Written, Mine, found

(* A trial that gets its own result, or none, or that was hurried.          *)
LEMMA FinishInv ==
    ASSUME ScoresInv, script = "wait", NEW k, Finish(k),
           k \in {0, trial} \/ trial \in hurried
    PROVE  ScoresInv' /\ script' \in {"reset", "save"}
<1>1. /\ trial \in DOMAIN Trials /\ trial \in Nat \ {0}
      /\ scored' = [scored EXCEPT ![trial] = k]
      /\ saved' = saved /\ saved = NoneFound /\ hurried' = hurried
  BY TrialsAre DEF ScoresInv, Finish, Written, Active
<1>2. /\ DOMAIN scored' = DOMAIN Trials
      /\ scored'[trial] = k
      /\ \A j \in DOMAIN Trials : j # trial => scored'[j] = scored[j]
      /\ \A j \in DOMAIN Trials \ hurried : scored'[j] \in {0, j}
  BY <1>1 DEF ScoresInv
<1> DEFINE lo == Min(Mine)
           hi == Max(Mine)
           Held(p, b) == /\ b \in DOMAIN Trials /\ Trials[b].profile = p
                         /\ scored'[b] # 0
<1>3. /\ Mine = TrialsOf(trial)
      /\ lo \in Mine /\ hi \in Mine /\ Mine \in SUBSET DOMAIN Trials
      /\ lo \in DOMAIN Trials /\ hi \in DOMAIN Trials
  <2>1. Mine = TrialsOf(trial)
    BY DEF Mine, TrialsOf
  <2> QED BY <1>1, <2>1, EndsOfProfile
<1> HIDE DEF lo, hi
<1>4. scored'[lo] # 0 \/ Skips(k)
  BY <1>1, <1>2, <1>3 DEF Skips, lo, ScoresInv, FirstHeld, Active
<1>5. \A p \in DOMAIN Targets : results[p] # 0 =>
          Held(p, results[p]) /\ results[p] < trial
  BY <1>1, <1>2, TrialsAre DEF ScoresInv, Kept, Measured, Active
<1>6. ASSUME NEW n, GoesTo(n),
             n = hi + 1 \/ (n = trial + 1 /\ trial # hi /\ ~ Skips(k))
      PROVE  /\ trial' \in DOMAIN Trials /\ script' \in {"reset", "save"}
             /\ script' \in Active => trial < trial'
             /\ FirstHeld'
  <2>1. CASE n \notin DOMAIN Trials
    BY <1>1, <1>6, <2>1 DEF GoesTo, Active, FirstHeld
  <2>2. CASE n \in DOMAIN Trials
    <3>1. script' = "reset" /\ trial' = n /\ Mine' = TrialsOf(n)
      BY <1>6, <2>2 DEF GoesTo, Mine, TrialsOf
    <3>2. CASE n = hi + 1
      <4>1. trial < n /\ Min(TrialsOf(n)) = n
        BY <1>1, <1>3, <2>2, <3>2, NextProfile DEF hi
      <4> QED BY <2>2, <3>1, <4>1 DEF FirstHeld
    <3>3. CASE n = trial + 1 /\ trial # hi /\ ~ Skips(k)
      <4>1. TrialsOf(n) = Mine
        BY <1>1, <1>3, <3>3, SameProfile DEF hi
      <4>2. scored'[Min(Mine)'] # 0
        BY <1>4, <3>1, <3>3, <4>1 DEF lo
      <4> QED BY <1>1, <2>2, <3>1, <3>3, <4>2 DEF FirstHeld
    <3> QED BY <1>6, <3>2, <3>3
  <2> QED BY <2>1, <2>2
<1>7. ASSUME trial' \in DOMAIN Trials, script' \in {"reset", "save"},
             script' \in Active => trial < trial', FirstHeld',
             DOMAIN results' = DOMAIN Targets,
             \A p \in DOMAIN Targets : results'[p] # 0 =>
                Held(p, results'[p]) /\ results'[p] \in 0..trial
      PROVE  ScoresInv'
  <2>1. Kept'
    <3>1. trial' \in Nat
      BY <1>7, TrialsAre
    <3> QED BY <1>1, <1>7, <3>1 DEF Kept, Measured
  <2> QED BY <1>1, <1>2, <1>7, <2>1 DEF ScoresInv, Written
<1>8. \A p \in DOMAIN Targets : results[p] # 0 => results[p] \in 0..trial
  BY <1>5, <1>1, TrialsAre
<1>9. CASE \/ Skips(k) /\ GoesTo(Max(Mine) + 1) /\ UNCHANGED results
           \/ /\ ~ Skips(k) /\ trial # Max(Mine)
              /\ GoesTo(trial + 1) /\ UNCHANGED results
  <2>1. PICK n : GoesTo(n) /\ (\/ n = hi + 1
                               \/ n = trial + 1 /\ trial # hi /\ ~ Skips(k))
    BY <1>9 DEF hi
  <2>2. /\ trial' \in DOMAIN Trials /\ script' \in {"reset", "save"}
        /\ script' \in Active => trial < trial'
        /\ FirstHeld'
    BY <1>6, <2>1
  <2>3. results' = results /\ DOMAIN results = DOMAIN Targets
    BY <1>9 DEF ScoresInv
  <2> QED BY <1>5, <1>7, <1>8, <2>2, <2>3
<1>10. CASE /\ ~ Skips(k) /\ trial = Max(Mine) /\ GoesTo(trial + 1)
            /\ \E best \in Best :
                  results' = [results EXCEPT ![Trials[trial].profile] = best]
  <2>1. PICK best \in Best :
          results' = [results EXCEPT ![Trials[trial].profile] = best]
    BY <1>10
  <2>2. best \in Mine /\ scored'[best] # 0
    <3>1. lo \in {j \in Mine : scored'[j] # 0}
      BY <1>3, <1>4, <1>10
    <3> QED BY <2>1, <3>1 DEF Best
  <2>3. Held(Trials[trial].profile, best) /\ best \in 0..trial
    <3>1. best <= hi /\ best \in Nat /\ hi = trial
      BY <1>1, <1>3, <1>10, <2>2, EndsOfProfile, TrialsAre DEF hi
    <3>2. Trials[best].profile = Trials[trial].profile /\ best \in DOMAIN Trials
      BY <2>2 DEF Mine
    <3> QED BY <1>2, <2>2, <3>1, <3>2
  <2>4. /\ trial' \in DOMAIN Trials /\ script' \in {"reset", "save"}
        /\ script' \in Active => trial < trial'
        /\ FirstHeld'
    BY <1>6, <1>10 DEF hi
  <2>5. DOMAIN results' = DOMAIN Targets /\
        \A p \in DOMAIN Targets : \/ results'[p] = results[p]
                                  \/ p = Trials[trial].profile /\ results'[p] = best
    BY <2>1 DEF ScoresInv
  <2>6. \A p \in DOMAIN Targets : results'[p] # 0 =>
            Held(p, results'[p]) /\ results'[p] \in 0..trial
    BY <1>5, <1>8, <2>3, <2>5
  <2> QED BY <1>7, <2>4, <2>5, <2>6
<1> QED
  <2>1. script' \in {"reset", "save"}
    BY <1>9, <1>10 DEF Finish, GoesTo
  <2> QED BY <1>9, <1>10, <2>1 DEF Finish

-----------------------------------------------------------------------------
(* What the board is at: the shell is within a line that the script sends,  *)
(* and so are the lines that wait.                                          *)
Tried == {Trials[k] : k \in DOMAIN Trials}
Zero == [kp |-> 0, ki |-> 0, kd |-> 0]

TargetLines == {TargetLine(k) : k \in DOMAIN Trials}
GainLines == {Gains(g) : g \in Tried \cup {Zero}}
Lines == GainLines \cup TargetLines \cup {Evaluation(k) : k \in DOMAIN Trials}

(* A line of gains from its second and from its third option on.            *)
AfterKp(g) == <<Option("-i", g.ki), Option("-d", g.kd)>>
AfterKi(g) == <<Option("-d", g.kd)>>

InUse(g) == KP = g.kp /\ KI = g.ki /\ KD = g.kd

(* Every height the setpoint is sent to.                                    *)
Aims == {InitialHeight} \cup {Targets[p] : p \in DOMAIN Targets}

AtAims == target_height \in Aims /\ ramped_height \in Int

ShellIs == "finsh" \in DOMAIN todo /\ "finsh" \in DOMAIN pc

EvalPlaces == {"option", "e_previous", "e_total", "e_on", "e_wait", "e_off",
               "e_print"}
Evaluates(k) ==
    todo["finsh"] = Evaluation(k) /\ started = k /\ pc["finsh"] \in EvalPlaces

ShellLine ==
    \/ todo["finsh"] = <<>> /\ pc["finsh"] = "option"
    \/ /\ pc["finsh"] = "option"
       /\ \E g \in Tried \cup {Zero} :
             todo["finsh"] = Gains(g) \/ todo["finsh"] = AfterKp(g)
             \/ todo["finsh"] = AfterKi(g)
    \/ /\ todo["finsh"] \in TargetLines
       /\ pc["finsh"] = "option" \/ pc["finsh"] = "clamp_test"
    \/ \E k \in DOMAIN Trials : Evaluates(k)

Opened == IF script = "off" THEN CaughtUp ELSE InLoop

BoardInv ==
    /\ AtAims /\ Opened /\ ShellIs /\ ShellLine
    /\ is_evaluating <=> InWindow
    /\ serial \in Seq(Lines)

(* Neither now nor with the target of trial k is anything left to ramp.     *)
InReach(k) ==
    /\ target_height \in {ramped_height, Targets[Trials[k].profile]}
    /\ ~ OutOfReach(ramped_height, Targets[Trials[k].profile], RampStep)

Ready(k) == settled => InUse(Trials[k]) /\ InReach(k)

(* Gains that the shell is about to store.                                  *)
Sets(k) ==
    LET g == Trials[k]
    IN  /\ \/ todo["finsh"] = Gains(g)
           \/ todo["finsh"] = AfterKp(g) /\ (settled => KP = g.kp)
           \/ todo["finsh"] = AfterKi(g) /\ (settled => KP = g.kp /\ KI = g.ki)
           \/ todo["finsh"] = <<>> /\ (settled => InUse(g))
        /\ settled => InReach(k)

(* The only line on the way, which the shell has not begun with.            *)
Waits(line) == serial = <<line>> /\ todo["finsh"] = <<>>

NotEvaluating == \A k \in DOMAIN Trials : todo["finsh"] # Evaluation(k)

(* How far a trial is that has found the board at rest so far.              *)
Cleared == /\ output = <<>>
           /\ \/ Waits(NoGains)
              \/ serial = <<>> /\ NotEvaluating
Preparing == /\ output = <<>>
             /\ \/ Waits(Gains(Trials[trial]))
                \/ serial = <<>> /\ Sets(trial)
Aiming == /\ output = <<>> /\ Ready(trial)
          /\ \/ Waits(TargetLine(trial))
             \/ serial = <<>> /\ todo["finsh"] \in {<<>>, TargetLine(trial)}
Measuring ==
    \/ Waits(Evaluation(trial)) /\ output = <<>>
    \/ serial = <<>> /\ todo["finsh"] = Evaluation(trial) /\ output = <<>>
    \/ CaughtUp /\ output \in {<<>>, <<trial>>}

InStep ==
    trial \notin hurried =>
        /\ script = "gains" => Cleared
        /\ script = "target" => Preparing
        /\ script = "eval" => Aiming
        /\ script = "wait" => Measuring

(* The evaluations to come of trials that were not hurried, also of one the *)
(* script has given up.                                                     *)
Coming ==
    \A k \in DOMAIN Trials \ hurried :
        /\ \A i \in DOMAIN serial : serial[i] = Evaluation(k) =>
              i = 1 /\ todo["finsh"] = <<>> /\ Ready(k)
        /\ todo["finsh"] = Evaluation(k) => Ready(k)

LineInv == BoardInv /\ InStep /\ Coming

LEMMA LineInvInit == TunerInit => LineInv
<1> SUFFICES ASSUME TunerInit PROVE LineInv
  OBVIOUS
<1>1. /\ script = "off" /\ serial = <<>> /\ todo["finsh"] = <<>>
      /\ pc["finsh"] = "option" /\ ShellIs
      /\ target_height = InitialHeight /\ ramped_height = InitialHeight
      /\ is_evaluating = FALSE
  BY DEF TunerInit, Init, ShellIs, Threads
<1>2. AtAims
  BY <1>1, ConstantsAssumption DEF AtAims, Aims
<1>3. serial \in Seq(Lines) /\ DOMAIN serial = {}
  BY <1>1
<1>4. \A k : todo["finsh"] # Evaluation(k)
  BY <1>1 DEF Evaluation
<1> QED BY <1>1, <1>2, <1>3, <1>4
        DEF LineInv, BoardInv, InStep, Coming, ShellLine, Opened, CaughtUp, InWindow

(* The options of a line.                                                   *)
LEMMA GainsOptions ==
    ASSUME NEW g
    PROVE  /\ Gains(g) # <<>> /\ Head(Gains(g)).name = "-p"
           /\ Head(Gains(g)).value = g.kp /\ Tail(Gains(g)) = AfterKp(g)
           /\ AfterKp(g) # <<>> /\ Head(AfterKp(g)).name = "-i"
           /\ Head(AfterKp(g)).value = g.ki /\ Tail(AfterKp(g)) = AfterKi(g)
           /\ AfterKi(g) # <<>> /\ Head(AfterKi(g)).name = "-d"
           /\ Head(AfterKi(g)).value = g.kd /\ Tail(AfterKi(g)) = <<>>
<1> DEFINE a == Option("-p", g.kp)
           b == Option("-i", g.ki)
           c == Option("-d", g.kd)
<1>1. /\ a.name = "-p" /\ a.value = g.kp /\ b.name = "-i" /\ b.value = g.ki
      /\ c.name = "-d" /\ c.value = g.kd
  BY DEF Option
<1>2. Gains(g) = <<a, b, c>> /\ AfterKp(g) = <<b, c>> /\ AfterKi(g) = <<c>>
  BY DEF Gains, AfterKp, AfterKi
<1> HIDE DEF a, b, c
<1>3. /\ <<a, b, c>> # <<>> /\ Head(<<a, b, c>>) = a /\ Tail(<<a, b, c>>) = <<b, c>>
      /\ <<b, c>> # <<>> /\ Head(<<b, c>>) = b /\ Tail(<<b, c>>) = <<c>>
      /\ <<c>> # <<>> /\ Head(<<c>>) = c /\ Tail(<<c>>) = <<>>
  OBVIOUS
<1> QED BY <1>1, <1>2, <1>3

LEMMA OtherOptions ==
    ASSUME NEW k \in DOMAIN Trials
    PROVE  /\ TargetLine(k) # <<>> /\ Head(TargetLine(k)).name = "-t"
           /\ Head(TargetLine(k)).value \in Aims
           /\ Tail(TargetLine(k)) = <<>>
           /\ Evaluation(k) # <<>> /\ Head(Evaluation(k)).name = "pid_eval"
           /\ Head(Evaluation(k)).index = k
           /\ Tail(Evaluation(k)) = <<>>
<1> DEFINE a == Option("-t", Targets[Trials[k].profile])
           b == [Option("pid_eval", 0) EXCEPT !.index = k]
<1>1. a.name = "-t" /\ a.value = Targets[Trials[k].profile]
  BY DEF Option
<1>2. b.name = "pid_eval" /\ b.index = k
  BY DEF Option
<1>3. TargetLine(k) = <<a>> /\ Evaluation(k) = <<b>>
  BY DEF TargetLine, Evaluation
<1>4. Targets[Trials[k].profile] \in Aims
  BY TrialsAre DEF Aims
<1> HIDE DEF a, b
<1>5. /\ <<a>> # <<>> /\ Head(<<a>>) = a /\ Tail(<<a>>) = <<>>
      /\ <<b>> # <<>> /\ Head(<<b>>) = b /\ Tail(<<b>>) = <<>>
  OBVIOUS
<1> QED BY <1>1, <1>2, <1>3, <1>4, <1>5

LEMMA AimsAre == \A a \in Aims : a \in Int /\ a >= MinHeight
  BY TrialsAre, ConstantsAssumption, TunerAssumption DEF Aims

(* The shell's next step, by the option it is at.                           *)
LEMMA ShellAt ==
    ASSUME ShellLine, todo["finsh"] # <<>>
    PROVE  LET f == todo["finsh"]
           IN  \/ /\ Head(f).name = "-p" \/ Head(f).name = "-i" \/ Head(f).name = "-d"
                  /\ pc["finsh"] = "option"
               \/ /\ Head(f).name = "-t" /\ Tail(f) = <<>>
                  /\ Head(f).value \in Aims
                  /\ pc["finsh"] = "option" \/ pc["finsh"] = "clamp_test"
               \/ /\ Head(f).name = "pid_eval" /\ Tail(f) = <<>>
                  /\ pc["finsh"] \in EvalPlaces
<1>1. CASE /\ pc["finsh"] = "option"
           /\ \E g \in Tried \cup {Zero} :
                 todo["finsh"] = Gains(g) \/ todo["finsh"] = AfterKp(g)
                 \/ todo["finsh"] = AfterKi(g)
  <2>1. PICK g : \/ todo["finsh"] = Gains(g) \/ todo["finsh"] = AfterKp(g)
                 \/ todo["finsh"] = AfterKi(g)
    BY <1>1
  <2> QED BY <1>1, <2>1, GainsOptions
<1>2. CASE /\ todo["finsh"] \in TargetLines
           /\ pc["finsh"] = "option" \/ pc["finsh"] = "clamp_test"
  <2>1. PICK k \in DOMAIN Trials : todo["finsh"] = TargetLine(k)
    BY <1>2 DEF TargetLines
  <2> QED BY <1>2, <2>1, OtherOptions
<1>3. CASE \E k \in DOMAIN Trials : Evaluates(k)
  <2>1. PICK k \in DOMAIN Trials : Evaluates(k)
    BY <1>3
  <2> QED BY <2>1, OtherOptions DEF Evaluates
<1> QED BY <1>1, <1>2, <1>3 DEF ShellLine

(* An evaluation ends with its print, and not before.                       *)
LEMMA PrintEnds ==
    ASSUME ShellIs, ShellLine, ShellRuns, NEW k \in DOMAIN Trials,
           todo["finsh"] = Evaluation(k)
    PROVE  IF pc["finsh"] = "e_print" THEN todo'["finsh"] = <<>>
           ELSE todo'["finsh"] = todo["finsh"]
<1> DEFINE f == todo["finsh"]
<1>1. f # <<>> /\ Head(f).name = "pid_eval" /\ Tail(f) = <<>>
  BY OtherOptions
<1>2. CASE pc["finsh"] = "e_print"
  <2>1. Done("finsh")
    BY <1>1, <1>2 DEF ShellRuns, TuneStep, StoreGain, StoreTarget, RejectOption,
                      StoreFeedforward, Evaluate, Reads, At
  <2> QED BY <1>1, <1>2, <2>1 DEF Done, ShellIs
<1>3. CASE pc["finsh"] # "e_print"
  <2>1. CASE Evaluate
    <3>1. UNCHANGED todo
      BY <1>3, <2>1 DEF Evaluate, Reads, At, GoTo
    <3> QED BY <1>3, <3>1
  <2>2. CASE TuneStep("finsh")
    <3>1. pc["finsh"] \in {"clamp_test", "clamp", "ff_speed"}
      BY <1>1, <2>2 DEF TuneStep, StoreGain, StoreTarget, RejectOption,
                        StoreFeedforward, Reads, At
    <3>2. pc["finsh"] \in EvalPlaces
      BY <1>1, ShellAt
    <3> QED BY <3>1, <3>2 DEF EvalPlaces
  <2> QED BY <2>1, <2>2 DEF ShellRuns
<1> QED BY <1>2, <1>3

StoresKp == LET f == todo["finsh"] IN
    /\ Head(f).name = "-p" /\ KP' = Head(f).value /\ UNCHANGED <<KI, KD>>
    /\ todo'["finsh"] = Tail(f) /\ pc'["finsh"] = "option"
    /\ UNCHANGED <<setpoint, is_evaluating>> /\ pc["finsh"] = "option"
StoresKi == LET f == todo["finsh"] IN
    /\ Head(f).name = "-i" /\ KI' = Head(f).value /\ UNCHANGED <<KP, KD>>
    /\ todo'["finsh"] = Tail(f) /\ pc'["finsh"] = "option"
    /\ UNCHANGED <<setpoint, is_evaluating>> /\ pc["finsh"] = "option"
StoresKd == LET f == todo["finsh"] IN
    /\ Head(f).name = "-d" /\ KD' = Head(f).value /\ UNCHANGED <<KP, KI>>
    /\ todo'["finsh"] = Tail(f) /\ pc'["finsh"] = "option"
    /\ UNCHANGED <<setpoint, is_evaluating>> /\ pc["finsh"] = "option"
StoresTarget == LET f == todo["finsh"] IN
    /\ Head(f).name = "-t" /\ UNCHANGED <<gains, ramped_height, is_evaluating>>
    /\ target_height' = target_height \/ target_height' = Head(f).value
    /\ \/ todo'["finsh"] = f /\ pc'["finsh"] = "clamp_test"
       \/ todo'["finsh"] = <<>> /\ pc'["finsh"] = "option"
    /\ Head(f).value \in Aims
    /\ pc["finsh"] = "option" \/ pc["finsh"] = "clamp_test"
RunsEvaluation == LET f == todo["finsh"] IN
    /\ Head(f).name = "pid_eval" /\ UNCHANGED <<gains, setpoint>>
    /\ \/ todo'["finsh"] = f /\ pc'["finsh"] \in EvalPlaces
       \/ todo'["finsh"] = <<>> /\ pc'["finsh"] = "option"
    /\ (is_evaluating <=> InWindow) => (is_evaluating <=> InWindow)'

LEMMA ShellSteps ==
    ASSUME ShellIs, ShellLine, AtAims, ShellRuns
    PROVE  /\ ShellIs' /\ todo["finsh"] # <<>>
           /\ StoresKp \/ StoresKi \/ StoresKd \/ StoresTarget \/ RunsEvaluation
<1> DEFINE f == todo["finsh"]
<1>1. f # <<>>
  BY DEF ShellRuns, TuneStep, StoreGain, StoreTarget, RejectOption,
         StoreFeedforward, Evaluate, Reads, At
<1>2. \/ /\ Head(f).name = "-p" \/ Head(f).name = "-i" \/ Head(f).name = "-d"
         /\ pc["finsh"] = "option"
      \/ /\ Head(f).name = "-t" /\ Tail(f) = <<>> /\ Head(f).value \in Aims
         /\ pc["finsh"] = "option" \/ pc["finsh"] = "clamp_test"
      \/ /\ Head(f).name = "pid_eval" /\ Tail(f) = <<>>
         /\ pc["finsh"] \in EvalPlaces
  BY <1>1, ShellAt
<1>3. ShellIs'
  BY DEF ShellRuns, TuneStep, StoreGain, StoreTarget, RejectOption, ShellIs,
         StoreFeedforward, Evaluate, Done, GoTo, Return
<1>4. ~ RejectOption("finsh") /\ ~ StoreFeedforward("finsh")
  BY <1>2 DEF RejectOption, StoreFeedforward, Reads, At, EvalPlaces
<1>5. CASE StoreGain("finsh")
  <2>1. /\ todo'["finsh"] = Tail(f) /\ pc'["finsh"] = "option"
        /\ pc["finsh"] = "option"
        /\ UNCHANGED <<setpoint, is_evaluating>>
    BY <1>5 DEF StoreGain, Done, Reads, ShellIs, evaluation
  <2> QED BY <1>5, <1>3, <1>1, <2>1 DEF StoreGain, Reads, StoresKp, StoresKi, StoresKd
<1>6. CASE StoreTarget("finsh")
  <2>1. ~ BelowMinimum
    BY AimsAre, ConstantsAssumption DEF BelowMinimum, AtAims
  <2>2. Head(f).name = "-t" /\ Tail(f) = <<>> /\ Head(f).value \in Aims
    BY <1>2, <1>6 DEF StoreTarget, Reads, At, EvalPlaces
  <2>3. pc["finsh"] = "option" \/ pc["finsh"] = "clamp_test"
    BY <1>2, <2>2
  <2>4. \/ target_height' = Head(f).value /\ GoTo("finsh", "clamp_test")
        \/ target_height' = target_height /\ Done("finsh")
    BY <1>6, <2>1, <2>3 DEF StoreTarget, Reads, At
  <2>5. UNCHANGED <<gains, ramped_height, is_evaluating>>
    BY <1>6 DEF StoreTarget, evaluation
  <2>6. \/ todo'["finsh"] = f /\ pc'["finsh"] = "clamp_test"
        \/ todo'["finsh"] = <<>> /\ pc'["finsh"] = "option"
    BY <2>2, <2>4 DEF GoTo, Done, ShellIs
  <2> QED BY <1>1, <1>3, <2>2, <2>3, <2>4, <2>5, <2>6 DEF StoresTarget
<1>7. CASE Evaluate
  <2>1. Head(f).name = "pid_eval" /\ Tail(f) = <<>>
    BY <1>2, <1>7 DEF Evaluate, Reads, At
  <2>2. UNCHANGED <<gains, setpoint>>
    BY <1>7 DEF Evaluate
  <2>3. CASE pc["finsh"] = "e_print"
    <3>1. Done("finsh") /\ is_evaluating' = is_evaluating
      BY <1>7, <2>3 DEF Evaluate, Reads, At
    <3>2. todo'["finsh"] = <<>> /\ pc'["finsh"] = "option"
      BY <3>1, <2>1 DEF Done, ShellIs
    <3> QED BY <1>1, <1>3, <2>1, <2>2, <2>3, <3>1, <3>2 DEF RunsEvaluation, InWindow
  <2>4. CASE pc["finsh"] # "e_print"
    <3>1. /\ todo'["finsh"] = f /\ pc'["finsh"] \in EvalPlaces
      BY <1>7, <2>4 DEF Evaluate, Reads, At, GoTo, ShellIs, EvalPlaces
    <3>2. (is_evaluating <=> InWindow) => (is_evaluating <=> InWindow)'
      BY <1>7, <2>4 DEF Evaluate, Reads, At, GoTo, ShellIs, InWindow, evaluation
    <3> QED BY <1>1, <1>3, <2>1, <2>2, <3>1, <3>2 DEF RunsEvaluation
  <2> QED BY <2>3, <2>4
<1> QED BY <1>4, <1>5, <1>6, <1>7 DEF ShellRuns, TuneStep

LEMMA ShellLineRuns ==
    ASSUME ShellIs, ShellLine, AtAims, ShellRuns, is_evaluating <=> InWindow
    PROVE  ShellLine' /\ AtAims' /\ (is_evaluating <=> InWindow)'
<1> DEFINE f == todo["finsh"]
<1>1. f # <<>> /\ (StoresKp \/ StoresKi \/ StoresKd \/ StoresTarget \/ RunsEvaluation)
  BY ShellSteps
<1>2. ASSUME StoresKp \/ StoresKi \/ StoresKd
      PROVE  ShellLine' /\ AtAims' /\ (is_evaluating <=> InWindow)'
  <2>1. /\ todo'["finsh"] = Tail(f) /\ pc'["finsh"] = "option"
        /\ Head(f).name = "-p" \/ Head(f).name = "-i" \/ Head(f).name = "-d"
        /\ UNCHANGED <<setpoint, is_evaluating>> /\ pc["finsh"] = "option"
    BY <1>2 DEF StoresKp, StoresKi, StoresKd
  <2>2. PICK g \in Tried \cup {Zero} :
          f = Gains(g) \/ f = AfterKp(g) \/ f = AfterKi(g)
    <3>1. CASE f \in TargetLines
      BY <3>1, <2>1, OtherOptions DEF TargetLines
    <3>2. CASE \E k \in DOMAIN Trials : Evaluates(k)
      BY <3>2, <2>1, OtherOptions DEF Evaluates
    <3> QED BY <1>1, <3>1, <3>2 DEF ShellLine
  <2>3. Tail(f) = AfterKp(g) \/ Tail(f) = AfterKi(g) \/ Tail(f) = <<>>
    BY <2>2, GainsOptions
  <2>4. ShellLine'
    BY <2>1, <2>2, <2>3 DEF ShellLine
  <2> QED BY <2>1, <2>4 DEF AtAims, setpoint, InWindow
<1>3. CASE StoresTarget
  <2>1. f \in TargetLines
    <3>1. ASSUME NEW g PROVE f # Gains(g) /\ f # AfterKp(g) /\ f # AfterKi(g)
      BY <1>3, GainsOptions DEF StoresTarget
    <3>2. ~ \E k \in DOMAIN Trials : Evaluates(k)
      BY <1>3, OtherOptions DEF StoresTarget, Evaluates
    <3> QED BY <1>1, <3>1, <3>2 DEF ShellLine
  <2>2. ShellLine'
    BY <1>3, <2>1 DEF StoresTarget, ShellLine
  <2>3. ~ InWindow /\ ~ InWindow'
    BY <1>3 DEF StoresTarget, InWindow
  <2> QED BY <1>3, <2>2, <2>3 DEF StoresTarget, AtAims
<1>4. CASE RunsEvaluation
  <2>1. PICK k \in DOMAIN Trials : Evaluates(k)
    <3>1. ASSUME NEW g PROVE f # Gains(g) /\ f # AfterKp(g) /\ f # AfterKi(g)
      BY <1>4, GainsOptions DEF RunsEvaluation
    <3>2. f \notin TargetLines
      BY <1>4, OtherOptions DEF RunsEvaluation, TargetLines
    <3> QED BY <1>1, <3>1, <3>2 DEF ShellLine
  <2>2. started' = started
    BY DEF ShellRuns, histories
  <2>3. ShellLine'
    <3>1. CASE todo'["finsh"] = <<>> /\ pc'["finsh"] = "option"
      BY <3>1 DEF ShellLine
    <3>2. CASE todo'["finsh"] = f /\ pc'["finsh"] \in EvalPlaces
      <4>1. Evaluates(k)'
        BY <1>4, <2>1, <2>2, <3>2
           DEF RunsEvaluation, Evaluates, Evaluation
      <4> QED BY <4>1 DEF ShellLine
    <3> QED BY <1>4, <3>1, <3>2 DEF RunsEvaluation
  <2> QED BY <1>4, <2>3 DEF RunsEvaluation, AtAims, setpoint
<1> QED BY <1>1, <1>2, <1>3, <1>4

LEMMA Shifted ==
    ASSUME NEW S, NEW q \in Seq(S), q # <<>>
    PROVE  /\ Tail(q) \in Seq(S) /\ Len(q) \in Nat \ {0}
           /\ DOMAIN q = 1..Len(q) /\ Len(Tail(q)) = Len(q) - 1
           /\ DOMAIN Tail(q) = 1..(Len(q) - 1)
           /\ \A i \in 1..(Len(q) - 1) : Tail(q)[i] = q[i + 1]
           /\ Head(q) = q[1]
<1>1. Len(q) \in Nat /\ DOMAIN q = 1..Len(q) /\ Head(q) = q[1]
  OBVIOUS
<1>2. Len(q) # 0
  BY EmptySeq
<1> QED BY <1>1, <1>2, HeadTailProperties

LEMMA ScriptLines ==
    ASSUME NEW k \in DOMAIN Trials
    PROVE  /\ NoGains \in Lines /\ Gains(Trials[k]) \in Lines
           /\ TargetLine(k) \in Lines /\ Evaluation(k) \in Lines
  BY DEF Lines, GainLines, TargetLines, Tried, Zero, NoGains

(* Lines of different kinds, or evaluations of different trials, differ.    *)
LEMMA LinesDiffer ==
    /\ \A k \in DOMAIN Trials : \A g :
          Evaluation(k) # Gains(g) /\ Evaluation(k) # <<>>
          /\ Evaluation(k) # AfterKp(g) /\ Evaluation(k) # AfterKi(g)
    /\ \A j, k \in DOMAIN Trials :
          /\ Evaluation(k) # TargetLine(j)
          /\ Evaluation(k) = Evaluation(j) => k = j
    /\ \A k \in DOMAIN Trials : Evaluation(k) # NoGains
<1>1. \A k \in DOMAIN Trials :
         Evaluation(k) # <<>> /\ Head(Evaluation(k)).name = "pid_eval"
         /\ Head(Evaluation(k)).index = k
  BY OtherOptions
<1>2. \A g : Head(Gains(g)).name # "pid_eval" /\ Head(AfterKp(g)).name # "pid_eval"
             /\ Head(AfterKi(g)).name # "pid_eval"
  BY GainsOptions
<1>3. \A j \in DOMAIN Trials : Head(TargetLine(j)).name # "pid_eval"
  BY OtherOptions
<1>4. Head(NoGains).name # "pid_eval"
  BY <1>2 DEF NoGains
<1> QED BY <1>1, <1>2, <1>3, <1>4

(* A cycle that has nothing to ramp leaves the gains.                       *)
LEMMA CycleKeepsReach ==
    ASSUME AtAims, NEW k \in DOMAIN Trials, InReach(k),
           NEW height \in Heights, ControlCycle(height)
    PROVE  InReach(k)' /\ UNCHANGED <<KP, KI, KD>>
<1> DEFINE T == Targets[Trials[k].profile]
<1>1. T \in Int /\ ramped_height \in Int /\ RampStep \in Nat
  BY TrialsAre, ConstantsAssumption DEF AtAims
<1>2. target_height = ramped_height \/ target_height = T
  BY DEF InReach
<1>3. \A x \in Int : ~ OutOfReach(x, x, RampStep)
  BY <1>1 DEF OutOfReach, Abs
<1>4. ~ OutOfReach(ramped_height, target_height, RampStep)
  BY <1>1, <1>2, <1>3 DEF InReach
<1>5. /\ ramped_height' = target_height /\ UNCHANGED <<KP, KI, KD>>
      /\ target_height' = target_height
  BY <1>4 DEF ControlCycle, GainsInUse, RampToward, gains
<1>6. ~ OutOfReach(target_height, T, RampStep)
  BY <1>1, <1>2, <1>3 DEF InReach
<1> QED BY <1>2, <1>5, <1>6 DEF InReach

LEMMA RampedIsInt ==
    ASSUME AtAims, NEW height \in Heights, ControlCycle(height)
    PROVE  AtAims'
<1>1. target_height \in Int /\ ramped_height \in Int /\ RampStep \in Nat
  BY AimsAre, ConstantsAssumption DEF AtAims
<1>2. ramped_height' = RampToward(ramped_height, target_height, RampStep)
      /\ target_height' = target_height
  BY DEF ControlCycle
<1> QED BY <1>1, <1>2 DEF AtAims, RampToward

(* The control loop beside the line.                                        *)
LEMMA LoopLines ==
    ASSUME LineInv, trial \in DOMAIN Trials, LoopRuns PROVE LineInv'
<1>1. UNCHANGED <<script, trial, serial, output, started, hurried, settled>>
  BY DEF LoopRuns, tuner, histories
<1>2. UNCHANGED <<todo, pc, target_height, is_evaluating>>
  BY DEF LoopRuns, StartUp, StartFan, EnterLoop, SensorMissing, Wake, ReadFails,
         ReadTooHigh, ControlCycle, vars, setpoint, evaluation
<1>3. ShellIs' /\ ShellLine' /\ (is_evaluating <=> InWindow)' /\ serial' \in Seq(Lines)
  BY <1>1, <1>2 DEF LineInv, BoardInv, ShellIs, ShellLine, Evaluates, InWindow
<1>4. CASE StartUp
  <2>1. main = "starting" \/ main = "opening"
    BY <1>4 DEF StartUp, StartFan, EnterLoop, SensorMissing
  <2>2. script = "off" /\ serial = <<>> /\ todo["finsh"] = <<>>
    BY <2>1 DEF LineInv, BoardInv, Opened, InLoop, CaughtUp
  <2>3. ramped_height' = ramped_height
    BY <1>4 DEF StartUp, StartFan, EnterLoop, SensorMissing, setpoint
  <2>4. AtAims' /\ Opened'
    BY <1>1, <1>2, <2>2, <2>3 DEF LineInv, BoardInv, AtAims, Opened, CaughtUp
  <2>5. InStep' /\ Coming'
    <3>1. DOMAIN serial' = {}
      BY <1>1, <2>2
    <3>2. \A k \in DOMAIN Trials : todo'["finsh"] # Evaluation(k)
      BY <1>2, <2>2, LinesDiffer
    <3> QED BY <1>1, <2>2, <3>1, <3>2 DEF InStep, Coming, Evaluation
  <2> QED BY <1>3, <2>4, <2>5 DEF LineInv, BoardInv
<1>5. CASE ~ StartUp
  <2>1. ASSUME NEW k \in DOMAIN Trials, InReach(k)
        PROVE  InReach(k)' /\ UNCHANGED <<KP, KI, KD>>
    <3>1. CASE \E height \in Heights : ControlCycle(height)
      BY <3>1, <2>1, CycleKeepsReach DEF LineInv, BoardInv
    <3>2. CASE Wake \/ ReadFails \/ ReadTooHigh
      BY <3>2, <2>1 DEF Wake, ReadFails, ReadTooHigh, vars, setpoint, gains, InReach
    <3> QED BY <1>5, <3>1, <3>2 DEF LoopRuns
  <2>2. AtAims' /\ Opened'
    <3>1. CASE \E height \in Heights : ControlCycle(height)
      <4>1. main' = "sleeping"
        BY <3>1 DEF ControlCycle
      <4> QED BY <3>1, <4>1, <1>1, <1>2, RampedIsInt
          DEF LineInv, BoardInv, Opened, InLoop, CaughtUp
    <3>2. CASE Wake \/ ReadFails \/ ReadTooHigh
      <4>1. InLoop' /\ UNCHANGED ramped_height
        BY <3>2 DEF Wake, ReadFails, ReadTooHigh, vars, setpoint, InLoop
      <4> QED BY <4>1, <1>1, <1>2 DEF LineInv, BoardInv, AtAims, Opened, CaughtUp
    <3> QED BY <1>5, <3>1, <3>2 DEF LoopRuns
  <2>3. \A k \in DOMAIN Trials : Ready(k) => Ready(k)'
    BY <1>1, <2>1 DEF Ready, InUse
  <2>4. Sets(trial) => Sets(trial)'
    <3>1. PICK t \in DOMAIN Trials : t = trial
      OBVIOUS
    <3>2. InReach(t) => InReach(t)' /\ UNCHANGED <<KP, KI, KD>>
      BY <2>1
    <3> QED BY <1>1, <1>2, <3>1, <3>2 DEF Sets, InUse
  <2>5. InStep'
    BY <1>1, <1>2, <2>3, <2>4
       DEF LineInv, InStep, Cleared, Preparing, Aiming, Measuring, Waits,
           NotEvaluating, CaughtUp, TargetLine, Evaluation
  <2>6. Coming'
    BY <1>1, <1>2, <2>3 DEF LineInv, Coming, Evaluation
  <2> QED BY <1>3, <2>2, <2>5, <2>6 DEF LineInv, BoardInv
<1> QED BY <1>4, <1>5

(* The shell takes the first of the lines.                                  *)
LEMMA ReadsLine ==
    ASSUME LineInv, trial \in DOMAIN Trials, ShellReads PROVE LineInv'
<1>1. /\ serial # <<>> /\ serial' = Tail(serial) /\ todo["finsh"] = <<>>
      /\ todo' = [todo EXCEPT !["finsh"] = Head(serial)]
      /\ started' = IF Head(serial)[1].name = "pid_eval"
                    THEN Head(serial)[1].index ELSE started
      /\ settled' = IF Head(serial)[1].name = "-p" THEN Settled ELSE settled
      /\ UNCHANGED <<script, trial, output, hurried, pc, main, KP, KI, KD>>
      /\ UNCHANGED <<target_height, ramped_height, is_evaluating>>
  BY DEF ShellReads, gains, setpoint, evaluation
<1> DEFINE line == Head(serial)
<1>2. /\ serial' \in Seq(Lines) /\ line = serial[1] /\ line \in Lines
      /\ 1 \in DOMAIN serial
      /\ \A i \in DOMAIN serial' : i + 1 \in DOMAIN serial /\ i + 1 # 1
                                   /\ serial'[i] = serial[i + 1]
  <2>1. serial \in Seq(Lines)
    BY DEF LineInv, BoardInv
  <2>2. PICK n \in Nat \ {0} : n = Len(serial)
    BY <1>1, <2>1, Shifted
  <2>3. /\ serial' \in Seq(Lines) /\ DOMAIN serial = 1..n
        /\ DOMAIN serial' = 1..(n - 1) /\ line = serial[1]
        /\ \A i \in 1..(n - 1) : serial'[i] = serial[i + 1]
    BY <1>1, <2>1, <2>2, Shifted
  <2>4. \A i \in 1..(n - 1) : i + 1 \in 1..n /\ i + 1 # 1
    OBVIOUS
  <2>5. serial[1] \in Lines
    BY <2>1, <2>2, <2>3
  <2> HIDE DEF line
  <2> QED BY <2>2, <2>3, <2>4, <2>5
<1>3. todo'["finsh"] = line /\ ShellIs' /\ pc'["finsh"] = "option"
      /\ pc["finsh"] = "option"
  <2>1. ShellIs /\ ShellLine
    BY DEF LineInv, BoardInv
  <2>2. pc["finsh"] = "option"
    BY <1>1, <2>1, GainsOptions, OtherOptions DEF ShellLine, TargetLines, Evaluates
  <2> QED BY <1>1, <2>1, <2>2 DEF ShellIs
<1>4. /\ line[1].name = Head(line).name /\ line[1].index = Head(line).index
  <2> HIDE DEF line
  <2>1. \/ \E g : line = Gains(g)
        \/ \E k \in DOMAIN Trials : line = TargetLine(k) \/ line = Evaluation(k)
    BY <1>2 DEF Lines, GainLines, TargetLines
  <2> QED BY <2>1 DEF Gains, TargetLine, Evaluation
<1>5. \A k \in DOMAIN Trials : line = Evaluation(k) =>
          started' = k /\ settled' = settled
  BY <1>1, <1>4, OtherOptions
<1>6. \A k \in DOMAIN Trials : line = TargetLine(k) => settled' = settled
  BY <1>1, <1>4, OtherOptions
<1> HIDE DEF line
<1>7. BoardInv'
  <2>1. ShellLine'
    <3>1. CASE line \in GainLines
      BY <1>3, <3>1 DEF ShellLine, GainLines
    <3>2. CASE line \in TargetLines
      BY <1>3, <3>2 DEF ShellLine
    <3>3. CASE \E k \in DOMAIN Trials : line = Evaluation(k)
      BY <1>3, <1>5, <3>3 DEF ShellLine, Evaluates, EvalPlaces, Evaluation
    <3> QED BY <1>2, <3>1, <3>2, <3>3 DEF Lines
  <2>2. script # "off"
    BY <1>1 DEF LineInv, BoardInv, Opened, CaughtUp
  <2> QED BY <1>1, <1>2, <1>3, <2>1, <2>2
          DEF LineInv, BoardInv, AtAims, Opened, InLoop, InWindow
<1>8. InStep'
  <2> SUFFICES ASSUME trial \notin hurried PROVE InStep'
    BY <1>1 DEF InStep
  <2>0. Gains(Trials[trial]) # <<>> /\ \A x, y : <<x>> = <<y>> => x = y
    BY GainsOptions
  <2>1. \A x : serial = <<x>> => line = x /\ serial' = <<>>
    BY <1>1 DEF line
  <2>2. CASE script = "gains"
    <3>1. Cleared /\ serial = <<NoGains>>
      BY <1>1, <2>2 DEF LineInv, InStep, Cleared, Waits
    <3>2. NotEvaluating' /\ serial' = <<>>
      BY <1>3, <2>1, <3>1, LinesDiffer DEF NotEvaluating, Evaluation
    <3> QED BY <1>1, <2>2, <3>1, <3>2 DEF InStep, Cleared
  <2>3. CASE script = "target"
    <3>1. Preparing /\ serial = <<Gains(Trials[trial])>>
      BY <1>1, <2>3 DEF LineInv, InStep, Preparing, Waits
    <3>2. line = Gains(Trials[trial]) /\ serial' = <<>> /\ settled' = Settled
      <4>1. line = Gains(Trials[trial]) /\ serial' = <<>>
        BY <2>1, <3>1
      <4>2. line[1].name = "-p"
        BY <1>4, <4>1, GainsOptions
      <4> QED BY <1>1, <4>1, <4>2 DEF line
    <3>3. Settled => InReach(trial)'
      BY <1>1 DEF Settled, InReach
    <3>4. Sets(trial)'
      BY <1>1, <1>3, <3>2, <3>3 DEF Sets, Gains, Option
    <3> QED BY <1>1, <2>3, <3>1, <3>2, <3>4 DEF InStep, Preparing
  <2>4. CASE script = "eval"
    <3>1. Aiming /\ serial = <<TargetLine(trial)>>
      BY <1>1, <2>4 DEF LineInv, InStep, Aiming, Waits
    <3>2. line = TargetLine(trial) /\ serial' = <<>> /\ settled' = settled
      BY <1>6, <2>1, <3>1
    <3>3. Ready(trial)'
      BY <1>1, <3>1, <3>2 DEF Aiming, Ready, InUse, InReach
    <3> QED BY <1>1, <1>3, <2>4, <3>1, <3>2, <3>3 DEF InStep, Aiming, TargetLine
  <2>5. CASE script = "wait"
    <3>1. serial = <<Evaluation(trial)>> /\ output = <<>>
      BY <1>1, <2>5 DEF LineInv, InStep, Measuring, Waits, CaughtUp
    <3>2. line = Evaluation(trial) /\ serial' = <<>>
      BY <2>1, <3>1
    <3> QED BY <1>1, <1>3, <2>5, <3>1, <3>2 DEF InStep, Measuring, Evaluation
  <2> QED BY <1>1, <2>2, <2>3, <2>4, <2>5 DEF InStep
<1>9. Coming'
  <2> SUFFICES ASSUME NEW k \in DOMAIN Trials \ hurried
               PROVE  /\ \A i \in DOMAIN serial' : serial'[i] # Evaluation(k)
                      /\ todo'["finsh"] = Evaluation(k) => Ready(k)'
    BY <1>1 DEF Coming, Evaluation
  <2>1. \A i \in DOMAIN serial : serial[i] = Evaluation(k) => i = 1 /\ Ready(k)
    BY DEF LineInv, Coming
  <2>2. \A i \in DOMAIN serial' : serial'[i] # Evaluation(k)
    BY <1>2, <2>1
  <2>3. ASSUME line = Evaluation(k) PROVE Ready(k)'
    <3>1. Ready(k) /\ settled' = settled
      BY <1>2, <1>5, <2>1, <2>3
    <3> QED BY <1>1, <3>1 DEF Ready, InUse, InReach
  <2> QED BY <1>3, <2>2, <2>3
<1> QED BY <1>7, <1>8, <1>9 DEF LineInv

(* The steps of the shell within a line.                                    *)
LEMMA RunsLine ==
    ASSUME LineInv, trial \in DOMAIN Trials, ShellRuns PROVE LineInv'
<1> DEFINE f == todo["finsh"]
<1>1. UNCHANGED <<script, trial, serial, started, hurried, settled>>
  BY DEF ShellRuns, histories
<1>2. /\ ShellIs' /\ f # <<>>
      /\ StoresKp \/ StoresKi \/ StoresKd \/ StoresTarget \/ RunsEvaluation
  BY ShellSteps DEF LineInv, BoardInv
<1>3. ShellLine' /\ AtAims' /\ (is_evaluating <=> InWindow)'
  BY ShellLineRuns DEF LineInv, BoardInv
<1>4. main' = main
  BY DEF ShellRuns, TuneStep, StoreGain, StoreTarget, RejectOption,
         StoreFeedforward, Evaluate
<1>5. BoardInv'
  BY <1>1, <1>2, <1>3, <1>4 DEF LineInv, BoardInv, Opened, InLoop, CaughtUp
<1>6. \A k \in DOMAIN Trials : f # Evaluation(k) => todo'["finsh"] # Evaluation(k)
  <2> TAKE k \in DOMAIN Trials
  <2>1. CASE \E g : f = Gains(g) \/ f = AfterKp(g) \/ f = AfterKi(g)
    <3>1. PICK g : f = Gains(g) \/ f = AfterKp(g) \/ f = AfterKi(g)
      BY <2>1
    <3>2. Head(f).name # "-t" /\ Head(f).name # "pid_eval"
      BY <3>1, GainsOptions
    <3>3. todo'["finsh"] = Tail(f)
      BY <1>2, <3>2 DEF StoresKp, StoresKi, StoresKd, StoresTarget, RunsEvaluation
    <3>4. Tail(f) = AfterKp(g) \/ Tail(f) = AfterKi(g) \/ Tail(f) = <<>>
      BY <3>1, GainsOptions
    <3> QED BY <3>3, <3>4, LinesDiffer
  <2>2. CASE \E j \in DOMAIN Trials : f = TargetLine(j) \/ f = Evaluation(j)
    <3>1. Head(f).name = "-t" \/ Head(f).name = "pid_eval"
      BY <2>2, OtherOptions
    <3>2. todo'["finsh"] = f \/ todo'["finsh"] = <<>>
      BY <1>2, <3>1 DEF StoresKp, StoresKi, StoresKd, StoresTarget, RunsEvaluation
    <3> QED BY <3>2, LinesDiffer
  <2> QED BY <1>2, <2>1, <2>2
          DEF LineInv, BoardInv, ShellLine, TargetLines, Evaluates
<1>7. \A k \in DOMAIN Trials :
         Head(f).name = "pid_eval" => (Ready(k) => Ready(k)')
  <2>1. Head(f).name = "pid_eval" => UNCHANGED <<gains, setpoint>>
    BY <1>2 DEF StoresKp, StoresKi, StoresKd, StoresTarget, RunsEvaluation
  <2> QED BY <1>1, <2>1 DEF Ready, InUse, InReach, gains, setpoint
<1>8. Coming'
  <2> SUFFICES ASSUME NEW k \in DOMAIN Trials \ hurried
               PROVE  /\ \A i \in DOMAIN serial : serial[i] # Evaluation(k)
                      /\ todo'["finsh"] = Evaluation(k) => Ready(k)'
    BY <1>1 DEF Coming, Evaluation
  <2>1. \A i \in DOMAIN serial : serial[i] # Evaluation(k)
    BY <1>2 DEF LineInv, Coming
  <2>2. ASSUME f = Evaluation(k) PROVE Ready(k)'
    <3>1. Ready(k) /\ Head(f).name = "pid_eval"
      BY <2>2, OtherOptions DEF LineInv, Coming
    <3> QED BY <1>7, <3>1
  <2> QED BY <1>6, <2>1, <2>2
<1>9. InStep'
  <2> SUFFICES ASSUME trial \notin hurried PROVE InStep'
    BY <1>1 DEF InStep
  <2>0. Head(f).name # "pid_eval" => output' = output
    <3>1. CASE pc["finsh"] = "e_print"
      <4>1. Head(f).name = "pid_eval"
        BY <3>1, <1>2, ShellAt DEF LineInv, BoardInv
      <4> QED BY <4>1
    <3>2. CASE pc["finsh"] # "e_print"
      BY <3>2 DEF ShellRuns
    <3> QED BY <3>1, <3>2
  <2>1. ~ \E line : Waits(line)
    BY <1>2 DEF Waits
  <2>2. CASE script = "gains"
    <3>1. output = <<>> /\ serial = <<>> /\ NotEvaluating
      BY <2>1, <2>2 DEF LineInv, InStep, Cleared
    <3>2. Head(f).name # "pid_eval"
      BY <1>2, <3>1, GainsOptions, OtherOptions
         DEF LineInv, BoardInv, ShellLine, TargetLines, Evaluates, NotEvaluating
    <3>3. NotEvaluating'
      BY <1>6, <3>1 DEF NotEvaluating, Evaluation
    <3> QED BY <1>1, <2>0, <2>2, <3>1, <3>2, <3>3 DEF InStep, Cleared
  <2>3. CASE script = "target"
    <3> DEFINE g == Trials[trial]
    <3>1. output = <<>> /\ serial = <<>> /\ Sets(trial)
      BY <2>1, <2>3 DEF LineInv, InStep, Preparing
    <3>2. /\ \/ f = Gains(g)
             \/ f = AfterKp(g) /\ (settled => KP = g.kp)
             \/ f = AfterKi(g) /\ (settled => KP = g.kp /\ KI = g.ki)
          /\ settled => InReach(trial)
      BY <1>2, <3>1 DEF Sets
    <3>3. Head(f).name # "pid_eval" /\ Head(f).name # "-t"
      BY <3>2, GainsOptions
    <3>4. StoresKp \/ StoresKi \/ StoresKd
      BY <1>2, <3>3 DEF StoresTarget, RunsEvaluation
    <3>5. settled => InReach(trial)'
      BY <1>1, <3>2, <3>4 DEF StoresKp, StoresKi, StoresKd, InReach, setpoint
    <3>6. \/ todo'["finsh"] = AfterKp(g) /\ KP' = g.kp
          \/ todo'["finsh"] = AfterKi(g) /\ (settled => KP' = g.kp) /\ KI' = g.ki
          \/ todo'["finsh"] = <<>> /\ (settled => KP' = g.kp /\ KI' = g.ki)
             /\ KD' = g.kd
      <4>1. CASE f = Gains(g)
        BY <4>1, <3>4, GainsOptions DEF StoresKp, StoresKi, StoresKd
      <4>2. CASE f = AfterKp(g) /\ (settled => KP = g.kp)
        BY <4>2, <3>4, GainsOptions DEF StoresKp, StoresKi, StoresKd
      <4>3. CASE f = AfterKi(g) /\ (settled => KP = g.kp /\ KI = g.ki)
        BY <4>3, <3>4, GainsOptions DEF StoresKp, StoresKi, StoresKd
      <4> QED BY <3>2, <4>1, <4>2, <4>3
    <3> HIDE DEF f
    <3>7. Sets(trial)'
      BY <1>1, <3>5, <3>6 DEF Sets, InUse, AfterKp, AfterKi
    <3> QED BY <1>1, <2>0, <2>3, <3>1, <3>3, <3>7 DEF InStep, Preparing
  <2>4. CASE script = "eval"
    <3>1. output = <<>> /\ serial = <<>> /\ f = TargetLine(trial) /\ Ready(trial)
      BY <1>2, <2>1, <2>4 DEF LineInv, InStep, Aiming
    <3>2. /\ Head(f).name = "-t" /\ Head(f).value = Targets[Trials[trial].profile]
      BY <3>1 DEF TargetLine, Option
    <3>3. StoresTarget
      BY <1>2, <3>2 DEF StoresKp, StoresKi, StoresKd, RunsEvaluation
    <3>4. Ready(trial)'
      BY <1>1, <3>1, <3>2, <3>3 DEF StoresTarget, Ready, InUse, InReach, gains
    <3>5. todo'["finsh"] \in {<<>>, TargetLine(trial)}
      BY <3>1, <3>3 DEF StoresTarget
    <3> QED BY <1>1, <2>0, <2>4, <3>1, <3>2, <3>4, <3>5
            DEF InStep, Aiming, TargetLine
  <2>5. CASE script = "wait"
    <3>1. serial = <<>> /\ f = Evaluation(trial) /\ output = <<>>
      BY <1>2, <2>1, <2>5 DEF LineInv, InStep, Measuring, CaughtUp
    <3>2. Head(f).name = "pid_eval" /\ RunsEvaluation /\ started = trial
      <4>1. Head(f).name = "pid_eval"
        BY <3>1, OtherOptions
      <4>2. PICK k \in DOMAIN Trials : Evaluates(k)
        BY <1>2, <4>1, GainsOptions, OtherOptions
           DEF LineInv, BoardInv, ShellLine, TargetLines
      <4>3. k = trial
        BY <3>1, <4>2, LinesDiffer DEF Evaluates
      <4> QED BY <1>2, <4>1, <4>2, <4>3
              DEF Evaluates, StoresKp, StoresKi, StoresKd, StoresTarget
    <3>3. CASE pc["finsh"] = "e_print"
      <4>1. output' = <<trial>>
        BY <3>1, <3>2, <3>3 DEF ShellRuns
      <4>2. todo'["finsh"] = <<>>
        BY <3>1, <3>2, <3>3, PrintEnds DEF LineInv, BoardInv
      <4> QED BY <1>1, <2>5, <3>1, <4>1, <4>2 DEF InStep, Measuring, CaughtUp
    <3>4. CASE pc["finsh"] # "e_print"
      <4>1. output' = <<>>
        BY <3>1, <3>4 DEF ShellRuns
      <4>2. todo'["finsh"] = f
        BY <3>1, <3>2, <3>4, PrintEnds DEF LineInv, BoardInv
      <4> QED BY <1>1, <2>5, <3>1, <4>1, <4>2
              DEF InStep, Measuring, Evaluation
    <3> QED BY <3>3, <3>4
  <2> QED BY <1>1, <2>2, <2>3, <2>4, <2>5 DEF InStep
<1> QED BY <1>5, <1>8, <1>9 DEF LineInv

(* The ring keeps the last lines, the new one among them.                   *)
LEMMA ReceivedIs ==
    ASSUME NEW S, NEW lines \in Seq(S), NEW line \in S
    PROVE  /\ Received(lines, line) \in Seq(S)
           /\ \A i \in DOMAIN Received(lines, line) :
                 /\ i \in Nat \ {0}
                 /\ \/ Received(lines, line)[i] = line
                    \/ \E j \in DOMAIN lines :
                          i <= j /\ Received(lines, line)[i] = lines[j]
           /\ lines = <<>> => Len(Received(lines, line)) = 1
                              /\ Received(lines, line)[1] = line
<1> DEFINE all == Append(lines, line)
           Load(m) == SumFunction([k \in m..Len(all) |-> Bytes(all[k])])
           F == {m \in DOMAIN all : m = Len(all) \/ Load(m) < RingSize}
           ring == SubSeq(all, Min(F), Len(all))
<1>1. PICK n \in Nat : n = Len(lines)
  BY LenProperties
<1>2. /\ all \in Seq(S) /\ Len(all) = n + 1 /\ DOMAIN all = 1..(n + 1)
      /\ DOMAIN lines = 1..n
      /\ \A i \in 1..(n + 1) : all[i] \in S
      /\ \A i \in 1..n : all[i] = lines[i]
      /\ all[n + 1] = line
  BY <1>1, AppendProperties
<1>3. Received(lines, line) = ring
  BY DEF Received
<1> HIDE DEF all, Load
<1>4. F \in SUBSET Nat /\ F # {} /\ F \subseteq 1..(n + 1)
  <2>1. n + 1 \in F
    BY <1>2
  <2>2. F \subseteq DOMAIN all
    OBVIOUS
  <2>3. 1..(n + 1) \subseteq Nat
    OBVIOUS
  <2> HIDE DEF F
  <2> QED BY <1>2, <2>1, <2>2, <2>3
<1>5. PICK m \in 1..(n + 1) : m = Min(F)
  <2> HIDE DEF F
  <2> QED BY <1>4, LeastPosition
<1> HIDE DEF F
<1>6. /\ ring \in Seq(S) /\ Len(ring) = n + 1 - m + 1
      /\ \A i \in 1..(n + 1 - m + 1) : ring[i] = all[m + i - 1]
  <2>1. ring = SubSeq(all, m, n + 1)
    BY <1>2, <1>5
  <2>2. \A i \in m..(n + 1) : all[i] \in S
    BY <1>2
  <2>3. m \in Int /\ n + 1 \in Int /\ m <= n + 1
    OBVIOUS
  <2>4. (n + 1) - m + 1 = n + 1 - m + 1
    OBVIOUS
  <2> HIDE DEF ring
  <2> QED BY <2>1, <2>2, <2>3, <2>4, SubSeqProperties
<1> HIDE DEF ring
<1>7. DOMAIN ring = 1..(n + 1 - m + 1)
  BY <1>6
<1>8. ASSUME NEW i \in DOMAIN ring
      PROVE  /\ i \in Nat \ {0}
             /\ \/ ring[i] = line
                \/ \E j \in DOMAIN lines : i <= j /\ ring[i] = lines[j]
  <2>1. /\ i \in Nat \ {0} /\ i <= m + i - 1
        /\ m + i - 1 \in 1..n \/ m + i - 1 = n + 1
    BY <1>7
  <2>2. ring[i] = all[m + i - 1]
    BY <1>6, <1>7
  <2> QED BY <1>2, <2>1, <2>2
<1>9. lines = <<>> => Len(ring) = 1 /\ ring[1] = line
  <2> SUFFICES ASSUME lines = <<>> PROVE Len(ring) = 1 /\ ring[1] = line
    OBVIOUS
  <2>1. n = 0 /\ m = 1
    BY <1>1
  <2>2. ring[1] = all[m + 1 - 1]
    BY <1>6, <2>1
  <2> QED BY <1>2, <1>6, <2>1, <2>2
<1> QED BY <1>3, <1>6, <1>8, <1>9

(* Sending a line.  A trial that is not hurried by it has it alone on the   *)
(* way; an evaluation only follows gains and target that are ready.         *)
LEMMA SendsLine ==
    ASSUME LineInv, NEW t \in DOMAIN Trials, t = trial, NEW from, NEW to,
           NEW line \in Lines, Sends(from, to, line),
           from # "off", to # "off",
           Hurries \/ UNCHANGED hurried,
           \A k \in DOMAIN Trials \ hurried' :
              line = Evaluation(k) => CaughtUp /\ Ready(k)
    PROVE  /\ BoardInv' /\ Coming'
           /\ UNCHANGED <<trial, todo, started, settled, KP, KI, KD,
                          target_height, ramped_height>>
           /\ \/ /\ script' = to /\ output' = <<>>
                 /\ CaughtUp => serial' = <<line>>
              \/ script' \in {"last", "closed"}
<1>1. /\ script = from /\ serial' \in {serial, Received(serial, line)}
      /\ UNCHANGED <<trial, todo, pc, started, settled, KP, KI, KD, main>>
      /\ UNCHANGED <<target_height, ramped_height, is_evaluating>>
  BY DEF Sends, tunnel, vars, gains, setpoint, evaluation
<1>2. serial \in Seq(Lines)
  BY DEF LineInv, BoardInv
<1> DEFINE ring == Received(serial, line)
<1>3. /\ ring \in Seq(Lines)
      /\ \A i \in DOMAIN ring :
            /\ i \in Nat \ {0}
            /\ \/ ring[i] = line
               \/ \E j \in DOMAIN serial : i <= j /\ ring[i] = serial[j]
      /\ serial = <<>> => Len(ring) = 1 /\ ring[1] = line
  BY <1>2, ReceivedIs
<1>4. \/ script' = to /\ output' = <<>> /\ serial' = ring
      \/ script' \in {"last", "closed"}
  BY DEF Sends, Discarded
<1> HIDE DEF ring
<1>6. BoardInv'
  <2>1. serial' \in Seq(Lines)
    BY <1>1, <1>2, <1>3 DEF ring
  <2>2. script' # "off" /\ InLoop
    BY <1>1, <1>4 DEF LineInv, BoardInv, Opened
  <2> QED BY <1>1, <2>1, <2>2
          DEF LineInv, BoardInv, AtAims, Opened, InLoop, ShellIs, ShellLine,
              Evaluates, InWindow
<1>7. Coming'
  <2> SUFFICES ASSUME NEW k \in DOMAIN Trials \ hurried'
               PROVE  /\ \A i \in DOMAIN serial' : serial'[i] = Evaluation(k) =>
                            i = 1 /\ todo["finsh"] = <<>> /\ Ready(k)
                      /\ todo["finsh"] = Evaluation(k) => Ready(k)
    BY <1>1 DEF Coming, Ready, InUse, InReach, Evaluation
  <2>1. k \in DOMAIN Trials \ hurried
    BY DEF Hurries
  <2>2. /\ \A i \in DOMAIN serial : serial[i] = Evaluation(k) =>
              i = 1 /\ todo["finsh"] = <<>> /\ Ready(k)
        /\ todo["finsh"] = Evaluation(k) => Ready(k)
    BY <2>1 DEF LineInv, Coming
  <2>3. ASSUME NEW i \in DOMAIN ring, ring[i] = Evaluation(k)
        PROVE  i = 1 /\ todo["finsh"] = <<>> /\ Ready(k)
    <3>1. CASE \E j \in DOMAIN serial : i <= j /\ ring[i] = serial[j]
      <4>1. PICK j \in DOMAIN serial : i <= j /\ ring[i] = serial[j]
        BY <3>1
      <4>2. j = 1 /\ todo["finsh"] = <<>> /\ Ready(k)
        BY <2>2, <2>3, <4>1
      <4> QED BY <1>3, <4>1, <4>2
    <3>2. CASE ring[i] = line
      <4>1. CaughtUp /\ Ready(k)
        BY <2>3, <3>2
      <4>2. Len(ring) = 1
        BY <1>3, <4>1 DEF CaughtUp
      <4>3. i \in 1..1
        BY <1>3, <4>2
      <4> QED BY <4>1, <4>3 DEF CaughtUp
    <3> QED BY <1>3, <3>1, <3>2
  <2> QED BY <1>1, <2>2, <2>3 DEF ring
<1>8. serial' = ring /\ CaughtUp => serial' = <<line>>
  <2> SUFFICES ASSUME serial' = ring, CaughtUp PROVE ring = <<line>>
    OBVIOUS
  <2>1. Len(ring) = 1 /\ ring[1] = line /\ ring \in Seq(Lines)
    BY <1>3 DEF CaughtUp
  <2> QED BY <2>1
<1> QED BY <1>1, <1>4, <1>6, <1>7, <1>8

LEMMA SendingLines ==
    ASSUME LineInv, trial \in DOMAIN Trials,
           SendReset \/ SendGains \/ SendTarget \/ SendEval \/ SendLast
    PROVE  LineInv'
<1>1. PICK t \in DOMAIN Trials : t = trial
  OBVIOUS
<1>l. /\ NoGains \in Lines /\ Gains(Trials[t]) \in Lines
      /\ TargetLine(t) \in Lines /\ Evaluation(t) \in Lines
  BY ScriptLines
<1>n. \A k \in DOMAIN Trials :
         /\ NoGains # Evaluation(k) /\ Gains(Trials[t]) # Evaluation(k)
         /\ TargetLine(t) # Evaluation(k)
  BY LinesDiffer
<1>h. Hurries => (trial \notin hurried' => CaughtUp /\ trial \notin hurried)
  BY DEF Hurries
<1>2. CASE SendLast
  <2>1. Sends("last", "closed", NoGains) /\ UNCHANGED hurried
    BY <1>2 DEF SendLast
  <2>2. BoardInv' /\ Coming' /\ script' \in {"last", "closed"}
    BY <1>1, <1>l, <1>n, <2>1, SendsLine
  <2> QED BY <2>2 DEF LineInv, InStep
<1>3. CASE SendReset
  <2>1. Sends("reset", "gains", NoGains) /\ Hurries
    BY <1>3 DEF SendReset
  <2>2. /\ BoardInv' /\ Coming' /\ UNCHANGED <<trial, todo>>
        /\ \/ /\ script' = "gains" /\ output' = <<>>
              /\ CaughtUp => serial' = <<NoGains>>
           \/ script' \in {"last", "closed"}
    BY <1>1, <1>l, <1>n, <2>1, SendsLine
  <2>3. InStep'
    <3> SUFFICES ASSUME trial' \notin hurried', script' = "gains"
                 PROVE  Cleared'
      BY <2>2 DEF InStep
    <3>1. CaughtUp
      BY <1>h, <2>1, <2>2
    <3> QED BY <2>2, <3>1 DEF Cleared, Waits, CaughtUp
  <2> QED BY <2>2, <2>3 DEF LineInv
<1>4. CASE SendGains
  <2>1. Sends("gains", "target", Gains(Trials[t])) /\ Hurries
    BY <1>1, <1>4 DEF SendGains
  <2>2. /\ BoardInv' /\ Coming' /\ UNCHANGED <<trial, todo>>
        /\ \/ /\ script' = "target" /\ output' = <<>>
              /\ CaughtUp => serial' = <<Gains(Trials[t])>>
           \/ script' \in {"last", "closed"}
    BY <1>1, <1>l, <1>n, <2>1, SendsLine
  <2>3. InStep'
    <3> SUFFICES ASSUME trial' \notin hurried', script' = "target"
                 PROVE  Preparing'
      BY <2>2 DEF InStep
    <3>1. CaughtUp
      BY <1>h, <2>1, <2>2
    <3> QED BY <1>1, <2>2, <3>1 DEF Preparing, Waits, CaughtUp
  <2> QED BY <2>2, <2>3 DEF LineInv
<1>5. CASE SendTarget
  <2>1. Sends("target", "eval", TargetLine(t)) /\ Hurries
    BY <1>1, <1>5 DEF SendTarget
  <2>2. /\ BoardInv' /\ Coming'
        /\ UNCHANGED <<trial, todo, settled, KP, KI, KD, target_height,
                       ramped_height>>
        /\ \/ /\ script' = "eval" /\ output' = <<>>
              /\ CaughtUp => serial' = <<TargetLine(t)>>
           \/ script' \in {"last", "closed"}
    BY <1>1, <1>l, <1>n, <2>1, SendsLine
  <2>3. InStep'
    <3> SUFFICES ASSUME trial' \notin hurried', script' = "eval"
                 PROVE  Aiming'
      BY <2>2 DEF InStep
    <3>1. CaughtUp /\ trial \notin hurried
      BY <1>h, <2>1, <2>2
    <3>2. Ready(trial)
      <4>1. Sets(trial)
        BY <2>1, <3>1 DEF LineInv, InStep, Preparing, Sends, Waits, CaughtUp
      <4> QED BY <3>1, <4>1, GainsOptions DEF Sets, Ready, CaughtUp
    <3>3. Ready(trial)'
      BY <2>2, <3>2 DEF Ready, InUse, InReach
    <3> QED BY <1>1, <2>2, <3>1, <3>3 DEF Aiming, Waits, CaughtUp
  <2> QED BY <2>2, <2>3 DEF LineInv
<1>6. CASE SendEval
  <2>1. Sends("eval", "wait", Evaluation(t)) /\ Hurries
    BY <1>1, <1>6 DEF SendEval
  <2>2. \A k \in DOMAIN Trials \ hurried' :
           Evaluation(t) = Evaluation(k) => CaughtUp /\ Ready(k)
    <3> SUFFICES ASSUME trial \notin hurried' PROVE CaughtUp /\ Ready(trial)
      BY <1>1, LinesDiffer
    <3>1. CaughtUp /\ trial \notin hurried
      BY <1>h, <2>1
    <3> QED BY <2>1, <3>1 DEF LineInv, InStep, Aiming, Sends
  <2>3. /\ BoardInv' /\ Coming' /\ UNCHANGED <<trial, todo>>
        /\ \/ /\ script' = "wait" /\ output' = <<>>
              /\ CaughtUp => serial' = <<Evaluation(t)>>
           \/ script' \in {"last", "closed"}
    BY <1>1, <1>l, <2>1, <2>2, SendsLine
  <2>4. InStep'
    <3> SUFFICES ASSUME trial' \notin hurried', script' = "wait"
                 PROVE  Measuring'
      BY <2>3 DEF InStep
    <3>1. CaughtUp
      BY <1>h, <2>1, <2>3
    <3> QED BY <1>1, <2>3, <3>1 DEF Measuring, Waits, CaughtUp
  <2> QED BY <2>3, <2>4 DEF LineInv
<1> QED BY <1>2, <1>3, <1>4, <1>5, <1>6

(* Between two trials, and at the end, nothing is on its way for the next.  *)
LEMMA LinesLeft ==
    ASSUME LineInv, UNCHANGED <<tunnel, serial, started, hurried, settled>>,
           script # "off" \/ InLoop,
           script' \in {"reset", "save", "last", "closed"}
    PROVE  LineInv'
<1>1. /\ UNCHANGED <<todo, pc, KP, KI, KD, main>>
      /\ UNCHANGED <<target_height, ramped_height, is_evaluating>>
  BY DEF tunnel, vars, gains, setpoint, evaluation
<1>2. InLoop
  BY DEF LineInv, BoardInv, Opened
<1>3. BoardInv'
  BY <1>1, <1>2
     DEF LineInv, BoardInv, AtAims, Opened, InLoop, ShellIs, ShellLine,
         Evaluates, InWindow
<1>4. Coming'
  BY <1>1 DEF LineInv, Coming, Ready, InUse, InReach, Evaluation
<1> QED BY <1>3, <1>4 DEF LineInv, InStep

-----------------------------------------------------------------------------
TunerInv == ScoresInv /\ LineInv

LEMMA ResultsInv ==
    ASSUME TunerInv, GetResult \/ ReadError \/ GiveUp
    PROVE  TunerInv'
<1>1. script = "wait" /\ trial \in DOMAIN Trials
  BY DEF GetResult, ReadError, GiveUp, TunerInv, ScoresInv
<1>2. PICK k : Finish(k) /\ (k \in {0, trial} \/ trial \in hurried)
  <2>1. CASE GetResult
    <3>1. output # <<>> /\ (Finish(Head(output)) \/ Finish(0))
      BY <2>1 DEF GetResult
    <3>2. trial \notin hurried => output = <<trial>>
      BY <1>1, <3>1 DEF TunerInv, LineInv, InStep, Measuring
    <3>3. trial \notin hurried => Head(output) = trial
      BY <3>2
    <3> QED BY <3>1, <3>3
  <2>2. CASE ReadError \/ GiveUp
    BY <2>2 DEF ReadError, GiveUp
  <2> QED BY <2>1, <2>2
<1>3. ScoresInv' /\ script' \in {"reset", "save"}
  BY <1>1, <1>2, FinishInv DEF TunerInv
<1>4. UNCHANGED <<tunnel, serial, started, hurried, settled>>
  BY <1>2 DEF Finish
<1>5. LineInv'
  BY <1>1, <1>3, <1>4, LinesLeft DEF TunerInv
<1> QED BY <1>3, <1>5 DEF TunerInv

LEMMA TunerInvNext == TunerInv /\ [TunerNext]_tunervars => TunerInv'
<1> SUFFICES ASSUME TunerInv, [TunerNext]_tunervars PROVE TunerInv'
  OBVIOUS
<1>1. trial \in DOMAIN Trials
  BY DEF TunerInv, ScoresInv
<1>2. CASE GetResult \/ ReadError \/ GiveUp
  BY <1>2, ResultsInv
<1>3. CASE SendReset \/ SendGains \/ SendTarget \/ SendEval \/ SendLast
  <2>1. ScoresInv'
    BY <1>3, ScoresKept DEF TunerInv, SendReset, SendGains, SendTarget, SendEval,
                            SendLast, Sends, Hurries, Active
  <2> QED BY <1>1, <1>3, <2>1, SendingLines DEF TunerInv
<1>4. CASE OpenPort
  <2>1. /\ UNCHANGED <<tunnel, serial, trial, found>> /\ InLoop
        /\ UNCHANGED <<started, scored, hurried, settled>>
        /\ script = "off" /\ script' \in {"reset", "closed"}
    BY <1>4 DEF OpenPort, histories
  <2>2. ScoresInv'
    BY <2>1, ScoresKept DEF TunerInv, Active
  <2> QED BY <2>1, <2>2, LinesLeft DEF TunerInv
<1>5. CASE Save
  <2>1. /\ UNCHANGED <<tunnel, serial, trial, results>>
        /\ UNCHANGED <<started, scored, hurried, settled>>
        /\ script = "save" /\ script' = "last"
        /\ saved' = results \/ saved' = NoneFound
    BY <1>5 DEF Save, histories, NoneFound
  <2>2. ScoresInv'
    BY <2>1 DEF TunerInv, ScoresInv, FirstHeld, Kept, Measured, Written, Active,
                NoneFound
  <2> QED BY <2>1, <2>2, LinesLeft DEF TunerInv
<1>6. CASE ShellReads \/ ShellRuns
  <2>1. UNCHANGED <<script, trial, found, scored, hurried>>
    BY <1>6 DEF ShellReads, ShellRuns, histories
  <2>2. ScoresInv'
    BY <2>1, ScoresKept DEF TunerInv
  <2> QED BY <1>1, <1>6, <2>2, ReadsLine, RunsLine DEF TunerInv
<1>9. CASE Garbled
  <2>1. /\ script = "wait" /\ output # <<>> /\ output' = Tail(output)
        /\ UNCHANGED <<script, trial, serial, found>>
        /\ UNCHANGED <<started, scored, hurried, settled, todo, pc, KP, KI, KD>>
        /\ UNCHANGED <<main, target_height, ramped_height, is_evaluating>>
    BY <1>9 DEF Garbled, histories, tunnel, vars, gains, setpoint, evaluation
  <2>2. ScoresInv'
    BY <2>1, ScoresKept DEF TunerInv
  <2>3. BoardInv'
    BY <2>1 DEF TunerInv, LineInv, BoardInv, AtAims, Opened, InLoop, ShellIs,
                ShellLine, Evaluates, InWindow, CaughtUp
  <2>4. Coming'
    BY <2>1 DEF TunerInv, LineInv, Coming, Ready, InUse, InReach, Evaluation
  <2>5. ASSUME trial \notin hurried PROVE Measuring'
    <3>1. CaughtUp /\ output = <<trial>>
      BY <2>1, <2>5 DEF TunerInv, LineInv, InStep, Measuring
    <3>2. output' = <<>>
      BY <2>1, <3>1
    <3> QED BY <2>1, <3>1, <3>2 DEF Measuring, CaughtUp
  <2>6. InStep'
    BY <2>1, <2>5 DEF InStep
  <2> QED BY <2>2, <2>3, <2>4, <2>6 DEF TunerInv, LineInv
<1>7. CASE LoopRuns
  <2>1. ScoresInv'
    BY <1>7, ScoresKept DEF TunerInv, LoopRuns, tuner, histories
  <2> QED BY <1>1, <1>7, <2>1, LoopLines DEF TunerInv
<1>8. CASE UNCHANGED tunervars
  <2>1. UNCHANGED <<script, trial, serial, output, found>>
        /\ UNCHANGED <<started, scored, hurried, settled, todo, pc, KP, KI, KD>>
        /\ UNCHANGED <<main, target_height, ramped_height, is_evaluating>>
    BY <1>8 DEF tunervars, tunnel, tuner, histories, vars, gains, setpoint,
                evaluation
  <2>2. ScoresInv'
    BY <2>1, ScoresKept DEF TunerInv
  <2>3. BoardInv'
    BY <2>1 DEF TunerInv, LineInv, BoardInv, AtAims, Opened, InLoop, ShellIs,
                ShellLine, Evaluates, InWindow, CaughtUp
  <2>4. Coming'
    BY <2>1 DEF TunerInv, LineInv, Coming, Ready, InUse, InReach, Evaluation
  <2>5. InStep'
    <3>1. /\ Ready(trial) => Ready(trial)'
          /\ Sets(trial) => Sets(trial)'
      BY <2>1 DEF Ready, Sets, InUse, InReach
    <3> QED BY <2>1, <3>1
            DEF TunerInv, LineInv, InStep, Cleared, Preparing, Aiming, Measuring,
                Waits, NotEvaluating, CaughtUp, TargetLine, Evaluation
  <2> QED BY <2>2, <2>3, <2>4, <2>5 DEF TunerInv, LineInv
<1> QED BY <1>2, <1>3, <1>4, <1>5, <1>6, <1>7, <1>8, <1>9 DEF TunerNext

LEMMA TunerInvariant == TunerSpec => []TunerInv
<1>1. TunerInit => TunerInv
  BY ScoresInvInit, LineInvInit DEF TunerInv
<1> QED BY <1>1, TunerInvNext, PTL DEF TunerSpec

(* A trial whose commands found the board at rest is credited with no       *)
(* result but its own, whatever results before it were late, garbled, given *)
(* up or lost with the port.                                                *)
THEOREM ScoresAreOwn == TunerSpec => []ScoreIsOwn
<1>1. TunerInv => ScoreIsOwn
  BY DEF TunerInv, ScoresInv, ScoreIsOwn
<1> QED BY <1>1, TunerInvariant, PTL

(* What is saved of a profile was tried for it and got a result.            *)
THEOREM SavedAreMeasured == TunerSpec => []SavedWasMeasured
<1>1. TunerInv => SavedWasMeasured
  BY DEF TunerInv, ScoresInv, Written, Kept, Measured, NoneFound, SavedWasMeasured
<1> QED BY <1>1, TunerInvariant, PTL

(* An evaluation runs with its trial's gains from its first cycle to its    *)
(* last, if the trial's commands found the board at rest and nothing was    *)
(* left to ramp when it set them: however far apart the heights are, also   *)
(* when reading the port fails and the script goes on to other trials       *)
(* beside it, whatever their commands overwrite in a ring of any size, and  *)
(* whatever became of the trials before.                                    *)
THEOREM TestsOwnGains == TunerSpec => []TestsItsGains
<1>1. TunerInv => TestsItsGains
  <2> SUFFICES ASSUME TunerInv, is_evaluating, settled, started \notin hurried
               PROVE  KP = Trials[started].kp /\ KI = Trials[started].ki
                      /\ KD = Trials[started].kd
    BY DEF TestsItsGains, OwnGains, gains
  <2>1. ShellLine /\ pc["finsh"] \notin {"option", "clamp_test"}
    BY DEF TunerInv, LineInv, BoardInv, InWindow
  <2>2. PICK k \in DOMAIN Trials : Evaluates(k)
    BY <2>1 DEF ShellLine
  <2>3. Ready(k) /\ k = started
    BY <2>2 DEF Evaluates, TunerInv, LineInv, Coming
  <2> QED BY <2>3 DEF Ready, InUse
<1> QED BY <1>1, TunerInvariant, PTL
=============================================================================
