--------------------------- MODULE FanDriverProofs ---------------------------
(* The fan under the control program: every step of the firmware is a step  *)
(* of WindTunnel or leaves it alone, so its theorems carry over, and the    *)
(* fan obeys its two masters for every period, table and set of commands.   *)
EXTENDS FanDriver, WindTunnelProofs

(* A positive factor of both sides of a comparison can be dropped.          *)
LEMMA FactorDrops ==
    ASSUME NEW a \in Int, NEW b \in Int, NEW k \in Nat \ {0}, k * a < k * b
    PROVE  a < b
  OBVIOUS

LEMMA QuotientIs ==
    ASSUME NEW n \in Nat, NEW m \in Nat \ {0}
    PROVE  /\ n \div m \in Nat
           /\ m * (n \div m) <= n /\ n < m * (n \div m) + m
  OBVIOUS

(* A product is rounded in a unit that divides FullSpeed.                   *)
LEMMA UlpIs ==
    ASSUME NEW n \in Nat, n <= Period * FullSpeed
    PROVE  Ulp(n) \in Ulps
<1> DEFINE S == {u \in Ulps : n \div u < Precision}
<1>1. FullSpeed \in Nat \ {0} /\ Period \in Nat /\ Period < Precision
      /\ Precision \in Nat
  BY ConstantsAssumption, FanAssumption
<1>2. FullSpeed \in Ulps
  BY <1>1 DEF Ulps
<1>3. n \div FullSpeed < Precision
  <2> DEFINE q == n \div FullSpeed
  <2>1. q \in Nat /\ FullSpeed * q <= n
    BY <1>1, QuotientIs
  <2> HIDE DEF q
  <2>2. FullSpeed * q < FullSpeed * (Period + 1)
    BY <1>1, <2>1
  <2>3. q < Period + 1
    BY <1>1, <2>1, <2>2, FactorDrops
  <2> QED BY <1>1, <2>1, <2>3 DEF q
<1>4. S \in SUBSET Nat /\ S # {}
  BY <1>2, <1>3 DEF Ulps
<1>5. Min(S) \in S
  <2> HIDE DEF S
  <2> QED BY <1>4, LeastPosition
<1> QED BY <1>5 DEF Ulp

(* Between two multiples of FullSpeed rounding stays between them.          *)
LEMMA RoundedIs ==
    ASSUME NEW n \in Nat, n <= Period * FullSpeed,
           NEW q \in Nat, FullSpeed * q <= n, n < FullSpeed * q + FullSpeed
    PROVE  /\ Rounded(n) \in Nat /\ FullSpeed * q <= Rounded(n)
           /\ Rounded(n) <= FullSpeed * q + FullSpeed
           /\ n = FullSpeed * q => Rounded(n) = n
<1> DEFINE u == Ulp(n)
           d == n \div u
<1>1. PICK k \in Nat : u \in Nat \ {0} /\ FullSpeed = u * k
  <2>1. u \in 1..FullSpeed /\ FullSpeed % u = 0 /\ FullSpeed \in Nat
    BY UlpIs, ConstantsAssumption DEF Ulps
  <2> HIDE DEF u
  <2>2. FullSpeed = u * (FullSpeed \div u) /\ FullSpeed \div u \in Nat
    BY <2>1
  <2> QED BY <2>1, <2>2
<1>2. Rounded(n) \in {n - (n % u), n - (n % u) + u}
      /\ (n % u = 0 => Rounded(n) = n)
  <2>1. n % u = 0 => 2 * (n % u) < u
    <3> HIDE DEF u
    <3> QED BY <1>1
  <2> HIDE DEF u, d
  <2>2. n % u \in Nat
    BY <1>1
  <2> QED BY <2>1, <2>2 DEF Rounded, u
<1> HIDE DEF u
<1>3. d \in Nat /\ n - (n % u) = u * d /\ u * d <= n /\ n < u * d + u
  BY <1>1
<1> HIDE DEF d
<1>4. FullSpeed * q = u * (k * q) /\ FullSpeed * q + FullSpeed = u * (k * q + k)
      /\ k * q \in Nat /\ k * q + k \in Nat
  BY <1>1
<1>5. k * q <= d
  <2>1. u * (k * q) < u * (d + 1)
    BY <1>1, <1>3, <1>4
  <2> QED BY <1>1, <1>3, <1>4, <2>1, FactorDrops
<1>6. d < k * q + k
  <2>1. u * d < u * (k * q + k)
    BY <1>1, <1>3, <1>4
  <2> QED BY <1>1, <1>3, <1>4, <2>1, FactorDrops
<1>7. u * (k * q) <= u * d /\ u * d + u <= u * (k * q + k)
  <2>1. d + 1 <= k * q + k
    BY <1>3, <1>4, <1>6
  <2>2. u * (d + 1) <= u * (k * q + k)
    BY <1>1, <1>3, <1>4, <2>1
  <2> QED BY <1>1, <1>3, <1>4, <1>5, <2>2
<1>8. n = FullSpeed * q => n % u = 0
  <2> SUFFICES ASSUME n = FullSpeed * q PROVE n % u = 0
    OBVIOUS
  <2>1. d = k * q
    <3>1. u * d < u * (k * q + 1)
      BY <1>1, <1>3, <1>4
    <3>2. d < k * q + 1
      BY <1>1, <1>3, <1>4, <3>1, FactorDrops
    <3> QED BY <1>3, <1>4, <1>5, <3>2
  <2>2. n % u = n - u * d
    BY <1>1, <1>3
  <2> QED BY <1>3, <1>4, <2>1, <2>2
<1>9. u * d \in Nat /\ u * d + u \in Nat
  BY <1>1, <1>3
<1>10. Rounded(n) \in {u * d, u * d + u}
  BY <1>2, <1>3
<1>11. n = FullSpeed * q => Rounded(n) = n
  BY <1>2, <1>8
<1>12. FullSpeed * q <= u * d /\ u * d + u <= FullSpeed * q + FullSpeed
  BY <1>4, <1>7
<1>13. u * d <= Rounded(n) /\ Rounded(n) <= u * d + u /\ Rounded(n) \in Nat
  <2> DEFINE x == u * d
  <2>1. x \in Nat /\ x + u \in Nat /\ Rounded(n) \in {x, x + u} /\ u \in Nat
    BY <1>1, <1>9, <1>10
  <2> HIDE DEF x
  <2>2. x <= Rounded(n) /\ Rounded(n) <= x + u /\ Rounded(n) \in Nat
    BY <2>1
  <2> QED BY <2>2 DEF x
<1>14. FullSpeed * q \in Nat /\ FullSpeed \in Nat
  BY ConstantsAssumption
<1> QED
  <2> DEFINE x == u * d
             y == FullSpeed * q
             z == Rounded(n)
  <2>1. /\ x \in Nat /\ x + u \in Nat /\ y \in Nat /\ z \in Nat
        /\ FullSpeed \in Nat /\ u \in Nat
        /\ y <= x /\ x <= z /\ z <= x + u /\ x + u <= y + FullSpeed
    BY <1>1, <1>9, <1>12, <1>13, <1>14
  <2> HIDE DEF x, y, z
  <2>2. y <= z /\ z <= y + FullSpeed
    BY <2>1
  <2> QED BY <2>2, <1>11, <1>13 DEF y, z

(* The pulse is the product's, or one more where it is rounded up to it.    *)
LEMMA PulseIs ==
    ASSUME NEW speed \in 0..FullSpeed
    PROVE  /\ PulseOf(speed) \in 0..Period
           /\ (Period * speed) \div FullSpeed <= PulseOf(speed)
           /\ FullSpeed * PulseOf(speed) < Period * speed + FullSpeed
<1> DEFINE n == Period * speed
           q == n \div FullSpeed
           p == PulseOf(speed)
<1>1. FullSpeed \in Nat \ {0} /\ Period \in Nat /\ speed \in Nat
      /\ speed <= FullSpeed
  BY ConstantsAssumption, FanAssumption
<1>2. n \in Nat /\ n <= Period * FullSpeed
  BY <1>1
<1>3. p = Rounded(n) \div FullSpeed
  BY DEF PulseOf
<1> HIDE DEF n, p
<1>4. q \in Nat /\ FullSpeed * q <= n /\ n < FullSpeed * q + FullSpeed
  BY <1>1, <1>2, QuotientIs
<1> HIDE DEF q
<1>5. /\ Rounded(n) \in Nat /\ FullSpeed * q <= Rounded(n)
      /\ Rounded(n) <= FullSpeed * q + FullSpeed
      /\ n = FullSpeed * q => Rounded(n) = n
  BY <1>2, <1>4, RoundedIs
<1>6. /\ p \in Nat /\ FullSpeed * p <= Rounded(n)
      /\ Rounded(n) < FullSpeed * p + FullSpeed
  BY <1>1, <1>3, <1>5, QuotientIs
<1>7. q <= p
  <2>1. FullSpeed * q < FullSpeed * (p + 1)
    BY <1>1, <1>4, <1>5, <1>6
  <2> QED BY <1>1, <1>4, <1>6, <2>1, FactorDrops
<1>8. FullSpeed * p < n + FullSpeed
  <2>0. FullSpeed * q \in Nat /\ FullSpeed * p \in Nat
    BY <1>1, <1>4, <1>6
  <2>1. CASE n = FullSpeed * q
    BY <1>1, <1>5, <1>6, <2>0, <2>1
  <2>2. CASE n # FullSpeed * q
    BY <1>1, <1>2, <1>4, <1>5, <1>6, <2>0, <2>2
  <2> QED BY <2>1, <2>2
<1>9. p <= Period
  <2>1. FullSpeed * p < FullSpeed * (Period + 1)
    BY <1>1, <1>2, <1>6, <1>8
  <2>2. p < Period + 1
    BY <1>1, <1>6, <2>1, FactorDrops
  <2> QED BY <1>1, <1>6, <2>2
<1>10. p \in 0..Period
  BY <1>1, <1>6, <1>9
<1> QED BY <1>7, <1>8, <1>10 DEF n, p, q

(* Through the rounding and both truncations a request loses less than a    *)
(* percent, and nothing wraps in the 8 bits of a percentage.                *)
LEMMA DutyShows ==
    ASSUME NEW speed \in 0..FullSpeed
    PROVE  /\ PulseOf(speed) \in 0..Period
           /\ DutyOf(PulseOf(speed)) \in 0..100
           /\ Shows(DutyOf(PulseOf(speed)), speed)
<1> DEFINE p == PulseOf(speed)
           f == (Period * speed) \div FullSpeed
           d == (p * 100) \div Period
           q == (100 * speed) \div FullSpeed
<1>1. PICK k \in Nat \ {0} : Period = 100 * k
  <2>1. Period = 100 * (Period \div 100) /\ Period \div 100 \in Nat \ {0}
    BY FanAssumption
  <2> QED BY <2>1
<1>2. FullSpeed \in Nat \ {0} /\ Period \in Nat \ {0} /\ speed \in Nat
  BY ConstantsAssumption, FanAssumption
<1>3. p \in 0..Period /\ f <= p /\ FullSpeed * p < Period * speed + FullSpeed
  BY PulseIs
<1>4. /\ f \in Nat /\ FullSpeed * f <= Period * speed
      /\ Period * speed < FullSpeed * f + FullSpeed
  <2>1. Period * speed \in Nat
    BY <1>2
  <2> QED BY <1>2, <2>1, QuotientIs
<1>5. /\ q \in Nat /\ FullSpeed * q <= 100 * speed
      /\ 100 * speed < FullSpeed * q + FullSpeed
  <2>1. 100 * speed \in Nat
    BY <1>2
  <2> QED BY <1>2, <2>1, QuotientIs
<1>6. d \in Nat /\ Period * d <= p * 100 /\ p * 100 < Period * d + Period
  <2>1. p * 100 \in Nat
    <3> HIDE DEF p
    <3> QED BY <1>3
  <2> HIDE DEF p
  <2> QED BY <1>2, <2>1, QuotientIs
<1>7. DutyOf(p) = d % 256
  BY DEF DutyOf
<1> HIDE DEF p, f, d, q
<1>8. k * d <= p /\ p < k * d + k
  BY <1>1, <1>3, <1>6
<1>9. d <= 100
  <2>1. k * d < k * 101
    BY <1>1, <1>3, <1>6, <1>8
  <2> QED BY <1>1, <1>6, <2>1, FactorDrops
<1>10. FullSpeed * d < 100 * speed + FullSpeed
  <2>1. FullSpeed * (k * d) <= FullSpeed * p
    BY <1>1, <1>2, <1>3, <1>6, <1>8
  <2>2. k * (FullSpeed * d) < k * (100 * speed) + FullSpeed
    BY <1>1, <1>2, <1>3, <1>6, <2>1
  <2>3. FullSpeed <= k * FullSpeed
    BY <1>1, <1>2
  <2>4. k * (FullSpeed * d) < k * (100 * speed + FullSpeed)
    BY <1>1, <1>2, <1>6, <2>2, <2>3
  <2>5. FullSpeed * d \in Int /\ 100 * speed + FullSpeed \in Int
    BY <1>2, <1>6
  <2> HIDE DEF d
  <2> QED BY <1>1, <2>4, <2>5, FactorDrops
<1>11. q <= d
  <2>1. FullSpeed * (k * q) <= k * (100 * speed)
    BY <1>1, <1>2, <1>5
  <2>2. FullSpeed * (k * q) < FullSpeed * (f + 1)
    BY <2>1, <1>1, <1>2, <1>4, <1>5
  <2>3. k * q < f + 1
    BY <1>1, <1>2, <1>4, <1>5, <2>2, FactorDrops
  <2>4. k * q < k * (d + 1)
    BY <1>1, <1>3, <1>4, <1>5, <1>6, <1>8, <2>3
  <2>5. q < d + 1
    BY <1>1, <1>5, <1>6, <2>4, FactorDrops
  <2> QED BY <1>5, <1>6, <2>5
<1>12. 100 * speed < FullSpeed * d + FullSpeed
  <2>1. FullSpeed * q <= FullSpeed * d
    BY <1>2, <1>5, <1>6, <1>11
  <2> QED BY <1>2, <1>5, <1>6, <2>1
<1>13. Shows(d, speed)
  <2> DEFINE x == d * FullSpeed
             y == 100 * speed
  <2>1. x = FullSpeed * d /\ x \in Nat /\ y \in Nat
    BY <1>2, <1>6
  <2>2. Shows(d, speed) <=> Abs(x - y) < FullSpeed
    BY DEF Shows
  <2>3. x < y + FullSpeed /\ y < x + FullSpeed
    BY <1>10, <1>12, <2>1
  <2> HIDE DEF x, y
  <2> QED BY <1>2, <2>1, <2>2, <2>3 DEF Abs
<1>14. DutyOf(p) = d
  BY <1>6, <1>7, <1>9
<1> QED BY <1>3, <1>6, <1>9, <1>13, <1>14 DEF p

-----------------------------------------------------------------------------
(* The firmware is the control program with a fan.                          *)
LEMMA FirmwareStepRefines == [FirmwareNext]_firmware => [Next]_vars
<1>1. FanStarts => Next
  BY DEF FanStarts, Next, StartUp
<1>2. CycleSets => Next
  BY DEF CycleSets, Next
<1>3. (\E speed \in Typed : SetSpeed(speed)) \/ Program \/ WriteEdge \/ Load
         => UNCHANGED vars
  BY DEF SetSpeed, Program, WriteEdge, Load, tunnel
<1>4. Elsewhere => Next
  BY DEF Elsewhere, Next, StartUp
<1>5. UNCHANGED firmware => UNCHANGED vars
  BY DEF firmware, tunnel
<1> QED BY <1>1, <1>2, <1>3, <1>4, <1>5 DEF FirmwareNext

(* What is proved of the control program holds with the fan and set_speed.  *)
THEOREM FirmwareImplements == FirmwareSpec => Spec
<1>1. Init /\ FanInit => Init
  OBVIOUS
<1> QED BY <1>1, FirmwareStepRefines, PTL DEF FirmwareSpec, Spec

(* The speeds, targets and setpoints of the firmware are those of the loop. *)
THEOREM FirmwareIsSafe ==
    FirmwareSpec => [](SpeedAccepted /\ LowTargetIsTransient) /\ RampSafety
BY FirmwareImplements, SpeedIsAccepted, LowTargetIsClamped, ImplementsRamp, PTL

-----------------------------------------------------------------------------
(* The speeds an edge may show: the one typed last, or one of a cycle that  *)
(* has fallen into its set_speed.                                           *)
Recent(percent) == \E speed \in cut \cup {typed} : Shows(percent, speed)

(* The edges a set_speed has written at least once.                         *)
Reached(edge) == written >= IF edge = "rise" THEN 1 ELSE 2

(* While a set_speed is under way only a cycle that cut into it can have    *)
(* accepted another speed; the shared pulse and the percentage it programs  *)
(* are those of the typed speed or of such a cycle, and so are the edges it *)
(* has reached or a cycle has written meanwhile.                            *)
UnderWay ==
    setting # "idle" =>
        /\ name # NotFound
        /\ commanded \in cut \cup {typed}
        /\ \E speed \in cut \cup {typed} : pulse = PulseOf(speed)
        /\ setting = "write" => Recent(dutyCyclePercent)
        /\ setting = "program" => written = 0
        /\ \A edge \in Edges :
              /\ cut # {} => Recent(value[edge])
              /\ cut = {} /\ Reached(edge) => value[edge] = dutyCyclePercent

(* Without a device nothing is ever accepted.                               *)
NoDevice ==
    /\ main = "starting" => name = NotFound
    /\ name = NotFound => /\ setting = "idle" /\ commanded = 0
                          /\ duty = Both(0) /\ cut = {}

FanInv == FanTypeOK /\ FanObeys /\ UnderWay /\ NoDevice

LEMMA ZeroShows == Shows(0, 0) /\ 0 \in 0..FullSpeed
BY ConstantsAssumption DEF Shows, Abs

LEMMA BothIs ==
    ASSUME NEW percent \in 0..100
    PROVE  /\ Both(percent) \in [Edges -> 0..100]
           /\ \A edge \in Edges : Both(percent)[edge] = percent
BY DEF Both

(* What the type of the fan says, and that there are four writes.           *)
LEMMA FanTypes ==
    ASSUME FanInv
    PROVE  /\ name \in {"pwm0", NotFound} /\ pulse \in 0..Period
           /\ value \in [Edges -> 0..100] /\ duty \in [Edges -> 0..100]
           /\ setting \in {"idle", "program", "write"}
           /\ typed \in 0..FullSpeed /\ dutyCyclePercent \in 0..100
           /\ written \in 0..4 /\ commanded \in 0..FullSpeed
           /\ cut \subseteq 0..FullSpeed
<1>1. Len(Writes) = 4
  BY DEF Writes
<1> QED BY <1>1 DEF FanInv, FanTypeOK

LEMMA FanInvInit == Init /\ FanInit => FanInv
<1> SUFFICES ASSUME Init, FanInit PROVE FanInv
  OBVIOUS
<1>1. /\ name = NotFound /\ pulse \in 0..Period
      /\ value = Both(0) /\ duty = Both(0)
      /\ setting = "idle" /\ typed = 0 /\ dutyCyclePercent = 0 /\ written = 0
      /\ commanded = 0 /\ cut = {}
  BY FanAssumption DEF FanInit
<1>2. FanTypeOK
  <2>1. written \in 0..Len(Writes)
    BY <1>1 DEF Writes
  <2>2. value \in [Edges -> 0..100] /\ duty \in [Edges -> 0..100]
    BY <1>1, BothIs
  <2>3. typed \in 0..FullSpeed /\ commanded \in 0..FullSpeed
    BY <1>1, ZeroShows
  <2>4. dutyCyclePercent \in 0..100 /\ cut \subseteq 0..FullSpeed
    BY <1>1
  <2> QED BY <1>1, <2>1, <2>2, <2>3, <2>4 DEF FanTypeOK
<1>3. FanObeys
  BY <1>1, ZeroShows, BothIs DEF FanObeys, Edges
<1> QED BY <1>1, <1>2, <1>3 DEF FanInv, UnderWay, NoDevice

LEMMA StartKeeps ==
    ASSUME FanInv, FanStarts
    PROVE  FanInv'
<1>1. /\ name = NotFound /\ setting = "idle" /\ commanded = 0
      /\ duty = Both(0) /\ cut = {}
      /\ main' = "opening" /\ fan_speed' = 0 /\ name' \in {"pwm0", NotFound}
  BY FanAssumption DEF FanStarts, StartFan, FanInv, NoDevice
<1>2. UNCHANGED <<setting, typed, dutyCyclePercent, written, commanded, cut>>
  BY DEF FanStarts, shell
<1>3. /\ pulse' \in 0..Period /\ value' \in [Edges -> 0..100]
      /\ \E percent \in 0..100 : duty' = Both(percent) /\ Shows(percent, 0)
  <2>1. CASE name' = NotFound
    BY <1>1, <2>1, ZeroShows DEF FanStarts, registers, FanInv, FanTypeOK
  <2>2. CASE name' # NotFound
    BY <2>2, ZeroShows, BothIs, DutyShows DEF FanStarts
  <2> QED BY <2>1, <2>2
<1>4. duty' \in [Edges -> 0..100]
  BY <1>3, BothIs
<1>5. FanTypeOK'
  BY <1>1, <1>2, <1>3, <1>4 DEF FanInv, FanTypeOK
<1>6. FanObeys'
  BY <1>1, <1>2, <1>3, BothIs DEF FanObeys, Edges
<1>7. name' = NotFound => duty' = duty
  BY DEF FanStarts, registers
<1> QED BY <1>1, <1>2, <1>5, <1>6, <1>7 DEF FanInv, UnderWay, NoDevice

(* A cycle's request is accepted whenever there is a fan.                   *)
LEMMA CycleKeeps ==
    ASSUME FanInv, SpeedAccepted', CycleSets
    PROVE  FanInv'
<1>1. /\ main' = "sleeping" /\ LoopSets(fan_speed')
  BY DEF CycleSets, ControlCycle
<1>2. /\ UNCHANGED <<name, setting, typed, dutyCyclePercent, written>>
      /\ fan_speed' \in 0..FullSpeed
  BY <1>1 DEF LoopSets, SpeedAccepted, shell
<1>3. CASE name = NotFound
  <2>1. UNCHANGED <<pulse, value, duty, commanded, cut>>
    BY <1>1, <1>3 DEF LoopSets, Accepts, registers
  <2>2. FanTypeOK'
    BY <2>1, <1>2 DEF FanInv, FanTypeOK
  <2>3. FanObeys'
    BY <2>1, <1>2, <1>3, ZeroShows, BothIs
       DEF FanInv, NoDevice, FanObeys, Edges
  <2> QED BY <2>1, <2>2, <2>3, <1>1, <1>2, <1>3
          DEF FanInv, UnderWay, NoDevice
<1>4. CASE name # NotFound
  <2> DEFINE percent == DutyOf(PulseOf(fan_speed'))
  <2>1. /\ pulse' = PulseOf(fan_speed') /\ value' = Both(percent)
        /\ duty' = Both(percent) /\ commanded' = fan_speed'
        /\ cut' = IF setting = "idle" THEN {} ELSE cut \cup {fan_speed'}
    BY <1>1, <1>2, <1>4 DEF LoopSets, Accepts
  <2>2. percent \in 0..100 /\ Shows(percent, fan_speed') /\ pulse' \in 0..Period
    BY <2>1, <1>2, DutyShows
  <2> HIDE DEF percent
  <2>3. /\ value' \in [Edges -> 0..100] /\ duty' \in [Edges -> 0..100]
        /\ \A edge \in Edges : value'[edge] = percent /\ duty'[edge] = percent
    BY <2>1, <2>2, BothIs
  <2>4. FanTypeOK'
    <3>1. cut' \subseteq 0..FullSpeed
      BY <2>1, <1>2, FanTypes
    <3> QED BY <2>1, <2>2, <2>3, <3>1, <1>2 DEF FanInv, FanTypeOK
  <2>5. FanObeys'
    BY <2>1, <2>2, <2>3 DEF FanObeys, Edges
  <2>6. UnderWay'
    <3> SUFFICES ASSUME setting # "idle" PROVE UnderWay'
      BY <1>2 DEF UnderWay
    <3>1. cut' = cut \cup {fan_speed'} /\ cut' # {}
      BY <2>1
    <3>2. \A x : Recent(x) => Recent(x)'
      BY <1>2, <3>1 DEF Recent
    <3>3. \A edge \in Edges : Recent(value[edge])'
      BY <2>2, <2>3, <3>1 DEF Recent
    <3>4. setting = "write" => Recent(dutyCyclePercent)'
      BY <1>2, <3>2 DEF FanInv, UnderWay, Recent
    <3>5. setting = "program" => written = 0
      BY DEF FanInv, UnderWay
    <3> QED BY <2>1, <3>1, <3>3, <3>4, <3>5, <1>2, <1>4 DEF UnderWay
  <2> QED BY <2>4, <2>5, <2>6, <1>1, <1>2, <1>4 DEF FanInv, NoDevice
<1> QED BY <1>3, <1>4

LEMMA SetSpeedKeeps ==
    ASSUME FanInv, NEW speed \in Typed, SetSpeed(speed)
    PROVE  FanInv'
<1>1. /\ name # NotFound /\ speed \in 0..FullSpeed
      /\ pulse' = PulseOf(speed) /\ typed' = speed /\ commanded' = speed
      /\ cut' = {} /\ setting' = "program" /\ written' = 0
      /\ UNCHANGED <<vars, name, value, duty, dutyCyclePercent>>
  BY DEF SetSpeed, Accepts, tunnel, registers
<1>2. pulse' \in 0..Period
  BY <1>1, DutyShows
<1>3. FanTypeOK'
  <2>1. written' \in 0..Len(Writes)
    BY <1>1 DEF Writes
  <2> QED BY <1>1, <1>2, <2>1 DEF FanInv, FanTypeOK
<1>4. main' = main /\ fan_speed' = fan_speed
  BY <1>1 DEF vars
<1>5. UnderWay'
  BY <1>1 DEF UnderWay, Reached
<1> QED BY <1>1, <1>3, <1>4, <1>5 DEF FanInv, FanObeys, NoDevice

LEMMA ProgramKeeps ==
    ASSUME FanInv, Program
    PROVE  FanInv'
<1>1. /\ setting = "program" /\ setting' = "write"
      /\ \/ dutyCyclePercent' = DutyOf(PulseOf(typed))
         \/ dutyCyclePercent' = DutyOf(pulse)
      /\ UNCHANGED <<vars, name, pulse, value, duty, typed, written, commanded,
                     cut>>
  BY DEF Program, tunnel, config, registers
<1>2. written = 0 /\ UnderWay
  BY <1>1 DEF FanInv, UnderWay
<1>3. PICK speed \in cut \cup {typed} :
         dutyCyclePercent' = DutyOf(PulseOf(speed))
  BY <1>1, <1>2 DEF UnderWay
<1>4. speed \in 0..FullSpeed
  BY FanTypes
<1>5. dutyCyclePercent' \in 0..100 /\ Recent(dutyCyclePercent)'
  BY <1>1, <1>3, <1>4, DutyShows DEF Recent
<1>6. FanTypeOK'
  BY <1>1, <1>5 DEF FanInv, FanTypeOK
<1>7. UnderWay'
  BY <1>1, <1>2, <1>5 DEF UnderWay, Recent, Reached
<1>8. main' = main /\ fan_speed' = fan_speed
  BY <1>1 DEF vars
<1> QED BY <1>1, <1>6, <1>7, <1>8 DEF FanInv, FanObeys, NoDevice

LEMMA WriteKeeps ==
    ASSUME FanInv, WriteEdge
    PROVE  FanInv'
<1> DEFINE edge == Writes[written + 1]
<1>1. /\ setting = "write" /\ setting' = "write" /\ written' = written + 1
      /\ value' = [value EXCEPT ![edge] = dutyCyclePercent]
      /\ UNCHANGED <<vars, name, pulse, duty, typed, dutyCyclePercent,
                     commanded, cut>>
  BY DEF WriteEdge, tunnel, config
<1>2. /\ written \in 0..3 /\ edge \in Edges
      /\ written = 0 => edge = "rise"
      /\ written = 1 => edge = "fall"
  BY FanTypes DEF WriteEdge, Writes, Edges
<1> HIDE DEF edge
<1>3. /\ value' \in [Edges -> 0..100]
      /\ \A e \in Edges :
            value'[e] = IF e = edge THEN dutyCyclePercent ELSE value[e]
  BY <1>1, FanTypes
<1>4. FanTypeOK'
  <2>1. written' \in 0..Len(Writes)
    BY <1>1, <1>2 DEF Writes
  <2> QED BY <1>1, <1>3, <2>1 DEF FanInv, FanTypeOK
<1>5. UnderWay'
  <2>1. UnderWay /\ Recent(dutyCyclePercent)
    BY <1>1 DEF FanInv, UnderWay
  <2>2. \A x : Recent(x) <=> Recent(x)'
    BY <1>1 DEF Recent
  <2>3. ASSUME NEW e \in Edges, cut # {}
        PROVE  Recent(value'[e])
    BY <1>1, <1>3, <2>1, <2>3 DEF UnderWay
  <2>4. ASSUME NEW e \in Edges, cut = {}, Reached(e)'
        PROVE  value'[e] = dutyCyclePercent
    <3>1. e = edge \/ Reached(e)
      BY <1>1, <1>2, <2>4 DEF Reached, Edges
    <3> QED BY <1>1, <1>3, <2>1, <2>4, <3>1 DEF UnderWay
  <2>5. \A e \in Edges : cut' # {} => Recent(value[e])'
    BY <1>1, <2>3 DEF Recent
  <2>6. Recent(dutyCyclePercent)'
    BY <1>1, <2>1 DEF Recent
  <2> QED BY <1>1, <2>1, <2>4, <2>5, <2>6 DEF UnderWay
<1>6. main' = main /\ fan_speed' = fan_speed
  BY <1>1 DEF vars
<1> QED BY <1>1, <1>4, <1>5, <1>6 DEF FanInv, FanObeys, NoDevice

LEMMA LoadKeeps ==
    ASSUME FanInv, Load
    PROVE  FanInv'
<1>1. /\ setting = "write" /\ setting' = "idle" /\ duty' = value
      /\ written = 4
      /\ UNCHANGED <<vars, name, pulse, value, typed, dutyCyclePercent, written,
                     commanded, cut>>
  BY DEF Load, tunnel, config, Writes
<1>2. FanTypeOK'
  BY <1>1 DEF FanInv, FanTypeOK
<1>3. main' = main /\ fan_speed' = fan_speed
  BY <1>1 DEF vars
<1>4. UnderWay /\ Recent(dutyCyclePercent)
  BY <1>1 DEF FanInv, UnderWay
<1>5. FanObeys'
  <2>1. name # NotFound => commanded \in {fan_speed, typed}
    BY DEF FanInv, FanObeys
  <2>2. CASE cut = {}
    <3>1. value["rise"] = dutyCyclePercent /\ value["fall"] = dutyCyclePercent
      BY <1>1, <1>4, <2>2 DEF UnderWay, Reached, Edges
    <3>2. Shows(dutyCyclePercent, commanded)
      <4>1. commanded = typed
        BY <1>1, <1>4, <2>2 DEF UnderWay
      <4> QED BY <1>4, <2>2, <4>1 DEF Recent
    <3>3. duty'["rise"] = dutyCyclePercent /\ duty'["fall"] = dutyCyclePercent
      BY <1>1, <3>1
    <3> QED BY <1>1, <1>3, <2>1, <3>2, <3>3 DEF FanObeys, Shows
  <2>3. CASE cut # {}
    <3>1. \A edge \in Edges :
             \E speed \in cut \cup {typed} : Shows(value[edge], speed)
      BY <1>1, <1>4, <2>3 DEF UnderWay, Recent
    <3> QED BY <1>1, <1>3, <2>1, <2>3, <3>1 DEF FanObeys
  <2> QED BY <2>2, <2>3
<1> QED BY <1>1, <1>2, <1>3, <1>4, <1>5 DEF FanInv, UnderWay, NoDevice

(* The steps of the rest change neither the fan nor what it was asked for.  *)
LEMMA ElsewhereKeeps ==
    ASSUME FanInv, Elsewhere \/ UNCHANGED firmware
    PROVE  FanInv'
<1>1. fan_speed' = fan_speed /\ (main' = "starting" => main = "starting")
  <2>1. CASE EnterLoop \/ SensorMissing \/ Wake \/ ReadFails \/ ReadTooHigh
    BY <2>1 DEF EnterLoop, SensorMissing, Wake, ReadFails, ReadTooHigh, vars
  <2>2. ASSUME NEW t \in Threads, Issue(t) \/ TuneStep(t)
        PROVE  fan_speed' = fan_speed /\ main' = main
    BY <2>2 DEF Issue, TuneStep, StoreGain, StoreTarget, RejectOption,
                StoreFeedforward
  <2>3. CASE Evaluate
    BY <2>3 DEF Evaluate
  <2>4. CASE UNCHANGED firmware
    BY <2>4 DEF firmware, tunnel, vars
  <2> QED BY <2>1, <2>2, <2>3, <2>4 DEF Elsewhere
<1>2. UNCHANGED <<name, pulse, value, duty, setting, typed, dutyCyclePercent,
                  written, commanded, cut>>
  BY DEF Elsewhere, firmware, fan, config, registers, shell
<1> QED BY <1>1, <1>2 DEF FanInv, FanTypeOK, FanObeys, UnderWay, NoDevice,
                          Recent, Reached

LEMMA FanInvStep ==
    ASSUME FanInv, SpeedAccepted', [FirmwareNext]_firmware
    PROVE  FanInv'
BY StartKeeps, CycleKeeps, SetSpeedKeeps, ProgramKeeps, WriteKeeps, LoadKeeps,
   ElsewhereKeeps DEF FirmwareNext

LEMMA FanInvariant == FirmwareSpec => []FanInv
<1> QED BY FanInvInit, FanInvStep, FirmwareImplements, SpeedIsAccepted,
           PTL DEF FirmwareSpec

(* Pulse, duty and the speeds in them stay in their ranges, so that none of *)
(* the driver's conversions to unsigned types changes a number.             *)
THEOREM FanTypeCorrect == FirmwareSpec => []FanTypeOK
<1>1. FanInv => FanTypeOK
  BY DEF FanInv
<1> QED BY <1>1, FanInvariant, PTL

(* The fan turns at the speed accepted last, to less than a percent and     *)
(* through every rounding, for every period, precision, pair of tables and  *)
(* sequence of commands and readings; only cycles that fall between the     *)
(* register writes of a set_speed may disagree with it.                     *)
THEOREM FanIsObedient == FirmwareSpec => []FanObeys
<1>1. FanInv => FanObeys
  BY DEF FanInv
<1> QED BY <1>1, FanInvariant, PTL
=============================================================================
