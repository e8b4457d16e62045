------------------------------ MODULE FanDriver ------------------------------
(***************************************************************************)
(* The fan under the control program: fan/YS4028B12H.c, the shell command  *)
(* set_speed of fan/YS4028B12H_Demo.c and the PWM driver they end in,      *)
(* Libraries/drivers/drv_pwm.c.                                            *)
(*                                                                         *)
(* A request stores the pulse in the configuration both share, has the     *)
(* value registers of the two edges of the pulse written, twice, and tells *)
(* the hardware to load them (PWM_* of the chip's SDK, which is not part   *)
(* of the repository; here a load takes effect at once).  The loop's       *)
(* request is part of its cycle; the shell's can be preempted by a cycle   *)
(* between any two of its writes.                                          *)
(*                                                                         *)
(* A speed is a float, a multiple of 1/FullSpeed.                          *)
(***************************************************************************)
EXTENDS WindTunnel

CONSTANTS
    Precision,     \* 2^24, one more than the largest significand of a float
    Period,        \* PKG_USING_YS4028B12H_PERIOD, in ns
    DefaultPulse,  \* PKG_USING_YS4028B12H_DEFAULT_PAULSE, in ns
    Devices,       \* what looking for the PWM device may return
    Typed          \* the speeds set_speed is typed with

NotFound == "none"

(* The units in which a product may be rounded.                             *)
Ulps == {u \in 1..FullSpeed : FullSpeed % u = 0}

ASSUME FanAssumption ==
    /\ \A u \in Ulps \ {1} : u % 2 = 0
    /\ Precision \in Nat /\ Period \in 1..(Precision - 1)
    /\ Period % 100 = 0 /\ DefaultPulse \in 0..Period
    /\ Devices \subseteq {"pwm0", NotFound} /\ Typed \subseteq Int

VARIABLES
    name,        \* the device of the configuration
    pulse,       \* the pulse of the configuration
    value,       \* duty cycle each edge's register was last written for
    duty,        \* duty cycle loaded for each edge, in percent
    setting,     \* how far the shell's set_speed has got
    typed,       \* the speed it was given
    dutyCyclePercent,  \* the duty cycle it programs
    written,     \* how many of its register writes it has done
    commanded,   \* history: the last speed accepted from either
    cut          \* history: the speeds accepted from cycles that fell into
                 \* the last set_speed, until a cycle after it

config == <<name, pulse>>
registers == <<value, duty>>
shell == <<setting, typed, dutyCyclePercent, written>>
fan == <<config, registers, shell, commanded, cut>>
tunnel == vars
firmware == <<tunnel, fan>>

(* PWM_SetupPwm and PWM_UpdatePwmDutycycle each write both edges.           *)
Edges == {"rise", "fall"}
Writes == <<"rise", "fall", "rise", "fall">>
Both(percent) == [edge \in Edges |-> percent]

FanInit ==
    /\ name = NotFound /\ pulse = DefaultPulse
    /\ value = Both(0) /\ duty = Both(0)
    /\ setting = "idle" /\ typed = 0 /\ dutyCyclePercent = 0 /\ written = 0
    /\ commanded = 0 /\ cut = {}

(* The single-precision product: rounded to the nearest multiple of the     *)
(* unit that its size leaves, of two as near to the even one.               *)
Ulp(n) == Min({u \in Ulps : n \div u < Precision})
Rounded(n) ==
    LET u == Ulp(n)
        down == n - (n % u)
    IN  IF \/ 2 * (n % u) < u
           \/ 2 * (n % u) = u /\ (n \div u) % 2 = 0
        THEN down ELSE down + u

PulseOfMutant(speed) == Period * (speed \div FullSpeed)
PulseOf(speed) == Rounded(Period * speed) \div FullSpeed

(* An 8-bit percentage.                                                     *)
DutyOf(width) == ((width * 100) \div Period) % 256

-----------------------------------------------------------------------------
AcceptsMutant(speed) == name # NotFound /\ speed >= 0
Accepts(speed) == name # NotFound /\ speed \in 0..FullSpeed

(* The main thread's request, from which nothing but main's own delay gives *)
(* up the processor.                                                        *)
LoopSets(speed) ==
    /\ IF Accepts(speed)
       THEN /\ pulse' = PulseOf(speed) /\ value' = Both(DutyOf(pulse'))
            /\ duty' = value'
            /\ commanded' = speed
            /\ cut' = IF setting = "idle" THEN {} ELSE cut \cup {speed}
       ELSE UNCHANGED <<pulse, registers, commanded, cut>>
    /\ UNCHANGED <<name, shell>>

(* ys4028b12h_init programs and enables the default pulse, and the request  *)
(* for speed 0 that follows at once replaces it.                            *)
FanStarts ==
    /\ StartFan
    /\ name' \in Devices
    /\ IF name' = NotFound THEN UNCHANGED <<pulse, registers>>
       ELSE /\ pulse' = PulseOf(0) /\ value' = Both(DutyOf(pulse'))
            /\ duty' = value'
    /\ UNCHANGED <<shell, commanded, cut>>

ShellFree == Scheduled("finsh") /\ todo["finsh"] = <<>>

(* set_speed, store by store; a request that is not accepted returns.       *)
SetSpeed(speed) ==
    /\ ShellFree /\ setting = "idle"
    /\ Accepts(speed)
    /\ pulse' = PulseOf(speed) /\ typed' = speed /\ commanded' = speed
    /\ cut' = {}
    /\ setting' = "program" /\ written' = 0
    /\ UNCHANGED <<tunnel, name, registers, dutyCyclePercent>>

(* The compiler may pass on the pulse it has computed or read it again.     *)
Program ==
    /\ ShellFree /\ setting = "program"
    /\ \E width \in {PulseOf(typed), pulse} : dutyCyclePercent' = DutyOf(width)
    /\ setting' = "write"
    /\ UNCHANGED <<tunnel, config, registers, typed, written, commanded,
                   cut>>

WriteEdge ==
    /\ ShellFree /\ setting = "write" /\ written < Len(Writes)
    /\ value' = [value EXCEPT ![Writes[written + 1]] = dutyCyclePercent]
    /\ written' = written + 1
    /\ UNCHANGED <<tunnel, config, duty, setting, typed, dutyCyclePercent,
                   commanded, cut>>

Load ==
    /\ ShellFree /\ setting = "write" /\ written = Len(Writes)
    /\ duty' = value
    /\ setting' = "idle"
    /\ UNCHANGED <<tunnel, config, value, typed, dutyCyclePercent, written,
                   commanded, cut>>

CycleSets == \E height \in Heights : ControlCycle(height) /\ LoopSets(fan_speed')

(* The steps of WindTunnel that leave the fan alone; the shell runs one     *)
(* command at a time.                                                       *)
Elsewhere ==
    /\ \/ EnterLoop \/ SensorMissing \/ Wake \/ ReadFails \/ ReadTooHigh
       \/ \E t \in Threads : \/ TuneStep(t)
                             \/ Issue(t) /\ (t = "finsh" => setting = "idle")
       \/ Evaluate
    /\ UNCHANGED fan

FirmwareNext ==
    \/ FanStarts \/ CycleSets
    \/ (\E speed \in Typed : SetSpeed(speed)) \/ Program \/ WriteEdge \/ Load
    \/ Elsewhere

FirmwareSpec == Init /\ FanInit /\ [][FirmwareNext]_firmware

-----------------------------------------------------------------------------
FanTypeOK ==
    /\ name \in {"pwm0", NotFound} /\ pulse \in 0..Period
    /\ value \in [Edges -> 0..100] /\ duty \in [Edges -> 0..100]
    /\ setting \in {"idle", "program", "write"} /\ typed \in 0..FullSpeed
    /\ dutyCyclePercent \in 0..100 /\ written \in 0..Len(Writes)
    /\ commanded \in 0..FullSpeed /\ cut \subseteq 0..FullSpeed

(* Rounding and truncating lose less than a percent.                        *)
Shows(percent, speed) == Abs(percent * FullSpeed - 100 * speed) < FullSpeed

(* Once no set_speed is under way both edges have the duty cycle of the     *)
(* speed that was accepted last, to less than a percent, through the        *)
(* rounded product and both truncations on the way to the registers: the    *)
(* loop's latest, one typed after it, or none at all on a board whose       *)
(* sensor is missing.  Cycles that fall between the writes of a set_speed   *)
(* may lose to it until the next one, or leave its edges apart (line 81 of  *)
(* the driver), but nothing older than that set_speed survives it.          *)
FanObeys ==
    /\ name # NotFound => commanded \in {fan_speed, typed}
    /\ setting = "idle" =>
          \/ /\ duty["rise"] = duty["fall"]
             /\ Shows(duty["rise"], commanded)
          \/ /\ cut # {}
             /\ \A edge \in Edges :
                   \E speed \in cut \cup {typed} : Shows(duty[edge], speed)
=============================================================================
