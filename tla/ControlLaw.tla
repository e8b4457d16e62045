------------------------------ MODULE ControlLaw ------------------------------
(***************************************************************************)
(* The arithmetic of applications/main.c: table lookup by linear           *)
(* interpolation (gain schedule and feedforward), the setpoint ramp, the   *)
(* PID sum and its clipping to the fan's range.                            *)
(*                                                                         *)
(* The code computes in single-precision floats.  Here every quantity is   *)
(* an integer in a fixed-point unit of its own (a height, a gain, a        *)
(* speed), and the one division, the interpolation ratio, rounds down.     *)
(***************************************************************************)
EXTENDS Integers, Sequences, FiniteSetsExt

(* A definition named ...Mutant is the operator after it with one mistake   *)
(* in it; the runs show which property would notice.                        *)
AbsMutant(x) == x
Abs(x) == IF x > 0 THEN x ELSE -x

(* lower_index is the LAST row at or below h, upper_index the FIRST row at  *)
(* or above it: on a table sorted by height the two neighbours of h, on an  *)
(* unsorted one (pid_tune -ff_set checks no order) any two rows around h.   *)
RowsAtOrBelow(table, h) == {i \in DOMAIN table : table[i].height <= h}
RowsAtOrAbove(table, h) == {i \in DOMAIN table : table[i].height >= h}
LowerIndex(table, h) == Max(RowsAtOrBelow(table, h))
UpperIndex(table, h) == Min(RowsAtOrAbove(table, h))

Between(h, low, high, lowValue, highValue) ==
    lowValue + ((h - low) * (highValue - lowValue)) \div (high - low)

(* The equal-height guard is get_feedforward_speed's; the constant gain     *)
(* table has no two rows of one height, so there it decides nothing.        *)
Lookup(table, column, h) ==
    LET lower == table[LowerIndex(table, h)]
        upper == table[UpperIndex(table, h)]
    IN  IF RowsAtOrBelow(table, h) = {} THEN table[1][column]
        ELSE IF \/ RowsAtOrAbove(table, h) = {}
                \/ lower.height = upper.height
             THEN lower[column]
             ELSE Between(h, lower.height, upper.height,
                          lower[column], upper[column])

(* One control cycle moves the tracked setpoint by at most one step and     *)
(* snaps to the target once it is within a step of it.                      *)
OutOfReach(ramped, target, step) == Abs(ramped - target) > step

RampOvershootsMutant(ramped, target, step) ==
    IF ramped < target THEN ramped + step ELSE ramped - step
RampStopsShortMutant(ramped, target, step) ==
    IF ~ OutOfReach(ramped, target, step) THEN ramped
    ELSE IF ramped < target THEN ramped + step ELSE ramped - step
RampToward(ramped, target, step) ==
    IF OutOfReach(ramped, target, step)
    THEN IF ramped < target THEN ramped + step ELSE ramped - step
    ELSE target

PidOutput(kp, ki, kd, error, integral, derivative) ==
    kp * error + ki * integral + kd * derivative

ClipMutant(speed, full) == IF speed > full THEN full ELSE speed
Clip(speed, full) ==
    IF speed > full THEN full ELSE IF speed < 0 THEN 0 ELSE speed

(* Anti-windup takes the cycle's own error out again when the request was   *)
(* clipped, whichever way the error points.                                 *)
UnwoundMutant(integral, error, speed, full) == integral
Unwound(integral, error, speed, full) ==
    IF Clip(speed, full) = speed THEN integral ELSE integral - error
=============================================================================
