------------------------------ MODULE AntiWindup ------------------------------
(***************************************************************************)
(* The anti-windup of main.c:222-230.  The report (section 6.4) says that  *)
(* taking the error back while the output is clipped keeps the integral    *)
(* from accumulating without limit.  The limit is stated here, for users   *)
(* who keep heights, gains and table speeds within bounds and KI above     *)
(* zero.  With KI = 0, which pid_tune -i 0 sets, there is none: the        *)
(* integral no longer shows in the output that is tested for clipping.     *)
(***************************************************************************)
EXTENDS WindTunnel

CONSTANTS
    Ceiling,  \* heights and targets are at most this
    MaxGain,  \* largest gain
    MinKi     \* smallest KI

Bounded(kp, ki, kd) ==
    kp \in 0..MaxGain /\ ki \in MinKi..MaxGain /\ kd \in 0..MaxGain

BoundedOptions ==
    {o \in Options : /\ o.name \in {"-p", "-d"} => o.value \in 0..MaxGain
                     /\ o.name = "-i" => o.value \in MinKi..MaxGain
                     /\ o.name = "-t" => o.value \in 0..Ceiling
                     /\ o.speed \in 0..FullSpeed}

ASSUME BoundsAssumption ==
    /\ Ceiling \in Nat /\ MaxGain \in Nat /\ MinKi \in Nat \ {0}
    /\ Heights \subseteq 0..Ceiling
    /\ InitialHeight \in 0..Ceiling /\ MinHeight \in 0..Ceiling
    /\ \A i \in DOMAIN GainTable :
          Bounded(GainTable[i].kp, GainTable[i].ki, GainTable[i].kd)
    /\ \A i \in DOMAIN FeedTable :
          FeedTable[i].base_fan_speed \in 0..FullSpeed
    /\ \A t \in Threads : Commands[t] \subseteq Seq(BoundedOptions)

(* The integral is only ever kept when the output it led to was inside the  *)
(* fan's range, so its part KI * integral of the output cannot exceed that  *)
(* range by more than the other terms; resets by pid_eval and changes of    *)
(* the gains under a large integral do not let it out either.               *)
IntegralLimit == FullSpeed + 3 * (MaxGain * Ceiling)
IntegralBounded == MinKi * Abs(integral_error) <= IntegralLimit

(* Its inductive form: everything the output is computed from is in bounds, *)
(* the gains from the time on that the loop is entered.                     *)
InputsBounded ==
    /\ target_height \in 0..Ceiling /\ ramped_height \in 0..Ceiling
    /\ InLoop => Bounded(KP, KI, KD)
    /\ previous_error \in -Ceiling..Ceiling
    /\ \A i \in DOMAIN ff_table : ff_table[i].base_fan_speed \in 0..FullSpeed
    /\ todo \in [Threads -> Seq(BoundedOptions)]
WindupInv == TypeOK /\ InputsBounded /\ IntegralBounded
=============================================================================
