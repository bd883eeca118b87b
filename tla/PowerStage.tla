-------------------------------- MODULE PowerStage --------------------------------
(* What Motor::arm() and Motor::disarm() promise (motor.cpp): the outputs only    *)
(* come on after the motor was armed and timings were applied for it, in this     *)
(* order, and once off they stay off until it is armed again.                     *)

VARIABLE stage

Stages == {"off", "armed", "ready", "driven"}

Init == stage = "off"

(* Motor::arm(), also over an earlier arm that has not come to anything.          *)
Arm == stage \in {"off", "armed"} /\ stage' = "armed"

(* The control loop applies timings and lets the timer enable the outputs.        *)
Apply == stage = "armed" /\ stage' = "ready"

(* The timer latches the timings and enables the outputs.                         *)
Enable == stage = "ready" /\ stage' = "driven"

(* Motor::disarm(), at any time.                                                  *)
Disarm == stage' = "off"

Next == Arm \/ Apply \/ Enable \/ Disarm

Spec == Init /\ [][Next]_stage
=====================================================================================
