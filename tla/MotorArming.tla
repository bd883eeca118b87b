------------------------------- MODULE MotorArming -------------------------------
(* How the three phases are powered and floated: Motor::arm(), apply_pwm_timings()*)
(* and disarm() (motor.cpp), the two interrupts that run the control law          *)
(* (board.cpp, main.cpp) and the brake resistor (low_level.cpp), against the two  *)
(* timers, which latch, enable and sample whatever the software is doing. TIM1    *)
(* drives the motor and leads TIM8, whose interrupt paces the software, so that   *)
(* the four events of a period are: TIM1 latches counting up, TIM8 updates, TIM1  *)
(* latches counting down, TIM8 updates. A law computes its timings from a current *)
(* measured at the first and has until the next such event to apply them.         *)
EXTENDS Naturals

CONSTANT MaxLate    \* TIM8 updates an iteration of the control loop may last

(* One is the normal case: the update that counts down comes in mid-iteration.    *)
ASSUME MaxLateAssumption == MaxLate \in Nat \ {0}

VARIABLES
  moe, aoe,           \* outputs enabled; to be enabled at the next latch
  ccr, shadow,        \* the compare registers and the timings in force
  next,               \* the timer event to come
  sample, eoc,        \* the current sampled by TIM1 (JEOC); ADC2's conversion for TIM8
  tim8,               \* TIM8's interrupt is pending
  countingDown,       \* counting_down_
  armed, armedState, law,
  error,              \* an error of the axis or of one of its parts is latched
  enableBrake, brakeArmed,
  brakePwm,           \* the brake resistor's timer is not in its floating setting
  loop,               \* the control-loop interrupt is pending
  isr,                \* where it is
  current, seen, late,
  cs, after,          \* where a critical section is, and what its disarm() is part of
  wasArmed,
  axis, can           \* where the two threads are

timerVars == <<shadow, next, sample, eoc, tim8>>
outputVars == <<moe, aoe, ccr>>
motorVars == <<armed, armedState, law, error, wasArmed>>
brakeVars == <<enableBrake, brakeArmed, brakePwm>>
isrVars == <<countingDown, loop, isr, current, seen, late>>
csVars == <<cs, after>>
threadVars == <<axis, can>>
vars == <<timerVars, outputVars, motorVars, brakeVars, isrVars, csVars, threadVars>>

(* Timings are the harmless 50 %, a set half written, or a set by how often TIM1  *)
(* has latched it before.                                                         *)
Timings == {"half", "torn", "fresh", "used", "stale"}
Older(t) == CASE t = "fresh" -> "used" [] t = "used" -> "stale" [] OTHER -> t

Min2(a, b) == IF a < b THEN a ELSE b

(* start_adc_pwm() (low_level.cpp): everything floats at 50 %, and the brake      *)
(* resistor is armed if there is one.                                             *)
Init ==
  /\ moe = FALSE /\ aoe = FALSE /\ ccr = "half" /\ shadow = "half"
  /\ next = "latchDown" /\ sample = "none" /\ eoc = FALSE /\ tim8 = FALSE
  /\ countingDown = FALSE
  /\ armed = FALSE /\ armedState = 0 /\ law = "none" /\ error = FALSE
  /\ wasArmed = FALSE
  /\ enableBrake \in BOOLEAN /\ brakeArmed = enableBrake /\ brakePwm = FALSE
  /\ loop = FALSE /\ isr = "idle" /\ current = "none" /\ seen = 0 /\ late = 0
  /\ cs = "open" /\ after = "none"
  /\ axis = "idle" /\ can = "idle"

----------------------------------------------------------------------------------
(* The timers. Only a flash erase, which is refused while a motor is armed, holds *)
(* TIM8's interrupt off beyond the event that follows it.                         *)
Served == tim8 => ~armed /\ ~moe /\ ~aoe

(* TIM1's update: it latches the timings, enables the outputs if told to, and     *)
(* triggers the ADCs. Counting up it samples the current of phases that were      *)
(* driven or not until then, counting down always none.                           *)
Tim1Update ==
  /\ next \in {"latchUp", "latchDown"} /\ Served
  /\ shadow' = ccr /\ ccr' = Older(ccr)
  /\ moe' = (moe \/ aoe)
  /\ sample' = IF next = "latchDown" THEN "zero"
               ELSE IF moe THEN "driven" ELSE "blind"
  /\ next' = IF next = "latchUp" THEN "up" ELSE "down"
  /\ UNCHANGED <<aoe, eoc, tim8, motorVars, brakeVars, isrVars, csVars, threadVars>>

Busy == loop \/ isr # "idle" \/ tim8

(* TIM8's update: its interrupt and ADC2's regular conversion. The control loop   *)
(* may be interrupted for MaxLate of them, or wait for one.                       *)
Tim8Update ==
  /\ next \in {"up", "down"} /\ Served
  /\ late < MaxLate \/ ~Busy \/ (isr = "wait" /\ ~eoc)
  /\ late' = IF Busy THEN Min2(late + 1, MaxLate) ELSE 0
  /\ next' = IF next = "up" THEN "latchDown" ELSE "latchUp"
  /\ eoc' = TRUE /\ tim8' = TRUE
  /\ UNCHANGED <<shadow, sample, outputVars, motorVars, brakeVars, countingDown,
                 loop, isr, current, seen, csVars, threadVars>>

----------------------------------------------------------------------------------
(* Motor::disarm() and the steps of its critical section, between which only the  *)
(* timers can act. "then" says what it is part of: nothing else, a disarm of the  *)
(* whole system, or apply_pwm_timings().                                          *)
Disarm(then) ==
  /\ wasArmed' = armed
  /\ armed' = FALSE /\ armedState' = 0
  /\ cs' = "aoe" /\ after' = then
  /\ UNCHANGED law

DisarmWithError(then) == Disarm(then) /\ error' = TRUE
CarryOn == UNCHANGED <<motorVars, csVars>>

ClearAoe_ForgetsAoe ==
  /\ cs = "aoe"
  /\ cs' = "moe"
  /\ UNCHANGED <<moe, aoe, ccr, after, timerVars, motorVars, brakeVars, isrVars, threadVars>>

ClearAoe ==
  /\ cs = "aoe"
  /\ aoe' = FALSE /\ cs' = "moe"
  /\ UNCHANGED <<moe, ccr, after, timerVars, motorVars, brakeVars, isrVars, threadVars>>

(* update_brake_current() once the motor is disarmed: it sets the brake's timings *)
(* if the brake is armed, or finds the supply out of bounds and disarms it too.   *)
BrakeDisarmed ==
  \/ /\ brakePwm' = (brakePwm \/ brakeArmed)
     /\ UNCHANGED <<brakeArmed, error>>
  \/ brakeArmed' = FALSE /\ brakePwm' = FALSE /\ error' = TRUE

ClearMoe_KeepsUnusedLaw ==
  /\ cs = "moe"
  /\ moe' = FALSE /\ law' = (IF wasArmed THEN "none" ELSE law) /\ after' = "none"
  /\ \/ after = "apply" /\ cs' = "ccr" /\ UNCHANGED <<brakeArmed, brakePwm, error, axis>>
     \/ /\ after = "system" /\ cs' = "open"
        /\ brakeArmed' = FALSE /\ brakePwm' = FALSE
        /\ UNCHANGED <<error, axis>>
     \/ /\ after = "none" /\ cs' = "open" /\ axis = "disarming"
        /\ axis' = IF wasArmed THEN "braking" ELSE "idle"
        /\ UNCHANGED <<brakeArmed, brakePwm, error>>
     \/ /\ after = "none" /\ cs' = "open" /\ axis # "disarming" /\ wasArmed
        /\ BrakeDisarmed /\ UNCHANGED axis
     \/ /\ after = "none" /\ cs' = "open" /\ axis # "disarming" /\ ~wasArmed
        /\ UNCHANGED <<brakeArmed, brakePwm, error, axis>>
  /\ UNCHANGED <<aoe, ccr, timerVars, armed, armedState, wasArmed, enableBrake,
                 isrVars, can>>

(* In an interrupt update_brake_current() follows at once; the axis thread may be *)
(* preempted before it.                                                           *)
ClearMoe ==
  /\ cs = "moe"
  /\ moe' = FALSE /\ law' = "none" /\ after' = "none"
  /\ \/ after = "apply" /\ cs' = "ccr" /\ UNCHANGED <<brakeArmed, brakePwm, error, axis>>
     \/ /\ after = "system" /\ cs' = "open"
        /\ brakeArmed' = FALSE /\ brakePwm' = FALSE
        /\ UNCHANGED <<error, axis>>
     \/ /\ after = "none" /\ cs' = "open" /\ axis = "disarming"
        /\ axis' = IF wasArmed THEN "braking" ELSE "idle"
        /\ UNCHANGED <<brakeArmed, brakePwm, error>>
     \/ /\ after = "none" /\ cs' = "open" /\ axis # "disarming" /\ wasArmed
        /\ BrakeDisarmed /\ UNCHANGED axis
     \/ /\ after = "none" /\ cs' = "open" /\ axis # "disarming" /\ ~wasArmed
        /\ UNCHANGED <<brakeArmed, brakePwm, error, axis>>
  /\ UNCHANGED <<aoe, ccr, timerVars, armed, armedState, wasArmed, enableBrake,
                 isrVars, can>>

----------------------------------------------------------------------------------
(* TIM8_UP_TIM13_IRQHandler(), which preempts everything but a critical section.  *)
Tim8Runs == tim8 /\ cs = "open"
CountsDown == next \in {"latchUp", "up"}

Tim8Missed ==
  /\ Tim8Runs /\ CountsDown = countingDown
  /\ tim8' = FALSE /\ DisarmWithError("none")
  /\ UNCHANGED <<shadow, next, sample, eoc, outputVars, brakeVars, isrVars, threadVars>>

Tim8Handler_KeepsTimings ==
  /\ Tim8Runs /\ CountsDown # countingDown
  /\ tim8' = FALSE /\ countingDown' = CountsDown
  /\ seen' = Min2(seen + 1, 2)
  /\ loop' = (loop \/ ~CountsDown)
  /\ ccr' = ccr
  /\ CarryOn
  /\ UNCHANGED <<shadow, next, sample, eoc, moe, aoe, brakeVars, isr, current, late,
                 threadVars>>

(* Counting up it starts the control loop, counting down it puts back the 50 %.   *)
Tim8Handler ==
  /\ Tim8Runs /\ CountsDown # countingDown
  /\ tim8' = FALSE /\ countingDown' = CountsDown
  /\ seen' = Min2(seen + 1, 2)
  /\ loop' = (loop \/ ~CountsDown)
  /\ ccr' = IF CountsDown THEN "half" ELSE ccr
  /\ CarryOn
  /\ UNCHANGED <<shadow, next, sample, eoc, moe, aoe, brakeVars, isr, current, late,
                 threadVars>>

----------------------------------------------------------------------------------
(* ControlLoop_IRQHandler(), step by step.                                        *)
LoopRuns == cs = "open" /\ ~tim8
loopFrame == <<tim8, next, shadow, outputVars, threadVars>>

(* It takes the sample, if there is one. With the outputs off the current is      *)
(* taken for zero; a saturated reading counts for none.                           *)
LoopStart ==
  /\ LoopRuns /\ isr = "idle" /\ loop
  /\ loop' = FALSE /\ seen' = 0 /\ isr' = "measure"
  /\ IF sample = "none"
     THEN /\ DisarmWithError("none")
          /\ current' = "off" /\ UNCHANGED <<sample, eoc>>
     ELSE /\ CarryOn
          /\ current' \in IF moe THEN {sample, "none"} ELSE {"off"}
          /\ sample' = "none" /\ eoc' = FALSE
  /\ UNCHANGED <<loopFrame, brakeVars, countingDown, late>>

(* Motor::current_meas_cb(): in its first two iterations an armed motor takes the *)
(* current for zero; otherwise it is valid if read and if the offset is known.    *)
(* A measuring law does without.                                                  *)
Forced == armedState \in {1, 2}

CurrentMeasure_ForcesOnce ==
  /\ LoopRuns /\ isr = "measure"
  /\ isr' = "loop" /\ current' = "none"
  /\ \E valid \in BOOLEAN :
       /\ Forced => valid
       /\ current = "none" /\ ~Forced => ~valid
       /\ \/ DisarmWithError("system")
          \/ DisarmWithError("none")
          \/ /\ valid \/ ~armed \/ law = "measure"
             /\ armedState' = IF Forced THEN 3 ELSE armedState
             /\ UNCHANGED <<armed, law, error, wasArmed, csVars>>
  /\ UNCHANGED <<loopFrame, sample, eoc, brakeVars, countingDown, loop, seen, late>>

CurrentMeasure_CountsOn ==
  /\ LoopRuns /\ isr = "measure"
  /\ isr' = "loop" /\ current' = "none"
  /\ \E valid \in BOOLEAN :
       /\ Forced => valid
       /\ current = "none" /\ ~Forced => ~valid
       /\ \/ DisarmWithError("system")
          \/ DisarmWithError("none")
          \/ /\ valid \/ ~armed \/ law = "measure"
             /\ armedState' = IF armed THEN armedState + 1 ELSE armedState
             /\ UNCHANGED <<armed, law, error, wasArmed, csVars>>
  /\ UNCHANGED <<loopFrame, sample, eoc, brakeVars, countingDown, loop, seen, late>>

CurrentMeasure ==
  /\ LoopRuns /\ isr = "measure"
  /\ isr' = "loop" /\ current' = "none"
  /\ \E valid \in BOOLEAN :
       /\ Forced => valid
       /\ current = "none" /\ ~Forced => ~valid
       /\ \/ DisarmWithError("system")
          \/ DisarmWithError("none")
          \/ /\ valid \/ ~armed \/ law = "measure"
             /\ armedState' = IF Forced THEN armedState + 1 ELSE armedState
             /\ UNCHANGED <<armed, law, error, wasArmed, csVars>>
  /\ UNCHANGED <<loopFrame, sample, eoc, brakeVars, countingDown, loop, seen, late>>

(* ODrive::control_loop_cb(): a latched or a new error disarms. One that shows    *)
(* up behind the checks may also be left for the next iteration.                  *)
ControlLoopCb ==
  /\ LoopRuns /\ isr = "loop"
  /\ isr' = "wait"
  /\ \/ DisarmWithError("none")
     \/ ~error /\ error' \in BOOLEAN
        /\ UNCHANGED <<armed, armedState, law, wasArmed, csVars>>
  /\ UNCHANGED <<loopFrame, sample, eoc, brakeVars, countingDown, loop, current, seen,
                 late>>

(* It waits for ADC2 to mark the second sample, which only calibrates the offset. *)
SecondSample ==
  /\ LoopRuns /\ isr = "wait" /\ eoc
  /\ isr' = "pwm"
  /\ IF sample = "none"
     THEN DisarmWithError("none") /\ UNCHANGED <<sample, eoc>>
     ELSE CarryOn /\ sample' = "none" /\ eoc' = FALSE
  /\ UNCHANGED <<loopFrame, brakeVars, countingDown, loop, current, seen, late>>

PwmUpdate_WaitsWhileOff ==
  /\ LoopRuns /\ isr = "pwm"
  /\ \/ armed /\ law # "none" /\ isr' = "apply" /\ CarryOn
     \/ armed /\ isr' = "brake" /\ DisarmWithError("none")
     \/ armed /\ ~moe /\ isr' = "brake" /\ CarryOn
     \/ ~armed /\ isr' = "brake" /\ CarryOn
  /\ UNCHANGED <<loopFrame, sample, eoc, brakeVars, countingDown, loop, current, seen,
                 late>>

(* Motor::pwm_update_cb(): the law gives timings or an error.                     *)
PwmUpdate ==
  /\ LoopRuns /\ isr = "pwm"
  /\ \/ armed /\ law # "none" /\ isr' = "apply" /\ CarryOn
     \/ armed /\ isr' = "brake" /\ DisarmWithError("none")
     \/ ~armed /\ isr' = "brake" /\ CarryOn
  /\ UNCHANGED <<loopFrame, sample, eoc, brakeVars, countingDown, loop, current, seen,
                 late>>

ApplyTimings_TrustsTheBrake ==
  /\ LoopRuns /\ isr = "apply"
  /\ isr' = "brake"
  /\ cs' = "ccr" /\ UNCHANGED <<motorVars, after>>
  /\ UNCHANGED <<loopFrame, sample, eoc, brakeVars, countingDown, loop, current, seen,
                 late>>

(* Motor::apply_pwm_timings(): a critical section that goes on as below.          *)
ApplyTimings ==
  /\ LoopRuns /\ isr = "apply"
  /\ isr' = "brake"
  /\ IF enableBrake /\ ~brakeArmed
     THEN DisarmWithError("apply")
     ELSE cs' = "ccr" /\ UNCHANGED <<motorVars, after>>
  /\ UNCHANGED <<loopFrame, sample, eoc, brakeVars, countingDown, loop, current, seen,
                 late>>

WriteTimings ==
  /\ cs \in {"ccr", "rest"}
  /\ ccr' = IF cs = "ccr" THEN "torn" ELSE "fresh"
  /\ cs' = IF cs = "ccr" THEN "rest" ELSE "enable"
  /\ UNCHANGED <<moe, aoe, timerVars, motorVars, brakeVars, isrVars, after, threadVars>>

EnableOutputs_Unchecked ==
  /\ cs = "enable"
  /\ aoe' = TRUE /\ cs' = "open"
  /\ UNCHANGED <<moe, ccr, timerVars, motorVars, brakeVars, isrVars, after, threadVars>>

EnableOutputs ==
  /\ cs = "enable"
  /\ aoe' = (aoe \/ armed) /\ cs' = "open"
  /\ UNCHANGED <<moe, ccr, timerVars, motorVars, brakeVars, isrVars, after, threadVars>>

(* The rest of pwm_update_cb(): a bus current unknown or out of range disarms,    *)
(* and update_brake_current() has the last word.                                  *)
BusCurrentFails ==
  /\ LoopRuns /\ isr = "brake" /\ armed
  /\ DisarmWithError("none")
  /\ UNCHANGED <<loopFrame, sample, eoc, brakeVars, isrVars>>

BrakeApplied == brakePwm' = (brakePwm \/ brakeArmed)

BrakeUpdate ==
  /\ LoopRuns /\ isr = "brake"
  /\ isr' = "deadline"
  /\ \/ BrakeApplied /\ CarryOn
     \/ DisarmWithError("system") /\ UNCHANGED brakePwm
  /\ UNCHANGED <<loopFrame, sample, eoc, enableBrake, brakeArmed, countingDown, loop,
                 current, seen, late>>

(* TIM8 must have updated exactly once meanwhile.                                 *)
DeadlineCheck ==
  /\ LoopRuns /\ isr = "deadline"
  /\ isr' = "idle"
  /\ IF seen = 1 THEN CarryOn ELSE DisarmWithError("none")
  /\ UNCHANGED <<loopFrame, sample, eoc, brakeVars, countingDown, loop, current, seen,
                 late>>

----------------------------------------------------------------------------------
(* The threads, which run when no interrupt wants to.                             *)
ThreadsRun == cs = "open" /\ ~tim8 /\ isr = "idle" /\ ~loop
threadFrame == <<timerVars, outputVars, isrVars>>

(* Motor::arm(): the law is taken even if the brake resistor forbids to arm.      *)
Arm(newLaw) ==
  /\ law' = newLaw
  /\ IF ~enableBrake \/ brakeArmed
     THEN armed' = TRUE /\ armedState' = 1 /\ UNCHANGED error
     ELSE error' = TRUE /\ UNCHANGED <<armed, armedState>>
  /\ UNCHANGED <<wasArmed, csVars>>

(* The axis thread arms for a measurement, whose law lives on its stack, or to    *)
(* run the motor with the current controller as law.                              *)
StartOperation ==
  /\ ThreadsRun /\ axis = "idle"
  /\ \/ axis' = "measuring" /\ Arm("measure")
     \/ axis' = "running" /\ Arm("foc")
  /\ UNCHANGED <<threadFrame, brakeVars, can>>

(* At the end of it, by request, by time or because it finds itself disarmed, it  *)
(* disarms; the calibration of the encoder leaves a disarmed motor alone.         *)
EndOperation ==
  /\ ThreadsRun /\ axis \in {"measuring", "running"}
  /\ \/ axis' = "disarming" /\ Disarm("none") /\ UNCHANGED error
     \/ axis = "running" /\ ~armed /\ axis' = "idle" /\ CarryOn
  /\ UNCHANGED <<threadFrame, brakeVars, can>>

(* update_brake_current() in the axis thread.                                     *)
BrakeAfterDisarm ==
  /\ ThreadsRun /\ axis = "braking"
  /\ axis' = "idle"
  /\ \/ BrakeApplied /\ CarryOn
     \/ DisarmWithError("system") /\ UNCHANGED brakePwm
  /\ UNCHANGED <<threadFrame, enableBrake, brakeArmed, can>>

(* ODrive::clear_errors() in the CAN thread, whose second step arms the brake.    *)
ClearErrors ==
  /\ ThreadsRun /\ can = "idle"
  /\ can' = "arming" /\ error' = FALSE
  /\ UNCHANGED <<threadFrame, armed, armedState, law, wasArmed, brakeVars, csVars, axis>>

ArmBrake ==
  /\ ThreadsRun /\ can = "arming"
  /\ can' = "idle"
  /\ brakeArmed' = (brakeArmed \/ enableBrake)
  /\ brakePwm' = (brakePwm /\ ~enableBrake)
  /\ UNCHANGED <<threadFrame, motorVars, enableBrake, csVars, axis>>

(* The emergency stop is an error, which the control loop will find. The host may *)
(* also write the configuration of the brake.                                     *)
Estop ==
  /\ ThreadsRun /\ can = "idle"
  /\ error' = TRUE
  /\ UNCHANGED <<threadFrame, armed, armedState, law, wasArmed, brakeVars, csVars,
                 threadVars>>

ConfigureBrake ==
  /\ ThreadsRun /\ can = "idle"
  /\ enableBrake' = ~enableBrake
  /\ UNCHANGED <<threadFrame, motorVars, brakeArmed, brakePwm, csVars, threadVars>>

Timers == Tim1Update \/ Tim8Update

Interrupts ==
  \/ ClearAoe \/ ClearMoe \/ Tim8Missed \/ Tim8Handler
  \/ LoopStart \/ CurrentMeasure \/ ControlLoopCb \/ SecondSample \/ PwmUpdate
  \/ ApplyTimings \/ WriteTimings \/ EnableOutputs
  \/ BusCurrentFails \/ BrakeUpdate \/ DeadlineCheck

Threads ==
  \/ StartOperation \/ EndOperation \/ BrakeAfterDisarm
  \/ ClearErrors \/ ArmBrake \/ Estop \/ ConfigureBrake

Next == Timers \/ Interrupts \/ Threads

(* Time passes, and the processor executes what it must.                          *)
Fairness == WF_vars(Timers) /\ WF_vars(Interrupts)

Spec == Init /\ [][Next]_vars /\ Fairness

----------------------------------------------------------------------------------
CountersOK == armedState \in 0..3 /\ seen \in 0..2 /\ late \in 0..MaxLate

FlagsOK ==
  /\ moe \in BOOLEAN /\ aoe \in BOOLEAN /\ eoc \in BOOLEAN /\ tim8 \in BOOLEAN
  /\ countingDown \in BOOLEAN /\ loop \in BOOLEAN
  /\ armed \in BOOLEAN /\ wasArmed \in BOOLEAN /\ error \in BOOLEAN
  /\ enableBrake \in BOOLEAN /\ brakeArmed \in BOOLEAN /\ brakePwm \in BOOLEAN

TypeOK ==
  /\ CountersOK /\ FlagsOK
  /\ ccr \in Timings /\ shadow \in Timings
  /\ next \in {"latchUp", "up", "latchDown", "down"}
  /\ sample \in {"none", "blind", "driven", "zero"}
  /\ current \in {"none", "off", "blind", "driven", "zero"}
  /\ law \in {"none", "measure", "foc"}
  /\ isr \in {"idle", "measure", "loop", "wait", "pwm", "apply", "brake", "deadline"}
  /\ cs \in {"open", "aoe", "moe", "ccr", "rest", "enable"}
  /\ after \in {"none", "system", "apply"}
  /\ axis \in {"idle", "measuring", "running", "disarming", "braking"}
  /\ can \in {"idle", "arming"}

(* Outside of disarm() a motor that is not armed floats, and the next latch does  *)
(* not power it.                                                                  *)
Floating == ~moe /\ ~aoe
FloatingWhenDisarmed == ~armed /\ cs \notin {"aoe", "moe"} => Floating

(* A current sampled before the outputs came on never reaches a control law.      *)
NoBlindSample == isr = "measure" /\ armed /\ current = "blind" => Forced

(* The law of a measurement is not called when the measurement's stack is gone.   *)
LawIsLive ==
  law = "measure" => axis \in {"measuring", "disarming"}

(* Timings that are driven were computed for this period or the one before it:    *)
(* nothing is latched three times.                                                *)
TimingsRenewed == moe => shadow # "stale"

(* A disarmed brake resistor is not switched, and an iteration that leaves the    *)
(* motor armed leaves a brake resistor in use armed.                              *)
BrakeGuards ==
  /\ ~brakeArmed => ~brakePwm
  /\ isr = "deadline" /\ cs = "open" /\ armed /\ enableBrake => brakeArmed

(* A motor that was armed is powered or disarmed.                                 *)
ArmingResolves == armed ~> (moe \/ ~armed)

(* disarm() and arm() keep their promise.                                         *)
Stage == INSTANCE PowerStage WITH
  stage <- IF moe THEN "driven" ELSE IF aoe THEN "ready"
           ELSE IF armed THEN "armed" ELSE "off"
ImplementsPowerStage == Stage!Spec
=====================================================================================
