------------------------------ MODULE ControlTimeout ------------------------------
(* The command and heartbeat watchdogs of the motion layer (control_timeout.cpp): *)
(* the CAN thread writes a command and then feeds its deadline; the control-loop  *)
(* interrupt may come between any two of these steps, finds a deadline elapsed,   *)
(* and puts a safe input in the command's place. What an input asks of the motor  *)
(* is abstracted to whether it asks for anything. The ages count time without the *)
(* wrapping of the tick; no guard reads them.                                     *)
EXTENDS Naturals

CONSTANTS
  Half,               \* half the range of HAL_GetTick()
  CommandTimeouts,    \* values of can_watchdog_timeout_ms
  HeartbeatTimeouts,  \* values of heartbeat_timeout_ms
  Overrides,          \* values the host writes to timeout_action
  Modes               \* the servo modes in use

TimeoutActions == {"HOLD_LAST_POSITION", "QUICK_STOP", "QUICK_STOP_AND_HOLD",
                   "TORQUE_ZERO", "FAULT_DISABLE"}
ServoModes == {"TORQUE", "VELOCITY", "PROFILE_POSITION", "MIT_REALTIME"}

(* The firmware takes any 32-bit timeout; one beyond half the range of the tick   *)
(* would look elapsed at once.                                                    *)
ASSUME ConstantsAssumption ==
  /\ Half \in Nat \ {0}
  /\ CommandTimeouts \subseteq 0..Half /\ HeartbeatTimeouts \subseteq 0..Half
  /\ Overrides \subseteq TimeoutActions /\ Modes \subseteq ServoModes

Wrap == 2 * Half
Plus_NeverWraps(a, b) == a + b
Plus(a, b) == IF a + b < Wrap THEN a + b ELSE a + b - Wrap
Minus(a, b) == IF b <= a THEN a - b ELSE a + Wrap - b
Older(age) == IF age < Half THEN age + 1 ELSE Half

VARIABLES
  commandTimeout, heartbeatTimeout, timeoutAction,
  mode,               \* the pair of control mode and input mode
  commandDeadline, heartbeatDeadline, commandAge, heartbeatAge,
  expired, quickStop, torqueZero, reason,
  overridden,         \* the timeout in force ran an action of the host's choice
  demand,             \* the inputs in use that ask for a speed, a torque or an MIT law
  target,             \* input_pos_: seen by the controller, or newly set
  trajectory,         \* a trajectory that moves the setpoint is under way
  loop, armed, axisError,
  tick,               \* HAL_GetTick()
  pc, clearing        \* what the CAN thread does next, and if for Clear_Errors

configVars == <<commandTimeout, heartbeatTimeout, timeoutAction, mode>>
commandVars == <<commandDeadline, commandAge>>
heartbeatVars == <<heartbeatDeadline, heartbeatAge>>
watchVars == <<expired, quickStop, torqueZero, reason, overridden>>
inputVars == <<demand, target, trajectory>>
axisVars == <<loop, armed, axisError>>
threadVars == <<pc, clearing>>
vars == <<configVars, commandVars, heartbeatVars, watchVars, inputVars,
          axisVars, tick, threadVars>>

(* The action of each mode, and the one in force: the host's value 2 means "as    *)
(* the mode has it", any other is an override.                                    *)
ModeAction(m) ==
  CASE m = "VELOCITY" -> "QUICK_STOP_AND_HOLD"
    [] m = "PROFILE_POSITION" -> "HOLD_LAST_POSITION"
    [] OTHER -> "TORQUE_ZERO"
effective_timeout_action ==
  IF timeoutAction = "QUICK_STOP_AND_HOLD" THEN ModeAction(mode) ELSE timeoutAction

(* A change of mode drops every input but the MIT law, so only the input of the   *)
(* mode in force, and the MIT law, need remembering.                              *)
InUse(inputs) ==
  inputs \intersect ({"mit"} \union (IF mode = "VELOCITY" THEN {"velocity"}
                                    ELSE IF mode = "TORQUE" THEN {"torque"} ELSE {}))
TargetInUse(wanted) == IF mode = "PROFILE_POSITION" THEN wanted ELSE "seen"

QuickStops == {"QUICK_STOP", "QUICK_STOP_AND_HOLD"}

------------------------------------------------------------------------------------
(* The control-loop interrupt. *)

deadline_expired_NoWrap(deadline, now) == deadline <= now
deadline_expired(deadline, now) == Minus(now, deadline) < Half

CommandElapsed(now) ==
  commandDeadline # 0 /\ ~expired /\ deadline_expired(commandDeadline, now)
HeartbeatElapsed(now) ==
  heartbeatDeadline # 0 /\ ~expired /\ deadline_expired(heartbeatDeadline, now)

(* The inputs a timeout silences. *)
Silenced_ForgetsMit(action) ==
  (IF action \in QuickStops THEN {"velocity"} ELSE {})
  \union (IF action = "TORQUE_ZERO" THEN {"torque"} ELSE {})
Silenced(action) ==
  (IF mode = "MIT_REALTIME" THEN {"mit"} ELSE {})
  \union (IF action \in QuickStops THEN {"velocity"} ELSE {})
  \union (IF action = "TORQUE_ZERO" THEN {"torque"} ELSE {})

apply_timeout_action(why) ==
  LET action == effective_timeout_action IN
  /\ expired' = TRUE /\ reason' = why
  /\ demand' = demand \ Silenced(action)
  /\ quickStop' = (quickStop \/ action \in QuickStops)
  /\ torqueZero' = (torqueZero \/ action = "TORQUE_ZERO")
  /\ axisError' = (axisError \/ action = "FAULT_DISABLE")
  /\ overridden' = (action # ModeAction(mode))

check_deadlines(now) ==
  IF CommandElapsed(now) THEN apply_timeout_action("command")
  ELSE IF HeartbeatElapsed(now) THEN apply_timeout_action("heartbeat")
  ELSE UNCHANGED <<watchVars, demand, axisError>>

(* input_pos_ once the deadlines have been looked at. *)
TargetInForce(now) ==
  IF (CommandElapsed(now) \/ HeartbeatElapsed(now))
     /\ effective_timeout_action = "HOLD_LAST_POSITION"
  THEN "seen" ELSE target

(* Controller::update(): whenever the position loop runs it plans a trajectory to *)
(* a new target, and otherwise follows the one under way to its end.              *)
UpdateController(wanted) ==
  \/ target' = wanted /\ UNCHANGED trajectory
  \/ /\ mode = "PROFILE_POSITION" /\ target' = "seen"
     /\ trajectory' \in IF wanted = "elsewhere" THEN {TRUE} ELSE {trajectory, FALSE}

(* One iteration: an error found by now floats the motor, the deadlines are       *)
(* looked at, the controller runs. At most one tick passes between two of them.   *)
ControlIteration ==
  \E now \in {tick, Plus(tick, 1)} :
    /\ tick' = now
    /\ commandAge' = IF now = tick THEN commandAge ELSE Older(commandAge)
    /\ heartbeatAge' = IF now = tick THEN heartbeatAge ELSE Older(heartbeatAge)
    /\ armed' = (armed /\ ~axisError)
    /\ check_deadlines(now)
    /\ UpdateController(TargetInForce(now))
    /\ UNCHANGED <<configVars, commandDeadline, heartbeatDeadline, loop, threadVars>>

------------------------------------------------------------------------------------
(* The CAN thread. *)

Return == pc' = (IF clearing THEN "errors" ELSE "ready") /\ UNCHANGED clearing

(* feed_command(): the deadline first, then the state of an earlier timeout. *)
feed_command ==
  /\ pc = "feed"
  /\ IF commandTimeout > 0
     THEN commandDeadline' = Plus(tick, commandTimeout) /\ pc' = "test" /\ UNCHANGED clearing
     ELSE commandDeadline' = 0 /\ Return
  /\ commandAge' = 0
  /\ UNCHANGED <<configVars, heartbeatVars, watchVars, inputVars, axisVars,
                 tick>>

ForgetTimeout_QuickStopOnly ==
  /\ pc = "test"
  /\ IF quickStop THEN expired' = FALSE /\ pc' = "clear" /\ UNCHANGED clearing
     ELSE UNCHANGED expired /\ Return
  /\ UNCHANGED <<configVars, commandVars, heartbeatVars, quickStop, torqueZero, reason,
                 overridden, inputVars, axisVars, tick>>
ForgetTimeout ==
  /\ pc = "test"
  /\ IF expired \/ quickStop \/ torqueZero
     THEN expired' = FALSE /\ overridden' = FALSE /\ pc' = "clear" /\ UNCHANGED clearing
     ELSE UNCHANGED <<expired, overridden>> /\ Return
  /\ UNCHANGED <<configVars, commandVars, heartbeatVars, quickStop, torqueZero, reason,
                 inputVars, axisVars, tick>>

(* The rest of clear(): called by feed_command, and by Clear_Errors before it. *)
clear ==
  /\ pc \in {"clear", "wipe"}
  /\ quickStop' = FALSE /\ torqueZero' = FALSE /\ reason' = "none"
  /\ IF pc = "wipe" THEN pc' = "feed" /\ UNCHANGED clearing ELSE Return
  /\ UNCHANGED <<configVars, commandVars, heartbeatVars, expired, overridden, inputVars,
                 axisVars, tick>>

(* A motion command writes its inputs, in a critical section, and feeds. *)
MotionFrame ==
  /\ pc = "ready" /\ pc' = "feed"
  /\ UNCHANGED <<configVars, commandVars, heartbeatVars, watchVars, axisVars,
                 tick, clearing>>

SetInputPos ==
  /\ MotionFrame
  /\ \E wanted \in {"here", "elsewhere"} : target' = TargetInUse(wanted)
  /\ UNCHANGED trajectory
  /\ \E feedForward \in SUBSET {"velocity", "torque"} :
       demand' = (demand \ {"velocity", "torque"}) \union InUse(feedForward)
SetInputVel ==
  /\ MotionFrame
  /\ \E asked \in SUBSET {"velocity", "torque"} :
       demand' = (demand \ {"velocity", "torque"}) \union InUse(asked)
  /\ UNCHANGED <<target, trajectory>>
SetInputTorque ==
  /\ MotionFrame
  /\ \E asked \in SUBSET {"torque"} : demand' = (demand \ {"torque"}) \union InUse(asked)
  /\ UNCHANGED <<target, trajectory>>
SetMitControl ==
  /\ MotionFrame
  /\ \E asked \in SUBSET {"mit"} : demand' = (demand \ {"mit"}) \union asked
  /\ UNCHANGED <<target, trajectory>>

(* A change of mode starts from rest: every input and setpoint is dropped but the *)
(* MIT law, which only the MIT mode reads.                                        *)
control_mode_updated ==
  /\ demand' = demand \ {"velocity", "torque"}
  /\ target' = "seen" /\ trajectory' = FALSE

SetControllerModes ==
  /\ pc = "ready" /\ pc' = "feed"
  /\ mode' \in Modes
  /\ control_mode_updated
  /\ UNCHANGED <<commandTimeout, heartbeatTimeout, timeoutAction, commandVars,
                 heartbeatVars, watchVars, axisVars, tick, clearing>>

(* The configuration items of the watchdogs, refused while the motor is armed. *)
SetServoMode ==
  /\ pc = "ready" /\ ~armed /\ pc' = "feed"
  /\ mode' \in Modes /\ timeoutAction' = ModeAction(mode')
  /\ control_mode_updated
  /\ UNCHANGED <<commandTimeout, heartbeatTimeout, commandVars, heartbeatVars, watchVars,
                 axisVars, tick, clearing>>
SetTimeoutAction ==
  /\ pc = "ready" /\ ~armed
  /\ timeoutAction' \in Overrides
  /\ UNCHANGED <<commandTimeout, heartbeatTimeout, mode, commandVars, heartbeatVars,
                 watchVars, inputVars, axisVars, tick, threadVars>>
SetCommandTimeout ==
  /\ pc = "ready" /\ ~armed /\ pc' = "feed"
  /\ commandTimeout' \in CommandTimeouts
  /\ UNCHANGED <<heartbeatTimeout, timeoutAction, mode, commandVars, heartbeatVars,
                 watchVars, inputVars, axisVars, tick, clearing>>

feed_heartbeat ==
  /\ heartbeatDeadline' = IF heartbeatTimeout' > 0 THEN Plus(tick, heartbeatTimeout') ELSE 0
  /\ heartbeatAge' = 0
SetHeartbeatTimeout ==
  /\ pc = "ready" /\ ~armed
  /\ heartbeatTimeout' \in HeartbeatTimeouts
  /\ feed_heartbeat
  /\ UNCHANGED <<commandTimeout, timeoutAction, mode, commandVars, watchVars, inputVars,
                 axisVars, tick, threadVars>>
HostHeartbeat ==
  /\ pc = "ready"
  /\ UNCHANGED heartbeatTimeout
  /\ feed_heartbeat
  /\ UNCHANGED <<commandTimeout, timeoutAction, mode, commandVars, watchVars, inputVars,
                 axisVars, tick, threadVars>>

Estop ==
  /\ pc = "ready"
  /\ axisError' = TRUE
  /\ UNCHANGED <<configVars, commandVars, heartbeatVars, watchVars, inputVars,
                 loop, armed, tick, threadVars>>

(* Clear_Errors: clear(), feed_command(), and only then the error of the axis. *)
ClearErrors ==
  /\ pc = "ready" /\ pc' = "wipe" /\ clearing' = TRUE
  /\ expired' = FALSE /\ overridden' = FALSE
  /\ UNCHANGED <<configVars, commandVars, heartbeatVars, quickStop, torqueZero, reason,
                 inputVars, axisVars, tick>>
ErrorsCleared ==
  /\ pc = "errors" /\ pc' = "ready" /\ clearing' = FALSE
  /\ axisError' = FALSE
  /\ UNCHANGED <<configVars, commandVars, heartbeatVars, watchVars, inputVars,
                 loop, armed, tick>>

------------------------------------------------------------------------------------
(* The axis thread, which preempts the CAN thread. *)

start_closed_loop_control ==
  /\ loop = "idle" /\ loop' = "starting"
  /\ demand' = demand \ {"velocity", "torque"}
  /\ target' = TargetInUse("here") /\ trajectory' = FALSE
  /\ UNCHANGED <<configVars, commandVars, heartbeatVars, watchVars, armed, axisError,
                 tick, threadVars>>
ArmMotor ==
  /\ loop = "starting" /\ loop' = "running"
  /\ armed' = TRUE
  /\ UNCHANGED <<configVars, commandVars, heartbeatVars, watchVars, inputVars,
                 axisError, tick, threadVars>>
stop_closed_loop_control ==
  /\ loop = "running" /\ loop' = "idle"
  /\ armed' = FALSE /\ quickStop' = FALSE /\ torqueZero' = FALSE
  /\ UNCHANGED <<configVars, commandVars, heartbeatVars, expired, reason, overridden,
                 inputVars, axisError, tick, threadVars>>

------------------------------------------------------------------------------------
Init ==
  /\ commandTimeout \in CommandTimeouts /\ heartbeatTimeout \in HeartbeatTimeouts
  /\ timeoutAction \in Overrides /\ mode \in Modes
  /\ commandDeadline = 0 /\ heartbeatDeadline = 0
  /\ commandAge = 0 /\ heartbeatAge = 0
  /\ expired = FALSE /\ quickStop = FALSE /\ torqueZero = FALSE
  /\ reason = "none" /\ overridden = FALSE
  /\ demand = {} /\ target = "seen" /\ trajectory = FALSE
  /\ loop = "idle" /\ armed = FALSE /\ axisError = FALSE
  /\ tick = 0
  /\ pc = "ready" /\ clearing = FALSE

(* The steps of a handler that has begun. *)
HandlerStep == feed_command \/ ForgetTimeout \/ clear \/ ErrorsCleared

Frame ==
  \/ SetInputPos \/ SetInputVel \/ SetInputTorque \/ SetMitControl \/ SetControllerModes
  \/ SetServoMode \/ SetTimeoutAction \/ SetCommandTimeout \/ SetHeartbeatTimeout
  \/ HostHeartbeat \/ Estop \/ ClearErrors

AxisStep == start_closed_loop_control \/ ArmMotor \/ stop_closed_loop_control

Next == ControlIteration \/ HandlerStep \/ Frame \/ AxisStep

Spec == Init /\ [][Next]_vars

------------------------------------------------------------------------------------
(* Properties. *)

TypeOK ==
  /\ commandTimeout \in CommandTimeouts /\ heartbeatTimeout \in HeartbeatTimeouts
  /\ timeoutAction \in TimeoutActions /\ mode \in Modes
  /\ commandDeadline \in 0..(Wrap - 1) /\ heartbeatDeadline \in 0..(Wrap - 1)
  /\ commandAge \in 0..Half /\ heartbeatAge \in 0..Half
  /\ expired \in BOOLEAN /\ quickStop \in BOOLEAN /\ torqueZero \in BOOLEAN
  /\ reason \in {"none", "command", "heartbeat"} /\ overridden \in BOOLEAN
  /\ demand \subseteq {"velocity", "torque", "mit"}
  /\ target \in {"seen", "here", "elsewhere"} /\ trajectory \in BOOLEAN
  /\ loop \in {"idle", "starting", "running"}
  /\ armed \in BOOLEAN /\ axisError \in BOOLEAN
  /\ tick \in 0..(Wrap - 1)
  /\ pc \in {"ready", "feed", "test", "clear", "wipe", "errors"} /\ clearing \in BOOLEAN

(* The inputs ask for nothing new in the mode that is in force.                   *)
Quiet ==
  CASE mode = "VELOCITY" -> "velocity" \notin demand
    [] mode = "TORQUE" -> "torque" \notin demand
    [] mode = "MIT_REALTIME" -> "mit" \notin demand
    [] OTHER -> target # "elsewhere"

(* While a timeout is latched no deadline is looked at. That is safe only because *)
(* the inputs stay quiet for as long: whatever makes them ask for something again *)
(* also drops the latch (unless the host chose another action).                   *)
Fed == pc \notin {"feed", "test"}
DeafOnlyWhenQuiet ==
  expired /\ commandTimeout > 0 /\ Fed => Quiet \/ overridden

CommandSilent == commandAge' \in commandTimeout..(Half - 1)
HeartbeatSilent == heartbeatAge' \in heartbeatTimeout..(Half - 1)

(* Once the host has been silent for a timeout that has a deadline, on either     *)
(* watchdog and wherever the turn of the tick falls in between, the inputs ask    *)
(* for nothing: speed, torque and MIT law are gone, and no target is taken up any *)
(* more, so that a positioning motor at most finishes the trajectory under way.   *)
(* Not when the host has set a timeout action that does not suit the mode. Three  *)
(* things this does not say are what the next three properties ask of the code.   *)
SilenceStops ==
  [][/\ ControlIteration /\ commandTimeout > 0 /\ Fed
     /\ \/ commandDeadline # 0 /\ CommandSilent
        \/ heartbeatDeadline # 0 /\ HeartbeatSilent
     => overridden' \/ (Quiet' /\ (trajectory' => trajectory))]_vars

(* The quick stop of an earlier timeout still ramps the speed down to zero.       *)
QuickStopping == mode = "VELOCITY" /\ quickStop

(* CAN_PROTOCOL_PRODUCTION.md:305-307: "On expiry (can_watchdog_timeout_ms with   *)
(* no motion command), the firmware executes the mode-aware timeout action."      *)
(* Every silence as long as the timeout expires, also of a command whose deadline *)
(* comes out as the 0 that feed_command uses for no deadline.                     *)
SilenceAlwaysStops ==
  [][ControlIteration /\ commandTimeout > 0 /\ Fed /\ CommandSilent
     => Quiet' \/ QuickStopping' \/ overridden' \/ ~armed']_vars

(* odrive-interface.yaml:1321-1324, HOLD_LAST_POSITION: "freeze the current       *)
(* position setpoint and hold it." The setpoint follows no trajectory after it.   *)
HoldFreezes ==
  [][/\ ControlIteration /\ ~expired /\ expired'
     /\ effective_timeout_action = "HOLD_LAST_POSITION"
     => ~trajectory' \/ ~armed']_vars

(* CAN_PROTOCOL_PRODUCTION.md:309-311: "A separate heartbeat watchdog             *)
(* (heartbeat_timeout_ms, item 0x5C) is fed only by master heartbeat/NMT frames   *)
(* [...]. On expiry the same timeout action path runs". Separate: also when the   *)
(* command watchdog is disabled, and each time the heartbeat is lost.             *)
HeartbeatLossStops ==
  [][ControlIteration /\ Fed /\ heartbeatDeadline # 0 /\ HeartbeatSilent
     => Quiet' \/ QuickStopping' \/ overridden' \/ ~armed']_vars

(* A timeout is only ever declared, and named to the host, after that silence.    *)
OnlySilenceExpires ==
  [][expired' /\ ~expired =>
       \/ reason' = "command" /\ (commandAge' >= commandTimeout \/ ~Fed)
       \/ reason' = "heartbeat" /\ heartbeatAge' >= heartbeatTimeout]_vars
====================================================================================
