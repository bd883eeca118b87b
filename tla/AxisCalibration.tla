----------------------------- MODULE AxisCalibration -----------------------------
(* The axis thread and the CAN thread around one calibration session: the task  *)
(* chain of Axis::run_state_machine_loop, the experiments a session runs, the   *)
(* configuration they borrow, and the commands the host may interleave.         *)
(*                                                                              *)
(* The axis thread outranks the CAN thread, so a CAN handler runs only while    *)
(* the axis thread is blocked in osDelay or osSignalWait: pc names the blocking *)
(* point (or the statement to run next) and asleep says that the thread is in   *)
(* fact blocked there.  The control-loop interrupt may disarm the motor at any  *)
(* step.                                                                        *)
(*                                                                              *)
(* A parameter is represented by who is answerable for its value: the user (0), *)
(* a running experiment (Trial) or the session that committed it (its id).      *)
EXTENDS Integers, Sequences, CalibrationSession

CONSTANTS
  MaxSessions,            \* bound on accepted STARTs
  Segments,               \* motion segments of the geometry scan (4 in the code)
  HostRequests,           \* values the host may write to requested_state
  StartProfiles,          \* profiles the host may START
  EditableGroups,         \* groups the host may write while a motor is armed
  StartupChain            \* config_.startup_*: the chain run at power-up

AxisStates == {"UNDEFINED", "IDLE", "STARTUP_SEQUENCE", "FULL_CALIBRATION_SEQUENCE",
               "MOTOR_CALIBRATION", "ENCODER_OFFSET_CALIBRATION", "LOCKIN_SPIN",
               "CLOSED_LOOP_CONTROL", "INVALID"}

Groups == {"electrical", "poles", "encoder", "output", "mechanics", "loop"}

StartupTasks ==
  {<<>>, <<"MOTOR_CALIBRATION">>, <<"ENCODER_OFFSET_CALIBRATION">>,
   <<"CLOSED_LOOP_CONTROL">>,
   <<"MOTOR_CALIBRATION", "ENCODER_OFFSET_CALIBRATION">>,
   <<"MOTOR_CALIBRATION", "CLOSED_LOOP_CONTROL">>,
   <<"ENCODER_OFFSET_CALIBRATION", "CLOSED_LOOP_CONTROL">>,
   <<"MOTOR_CALIBRATION", "ENCODER_OFFSET_CALIBRATION", "CLOSED_LOOP_CONTROL">>}

ASSUME ConstantsAssumption ==
  /\ MaxSessions \in Nat
  /\ Segments \in Nat \ {0}
  /\ HostRequests \subseteq AxisStates
  /\ StartProfiles \subseteq Profiles
  /\ EditableGroups \subseteq Groups
  /\ StartupChain \in StartupTasks

VARIABLES
  session, pending, startPending, capture,  \* calibration_session_ and its companions
  requested, requestedBy,                   \* requested_state_, and who wrote it
  chain, chainBy,                           \* task_chain_, and who asked for it
  pc, asleep, status,                       \* the axis thread
  exp, saved, segment,                      \* the experiment, its snapshot, its segment
  live, calibrated, stored,                 \* config_ in RAM, is_calibrated_, config_ in NVM
  armed                                     \* motor_.is_armed_

sessionVars == <<session, pending, startPending, capture>>
requestVars == <<requested, requestedBy>>
chainVars == <<chain, chainBy>>
experimentVars == <<exp, saved, segment>>
modelVars == <<live, calibrated, stored>>
vars == <<sessionVars, requestVars, chainVars, pc, asleep, status,
          experimentVars, modelVars, armed>>

User == 0
Trial == -1
Origins == {User, Trial} \union (1..MaxSessions)
Configs == [Groups -> Origins]

(* What a session must have identified before its candidate can be valid. *)
Evidence == {"electrical", "encoder", "geometry", "flux", "mechanics", "delay"}
Model == Groups \ {"loop"}          \* what a commit replaces

Experiments == {"none", "motor", "offset", "alignment", "geometry",
                "mechanical", "delay"}

(* The groups an experiment puts back when it ends, and those it starts by      *)
(* overwriting; the others it reads as they are.                                *)
restored_ForgetsPoles == [e \in Experiments |->
  CASE e = "none" -> {}
    [] e = "motor" -> {"electrical"}
    [] e = "offset" -> {"encoder"}
    [] e = "alignment" -> {"electrical", "encoder"}
    [] e = "geometry" -> {"electrical"}
    [] OTHER -> Groups]
restored == [e \in Experiments |->
  CASE e = "none" -> {}
    [] e = "motor" -> {"electrical"}
    [] e = "offset" -> {"encoder"}
    [] e = "alignment" -> {"electrical", "encoder"}
    [] e = "geometry" -> {"electrical", "poles"}
    [] OTHER -> Groups]
applied == [e \in Experiments |->
  CASE e = "alignment" -> {"electrical"}
    [] e = "geometry" -> {"electrical", "poles"}
    [] e \in {"mechanical", "delay"} -> Groups
    [] OTHER -> {}]

BlockingPoints == {"faultRead", "idle", "resistance", "inductance", "offsetWait", "offsetLock",
                   "offsetForward", "offsetBackward", "spinWait", "spin", "pause",
                   "loopWait", "drive", "rampDown", "run"}
RunningPoints == {"load", "dispatch", "motorReturned", "offsetReturned",
                  "segmentStart", "geometryEnd", "mechanicalEnd", "delayEnd",
                  "validate", "commit"}

current == Head(chain)
RequestMade == requested # "UNDEFINED"
isActive == active(session)

(* The configuration once the current experiment has put its groups back. *)
Restored == [g \in Groups |-> IF g \in restored[exp] THEN saved.config[g] ELSE live[g]]
RestoredFlag == IF exp = "none" THEN calibrated ELSE saved.calibrated
Written(g) == [live EXCEPT ![g] = IF exp = "none" THEN User ELSE Trial]

UserConfig == [g \in Groups |-> User]
NoSnapshot == [config |-> UserConfig, calibrated |-> FALSE]

------------------------------------------------------------------------------------
(* How a step leaves the axis thread. *)

(* An experiment records its own cause; the catch-all at the end of the case    *)
(* then calls fail once more, and must not overwrite it.                        *)
Failed(code) == fail(fail(session, code), "GEOMETRY")

Goto(point) == pc' = point /\ asleep' = FALSE
Sleep(point) == pc' = point /\ asleep' = TRUE
Enter(point, sleeps) == pc' = point /\ asleep' = sleeps

(* The handler returns: advance the chain, or on failure fall back to idle. *)
Finish(ok) ==
  /\ chain' = IF ok /\ Len(chain) > 1 THEN Tail(chain) ELSE <<"IDLE">>
  /\ exp' = "none" /\ saved' = NoSnapshot /\ segment' = 0 /\ status' = FALSE
  /\ Goto("load")
  /\ UNCHANGED chainBy

(* The experiment e starts from the configuration config. *)
Begin(e, config, flag) ==
  /\ exp' = e
  /\ saved' = IF e = "none" THEN NoSnapshot ELSE [config |-> config, calibrated |-> flag]
  /\ live' = [g \in Groups |-> IF g \in applied[e] THEN Trial ELSE config[g]]
  /\ calibrated' = (applied[e] # {} \/ flag)

GiveBack == live' = Restored /\ calibrated' = RestoredFlag

------------------------------------------------------------------------------------
(* Loop top and the switch on the current state.                                *)

TaskChain(r) ==
  CASE r = "STARTUP_SEQUENCE" -> StartupChain \o <<"IDLE">>
    [] r = "FULL_CALIBRATION_SEQUENCE" ->
         <<"MOTOR_CALIBRATION", "ENCODER_OFFSET_CALIBRATION", "IDLE">>
    [] OTHER -> <<r, "IDLE">>

LoadChain ==
  /\ pc = "load"
  /\ chain' = IF RequestMade THEN TaskChain(requested) ELSE chain
  /\ chainBy' = IF RequestMade THEN requestedBy ELSE chainBy
  /\ startPending' = FALSE
  /\ IF ~startPending
       THEN requested' = "UNDEFINED" /\ requestedBy' = "host" /\ UNCHANGED session
       ELSE IF session.profile \in {"FULL", "ELECTRICAL"}
         THEN /\ session' = set_stage(session, "ELECTRICAL_CAPTURE")
              /\ requested' = "MOTOR_CALIBRATION" /\ requestedBy' = "service"
         ELSE /\ session' = fail(set_stage(session, "PRECHECK"), "PROFILE")
              /\ requested' = "UNDEFINED" /\ requestedBy' = "host"
  /\ Goto("dispatch")
  /\ UNCHANGED <<pending, capture, status, experimentVars, modelVars, armed>>

(* run_idle_loop reads the gate driver's fault registers before it looks at     *)
(* requested_state_.  Each read sleeps until its transfer has been answered,    *)
(* unless the transfer was refused.                                             *)
DispatchIdle ==
  /\ pc = "dispatch" /\ current = "IDLE"
  /\ \E sleeps \in BOOLEAN : Enter("faultRead", sleeps)
  /\ UNCHANGED <<sessionVars, requestVars, chainVars, status, experimentVars,
                 modelVars, armed>>

FaultRead ==
  /\ pc = "faultRead"
  /\ \/ RequestMade /\ Finish(TRUE)
     \/ ~RequestMade /\ Sleep("idle") /\ UNCHANGED <<chainVars, status, experimentVars>>
  /\ UNCHANGED <<sessionVars, requestVars, modelVars, armed>>

IdleWakes ==
  /\ pc = "idle" /\ RequestMade
  /\ Finish(TRUE)
  /\ UNCHANGED <<sessionVars, requestVars, modelVars, armed>>

(* Unknown states, and states whose preconditions do not hold. *)
DispatchInvalid ==
  /\ pc = "dispatch"
  /\ \/ current \notin {"IDLE", "MOTOR_CALIBRATION", "ENCODER_OFFSET_CALIBRATION",
                        "LOCKIN_SPIN", "CLOSED_LOOP_CONTROL"}
     \/ current = "ENCODER_OFFSET_CALIBRATION" /\ ~calibrated
     \/ current \in {"LOCKIN_SPIN", "CLOSED_LOOP_CONTROL"}  \* not calibrated, no direction,
                                                            \* or no feedback to close on
  /\ Finish(FALSE)
  /\ UNCHANGED <<sessionVars, requestVars, modelVars, armed>>

DispatchMotorCalibration ==
  /\ pc = "dispatch" /\ current = "MOTOR_CALIBRATION"
  /\ LET owned == isActive /\ session.stage = "ELECTRICAL_CAPTURE" IN
       /\ Begin(IF owned THEN "motor" ELSE "none", live, calibrated)
       /\ capture' = (capture \/ owned)
  /\ armed' \in BOOLEAN
  /\ Enter("resistance", armed' /\ ~RequestMade)
  /\ UNCHANGED <<session, pending, startPending, requestVars, chainVars, status,
                 segment, stored>>

DispatchOffsetCalibration ==
  /\ pc = "dispatch" /\ current = "ENCODER_OFFSET_CALIBRATION" /\ calibrated
  /\ LET owned == isActive /\ session.stage = "ENCODER_GEOMETRY" IN
       Begin(IF owned THEN "offset" ELSE "none", live, calibrated)
  /\ Sleep("offsetWait")
  /\ UNCHANGED <<sessionVars, requestVars, chainVars, status, segment, stored, armed>>

DispatchMotion ==
  /\ pc = "dispatch" /\ calibrated
  /\ \/ current = "LOCKIN_SPIN" /\ Sleep("spinWait")
     \/ current = "CLOSED_LOOP_CONTROL" /\ Sleep("loopWait")
  /\ UNCHANGED <<sessionVars, requestVars, chainVars, status, experimentVars,
                 modelVars, armed>>

(* run_closed_loop_control_loop, outside a session. *)
ClosedLoopEnds ==
  /\ pc = "run" /\ (RequestMade \/ ~armed)
  /\ armed' = FALSE
  /\ \E ok \in BOOLEAN : Finish(ok)
  /\ UNCHANGED <<sessionVars, requestVars, modelVars>>

------------------------------------------------------------------------------------
(* Motor::run_calibration: two timed measurements, each armed on its own.       *)

MeasureResistance ==
  /\ pc = "resistance"
  /\ live' = Written("electrical")
  /\ \/ /\ armed
        /\ armed' \in BOOLEAN                \* measured; arm for the next measurement
        /\ Enter("inductance", armed' /\ ~RequestMade)
        /\ UNCHANGED status
     \/ armed' = FALSE /\ status' = FALSE /\ Goto("motorReturned")
  /\ UNCHANGED <<sessionVars, requestVars, chainVars, experimentVars, calibrated, stored>>

MeasureInductance ==
  /\ pc = "inductance"
  /\ live' = Written("electrical")
  /\ armed' = FALSE
  /\ \/ armed /\ asleep /\ status' = TRUE /\ calibrated' = TRUE
     \/ status' = FALSE /\ UNCHANGED calibrated     \* implausible without samples
  /\ Goto("motorReturned")
  /\ UNCHANGED <<sessionVars, requestVars, chainVars, experimentVars, stored>>

Identified(evidence) ==
  pending' = [pending EXCEPT !.valid = @ \union evidence]

(* The rest of the MOTOR_CALIBRATION case up to the encoder alignment. *)
MotorReturned ==
  /\ pc = "motorReturned"
  /\ IF exp = "none"
       THEN Finish(status) /\ UNCHANGED <<session, pending, capture, live, calibrated>>
       ELSE
         /\ capture' = FALSE
         /\ Identified(IF status THEN {"electrical"} ELSE {})
         /\ IF isActive /\ status /\ session.profile = "FULL"
              THEN /\ session' = set_stage(session, "ENCODER_GEOMETRY")
                   /\ Begin("alignment", Restored, RestoredFlag)
                   /\ Sleep("offsetWait")
                   /\ UNCHANGED <<chainVars, status, segment>>
              ELSE /\ session' = IF status THEN transition(session, "COLLECTED")
                                            ELSE fail(session, "MOTOR")
                   /\ GiveBack
                   /\ Finish(status)
  /\ UNCHANGED <<startPending, requestVars, stored, armed>>

------------------------------------------------------------------------------------
(* Encoder::run_offset_calibration, alone or as the alignment of a session.     *)

OffsetFails_StaysArmed == status' = FALSE /\ UNCHANGED armed /\ Goto("offsetReturned")
OffsetFails == status' = FALSE /\ armed' = FALSE /\ Goto("offsetReturned")

OffsetArm ==
  /\ pc = "offsetWait"
  /\ armed' \in BOOLEAN
  /\ Enter("offsetLock", armed' /\ ~RequestMade)
  /\ UNCHANGED <<sessionVars, requestVars, chainVars, status, experimentVars, modelVars>>

OffsetLock ==
  /\ pc = "offsetLock"
  /\ \/ (~armed \/ RequestMade) /\ OffsetFails
     \/ /\ asleep                            \* held for the whole lock time
        /\ Enter("offsetForward", armed /\ ~RequestMade)
        /\ UNCHANGED <<status, armed>>
  /\ UNCHANGED <<sessionVars, requestVars, chainVars, experimentVars, modelVars>>

OffsetForward ==
  /\ pc = "offsetForward"
  /\ \/ live' = Written("encoder")           \* the direction is known
        /\ \/ Enter("offsetBackward", armed /\ ~RequestMade) /\ UNCHANGED <<status, armed>>
           \/ OffsetFails                    \* the pole pairs do not match
     \/ OffsetFails /\ UNCHANGED live        \* no response
  /\ UNCHANGED <<sessionVars, requestVars, chainVars, experimentVars, calibrated, stored>>

OffsetBackward ==
  /\ pc = "offsetBackward"
  /\ \/ ~armed /\ OffsetFails /\ UNCHANGED live
     \/ /\ armed /\ armed' = FALSE
        /\ live' = Written("encoder")
        /\ status' = TRUE /\ Goto("offsetReturned")
  /\ UNCHANGED <<sessionVars, requestVars, chainVars, experimentVars, calibrated, stored>>

(* The rest of the ENCODER_OFFSET_CALIBRATION case. *)
OffsetReturned ==
  /\ pc = "offsetReturned" /\ exp # "alignment"
  /\ IF exp = "none"
       THEN UNCHANGED <<session, pending, live, calibrated>>
       ELSE /\ Identified(IF status THEN {"encoder"} ELSE {})
            /\ session' = IF status THEN transition(session, "COLLECTED")
                                    ELSE fail(session, "ENCODER")
            /\ GiveBack
  /\ Finish(status)
  /\ UNCHANGED <<startPending, capture, requestVars, stored, armed>>

AlignmentEnds_LeavesActive ==
  /\ pc = "offsetReturned" /\ exp = "alignment"
  /\ Identified(IF status THEN {"encoder"} ELSE {})
  /\ IF status /\ isActive
       THEN /\ Begin("geometry", Restored, RestoredFlag)
            /\ segment' = 0
            /\ Goto("segmentStart")
            /\ UNCHANGED <<session, chainVars, status>>
       ELSE /\ UNCHANGED session
            /\ GiveBack
            /\ Finish(status)
  /\ UNCHANGED <<startPending, capture, requestVars, stored, armed>>

(* The end of run_calibration_encoder_alignment and the start of the geometry   *)
(* scan: electrical model and pole pairs on trial.                              *)
AlignmentEnds ==
  /\ pc = "offsetReturned" /\ exp = "alignment"
  /\ Identified(IF status THEN {"encoder"} ELSE {})
  /\ IF status /\ isActive
       THEN /\ Begin("geometry", Restored, RestoredFlag)
            /\ segment' = 0
            /\ Goto("segmentStart")
            /\ UNCHANGED <<session, chainVars, status>>
       ELSE /\ session' = Failed("ENCODER")
            /\ GiveBack
            /\ Finish(status)
  /\ UNCHANGED <<startPending, capture, requestVars, stored, armed>>

------------------------------------------------------------------------------------
(* run_calibration_geometry_scan over run_lockin_spin, and the lock-in spin.    *)

ScanFails == status' = FALSE /\ Goto("geometryEnd")

SegmentStart_OneMore ==
  /\ pc = "segmentStart"
  /\ \/ segment > Segments /\ status' = TRUE /\ Goto("geometryEnd")
     \/ segment <= Segments /\ isActive /\ Sleep("spinWait") /\ UNCHANGED status
     \/ ScanFails                            \* not active, or the fitter refuses
  /\ UNCHANGED <<sessionVars, requestVars, chainVars, experimentVars, modelVars, armed>>

SegmentStart ==
  /\ pc = "segmentStart"
  /\ \/ segment = Segments /\ status' = TRUE /\ Goto("geometryEnd")
     \/ segment < Segments /\ isActive /\ Sleep("spinWait") /\ UNCHANGED status
     \/ ScanFails                            \* not active, or the fitter refuses
  /\ UNCHANGED <<sessionVars, requestVars, chainVars, experimentVars, modelVars, armed>>

SpinArm ==
  /\ pc = "spinWait"
  /\ armed' \in BOOLEAN
  /\ Enter("spin", armed' /\ ~RequestMade /\ (exp = "geometry" => isActive))
  /\ UNCHANGED <<sessionVars, requestVars, chainVars, status, experimentVars, modelVars>>

SpinReached == asleep /\ armed /\ ~RequestMade
SpinStopped == ~armed \/ RequestMade \/ (exp = "geometry" /\ ~isActive)

SegmentEnds ==
  /\ pc = "spin" /\ exp = "geometry"
  /\ armed' = FALSE
  /\ \/ SpinReached /\ Sleep("pause") /\ segment' = segment + 1 /\ UNCHANGED status
     \/ (SpinReached \/ SpinStopped) /\ ScanFails /\ UNCHANGED segment
  /\ UNCHANGED <<sessionVars, requestVars, chainVars, exp, saved, modelVars>>

PauseEnds ==
  /\ pc = "pause"
  /\ Goto("segmentStart")
  /\ UNCHANGED <<sessionVars, requestVars, chainVars, status, experimentVars,
                 modelVars, armed>>

LockinEnds ==
  /\ pc = "spin" /\ exp = "none"
  /\ armed' = FALSE
  /\ \/ SpinReached /\ Finish(TRUE)
     \/ SpinStopped /\ Finish(FALSE)
  /\ UNCHANGED <<sessionVars, requestVars, modelVars>>

(* Starting the closed loop under the whole candidate may itself be refused. *)
StartDrive(e, endPoint, s) ==
  \/ session' = s /\ Sleep("loopWait") /\ UNCHANGED status
  \/ /\ session' = fail(s, IF e = "mechanical" THEN "MECHANICAL" ELSE "DELAY")
     /\ status' = FALSE /\ Goto(endPoint)

GeometryEnds ==
  /\ pc = "geometryEnd"
  /\ armed' = FALSE
  /\ \/ /\ status /\ isActive                \* both fits succeed
        /\ Identified({"geometry", "flux"})
        /\ Begin("mechanical", Restored, RestoredFlag)
        /\ StartDrive("mechanical", "mechanicalEnd",
                      set_stage(session, "MECHANICAL_CAPTURE"))
        /\ UNCHANGED <<chainVars, segment>>
     \/ /\ status /\ ~isActive               \* aborted in the last pause
        /\ Identified({"geometry", "flux"})
        /\ GiveBack /\ Finish(TRUE) /\ UNCHANGED session
     \/ /\ status                            \* the flux fit fails
        /\ Identified({"geometry"})
        /\ session' = Failed("FLUX") /\ GiveBack /\ Finish(FALSE)
     \/ /\ session' = Failed("GEOMETRY") /\ GiveBack /\ Finish(FALSE)
        /\ \/ Identified({})
           \/ status /\ Identified({"flux"})  \* only the geometry fit fails
  /\ UNCHANGED <<startPending, capture, requestVars, stored>>

------------------------------------------------------------------------------------
(* The closed-loop experiments: run_calibration_mechanical_scan and             *)
(* run_calibration_delay_scan.  Their loops look at the session and at the      *)
(* motor, not at requested_state.                                               *)

LoopArm ==
  /\ pc = "loopWait"
  /\ armed' \in BOOLEAN
  /\ IF exp = "none"
       THEN Enter("run", armed' /\ ~RequestMade) /\ UNCHANGED session
       ELSE /\ Enter("drive", armed' /\ isActive)
            /\ session' = IF armed' THEN session
                          ELSE fail(session, IF exp = "mechanical" THEN "MECHANICAL"
                                                                   ELSE "DELAY")
  /\ UNCHANGED <<pending, startPending, capture, requestVars, chainVars, status,
                 experimentVars, modelVars>>

DriveEnds ==
  /\ pc = "drive"
  /\ status' \in BOOLEAN
  /\ status' => asleep                       \* every sample taken
  /\ IF exp = "mechanical"
       THEN Goto("mechanicalEnd") /\ armed' = FALSE
       ELSE Enter("rampDown", armed) /\ UNCHANGED armed
  /\ UNCHANGED <<sessionVars, requestVars, chainVars, experimentVars, modelVars>>

RampDownEnds ==
  /\ pc = "rampDown"
  /\ armed' = FALSE
  /\ Goto("delayEnd")
  /\ UNCHANGED <<sessionVars, requestVars, chainVars, status, experimentVars, modelVars>>

MechanicalEnds_LeavesActive ==
  /\ pc = "mechanicalEnd"
  /\ \/ /\ status /\ isActive                \* the fit succeeds: on to the delay scan
        /\ Identified({"mechanics"})
        /\ Begin("delay", Restored, RestoredFlag)
        /\ StartDrive("delay", "delayEnd", set_stage(session, "ELECTRICAL_DELAY"))
        /\ UNCHANGED <<chainVars, segment>>
     \/ /\ status /\ ~isActive
        /\ Identified({"mechanics"})
        /\ GiveBack /\ Finish(TRUE) /\ UNCHANGED session
     \/ /\ UNCHANGED session /\ GiveBack /\ Finish(FALSE)
        /\ UNCHANGED pending
  /\ UNCHANGED <<startPending, capture, requestVars, stored, armed>>

MechanicalEnds ==
  /\ pc = "mechanicalEnd"
  /\ \/ /\ status /\ isActive                \* the fit succeeds: on to the delay scan
        /\ Identified({"mechanics"})
        /\ Begin("delay", Restored, RestoredFlag)
        /\ StartDrive("delay", "delayEnd", set_stage(session, "ELECTRICAL_DELAY"))
        /\ UNCHANGED <<chainVars, segment>>
     \/ /\ status /\ ~isActive
        /\ Identified({"mechanics"})
        /\ GiveBack /\ Finish(TRUE) /\ UNCHANGED session
     \/ /\ session' = Failed("MECHANICAL") /\ GiveBack /\ Finish(FALSE)
        /\ UNCHANGED pending
  /\ UNCHANGED <<startPending, capture, requestVars, stored, armed>>

(* COLLECTED, FITTING, IDENTIFIED and VALIDATING are passed without blocking. *)
Collected == transition(session, "COLLECTED")
Fitted == transition(transition(Collected, "FITTING"), "IDENTIFIED")
Validating == transition(set_stage(Fitted, "VALIDATION"), "VALIDATING")

DelayEnds ==
  /\ pc = "delayEnd"
  /\ GiveBack
  /\ \/ /\ status /\ isActive
        /\ Identified({"delay"})
        /\ session' = Validating
        /\ exp' = "none" /\ Goto("validate")
        /\ UNCHANGED <<chainVars, saved, segment, status>>
     \/ status /\ ~isActive /\ Identified({"delay"}) /\ Finish(TRUE) /\ UNCHANGED session
     \/ /\ session' = Failed("DELAY") /\ Finish(FALSE)
        /\ UNCHANGED pending
  /\ UNCHANGED <<startPending, capture, requestVars, stored, armed>>

------------------------------------------------------------------------------------
(* Validation and commit. *)

Staged ==
  transition(set_stage(transition(session, "VALIDATED"), "COMMIT"), "STAGED")

Complete == pending.valid = Evidence /\ pending.id = session.id

Validate ==
  /\ pc = "validate"
  /\ \/ /\ Complete                          \* and every value is plausible
        /\ session' = Staged
        /\ Goto("commit")
        /\ UNCHANGED <<chainVars, experimentVars, status>>
     \/ session' = fail(session, "VALIDATION") /\ Finish(FALSE)
  /\ UNCHANGED <<pending, startPending, capture, requestVars, modelVars, armed>>

Candidate == [g \in Groups |-> IF g \in Model THEN session.id ELSE live[g]]

Commit_KeepsCandidate ==
  /\ pc = "commit"
  /\ \/ /\ Complete /\ ~armed                \* save_configuration succeeds
        /\ live' = Candidate /\ stored' = Candidate /\ calibrated' = TRUE
        /\ session' = transition(session, "COMMITTED")
        /\ Finish(TRUE)
     \/ /\ session' = fail(session, "STORAGE")
        /\ Finish(FALSE)
        /\ live' = Candidate /\ UNCHANGED <<calibrated, stored>>
  /\ UNCHANGED <<pending, startPending, capture, requestVars, armed>>

Commit ==
  /\ pc = "commit"
  /\ \/ /\ Complete /\ ~armed                \* save_configuration succeeds
        /\ live' = Candidate /\ stored' = Candidate /\ calibrated' = TRUE
        /\ session' = transition(session, "COMMITTED")
        /\ Finish(TRUE)
     \/ /\ session' = fail(session, "STORAGE")
        /\ Finish(FALSE)
        /\ UNCHANGED modelVars
  /\ UNCHANGED <<pending, startPending, capture, requestVars, armed>>

------------------------------------------------------------------------------------
(* The CAN thread: it runs only while the axis thread is blocked.               *)

StartSession_Restarts ==
  /\ asleep
  /\ current = "IDLE" /\ ~RequestMade /\ ~armed
  /\ session.id < MaxSessions
  /\ \E profile \in StartProfiles : session' = begin(session, profile)
  /\ pending' = [id |-> session'.id, valid |-> {}]
  /\ startPending' = TRUE
  /\ requested' = "IDLE" /\ requestedBy' = "host"
  /\ UNCHANGED <<capture, chainVars, pc, asleep, status, experimentVars, modelVars, armed>>

StartSession ==
  /\ asleep
  /\ current = "IDLE" /\ ~RequestMade /\ ~armed
  /\ ~isActive /\ session.id < MaxSessions
  /\ \E profile \in StartProfiles : session' = begin(session, profile)
  /\ pending' = [id |-> session'.id, valid |-> {}]
  /\ startPending' = TRUE
  /\ requested' = "IDLE" /\ requestedBy' = "host"
  /\ UNCHANGED <<capture, chainVars, pc, asleep, status, experimentVars, modelVars, armed>>

AbortSession_KeepsCapture ==
  /\ asleep /\ isActive
  /\ session' = abort(session)
  /\ startPending' = FALSE
  /\ requested' = "IDLE" /\ requestedBy' = "host"
  /\ UNCHANGED <<pending, capture, chainVars, pc, asleep, status, experimentVars, modelVars, armed>>

AbortSession ==
  /\ asleep /\ isActive
  /\ session' = abort(session)
  /\ startPending' = FALSE
  /\ capture' = FALSE
  /\ requested' = "IDLE" /\ requestedBy' = "host"
  /\ UNCHANGED <<pending, chainVars, pc, asleep, status, experimentVars, modelVars, armed>>

SetAxisState ==
  /\ asleep
  /\ requested' \in HostRequests /\ requestedBy' = "host"
  /\ UNCHANGED <<sessionVars, chainVars, pc, asleep, status, experimentVars,
                 modelVars, armed>>

SetPrecalibrated ==
  /\ asleep
  /\ calibrated' \in BOOLEAN
  /\ UNCHANGED <<sessionVars, requestVars, chainVars, pc, asleep, status,
                 experimentVars, live, stored, armed>>

EditConfig ==
  /\ asleep
  /\ \E g \in EditableGroups : live' = [live EXCEPT ![g] = User]
  /\ UNCHANGED <<sessionVars, requestVars, chainVars, pc, asleep, status,
                 experimentVars, calibrated, stored, armed>>

SaveConfiguration ==
  /\ asleep /\ ~armed
  /\ stored' = live
  /\ UNCHANGED <<sessionVars, requestVars, chainVars, pc, asleep, status,
                 experimentVars, live, calibrated, armed>>

(* The control-loop interrupt finds an error and floats the motor. *)
ControlLoopDisarms ==
  /\ armed /\ armed' = FALSE
  /\ UNCHANGED <<sessionVars, requestVars, chainVars, pc, asleep, status,
                 experimentVars, modelVars>>

------------------------------------------------------------------------------------
Init ==
  /\ session = EmptySession
  /\ pending = [id |-> 0, valid |-> {}]
  /\ startPending = FALSE /\ capture = FALSE
  /\ requested = "STARTUP_SEQUENCE" /\ requestedBy = "host"
  /\ chain = <<"UNDEFINED">> /\ chainBy = "host"
  /\ pc = "load" /\ asleep = FALSE /\ status = FALSE
  /\ exp = "none" /\ segment = 0
  /\ live = UserConfig /\ stored = UserConfig
  /\ calibrated \in BOOLEAN
  /\ saved = NoSnapshot
  /\ armed = FALSE

AxisStep ==
  \/ LoadChain \/ DispatchIdle \/ FaultRead \/ IdleWakes \/ DispatchInvalid
  \/ DispatchMotorCalibration \/ DispatchOffsetCalibration \/ DispatchMotion
  \/ ClosedLoopEnds \/ MeasureResistance \/ MeasureInductance \/ MotorReturned
  \/ OffsetArm \/ OffsetLock \/ OffsetForward \/ OffsetBackward \/ OffsetReturned
  \/ AlignmentEnds \/ SegmentStart \/ SpinArm \/ SegmentEnds \/ PauseEnds
  \/ LockinEnds \/ GeometryEnds \/ LoopArm \/ DriveEnds \/ RampDownEnds
  \/ MechanicalEnds \/ DelayEnds \/ Validate \/ Commit

HostStep ==
  \/ StartSession \/ AbortSession \/ SetAxisState \/ SetPrecalibrated
  \/ EditConfig \/ SaveConfiguration

Next == AxisStep \/ HostStep \/ ControlLoopDisarms

Spec == Init /\ [][Next]_vars

(* The scheduler runs the axis thread, every timed loop of an experiment ends,  *)
(* and an open-loop scan covers its commanded distance; no host step and no     *)
(* interrupt is promised.                                                       *)
FairSpec == Spec /\ WF_vars(AxisStep)

------------------------------------------------------------------------------------
(* Properties. *)

(* The shape of the state, and the points at which the thread may be blocked.   *)
TypeOK ==
  /\ session \in Sessions /\ session.id <= MaxSessions
  /\ pending \in [id : Nat, valid : SUBSET Evidence]
  /\ startPending \in BOOLEAN /\ capture \in BOOLEAN
  /\ requested \in AxisStates /\ requestedBy \in {"host", "service"}
  /\ chain \in Seq(AxisStates) /\ chain # <<>> /\ chainBy \in {"host", "service"}
  /\ pc \in BlockingPoints \union RunningPoints
  /\ asleep \in BOOLEAN /\ (asleep => pc \in BlockingPoints)
  /\ status \in BOOLEAN
  /\ exp \in Experiments /\ segment \in 0..Segments
  /\ saved \in [config : Configs, calibrated : BOOLEAN]
  /\ live \in Configs /\ stored \in Configs
  /\ calibrated \in BOOLEAN /\ armed \in BOOLEAN

(* Every way out of every handler floats the motor: current flows only inside   *)
(* the loops that watch it, never while a handler returns, waits for a control  *)
(* iteration, pauses between segments or sits idle.                             *)
PoweredPoints == {"resistance", "inductance", "offsetLock", "offsetForward",
                  "offsetBackward", "spin", "drive", "rampDown", "run"}
PoweredOnlyWatched == armed => pc \in PoweredPoints

(* Fast samples are captured only for an active session's own measurement, so   *)
(* the record buffer is never reset by a START while the producer is running.   *)
CaptureIsOwned == capture => isActive /\ exp = "motor"

(* A value an experiment put on trial is never in force outside it, and never   *)
(* in the snapshot it will be replaced by: the user's parameters come back on   *)
(* every path, including abort, fault, failed fit and failed commit.            *)
TrialEndsWithExperiment ==
  /\ \A g \in Groups : live[g] = Trial => g \in restored[exp]
  /\ exp # "none" => \A g \in Groups : saved.config[g] # Trial

(* calibration_session.hpp:7-9: a session does not persist results until they   *)
(* are committed, and until then the existing configuration remains             *)
(* authoritative; so flash never holds a value that was only on trial.  A SAVE  *)
(* in a disarmed pause of the scan refutes it.                                  *)
StoredIsAuthoritative == \A g \in Groups : stored[g] # Trial

(* Nothing of a session that was aborted, failed or is still running is in      *)
(* force or stored: its values appear only once it has been committed.          *)
OnlyCommittedSurvives ==
  session.id > 0 /\ session.state # "COMMITTED" =>
    \A g \in Groups : session.id \notin {live[g], stored[g]}

(* The stage a host reads is the one the axis thread is executing; a session    *)
(* beyond electrical capture is never left active with nobody driving it.       *)
StageMatchesThread ==
  isActive /\ session.stage \notin {"NONE", "ELECTRICAL_CAPTURE"} =>
    /\ current = "MOTOR_CALIBRATION"
    /\ CASE session.stage = "ENCODER_GEOMETRY" -> exp \in {"alignment", "geometry"}
         [] session.stage = "MECHANICAL_CAPTURE" -> exp = "mechanical"
         [] session.stage = "ELECTRICAL_DELAY" -> exp = "delay"
         [] session.stage = "VALIDATION" -> pc = "validate"
         [] session.stage = "COMMIT" -> pc = "commit"
         [] OTHER -> FALSE

(* The failure code the host reads names the stage that failed, although a      *)
(* failing experiment and its caller both try to record one.                    *)
FailureNamesStage ==
  session.state = "FAILED" =>
    session.code \in
      CASE session.stage = "PRECHECK" -> {"PROFILE"}
        [] session.stage = "ELECTRICAL_CAPTURE" -> {"MOTOR"}
        [] session.stage = "ENCODER_GEOMETRY" -> {"ENCODER", "GEOMETRY", "FLUX"}
        [] session.stage = "MECHANICAL_CAPTURE" -> {"MECHANICAL"}
        [] session.stage = "ELECTRICAL_DELAY" -> {"DELAY"}
        [] session.stage = "VALIDATION" -> {"VALIDATION"}
        [] session.stage = "COMMIT" -> {"STORAGE"}
        [] OTHER -> {}

(* What a host reads of a session, while it runs and once it has failed, is     *)
(* what the axis thread does or failed in.                                      *)
SessionTellsTruth == StageMatchesThread /\ FailureNamesStage

(* CAN_PROTOCOL_PRODUCTION.md:423-427: once START is accepted the firmware owns  *)
(* the complete stage sequence; so the session is driven to its end.  A state   *)
(* request that lands while the idle loop reads the fault registers refutes it. *)
StartIsDriven == isActive ~> ~isActive

(* The service's request for the session was written over before the axis       *)
(* thread loaded it, so nobody drives the session any more.                     *)
Overtaken ==
  session.stage = "ELECTRICAL_CAPTURE" /\ "service" \notin {requestedBy, chainBy}

(* A session, however its experiments and the host's aborts fall out, does not  *)
(* stay active for ever, unless a state request overtook its very first one.    *)
SessionEnds == isActive ~> ~isActive \/ Overtaken

(* After an abort the axis comes to rest: back in IDLE, motor floating, and the *)
(* user's parameters in force, whatever state requests still arrive.            *)
AbortComesToRest ==
  session.state = "ABORTED" ~> (current = "IDLE" /\ ~armed /\ exp = "none")

(* What the pipeline promises whatever the experiments do. *)
Contract == INSTANCE CalibrationContract WITH
  phase <- CASE session.state = "EMPTY" -> "none"
             [] isActive -> "running"
             [] session.state = "COMMITTED" -> "committed"
             [] OTHER -> "discarded",
  id <- session.id,
  trying <- exp # "none",
  model <- Restored,
  stored <- stored
ImplementsContract == Contract!Spec
====================================================================================
