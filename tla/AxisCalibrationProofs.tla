--------------------------- MODULE AxisCalibrationProofs ---------------------------
(* Proofs that the safety properties of AxisCalibration hold for every number   *)
(* of sessions and segments, every startup chain and everything the host may    *)
(* request.                                                                     *)
EXTENDS AxisCalibration, SequenceTheorems, TLAPS

------------------------------------------------------------------------------------
(* The inductive invariant: what the axis thread may be doing at each point, and *)
(* what that says of the session and of where each parameter came from.         *)

(* The experiments that may be running when the thread is at a point. *)
ExperimentsAt(point) ==
  CASE point \in {"resistance", "inductance", "motorReturned"} -> {"none", "motor"}
    [] point \in {"offsetWait", "offsetLock", "offsetForward", "offsetBackward",
                  "offsetReturned"} -> {"none", "alignment"}
    [] point \in {"segmentStart", "pause", "geometryEnd"} -> {"geometry"}
    [] point \in {"spinWait", "spin"} -> {"none", "geometry"}
    [] point = "loopWait" -> {"none", "mechanical", "delay"}
    [] point = "drive" -> {"mechanical", "delay"}
    [] point = "mechanicalEnd" -> {"mechanical"}
    [] point \in {"rampDown", "delayEnd"} -> {"delay"}
    [] OTHER -> {"none"}

(* The two points at which a session is past its experiments. *)
Committing == pc \in {"validate", "commit"}
FullExperiments == {"alignment", "geometry", "mechanical", "delay"}

(* The thread is where its experiment says, and so does the axis state. *)
ThreadInv ==
  /\ exp \in ExperimentsAt(pc)
  /\ exp # "none" \/ Committing => current = "MOTOR_CALIBRATION"
  /\ pc \notin {"load", "dispatch", "faultRead", "idle"} => current # "IDLE"
  /\ pc \in {"spinWait", "spin"} /\ exp = "geometry" => segment < Segments

(* The state and the stage of an active session follow the thread.            *)
SessionInv ==
  /\ isActive => session.id > 0
  /\ exp \in FullExperiments \/ Committing => session.profile = "FULL"
  /\ isActive /\ session.profile = "FULL" =>
       session.state = CASE pc = "validate" -> "VALIDATING"
                         [] pc = "commit" -> "STAGED"
                         [] OTHER -> "COLLECTING"
  /\ Committing => isActive
  /\ isActive /\ exp # "none" =>
       session.stage = CASE exp = "motor" -> "ELECTRICAL_CAPTURE"
                         [] exp \in {"alignment", "geometry"} -> "ENCODER_GEOMETRY"
                         [] exp = "mechanical" -> "MECHANICAL_CAPTURE"
                         [] exp = "delay" -> "ELECTRICAL_DELAY"
  /\ pc = "validate" => session.stage = "VALIDATION"
  /\ pc = "commit" => session.stage = "COMMIT"

(* No value belongs to a session that has not begun or has not committed.      *)
OriginInv ==
  \A g \in Groups :
    /\ live[g] <= session.id /\ stored[g] <= session.id
    /\ saved.config[g] <= session.id
    /\ session.id > 0 /\ session.state # "COMMITTED" =>
         session.id \notin {live[g], stored[g], saved.config[g]}

(* What an experiment will put back has only been overwritten by the experiment *)
(* itself, or by the user.                                                      *)
TriedInv ==
  exp # "none" => \A g \in restored[exp] : live[g] \in {saved.config[g], User, Trial}

(* The strengthening that every step preserves. *)
IInv ==
  /\ TypeOK /\ ThreadInv /\ SessionInv /\ OriginInv /\ TriedInv
  /\ PoweredOnlyWatched /\ CaptureIsOwned /\ TrialEndsWithExperiment
  /\ StageMatchesThread /\ FailureNamesStage

------------------------------------------------------------------------------------
(* Type correctness in two parts, because a flag is both a value and a formula. *)

FlagsOK ==
  /\ startPending \in BOOLEAN /\ capture \in BOOLEAN /\ status \in BOOLEAN
  /\ asleep \in BOOLEAN /\ calibrated \in BOOLEAN /\ armed \in BOOLEAN

DataOK ==
  /\ session \in Sessions /\ session.id <= MaxSessions
  /\ pending \in [id : Nat, valid : SUBSET Evidence]
  /\ requested \in AxisStates /\ requestedBy \in {"host", "service"}
  /\ chain \in Seq(AxisStates) /\ chain # <<>> /\ chainBy \in {"host", "service"}
  /\ pc \in BlockingPoints \union RunningPoints
  /\ asleep => pc \in BlockingPoints
  /\ exp \in Experiments /\ segment \in 0..Segments
  /\ saved \in [config : Configs, calibrated : BOOLEAN]
  /\ live \in Configs /\ stored \in Configs

(* The two parts together are the type invariant of the specification. *)
LEMMA TypeParts == TypeOK <=> FlagsOK /\ DataOK
BY DEF TypeOK, FlagsOK, DataOK

------------------------------------------------------------------------------------
(* Lemmas about the operations of a session. *)

(* begin opens a fresh active session whatever became of the previous one. *)
LEMMA BeginFacts ==
  ASSUME NEW s \in Sessions, NEW p \in Profiles
  PROVE  /\ begin(s, p) \in Sessions
         /\ begin(s, p).id = s.id + 1 /\ begin(s, p).profile = p
         /\ begin(s, p).state = "COLLECTING" /\ begin(s, p).stage = "NONE"
BY DEF Sessions, begin, States, ActiveStates, Stages, FailureCodes

(* transition moves an active session forward by one state or does nothing; it  *)
(* leaves the active states only by committing.                                 *)
LEMMA TransitionFacts ==
  ASSUME NEW s \in Sessions, NEW n \in States
  PROVE  /\ transition(s, n) \in Sessions
         /\ transition(s, n).id = s.id /\ transition(s, n).profile = s.profile
         /\ transition(s, n).stage = s.stage /\ transition(s, n).code = s.code
         /\ transition(s, n).state \in {s.state, n}
         /\ transition(s, n).state # s.state => active(s) /\ forward[s.state] = n
         /\ active(s) /\ forward[s.state] = n => transition(s, n).state = n
BY DEF Sessions, transition

(* The order of the active states. *)
LEMMA ForwardFacts ==
  /\ forward["COLLECTING"] = "COLLECTED" /\ forward["COLLECTED"] = "FITTING"
  /\ forward["FITTING"] = "IDENTIFIED" /\ forward["IDENTIFIED"] = "VALIDATING"
  /\ forward["VALIDATING"] = "VALIDATED" /\ forward["VALIDATED"] = "STAGED"
  /\ forward["STAGED"] = "COMMITTED"
BY DEF forward, ActiveStates

(* set_stage relabels an active session and nothing else. *)
LEMMA StageFacts ==
  ASSUME NEW s \in Sessions, NEW g \in Stages
  PROVE  /\ set_stage(s, g) \in Sessions
         /\ set_stage(s, g).id = s.id /\ set_stage(s, g).profile = s.profile
         /\ set_stage(s, g).state = s.state /\ set_stage(s, g).code = s.code
         /\ set_stage(s, g).stage = IF active(s) THEN g ELSE s.stage
BY DEF Sessions, set_stage

(* fail ends an active session and never touches one that has ended. *)
LEMMA FailFacts ==
  ASSUME NEW s \in Sessions, NEW c \in FailureCodes
  PROVE  /\ fail(s, c) \in Sessions
         /\ fail(s, c).id = s.id /\ fail(s, c).profile = s.profile
         /\ fail(s, c).stage = s.stage
         /\ fail(s, c).state = IF active(s) THEN "FAILED" ELSE s.state
         /\ fail(s, c).code = IF active(s) THEN c ELSE s.code
BY DEF Sessions, fail, States, TerminalStates

(* abort likewise. *)
LEMMA AbortFacts ==
  ASSUME NEW s \in Sessions
  PROVE  /\ abort(s) \in Sessions
         /\ abort(s).id = s.id /\ abort(s).profile = s.profile
         /\ abort(s).stage = s.stage /\ abort(s).code = s.code
         /\ abort(s).state = IF active(s) THEN "ABORTED" ELSE s.state
BY DEF Sessions, abort, States, TerminalStates

------------------------------------------------------------------------------------
(* Lemmas about the steps that several handlers share. *)

(* What the constants are assumed to be, one fact each. *)
LEMMA ConstantTypes ==
  /\ MaxSessions \in Nat /\ Segments \in Nat \ {0}
  /\ HostRequests \subseteq AxisStates /\ StartProfiles \subseteq Profiles
  /\ EditableGroups \subseteq Groups /\ StartupChain \in StartupTasks
BY ConstantsAssumption DEF ConstantsAssumption

(* A handler that returns leaves a task chain the loop can load. *)
LEMMA FinishFacts ==
  ASSUME DataOK, NEW ok, Finish(ok)
  PROVE  /\ chain' \in Seq(AxisStates) /\ chain' # <<>> /\ chainBy' = chainBy
         /\ exp' = "none" /\ saved' = NoSnapshot /\ segment' = 0
         /\ status' = FALSE /\ pc' = "load" /\ asleep' = FALSE
         /\ status' \in BOOLEAN /\ asleep' \in BOOLEAN
         /\ exp' \in Experiments /\ segment' \in 0..Segments
         /\ saved' \in [config : Configs, calibrated : BOOLEAN]
<1>1. Len(chain) > 1 => Tail(chain) \in Seq(AxisStates) /\ Tail(chain) # <<>>
  <2> chain \in Seq(AxisStates) /\ chain # <<>>
    BY DEF DataOK
  <2>1. Tail(chain) \in Seq(AxisStates) /\ Len(Tail(chain)) = Len(chain) - 1
    BY HeadTailProperties
  <2>2. Len(chain) \in Nat
    BY LenProperties
  <2>3. Len(chain) > 1 => Len(Tail(chain)) # 0
    BY <2>1, <2>2
  <2>4. Len(<<>>) = 0
    OBVIOUS
  <2> QED
    BY <2>1, <2>3, <2>4
<1>2. <<"IDLE">> \in Seq(AxisStates) /\ <<"IDLE">> # <<>>
  BY DEF AxisStates
<1>3. status' = FALSE /\ asleep' = FALSE
  BY DEF Finish, Goto
<1>4. status' \in BOOLEAN /\ asleep' \in BOOLEAN
  BY <1>3
<1>5. exp' \in Experiments /\ segment' \in 0..Segments
  BY ConstantTypes DEF Finish, Experiments
<1>6. saved' \in [config : Configs, calibrated : BOOLEAN]
  BY DEF Finish, NoSnapshot, UserConfig, Configs, Origins
<1> QED
  BY <1>1, <1>2, <1>3, <1>4, <1>5, <1>6 DEF Finish, Goto

(* Every request expands to a chain of states the loop can run. *)
LEMMA TaskChainType ==
  ASSUME NEW r \in AxisStates
  PROVE  TaskChain(r) \in Seq(AxisStates) /\ TaskChain(r) # <<>>
<1>1. StartupChain \in Seq(AxisStates)
  <2>1. StartupChain \in StartupTasks
    BY ConstantTypes
  <2>2. <<>> \in Seq(AxisStates)
    BY EmptySeq
  <2>3. \A a, b, c \in AxisStates :
          /\ <<a>> \in Seq(AxisStates) /\ <<a, b>> \in Seq(AxisStates)
          /\ <<a, b, c>> \in Seq(AxisStates)
    OBVIOUS
  <2>4. {"MOTOR_CALIBRATION", "ENCODER_OFFSET_CALIBRATION", "CLOSED_LOOP_CONTROL"}
          \subseteq AxisStates
    BY DEF AxisStates
  <2> QED
    BY <2>1, <2>2, <2>3, <2>4 DEF StartupTasks
<1>2. <<"IDLE">> \in Seq(AxisStates) /\ <<"IDLE">> # <<>> /\ Len(<<"IDLE">>) = 1
  BY DEF AxisStates
<1>3. StartupChain \o <<"IDLE">> \in Seq(AxisStates) /\ StartupChain \o <<"IDLE">> # <<>>
  BY <1>1, <1>2
<1>4. /\ <<"MOTOR_CALIBRATION", "ENCODER_OFFSET_CALIBRATION", "IDLE">> \in Seq(AxisStates)
      /\ <<r, "IDLE">> \in Seq(AxisStates)
  BY DEF AxisStates
<1> QED
  BY <1>3, <1>4 DEF TaskChain

(* The values of parameters stay within the origins the model tells apart. *)
LEMMA ConfigTypes ==
  ASSUME FlagsOK, DataOK
  PROVE  /\ Restored \in Configs /\ RestoredFlag \in BOOLEAN
         /\ \A g \in Groups : Written(g) \in Configs
         /\ NoSnapshot \in [config : Configs, calibrated : BOOLEAN]
BY DEF FlagsOK, DataOK, Restored, RestoredFlag, Written, NoSnapshot, UserConfig, Configs, Origins

(* An experiment starts from a snapshot of the configuration in force, or of    *)
(* the one its predecessor gave back.                                           *)
LEMMA BeginTypes ==
  ASSUME NEW e \in Experiments, NEW config \in Configs, NEW flag \in BOOLEAN,
         Begin(e, config, flag)
  PROVE  /\ exp' = e /\ live' \in Configs /\ calibrated' \in BOOLEAN
         /\ saved' \in [config : Configs, calibrated : BOOLEAN]
BY DEF Begin, Configs, Origins, NoSnapshot, UserConfig

(* The same for an experiment that starts from rest. *)
LEMMA ExperimentFacts ==
  ASSUME FlagsOK, DataOK, NEW e \in Experiments, Begin(e, live, calibrated)
  PROVE  /\ exp' = e /\ live' \in Configs /\ calibrated' \in BOOLEAN
         /\ saved' \in [config : Configs, calibrated : BOOLEAN]
<1>1. live \in Configs /\ calibrated \in BOOLEAN
  BY DEF FlagsOK, DataOK
<1> QED
  BY <1>1, BeginTypes

(* The same for an experiment that follows another one. *)
LEMMA RestartFacts ==
  ASSUME FlagsOK, DataOK, NEW e \in Experiments, Begin(e, Restored, RestoredFlag)
  PROVE  /\ exp' = e /\ live' \in Configs /\ calibrated' \in BOOLEAN
         /\ saved' \in [config : Configs, calibrated : BOOLEAN]
<1>1. Restored \in Configs /\ RestoredFlag \in BOOLEAN
  BY ConfigTypes
<1> QED
  BY <1>1, BeginTypes

------------------------------------------------------------------------------------
(* Type correctness. *)

(* Every session a step computes is one the record can hold. *)
LEMMA SessionTypes ==
  ASSUME NEW s \in Sessions
  PROVE  /\ \A p \in Profiles : begin(s, p) \in Sessions /\ begin(s, p).id = s.id + 1
         /\ \A n \in States : transition(s, n) \in Sessions /\ transition(s, n).id = s.id
         /\ \A g \in Stages : set_stage(s, g) \in Sessions /\ set_stage(s, g).id = s.id
         /\ \A c \in FailureCodes : fail(s, c) \in Sessions /\ fail(s, c).id = s.id
         /\ abort(s) \in Sessions /\ abort(s).id = s.id
BY BeginFacts, TransitionFacts, StageFacts, FailFacts, AbortFacts

(* The states and stages a session passes on its way to a commit. *)
LEMMA StateNames ==
  /\ "COLLECTED" \in States /\ "FITTING" \in States /\ "IDENTIFIED" \in States
  /\ "VALIDATING" \in States /\ "VALIDATED" \in States /\ "STAGED" \in States
  /\ "COLLECTING" \in ActiveStates /\ "COLLECTED" \in ActiveStates
  /\ "FITTING" \in ActiveStates /\ "IDENTIFIED" \in ActiveStates
  /\ "VALIDATING" \in ActiveStates /\ "VALIDATED" \in ActiveStates
  /\ "VALIDATION" \in Stages /\ "COMMIT" \in Stages
BY DEF States, ActiveStates, Stages

(* A session that collected everything passes to validation, and from there to  *)
(* the brink of the commit, keeping its number and its profile.                 *)
LEMMA MovesTypes ==
  ASSUME session \in Sessions
  PROVE  /\ Validating \in Sessions /\ Validating.id = session.id
         /\ Validating.profile = session.profile
         /\ Validating.state \in {session.state, "COLLECTED", "FITTING", "IDENTIFIED",
                                  "VALIDATING"}
         /\ Staged \in Sessions /\ Staged.id = session.id
         /\ Staged.profile = session.profile
         /\ Staged.state \in {session.state, "VALIDATED", "STAGED"}
<1>1. /\ Collected \in Sessions /\ Collected.id = session.id
      /\ Collected.profile = session.profile
      /\ Collected.state \in {session.state, "COLLECTED"}
  BY StateNames, TransitionFacts DEF Collected
<1> DEFINE a == transition(Collected, "FITTING")
<1>2. /\ a \in Sessions /\ a.id = session.id /\ a.profile = session.profile
      /\ a.state \in {Collected.state, "FITTING"}
  BY <1>1, StateNames, TransitionFacts
<1>3. /\ Fitted \in Sessions /\ Fitted.id = session.id /\ Fitted.profile = session.profile
      /\ Fitted.state \in {a.state, "IDENTIFIED"}
  BY <1>2, StateNames, TransitionFacts DEF Fitted
<1> DEFINE b == set_stage(Fitted, "VALIDATION")
<1>4. /\ b \in Sessions /\ b.id = session.id /\ b.profile = session.profile
      /\ b.state = Fitted.state
  BY <1>3, StateNames, StageFacts
<1>5. /\ Validating \in Sessions /\ Validating.id = session.id
      /\ Validating.profile = session.profile
      /\ Validating.state \in {b.state, "VALIDATING"}
  BY <1>4, StateNames, TransitionFacts DEF Validating
<1> DEFINE c == transition(session, "VALIDATED")
           d == set_stage(c, "COMMIT")
<1>6. /\ c \in Sessions /\ c.id = session.id /\ c.profile = session.profile
      /\ c.state \in {session.state, "VALIDATED"}
  BY StateNames, TransitionFacts
<1>7. /\ d \in Sessions /\ d.id = session.id /\ d.profile = session.profile
      /\ d.state = c.state
  BY <1>6, StateNames, StageFacts
<1>8. /\ Staged \in Sessions /\ Staged.id = session.id
      /\ Staged.profile = session.profile /\ Staged.state \in {d.state, "STAGED"}
  BY <1>7, StateNames, TransitionFacts DEF Staged
<1> HIDE DEF a, b, c, d
<1> QED
  BY <1>1, <1>2, <1>3, <1>4, <1>5, <1>6, <1>7, <1>8

(* An experiment that fails ends the session under its own cause. *)
LEMMA FailedFacts ==
  ASSUME session \in Sessions, NEW c \in FailureCodes
  PROVE  /\ Failed(c) \in Sessions
         /\ Failed(c).id = session.id /\ Failed(c).profile = session.profile
         /\ Failed(c).stage = session.stage
         /\ Failed(c).state = IF isActive THEN "FAILED" ELSE session.state
         /\ Failed(c).code = IF isActive THEN c ELSE session.code
<1>1. "GEOMETRY" \in FailureCodes
  BY DEF FailureCodes
<1>2. fail(session, c) \in Sessions /\ ~active(fail(session, c))
  BY FailFacts DEF active, ActiveStates
<1>3. Failed(c) = fail(session, c)
  BY <1>1, <1>2 DEF Failed, fail
<1> QED
  BY <1>3, FailFacts DEF isActive

(* A closed-loop experiment that is refused fails under its own cause as well.  *)
LEMMA StartDriveFacts ==
  ASSUME NEW e, NEW p, NEW s \in Sessions, StartDrive(e, p, s)
  PROVE  /\ session' \in Sessions
         /\ session'.id = s.id /\ session'.profile = s.profile
         /\ session'.stage = s.stage
         /\ \/ session' = s /\ pc' = "loopWait"
            \/ /\ pc' = p
               /\ active(s) => /\ session'.state = "FAILED"
                               /\ session'.code = IF e = "mechanical" THEN "MECHANICAL"
                                                                      ELSE "DELAY"
               /\ ~active(s) => session' = s
<1>1. "MECHANICAL" \in FailureCodes /\ "DELAY" \in FailureCodes
  BY DEF FailureCodes
<1>2. CASE session' = s /\ Sleep("loopWait") /\ UNCHANGED status
  BY <1>2 DEF Sleep
<1>3. CASE /\ session' = fail(s, IF e = "mechanical" THEN "MECHANICAL" ELSE "DELAY")
           /\ status' = FALSE /\ Goto(p)
  <2>1. ~active(s) => session' = s
    BY <1>3 DEF fail
  <2> QED
    BY <1>1, <1>3, <2>1, FailFacts DEF Goto
<1> QED
  BY <1>2, <1>3 DEF StartDrive

(* A transition to the successor of an active state always succeeds. *)
LEMMA AdvanceFacts ==
  ASSUME NEW s \in Sessions, NEW n \in States, s.state \in ActiveStates,
         forward[s.state] = n
  PROVE  /\ transition(s, n) \in Sessions /\ transition(s, n).state = n
         /\ transition(s, n).stage = s.stage
BY TransitionFacts DEF active

(* The two chains of transitions arrive where the pipeline expects them. *)
LEMMA MovesFacts ==
  ASSUME session \in Sessions
  PROVE  /\ session.state = "COLLECTING" =>
              Validating.state = "VALIDATING" /\ Validating.stage = "VALIDATION"
         /\ session.state = "VALIDATING" =>
              Staged.state = "STAGED" /\ Staged.stage = "COMMIT"
<1>1. CASE session.state = "COLLECTING"
  <2>1. Collected \in Sessions /\ Collected.state = "COLLECTED"
    BY <1>1, StateNames, ForwardFacts, AdvanceFacts DEF Collected
  <2> DEFINE a == transition(Collected, "FITTING")
  <2>2. a \in Sessions /\ a.state = "FITTING"
    BY <2>1, StateNames, ForwardFacts, AdvanceFacts
  <2>3. Fitted \in Sessions /\ Fitted.state = "IDENTIFIED"
    BY <2>2, StateNames, ForwardFacts, AdvanceFacts DEF Fitted
  <2> DEFINE b == set_stage(Fitted, "VALIDATION")
  <2>4. b \in Sessions /\ b.state = "IDENTIFIED" /\ b.stage = "VALIDATION"
    BY <2>3, StateNames, StageFacts DEF active
  <2>5. Validating.state = "VALIDATING" /\ Validating.stage = "VALIDATION"
    BY <2>4, StateNames, ForwardFacts, AdvanceFacts DEF Validating
  <2> QED
    BY <1>1, <2>5
<1>2. CASE session.state = "VALIDATING"
  <2> DEFINE c == transition(session, "VALIDATED")
             d == set_stage(c, "COMMIT")
  <2>1. c \in Sessions /\ c.state = "VALIDATED"
    BY <1>2, StateNames, ForwardFacts, AdvanceFacts
  <2>2. d \in Sessions /\ d.state = "VALIDATED" /\ d.stage = "COMMIT"
    BY <2>1, StateNames, StageFacts DEF active
  <2>3. Staged.state = "STAGED" /\ Staged.stage = "COMMIT"
    BY <2>2, StateNames, ForwardFacts, AdvanceFacts DEF Staged
  <2> QED
    BY <1>2, <2>3
<1> QED
  BY <1>1, <1>2

(* The flags stay flags. *)
LEMMA FlagsStep ==
  ASSUME FlagsOK, DataOK, [Next]_vars
  PROVE  FlagsOK'
<1> USE DEF FlagsOK, sessionVars, requestVars, chainVars, experimentVars, modelVars,
            Goto, Sleep, Enter
<1>1. CASE LoadChain
  BY <1>1 DEF LoadChain, RequestMade
<1>2. CASE DispatchIdle
  BY <1>2, FinishFacts DEF DispatchIdle
<1>3. CASE IdleWakes \/ FaultRead
  BY <1>3, FinishFacts DEF IdleWakes, FaultRead
<1>4. CASE DispatchInvalid
  BY <1>4, FinishFacts DEF DispatchInvalid
<1>5. CASE DispatchMotorCalibration
  BY <1>5, ExperimentFacts DEF DispatchMotorCalibration, Experiments, DataOK
<1>6. CASE DispatchOffsetCalibration
  BY <1>6, ExperimentFacts DEF DispatchOffsetCalibration, Experiments, DataOK
<1>7. CASE DispatchMotion
  BY <1>7, FinishFacts DEF DispatchMotion
<1>8. CASE ClosedLoopEnds
  BY <1>8, FinishFacts DEF ClosedLoopEnds
<1>9. CASE MeasureResistance
  BY <1>9, ConfigTypes DEF MeasureResistance, Groups
<1>10. CASE MeasureInductance
  BY <1>10, ConfigTypes DEF MeasureInductance, Groups
<1>11. CASE MotorReturned
  BY <1>11, FinishFacts, RestartFacts, ConfigTypes DEF MotorReturned, Identified,
     Evidence, GiveBack, Experiments, DataOK
<1>12. CASE OffsetArm
  BY <1>12, FinishFacts DEF OffsetArm
<1>13. CASE OffsetLock
  BY <1>13, FinishFacts DEF OffsetLock, OffsetFails
<1>14. CASE OffsetForward
  BY <1>14, ConfigTypes DEF OffsetForward, Groups, OffsetFails
<1>15. CASE OffsetBackward
  BY <1>15, ConfigTypes DEF OffsetBackward, Groups, OffsetFails
<1>16. CASE OffsetReturned
  BY <1>16, FinishFacts, ConfigTypes DEF OffsetReturned, Identified, Evidence, GiveBack
<1>17. CASE AlignmentEnds
  BY <1>17, FinishFacts, RestartFacts, ConfigTypes DEF AlignmentEnds, Identified,
     Evidence, GiveBack, Failed, Experiments, DataOK
<1>18. CASE SegmentStart
  BY <1>18, FinishFacts DEF SegmentStart, ScanFails
<1>19. CASE SpinArm
  BY <1>19, FinishFacts DEF SpinArm
<1>20. CASE SegmentEnds
  BY <1>20 DEF SegmentEnds, ScanFails, ThreadInv
<1>21. CASE PauseEnds
  BY <1>21, FinishFacts DEF PauseEnds
<1>22. CASE LockinEnds
  BY <1>22, FinishFacts DEF LockinEnds
<1>23. CASE GeometryEnds
  BY <1>23, FinishFacts, RestartFacts, ConfigTypes DEF GeometryEnds, Identified,
     Evidence, GiveBack, Failed, Experiments, StartDrive, DataOK
<1>24. CASE LoopArm
  BY <1>24 DEF LoopArm
<1>25. CASE DriveEnds
  BY <1>25, FinishFacts DEF DriveEnds
<1>26. CASE RampDownEnds
  BY <1>26, FinishFacts DEF RampDownEnds
<1>27. CASE MechanicalEnds
  BY <1>27, FinishFacts, RestartFacts, ConfigTypes DEF MechanicalEnds, Identified,
     Evidence, GiveBack, Failed, Experiments, StartDrive, DataOK
<1>28. CASE DelayEnds
  BY <1>28, FinishFacts, ConfigTypes DEF DelayEnds, Identified, Evidence, GiveBack,
     Failed, Experiments
<1>29. CASE Validate
  BY <1>29, FinishFacts DEF Validate
<1>30. CASE Commit
  BY <1>30, FinishFacts DEF Commit, Candidate, Configs, Origins, SessionInv, Committing
<1>31. CASE StartSession
  BY <1>31 DEF StartSession, Evidence
<1>32. CASE AbortSession
  BY <1>32 DEF AbortSession
<1>33. CASE SetAxisState
  BY <1>33 DEF SetAxisState
<1>34. CASE SetPrecalibrated
  BY <1>34 DEF SetPrecalibrated
<1>35. CASE EditConfig
  BY <1>35 DEF EditConfig, Configs, Origins
<1>36. CASE SaveConfiguration
  BY <1>36 DEF SaveConfiguration
<1>37. CASE ControlLoopDisarms
  BY <1>37 DEF ControlLoopDisarms
<1>38. CASE UNCHANGED vars
  BY <1>38 DEF vars
<1> QED
  BY <1>1, <1>2, <1>3, <1>4, <1>5, <1>6, <1>7, <1>8, <1>9, <1>10, <1>11, <1>12, <1>13,
     <1>14, <1>15, <1>16, <1>17, <1>18, <1>19, <1>20, <1>21, <1>22, <1>23, <1>24, <1>25,
     <1>26, <1>27, <1>28, <1>29, <1>30, <1>31, <1>32, <1>33, <1>34, <1>35, <1>36, <1>37,
     <1>38 DEF Next, AxisStep, HostStep
(* Everything else keeps its type. *)
LEMMA DataStep ==
  ASSUME FlagsOK, DataOK, ThreadInv, SessionInv, [Next]_vars
  PROVE  DataOK'
<1> USE DEF DataOK, sessionVars, requestVars, chainVars, experimentVars, modelVars,
            Goto, Sleep, Enter
<1>1. CASE LoadChain
  <2>1. session' \in Sessions /\ session'.id <= MaxSessions
    <3>1. /\ "ELECTRICAL_CAPTURE" \in Stages /\ "PRECHECK" \in Stages
          /\ "PROFILE" \in FailureCodes
      BY DEF Stages, FailureCodes
    <3> QED
      BY <1>1, <3>1, SessionTypes DEF LoadChain
  <2>2. pending' \in [id : Nat, valid : SUBSET Evidence]
    BY <1>1 DEF LoadChain
  <2>3. /\ requested' \in AxisStates /\ requestedBy' \in {"host", "service"}
         /\ chain' \in Seq(AxisStates) /\ chain' # <<>> /\ chainBy' \in {"host", "service"}
    BY <1>1, TaskChainType DEF LoadChain, RequestMade, AxisStates
  <2>4. pc' \in BlockingPoints \union RunningPoints /\ (asleep' => pc' \in BlockingPoints)
    BY <1>1 DEF LoadChain, BlockingPoints, RunningPoints
  <2>5. /\ exp' \in Experiments /\ segment' \in 0..Segments
         /\ saved' \in [config : Configs, calibrated : BOOLEAN]
    BY <1>1, ConstantTypes DEF LoadChain, FlagsOK
  <2>6. live' \in Configs /\ stored' \in Configs
    BY <1>1 DEF LoadChain, FlagsOK
  <2> QED
    BY <2>1, <2>2, <2>3, <2>4, <2>5, <2>6
<1>2. CASE DispatchIdle
  BY <1>2, FinishFacts DEF DispatchIdle, BlockingPoints, RunningPoints
<1>3. CASE IdleWakes \/ FaultRead
  BY <1>3, FinishFacts DEF IdleWakes, FaultRead, BlockingPoints, RunningPoints
<1>4. CASE DispatchInvalid
  BY <1>4, FinishFacts DEF DispatchInvalid, BlockingPoints, RunningPoints
<1>5. CASE DispatchMotorCalibration
  <2>1. session' \in Sessions /\ session'.id <= MaxSessions
    BY <1>5, ConstantTypes DEF DispatchMotorCalibration
  <2>2. pending' \in [id : Nat, valid : SUBSET Evidence]
    BY <1>5 DEF DispatchMotorCalibration
  <2>3. /\ requested' \in AxisStates /\ requestedBy' \in {"host", "service"}
         /\ chain' \in Seq(AxisStates) /\ chain' # <<>> /\ chainBy' \in {"host", "service"}
    BY <1>5 DEF DispatchMotorCalibration, AxisStates
  <2>4. pc' \in BlockingPoints \union RunningPoints /\ (asleep' => pc' \in BlockingPoints)
    BY <1>5 DEF DispatchMotorCalibration, BlockingPoints, RunningPoints
  <2>5. /\ exp' \in Experiments /\ segment' \in 0..Segments
         /\ saved' \in [config : Configs, calibrated : BOOLEAN]
    BY <1>5, ExperimentFacts, ConstantTypes DEF DispatchMotorCalibration, Experiments,
       FlagsOK
  <2>6. live' \in Configs /\ stored' \in Configs
    BY <1>5, ExperimentFacts DEF DispatchMotorCalibration, Experiments, FlagsOK
  <2> QED
    BY <2>1, <2>2, <2>3, <2>4, <2>5, <2>6
<1>6. CASE DispatchOffsetCalibration
  BY <1>6, ExperimentFacts DEF DispatchOffsetCalibration, Experiments, BlockingPoints,
     RunningPoints
<1>7. CASE DispatchMotion
  BY <1>7, FinishFacts DEF DispatchMotion, BlockingPoints, RunningPoints
<1>8. CASE ClosedLoopEnds
  BY <1>8, FinishFacts DEF ClosedLoopEnds, BlockingPoints, RunningPoints
<1>9. CASE MeasureResistance
  BY <1>9, ConfigTypes DEF MeasureResistance, Groups, BlockingPoints, RunningPoints
<1>10. CASE MeasureInductance
  BY <1>10, ConfigTypes DEF MeasureInductance, Groups, BlockingPoints, RunningPoints
<1>11. CASE MotorReturned
  <2>1. session' \in Sessions /\ session'.id <= MaxSessions
    <3>1. "ENCODER_GEOMETRY" \in Stages /\ "COLLECTED" \in States /\ "MOTOR" \in FailureCodes
      BY DEF Stages, States, ActiveStates, FailureCodes
    <3> QED
      BY <1>11, <3>1, SessionTypes DEF MotorReturned
  <2>2. pending' \in [id : Nat, valid : SUBSET Evidence]
    BY <1>11 DEF MotorReturned, Identified, Evidence
  <2>3. /\ requested' \in AxisStates /\ requestedBy' \in {"host", "service"}
         /\ chain' \in Seq(AxisStates) /\ chain' # <<>> /\ chainBy' \in {"host", "service"}
    BY <1>11, FinishFacts DEF MotorReturned, AxisStates
  <2>4. pc' \in BlockingPoints \union RunningPoints /\ (asleep' => pc' \in BlockingPoints)
    BY <1>11, FinishFacts DEF MotorReturned, BlockingPoints, RunningPoints
  <2>5. /\ exp' \in Experiments /\ segment' \in 0..Segments
         /\ saved' \in [config : Configs, calibrated : BOOLEAN]
    BY <1>11, FinishFacts, RestartFacts, ConfigTypes, ConstantTypes DEF MotorReturned,
       Experiments, FlagsOK
  <2>6. live' \in Configs /\ stored' \in Configs
    BY <1>11, RestartFacts, ConfigTypes DEF MotorReturned, Experiments, GiveBack,
       FlagsOK
  <2> QED
    BY <2>1, <2>2, <2>3, <2>4, <2>5, <2>6
<1>12. CASE OffsetArm
  BY <1>12, FinishFacts DEF OffsetArm, BlockingPoints, RunningPoints
<1>13. CASE OffsetLock
  BY <1>13, FinishFacts DEF OffsetLock, OffsetFails, BlockingPoints, RunningPoints
<1>14. CASE OffsetForward
  BY <1>14, ConfigTypes DEF OffsetForward, Groups, OffsetFails, BlockingPoints,
     RunningPoints
<1>15. CASE OffsetBackward
  BY <1>15, ConfigTypes DEF OffsetBackward, Groups, OffsetFails, BlockingPoints,
     RunningPoints
<1>16. CASE OffsetReturned
  <2>1. session' \in Sessions /\ session'.id <= MaxSessions
    <3>1. "COLLECTED" \in States /\ "ENCODER" \in FailureCodes
      BY DEF States, ActiveStates, FailureCodes
    <3> QED
      BY <1>16, <3>1, SessionTypes DEF OffsetReturned
  <2>2. pending' \in [id : Nat, valid : SUBSET Evidence]
    BY <1>16 DEF OffsetReturned, Identified, Evidence
  <2>3. /\ requested' \in AxisStates /\ requestedBy' \in {"host", "service"}
         /\ chain' \in Seq(AxisStates) /\ chain' # <<>> /\ chainBy' \in {"host", "service"}
    BY <1>16, FinishFacts DEF OffsetReturned, AxisStates
  <2>4. pc' \in BlockingPoints \union RunningPoints /\ (asleep' => pc' \in BlockingPoints)
    BY <1>16, FinishFacts DEF OffsetReturned, BlockingPoints, RunningPoints
  <2>5. /\ exp' \in Experiments /\ segment' \in 0..Segments
         /\ saved' \in [config : Configs, calibrated : BOOLEAN]
    BY <1>16, FinishFacts, ConfigTypes, ConstantTypes DEF OffsetReturned, FlagsOK
  <2>6. live' \in Configs /\ stored' \in Configs
    BY <1>16, ConfigTypes DEF OffsetReturned, GiveBack, FlagsOK
  <2> QED
    BY <2>1, <2>2, <2>3, <2>4, <2>5, <2>6
<1>17. CASE AlignmentEnds
  <2>1. session' \in Sessions /\ session'.id <= MaxSessions
    <3>1. "ENCODER" \in FailureCodes /\ "GEOMETRY" \in FailureCodes
      BY DEF FailureCodes
    <3> QED
      BY <1>17, <3>1, FailedFacts DEF AlignmentEnds
  <2>2. pending' \in [id : Nat, valid : SUBSET Evidence]
    BY <1>17 DEF AlignmentEnds, Identified, Evidence
  <2>3. /\ requested' \in AxisStates /\ requestedBy' \in {"host", "service"}
         /\ chain' \in Seq(AxisStates) /\ chain' # <<>> /\ chainBy' \in {"host", "service"}
    BY <1>17, FinishFacts DEF AlignmentEnds, AxisStates
  <2>4. pc' \in BlockingPoints \union RunningPoints /\ (asleep' => pc' \in BlockingPoints)
    BY <1>17, FinishFacts DEF AlignmentEnds, BlockingPoints, RunningPoints
  <2>5. /\ exp' \in Experiments /\ segment' \in 0..Segments
         /\ saved' \in [config : Configs, calibrated : BOOLEAN]
    <3>1. CASE status /\ isActive
      <4>1. Begin("geometry", Restored, RestoredFlag) /\ segment' = 0
        BY <1>17, <3>1 DEF AlignmentEnds
      <4>2. "geometry" \in Experiments
        BY DEF Experiments
      <4> QED
        BY <4>1, <4>2, RestartFacts, ConstantTypes
    <3>2. CASE ~(status /\ isActive)
      BY <1>17, <3>2, FinishFacts DEF AlignmentEnds
    <3> QED
      BY <3>1, <3>2
  <2>6. live' \in Configs /\ stored' \in Configs
    BY <1>17, RestartFacts, ConfigTypes DEF AlignmentEnds, Experiments, GiveBack,
       FlagsOK
  <2> QED
    BY <2>1, <2>2, <2>3, <2>4, <2>5, <2>6
<1>18. CASE SegmentStart
  BY <1>18, FinishFacts DEF SegmentStart, ScanFails, BlockingPoints, RunningPoints
<1>19. CASE SpinArm
  BY <1>19, FinishFacts DEF SpinArm, BlockingPoints, RunningPoints
<1>20. CASE SegmentEnds
  BY <1>20, ConstantTypes DEF SegmentEnds, ScanFails, ThreadInv, BlockingPoints,
     RunningPoints
<1>21. CASE PauseEnds
  BY <1>21, FinishFacts DEF PauseEnds, BlockingPoints, RunningPoints
<1>22. CASE LockinEnds
  BY <1>22, FinishFacts DEF LockinEnds, BlockingPoints, RunningPoints
<1>23. CASE GeometryEnds
  <2>1. session' \in Sessions /\ session'.id <= MaxSessions
    <3> DEFINE s == set_stage(session, "MECHANICAL_CAPTURE")
    <3>1. /\ "MECHANICAL_CAPTURE" \in Stages
          /\ "FLUX" \in FailureCodes /\ "GEOMETRY" \in FailureCodes
          /\ "MECHANICAL" \in FailureCodes /\ "DELAY" \in FailureCodes
      BY DEF Stages, FailureCodes
    <3>2. CASE StartDrive("mechanical", "mechanicalEnd", s)
      <4>1. s \in Sessions /\ s.id = session.id
        BY <3>1, StageFacts
      <4> QED
        BY <3>2, <4>1, StartDriveFacts
    <3>3. CASE ~StartDrive("mechanical", "mechanicalEnd", s)
      BY <1>23, <3>1, <3>3, FailedFacts DEF GeometryEnds
    <3> QED
      BY <3>2, <3>3
  <2>2. pending' \in [id : Nat, valid : SUBSET Evidence]
    <3>1. \/ Identified({"geometry", "flux"}) \/ Identified({"geometry"})
          \/ Identified({}) \/ Identified({"flux"})
      BY <1>23, Zenon DEF GeometryEnds
    <3> QED
      BY <3>1 DEF Identified, Evidence
  <2>3. /\ requested' \in AxisStates /\ requestedBy' \in {"host", "service"}
         /\ chain' \in Seq(AxisStates) /\ chain' # <<>> /\ chainBy' \in {"host", "service"}
    BY <1>23, FinishFacts DEF GeometryEnds, AxisStates
  <2>4. pc' \in BlockingPoints \union RunningPoints /\ (asleep' => pc' \in BlockingPoints)
    BY <1>23, FinishFacts DEF GeometryEnds, StartDrive, BlockingPoints, RunningPoints
  <2>5. /\ exp' \in Experiments /\ segment' \in 0..Segments
         /\ saved' \in [config : Configs, calibrated : BOOLEAN]
    BY <1>23, FinishFacts, RestartFacts, ConfigTypes, ConstantTypes DEF GeometryEnds,
       Experiments, FlagsOK
  <2>6. live' \in Configs /\ stored' \in Configs
    BY <1>23, RestartFacts, ConfigTypes DEF GeometryEnds, Experiments, GiveBack, FlagsOK
  <2> QED
    BY <2>1, <2>2, <2>3, <2>4, <2>5, <2>6
<1>24. CASE LoopArm
  BY <1>24, SessionTypes DEF LoopArm, BlockingPoints, RunningPoints, FailureCodes
<1>25. CASE DriveEnds
  BY <1>25, FinishFacts DEF DriveEnds, BlockingPoints, RunningPoints
<1>26. CASE RampDownEnds
  BY <1>26, FinishFacts DEF RampDownEnds, BlockingPoints, RunningPoints
<1>27. CASE MechanicalEnds
  <2>1. session' \in Sessions /\ session'.id <= MaxSessions
    <3> DEFINE s == set_stage(session, "ELECTRICAL_DELAY")
    <3>1. /\ "ELECTRICAL_DELAY" \in Stages
          /\ "FLUX" \in FailureCodes /\ "GEOMETRY" \in FailureCodes
          /\ "MECHANICAL" \in FailureCodes /\ "DELAY" \in FailureCodes
      BY DEF Stages, FailureCodes
    <3>2. CASE StartDrive("delay", "delayEnd", s)
      <4>1. s \in Sessions /\ s.id = session.id
        BY <3>1, StageFacts
      <4> QED
        BY <3>2, <4>1, StartDriveFacts
    <3>3. CASE ~StartDrive("delay", "delayEnd", s)
      BY <1>27, <3>1, <3>3, FailedFacts DEF MechanicalEnds
    <3> QED
      BY <3>2, <3>3
  <2>2. pending' \in [id : Nat, valid : SUBSET Evidence]
    BY <1>27 DEF MechanicalEnds, Identified, Evidence
  <2>3. /\ requested' \in AxisStates /\ requestedBy' \in {"host", "service"}
         /\ chain' \in Seq(AxisStates) /\ chain' # <<>> /\ chainBy' \in {"host", "service"}
    BY <1>27, FinishFacts DEF MechanicalEnds, AxisStates
  <2>4. pc' \in BlockingPoints \union RunningPoints /\ (asleep' => pc' \in BlockingPoints)
    BY <1>27, FinishFacts DEF MechanicalEnds, StartDrive, BlockingPoints, RunningPoints
  <2>5. /\ exp' \in Experiments /\ segment' \in 0..Segments
         /\ saved' \in [config : Configs, calibrated : BOOLEAN]
    BY <1>27, FinishFacts, RestartFacts, ConfigTypes, ConstantTypes DEF MechanicalEnds,
       Experiments, FlagsOK
  <2>6. live' \in Configs /\ stored' \in Configs
    BY <1>27, RestartFacts, ConfigTypes DEF MechanicalEnds, Experiments, GiveBack,
       FlagsOK
  <2> QED
    BY <2>1, <2>2, <2>3, <2>4, <2>5, <2>6
<1>28. CASE DelayEnds
  <2>1. session' \in Sessions /\ session'.id <= MaxSessions
    <3>1. "GEOMETRY" \in FailureCodes /\ "DELAY" \in FailureCodes
      BY DEF FailureCodes
    <3> QED
      BY <1>28, <3>1, FailedFacts, MovesTypes DEF DelayEnds
  <2>2. pending' \in [id : Nat, valid : SUBSET Evidence]
    BY <1>28 DEF DelayEnds, Identified, Evidence
  <2>3. /\ requested' \in AxisStates /\ requestedBy' \in {"host", "service"}
         /\ chain' \in Seq(AxisStates) /\ chain' # <<>> /\ chainBy' \in {"host", "service"}
    BY <1>28, FinishFacts DEF DelayEnds, AxisStates
  <2>4. pc' \in BlockingPoints \union RunningPoints /\ (asleep' => pc' \in BlockingPoints)
    BY <1>28, FinishFacts DEF DelayEnds, BlockingPoints, RunningPoints
  <2>5. /\ exp' \in Experiments /\ segment' \in 0..Segments
         /\ saved' \in [config : Configs, calibrated : BOOLEAN]
    BY <1>28, FinishFacts, ConfigTypes, ConstantTypes DEF DelayEnds, Experiments,
       FlagsOK
  <2>6. live' \in Configs /\ stored' \in Configs
    BY <1>28, ConfigTypes DEF DelayEnds, Experiments, GiveBack, FlagsOK
  <2> QED
    BY <2>1, <2>2, <2>3, <2>4, <2>5, <2>6
<1>29. CASE Validate
  <2>1. session' \in Sessions /\ session'.id <= MaxSessions
    <3>1. "VALIDATION" \in FailureCodes
      BY DEF FailureCodes
    <3>2. Staged \in Sessions /\ Staged.id = session.id
      BY MovesTypes
    <3>3. session' \in {Staged, fail(session, "VALIDATION")}
      BY <1>29 DEF Validate
    <3> QED
      BY <3>1, <3>2, <3>3, SessionTypes
  <2>2. pending' \in [id : Nat, valid : SUBSET Evidence]
    BY <1>29 DEF Validate
  <2>3. /\ requested' \in AxisStates /\ requestedBy' \in {"host", "service"}
         /\ chain' \in Seq(AxisStates) /\ chain' # <<>> /\ chainBy' \in {"host", "service"}
    BY <1>29, FinishFacts DEF Validate, AxisStates
  <2>4. pc' \in BlockingPoints \union RunningPoints /\ (asleep' => pc' \in BlockingPoints)
    BY <1>29, FinishFacts DEF Validate, BlockingPoints, RunningPoints
  <2>5. /\ exp' \in Experiments /\ segment' \in 0..Segments
         /\ saved' \in [config : Configs, calibrated : BOOLEAN]
    BY <1>29, FinishFacts, ConstantTypes DEF Validate, FlagsOK
  <2>6. live' \in Configs /\ stored' \in Configs
    BY <1>29 DEF Validate, FlagsOK
  <2> QED
    BY <2>1, <2>2, <2>3, <2>4, <2>5, <2>6
<1>30. CASE Commit
  <2>1. session' \in Sessions /\ session'.id <= MaxSessions
    <3>1. "STORAGE" \in FailureCodes /\ "COMMITTED" \in States
      BY DEF FailureCodes, States, TerminalStates
    <3> QED
      BY <1>30, <3>1, SessionTypes DEF Commit
  <2>2. pending' \in [id : Nat, valid : SUBSET Evidence]
    BY <1>30 DEF Commit
  <2>3. /\ requested' \in AxisStates /\ requestedBy' \in {"host", "service"}
         /\ chain' \in Seq(AxisStates) /\ chain' # <<>> /\ chainBy' \in {"host", "service"}
    BY <1>30, FinishFacts DEF Commit, AxisStates
  <2>4. pc' \in BlockingPoints \union RunningPoints /\ (asleep' => pc' \in BlockingPoints)
    BY <1>30, FinishFacts DEF Commit, BlockingPoints, RunningPoints
  <2>5. /\ exp' \in Experiments /\ segment' \in 0..Segments
         /\ saved' \in [config : Configs, calibrated : BOOLEAN]
    BY <1>30, FinishFacts, ConstantTypes DEF Commit, FlagsOK
  <2>6. live' \in Configs /\ stored' \in Configs
    <3>1. session.id \in Origins
      BY <1>30, ConstantTypes DEF Commit, SessionInv, Committing, Sessions, Origins
    <3>2. Candidate \in Configs
      BY <3>1 DEF Candidate, Configs
    <3> QED
      BY <1>30, <3>2 DEF Commit
  <2> QED
    BY <2>1, <2>2, <2>3, <2>4, <2>5, <2>6
<1>31. CASE StartSession
  <2>1. session' \in Sessions /\ session'.id <= MaxSessions
    <3>1. session.id \in Nat
      BY DEF Sessions
    <3> QED
      BY <1>31, <3>1, SessionTypes, ConstantTypes DEF StartSession
  <2>2. pending' \in [id : Nat, valid : SUBSET Evidence]
    BY <1>31 DEF StartSession, Evidence, Sessions, begin
  <2>3. /\ requested' \in AxisStates /\ requestedBy' \in {"host", "service"}
         /\ chain' \in Seq(AxisStates) /\ chain' # <<>> /\ chainBy' \in {"host", "service"}
    BY <1>31 DEF StartSession, AxisStates
  <2>4. pc' \in BlockingPoints \union RunningPoints /\ (asleep' => pc' \in BlockingPoints)
    BY <1>31 DEF StartSession, BlockingPoints, RunningPoints
  <2>5. /\ exp' \in Experiments /\ segment' \in 0..Segments
         /\ saved' \in [config : Configs, calibrated : BOOLEAN]
    BY <1>31, ConstantTypes DEF StartSession, FlagsOK
  <2>6. live' \in Configs /\ stored' \in Configs
    BY <1>31 DEF StartSession, FlagsOK
  <2> QED
    BY <2>1, <2>2, <2>3, <2>4, <2>5, <2>6
<1>32. CASE AbortSession
  <2>1. session' \in Sessions /\ session'.id <= MaxSessions
    BY <1>32, SessionTypes, ConstantTypes DEF AbortSession, Stages, States,
       ActiveStates, TerminalStates, FailureCodes
  <2>2. pending' \in [id : Nat, valid : SUBSET Evidence]
    BY <1>32 DEF AbortSession
  <2>3. /\ requested' \in AxisStates /\ requestedBy' \in {"host", "service"}
         /\ chain' \in Seq(AxisStates) /\ chain' # <<>> /\ chainBy' \in {"host", "service"}
    BY <1>32 DEF AbortSession, AxisStates
  <2>4. pc' \in BlockingPoints \union RunningPoints /\ (asleep' => pc' \in BlockingPoints)
    BY <1>32 DEF AbortSession, BlockingPoints, RunningPoints
  <2>5. /\ exp' \in Experiments /\ segment' \in 0..Segments
         /\ saved' \in [config : Configs, calibrated : BOOLEAN]
    BY <1>32, ConstantTypes DEF AbortSession, FlagsOK
  <2>6. live' \in Configs /\ stored' \in Configs
    BY <1>32 DEF AbortSession, FlagsOK
  <2> QED
    BY <2>1, <2>2, <2>3, <2>4, <2>5, <2>6
<1>33. CASE SetAxisState
  BY <1>33, ConstantTypes DEF SetAxisState, BlockingPoints, RunningPoints
<1>34. CASE SetPrecalibrated
  BY <1>34 DEF SetPrecalibrated, BlockingPoints, RunningPoints
<1>35. CASE EditConfig
  BY <1>35, ConstantTypes DEF EditConfig, Configs, Origins, BlockingPoints,
     RunningPoints
<1>36. CASE SaveConfiguration
  BY <1>36 DEF SaveConfiguration, BlockingPoints, RunningPoints
<1>37. CASE ControlLoopDisarms
  BY <1>37 DEF ControlLoopDisarms, BlockingPoints, RunningPoints
<1>38. CASE UNCHANGED vars
  BY <1>38 DEF vars
<1> QED
  BY <1>1, <1>2, <1>3, <1>4, <1>5, <1>6, <1>7, <1>8, <1>9, <1>10, <1>11, <1>12, <1>13,
     <1>14, <1>15, <1>16, <1>17, <1>18, <1>19, <1>20, <1>21, <1>22, <1>23, <1>24, <1>25,
     <1>26, <1>27, <1>28, <1>29, <1>30, <1>31, <1>32, <1>33, <1>34, <1>35, <1>36, <1>37,
     <1>38 DEF Next, AxisStep, HostStep

------------------------------------------------------------------------------------
(* The axis thread is where its experiment says, and the axis state says so too. *)
LEMMA BeginExperiment ==
  ASSUME NEW e, NEW config, NEW flag, Begin(e, config, flag)
  PROVE  exp' = e
BY DEF Begin

(* Every step keeps thread, experiment and axis state together. *)
LEMMA ThreadStep ==
  ASSUME FlagsOK, DataOK, ThreadInv, SessionInv, StageMatchesThread, [Next]_vars
  PROVE  ThreadInv'
<1> USE DEF ThreadInv, ExperimentsAt, Committing, current, sessionVars, requestVars,
            chainVars, experimentVars, modelVars, Goto, Sleep, Enter
<1>1. CASE LoadChain
  BY <1>1 DEF LoadChain
<1>2. CASE DispatchIdle
  BY <1>2, FinishFacts DEF DispatchIdle, DataOK
<1>3. CASE IdleWakes \/ FaultRead
  BY <1>3, FinishFacts DEF IdleWakes, FaultRead, DataOK
<1>4. CASE DispatchInvalid
  BY <1>4, FinishFacts DEF DispatchInvalid, DataOK
<1>5. CASE DispatchMotorCalibration
  BY <1>5, BeginExperiment DEF DispatchMotorCalibration, isActive
<1>6. CASE DispatchOffsetCalibration
  BY <1>6, BeginExperiment DEF DispatchOffsetCalibration, StageMatchesThread
<1>7. CASE DispatchMotion
  BY <1>7 DEF DispatchMotion
<1>8. CASE ClosedLoopEnds
  BY <1>8, FinishFacts DEF ClosedLoopEnds, DataOK
<1>9. CASE MeasureResistance
  BY <1>9 DEF MeasureResistance
<1>10. CASE MeasureInductance
  BY <1>10 DEF MeasureInductance
<1>11. CASE MotorReturned
  BY <1>11, FinishFacts, BeginExperiment DEF MotorReturned, DataOK
<1>12. CASE OffsetArm
  BY <1>12 DEF OffsetArm
<1>13. CASE OffsetLock
  BY <1>13 DEF OffsetLock, OffsetFails
<1>14. CASE OffsetForward
  BY <1>14 DEF OffsetForward, OffsetFails
<1>15. CASE OffsetBackward
  BY <1>15 DEF OffsetBackward, OffsetFails
<1>16. CASE OffsetReturned
  BY <1>16, FinishFacts DEF OffsetReturned, DataOK
<1>17. CASE AlignmentEnds
  BY <1>17, FinishFacts, BeginExperiment DEF AlignmentEnds, DataOK
<1>18. CASE SegmentStart
  BY <1>18, ConstantTypes DEF SegmentStart, ScanFails, DataOK
<1>19. CASE SpinArm
  BY <1>19 DEF SpinArm
<1>20. CASE SegmentEnds
  BY <1>20 DEF SegmentEnds, ScanFails
<1>21. CASE PauseEnds
  BY <1>21 DEF PauseEnds
<1>22. CASE LockinEnds
  BY <1>22, FinishFacts DEF LockinEnds, DataOK
<1>23. CASE GeometryEnds
  BY <1>23, FinishFacts, BeginExperiment DEF GeometryEnds, StartDrive, DataOK
<1>24. CASE LoopArm
  BY <1>24 DEF LoopArm
<1>25. CASE DriveEnds
  BY <1>25 DEF DriveEnds
<1>26. CASE RampDownEnds
  BY <1>26 DEF RampDownEnds
<1>27. CASE MechanicalEnds
  BY <1>27, FinishFacts, BeginExperiment DEF MechanicalEnds, StartDrive, DataOK
<1>28. CASE DelayEnds
  BY <1>28, FinishFacts DEF DelayEnds, DataOK
<1>29. CASE Validate
  BY <1>29, FinishFacts DEF Validate, DataOK
<1>30. CASE Commit
  BY <1>30, FinishFacts DEF Commit, DataOK
<1>31. CASE StartSession
  BY <1>31 DEF StartSession
<1>32. CASE AbortSession
  BY <1>32 DEF AbortSession
<1>33. CASE SetAxisState
  BY <1>33 DEF SetAxisState
<1>34. CASE SetPrecalibrated
  BY <1>34 DEF SetPrecalibrated
<1>35. CASE EditConfig
  BY <1>35 DEF EditConfig
<1>36. CASE SaveConfiguration
  BY <1>36 DEF SaveConfiguration
<1>37. CASE ControlLoopDisarms
  BY <1>37 DEF ControlLoopDisarms
<1>38. CASE UNCHANGED vars
  BY <1>38 DEF vars
<1> QED
  BY <1>1, <1>2, <1>3, <1>4, <1>5, <1>6, <1>7, <1>8, <1>9, <1>10, <1>11, <1>12, <1>13,
     <1>14, <1>15, <1>16, <1>17, <1>18, <1>19, <1>20, <1>21, <1>22, <1>23, <1>24, <1>25,
     <1>26, <1>27, <1>28, <1>29, <1>30, <1>31, <1>32, <1>33, <1>34, <1>35, <1>36, <1>37,
     <1>38 DEF Next, AxisStep, HostStep

------------------------------------------------------------------------------------
(* The motor is powered only where a loop watches it. *)

(* Every step that leaves a watching loop has floated the motor. *)
LEMMA PoweredStep ==
  ASSUME PoweredOnlyWatched, [Next]_vars
  PROVE  PoweredOnlyWatched'
<1> USE DEF PoweredOnlyWatched, PoweredPoints, sessionVars, requestVars,
            chainVars, experimentVars, modelVars,
            Goto, Sleep, Enter, Finish
<1>1. CASE LoadChain
  BY <1>1 DEF LoadChain
<1>2. CASE DispatchIdle
  BY <1>2 DEF DispatchIdle
<1>3. CASE IdleWakes \/ FaultRead
  BY <1>3 DEF IdleWakes, FaultRead
<1>4. CASE DispatchInvalid
  BY <1>4 DEF DispatchInvalid
<1>5. CASE DispatchMotorCalibration
  BY <1>5 DEF DispatchMotorCalibration
<1>6. CASE DispatchOffsetCalibration
  BY <1>6 DEF DispatchOffsetCalibration
<1>7. CASE DispatchMotion
  BY <1>7 DEF DispatchMotion
<1>8. CASE ClosedLoopEnds
  BY <1>8 DEF ClosedLoopEnds
<1>9. CASE MeasureResistance
  BY <1>9 DEF MeasureResistance
<1>10. CASE MeasureInductance
  BY <1>10 DEF MeasureInductance
<1>11. CASE MotorReturned
  BY <1>11 DEF MotorReturned
<1>12. CASE OffsetArm
  BY <1>12 DEF OffsetArm
<1>13. CASE OffsetLock
  BY <1>13 DEF OffsetLock, OffsetFails
<1>14. CASE OffsetForward
  BY <1>14 DEF OffsetForward, OffsetFails
<1>15. CASE OffsetBackward
  BY <1>15 DEF OffsetBackward, OffsetFails
<1>16. CASE OffsetReturned
  BY <1>16 DEF OffsetReturned
<1>17. CASE AlignmentEnds
  BY <1>17 DEF AlignmentEnds
<1>18. CASE SegmentStart
  BY <1>18 DEF SegmentStart, ScanFails
<1>19. CASE SpinArm
  BY <1>19 DEF SpinArm
<1>20. CASE SegmentEnds
  BY <1>20 DEF SegmentEnds, ScanFails
<1>21. CASE PauseEnds
  BY <1>21 DEF PauseEnds
<1>22. CASE LockinEnds
  BY <1>22 DEF LockinEnds
<1>23. CASE GeometryEnds
  BY <1>23 DEF GeometryEnds, StartDrive
<1>24. CASE LoopArm
  BY <1>24 DEF LoopArm
<1>25. CASE DriveEnds
  BY <1>25 DEF DriveEnds
<1>26. CASE RampDownEnds
  BY <1>26 DEF RampDownEnds
<1>27. CASE MechanicalEnds
  BY <1>27 DEF MechanicalEnds, StartDrive
<1>28. CASE DelayEnds
  BY <1>28 DEF DelayEnds
<1>29. CASE Validate
  BY <1>29 DEF Validate
<1>30. CASE Commit
  BY <1>30 DEF Commit
<1>31. CASE StartSession
  BY <1>31 DEF StartSession
<1>32. CASE AbortSession
  BY <1>32 DEF AbortSession
<1>33. CASE SetAxisState
  BY <1>33 DEF SetAxisState
<1>34. CASE SetPrecalibrated
  BY <1>34 DEF SetPrecalibrated
<1>35. CASE EditConfig
  BY <1>35 DEF EditConfig
<1>36. CASE SaveConfiguration
  BY <1>36 DEF SaveConfiguration
<1>37. CASE ControlLoopDisarms
  BY <1>37 DEF ControlLoopDisarms
<1>38. CASE UNCHANGED vars
  BY <1>38 DEF vars
<1> QED
  BY <1>1, <1>2, <1>3, <1>4, <1>5, <1>6, <1>7, <1>8, <1>9, <1>10, <1>11, <1>12, <1>13,
     <1>14, <1>15, <1>16, <1>17, <1>18, <1>19, <1>20, <1>21, <1>22, <1>23, <1>24, <1>25,
     <1>26, <1>27, <1>28, <1>29, <1>30, <1>31, <1>32, <1>33, <1>34, <1>35, <1>36, <1>37,
     <1>38 DEF Next, AxisStep, HostStep

------------------------------------------------------------------------------------
(* Nothing but begin changes a session that has ended: only an active session    *)
(* changes, keeping its number and its profile, and only Commit commits it.     *)
LEMMA InactiveFacts ==
  ASSUME NEW s, ~active(s)
  PROVE  /\ \A n : transition(s, n) = s
         /\ \A g : set_stage(s, g) = s
         /\ \A c : fail(s, c) = s
         /\ abort(s) = s
BY DEF transition, set_stage, fail, abort

(* What any other step may do to a session. *)
Changed ==
  \/ session' = session
  \/ /\ isActive /\ session'.id = session.id /\ session'.profile = session.profile
     /\ session'.state \notin {"EMPTY", "COMMITTED"}

(* No step changes a session in another way. *)
LEMMA SessionChange ==
  ASSUME DataOK, [Next]_vars
  PROVE  StartSession \/ Commit \/ Changed
<1> USE DEF DataOK, Changed, sessionVars, isActive, active, ActiveStates
<1>1. CASE LoadChain
  <2>1. \/ session' = session
        \/ session' = set_stage(session, "ELECTRICAL_CAPTURE")
        \/ session' = fail(set_stage(session, "PRECHECK"), "PROFILE")
    BY <1>1 DEF LoadChain
  <2>2. CASE ~isActive
    BY <2>1, <2>2, InactiveFacts DEF isActive
  <2>3. CASE isActive
    <3>1. "ELECTRICAL_CAPTURE" \in Stages /\ "PRECHECK" \in Stages
          /\ "PROFILE" \in FailureCodes
      BY DEF Stages, States, ActiveStates, TerminalStates, FailureCodes
    <3> QED
      BY <2>1, <2>3, <3>1, StageFacts, FailFacts
  <2> QED
    BY <2>2, <2>3
<1>2. CASE MotorReturned
  <2>1. \/ session' = session
        \/ session' = set_stage(session, "ENCODER_GEOMETRY")
        \/ session' = transition(session, "COLLECTED")
        \/ session' = fail(session, "MOTOR")
    BY <1>2 DEF MotorReturned
  <2>2. CASE ~isActive
    BY <2>1, <2>2, InactiveFacts DEF isActive
  <2>3. CASE isActive
    <3>1. "ENCODER_GEOMETRY" \in Stages /\ "COLLECTED" \in States
          /\ "MOTOR" \in FailureCodes
      BY DEF Stages, States, ActiveStates, TerminalStates, FailureCodes
    <3> QED
      BY <2>1, <2>3, <3>1, StageFacts, FailFacts, TransitionFacts
  <2> QED
    BY <2>2, <2>3
<1>3. CASE OffsetReturned
  <2>1. \/ session' = session
        \/ session' = transition(session, "COLLECTED")
        \/ session' = fail(session, "ENCODER")
    BY <1>3 DEF OffsetReturned
  <2>2. CASE ~isActive
    BY <2>1, <2>2, InactiveFacts DEF isActive
  <2>3. CASE isActive
    <3>1. "COLLECTED" \in States /\ "ENCODER" \in FailureCodes
      BY DEF Stages, States, ActiveStates, TerminalStates, FailureCodes
    <3> QED
      BY <2>1, <2>3, <3>1, FailFacts, TransitionFacts
  <2> QED
    BY <2>2, <2>3
<1>4. CASE AlignmentEnds
  <2>1. \/ session' = session
        \/ session' = Failed("ENCODER")
    BY <1>4 DEF AlignmentEnds
  <2>2. CASE ~isActive
    BY <2>1, <2>2, InactiveFacts DEF isActive, Failed
  <2>3. CASE isActive
    <3>1. "ENCODER" \in FailureCodes
      BY DEF Stages, States, ActiveStates, TerminalStates, FailureCodes
    <3> QED
      BY <2>1, <2>3, <3>1, FailedFacts
  <2> QED
    BY <2>2, <2>3
<1>5. CASE GeometryEnds
  <2> DEFINE s == set_stage(session, "MECHANICAL_CAPTURE")
  <2>1. \/ StartDrive("mechanical", "mechanicalEnd", s) /\ isActive
        \/ session' = session
        \/ session' = Failed("FLUX")
        \/ session' = Failed("GEOMETRY")
    BY <1>5 DEF GeometryEnds
  <2>2. CASE isActive /\ StartDrive("mechanical", "mechanicalEnd", s)
    <3>1. "MECHANICAL_CAPTURE" \in Stages
      BY DEF Stages
    <3>2. /\ s \in Sessions /\ s.id = session.id /\ s.profile = session.profile
          /\ s.state = session.state /\ active(s)
      BY <2>2, <3>1, StageFacts
    <3> HIDE DEF s
    <3>3. /\ session'.id = s.id /\ session'.profile = s.profile
          /\ session' = s \/ session'.state = "FAILED"
      BY <2>2, <3>2, StartDriveFacts
    <3> QED
      BY <2>2, <3>2, <3>3
  <2>3. CASE ~isActive
    BY <2>1, <2>3, InactiveFacts DEF isActive, Failed
  <2>4. CASE isActive /\ ~StartDrive("mechanical", "mechanicalEnd", s)
    <3>1. "FLUX" \in FailureCodes /\ "GEOMETRY" \in FailureCodes
      BY DEF FailureCodes
    <3> QED
      BY <2>1, <2>4, <3>1, FailedFacts
  <2> QED
    BY <2>2, <2>3, <2>4
<1>6. CASE LoopArm
  <2>1. \/ session' = session
        \/ session' = fail(session, "MECHANICAL")
        \/ session' = fail(session, "DELAY")
    BY <1>6 DEF LoopArm
  <2>2. CASE ~isActive
    BY <2>1, <2>2, InactiveFacts DEF isActive
  <2>3. CASE isActive
    <3>1. "MECHANICAL" \in FailureCodes /\ "DELAY" \in FailureCodes
      BY DEF Stages, States, ActiveStates, TerminalStates, FailureCodes
    <3> QED
      BY <2>1, <2>3, <3>1, FailFacts
  <2> QED
    BY <2>2, <2>3
<1>7. CASE MechanicalEnds
  <2> DEFINE s == set_stage(session, "ELECTRICAL_DELAY")
  <2>1. \/ StartDrive("delay", "delayEnd", s) /\ isActive
        \/ session' = session
        \/ session' = Failed("MECHANICAL")
    BY <1>7 DEF MechanicalEnds
  <2>2. CASE isActive /\ StartDrive("delay", "delayEnd", s)
    <3>1. "ELECTRICAL_DELAY" \in Stages
      BY DEF Stages
    <3>2. /\ s \in Sessions /\ s.id = session.id /\ s.profile = session.profile
          /\ s.state = session.state /\ active(s)
      BY <2>2, <3>1, StageFacts
    <3> HIDE DEF s
    <3>3. /\ session'.id = s.id /\ session'.profile = s.profile
          /\ session' = s \/ session'.state = "FAILED"
      BY <2>2, <3>2, StartDriveFacts
    <3> QED
      BY <2>2, <3>2, <3>3
  <2>3. CASE ~isActive
    BY <2>1, <2>3, InactiveFacts DEF isActive, Failed
  <2>4. CASE isActive /\ ~StartDrive("delay", "delayEnd", s)
    <3>1. "MECHANICAL" \in FailureCodes
      BY DEF FailureCodes
    <3> QED
      BY <2>1, <2>4, <3>1, FailedFacts
  <2> QED
    BY <2>2, <2>3, <2>4
<1>8. CASE DelayEnds
  <2>1. \/ session' = session
        \/ session' = Validating
        \/ session' = Failed("DELAY")
    BY <1>8 DEF DelayEnds
  <2>2. CASE ~isActive
    BY <2>1, <2>2, InactiveFacts DEF isActive, Failed, Validating, Fitted, Collected
  <2>3. CASE isActive
    <3>1. "DELAY" \in FailureCodes
      BY DEF Stages, States, ActiveStates, TerminalStates, FailureCodes
    <3> QED
      BY <2>1, <2>3, <3>1, FailedFacts, MovesTypes
  <2> QED
    BY <2>2, <2>3
<1>9. CASE Validate
  <2>1. \/ session' = Staged
        \/ session' = fail(session, "VALIDATION")
    BY <1>9 DEF Validate
  <2>2. CASE ~isActive
    BY <2>1, <2>2, InactiveFacts DEF isActive, Staged
  <2>3. CASE isActive
    <3>1. "VALIDATION" \in FailureCodes
      BY DEF Stages, States, ActiveStates, TerminalStates, FailureCodes
    <3> QED
      BY <2>1, <2>3, <3>1, FailFacts, MovesTypes
  <2> QED
    BY <2>2, <2>3
<1>10. CASE Commit
  BY <1>10
<1>11. CASE StartSession
  BY <1>11
<1>12. CASE AbortSession
  BY <1>12, AbortFacts DEF AbortSession
<1>13. CASE DispatchIdle \/ FaultRead \/ IdleWakes \/ DispatchInvalid
        \/ DispatchMotorCalibration
        \/ DispatchOffsetCalibration \/ DispatchMotion \/ ClosedLoopEnds
        \/ MeasureResistance \/ MeasureInductance \/ OffsetArm \/ OffsetLock
        \/ OffsetForward \/ OffsetBackward \/ SegmentStart \/ SpinArm \/ SegmentEnds
        \/ PauseEnds \/ LockinEnds \/ DriveEnds \/ RampDownEnds \/ SetAxisState
        \/ SetPrecalibrated \/ EditConfig \/ SaveConfiguration \/ ControlLoopDisarms
  BY <1>13 DEF DispatchIdle, FaultRead, IdleWakes, DispatchInvalid, DispatchMotorCalibration,
     DispatchOffsetCalibration, DispatchMotion, ClosedLoopEnds, MeasureResistance,
     MeasureInductance, OffsetArm, OffsetLock, OffsetForward, OffsetBackward,
     SegmentStart, SpinArm, SegmentEnds, PauseEnds, LockinEnds, DriveEnds, RampDownEnds,
     SetAxisState, SetPrecalibrated, EditConfig, SaveConfiguration, ControlLoopDisarms
<1>14. CASE UNCHANGED vars
  BY <1>14 DEF vars
<1> QED
  BY <1>1, <1>2, <1>3, <1>4, <1>5, <1>6, <1>7, <1>8, <1>9, <1>10, <1>11, <1>12, <1>13,
     <1>14 DEF Next, AxisStep, HostStep
------------------------------------------------------------------------------------
(* The session, its stage and its failure code agree with the thread.           *)
SessionAgrees == SessionInv /\ StageMatchesThread /\ FailureNamesStage

(* After a failure the session is over, under the cause first recorded.          *)
LEMMA FailureEnds ==
  ASSUME session \in Sessions, NEW c \in FailureCodes, session' = Failed(c)
  PROVE  /\ session'.id = session.id /\ session'.profile = session.profile
         /\ session'.stage = session.stage /\ ~active(session')
         /\ \/ session' = session
            \/ isActive /\ session'.state = "FAILED" /\ session'.code = c
<1>1. CASE isActive
  BY <1>1, FailedFacts DEF active, ActiveStates
<1>2. CASE ~isActive
  <2>1. Failed(c) = session
    BY <1>2, InactiveFacts DEF Failed, isActive
  <2> QED
    BY <1>2, <2>1, FailedFacts DEF isActive
<1> QED
  BY <1>1, <1>2

(* Every step keeps session, stage and failure code in agreement. *)
LEMMA SessionStep ==
  ASSUME FlagsOK, DataOK, ThreadInv, SessionAgrees, [Next]_vars
  PROVE  SessionAgrees'
<1> USE DEF SessionAgrees, SessionInv, StageMatchesThread, FailureNamesStage,
            ThreadInv, ExperimentsAt, Committing, FullExperiments, current, isActive, active,
            sessionVars, requestVars, chainVars, experimentVars, modelVars,
            Goto, Sleep, Enter
<1>1. CASE LoadChain
  <2>1. \/ session' = session
        \/ session' = set_stage(session, "ELECTRICAL_CAPTURE")
        \/ session' = fail(set_stage(session, "PRECHECK"), "PROFILE")
    BY <1>1 DEF LoadChain
  <2>2. "ELECTRICAL_CAPTURE" \in Stages /\ "PRECHECK" \in Stages /\ "PROFILE" \in FailureCodes
    BY DEF Stages, FailureCodes
  <2>3. session \in Sessions /\ pc = "load" /\ pc' = "dispatch" /\ exp' = exp
    BY <1>1 DEF LoadChain, DataOK
  <2>4. /\ session'.id = session.id /\ session'.profile = session.profile
        /\ \/ session' = session
           \/ /\ isActive /\ session'.stage = "ELECTRICAL_CAPTURE"
              /\ session'.state = session.state /\ session'.code = session.code
           \/ /\ session'.state = "FAILED" /\ session'.stage = "PRECHECK"
              /\ session'.code = "PROFILE"
    BY <2>1, <2>2, <2>3, StageFacts, FailFacts, InactiveFacts
  <2> QED
    BY <2>3, <2>4 DEF ActiveStates
<1>2. CASE DispatchIdle
  BY <1>2, FinishFacts DEF DispatchIdle
<1>3. CASE IdleWakes \/ FaultRead
  BY <1>3, FinishFacts DEF IdleWakes, FaultRead
<1>4. CASE DispatchInvalid
  BY <1>4, FinishFacts DEF DispatchInvalid
<1>5. CASE DispatchMotorCalibration
  BY <1>5, BeginExperiment DEF DispatchMotorCalibration
<1>6. CASE DispatchOffsetCalibration
  BY <1>6, BeginExperiment DEF DispatchOffsetCalibration
<1>7. CASE DispatchMotion
  BY <1>7 DEF DispatchMotion
<1>8. CASE ClosedLoopEnds
  BY <1>8, FinishFacts DEF ClosedLoopEnds
<1>9. CASE MeasureResistance \/ MeasureInductance
  BY <1>9 DEF MeasureResistance, MeasureInductance
<1>12. CASE OffsetArm \/ OffsetLock \/ OffsetForward \/ OffsetBackward
  BY <1>12 DEF OffsetArm, OffsetLock, OffsetForward, OffsetBackward, OffsetFails
<1>16. CASE OffsetReturned
  BY <1>16, FinishFacts DEF OffsetReturned
<1>18. CASE SegmentStart \/ SpinArm \/ SegmentEnds \/ PauseEnds
  BY <1>18 DEF SegmentStart, ScanFails, SpinArm, SegmentEnds, PauseEnds
<1>22. CASE LockinEnds
  BY <1>22, FinishFacts DEF LockinEnds
<1>25. CASE DriveEnds \/ RampDownEnds
  BY <1>25 DEF DriveEnds, RampDownEnds
<1>11. CASE MotorReturned
  <2>1. session \in Sessions /\ "ENCODER_GEOMETRY" \in Stages /\ "COLLECTED" \in States
        /\ "MOTOR" \in FailureCodes
    BY DEF DataOK, Stages, States, ActiveStates, FailureCodes
  <2>2. CASE exp = "none"
    BY <1>11, <2>2, FinishFacts DEF MotorReturned
  <2>3. CASE exp # "none" /\ isActive /\ status /\ session.profile = "FULL"
    <3>1. session' = set_stage(session, "ENCODER_GEOMETRY") /\ exp' = "alignment"
          /\ pc' = "offsetWait" /\ chain' = chain
      BY <1>11, <2>3, BeginExperiment DEF MotorReturned
    <3>2. /\ session'.id = session.id /\ session'.profile = session.profile
          /\ session'.state = session.state /\ session'.stage = "ENCODER_GEOMETRY"
      BY <3>1, <2>1, <2>3, StageFacts
    <3> QED
      BY <1>11, <2>3, <3>1, <3>2 DEF MotorReturned
  <2>4. CASE exp # "none" /\ ~(isActive /\ status /\ session.profile = "FULL")
    <3>1. /\ session' = IF status THEN transition(session, "COLLECTED")
                                  ELSE fail(session, "MOTOR")
          /\ exp' = "none" /\ pc' = "load" /\ pc = "motorReturned"
      BY <1>11, <2>4, FinishFacts DEF MotorReturned
    <3>2. /\ session'.id = session.id /\ session'.profile = session.profile
          /\ session'.stage = session.stage
          /\ \/ session' = session
             \/ isActive /\ session.profile # "FULL" /\ session'.code = session.code
                /\ session'.state \in {session.state, "COLLECTED"}
             \/ isActive /\ session'.state = "FAILED" /\ session'.code = "MOTOR"
      BY <3>1, <2>1, <2>4, TransitionFacts, FailFacts, InactiveFacts
    <3> QED
      BY <2>4, <3>1, <3>2 DEF ActiveStates
  <2> QED
    BY <2>2, <2>3, <2>4
<1>17. CASE AlignmentEnds
  <2>1. session \in Sessions /\ "ENCODER" \in FailureCodes /\ pc = "offsetReturned"
        /\ exp = "alignment"
    BY <1>17 DEF AlignmentEnds, DataOK, FailureCodes
  <2>2. CASE status /\ isActive
    BY <1>17, <2>1, <2>2, BeginExperiment DEF AlignmentEnds
  <2>3. CASE ~(status /\ isActive)
    <3>1. session' = Failed("ENCODER") /\ exp' = "none" /\ pc' = "load"
      BY <1>17, <2>3, FinishFacts DEF AlignmentEnds
    <3> QED
      BY <2>1, <3>1, FailureEnds
  <2> QED
    BY <2>2, <2>3
<1>23. CASE GeometryEnds
  <2>1. /\ session \in Sessions /\ pc = "geometryEnd" /\ exp = "geometry"
        /\ "FLUX" \in FailureCodes /\ "GEOMETRY" \in FailureCodes
        /\ "MECHANICAL_CAPTURE" \in Stages
    BY <1>23 DEF GeometryEnds, DataOK, FailureCodes, Stages
  <2> DEFINE s == set_stage(session, "MECHANICAL_CAPTURE")
  <2>2. \/ /\ isActive /\ exp' = "mechanical" /\ chain' = chain
           /\ StartDrive("mechanical", "mechanicalEnd", s)
        \/ /\ exp' = "none" /\ pc' = "load"
           /\ \/ session' = session /\ ~isActive
              \/ session' = Failed("FLUX") \/ session' = Failed("GEOMETRY")
    BY <1>23, FinishFacts, BeginExperiment DEF GeometryEnds
  <2>3. CASE isActive /\ StartDrive("mechanical", "mechanicalEnd", s)
             /\ exp' = "mechanical" /\ chain' = chain
    <3>1. /\ s \in Sessions /\ s.id = session.id /\ s.profile = session.profile
          /\ s.stage = "MECHANICAL_CAPTURE" /\ s.state = session.state /\ active(s)
      BY <2>1, <2>3, StageFacts
    <3>2. StartDrive("mechanical", "mechanicalEnd", s)
      BY <2>3
    <3> HIDE DEF s
    <3>3. /\ session'.id = session.id /\ session'.profile = session.profile
          /\ session'.stage = "MECHANICAL_CAPTURE"
          /\ \/ session'.state = session.state /\ pc' = "loopWait"
             \/ /\ pc' = "mechanicalEnd"
                /\ session'.state = "FAILED" /\ session'.code = "MECHANICAL"
      BY <3>1, <3>2, StartDriveFacts
    <3> QED
      BY <2>1, <2>3, <3>3 DEF ActiveStates
  <2>4. CASE exp' = "none" /\ pc' = "load"
    BY <2>1, <2>2, <2>4, FailureEnds
  <2> QED
    BY <2>2, <2>3, <2>4
<1>24. CASE LoopArm
  <2>1. session \in Sessions /\ "MECHANICAL" \in FailureCodes /\ "DELAY" \in FailureCodes
    BY DEF DataOK, FailureCodes
  <2>2. pc = "loopWait" /\ pc' \in {"run", "drive"} /\ exp' = exp /\ chain' = chain
    BY <1>24 DEF LoopArm
  <2>3. \/ session' = session
        \/ session' = fail(session, "MECHANICAL") /\ exp = "mechanical"
        \/ session' = fail(session, "DELAY") /\ exp = "delay"
    BY <1>24, <2>2 DEF LoopArm
  <2>4. CASE session' = session
    BY <2>2, <2>4
  <2>5. CASE isActive /\ session' # session
    BY <2>1, <2>2, <2>3, <2>5, FailFacts DEF ActiveStates
  <2>6. CASE ~isActive /\ session' # session
    BY <2>3, <2>6, InactiveFacts
  <2> QED
    BY <2>4, <2>5, <2>6
<1>27. CASE MechanicalEnds
  <2>1. /\ session \in Sessions /\ pc = "mechanicalEnd" /\ exp = "mechanical"
        /\ "MECHANICAL" \in FailureCodes /\ "ELECTRICAL_DELAY" \in Stages
    BY <1>27 DEF MechanicalEnds, DataOK, FailureCodes, Stages
  <2> DEFINE s == set_stage(session, "ELECTRICAL_DELAY")
  <2>2. \/ /\ isActive /\ exp' = "delay" /\ chain' = chain
           /\ StartDrive("delay", "delayEnd", s)
        \/ /\ exp' = "none" /\ pc' = "load"
           /\ \/ session' = session /\ ~isActive
              \/ session' = Failed("MECHANICAL")
    BY <1>27, FinishFacts, BeginExperiment DEF MechanicalEnds
  <2>3. CASE isActive /\ StartDrive("delay", "delayEnd", s)
             /\ exp' = "delay" /\ chain' = chain
    <3>1. /\ s \in Sessions /\ s.id = session.id /\ s.profile = session.profile
          /\ s.stage = "ELECTRICAL_DELAY" /\ s.state = session.state /\ active(s)
      BY <2>1, <2>3, StageFacts
    <3>2. StartDrive("delay", "delayEnd", s)
      BY <2>3
    <3> HIDE DEF s
    <3>3. /\ session'.id = session.id /\ session'.profile = session.profile
          /\ session'.stage = "ELECTRICAL_DELAY"
          /\ \/ session'.state = session.state /\ pc' = "loopWait"
             \/ /\ pc' = "delayEnd"
                /\ session'.state = "FAILED" /\ session'.code = "DELAY"
      BY <3>1, <3>2, StartDriveFacts
    <3> QED
      BY <2>1, <2>3, <3>3 DEF ActiveStates
  <2>4. CASE exp' = "none" /\ pc' = "load"
    BY <2>1, <2>2, <2>4, FailureEnds
  <2> QED
    BY <2>2, <2>3, <2>4
<1>28. CASE DelayEnds
  <2>1. /\ session \in Sessions /\ pc = "delayEnd" /\ exp = "delay"
        /\ "DELAY" \in FailureCodes
    BY <1>28 DEF DelayEnds, DataOK, FailureCodes
  <2>2. CASE isActive /\ session' = Validating /\ exp' = "none" /\ pc' = "validate"
             /\ chain' = chain
    <3>1. session.profile = "FULL" /\ session.state = "COLLECTING" /\ session.id > 0
          /\ current = "MOTOR_CALIBRATION"
      BY <2>1, <2>2
    <3>2. /\ session'.id = session.id /\ session'.profile = session.profile
          /\ session'.state = "VALIDATING" /\ session'.stage = "VALIDATION"
      BY <2>1, <2>2, <3>1, MovesTypes, MovesFacts
    <3> QED
      BY <2>2, <3>1, <3>2 DEF ActiveStates
  <2>3. CASE exp' = "none" /\ pc' = "load"
             /\ ((session' = session /\ ~isActive) \/ session' = Failed("DELAY"))
    BY <2>1, <2>3, FailureEnds
  <2> QED
    BY <1>28, <2>2, <2>3, FinishFacts DEF DelayEnds
<1>29. CASE Validate
  <2>1. session \in Sessions /\ pc = "validate" /\ "VALIDATION" \in FailureCodes
    BY <1>29 DEF Validate, DataOK, FailureCodes
  <2>2. CASE session' = Staged /\ pc' = "commit" /\ exp' = exp /\ chain' = chain
    <3>1. session.profile = "FULL" /\ session.state = "VALIDATING" /\ session.id > 0
          /\ current = "MOTOR_CALIBRATION" /\ exp = "none"
      BY <2>1 DEF ActiveStates
    <3>2. /\ session'.id = session.id /\ session'.profile = session.profile
          /\ session'.state = "STAGED" /\ session'.stage = "COMMIT"
      BY <2>1, <2>2, <3>1, MovesTypes, MovesFacts
    <3> QED
      BY <2>2, <3>1, <3>2 DEF ActiveStates
  <2>3. CASE session' = fail(session, "VALIDATION") /\ exp' = "none" /\ pc' = "load"
    BY <2>1, <2>3, FailFacts DEF ActiveStates
  <2> QED
    BY <1>29, <2>2, <2>3, FinishFacts DEF Validate
<1>30. CASE Commit
  <2>1. /\ session \in Sessions /\ pc = "commit" /\ "STORAGE" \in FailureCodes
        /\ "COMMITTED" \in States /\ session.state = "STAGED"
    BY <1>30 DEF Commit, DataOK, FailureCodes, States, TerminalStates
  <2>2. exp' = "none" /\ pc' = "load"
    BY <1>30, FinishFacts DEF Commit
  <2>3. CASE session' = transition(session, "COMMITTED")
    BY <2>1, <2>2, <2>3, ForwardFacts, TransitionFacts DEF ActiveStates
  <2>4. CASE session' = fail(session, "STORAGE")
    BY <2>1, <2>2, <2>4, FailFacts DEF ActiveStates
  <2> QED
    BY <1>30, <2>3, <2>4 DEF Commit
<1>31. CASE StartSession
  <2>1. PICK p \in StartProfiles : session' = begin(session, p)
    BY <1>31 DEF StartSession
  <2>2. /\ session'.id > 0 /\ session'.state = "COLLECTING" /\ session'.stage = "NONE"
    BY <2>1, ConstantTypes, BeginFacts DEF DataOK, Sessions
  <2>3. current = "IDLE" /\ exp' = exp /\ pc' = pc /\ chain' = chain
    BY <1>31 DEF StartSession
  <2>4. exp = "none" /\ ~Committing
    BY <2>3
  <2> QED
    BY <2>2, <2>3, <2>4
<1>32. CASE AbortSession
  <2>1. session'.state = "ABORTED"
    BY <1>32, AbortFacts DEF AbortSession, DataOK
  <2>2. pc' = pc /\ exp' = exp /\ session'.profile = session.profile /\ pc \in BlockingPoints
    BY <1>32, AbortFacts DEF AbortSession, DataOK
  <2> QED
    BY <2>1, <2>2 DEF ActiveStates, BlockingPoints
<1>33. CASE SetAxisState \/ SetPrecalibrated \/ EditConfig \/ SaveConfiguration
         \/ ControlLoopDisarms
  BY <1>33 DEF SetAxisState, SetPrecalibrated, EditConfig, SaveConfiguration,
     ControlLoopDisarms
<1>38. CASE UNCHANGED vars
  BY <1>38 DEF vars
<1> QED
  BY <1>1, <1>2, <1>3, <1>4, <1>5, <1>6, <1>7, <1>8, <1>9, <1>11, <1>12, <1>16, <1>17,
     <1>18, <1>22, <1>23, <1>24, <1>25, <1>27, <1>28, <1>29, <1>30, <1>31, <1>32, <1>33,
     <1>38 DEF Next, AxisStep, HostStep
------------------------------------------------------------------------------------
(* Capture belongs to the motor measurement of an active session.               *)
LEMMA CaptureStep ==
  ASSUME FlagsOK, DataOK, ThreadInv, CaptureIsOwned, [Next]_vars
  PROVE  CaptureIsOwned'
<1> USE DEF CaptureIsOwned, sessionVars, requestVars, chainVars, experimentVars,
            modelVars, Goto, Sleep, Enter
<1>1. CASE DispatchMotorCalibration
  <2>1. exp # "motor"
    BY <1>1 DEF DispatchMotorCalibration, ThreadInv, ExperimentsAt
  <2>2. ~capture
    BY <2>1
  <2> DEFINE owned == isActive /\ session.stage = "ELECTRICAL_CAPTURE"
  <2>3. /\ capture' = (capture \/ owned) /\ session' = session
        /\ exp' = IF owned THEN "motor" ELSE "none"
    BY <1>1, BeginExperiment DEF DispatchMotorCalibration
  <2> QED
    BY <2>2, <2>3 DEF isActive
<1>2. CASE MeasureResistance \/ MeasureInductance
  BY <1>2 DEF MeasureResistance, MeasureInductance, isActive
<1>3. CASE MotorReturned
  <2>1. CASE exp = "none"
    BY <1>3, <2>1 DEF MotorReturned
  <2>2. CASE exp # "none"
    BY <1>3, <2>2 DEF MotorReturned
  <2> QED
    BY <2>1, <2>2
<1>5. CASE LoadChain \/ DispatchIdle \/ FaultRead \/ IdleWakes \/ DispatchInvalid
             \/ DispatchOffsetCalibration \/ DispatchMotion \/ ClosedLoopEnds
  <2>1. capture' = capture /\ pc \in {"load", "dispatch", "faultRead", "idle", "run"}
    BY <1>5 DEF LoadChain, DispatchIdle, FaultRead, IdleWakes, DispatchInvalid,
       DispatchOffsetCalibration, DispatchMotion, ClosedLoopEnds
  <2>2. exp # "motor"
    BY <2>1 DEF ThreadInv, ExperimentsAt
  <2> QED
    BY <2>1, <2>2
<1>6. CASE OffsetArm \/ OffsetLock \/ OffsetForward \/ OffsetBackward \/ OffsetReturned
             \/ AlignmentEnds
  <2>1. /\ capture' = capture
        /\ pc \in {"offsetWait", "offsetLock", "offsetForward", "offsetBackward",
                   "offsetReturned"}
    BY <1>6 DEF OffsetArm, OffsetLock, OffsetForward, OffsetBackward, OffsetReturned,
       AlignmentEnds
  <2>2. exp # "motor"
    BY <2>1 DEF ThreadInv, ExperimentsAt
  <2> QED
    BY <2>1, <2>2
<1>7. CASE SegmentStart \/ SpinArm \/ SegmentEnds \/ PauseEnds \/ LockinEnds
             \/ GeometryEnds
  <2>1. /\ capture' = capture
        /\ pc \in {"segmentStart", "spinWait", "spin", "pause", "geometryEnd"}
    BY <1>7 DEF SegmentStart, SpinArm, SegmentEnds, PauseEnds, LockinEnds, GeometryEnds
  <2>2. exp # "motor"
    BY <2>1 DEF ThreadInv, ExperimentsAt
  <2> QED
    BY <2>1, <2>2
<1>8. CASE LoopArm \/ DriveEnds \/ RampDownEnds \/ MechanicalEnds \/ DelayEnds
             \/ Validate \/ Commit
  <2>1. /\ capture' = capture
        /\ pc \in {"loopWait", "drive", "rampDown", "mechanicalEnd", "delayEnd",
                   "validate", "commit"}
    BY <1>8 DEF LoopArm, DriveEnds, RampDownEnds, MechanicalEnds, DelayEnds, Validate,
       Commit
  <2>2. exp # "motor"
    BY <2>1 DEF ThreadInv, ExperimentsAt
  <2> QED
    BY <2>1, <2>2
<1>9. CASE StartSession
  <2>1. current = "IDLE" /\ capture' = capture
    BY <1>9 DEF StartSession
  <2>2. exp # "motor"
    BY <2>1 DEF ThreadInv
  <2> QED
    BY <2>1, <2>2
<1>10. CASE AbortSession
  BY <1>10 DEF AbortSession
<1>11. CASE SetAxisState \/ SetPrecalibrated \/ EditConfig \/ SaveConfiguration
         \/ ControlLoopDisarms
  BY <1>11 DEF SetAxisState, SetPrecalibrated, EditConfig, SaveConfiguration,
     ControlLoopDisarms, isActive
<1>12. CASE UNCHANGED vars
  BY <1>12 DEF vars, isActive
<1> QED
  BY <1>1, <1>2, <1>3, <1>5, <1>6, <1>7, <1>8, <1>9, <1>10, <1>11, <1>12
  DEF Next, AxisStep, HostStep

------------------------------------------------------------------------------------
(* Trial values live only inside the experiment that put them there.            *)

Clean(config) == \A g \in Groups : config[g] # Trial

(* An experiment puts back everything it starts by overwriting. *)
LEMMA RestoredFacts ==
  /\ \A e \in Experiments : applied[e] \subseteq restored[e]
  /\ restored["none"] = {} /\ applied["none"] = {} /\ applied["motor"] = {}
  /\ "electrical" \in restored["motor"] /\ "encoder" \in restored["alignment"]
  /\ \A e \in Experiments : restored[e] \subseteq Groups
BY DEF restored, applied, Experiments, Groups

(* What an experiment gives back is clean whichever way it ends. *)
LEMMA RestoredClean ==
  ASSUME DataOK, TrialEndsWithExperiment
  PROVE  Clean(Restored) /\ (exp = "none" => Clean(live))
<1>1. exp = "none" => Clean(live)
  BY RestoredFacts DEF TrialEndsWithExperiment, Clean
<1>2. Clean(Restored)
  <2> SUFFICES ASSUME NEW g \in Groups
               PROVE  Restored[g] # Trial
    BY DEF Clean
  <2>1. Restored[g] = IF g \in restored[exp] THEN saved.config[g] ELSE live[g]
    BY DEF Restored
  <2>2. CASE exp = "none"
    BY <2>1, <2>2, <1>1, RestoredFacts DEF Clean
  <2>3. CASE exp # "none"
    BY <2>1, <2>3 DEF TrialEndsWithExperiment
  <2> QED
    BY <2>2, <2>3
<1> QED
  BY <1>1, <1>2

(* An experiment that starts from a clean configuration satisfies the claim. *)
LEMMA BeginClean ==
  ASSUME NEW e \in Experiments, NEW config, NEW flag, Clean(config),
         Begin(e, config, flag)
  PROVE  TrialEndsWithExperiment'
<1>1. /\ exp' = e
      /\ saved' = IF e = "none" THEN NoSnapshot ELSE [config |-> config, calibrated |-> flag]
      /\ live' = [g \in Groups |-> IF g \in applied[e] THEN Trial ELSE config[g]]
  BY DEF Begin
<1>2. \A g \in Groups : live'[g] = Trial => g \in applied[e]
  BY <1>1 DEF Clean
<1>3. \A g \in Groups : live'[g] = Trial => g \in restored[e]
  BY <1>2, RestoredFacts
<1>4. e # "none" => saved'.config = config
  BY <1>1
<1> QED
  BY <1>1, <1>3, <1>4 DEF TrialEndsWithExperiment, Clean, restored

(* No step leaves a trial value behind. *)
LEMMA TrialStep ==
  ASSUME FlagsOK, DataOK, ThreadInv, TrialEndsWithExperiment, [Next]_vars
  PROVE  TrialEndsWithExperiment'
<1> USE DEF sessionVars, requestVars, chainVars, experimentVars, modelVars
<1>a. ASSUME exp' = "none", Clean(live)'
      PROVE  TrialEndsWithExperiment'
  BY <1>a DEF TrialEndsWithExperiment, Clean
<1>b. ASSUME exp' = exp, saved' = saved, live' = live
      PROVE  TrialEndsWithExperiment'
  BY <1>b DEF TrialEndsWithExperiment, restored
<1>1. CASE LoadChain \/ DispatchMotion \/ OffsetArm \/ OffsetLock \/ SegmentStart
             \/ SpinArm \/ SegmentEnds \/ PauseEnds \/ LoopArm \/ DriveEnds \/ RampDownEnds
  <2>1. exp' = exp /\ saved' = saved /\ live' = live
    BY <1>1 DEF LoadChain, DispatchMotion, OffsetArm, OffsetLock, SegmentStart, SpinArm,
       SegmentEnds, PauseEnds, LoopArm, DriveEnds, RampDownEnds, ScanFails
  <2> QED
    BY <2>1, <1>b
<1>2. CASE SetAxisState \/ SetPrecalibrated \/ SaveConfiguration \/ StartSession
             \/ AbortSession \/ ControlLoopDisarms
  <2>1. exp' = exp /\ saved' = saved /\ live' = live
    BY <1>2 DEF SetAxisState, SetPrecalibrated, SaveConfiguration, StartSession,
       AbortSession, ControlLoopDisarms
  <2> QED
    BY <2>1, <1>b
<1>3. CASE DispatchIdle \/ FaultRead \/ IdleWakes \/ DispatchInvalid \/ ClosedLoopEnds
             \/ LockinEnds
             \/ Validate
  <2>1. exp = "none" /\ exp' = "none" /\ live' = live
    BY <1>3, FinishFacts DEF DispatchIdle, FaultRead, IdleWakes, DispatchInvalid,
       ClosedLoopEnds,
       LockinEnds, Validate, ThreadInv, ExperimentsAt
  <2> QED
    BY <2>1, <1>a, RestoredClean DEF Clean
<1>4. CASE DispatchMotorCalibration
  <2>1. exp = "none"
    BY <1>4 DEF DispatchMotorCalibration, ThreadInv, ExperimentsAt
  <2>2. PICK e \in {"motor", "none"} : Begin(e, live, calibrated)
    BY <1>4 DEF DispatchMotorCalibration
  <2>3. e \in Experiments
    BY DEF Experiments
  <2> QED
    BY <2>1, <2>2, <2>3, RestoredClean, BeginClean
<1>5. CASE DispatchOffsetCalibration
  <2>1. exp = "none"
    BY <1>5 DEF DispatchOffsetCalibration, ThreadInv, ExperimentsAt
  <2>2. PICK e \in {"offset", "none"} : Begin(e, live, calibrated)
    BY <1>5 DEF DispatchOffsetCalibration
  <2>3. e \in Experiments
    BY DEF Experiments
  <2> QED
    BY <2>1, <2>2, <2>3, RestoredClean, BeginClean
<1>6. CASE MeasureResistance \/ MeasureInductance
  <2>1. /\ exp \in {"none", "motor"} /\ exp' = exp /\ saved' = saved
        /\ live' = Written("electrical")
    BY <1>6 DEF MeasureResistance, MeasureInductance, ThreadInv, ExperimentsAt
  <2> QED
    BY <2>1, RestoredFacts DEF TrialEndsWithExperiment, Written, restored, DataOK, Configs,
       Trial, User
<1>7. CASE OffsetForward \/ OffsetBackward
  <2>1. /\ exp \in {"none", "alignment"} /\ exp' = exp /\ saved' = saved
        /\ live' = Written("encoder") \/ live' = live
    BY <1>7 DEF OffsetForward, OffsetBackward, OffsetFails, ThreadInv, ExperimentsAt
  <2>2. CASE live' = live
    BY <2>1, <2>2, <1>b
  <2>3. CASE live' = Written("encoder")
    BY <2>1, <2>3, RestoredFacts DEF TrialEndsWithExperiment, Written, restored, DataOK,
       Configs, Trial, User
  <2> QED
    BY <2>1, <2>2, <2>3
<1>8. ASSUME NEW e \in Experiments,
             (GiveBack /\ exp' = "none") \/ Begin(e, Restored, RestoredFlag)
      PROVE  TrialEndsWithExperiment'
  BY <1>8, <1>a, RestoredClean, BeginClean DEF GiveBack, Clean
<1>9. "alignment" \in Experiments /\ "geometry" \in Experiments
      /\ "mechanical" \in Experiments /\ "delay" \in Experiments
  BY DEF Experiments
<1>10. CASE MotorReturned
  <2>1. \/ GiveBack /\ exp' = "none"
        \/ Begin("alignment", Restored, RestoredFlag)
        \/ exp = "none" /\ exp' = "none" /\ live' = live
    BY <1>10, FinishFacts DEF MotorReturned
  <2> QED
    BY <2>1, <1>8, <1>9, <1>a, RestoredClean DEF Clean
<1>11. CASE OffsetReturned
  <2>1. \/ GiveBack /\ exp' = "none"
        \/ exp = "none" /\ exp' = "none" /\ live' = live
    BY <1>11, FinishFacts DEF OffsetReturned
  <2> QED
    BY <2>1, <1>8, <1>9, <1>a, RestoredClean DEF Clean
<1>12. CASE AlignmentEnds
  <2>1. \/ GiveBack /\ exp' = "none"
        \/ Begin("geometry", Restored, RestoredFlag)
    BY <1>12, FinishFacts DEF AlignmentEnds
  <2> QED
    BY <2>1, <1>8, <1>9
<1>13. CASE GeometryEnds
  <2>1. \/ GiveBack /\ exp' = "none"
        \/ Begin("mechanical", Restored, RestoredFlag)
    BY <1>13, FinishFacts DEF GeometryEnds
  <2> QED
    BY <2>1, <1>8, <1>9
<1>14. CASE MechanicalEnds
  <2>1. \/ GiveBack /\ exp' = "none"
        \/ Begin("delay", Restored, RestoredFlag)
    BY <1>14, FinishFacts DEF MechanicalEnds
  <2> QED
    BY <2>1, <1>8, <1>9
<1>15. CASE DelayEnds
  <2>1. GiveBack /\ exp' = "none"
    BY <1>15, FinishFacts DEF DelayEnds
  <2> QED
    BY <2>1, <1>8, <1>9
<1>16. CASE Commit
  <2>1. exp = "none" /\ exp' = "none" /\ (live' = live \/ live' = Candidate)
    BY <1>16, FinishFacts DEF Commit, ThreadInv, ExperimentsAt
  <2>2. session.id # Trial
    BY DEF DataOK, Sessions, Trial
  <2>3. Clean(live) /\ Clean(Candidate)
    BY <2>1, <2>2, RestoredClean DEF Clean, Candidate
  <2> QED
    BY <2>1, <2>3, <1>a DEF Clean
<1>17. CASE EditConfig
  BY <1>17 DEF EditConfig, TrialEndsWithExperiment, restored, DataOK, Configs, Trial, User
<1>18. CASE UNCHANGED vars
  BY <1>18, <1>b DEF vars
<1> QED
  BY <1>1, <1>2, <1>3, <1>4, <1>5, <1>6, <1>7, <1>10, <1>11, <1>12, <1>13, <1>14, <1>15,
     <1>16, <1>17, <1>18 DEF Next, AxisStep, HostStep
------------------------------------------------------------------------------------
(* What a step does to the experiment under way: it ends, goes on with one      *)
(* value written at most, or hands over to an experiment; one that starts from  *)
(* rest belongs to an active session.                                           *)
Ends == exp' = "none"
GoesOn ==
  /\ exp' = exp /\ saved' = saved
  /\ \/ live' = live
     \/ \E g \in Groups : live' = Written(g) \/ live' = [live EXCEPT ![g] = User]
Starts ==
  /\ exp = "none" => isActive /\ session' = session
  /\ \E e \in Experiments : \/ Begin(e, live, calibrated)
                           \/ Begin(e, Restored, RestoredFlag)

LEMMA ExperimentStep ==
  ASSUME DataOK, ThreadInv, [Next]_vars
  PROVE  Ends \/ GoesOn \/ Starts
<1> USE DEF sessionVars, requestVars, chainVars, experimentVars, modelVars
<1>1. CASE \/ LoadChain \/ DispatchMotion \/ OffsetArm \/ OffsetLock \/ SegmentStart
           \/ SpinArm \/ SegmentEnds \/ PauseEnds \/ LoopArm \/ DriveEnds \/ RampDownEnds
           \/ SetAxisState \/ SetPrecalibrated \/ SaveConfiguration \/ StartSession
           \/ AbortSession \/ ControlLoopDisarms \/ DispatchIdle
  <2>1. exp' = exp /\ saved' = saved /\ live' = live
    BY <1>1 DEF LoadChain, DispatchMotion, OffsetArm, OffsetLock, OffsetFails, SegmentStart,
       SpinArm, SegmentEnds, PauseEnds, LoopArm, DriveEnds, RampDownEnds, ScanFails,
       SetAxisState, SetPrecalibrated, SaveConfiguration, StartSession, AbortSession,
       ControlLoopDisarms, DispatchIdle
  <2> QED
    BY <2>1 DEF GoesOn
<1>2. CASE FaultRead \/ IdleWakes \/ DispatchInvalid \/ ClosedLoopEnds
             \/ LockinEnds
           \/ Validate \/ Commit \/ OffsetReturned
  <2>1. exp' = "none" \/ (exp' = exp /\ saved' = saved /\ live' = live)
    BY <1>2, FinishFacts DEF FaultRead, IdleWakes, DispatchInvalid,
       ClosedLoopEnds,
       LockinEnds, Validate, Commit, OffsetReturned
  <2> QED
    BY <2>1 DEF Ends, GoesOn
<1>3. CASE DispatchMotorCalibration
  <2> DEFINE owned == isActive /\ session.stage = "ELECTRICAL_CAPTURE"
  <2>1. Begin(IF owned THEN "motor" ELSE "none", live, calibrated) /\ session' = session
    BY <1>3 DEF DispatchMotorCalibration
  <2>2. exp' = IF owned THEN "motor" ELSE "none"
    BY <2>1, BeginExperiment
  <2>3. "motor" \in Experiments
    BY DEF Experiments
  <2> QED
    BY <2>1, <2>2, <2>3 DEF Ends, Starts
<1>4. CASE DispatchOffsetCalibration
  <2> DEFINE owned == isActive /\ session.stage = "ENCODER_GEOMETRY"
  <2>1. Begin(IF owned THEN "offset" ELSE "none", live, calibrated) /\ session' = session
    BY <1>4 DEF DispatchOffsetCalibration
  <2>2. exp' = IF owned THEN "offset" ELSE "none"
    BY <2>1, BeginExperiment
  <2>3. "offset" \in Experiments
    BY DEF Experiments
  <2> QED
    BY <2>1, <2>2, <2>3 DEF Ends, Starts
<1>5. CASE MeasureResistance \/ MeasureInductance \/ OffsetForward \/ OffsetBackward
  <2>1. /\ exp' = exp /\ saved' = saved
        /\ live' = live \/ live' = Written("electrical") \/ live' = Written("encoder")
    BY <1>5 DEF MeasureResistance, MeasureInductance, OffsetForward, OffsetBackward,
       OffsetFails
  <2>2. "electrical" \in Groups /\ "encoder" \in Groups
    BY DEF Groups
  <2> QED
    BY <2>1, <2>2 DEF GoesOn
<1>6. CASE MotorReturned \/ AlignmentEnds \/ GeometryEnds \/ MechanicalEnds \/ DelayEnds
  <2>1. \/ exp' = "none"
        \/ exp # "none" /\ \E e \in {"alignment", "geometry", "mechanical", "delay"} :
                              Begin(e, Restored, RestoredFlag)
    BY <1>6, FinishFacts DEF MotorReturned, AlignmentEnds, GeometryEnds, MechanicalEnds,
       DelayEnds, ThreadInv, ExperimentsAt
  <2>2. {"alignment", "geometry", "mechanical", "delay"} \subseteq Experiments
    BY DEF Experiments
  <2> QED
    BY <2>1, <2>2 DEF Ends, Starts
<1>7. CASE EditConfig
  <2>1. /\ exp' = exp /\ saved' = saved
        /\ \E g \in EditableGroups : live' = [live EXCEPT ![g] = User]
    BY <1>7 DEF EditConfig
  <2> QED
    BY <2>1, ConstantTypes DEF GoesOn
<1>8. CASE UNCHANGED vars
  BY <1>8 DEF vars, GoesOn
<1> QED
  BY <1>1, <1>2, <1>3, <1>4, <1>5, <1>6, <1>7, <1>8 DEF Next, AxisStep, HostStep

(* A value that will be put back is overwritten only by trial and by the user.  *)
LEMMA TriedStep ==
  ASSUME FlagsOK, DataOK, ThreadInv, TriedInv, [Next]_vars
  PROVE  TriedInv'
<1>1. CASE Ends
  BY <1>1 DEF Ends, TriedInv
<1>2. CASE GoesOn
  <2> SUFFICES ASSUME exp' # "none", NEW g \in Groups, g \in restored[exp']
               PROVE  live'[g] \in {saved'.config[g], User, Trial}
    BY <1>2, RestoredFacts DEF TriedInv, GoesOn, DataOK
  <2>1. /\ exp' = exp /\ saved' = saved
        /\ live[g] \in {saved.config[g], User, Trial}
    BY <1>2 DEF GoesOn, TriedInv
  <2>2. live'[g] \in {live[g], User, Trial}
    BY <1>2 DEF GoesOn, Written, DataOK, Configs
  <2> QED
    BY <2>1, <2>2
<1>3. CASE Starts
  <2>1. PICK e \in Experiments, config \in {live, Restored}, flag \in BOOLEAN :
          Begin(e, config, flag)
    BY <1>3, ConfigTypes DEF Starts, FlagsOK
  <2>2. config \in Configs
    BY <2>1, ConfigTypes DEF DataOK
  <2>3. /\ exp' = e /\ (e # "none" => saved'.config = config)
        /\ live' = [g \in Groups |-> IF g \in applied[e] THEN Trial ELSE config[g]]
    BY <2>1 DEF Begin
  <2>4. \A g \in Groups : live'[g] \in {config[g], Trial}
    BY <2>3
  <2> QED
    BY <2>1, <2>3, <2>4, RestoredFacts DEF TriedInv
<1> QED
  BY <1>1, <1>2, <1>3, ExperimentStep

------------------------------------------------------------------------------------
(* Where values come from: only a commit brings in the session's own.           *)

Known(g) == {live[g], stored[g], saved.config[g], User, Trial}

(* Restoring and measuring bring in no new origin. *)
LEMMA RestoredKnown ==
  ASSUME DataOK, NEW g \in Groups
  PROVE  /\ Restored[g] \in Known(g)
         /\ \A h \in Groups : Written(h)[g] \in Known(g)
         /\ NoSnapshot.config[g] \in Known(g)
BY DEF DataOK, Configs, Known, Restored, Written, NoSnapshot, UserConfig

(* Nor does starting an experiment. *)
LEMMA BeginKnown ==
  ASSUME DataOK, NEW g \in Groups, NEW e \in Experiments, NEW config, NEW flag,
         config[g] \in Known(g), Begin(e, config, flag)
  PROVE  live'[g] \in Known(g) /\ saved'.config[g] \in Known(g)
<1>1. /\ saved' = IF e = "none" THEN NoSnapshot ELSE [config |-> config, calibrated |-> flag]
      /\ live' = [h \in Groups |-> IF h \in applied[e] THEN Trial ELSE config[h]]
  BY DEF Begin
<1>2. NoSnapshot.config[g] \in Known(g)
  BY RestoredKnown
<1>3. live'[g] \in {Trial, config[g]}
  BY <1>1
<1>4. saved'.config[g] \in {NoSnapshot.config[g], config[g]}
  BY <1>1
<1> QED
  BY <1>2, <1>3, <1>4 DEF Known

(* Every step but a commit only moves values the system already has. *)
LEMMA ValueStep ==
  ASSUME DataOK, [Next]_vars, NEW g \in Groups
  PROVE  \/ /\ live'[g] \in Known(g) /\ stored'[g] \in Known(g)
            /\ saved'.config[g] \in Known(g)
         \/ Commit /\ live' = Candidate /\ stored' = Candidate
<1> USE DEF sessionVars, requestVars, chainVars, experimentVars, modelVars
<1> DEFINE Goal == /\ live'[g] \in Known(g) /\ stored'[g] \in Known(g)
                   /\ saved'.config[g] \in Known(g)
<1>a. live[g] \in Known(g) /\ stored[g] \in Known(g) /\ saved.config[g] \in Known(g)
  BY DEF Known
<1>b. NoSnapshot.config[g] \in Known(g)
  BY RestoredKnown
<1>1. CASE LoadChain \/ DispatchMotion \/ OffsetArm \/ OffsetLock \/ SegmentStart
             \/ SpinArm \/ SegmentEnds \/ PauseEnds \/ LoopArm \/ DriveEnds \/ RampDownEnds
  <2>1. saved' = saved /\ live' = live /\ stored' = stored
    BY <1>1 DEF LoadChain, DispatchMotion, OffsetArm, OffsetLock, OffsetFails, SegmentStart,
       SpinArm, SegmentEnds, PauseEnds, LoopArm, DriveEnds, RampDownEnds, ScanFails
  <2> QED
    BY <2>1, <1>a
<1>2. CASE SetAxisState \/ SetPrecalibrated \/ SaveConfiguration \/ StartSession
             \/ AbortSession \/ ControlLoopDisarms
  <2>1. saved' = saved /\ live' = live /\ (stored' = stored \/ stored' = live)
    BY <1>2 DEF SetAxisState, SetPrecalibrated, SaveConfiguration, StartSession,
       AbortSession, ControlLoopDisarms
  <2> QED
    BY <2>1, <1>a
<1>3. CASE DispatchIdle \/ FaultRead \/ IdleWakes \/ DispatchInvalid \/ ClosedLoopEnds
             \/ LockinEnds
             \/ Validate
  <2>1. live' = live /\ stored' = stored /\ (saved' = saved \/ saved' = NoSnapshot)
    BY <1>3, FinishFacts DEF DispatchIdle, FaultRead, IdleWakes, DispatchInvalid,
       ClosedLoopEnds,
       LockinEnds, Validate
  <2> QED
    BY <2>1, <1>a, <1>b
<1>4. CASE DispatchMotorCalibration \/ DispatchOffsetCalibration
  <2>1. stored' = stored
    BY <1>4 DEF DispatchMotorCalibration, DispatchOffsetCalibration
  <2>2. PICK e \in {"motor", "offset", "none"} : Begin(e, live, calibrated)
    BY <1>4 DEF DispatchMotorCalibration, DispatchOffsetCalibration
  <2>3. e \in Experiments
    BY DEF Experiments
  <2> QED
    BY <2>1, <2>2, <2>3, <1>a, BeginKnown
<1>5. CASE MeasureResistance \/ MeasureInductance \/ OffsetForward \/ OffsetBackward
  <2>1. saved' = saved /\ stored' = stored
    BY <1>5 DEF MeasureResistance, MeasureInductance, OffsetForward, OffsetBackward
  <2>2. live' = live \/ live' = Written("electrical") \/ live' = Written("encoder")
    BY <1>5 DEF MeasureResistance, MeasureInductance, OffsetForward, OffsetBackward
  <2>3. "electrical" \in Groups /\ "encoder" \in Groups
    BY DEF Groups
  <2> QED
    BY <2>1, <2>2, <2>3, <1>a, RestoredKnown
<1>6. ASSUME NEW e \in Experiments, stored' = stored,
             \/ live' \in {live, Restored} /\ saved' \in {saved, NoSnapshot}
             \/ Begin(e, Restored, RestoredFlag)
      PROVE  Goal
  BY <1>6, <1>a, <1>b, RestoredKnown, BeginKnown
<1>7. "alignment" \in Experiments /\ "geometry" \in Experiments
      /\ "mechanical" \in Experiments /\ "delay" \in Experiments
  BY DEF Experiments
<1>8. CASE MotorReturned
  <2>1. \/ live' \in {live, Restored} /\ saved' \in {saved, NoSnapshot}
        \/ Begin("alignment", Restored, RestoredFlag)
    BY <1>8, FinishFacts DEF MotorReturned, GiveBack
  <2> QED
    BY <1>8, <2>1, <1>6, <1>7 DEF MotorReturned
<1>9. CASE OffsetReturned
  <2>1. live' \in {live, Restored} /\ saved' \in {saved, NoSnapshot}
    BY <1>9, FinishFacts DEF OffsetReturned, GiveBack
  <2> QED
    BY <1>9, <2>1, <1>6, <1>7 DEF OffsetReturned
<1>10. CASE AlignmentEnds
  <2>1. \/ live' \in {live, Restored} /\ saved' \in {saved, NoSnapshot}
        \/ Begin("geometry", Restored, RestoredFlag)
    BY <1>10, FinishFacts DEF AlignmentEnds, GiveBack
  <2> QED
    BY <1>10, <2>1, <1>6, <1>7 DEF AlignmentEnds
<1>11. CASE GeometryEnds
  <2>1. \/ live' \in {live, Restored} /\ saved' \in {saved, NoSnapshot}
        \/ Begin("mechanical", Restored, RestoredFlag)
    BY <1>11, FinishFacts DEF GeometryEnds, GiveBack
  <2> QED
    BY <1>11, <2>1, <1>6, <1>7 DEF GeometryEnds
<1>12. CASE MechanicalEnds
  <2>1. \/ live' \in {live, Restored} /\ saved' \in {saved, NoSnapshot}
        \/ Begin("delay", Restored, RestoredFlag)
    BY <1>12, FinishFacts DEF MechanicalEnds, GiveBack
  <2> QED
    BY <1>12, <2>1, <1>6, <1>7 DEF MechanicalEnds
<1>13. CASE DelayEnds
  <2>1. live' \in {live, Restored} /\ saved' \in {saved, NoSnapshot}
    BY <1>13, FinishFacts DEF DelayEnds, GiveBack
  <2> QED
    BY <1>13, <2>1, <1>6, <1>7 DEF DelayEnds
<1>14. CASE Commit
  <2>1. \/ live' = Candidate /\ stored' = Candidate
        \/ live' = live /\ stored' = stored /\ saved' = NoSnapshot
    BY <1>14, FinishFacts DEF Commit
  <2> QED
    BY <1>14, <2>1, <1>a, <1>b
<1>15. CASE EditConfig
  <2>1. /\ saved' = saved /\ stored' = stored
        /\ \E h \in EditableGroups : live' = [live EXCEPT ![h] = User]
    BY <1>15 DEF EditConfig
  <2>2. live'[g] \in {live[g], User}
    BY <2>1 DEF DataOK, Configs
  <2> QED
    BY <2>1, <2>2, <1>a DEF Known
<1>16. CASE UNCHANGED vars
  <2>1. saved' = saved /\ live' = live /\ stored' = stored
    BY <1>16 DEF vars
  <2> QED
    BY <2>1, <1>a
<1> QED
  BY <1>1, <1>2, <1>3, <1>4, <1>5, <1>8, <1>9, <1>10, <1>11, <1>12, <1>13, <1>14, <1>15,
     <1>16 DEF Next, AxisStep, HostStep

(* A commit either takes the whole candidate or changes no value at all. *)
LEMMA CommitFacts ==
  ASSUME DataOK, SessionAgrees, Commit
  PROVE  /\ session.state = "STAGED" /\ session'.id = session.id /\ saved' = NoSnapshot
         /\ \/ session'.state = "COMMITTED" /\ live' = Candidate /\ stored' = Candidate
            \/ session'.state = "FAILED" /\ live' = live /\ stored' = stored
<1> USE DEF modelVars
<1>1. /\ session.state = "STAGED" /\ session \in Sessions /\ active(session)
      /\ "COMMITTED" \in States /\ "STORAGE" \in FailureCodes
  BY DEF Commit, SessionAgrees, SessionInv, Committing, DataOK, States, TerminalStates,
     FailureCodes, isActive, active, ActiveStates
<1>2. saved' = NoSnapshot
  BY FinishFacts DEF Commit
<1>3. /\ transition(session, "COMMITTED").state = "COMMITTED"
      /\ transition(session, "COMMITTED").id = session.id
  BY <1>1, ForwardFacts, TransitionFacts
<1>4. fail(session, "STORAGE").state = "FAILED" /\ fail(session, "STORAGE").id = session.id
  BY <1>1, FailFacts
<1>5. \/ /\ session' = transition(session, "COMMITTED")
         /\ live' = Candidate /\ stored' = Candidate
      \/ session' = fail(session, "STORAGE") /\ live' = live /\ stored' = stored
  BY DEF Commit
<1> QED
  BY <1>1, <1>2, <1>3, <1>4, <1>5

(* No group outruns the sessions started, and none belongs to one that has not  *)
(* committed.                                                                   *)
LEMMA OriginStep ==
  ASSUME DataOK, DataOK', SessionAgrees, ThreadInv, OriginInv, [Next]_vars
  PROVE  OriginInv'
<1> SUFFICES ASSUME NEW g \in Groups
             PROVE  /\ live'[g] <= session'.id /\ stored'[g] <= session'.id
                    /\ saved'.config[g] <= session'.id
                    /\ session'.id > 0 /\ session'.state # "COMMITTED" =>
                         session'.id \notin {live'[g], stored'[g], saved'.config[g]}
  BY DEF OriginInv
<1>1. /\ live[g] \in Int /\ stored[g] \in Int /\ saved.config[g] \in Int
      /\ session.id \in Nat
  BY ConstantTypes DEF DataOK, Configs, Origins, User, Trial, Sessions
<1>2. /\ live[g] <= session.id /\ stored[g] <= session.id /\ saved.config[g] <= session.id
      /\ session.id > 0 /\ session.state # "COMMITTED" =>
           session.id \notin {live[g], stored[g], saved.config[g]}
  BY DEF OriginInv
<1>3. \A v \in Known(g) :
        /\ v \in Int /\ v <= session.id
        /\ session.id > 0 /\ session.state # "COMMITTED" => v # session.id
  BY <1>1, <1>2 DEF Known, User, Trial
<1>4. CASE Commit /\ live' = Candidate /\ stored' = Candidate
  <2>1. /\ session'.id = session.id /\ saved' = NoSnapshot
        /\ session'.state = "COMMITTED" \/ (live' = live /\ stored' = stored)
        /\ session.state # "COMMITTED"
    BY <1>4, CommitFacts
  <2>2. live'[g] \in {live[g], session.id} /\ stored'[g] \in {live[g], session.id}
    BY <1>4 DEF Candidate
  <2>3. NoSnapshot.config[g] = 0
    BY DEF NoSnapshot, UserConfig, User
  <2> QED
    BY <1>1, <1>2, <2>1, <2>2, <2>3
<1>5. CASE /\ live'[g] \in Known(g) /\ stored'[g] \in Known(g)
           /\ saved'.config[g] \in Known(g)
  <2>1. CASE StartSession
    <3>1. session'.id = session.id + 1
      BY <2>1, BeginFacts, ConstantTypes DEF StartSession, DataOK
    <3> QED
      BY <1>1, <1>3, <1>5, <3>1
  <2>2. CASE Changed
    <3>1. session'.id = session.id
      BY <2>2 DEF Changed
    <3>2. session'.state # "COMMITTED" => session.state # "COMMITTED"
      BY <2>2 DEF Changed, isActive, active, ActiveStates
    <3> QED
      BY <1>3, <1>5, <3>1, <3>2
  <2>3. CASE Commit
    <3>1. session'.id = session.id /\ session.state # "COMMITTED"
      BY <2>3, CommitFacts
    <3> QED
      BY <1>3, <1>5, <3>1
  <2> QED
    BY <2>1, <2>2, <2>3, SessionChange
<1> QED
  BY <1>4, <1>5, ValueStep
------------------------------------------------------------------------------------
(* The invariant and what follows from it. *)

(* The power-up state satisfies the invariant. *)
LEMMA InitHolds == Init => IInv
<1> SUFFICES ASSUME Init
             PROVE  IInv
  OBVIOUS
<1> USE DEF Init
<1>1. FlagsOK
  BY DEF FlagsOK
<1>2. DataOK
  <2>1. session \in Sessions /\ session.id <= MaxSessions
    BY ConstantTypes DEF EmptySession, Sessions, States, Profiles, Stages, FailureCodes
  <2>2. chain \in Seq(AxisStates) /\ chain # <<>>
    BY DEF AxisStates
  <2>3. /\ live \in Configs /\ stored \in Configs
        /\ saved \in [config : Configs, calibrated : BOOLEAN]
    BY DEF UserConfig, Configs, Origins, NoSnapshot
  <2> QED
    BY <2>1, <2>2, <2>3, ConstantTypes
    DEF DataOK, Evidence, AxisStates, BlockingPoints, RunningPoints, Experiments
<1>3. exp = "none" /\ pc = "load" /\ session.state = "EMPTY" /\ session.id = 0
  BY DEF EmptySession
<1>4. ~isActive
  BY <1>3 DEF isActive, active, ActiveStates
<1>5. ThreadInv
  BY <1>3 DEF ThreadInv, ExperimentsAt, Committing
<1>6. SessionInv /\ StageMatchesThread /\ FailureNamesStage
  BY <1>3, <1>4 DEF SessionInv, StageMatchesThread, FailureNamesStage, Committing,
     FullExperiments
<1>7. OriginInv
  BY <1>3 DEF OriginInv, UserConfig, NoSnapshot, User
<1>8. PoweredOnlyWatched /\ CaptureIsOwned
  BY DEF PoweredOnlyWatched, CaptureIsOwned
<1>9. TrialEndsWithExperiment
  BY <1>3 DEF TrialEndsWithExperiment, UserConfig, NoSnapshot, User, Trial
<1>10. TriedInv
  BY <1>3 DEF TriedInv
<1> QED
  BY <1>1, <1>2, <1>5, <1>6, <1>7, <1>8, <1>9, <1>10, TypeParts DEF IInv

(* Every step preserves the invariant. *)
LEMMA StepHolds == IInv /\ [Next]_vars => IInv'
<1> SUFFICES ASSUME IInv, [Next]_vars
             PROVE  IInv'
  OBVIOUS
<1>1. /\ FlagsOK /\ DataOK /\ ThreadInv /\ SessionAgrees /\ OriginInv
      /\ PoweredOnlyWatched /\ CaptureIsOwned /\ TrialEndsWithExperiment
      /\ SessionInv /\ StageMatchesThread /\ TriedInv
  BY TypeParts DEF IInv, SessionAgrees
<1>2. FlagsOK' /\ DataOK'
  BY <1>1, FlagsStep, DataStep
<1>3. TypeOK'
  BY <1>2 DEF TypeOK, FlagsOK, DataOK
<1>4. ThreadInv'
  BY <1>1, ThreadStep
<1>5. SessionAgrees'
  BY <1>1, SessionStep
<1>6. OriginInv'
  BY <1>1, <1>2, OriginStep
<1>7. PoweredOnlyWatched'
  BY <1>1, PoweredStep
<1>8. CaptureIsOwned'
  BY <1>1, CaptureStep
<1>9. TrialEndsWithExperiment'
  BY <1>1, TrialStep
<1>10. TriedInv'
  BY <1>1, TriedStep
<1> QED
  BY <1>3, <1>4, <1>5, <1>6, <1>7, <1>8, <1>9, <1>10 DEF IInv, SessionAgrees

(* The inductive invariant holds in every reachable state. *)
THEOREM InvariantHolds == Spec => []IInv
<1>1. Init => IInv
  BY InitHolds
<1>2. IInv /\ [Next]_vars => IInv'
  BY StepHolds
<1> QED
  BY <1>1, <1>2, PTL DEF Spec

(* Every variable stays in its range; in particular the axis thread is only     *)
(* ever blocked at a blocking point and the task chain never runs empty.        *)
THEOREM TypeCorrect == Spec => []TypeOK
<1>1. IInv => TypeOK
  BY DEF IInv
<1> QED
  BY <1>1, InvariantHolds, PTL

(* The motor carries current only inside the loops of the control handlers that *)
(* watch it: whatever the host asks and wherever the interrupt strikes.         *)
THEOREM PoweredSafety == Spec => []PoweredOnlyWatched
<1>1. IInv => PoweredOnlyWatched
  BY DEF IInv
<1> QED
  BY <1>1, InvariantHolds, PTL

(* Samples are captured only for the motor measurement of an active session.    *)
THEOREM CaptureSafety == Spec => []CaptureIsOwned
<1>1. IInv => CaptureIsOwned
  BY DEF IInv
<1> QED
  BY <1>1, InvariantHolds, PTL

(* Every path out of every experiment puts back the parameters it tried out.    *)
THEOREM TrialSafety == Spec => []TrialEndsWithExperiment
<1>1. IInv => TrialEndsWithExperiment
  BY DEF IInv
<1> QED
  BY <1>1, InvariantHolds, PTL

(* The stage and the failure code reported to the host are those of the         *)
(* experiment the axis thread runs, or was running when the session failed.     *)
THEOREM StageSafety == Spec => []SessionTellsTruth
<1>1. IInv => SessionTellsTruth
  BY DEF IInv, SessionTellsTruth
<1> QED
  BY <1>1, InvariantHolds, PTL

(* A session that has not committed left no value in RAM or flash.              *)
THEOREM OnlyCommittedSafety == Spec => []OnlyCommittedSurvives
<1>1. IInv => OnlyCommittedSurvives
  BY DEF IInv, OriginInv, OnlyCommittedSurvives
<1> QED
  BY <1>1, InvariantHolds, PTL

------------------------------------------------------------------------------------
(* The pipeline implements the contract. *)

(* With no experiment running, the model in force is the configuration itself.  *)
LEMMA RestoredAtRest ==
  ASSUME DataOK, exp = "none"
  PROVE  Restored = live
BY RestoredFacts DEF DataOK, Configs, Restored

(* Giving back, or handing on to the next experiment, changes no value in force. *)
LEMMA GiveBackKeeps ==
  ASSUME exp' = "none", live' = Restored
  PROVE  Restored' = Restored
<1>1. Restored' = [g \in Groups |-> IF g \in restored[exp'] THEN saved'.config[g]
                                                           ELSE live'[g]]
  BY DEF Restored
<1>2. Restored' = [g \in Groups |-> Restored[g]]
  BY <1>1, RestoredFacts
<1> QED
  BY <1>2 DEF Restored

(* Starting an experiment changes no value in force either. *)
LEMMA BeginKeeps ==
  ASSUME NEW e \in Experiments, NEW config \in Configs, NEW flag, Begin(e, config, flag)
  PROVE  Restored' = config
<1>1. Restored' = [g \in Groups |-> IF g \in restored[exp'] THEN saved'.config[g]
                                                           ELSE live'[g]]
  BY DEF Restored
<1>2. /\ exp' = e /\ (e # "none" => saved'.config = config)
      /\ live' = [g \in Groups |-> IF g \in applied[e] THEN Trial ELSE config[g]]
  BY DEF Begin
<1>3. \A g \in Groups : Restored'[g] = config[g]
  <2> SUFFICES ASSUME NEW g \in Groups
               PROVE  Restored'[g] = config[g]
    OBVIOUS
  <2>1. CASE g \in restored[e]
    BY <1>1, <1>2, <2>1, RestoredFacts
  <2>2. CASE g \notin restored[e]
    BY <1>1, <1>2, <2>2, RestoredFacts
  <2> QED
    BY <2>1, <2>2
<1> QED
  BY <1>1, <1>3 DEF Configs

(* Every step leaves the model in force alone, or is the user's, or a commit.   *)
ModelKept == Restored' = Restored /\ stored' = stored
UserSets == /\ session' = session /\ stored' = stored /\ exp' = exp
            /\ \E g \in Groups : Restored' = [Restored EXCEPT ![g] = User]
UserSaves ==
  /\ session' = session /\ exp' = exp /\ Restored' = Restored
  /\ stored' = Restored \/ (exp # "none" /\ Contract!Mixed(stored'))

(* One of the four is what a step does. *)
LEMMA ModelStep ==
  ASSUME FlagsOK, DataOK, ThreadInv, TriedInv, [Next]_vars
  PROVE  ModelKept \/ UserSets \/ UserSaves \/ Commit
<1> USE DEF sessionVars, requestVars, chainVars, experimentVars, modelVars
<1>a. ASSUME exp' = exp, saved' = saved, live' = live, stored' = stored
      PROVE  ModelKept
  BY <1>a DEF ModelKept, Restored
<1>b. ASSUME exp = "none", exp' = "none", live' = live, stored' = stored
      PROVE  ModelKept
  BY <1>b, RestoredAtRest, GiveBackKeeps DEF ModelKept
<1>c. Restored \in Configs /\ live \in Configs
  BY ConfigTypes DEF DataOK
<1>1. CASE LoadChain \/ DispatchMotion \/ OffsetArm \/ OffsetLock \/ SegmentStart
             \/ SpinArm \/ SegmentEnds \/ PauseEnds \/ LoopArm \/ DriveEnds \/ RampDownEnds
  <2>1. exp' = exp /\ saved' = saved /\ live' = live /\ stored' = stored
    BY <1>1 DEF LoadChain, DispatchMotion, OffsetArm, OffsetLock, OffsetFails, SegmentStart,
       SpinArm, SegmentEnds, PauseEnds, LoopArm, DriveEnds, RampDownEnds, ScanFails
  <2> QED
    BY <2>1, <1>a
<1>2. CASE SetAxisState \/ SetPrecalibrated \/ StartSession \/ AbortSession
             \/ ControlLoopDisarms
  <2>1. exp' = exp /\ saved' = saved /\ live' = live /\ stored' = stored
    BY <1>2 DEF SetAxisState, SetPrecalibrated, StartSession, AbortSession,
       ControlLoopDisarms
  <2> QED
    BY <2>1, <1>a
<1>3. CASE DispatchIdle \/ FaultRead \/ IdleWakes \/ DispatchInvalid \/ ClosedLoopEnds
             \/ LockinEnds
             \/ Validate
  <2>1. exp = "none" /\ exp' = "none" /\ live' = live /\ stored' = stored
    BY <1>3, FinishFacts DEF DispatchIdle, FaultRead, IdleWakes, DispatchInvalid,
       ClosedLoopEnds,
       LockinEnds, Validate, ThreadInv, ExperimentsAt
  <2> QED
    BY <2>1, <1>b
<1>4. CASE DispatchMotorCalibration \/ DispatchOffsetCalibration
  <2>1. stored' = stored /\ exp = "none"
    BY <1>4 DEF DispatchMotorCalibration, DispatchOffsetCalibration, ThreadInv,
       ExperimentsAt
  <2>2. PICK e \in {"motor", "offset", "none"} : Begin(e, live, calibrated)
    BY <1>4 DEF DispatchMotorCalibration, DispatchOffsetCalibration
  <2>3. e \in Experiments
    BY DEF Experiments
  <2> QED
    BY <2>1, <2>2, <2>3, <1>c, BeginKeeps, RestoredAtRest DEF ModelKept
<1>5. ASSUME NEW g \in {"electrical", "encoder"}, exp = "none" \/ g \in restored[exp],
             exp' = exp, saved' = saved, stored' = stored, session' = session,
             live' = Written(g)
      PROVE  ModelKept \/ UserSets
  <2>1. g \in Groups
    BY DEF Groups
  <2>2. CASE exp = "none"
    <3>1. live' = [live EXCEPT ![g] = User]
      BY <1>5, <2>2 DEF Written
    <3>2. Restored = live
      BY <2>2, RestoredAtRest
    <3>3. Restored' = [h \in Groups |-> live'[h]]
      BY <1>5, <2>2, RestoredFacts DEF Restored
    <3>4. Restored' = [Restored EXCEPT ![g] = User]
      BY <1>c, <3>1, <3>2, <3>3 DEF Configs
    <3> QED
      BY <1>5, <2>1, <3>4 DEF UserSets
  <2>3. CASE exp # "none"
    <3>1. live' = [live EXCEPT ![g] = Trial]
      BY <1>5, <2>3 DEF Written
    <3>2. \A h \in Groups \ {g} : live'[h] = live[h]
      BY <1>c, <3>1 DEF Configs
    <3>3. Restored' = Restored
      BY <1>5, <2>3, <3>2 DEF Restored
    <3> QED
      BY <1>5, <3>3 DEF ModelKept
  <2> QED
    BY <2>2, <2>3
<1>6. CASE MeasureResistance \/ MeasureInductance
  <2>1. /\ exp \in {"none", "motor"} /\ exp' = exp /\ saved' = saved /\ stored' = stored
        /\ session' = session /\ live' = Written("electrical")
    BY <1>6 DEF MeasureResistance, MeasureInductance, ThreadInv, ExperimentsAt
  <2> QED
    BY <2>1, <1>5, RestoredFacts
<1>7. CASE OffsetForward \/ OffsetBackward
  <2>1. /\ exp \in {"none", "alignment"} /\ exp' = exp /\ saved' = saved
        /\ stored' = stored /\ session' = session
        /\ live' = Written("encoder") \/ live' = live
    BY <1>7 DEF OffsetForward, OffsetBackward, OffsetFails, ThreadInv, ExperimentsAt
  <2> QED
    BY <2>1, <1>a, <1>5, RestoredFacts
<1>8. ASSUME NEW e \in Experiments, stored' = stored,
             (live' = Restored /\ exp' = "none") \/ Begin(e, Restored, RestoredFlag)
      PROVE  ModelKept
  BY <1>8, <1>c, GiveBackKeeps, BeginKeeps DEF ModelKept
<1>9. "alignment" \in Experiments /\ "geometry" \in Experiments
      /\ "mechanical" \in Experiments /\ "delay" \in Experiments
  BY DEF Experiments
<1>10. CASE MotorReturned \/ OffsetReturned
  <2>1. /\ stored' = stored
        /\ \/ live' = Restored /\ exp' = "none"
           \/ Begin("alignment", Restored, RestoredFlag)
           \/ exp = "none" /\ exp' = "none" /\ live' = live
    BY <1>10, FinishFacts DEF MotorReturned, OffsetReturned, GiveBack
  <2> QED
    BY <2>1, <1>8, <1>9, <1>b
<1>11. CASE AlignmentEnds
  <2>1. /\ stored' = stored
        /\ \/ live' = Restored /\ exp' = "none"
           \/ Begin("geometry", Restored, RestoredFlag)
    BY <1>11, FinishFacts DEF AlignmentEnds, GiveBack
  <2> QED
    BY <2>1, <1>8, <1>9
<1>12. CASE GeometryEnds
  <2>1. /\ stored' = stored
        /\ \/ live' = Restored /\ exp' = "none"
           \/ Begin("mechanical", Restored, RestoredFlag)
    BY <1>12, FinishFacts DEF GeometryEnds, GiveBack
  <2> QED
    BY <2>1, <1>8, <1>9
<1>13. CASE MechanicalEnds
  <2>1. /\ stored' = stored
        /\ \/ live' = Restored /\ exp' = "none"
           \/ Begin("delay", Restored, RestoredFlag)
    BY <1>13, FinishFacts DEF MechanicalEnds, GiveBack
  <2> QED
    BY <2>1, <1>8, <1>9
<1>14. CASE DelayEnds
  <2>1. stored' = stored /\ live' = Restored /\ exp' = "none"
    BY <1>14, FinishFacts DEF DelayEnds, GiveBack
  <2> QED
    BY <2>1, <1>8, <1>9
<1>15. CASE Commit
  BY <1>15
<1>16. CASE EditConfig
  <2>1. PICK g \in EditableGroups : live' = [live EXCEPT ![g] = User]
    BY <1>16 DEF EditConfig
  <2>2. g \in Groups
    BY ConstantTypes
  <2>3. exp' = exp /\ saved' = saved /\ stored' = stored /\ session' = session
    BY <1>16 DEF EditConfig
  <2>4. /\ live'[g] = User
        /\ \A h \in Groups \ {g} : live'[h] = live[h]
    BY <1>c, <2>1, <2>2 DEF Configs
  <2>5. CASE g \in restored[exp]
    <3>1. Restored' = Restored
      BY <2>3, <2>4, <2>5 DEF Restored
    <3> QED
      BY <2>3, <3>1 DEF ModelKept
  <2>6. CASE g \notin restored[exp]
    <3>1. Restored' = [h \in Groups |-> IF h = g THEN User ELSE Restored[h]]
      BY <2>2, <2>3, <2>4, <2>6 DEF Restored
    <3>2. Restored' = [Restored EXCEPT ![g] = User]
      BY <1>c, <3>1 DEF Configs
    <3> QED
      BY <2>2, <2>3, <3>2 DEF UserSets
  <2> QED
    BY <2>5, <2>6
<1>17. CASE SaveConfiguration
  <2>1. /\ exp' = exp /\ saved' = saved /\ live' = live /\ stored' = live
        /\ session' = session
    BY <1>17 DEF SaveConfiguration
  <2>2. Restored' = Restored
    BY <2>1 DEF Restored
  <2>3. CASE exp = "none"
    BY <2>1, <2>2, <2>3, RestoredAtRest DEF UserSaves
  <2>4. CASE exp # "none"
    <3>1. \A g \in Groups : live[g] \in {Restored[g], User, Trial}
      BY <2>4 DEF Restored, TriedInv
    <3>2. DOMAIN live = Groups
      BY <1>c DEF Configs
    <3>3. Contract!Mixed(live)
      BY <3>1, <3>2 DEF Contract!Mixed, Contract!User, Contract!Trial, User, Trial
    <3> QED
      BY <2>1, <2>2, <2>4, <3>3 DEF UserSaves
  <2> QED
    BY <2>3, <2>4
<1>18. CASE UNCHANGED vars
  BY <1>18, <1>a DEF vars
<1> QED
  BY <1>1, <1>2, <1>3, <1>4, <1>6, <1>7, <1>10, <1>11, <1>12, <1>13, <1>14, <1>15, <1>16,
     <1>17, <1>18 DEF Next, AxisStep, HostStep
(* A commit that succeeds takes the whole model; one that fails discards it.    *)
LEMMA CommitImplements ==
  ASSUME FlagsOK, DataOK, ThreadInv, SessionAgrees, Commit
  PROVE  Contract!Next
<1> USE DEF sessionVars, modelVars
<1>1. /\ session.state = "STAGED" /\ session'.id = session.id
      /\ \/ session'.state = "COMMITTED" /\ live' = Candidate /\ stored' = Candidate
         \/ session'.state = "FAILED" /\ live' = live /\ stored' = stored
  BY CommitFacts
<1>2. exp = "none" /\ exp' = "none"
  BY FinishFacts DEF Commit, ThreadInv, ExperimentsAt
<1>3. Restored = live
  BY <1>2, RestoredAtRest
<1>4. Restored' = [g \in Groups |-> live'[g]]
  BY <1>2, RestoredFacts DEF Restored
<1>5. isActive
  BY <1>1 DEF isActive, active, ActiveStates
<1>6. CASE session'.state = "COMMITTED" /\ live' = Candidate /\ stored' = Candidate
  <2>1. Restored' = [g \in Groups |-> IF g \in Model THEN session.id ELSE Restored[g]]
    BY <1>3, <1>4, <1>6 DEF Candidate
  <2>2. stored' = Restored'
    BY <1>3, <1>6, <2>1 DEF Candidate
  <2>3. ~active(session')
    BY <1>6 DEF active, ActiveStates
  <2>4. Contract!Commit
    BY <1>1, <1>2, <1>5, <1>6, <2>1, <2>2, <2>3 DEF Contract!Commit, isActive, active
  <2> QED
    BY <2>4 DEF Contract!Next
<1>7. CASE session'.state = "FAILED" /\ live' = live /\ stored' = stored
  <2>1. Restored' = Restored
    BY <1>2, <1>3, <1>7, GiveBackKeeps
  <2>2. ~active(session')
    BY <1>7 DEF active, ActiveStates
  <2>3. Contract!Discard
    BY <1>1, <1>2, <1>5, <1>7, <2>1, <2>2 DEF Contract!Discard, isActive, active
  <2> QED
    BY <2>3 DEF Contract!Next
<1> QED
  BY <1>1, <1>6, <1>7

(* The calibration pipeline implements CalibrationContract: nothing reaches the *)
(* model in force or flash but what the user sets, a save, which may catch      *)
(* values on trial, or a whole commit.                                          *)
THEOREM Implements == Spec => ImplementsContract
<1>1. Init => Contract!Init
  <2> SUFFICES ASSUME Init
               PROVE  Contract!Init
    OBVIOUS
  <2>1. session.state = "EMPTY" /\ session.id = 0 /\ exp = "none"
    BY DEF Init, EmptySession
  <2>2. Restored = [g \in Groups |-> 0] /\ stored = [g \in Groups |-> 0]
    BY RestoredFacts DEF Init, UserConfig, User, Restored
  <2>3. Contract!User = 0
    BY DEF Contract!User
  <2>4. ~isActive
    BY <2>1 DEF isActive, active, ActiveStates
  <2> QED
    BY <2>1, <2>2, <2>3, <2>4 DEF Contract!Init
<1>2. IInv /\ [Next]_vars => [Contract!Next]_(Contract!vars)
  <2> SUFFICES ASSUME IInv, [Next]_vars
               PROVE  Contract!Next \/ UNCHANGED Contract!vars
    OBVIOUS
  <2> USE DEF isActive, active
  <2>1. FlagsOK /\ DataOK /\ ThreadInv /\ SessionAgrees /\ TriedInv
    BY TypeParts DEF IInv, SessionAgrees
  <2>2. CASE Commit
    BY <2>1, <2>2, CommitImplements
  <2>3. CASE StartSession
    <3>1. /\ session'.id = session.id + 1 /\ session'.state = "COLLECTING"
          /\ ~isActive /\ session.id < MaxSessions
      BY <2>1, <2>3, BeginFacts, ConstantTypes DEF StartSession, DataOK
    <3>2. session.id \in Nat
      BY <2>1 DEF DataOK, Sessions
    <3>3. ~Commit
      BY <2>1, <3>1, <3>2, CommitFacts
    <3>4. ModelKept
      BY <2>1, <3>1, <3>2, <3>3, ModelStep DEF UserSets, UserSaves
    <3>5. exp = "none" /\ exp' = exp
      BY <2>1, <2>3 DEF StartSession, ThreadInv, experimentVars
    <3>6. Contract!Begin
      BY <3>1, <3>4, <3>5 DEF Contract!Begin, ModelKept, ActiveStates
    <3> QED
      BY <3>6 DEF Contract!Next
  <2>4. exp = "none" /\ exp' # "none" => isActive /\ session' = session
    BY <2>1, ExperimentStep DEF Ends, GoesOn, Starts
  <2>5. ASSUME ModelKept, exp # "none", exp' = "none", session'.id = session.id,
               session' = session \/ (active(session) /\ active(session'))
        PROVE  Contract!Next
    <3>1. Contract!Rest
      BY <2>5 DEF ModelKept, Contract!Rest, ActiveStates
    <3> QED
      BY <3>1 DEF Contract!Next
  <2>6. CASE session' = session /\ ~Commit
    <3>1. CASE ModelKept
      <4>1. CASE (exp = "none") = (exp' = "none")
        BY <2>6, <3>1, <4>1 DEF ModelKept, Contract!vars
      <4>2. CASE exp = "none" /\ exp' # "none"
        <5>1. Contract!Try
          BY <2>4, <2>6, <3>1, <4>2 DEF ModelKept, Contract!Try, ActiveStates
        <5> QED
          BY <5>1 DEF Contract!Next
      <4> QED
        BY <2>5, <2>6, <3>1, <4>1, <4>2
    <3>2. CASE UserSets
      <4>1. Contract!Set
        BY <2>6, <3>2 DEF UserSets, Contract!Set, Contract!User, User
      <4> QED
        BY <4>1 DEF Contract!Next
    <3>3. CASE UserSaves
      <4>1. Contract!Save
        BY <2>6, <3>3 DEF UserSaves, Contract!Save
      <4> QED
        BY <4>1 DEF Contract!Next
    <3> QED
      BY <2>1, <2>6, <3>1, <3>2, <3>3, ModelStep
  <2>7. CASE Changed /\ session' # session /\ ~Commit
    <3>1. /\ isActive /\ session'.id = session.id
          /\ session'.state \notin {"EMPTY", "COMMITTED"}
      BY <2>7 DEF Changed
    <3>2. ModelKept
      BY <2>1, <2>7, ModelStep DEF UserSets, UserSaves
    <3>3. exp = "none" => exp' = "none"
      BY <2>4, <2>7
    <3>4. CASE active(session')
      <4>1. CASE (exp = "none") = (exp' = "none")
        BY <3>1, <3>2, <3>4, <4>1 DEF ModelKept, Contract!vars, ActiveStates
      <4> QED
        BY <2>5, <3>1, <3>2, <3>3, <3>4, <4>1
    <3>5. CASE ~active(session')
      <4>1. Contract!Discard
        BY <3>1, <3>2, <3>3, <3>5 DEF ModelKept, Contract!Discard, ActiveStates
      <4> QED
        BY <4>1 DEF Contract!Next
    <3> QED
      BY <3>4, <3>5
  <2> QED
    BY <2>1, <2>2, <2>3, <2>6, <2>7, SessionChange
<1> QED
  BY <1>1, <1>2, InvariantHolds, PTL DEF Spec, ImplementsContract, Contract!Spec
====================================================================================
