---------------------------- MODULE CalibrationSession ----------------------------
(* The runtime transaction record of one calibration session, as the pure       *)
(* functions CalibrationSession of calibration_session.hpp applies to it.  The  *)
(* axis and the CAN thread act on the session only through these operators.     *)
EXTENDS Naturals

Profiles == {"FULL", "ELECTRICAL", "MECHANICAL", "VALIDATE_ONLY"}

Stages == {"NONE", "PRECHECK", "ELECTRICAL_CAPTURE", "ENCODER_GEOMETRY",
           "MECHANICAL_CAPTURE", "ELECTRICAL_DELAY", "VALIDATION", "COMMIT"}

ActiveStates == {"COLLECTING", "COLLECTED", "FITTING", "IDENTIFIED",
                 "VALIDATING", "VALIDATED", "STAGED"}
TerminalStates == {"COMMITTED", "FAILED", "ABORTED", "STALE"}
States == {"EMPTY"} \union ActiveStates \union TerminalStates

(* The failure codes, one per kind of cause the pipeline tells apart. *)
FailureCodes == {"NONE", "PROFILE", "MOTOR", "ENCODER", "GEOMETRY", "FLUX",
                 "MECHANICAL", "DELAY", "VALIDATION", "STORAGE"}

Sessions == [id : Nat, state : States, profile : Profiles,
             stage : Stages, code : FailureCodes]

EmptySession == [id |-> 0, state |-> "EMPTY", profile |-> "FULL",
                 stage |-> "NONE", code |-> "NONE"]

active(s) == s.state \in ActiveStates

(* The successor each active state allows; the last one leads out of them. *)
forward == [s \in ActiveStates |->
  CASE s = "COLLECTING" -> "COLLECTED" [] s = "COLLECTED" -> "FITTING"
    [] s = "FITTING" -> "IDENTIFIED"   [] s = "IDENTIFIED" -> "VALIDATING"
    [] s = "VALIDATING" -> "VALIDATED" [] s = "VALIDATED" -> "STAGED"
    [] s = "STAGED" -> "COMMITTED"]

begin(s, profile) ==
  [id |-> s.id + 1, state |-> "COLLECTING", profile |-> profile,
   stage |-> "NONE", code |-> "NONE"]

transition(s, next) ==
  IF active(s) /\ forward[s.state] = next THEN [s EXCEPT !.state = next] ELSE s

set_stage(s, stage) == IF active(s) THEN [s EXCEPT !.stage = stage] ELSE s

fail(s, code) ==
  IF active(s) THEN [s EXCEPT !.state = "FAILED", !.code = code] ELSE s

abort(s) == IF active(s) THEN [s EXCEPT !.state = "ABORTED"] ELSE s
====================================================================================
