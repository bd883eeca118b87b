--------------------------- MODULE MCAxisCalibration ---------------------------
(* Two sessions, and one of three hosts.  All of them start, abort, edit and    *)
(* save at will; one requests nothing but IDLE, one drives the axis itself, one *)
(* runs a calibration of its own beside the session.                            *)
EXTENDS AxisCalibration

VARIABLE host
hostVars == <<vars, host>>

RequestsOf == [stops |-> {"IDLE"},
               drives |-> {"UNDEFINED", "IDLE", "LOCKIN_SPIN", "CLOSED_LOOP_CONTROL"},
               calibrates |-> {"IDLE", "FULL_CALIBRATION_SEQUENCE"}]
ProfilesOf == [stops |-> Profiles \ {"ELECTRICAL"},
               drives |-> {"FULL", "ELECTRICAL"},
               calibrates |-> {"FULL"}]
Hosts == DOMAIN RequestsOf
AllRequests == UNION {RequestsOf[h] : h \in Hosts}
AllProfiles == Profiles
Editable == {"mechanics"}
LongStartup == <<"MOTOR_CALIBRATION", "ENCODER_OFFSET_CALIBRATION", "CLOSED_LOOP_CONTROL">>

Init_MC == Init /\ host \in Hosts
HostStep_MC ==
  \/ StartSession /\ session'.profile \in ProfilesOf[host]
  \/ AbortSession
  \/ SetAxisState /\ requested' \in RequestsOf[host]
  \/ SetPrecalibrated \/ EditConfig \/ SaveConfiguration
Next_MC == (AxisStep \/ HostStep_MC \/ ControlLoopDisarms) /\ UNCHANGED host
Spec_MC == Init_MC /\ [][Next_MC]_hostVars /\ WF_hostVars(AxisStep /\ UNCHANGED host)

(* If the host requests nothing but IDLE, every session of a profile that       *)
(* drives itself ends, unless that request overtook the session's very first.   *)
SessionEndsUnmeddled == host = "stops" => SessionEnds

(* If the host requests nothing but IDLE, an aborted session comes to rest.     *)
AbortComesToRestUnmeddled == host = "stops" => AbortComesToRest
================================================================================
