----------------------------- MODULE MCControlTimeout -----------------------------
(* A tick of four values. Deadlines of one tick come to the 0 that means none, and *)
(* those of two wrap past it. Three modes, each with a timeout action of its own,  *)
(* and one action that suits none. The narrower instances show what becomes of one *)
(* mode and one watchdog at a time.                                                *)
EXTENDS ControlTimeout
OwnOrFault == {"QUICK_STOP_AND_HOLD", "FAULT_DISABLE"}
OneTick == {1}
OneOrTwoTicks == {1, 2}
NoWatchdog == {0}
AsTheModeHasIt == {"QUICK_STOP_AND_HOLD"}
Velocity == {"VELOCITY"}
Positioning == {"PROFILE_POSITION"}
ThreeModes == {"VELOCITY", "PROFILE_POSITION", "MIT_REALTIME"}

(* A short heartbeat watchdog stands beside the modes that have a quick stop and a *)
(* trajectory, a long one beside those that leave an MIT law behind.               *)
ModesBeside(heartbeat) ==
  Modes \ (IF heartbeat = 1 THEN {"MIT_REALTIME"} ELSE {"PROFILE_POSITION"})
Init_MC == Init /\ mode \in ModesBeside(heartbeatTimeout)
Next_MC ==
  Next /\ heartbeatTimeout' = heartbeatTimeout /\ mode' \in ModesBeside(heartbeatTimeout)
Spec_MC == Init_MC /\ [][Next_MC]_vars
====================================================================================
