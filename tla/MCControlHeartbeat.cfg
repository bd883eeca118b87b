SPECIFICATION Spec
CONSTANTS
  Half = 2
  CommandTimeouts <- NoWatchdog
  HeartbeatTimeouts <- OneTick
  Overrides <- AsTheModeHasIt
  Modes <- Velocity
PROPERTY HeartbeatLossStops
