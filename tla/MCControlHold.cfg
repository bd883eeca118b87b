SPECIFICATION Spec
CONSTANTS
  Half = 2
  CommandTimeouts <- OneTick
  HeartbeatTimeouts <- NoWatchdog
  Overrides <- AsTheModeHasIt
  Modes <- Positioning
PROPERTY HoldFreezes
