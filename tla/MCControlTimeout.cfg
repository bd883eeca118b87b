SPECIFICATION Spec_MC
CONSTANTS
  Half = 2
  CommandTimeouts <- OneTick
  HeartbeatTimeouts <- OneOrTwoTicks
  Overrides <- OwnOrFault
  Modes <- ThreeModes
INVARIANTS TypeOK DeafOnlyWhenQuiet
PROPERTIES SilenceStops OnlySilenceExpires
