SPECIFICATION Spec
CONSTANTS
  Turn = 5
  Ratio = 3
  Divider = 2
  MaxAuxMiss = 1
  Counts <- Zero
  Reach <- AroundZero
  Steps <- Forwards
  MaxTravel = 1
INVARIANTS PositionIsAbsolute
PROPERTIES NothingLooksLikeMotion
