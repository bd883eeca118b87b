SPECIFICATION Spec_MC
CONSTANTS
  MaxSessions = 2
  Segments = 2
  HostRequests <- AllRequests
  StartProfiles <- AllProfiles
  EditableGroups <- Editable
  StartupChain <- LongStartup
INVARIANTS TypeOK PoweredOnlyWatched CaptureIsOwned TrialEndsWithExperiment OnlyCommittedSurvives SessionTellsTruth
PROPERTIES ImplementsContract SessionEndsUnmeddled AbortComesToRestUnmeddled
