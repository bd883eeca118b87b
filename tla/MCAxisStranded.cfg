SPECIFICATION Spec_MC
CONSTANTS
  MaxSessions = 2
  Segments = 2
  HostRequests <- AllRequests
  StartProfiles <- AllProfiles
  EditableGroups <- Editable
  StartupChain <- LongStartup
PROPERTIES StartIsDriven
