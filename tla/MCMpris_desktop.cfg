SPECIFICATION FairSpec
CONSTANTS
  RequestCapacity = 1
  Status = {"Playing", "Stopped"}
  MaxToken = 2
  MaxRevision = 2
  Faults = {"bus"}
INVARIANTS
  ClientCurrent
PROPERTIES
  SeekInNamedTrack
  QuitTaken
CHECK_DEADLOCK FALSE
