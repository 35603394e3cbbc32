SPECIFICATION FairSpec
CONSTANTS
  TrackFrames = 4
  PacketFrames = 3
  BlockFrames = 2
  ErrorLimit = 1
  PipeUnits = 2
  Messages = 1
  Patience = 2
  Faults = {"decode", "crash", "hang"}
INVARIANTS
  SamplesExact
  TimeoutJustified
PROPERTIES
  HelperSettles
