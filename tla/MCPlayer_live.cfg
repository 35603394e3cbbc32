SPECIFICATION FairSpec
CONSTANTS
  e1 = e1
  e2 = e2
  e3 = e3
  a1 = a1
  a2 = a2
  a3 = a3
  Gone = Gone
  Entries = {e1}
  Assets = {a1, a2, a3}
  AssetOf <- MCAssetOf
  LengthOf <- MCLength
  DurationOf <- MCDuration
  Batches <- MCNone
  Sessions <- MCOne
  Positions = {1}
  Habits <- MCSeeks
  MaxItems = 2
  MaxItemId = 3
  MaxQueueGen = 1
  MaxPlaybackGen = 2
  MaxPosition = 4
  Grain = 2
  SeekStep = 1
  CommandCapacity = 1
  RingSize = 1
  ReportInterval = 1
  MayFail = TRUE
  MaxBurst = 1
  MaxSeeks = 1
PROPERTIES
  TimelineMonotone
  Answered
  QuitEnds
CHECK_DEADLOCK FALSE
