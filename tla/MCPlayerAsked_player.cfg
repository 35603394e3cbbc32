SPECIFICATION AskedSpec
CONSTANTS
  e1 = e1
  e2 = e2
  e3 = e3
  a1 = a1
  a2 = a2
  a3 = a3
  Gone = Gone
  Entries = {e1, e2, e3}
  Assets = {a1, a2, a3}
  AssetOf <- MCAssetOf
  LengthOf <- MCLength
  DurationOf <- MCDuration
  Batches <- MCBatches
  Sessions <- MCSessions
  Positions = {1}
  Habits <- MCHabits
  MaxItems = 3
  MaxItemId = 4
  MaxQueueGen = 3
  MaxPlaybackGen = 3
  MaxPosition = 2
  Grain = 2
  SeekStep = 1
  CommandCapacity = 1
  RingSize = 1
  ReportInterval = 1
  MayFail = TRUE
  MaxBurst = 1
  MaxSeeks = 1
INVARIANTS
  QuietAgreement
  EndedOnce
  ListenerObeyed
PROPERTIES
  EditsKeepPlace
