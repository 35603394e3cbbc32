SPECIFICATION Spec
CONSTANTS
  e1 = e1
  e2 = e2
  a1 = a1
  a2 = a2
  Gone = Gone
  Nothing = Nothing
  Entries = {e1, e2}
  Assets = {a1, a2}
  AssetOf <- MCAssetOf
  MaxItems = 2
  MaxItemId = 3
  MaxQueueGen = 3
  Batches <- MCBatches
  Sessions = {}
  Libraries <- MCLibraries
  Limits = {1, 2}
  MaxPosition = 1
  MaxTime = 2
  PositionInterval = 1
  HeartbeatInterval = 2
  CreateAttempts = 1
  MaxLeftovers = 1
  Faults = {"crash", "io"}
INVARIANTS
  FilesRecent
PROPERTIES
  Resumes
  QuitSaves
