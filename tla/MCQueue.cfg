SPECIFICATION QueueSpec
CONSTANTS
  e1 = e1
  e2 = e2
  e3 = e3
  e4 = e4
  a1 = a1
  a2 = a2
  a3 = a3
  Gone = Gone
  Entries = {e1, e2, e3, e4}
  Assets = {a1, a2, a3}
  AssetOf <- MCAssetOf
  MaxItems = 3
  MaxItemId = 5
  MaxQueueGen = 4
  Batches <- MCBatches
  Sessions <- MCSessions
INVARIANTS
  MembershipExact
  ShuffleOrderExact
  PreviousUndoesNext
  RoundVisitsEveryTrack
PROPERTIES
  PlayedPrefixStable
