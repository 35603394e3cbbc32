SPECIFICATION FairSpec
CONSTANTS
  Producers = {p1}
  p1 = p1
  Absent = Absent
  MaxRecordBytes = 2
  MarkBytes = 1
  MaxPiece = 3
  QueueCapacity = 1
  MaxLogFiles = 3
  Configs <- MCConfigs
  MaxRecords = 4
  MaxEmitted = 4
  Faults = {"crash", "io"}
INVARIANTS
  LogsInOrder
  RecordsAccounted
PROPERTIES
  OldestLost
  FinishEnds
