SPECIFICATION FairSpec
CONSTANTS
  a = a
  b = b
  damaged = damaged
  NoFile = NoFile
  NoReplay = NoReplay
  NoWorld = NoWorld
  Contents <- MCContents
  ValidContents <- MCValid
  Interval = 2
  MaxTick = 25
  CheckpointEvery = 2
  Sources <- MCSources
  AttemptArrays <- MCAttemptArrays
  Edits <- MCEdits
  SaveBytes = 4
  RecordBytes = 2
  AuditBytes = 3
  MaxFileBytes = 20
INVARIANTS
  OpenedReplayIsRun
  BuiltFileIsFaithful
  NothingLeaked
PROPERTIES
  CallReturns
