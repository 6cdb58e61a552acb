SPECIFICATION Spec
CONSTANTS
  a = a
  NoObject = NoObject
  NoCall = NoCall
  Contexts = {c1, c2}
  WorldSlots = {w1, w2}
  ReplaySlots = {r1}
  SnapshotSlots = {s1}
  Contents <- MCContents
  ValidContents <- MCContents
  Interval = 2
  MaxTick = 7
  FirstCapacity = 1
  MaxSize = 3
  InitialSaves <- MCSaves
  MaxRecords = 2
SYMMETRY MCSymmetry
INVARIANTS
  HandlesOwned
  NoContextStranded
  HistoryReproducesWorld
  AppendFits
