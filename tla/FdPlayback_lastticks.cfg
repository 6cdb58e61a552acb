SPECIFICATION Spec
CONSTANTS
  a = a
  b = b
  damaged = damaged
  NoWorld = NoWorld
  NoReplay = NoReplay
  NoSave = NoSave
  NoCall = NoCall
  WorldSlots = {w1, w2}
  ReplaySlots = {r1}
  Contents <- MCContents
  ValidContents <- MCValid
  Interval = 2
  MaxTick = 9
  MaxRecords = 3
  InitialSaves <- MCSaves
  Submitted <- MCSubmitted
INVARIANT
  EveryWorldLoadsBack
