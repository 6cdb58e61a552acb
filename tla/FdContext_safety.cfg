SPECIFICATION FairSpec
CONSTANTS
  w1 = w1
  w2 = w2
  s1 = s1
  NoHandle = NoHandle
  Threads = {t1, t2}
  Handles <- MCHandles
  Layout <- MCLayout
  Parent <- MCParent
  MaxCalls = 4
INVARIANTS
  PeakIsHighWater
  HandleCountExact
  ContextOutlivesUse
  LiveBytesExact
PROPERTIES
  CallsReturn
