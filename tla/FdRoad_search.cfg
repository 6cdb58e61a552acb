SPECIFICATION FairRoadSpec
CONSTANTS
  Width = 3
  Height = 3
  UintMax = 1000
  Towns <- MCTowns
  Lands <- MCLands
CHECK_DEADLOCK FALSE
INVARIANTS
  HeapIsSound
  CheapestRoadOrNone
PROPERTIES
  CallReturns
