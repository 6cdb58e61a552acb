SPECIFICATION DrawSpec
CONSTANTS
  WordRange = 32
  RetryBlocks = 3
  Lanes = 4
CHECK_DEADLOCK FALSE
INVARIANTS
  EveryResultAsLikely
  GivesUpLast
