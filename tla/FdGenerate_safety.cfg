SPECIFICATION Spec
CONSTANTS
  MaxBudget = 3
  None = None
  Fates <- MCFates
CHECK_DEADLOCK FALSE
INVARIANTS
  NothingLeaked
  WorldIsOfOneAttempt
  RejectionsTold
PROPERTIES
  ImplementsSearch
