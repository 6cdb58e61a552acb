SPECIFICATION Spec
CONSTANTS
  NoReplay = NoReplay
  NoFrame = NoFrame
  Width = 4
  Height = 2
  MinColumns = 34
  MinRows = 10
  MaxColumns = 50
  MaxRows = 50
  PageSize = 2
  Filters = {"", "PASS"}
  Matches <- MCMatches
  Options <- MCOptions
  Started <- MCStarted
  MaxAccepted = 2
  MaxPasses = 3
CHECK_DEADLOCK FALSE
INVARIANTS
  AuditIsCurrent
  ScreenTellsAttempts
  CursorInFrame
