SPECIFICATION MCSpec
CONSTANTS
  Checkpoint = 3
  MaxTotal = 7
  MaxStarts = 4
  PRows = {"setpoint", "min_off"}
  Values = {1, 2}
  Valid <- Ranged
  Counts = {"min_off"}
  Default = 1
  MaxSeq = 2
  Debounce = 3
  ClickMin = 2
  HoldMin = 5
  MaxTurn = 8
  MaxSkips = 1
  Boards = {"a", "b", "c"}
  Roles = {1, 2}
  MaxNodes = 2
  Fragments = 3
  MaxLines = 5
  Skipped = {2}
  ReadCap = 2
  MaxCuts = 2
  MaxMoves = 1
CHECK_DEADLOCK FALSE
INVARIANTS
  TypesOK
  RunLossBounded
  SavedUnlessLate
  TurnsCounted
  PressSpeaksOnce
  DescriptorWhole
  WatermarkGoesHome
  NothingSkipped
PROPERTIES
  SavedIsKept
  AppliedInOrder
