SPECIFICATION FairSpec
CONSTANTS
  Rows <- MCRows
  Hooked <- MCHooked
CHECK_DEADLOCK FALSE
INVARIANTS
  TypeOK
  SelfWaitOnlyAtHook
  EditIsAtCursor
PROPERTIES
  ConfirmedTwice
  OnlyWedgeStops
