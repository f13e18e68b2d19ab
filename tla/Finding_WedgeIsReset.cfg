SPECIFICATION FairSpec
CONSTANTS
  Rows <- MCRows
  Hooked <- MCHooked
CHECK_DEADLOCK FALSE
PROPERTIES
  MonitorTicks
