SPECIFICATION SiteSpec
CONSTANTS
  MaxFail = 2
  Near = 1
  Far = 2
  ScanWrap = 3
  EvCap = 1
  HealthStale = 2
  ActiveEntry = 2
  Silent = 2
  Faults = {"gwreboot", "switch"}
  MaxFaults = 3
PROPERTY
  StatusRepublished
