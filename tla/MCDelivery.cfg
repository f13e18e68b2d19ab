SPECIFICATION Spec
CONSTANTS
  MaxClock = 3
  MaxBoot = 1
  RingCap = 2
  FrameSamples = 2
  SeqWrap = 3
  MaxFail = 2
  QueueLen = 1
  BrokerLen = 2
  MaxFaults = 1
  Prompt = FALSE
  Faults = {"radio", "gwreboot", "mqtt", "qos0", "svccrash"}
CHECK_DEADLOCK FALSE
INVARIANTS
  TypeOK
  AckedIsDurable
  NoDuplicateLines
  WatermarkIsDurable
PROPERTIES
  CustodyHolds
