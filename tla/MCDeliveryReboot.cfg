SPECIFICATION FairSpec
CONSTANTS
  MaxClock = 2
  MaxBoot = 2
  RingCap = 2
  FrameSamples = 2
  SeqWrap = 3
  MaxFail = 2
  QueueLen = 2
  BrokerLen = 2
  MaxFaults = 2
  Prompt = TRUE
  Faults = {"nodereboot", "slowcb", "radio"}
CHECK_DEADLOCK FALSE
INVARIANTS
  AckedIsDurable
PROPERTIES
  Drains
  CustodyHolds
