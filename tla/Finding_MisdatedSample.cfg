SPECIFICATION Spec
CONSTANTS
  RingCap = 6
  FrameSamples = 4
  MaxClock = 7
  MaxBoot = 1
  MaxFail = 2
  SeqWrap = 3
  QueueLen = 2
  BrokerLen = 4
  Faults = {"radio"}
  MaxFaults = 2
  Prompt = TRUE
INVARIANTS
  AckMeansInTheLog
CHECK_DEADLOCK FALSE
