SPECIFICATION Spec
CONSTANTS
  Temps <- MixTemps
  ParamSets <- TwoSets
  InvertSlack = 1
  TestLimit = 2
  StuckConfirm = 2
  NoctConfirm = 2
  CycleCap = 4
  CtFitted = TRUE
INVARIANTS
  TypeOK
  ModeAgrees
  BlindOrHaltedIsOff
  HaltSurvivesPowerLoss
  ManualSurvivesPowerLoss
  BlobIsRestorable
PROPERTIES
  NoColdSelfStop
  CoilContractHolds
