SPECIFICATION FairSpec
CONSTANTS
  Temps <- MCTemps
  ParamSets <- OneSet
  InvertSlack = 1
  TestLimit = 2
  StuckConfirm = 1
  NoctConfirm = 1
  CycleCap = 3
  CtFitted = FALSE
PROPERTIES
  ColdTankIsServed
  ChargedTankIsLeft
  TestEnds
