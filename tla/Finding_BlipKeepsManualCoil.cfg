SPECIFICATION Spec
CONSTANTS
  Temps <- MCTemps
  ParamSets <- OneSet
  InvertSlack = 1
  TestLimit = 3
  StuckConfirm = 2
  NoctConfirm = 2
  CycleCap = 4
  CtFitted = FALSE
PROPERTIES
  BlipKeepsManualCoil
