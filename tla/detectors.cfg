SPECIFICATION DetectorsSpec
CONSTANTS
  Values = {0, 1, 2, 7}
  NumValues = 7
  WindowSize = 5
  ZMinSamples = 3
  ZNum = 3
  ZDen = 2
  IqrMinSamples = 4
  KNum = 3
  KDen = 2
  WarmupSamples = 3
  CusumThreshold = 3
  CusumSlack = 1
  CusumDen = 2
INVARIANTS PointAlarmsExact
