SPECIFICATION FairSpec
CONSTANTS
  NoRow = NoRow
  g0 = g0 
  g1 = g1
  g2 = g2
  g3 = g3
  Games = {g0, g1, g2, g3}
  FirstStart <- MCStart
  Workers = {w1, w2}
  SeasonStart = 0
  ValidationStart = 1
  TestStart = 2
  HoldoutStart = 3
  MinTrain = 1
  MinValidation = 1
  MinTest = 1
  MaxTime = 5
  Crews <- MCCrews
  w1 = w1
  w2 = w2
  BatchLimit = 1
CHECK_DEADLOCK FALSE
INVARIANTS TypeOK DatasetPassesAudit FittedModelsAreApproved ExaminedBehindTheCursor
PROPERTY BackfillEnds
