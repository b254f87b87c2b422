SPECIFICATION Spec
CONSTANTS
  EntryCount = 1
  Requests = {r1, r2}
  UnitsPerCent = 2
  EntryCap = 300
  AggregateCap = 400
  Fills <- MCFills
  Quotes <- MCSteadyQuote
  Expectations <- MCExpectations
  Payouts <- MCPayouts
  HoldEdge = 6
  PriceLimit = 2
  ForecastLimit = 1
CHECK_DEADLOCK FALSE
SYMMETRY Symmetry
INVARIANTS TypeOK OpenPositionFollowsDispositions
 DecisionIsUsedOnce
PROPERTY EndedIsFinal
