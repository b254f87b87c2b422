SPECIFICATION Spec
CONSTANTS
  EntryCount = 1
  Requests = {r1, r2}
  UnitsPerCent = 2
  EntryCap = 300
  AggregateCap = 400
  Fills <- MCFills
  Quotes <- MCQuotes
  Expectations <- MCExpectations
  Payouts = {200}
  HoldEdge = 6
  PriceLimit = 2
  ForecastLimit = 1
CHECK_DEADLOCK FALSE
INVARIANT PositionFollowsEvents
