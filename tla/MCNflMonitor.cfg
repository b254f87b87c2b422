SPECIFICATION FairSpec
CONSTANTS
  EntryCount = 2
  Requests = {r1, r2}
  UnitsPerCent = 2
  EntryCap = 300
  AggregateCap = 400
  Fills <- MCFills
  Quotes <- MCQuotes
  Expectations = {120}
  Payouts = {200}
  HoldEdge = 6
  PriceLimit = 1
  ForecastLimit = 1
CHECK_DEADLOCK FALSE
INVARIANTS DecisionIsAlerted AggregateCapHolds
PROPERTY PassEnds
