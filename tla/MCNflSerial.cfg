SPECIFICATION Spec
CONSTANTS
  EntryCount = 1
  Requests = {r1}
  UnitsPerCent = 2
  EntryCap = 300
  AggregateCap = 400
  Fills <- MCFills
  Quotes <- MCQuotes
  Expectations = {104}
  Payouts = {200}
  HoldEdge = 6
  PriceLimit = 2
  ForecastLimit = 2
CHECK_DEADLOCK FALSE
INVARIANTS PositionFollowsEvents ValueIsOfContractsHeld
PROPERTY ImplementsLedger
