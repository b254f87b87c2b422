SPECIFICATION EvaluationSpec
CONSTANTS
  UnitsPerCent = 2
  BpsScale = 1000
  EntrySlippageBps = 3
  EntryFeeBps = 10
  ExitSlippageBps = 3
  ExitFeeBps = 10
  ReduceNumerator = 1
  ReduceDenominator = 2
  RiskCount = 2
  Markets = {m1, m2}
  Requests = {r1}
  StartingBankroll = 600
  Capitals <- MCCapitals
  Quotes <- MCQuotes
  Payouts <- MCPayouts
  NoBid = NoBid
  NoResolution = NoResolution
  Conflict = Conflict
  MinAdjustedEdge = 6
  MinHoldEdge = 8
  ChangeLimit = 2
CHECK_DEADLOCK FALSE
INVARIANTS
  EvaluationIsSound
