SPECIFICATION Spec
CONSTANTS
  UnitsPerCent = 2
  BpsScale = 1000
  EntrySlippageBps = 3
  EntryFeeBps = 10
  ExitSlippageBps = 3
  ExitFeeBps = 10
  ReduceNumerator = 1
  ReduceDenominator = 2
  RiskCount = 2
  Markets = {m1}
  Requests = {r1, r2}
  StartingBankroll = 600
  Capitals <- MCCapitals
  Quotes <- MCQuotes
  Payouts <- MCPayouts
  NoBid = NoBid
  NoResolution = NoResolution
  Conflict = Conflict
  MinAdjustedEdge = 6
  MinHoldEdge = 8
  ChangeLimit = 3
CHECK_DEADLOCK FALSE
SYMMETRY Symmetry
INVARIANTS
  TypeOK
  LedgerReconciles
  SnapshotBalances
  CashFollowsHistory
  PositionFollowsHistory
  OneOpenPositionPerMarket
PROPERTIES
  AuthorizationIsSpentOnce
  TerminalIsFinal
  ImplementsLedger
