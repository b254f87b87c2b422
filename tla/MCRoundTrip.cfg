SPECIFICATION Spec
CONSTANTS
  UnitsPerCent = 4
  BpsScale = 1000
  EntrySlippageBps = 1
  EntryFeeBps = 15
  ExitSlippageBps = 2
  ExitFeeBps = 10
  ReduceNumerator = 1
  ReduceDenominator = 2
  Asks <- MCAsks
  Bids <- MCBids
  Amounts <- MCAmounts
\* A position that has been sold has nothing more to do.
CHECK_DEADLOCK FALSE
INVARIANTS
  FillIsLargestAffordable
  RoundTripNeverProfits
  BasisIsPathIndependent
