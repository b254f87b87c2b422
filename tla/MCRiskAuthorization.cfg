SPECIFICATION Spec
CONSTANTS
  Markets = {m1}
  Requests = {r1, r2}
  StartingBankroll = 10
  Candidates <- OneOrBothSides
  Exposures = {40, 60, 80}
  AutoApproveMax = 70
  Window = 5
  Lives = {5}
  Costs = {3}
  TimeLimit = 5
  PublishLimit = 1
  ProposalLimit = 2
  DecisionLimit = 2
  HeadLimit = 2
CHECK_DEADLOCK FALSE
SYMMETRY Symmetry
PROPERTY FillsRestOnCurrentEvidence
INVARIANTS TypeOK OneFillPerSnapshot
  AuthorizedCapitalFits
  OneIntentInForce
