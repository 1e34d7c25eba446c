SPECIFICATION Spec
CONSTANTS
  Proposals = {p1, p2}
  MaxConnections = 2
  MaxCalls = 3
  MaxResends = 1
SYMMETRY Symmetry
CHECK_DEADLOCK FALSE
INVARIANT OneGrantPerProposal
INVARIANT OutcomesTrue
