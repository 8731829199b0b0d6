SPECIFICATION Spec
CONSTANTS
  d1 = d1
  d2 = d2
  d3 = d3
  Deposits = {d1, d3}
  CreatedAt <- MCCreatedAt
  Runs = {r1, r2}
  Cutoffs = {1, 2}
  Retries = {q1, q2, q3}
  MaxRetries = 3
  NoBatch = NoBatch
  Faults = {"disk", "tx", "restart"}
SYMMETRY Symmetry
INVARIANTS
  TypeOK
  CompletedIsFiled
  RowMatchesDeposits
  CutoffRespected
  EscalationIsEarned
PROPERTIES
  SettledStaysSettled
  KeepsItsBatches
