SPECIFICATION FairSpec
CONSTANTS
  d1 = d1
  d2 = d2
  d3 = d3
  Deposits = {d1, d2, d3}
  CreatedAt <- MCCreatedAt
  Runs = {r1, r2}
  Cutoffs = {1, 2}
  Retries = {q1}
  MaxRetries = 2
  NoBatch = NoBatch
  Faults = {"disk", "reply"}
PROPERTY
  FiledIsCompleted
