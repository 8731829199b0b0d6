SPECIFICATION SerialSpec
CONSTANTS
  d1 = d1
  d2 = d2
  d3 = d3
  Deposits = {d1, d2, d3}
  CreatedAt <- MCCreatedAt
  Runs = {r1, r2, r3}
  Cutoffs = {1, 2}
  Retries = {q1}
  MaxRetries = 2
  NoBatch = NoBatch
  Faults = {"disk"}
SYMMETRY Symmetry
INVARIANTS
  FilesAreDisjoint
  FileMatchesRow
