SPECIFICATION Spec
CONSTANTS
  Deposits = {d1, d2}
  Reviews = {o1, o2}
  ReturnFee = 1
  Accounts = {"active", "ira", "unknown"}
  Known = {"active", "ira"}
  Active = {"active", "ira"}
  Retirement = {"ira"}
  Limit = 2
  Cap = 3
  Amounts = {1, 2}
  Overrides = {"ROLLOVER"}
  Faults = {"abort", "commit", "redis", "lookup"}
SYMMETRY Symmetry
INVARIANTS
  TypeOK
  LedgerMatchesStatus
  HistoryIsPath
  RulingsAreAudited
  AnswerIsTrue
  NoticesAreTrue
PROPERTIES
  NoGoingBack
  KeepsPromise
