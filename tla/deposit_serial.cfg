SPECIFICATION SerialSpec
CONSTANTS
  Deposits = {d1, d2, d3}
  Reviews = {o1}
  ReturnFee = 1
  Accounts = {"active"}
  Known = {"active"}
  Active = {"active"}
  Retirement = {}
  Limit = 2
  Cap = 2
  Amounts = {1, 2}
  Overrides = {"ROLLOVER"}
  Faults = {"abort", "commit", "lookup"}
SYMMETRY Symmetry
INVARIANT
  NoDoubleFunding
