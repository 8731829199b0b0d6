SPECIFICATION Spec
CONSTANTS
  Deposits = {d1}
  Reviews = {o1, o2, o3}
  ReturnFee = 1
  Accounts = {"active", "ira", "suspended", "unknown"}
  Known = {"active", "ira", "suspended"}
  Active = {"active", "ira"}
  Retirement = {"ira"}
  Limit = 3
  Cap = 4
  Amounts = {0, 1, 2, 3, 4}
  Overrides = {"ROLLOVER"}
  Faults = {}
SYMMETRY Symmetry
INVARIANTS
  FlaggedNeedsReview
  AutoFundedIsVetted
  CreditWithinLimit
  AmountChangeIsApproved
  HeldIsCurrent
