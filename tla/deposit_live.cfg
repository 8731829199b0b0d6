SPECIFICATION FairSpec
CONSTANTS
  Deposits = {d1, d2}
  Reviews = {o1}
  ReturnFee = 1
  Accounts = {"active", "ira", "unknown"}
  Known = {"active", "ira"}
  Active = {"active", "ira"}
  Retirement = {"ira"}
  Limit = 1
  Cap = 1
  Amounts = {1}
  Overrides = {"ROLLOVER"}
  Faults = {"redis", "lookup"}
PROPERTY
  LeavesAutomaticStages
  DecisionsAreTold
