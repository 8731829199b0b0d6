SPECIFICATION ClientSpec
CONSTANTS
  a0 = a0  a1 = a1  i1 = i1  i2 = i2  n1 = n1  n2 = n2
  Transfers = {t1, t2}
  NoId = NoId
  Edits = {t2}
  Slots = {1, 2}
  Moving = {t2}
  Endings = {"mixed", "lapse"}
  Accounts = {a0, a1}
  Known = {a1}
  Active = {a1}
  Retirement = {}
  Limit = 2
  Cap = 1
  ACCOUNTS = {a1}
  Ineligible = {}
  StartAccount = a0
  Notices = {n1, n2}
  Addressee <- MCAddressee
  Actionable = {n1}
  InboxSlots = 2
  Visits = 2
  Outages = 1
  TypedAmounts = {NoAmount, 4, 10, 20, 24}
  NoAmount = NoAmount
  FirstAmount = 10
  Scenes = {"CLEAN", "IQA_FAIL"}
  OpenPosts = 2
  FormVisits = 1
  Items = {i1, i2}
  ItemKey <- MCItemKey
  NoFilter = NoFilter
  ListSlots = 2
  ListBudget <- MCListBudget
  Flagged = {d1, d2}
  Mismatches = {d1, d2}
  NoDeposit = NoDeposit
  NoNumber = NoNumber
  OpCalls = 2
  PageVisits = 2
  Settled = {b1, b2}
  NoReturn = NoReturn
  DeskCalls = 2
  DeskVisits = 2
  Traced = {q1, q2}
  NoTrace = NoTrace
  AdminCallCap = 2
  AdminVisits = 3
INVARIANTS
  ClientTypeOK OutcomesExclusive FormNeverRefused OneRulingPerVisit
  VerifiedForThisDeposit OneTriggerAtATime TraceAnswersLastLookup OneOutcomePerAction
PROPERTIES
  FollowsTransfer FinalIsLeftAlone InboxSettles SubmitEnds ListingSettles DetailCatchesUp
CHECK_DEADLOCK FALSE
