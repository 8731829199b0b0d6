SPECIFICATION TrackerSpec
CONSTANTS
  Transfers = {t1, t2}
  NoId = NoId
  Edits = {}
  Slots = {1, 2}
  Moving = {t1, t2}
  Endings = {}
PROPERTY PollsWhileNonTerminal
CHECK_DEADLOCK FALSE
