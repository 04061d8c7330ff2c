CONSTANTS
  EgNone = EgNone
  EgTargets = {tc, tt}
  EgChannel = tc
  EgEntries = {e1, e2}
  EgMaxActions = 2
  EgMaxEdits = 0
  EgMaxFaults = 0
SPECIFICATION EgSpec
INVARIANTS EgRemovesListed
CHECK_DEADLOCK FALSE
