CONSTANTS
  j1 = j1
  w1 = w1
  w2 = w2
  t1 = t1
  CronAbsent = CronAbsent
  CronJobs = {j1}
  CronSlots = {w1, w2}
  CronKinds = {"cron", "remind", "ask"}
  CronForeign = {}
  CronMaxTime = 2
  CronMaxRev = 1
  CronMaxEvents = 2
  MonAbsent = MonAbsent
  MonJobs = {j1}
  MonSlots = {w1, w2}
  MonTokens = {t1}
  MonMaxTime = 2
  MonMaxRev = 1
  MonMaxStarts = 1
  MonMaxOps = 1
  GwMaxAttempts = 3
SPECIFICATION SchedSpec
INVARIANTS SchedTypeOK SchedOnce CronReminders
PROPERTIES SchedEdits SchedServed
CHECK_DEADLOCK FALSE
