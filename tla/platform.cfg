CONSTANTS
  a1 = a1
  w1 = w1
  w2 = w2
  c1 = c1
  x1 = x1
  x2 = x2
  k1 = k1
  k2 = k2
  t1 = t1
  t2 = t2
  u1 = u1
  u2 = u2
  g1 = g1
  b1 = b1
  b2 = b2
  tc = tc
  tt = tt
  e1 = e1
  j1 = j1
  j2 = j2
  m1 = m1
  WebNone = WebNone
  SkillNone = SkillNone
  EgNone = EgNone
  MedNobody = MedNobody
  WebActions = {a1}
  WebThreads = {t1}
  WebChunks = 2
  WebMaxFaults = 1
  WebMaxSent = 3
  SkillChannels = {c1}
  SkillTexts = {x1, x2}
  SkillCreations = {k1, k2}
  SkillMaxEvents = 3
  McpTools = {t1, t2}
  McpLegacy = {t1}
  McpDefault = {t1, t2}
  McpManagers = {u1, u2}
  McpTargets = {g1}
  McpTemps = {x1}
  McpMaxChanges = 2
  InMessages = 3
  InSessions = 2
  InCopies = 2
  InEarlyResets = FALSE
  InMaxGaps = 1
  Bots = {b1, b2}
  BotsMaxEvents = 1
  EgTargets = {tc, tt}
  EgChannel = tc
  EgEntries = {e1}
  EgMaxActions = 2
  EgMaxEdits = 1
  EgMaxFaults = 1
  UsWorkers = {w1, w2}
  UsDays = 2
  UsDaily = 2
  UsMonthly = 3
  UsMaxCost = 2
  UsQueue = 2
  UsMaxJobs = 4
  UsMaxCrashes = 2
  MedJobs = {j1, j2}
  MedMaxActive = 1
  MedSameTick = FALSE
  MedMaxTicks = 1
  AuMessages = {m1}
  AuKinds = {"create", "update", "delete", "add", "clear", "thread", "threadend", "bot"}
  AuQueueSize = 1
  AuMaxEvents = 3
  AuMaxFaults = 1
  AuMaxStarts = 2
SPECIFICATION PlatSpec
INVARIANTS PlatTypeOK WebActionsKept SkillsGoverned McpFollowed MessagesTaken EgDelivers LedgersKept MediaJobs
PROPERTIES WebEndedFinal
CHECK_DEADLOCK FALSE
