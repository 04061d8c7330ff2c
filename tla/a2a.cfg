CONSTANTS
  t1 = t1
  t2 = t2
  c1 = c1
  c2 = c2
  n1 = n1
  n2 = n2
  f1 = f1
  u1 = u1
  w1 = w1
  w2 = w2
  k1 = k1
  o1 = o1
  o2 = o2
  a1 = a1
  x1 = x1
  x2 = x2
  A2ANone = A2ANone
  A2ATasks = {t1, t2}
  A2ACap = 1
  A2AMaxDeliver = 3
  A2AMaxEvents = 3
  PolNone = PolNone
  PolChannels = {c1, c2}
  PolNames = {n1, n2}
  PolForeign = {f1}
  PolUsers = {u1}
  PolWriters = {w1, w2}
  PolConfs = {k1}
  PolTasks = {t1, t2}
  PolCap = 1
  PolMaxChanges = 3
  PeerNone = PeerNone
  PeerOwn = {o1, o2}
  PeerLeaky = {o2}
  PeerOther = {a1}
  PeerCallers = {x1, x2}
  PeerMaxBad = 1
SPECIFICATION CollabSpec
INVARIANTS CollabTypeOK Quotas A2ARunsOnce PolGrants
PROPERTIES A2AEndsFinal A2ARefinesDelegation A2ASettles
CHECK_DEADLOCK FALSE
