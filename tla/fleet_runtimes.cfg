CONSTANTS
  c1 = c1
  t1 = t1
  t2 = t2
  a1 = a1
  a2 = a2
  a3 = a3
  a4 = a4
  Channels = {c1}
  Threads = {t1, t2}
  Parent <- OneParent
  Agents = {a1, a2}
  Null = Null
  ThreadAgentMax = 1
  MaxWork = 1
  Faults = {"crash", "lateIdle", "pressure"}
SYMMETRY RuntimeSymmetry
SPECIFICATION Spec
INVARIANTS
  TypeOK
  Tracked
  SparesWork
PROPERTIES
  CapGuarded
