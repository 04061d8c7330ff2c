CONSTANTS
  t1 = t1
  t2 = t2
  t3 = t3
  i1 = i1
  NoJob = NoJob
  Jobs = {t1, i1}
  Inline = {i1}
  InThread = {}
  Remote = {i1}
  QueueCap = 1
  Faults = {"readError", "crash", "interrupt"}
SPECIFICATION Spec
INVARIANTS
  AnsweredOnce
CHECK_DEADLOCK FALSE
