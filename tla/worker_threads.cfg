CONSTANTS
  t1 = t1
  t2 = t2
  t3 = t3
  i1 = i1
  NoJob = NoJob
  Jobs = {t1, t2}
  Inline = {}
  InThread = {t1, t2}
  Remote = {}
  QueueCap = 1
  Faults = {"archive", "crash", "readError", "cancel", "timeout", "stop"}
SPECIFICATION Spec
INVARIANTS
  TypeOK
  OneRunning
  WorkVisible
  CancelTarget
  ArchiveDropsNothing
CHECK_DEADLOCK FALSE
