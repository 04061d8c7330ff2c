CONSTANTS
  t1 = t1
  t2 = t2
  t3 = t3
  i1 = i1
  NoJob = NoJob
  Jobs = {t1, t2}
  Inline = {}
  InThread = {t1}
  Remote = {}
  QueueCap = 1
  Faults = {"timeout", "cancel", "stop"}

SPECIFICATION LiveSpec

PROPERTIES
  StartedFinishes
  AcceptedResolves
  StopEnds

CHECK_DEADLOCK FALSE
