CONSTANTS
  p1 = p1
  p2 = p2
  k1 = k1
  Calls = {p1, p2, k1}
  Commands = {k1}
  MaxChunks = 1
  Faults = {"crash", "readError", "stop", "ctxDone"}

SPECIFICATION AgentSpec

INVARIANTS
  TypeOK
  ReaderNeverBlocks
  OwnText

PROPERTIES
  SendReturns
  StopCompletes
  CrashReported

CHECK_DEADLOCK FALSE
