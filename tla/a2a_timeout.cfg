CONSTANTS
  A2ANone = A2ANone
  A2ATasks = {t1}
  A2ACap = 1
  A2AMaxDeliver = 2
  A2AMaxEvents = 1
SPECIFICATION A2ASpec
INVARIANTS A2ATimeoutsRecorded
CHECK_DEADLOCK FALSE
