SPECIFICATION Spec
CONSTANTS
  UPCB_NUM = 3
  SEM_POOL_SIZE = 1
  SCHED_TIME_FREQ = 1
  MaxSleep = 2
  MaxCount = 2
PROPERTIES
  ExitIsFinal
