SPECIFICATION MCSpec
CONSTANTS
  UPCB_NUM = 4
  SEM_POOL_SIZE = 1
  SCHED_TIME_FREQ = 1
  MaxSleep = 1
  MaxCount = 3
  child_num = 3
  sem_value = 2
INVARIANTS
  Conservation
  SumExact
PROPERTIES
  ImplementsSection
  AllFinish
