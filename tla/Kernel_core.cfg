SPECIFICATION FairSpec
CONSTANTS
  UPCB_NUM = 4
  SEM_POOL_SIZE = 2
  SCHED_TIME_FREQ = 1
  MaxSleep = 2
  MaxCount = 2
INVARIANTS
  TypeOK
  OneRunning
  WaitersAreDue
  ZeroIsForNewChildren
PROPERTIES
  SuspendedUntouched
  TokenPerGrant
  NoStarvation
  NoLostWakeup
