SPECIFICATION VMSpec
CONSTANTS
  UPCB_NUM = 3
  SEM_POOL_SIZE = 1
  SCHED_TIME_FREQ = 0
  MaxSleep = 0
  MaxCount = 1
  NPTENTRIES = 2
  SharedPages = {1}
  DestPids = {1}
  SrcPids = {0, 2}
  MaxValue = 1
INVARIANT OwnTranslations
PROPERTY PrivateMemory
PROPERTY FirstCopyComplete
