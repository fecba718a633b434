SPECIFICATION VMSpec
CONSTANTS
  UPCB_NUM = 3
  SEM_POOL_SIZE = 1
  SCHED_TIME_FREQ = 0
  MaxSleep = 0
  MaxCount = 1
  NPTENTRIES = 1
  SharedPages = {}
  DestPids = {1}
  SrcPids = {0}
  MaxValue = 1
PROPERTY CompleteCopy
