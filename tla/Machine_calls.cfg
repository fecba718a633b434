SPECIFICATION MachineSpec
CONSTANTS
  UPCB_NUM = 2
  SEM_POOL_SIZE = 1
  SCHED_TIME_FREQ = 1
  MaxSleep = 1
  MaxCount = 1
  INT_BITS = 8
  FILENAME_LENGTH = 2
  Alphabet = {97, 98}
  Formats <- MCFormats
  Requests <- MCRequests
  TIME_MAX = 16
  NSECT = 3
  MAX_COUNT = 2
  Data = {0, 1}
INVARIANTS
  MachineTypeOK
  AnswersOwnCall
  FramesAsInKernel
  NothingLost
  ReadsRight
  WritesRight
  OnlyLastWriteLost
  DecidesAsInKernel
  NumbersExact
  NamesFound
  MapsApart
  FramesFit
PROPERTIES
  HandlersOfTheRunner
  CallsReturn
