SPECIFICATION FairSpec
CONSTANTS
  Threads = {t1, t2, t3}
  NULL = NULL
  Timeouts = {1, 3}
  MsPerSec = 2
  NsPerMs = 2
  Granule = 1
  MaxSec = 2
INVARIANTS TypeOK Exclusion
PROPERTIES TimedWaitNotCutShort TimedWaitEnds SelfLockReturns
