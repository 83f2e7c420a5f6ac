SPECIFICATION Spec
CONSTANTS
  Threads = {t1, t2}
  NULL = NULL
  Timeouts = {1}
  MsPerSec = 2
  NsPerMs = 1
  Granule = 1
  MaxSec = 1
INVARIANT OneHolder
