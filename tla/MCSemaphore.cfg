\* Four threads in any roles; no symmetry because of the liveness property.
SPECIFICATION FairSpec
CONSTANTS
  Threads = {t1, t2, t3, t4}
  Word = 8
  Permits = 2
  NULL = NULL
INVARIANTS TypeOK LockDiscipline NoLostPost
PROPERTIES ImplementsCountingSemaphore ImplementsProgress
