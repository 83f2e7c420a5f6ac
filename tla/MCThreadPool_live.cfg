\* Liveness, hence no symmetry: a task that submits twice fills the queue its
\* only worker should drain.
SPECIFICATION FairSpec
CONSTANTS
  Workers = {w1}
  Clients = {c1}
  Tasks = {a, b, c}
  Capacity = 1
  Usages = {"plain", "nested"}
  NULL = NULL
PROPERTIES WaitReturns AcceptedRuns DestroyTerminates
