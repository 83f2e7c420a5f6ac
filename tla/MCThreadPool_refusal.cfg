\* A task submits while the pool is destroyed.
SPECIFICATION Spec
CONSTANTS
  Workers = {w1}
  Clients = {c1}
  Tasks = {a, b}
  Capacity = 1
  Usages = {"nested"}
  NULL = NULL
PROPERTY RefusalSaysShutdown
