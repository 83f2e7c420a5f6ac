\* Two clients and two workers on a queue of one slot, in all three usages.
SPECIFICATION Spec
CONSTANTS
  Workers = {w1, w2}
  Clients = {c1, c2}
  Tasks = {a, b, c}
  Capacity = 1
  Usages = {"plain", "nested", "overlap"}
  NULL = NULL
SYMMETRY Symmetry
INVARIANTS TypeOK RunOnce Accounting NoLostWakeup NoUseAfterFree NoJoinDeadlock
PROPERTIES WaitExactWhenQuiet ImplementsPoolService
