\* Two pushers, two poppers, the owner: a queue of two slots, so that threads
\* sleep on both conditions.
SPECIFICATION Spec
CONSTANTS
  Producers = {p1, p2}
  Consumers = {c1, c2}
  Owners = {o}
  Tasks = {a}
  Nodes = {n1, n2, n3, n4}
  Capacity = 2
  NULL = NULL
SYMMETRY Symmetry
INVARIANTS TypeOK LockDiscipline ListShape NodeOwnership NoLostTask NoLostRoom ShutdownWakesAll
