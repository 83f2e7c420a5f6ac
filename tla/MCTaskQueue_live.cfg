\* Liveness, hence no symmetry: two pushers against one slot, one popper.
SPECIFICATION FairSpec
CONSTANTS
  Producers = {p1, p2}
  Consumers = {c1}
  Owners = {o}
  Tasks = {a}
  Nodes = {n1, n2}
  Capacity = 1
  NULL = NULL
PROPERTIES ShutdownReleases ImplementsProgress
