\* Two distinct tasks and two slots, so that order and loss show.
SPECIFICATION Spec
CONSTANTS
  Producers = {p1, p2}
  Consumers = {c1}
  Owners = {o}
  Tasks = {a, b}
  Nodes = {n1, n2, n3}
  Capacity = 2
  NULL = NULL
SYMMETRY Symmetry
PROPERTY ImplementsBoundedQueue
