\* Two clients submit, one of them then waits.
SPECIFICATION Spec
CONSTANTS
  Workers = {w1}
  Clients = {c1, c2}
  Tasks = {a, b}
  Capacity = 2
  Usages = {"plain"}
  NULL = NULL
PROPERTY WaitCoversAccepted
