SPECIFICATION Spec
CONSTANTS
  g1 = g1
  g2 = g2
  g3 = g3
  e1 = e1
  Groups = {g1, g2, g3}
  Local = {g3}
  Entity <- MCEntity
  Concurrent = 2
  MaxDuration = 4
  MaxHosts = 2
INVARIANTS TypeOK Tokens CompleteCopies
CHECK_DEADLOCK FALSE
