SPECIFICATION FairSpec
CONSTANTS
  g1 = g1
  g2 = g2
  g3 = g3
  e1 = e1
  Groups = {g1, g2, g3}
  Local = {}
  Entity <- MCEntity
  Concurrent = 1
  MaxDuration = 4
  MaxHosts = 1
PROPERTIES Settles BackoffGrows
CHECK_DEADLOCK FALSE
