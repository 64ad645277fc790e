SPECIFICATION Spec
CONSTANTS
  c1 = c1
  c2 = c2
  n1 = n1
  n2 = n2
  n3 = n3
  Clients = {c1, c2}
  Notifiers = {n1, n2, n3}
  Deliveries = {n1, n2}
  ForInbox = {n2}
  MaxIdles = 1
  Bounds <- MCBounds
INVARIANTS TypeOK HearsEverything SavedOnStop
PROPERTIES LastHupCounts NobodyStuck
CHECK_DEADLOCK FALSE
