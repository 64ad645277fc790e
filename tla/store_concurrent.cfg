SPECIFICATION FairSpec
CONSTANTS
  c1 = c1
  c2 = c2
  c3 = c3
  m1 = m1
  m2 = m2
  m3 = m3
  Calls = {c1, c2}
  Msgs = {m1, m2}
  Size <- MCSize
  Big = {m2}
  NoMsg = NoMsg
  MaxFileSize = 3
  Wrap = 5
  MaxOff = 7
  MaxTime = 2
  SerialStores = FALSE
  Stops = "any"
PROPERTY EveryCallReturns
INVARIANTS TypeOK StoreIsAtomic IdIsFresh
