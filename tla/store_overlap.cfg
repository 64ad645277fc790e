SPECIFICATION Spec
CONSTANTS
  c1 = c1
  c2 = c2
  c3 = c3
  m1 = m1
  m2 = m2
  m3 = m3
  Calls = {c1, c2}
  Msgs = {m1, m2, m3}
  Size <- MCSize
  Big = {}
  NoMsg = NoMsg
  MaxFileSize = 3
  Wrap = 5
  MaxOff = 7
  MaxTime = 3
  SerialStores = FALSE
  Stops = "never"
INVARIANT ReadBack
