SPECIFICATION Spec
CONSTANTS
  t1 = t1
  t2 = t2
  t3 = t3
  o1 = o1
  o2 = o2
  None = None
  Tasks = {t1, t2, t3}
  Objs = {o1, o2}
  Listeners = {smtp}
  smtp = smtp
  Soon = 1
  Later = 2
  MaxTime = 4
  Regimes = {FALSE}

PROPERTY Remembered
CHECK_DEADLOCK FALSE
SYMMETRY MCSymmetry
