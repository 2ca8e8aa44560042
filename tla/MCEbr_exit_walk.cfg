SPECIFICATION SpecExit
CONSTANTS
  t1 = t1
  t2 = t2
  t3 = t3
  n1 = n1
  Threads = {t1, t2, t3}
  Nodes = {n1}
  BagSize = 1
  PinInterval = 1
  MaxEpoch = 2
SYMMETRY Symmetry
INVARIANTS
  EpochIsHeld
CHECK_DEADLOCK FALSE
