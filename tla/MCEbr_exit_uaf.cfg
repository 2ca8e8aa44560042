SPECIFICATION SpecExit
CONSTANTS
  t1 = t1
  t2 = t2
  n1 = n1
  Threads = {t1, t2}
  Nodes = {n1}
  BagSize = 1
  PinInterval = 1
  MaxEpoch = 3
INVARIANTS
  NoUseAfterFree
CHECK_DEADLOCK FALSE
