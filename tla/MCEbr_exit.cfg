SPECIFICATION SpecExit
CONSTANTS
  t1 = t1
  t2 = t2
  t3 = t3
  n1 = n1
  n2 = n2
  Threads = {t1, t2, t3}
  Nodes = {n1, n2}
  BagSize = 1
  PinInterval = 1
  MaxEpoch = 3
SYMMETRY Symmetry
INVARIANTS
  TypeOK
  IInv
  FreeGarbageIsSafe
  PinHoldsEpoch
  FreeIsExclusive
  GarbageConserved
CONSTRAINT FewEnd
CHECK_DEADLOCK FALSE
