SPECIFICATION FairSpec
CONSTANTS
  t1 = t1
  t2 = t2
  t3 = t3
  n1 = n1
  n2 = n2
  n3 = n3
  Null = Null
  Threads = {t1, t2, t3}
  Nodes = {n1, n2, n3}
  Wanted <- SomeWanted
  May <- MayAll
  Steady = {t1, t3}
INVARIANTS
  ChainInOrder
PROPERTIES
  IsFifo
  LockFree
