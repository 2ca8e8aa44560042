SPECIFICATION FairSpec
CONSTANTS
  t1 = t1
  t2 = t2
  n1 = n1
  n2 = n2
  n3 = n3
  Threads = {t1, t2}
  Nodes = {n1, n2, n3}
  BagSize = 1
  PinInterval = 1
  MaxEpoch = 3
INVARIANTS
  NoUseAfterFree
PROPERTIES
  KeepsPromise
  FollowsScheme
  EpochAdvances
  FreeLoopTerminates
