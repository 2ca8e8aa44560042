SPECIFICATION Spec
CONSTANTS
  t1 = t1
  t2 = t2
  t3 = t3
  n1 = n1
  n2 = n2
  n3 = n3
  n4 = n4
  Null = Null
  Threads = {t1, t2, t3}
  Nodes = {n1, n2, n3, n4}
  Wanted = {n1, n2, n3, n4}
  May <- MayOnePusher
  MaxEpoch = 3
SYMMETRY Symmetry
INVARIANTS
  NoUseAfterFree
  GarbageIsUnreachable
  NothingLeaked
