SPECIFICATION Spec
CONSTANTS
  t1 = t1
  t2 = t2
  t3 = t3
  n1 = n1
  n2 = n2
  n3 = n3
  Null = Null
  Threads = {t1, t2, t3}
  Nodes = {n1, n2, n3}
  Wanted = {}
  May <- MayTwoPushers
  Entries <- EntriesInOrder
  NumHp = 2
  FreeEvery = 2
INVARIANT NoUseAfterFree
CHECK_DEADLOCK FALSE
