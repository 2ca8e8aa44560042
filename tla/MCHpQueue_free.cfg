SPECIFICATION FairSpec
CONSTANTS
  t1 = t1
  t2 = t2
  t3 = t3
  n1 = n1
  n2 = n2
  n3 = n3
  Null = Null
  Threads = {t1, t2, t3}
  Nodes = {n1, n2, n3}
  Wanted = {}
  May <- MayOnePusher
  Entries <- EntriesInOrder
  NumHp = 2
  FreeEvery = 2
INVARIANTS
  NoUseAfterFree
  FreesOnlyGarbage
  NothingLeaked
  SlotsSuffice
PROPERTY FreeTerminates
CHECK_DEADLOCK FALSE
