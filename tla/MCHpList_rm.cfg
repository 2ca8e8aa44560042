SPECIFICATION Spec
CONSTANTS
  t1 = t1
  t2 = t2
  t3 = t3
  n1 = n1
  n2 = n2
  n3 = n3
  a = a
  b = b
  c = c
  Null = Null
  Root = Root
  Threads = {t1, t2, t3}
  Nodes = {n1, n2}
  Data <- DataOnce
  May <- MayRemove
  Filled <- FilledOne
  Entries <- EntriesInOrder
  NumHp = 3
  FreeEvery = 1
  Width = 5
  Zeros = 3
INVARIANTS
  NoUseAfterFree
  RemovedOnce
  UntagSucceeds
  NoWaitCycle
  SlotsSuffice
CHECK_DEADLOCK FALSE
