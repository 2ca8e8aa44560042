--------------------------- MODULE EbrQueueProofs --------------------------
(* Theorems about EbrQueue for any number of threads, nodes and epochs.    *)
EXTENDS EbrQueue, MSQueueProofs

Gone == retired \cup freed

(* Who has entered `pin` holds the epoch to the one it has pinned or the   *)
(* next.                                                                   *)
PinInv ==
  \A t \in Threads :
    /\ t \in pinned <=> pc[t] # "out"
    /\ t \in pinned => pinAt[t] <= epoch /\ epoch <= pinAt[t] + 1

GarbageInv == Garbage(Gone)

(* A thread that pops has loaded its pointer since it pinned: what has     *)
(* become garbage from there on became so since, and is not freed.         *)
PopSafe ==
  \A t \in Threads : pc[t] \in PopSteps \ {"pop_head"} =>
    \A n \in Gone : NotAfter(ptr[t], n) =>
      n \notin freed /\ pinAt[t] <= retiredAt[n]

LeakInv == NoLeak(Gone)

IInv == QueueInv /\ R!TypeOK /\ PinInv /\ GarbageInv /\ PopSafe /\ LeakInv
-----------------------------------------------------------------------------
(* What happens in `pin` around the operations. *)
PinSide(t) == Enter(t) \/ InPin(t) \/ Leave(t)

(* A step of an operation other than the retirement. *)
Moves(t) == (Pushing(t) \/ Popping(t) \/ Calling(t)) /\ UNCHANGED epochVars

LEMMA NextCases ==
  ASSUME [Next]_vars
  PROVE  \/ \E t \in Threads : (PinSide(t) \/ Moves(t) \/ RetireOld(t)) /\ Look
         \/ DropQueue /\ Look
         \/ UNCHANGED vars
  BY DEF Next, Step, Running, PinSide, Moves

LEMMA PinSideEffect ==
  ASSUME IInv, NEW t \in Threads, PinSide(t)
  PROVE  /\ UNCHANGED queueVars
         /\ pc[t] \in Outside
         /\ \E p \in Outside : Goto(t, p)
         /\ R!TypeOK'
         /\ UNCHANGED <<linked, head, next, tail, ptr, retiredAt>>
         /\ Gone' = Gone
  <1> USE DEF Outside, R!TypeOK, IInv, Gone
  <1>1. CASE Enter(t)
    BY <1>1 DEF Enter, R!Pin, queueVars
  <1>2. CASE MoveEpoch(t)
    BY <1>2 DEF MoveEpoch, R!Advance, queueVars
  <1>3. CASE FreeGarbage(t)
    BY <1>3 DEF FreeGarbage, R!Free, queueVars
  <1>4. CASE Begin(t)
    BY <1>4 DEF Begin, epochVars, queueVars
  <1>5. CASE Leave(t)
    BY <1>5 DEF Leave, R!Unpin, queueVars
  <1> QED BY <1>1, <1>2, <1>3, <1>4, <1>5 DEF PinSide, InPin

LEMMA QueueStep == IInv /\ [Next]_vars => QueueInv'
  <1> SUFFICES ASSUME IInv, [Next]_vars PROVE QueueInv'
    OBVIOUS
  <1>0. QueueInv /\ QueueTypeOK
    BY DEF IInv, QueueInv
  <1>1. ASSUME NEW t \in Threads, PinSide(t), Look PROVE QueueInv'
    <2>1. PICK p \in Outside : Goto(t, p)
      BY <1>1, PinSideEffect
    <2>2. UNCHANGED queueVars /\ pc[t] \in Outside
      BY <1>1, PinSideEffect
    <2>3. saw' \in [Threads -> SUBSET Pointer]
      BY <1>0, <1>1, <2>2, LookType DEF queueVars, QueueTypeOK
    <2> QED BY <1>0, <2>1, <2>2, <2>3, OutsideStep
  <1>2. ASSUME NEW t \in Threads, Moves(t) \/ RetireOld(t), Look PROVE QueueInv'
    <2>1. Moving(t)
      BY <1>2 DEF Moves, RetireOld, Moving
    <2> QED BY <1>0, <1>2, <2>1, LookStep
  <1>3. CASE DropQueue /\ Look
    <2>1. saw' \in [Threads -> SUBSET Pointer]
      BY <1>0, <1>3, LookType DEF DropQueue, QueueTypeOK, Pointer
    <2>2. /\ UNCHANGED <<next, pc, op, node, ptr, succ, result, linked>>
          /\ head' = Null /\ tail' = Null
          /\ \A t \in Threads : pc[t] = "out"
      BY <1>3 DEF DropQueue
    <2>3. QueueTypeOK'
      BY <1>0, <2>1, <2>2 DEF QueueTypeOK, Pointer
    <2> QED
      BY <1>0, <2>2, <2>3 DEF QueueInv, ChainInv, EndInv, NewInv, ThreadInv, PushInv,
         PopInv, Linked, PushSteps, PopSteps
  <1>4. CASE UNCHANGED vars
    BY <1>0, <1>4 DEF vars, queueVars, QueueInv, QueueTypeOK, ChainInv, EndInv, NewInv,
       ThreadInv, PushInv, PopInv, Linked, NotAfter
  <1> QED BY <1>1, <1>2, <1>3, <1>4, NextCases

LEMMA EpochTypeStep == IInv /\ [Next]_vars => R!TypeOK'
  <1> SUFFICES ASSUME IInv, [Next]_vars PROVE R!TypeOK'
    OBVIOUS
  <1>1. ASSUME NEW t \in Threads, PinSide(t) PROVE R!TypeOK'
    BY <1>1, PinSideEffect
  <1>2. ASSUME NEW t \in Threads, Moves(t) PROVE R!TypeOK'
    BY <1>2 DEF Moves, epochVars, IInv, R!TypeOK
  <1>3. ASSUME NEW t \in Threads, RetireOld(t) PROVE R!TypeOK'
    <2>1. ptr[t] \in Nodes
      BY <1>3 DEF IInv, QueueInv, QueueTypeOK, Pointer, RetireOld, TakeData
    <2> QED BY <1>3, <2>1 DEF RetireOld, R!Retire, IInv, R!TypeOK
  <1>4. CASE DropQueue
    <2>1. Reachable \subseteq Nodes
      BY <1>4, ChainEntries, ReachableInOrder DEF DropQueue, IInv
    <2> QED BY <1>4, <2>1 DEF DropQueue, IInv, R!TypeOK
  <1>5. CASE UNCHANGED vars
    BY <1>5 DEF vars, epochVars, IInv, R!TypeOK
  <1> QED BY <1>1, <1>2, <1>3, <1>4, <1>5, NextCases

LEMMA PinStep == IInv /\ [Next]_vars => PinInv'
  <1> SUFFICES ASSUME IInv, [Next]_vars PROVE PinInv'
    OBVIOUS
  <1> USE DEF IInv, PinInv, R!TypeOK
  <1>0. pc \in [Threads -> Phase]
    BY DEF QueueInv, QueueTypeOK
  <1>1. CASE \E t \in Threads : Enter(t)
    BY <1>0, <1>1 DEF Enter, R!Pin, Goto
  <1>2. CASE \E t \in Threads : MoveEpoch(t)
    BY <1>0, <1>2 DEF MoveEpoch, R!Advance, Goto
  <1>3. CASE \E t \in Threads : FreeGarbage(t)
    BY <1>0, <1>3 DEF FreeGarbage, R!Free, Goto
  <1>4. CASE \E t \in Threads : Begin(t)
    BY <1>0, <1>4 DEF Begin, epochVars, Goto
  <1>5. CASE \E t \in Threads : Leave(t)
    BY <1>0, <1>5 DEF Leave, R!Unpin, Goto
  <1>6. ASSUME NEW t \in Threads, Moves(t) PROVE PinInv'
    <2>1. Moving(t) /\ UNCHANGED epochVars
      BY <1>6 DEF Moves, Moving
    <2>2. /\ \A u \in Threads \ {t} : pc'[u] = pc[u]
          /\ pc[t] # "out" /\ pc'[t] # "out"
      BY <2>1, MovingEffect DEF PushSteps, PopSteps
    <2> QED BY <2>1, <2>2 DEF epochVars
  <1>7. CASE \E t \in Threads : RetireOld(t)
    BY <1>0, <1>7 DEF RetireOld, TakeData, Finish, R!Retire, Goto
  <1>8. CASE DropQueue
    BY <1>8 DEF DropQueue
  <1>9. CASE UNCHANGED vars
    BY <1>9 DEF vars, epochVars
  <1> QED
    BY <1>1, <1>2, <1>3, <1>4, <1>5, <1>6, <1>7, <1>8, <1>9, NextCases
    DEF PinSide, InPin

LEMMA GarbageStep == IInv /\ [Next]_vars => GarbageInv'
  <1> SUFFICES ASSUME IInv, [Next]_vars PROVE GarbageInv'
    OBVIOUS
  <1>0. QueueInv /\ GarbageInv /\ pc \in [Threads -> Phase]
    BY DEF IInv, QueueInv, QueueTypeOK
  <1>1. ASSUME NEW t \in Threads, PinSide(t) PROVE GarbageInv'
    <2>1. PICK p \in Outside : pc' = [pc EXCEPT ![t] = p]
      BY <1>1, PinSideEffect DEF Goto
    <2>2. UNCHANGED <<linked, head, ptr>> /\ Gone' = Gone
      BY <1>1, PinSideEffect
    <2> QED BY <1>0, <2>1, <2>2 DEF GarbageInv, Garbage, Linked, NotAfter, Outside
  <1>2. ASSUME NEW t \in Threads, Moves(t) PROVE GarbageInv'
    <2>1. Gone' = Gone /\ (Pushing(t) \/ Popping(t) \/ Calling(t))
      BY <1>2 DEF Moves, epochVars, Gone
    <2> QED BY <1>0, <2>1, GarbageMoving DEF GarbageInv, Garbage
  <1>3. ASSUME NEW t \in Threads, RetireOld(t) PROVE GarbageInv'
    <2>1. TakeData(t) /\ Gone' = Gone \cup {ptr[t]}
      BY <1>3 DEF RetireOld, R!Retire, Gone
    <2> QED BY <1>0, <2>1, GarbageTaken DEF GarbageInv, Garbage
  <1>4. CASE DropQueue
    <2>1. Reachable \subseteq Linked
      BY <1>0, <1>4, ReachableInOrder DEF DropQueue
    <2> QED BY <1>0, <1>4, <2>1 DEF DropQueue, GarbageInv, Garbage, Gone, Linked
  <1>5. CASE UNCHANGED vars
    BY <1>0, <1>5 DEF vars, queueVars, epochVars, GarbageInv, Garbage, Gone, Linked,
       NotAfter
  <1> QED BY <1>1, <1>2, <1>3, <1>4, <1>5, NextCases

LEMMA PopSafeStep == IInv /\ [Next]_vars => PopSafe'
  <1> SUFFICES ASSUME IInv, [Next]_vars, NEW u \in Threads,
                      pc'[u] \in PopSteps \ {"pop_head"},
                      NEW n \in Gone', NotAfter(ptr[u], n)'
               PROVE  n \notin freed' /\ pinAt'[u] <= retiredAt'[n]
    BY DEF PopSafe
  <1>0. /\ QueueInv /\ GarbageInv /\ PopSafe /\ PinInv
        /\ pc \in [Threads -> Phase] /\ Gone \subseteq Linked
    BY DEF IInv, QueueInv, QueueTypeOK, GarbageInv, Garbage
  <1>a. /\ epoch \in Nat /\ pinAt \in [Threads -> Nat]
        /\ retiredAt \in [Nodes -> Nat]
    BY DEF IInv, R!TypeOK
  <1>1. ASSUME NEW t \in Threads, PinSide(t)
        PROVE  n \notin freed' /\ pinAt'[u] <= retiredAt'[n]
    <2>1. PICK p \in Outside : pc' = [pc EXCEPT ![t] = p]
      BY <1>1, PinSideEffect DEF Goto
    <2>2. UNCHANGED <<linked, ptr, retiredAt>> /\ Gone' = Gone
      BY <1>1, PinSideEffect
    <2>3. u # t /\ pc[u] = pc'[u]
      BY <1>0, <2>1 DEF Outside, PopSteps
    <2>4. n \notin freed /\ pinAt[u] <= retiredAt[n] /\ n \in Gone
      BY <1>0, <2>2, <2>3 DEF PopSafe, NotAfter
    <2>5. n \in Nodes
      BY <1>0, <2>4, ChainEntries
    <2>6. CASE FreeGarbage(t)
      <3>1. PICK S : R!Free(t, S)
        BY <2>6 DEF FreeGarbage
      <3>2. u \in pinned /\ epoch <= pinAt[u] + 1
        BY <1>0, <2>3 DEF PinInv, PopSteps
      <3>3. n \notin S
        <4>1. \A m \in S : retiredAt[m] + 2 <= epoch
          BY <3>1 DEF R!Free
        <4>2. ~(retiredAt[n] + 2 <= epoch)
          BY <1>a, <2>4, <2>5, <3>2
        <4> QED BY <4>1, <4>2
      <3> QED BY <2>2, <2>4, <3>1, <3>3 DEF R!Free
    <2>7. CASE ~FreeGarbage(t)
      <3>1. freed' = freed /\ pinAt'[u] = pinAt[u]
        BY <1>1, <1>a, <2>3, <2>7 DEF PinSide, InPin, Enter, MoveEpoch, Begin, Leave,
           R!Pin, R!Advance, R!Unpin, epochVars
      <3> QED BY <2>2, <2>4, <3>1
    <2> QED BY <2>6, <2>7
  <1>2. ASSUME NEW t \in Threads, Moves(t)
        PROVE  n \notin freed' /\ pinAt'[u] <= retiredAt'[n]
    <2>1. Moving(t) /\ UNCHANGED epochVars /\ Gone' = Gone
      BY <1>2 DEF Moves, Moving, epochVars, Gone
    <2>2. \/ ptr'[u] = head /\ head # Null
          \/ ptr'[u] = ptr[u] /\ pc[u] \in PopSteps \ {"pop_head"}
      BY <1>0, <2>1, MovingEffect DEF PopSteps
    <2>3. ptr'[u] \in Linked
      BY <1>0, <2>2, ChainEntries DEF QueueInv, ThreadInv, PopInv
    <2>4. NotAfter(ptr'[u], n)
      <3>1. PICK m \in Linked : m = ptr'[u]
        BY <2>3
      <3>2. NotAfter(m, n)'
        BY <3>1 DEF NotAfter
      <3>3. NotAfter(m, n)
        BY <1>0, <2>1, <3>2, OrderKept
      <3> QED BY <3>1, <3>3
    <2>5. ptr'[u] = ptr[u] /\ pc[u] \in PopSteps \ {"pop_head"}
      BY <1>0, <2>1, <2>2, <2>4 DEF GarbageInv, Garbage
    <2> QED BY <1>0, <2>1, <2>4, <2>5 DEF PopSafe, epochVars
  <1>3. ASSUME NEW t \in Threads, RetireOld(t)
        PROVE  n \notin freed' /\ pinAt'[u] <= retiredAt'[n]
    <2>1. /\ pc' = [pc EXCEPT ![t] = "return"] /\ UNCHANGED <<linked, freed, pinAt>>
          /\ Gone' = Gone \cup {ptr[t]}
          /\ retiredAt' = [retiredAt EXCEPT ![ptr[t]] = epoch]
          /\ \A x \in Threads \ {t} : ptr'[x] = ptr[x]
          /\ ptr[t] \notin freed /\ ptr[t] \in Nodes
      BY <1>0, <1>3 DEF RetireOld, TakeData, Finish, Goto, R!Retire, Gone, QueueInv,
         QueueTypeOK, Pointer
    <2>2. u # t /\ pc[u] \in PopSteps \ {"pop_head"} /\ ptr'[u] = ptr[u]
      BY <1>0, <2>1 DEF PopSteps
    <2>3. NotAfter(ptr[u], n)
      BY <2>1, <2>2 DEF NotAfter
    <2>4. u \in pinned /\ pinAt[u] <= epoch
      BY <1>0, <2>2 DEF PinInv, PopSteps
    <2>5. CASE n = ptr[t]
      BY <1>a, <2>1, <2>4, <2>5
    <2>6. CASE n # ptr[t]
      <3>1. n \in Gone /\ n \in Nodes
        BY <1>0, <2>1, <2>6, ChainEntries
      <3>2. n \notin freed /\ pinAt[u] <= retiredAt[n]
        BY <1>0, <2>2, <2>3, <3>1 DEF PopSafe
      <3> QED BY <1>a, <2>1, <2>6, <3>1, <3>2
    <2> QED BY <2>5, <2>6
  <1>4. CASE DropQueue
    BY <1>4 DEF DropQueue, PopSteps
  <1>5. CASE UNCHANGED vars
    BY <1>0, <1>5 DEF vars, queueVars, epochVars, PopSafe, Gone, NotAfter
  <1> QED BY <1>1, <1>2, <1>3, <1>4, <1>5, NextCases

LEMMA LeakStep == IInv /\ [Next]_vars => LeakInv'
  <1> SUFFICES ASSUME IInv, [Next]_vars, NEW n \in Linked'
               PROVE  \/ n \in Gone'
                      \/ head' # Null /\ NotAfter(head, n)'
                      \/ \E t \in Threads : pc'[t] = "pop_take" /\ ptr'[t] = n
    BY DEF LeakInv, NoLeak
  <1>0. QueueInv /\ GarbageInv /\ LeakInv /\ pc \in [Threads -> Phase]
    BY DEF IInv, QueueInv, QueueTypeOK
  <1>1. ASSUME NEW t \in Threads, PinSide(t)
        PROVE  \/ n \in Gone'
               \/ head' # Null /\ NotAfter(head, n)'
               \/ \E u \in Threads : pc'[u] = "pop_take" /\ ptr'[u] = n
    <2>1. PICK p \in Outside : pc' = [pc EXCEPT ![t] = p]
      BY <1>1, PinSideEffect DEF Goto
    <2>2. UNCHANGED <<linked, head, ptr>> /\ Gone' = Gone /\ pc[t] \in Outside
      BY <1>1, PinSideEffect
    <2> QED BY <1>0, <2>1, <2>2 DEF LeakInv, NoLeak, Linked, NotAfter, Outside
  <1>2. ASSUME NEW t \in Threads, Moves(t)
        PROVE  \/ n \in Gone'
               \/ head' # Null /\ NotAfter(head, n)'
               \/ \E u \in Threads : pc'[u] = "pop_take" /\ ptr'[u] = n
    <2>1. Gone' = Gone /\ (Pushing(t) \/ Popping(t) \/ Calling(t))
      BY <1>2 DEF Moves, epochVars, Gone
    <2> QED BY <1>0, <2>1, LeakMoving DEF GarbageInv, Garbage, LeakInv, NoLeak
  <1>3. ASSUME NEW t \in Threads, RetireOld(t)
        PROVE  \/ n \in Gone'
               \/ head' # Null /\ NotAfter(head, n)'
               \/ \E u \in Threads : pc'[u] = "pop_take" /\ ptr'[u] = n
    <2>1. TakeData(t) /\ Gone' = Gone \cup {ptr[t]}
      BY <1>3 DEF RetireOld, R!Retire, Gone
    <2> QED BY <1>0, <2>1, LeakTaken DEF LeakInv, NoLeak
  <1>4. CASE DropQueue
    <2>1. Reachable = {m \in Linked : NotAfter(head, m)} /\ head # Null
      BY <1>0, <1>4, ReachableInOrder DEF DropQueue
    <2>2. n \in Linked /\ \A t \in Threads : pc[t] = "out"
      BY <1>4 DEF DropQueue, Linked
    <2>3. n \in Gone \/ NotAfter(head, n)
      BY <1>0, <2>2 DEF LeakInv, NoLeak
    <2> QED BY <1>4, <2>1, <2>2, <2>3 DEF DropQueue, Gone
  <1>5. CASE UNCHANGED vars
    BY <1>0, <1>5 DEF vars, queueVars, epochVars, LeakInv, NoLeak, Gone, Linked, NotAfter
  <1> QED BY <1>1, <1>2, <1>3, <1>4, <1>5, NextCases
-----------------------------------------------------------------------------
LEMMA IndInit == Init => IInv
  <1> SUFFICES ASSUME Init PROVE IInv
    OBVIOUS
  <1>1. QueueInv
    BY QueueStart DEF Init, Outside
  <1>2. R!TypeOK
    BY DEF Init, R!Init, R!TypeOK
  <1>3. \A t \in Threads : pc[t] = "out"
    BY DEF Init, QueueInit
  <1>4. PinInv /\ GarbageInv /\ PopSafe
    BY <1>3 DEF Init, R!Init, PinInv, GarbageInv, Garbage, Gone, PopSafe, PopSteps
  <1>5. LeakInv
    <2>1. PICK s \in Nodes : head = s /\ linked = <<s>>
      BY DEF Init, QueueInit
    <2>2. Linked = {s} /\ s # Null
      BY <2>1, QueueAssumption DEF Linked
    <2> QED BY <1>1, <2>1, <2>2, ChainEntries DEF LeakInv, NoLeak
  <1> QED BY <1>1, <1>2, <1>4, <1>5 DEF IInv

LEMMA IndStep == IInv /\ [Next]_vars => IInv'
  BY QueueStep, EpochTypeStep, PinStep, GarbageStep, PopSafeStep, LeakStep DEF IInv

(* What holds in every state of ebr/queue.rs under the rule of epochs: the *)
(* history of the queue, where its garbage is, and who may still look.     *)
THEOREM Inductive == Spec => []IInv
  BY IndInit, IndStep, PTL DEF Spec

(* The types of the queue and of the epochs are those of the module; no    *)
(* pointer is null where push, pop, pop_if or is_empty follows it          *)
(* (queue.rs:72-222).                                                      *)
THEOREM TypeCorrect == Spec => []TypeOK
  <1>1. IInv => TypeOK
    BY DEF IInv, QueueInv, TypeOK
  <1> QED BY <1>1, Inductive, PTL

(* The links of queue.rs are the order of the pushes, and the tail is the  *)
(* last node or the one before, whatever the threads do.                   *)
THEOREM LinksAreHistory == Spec => []ChainInOrder
  <1>1. IInv => ChainInOrder
    BY ChainFollows DEF IInv
  <1> QED BY <1>1, Inductive, PTL

(* What pop hands to add_garbage (queue.rs:150, 197) is out of reach from  *)
(* the head, and nobody has handed it over before, for any number of       *)
(* threads that push and pop.                                              *)
THEOREM RetiresUnreachable == Spec => []GarbageIsUnreachable
  <1>1. ASSUME IInv PROVE GarbageIsUnreachable
    <2>1. Reachable \cap Gone = {}
      BY <1>1, ReachableInOrder DEF IInv, GarbageInv, Garbage, Reachable
    <2> QED BY <1>1, <2>1 DEF IInv, GarbageInv, Garbage, GarbageIsUnreachable, Gone
  <1> QED BY <1>1, Inductive, PTL

(* No node is lost: when the queue has been dropped each node that was     *)
(* ever linked is freed, or waits as garbage (queue.rs:225-238).           *)
THEOREM LeaksNothing == Spec => []NothingLeaked
  <1>1. ASSUME IInv PROVE NothingLeaked
    BY <1>1 DEF IInv, LeakInv, NoLeak, QueueInv, ThreadInv, PopSteps, NothingLeaked, Gone
  <1> QED BY <1>1, Inductive, PTL

(* No operation that looks at the head accesses a node that was freed.     *)
PopsAreSafe ==
  \A t \in Threads : pc[t] \in PopSteps => Accessed(t) \cap freed = {}

LEMMA PopAccess == IInv => PopsAreSafe
  <1> SUFFICES ASSUME IInv, NEW t \in Threads, pc[t] \in PopSteps,
                      NEW n \in Accessed(t)
               PROVE  n \notin freed
    BY DEF PopsAreSafe
  <1>1. pc[t] # "pop_head" /\ ptr[t] \in Linked
    BY DEF Accessed, IInv, QueueInv, ThreadInv, PopInv
  <1>2. n = ptr[t] \/ (n = next[ptr[t]] /\ n # Null)
    BY DEF Accessed, IInv, QueueInv, QueueTypeOK, ThreadInv, PopInv, PopSteps
  <1>3. NotAfter(ptr[t], n)
    BY <1>1, <1>2, ChainEntries, NextInOrder DEF IInv
  <1> QED BY <1>1, <1>3 DEF IInv, PopSafe, Gone

(* What a thread accesses to pop, pop_if or ask is_empty (ebr/queue.rs)    *)
(* has not been freed, however many threads push: `pin` protects the       *)
(* readers.                                                                *)
THEOREM PopsSafe == Spec => []PopsAreSafe
  BY PopAccess, Inductive, PTL
-----------------------------------------------------------------------------
(* With one thread that pushes. *)
LEMMA TailStep ==
  ASSUME OnePusher, IInv, TailInv, [Next]_vars
  PROVE  TailInv'
  <1>0. /\ QueueInv /\ QueueTypeOK /\ pc \in [Threads -> Phase]
        /\ next \in [Nodes -> Pointer]
    BY DEF IInv, QueueInv, QueueTypeOK
  <1>1. ASSUME NEW t \in Threads, PinSide(t) PROVE TailInv'
    <2>1. PICK p \in Outside : pc' = [pc EXCEPT ![t] = p]
      BY <1>1, PinSideEffect DEF Goto
    <2>2. UNCHANGED <<head, tail, next, ptr, node>> /\ pc[t] \in Outside
      BY <1>1, PinSideEffect DEF queueVars
    <2> QED BY <1>0, <2>1, <2>2 DEF TailInv, Outside, PushSteps
  <1>2. ASSUME NEW t \in Threads, Moving(t) PROVE TailInv'
    BY <1>0, <1>2, TailMoving
  <1>5. CASE DropQueue
    BY <1>5 DEF DropQueue, TailInv, PushSteps
  <1>6. CASE UNCHANGED vars
    BY <1>6 DEF vars, queueVars, TailInv
  <1> QED BY <1>1, <1>2, <1>5, <1>6, NextCases DEF Moves, RetireOld, Moving

LEMMA Safe ==
  ASSUME OnePusher, IInv, TailInv
  PROVE  NoUseAfterFree
  <1> SUFFICES ASSUME NEW t \in Threads, pc[t] \notin PopSteps, NEW n \in Accessed(t)
               PROVE  n \notin freed
    BY PopAccess DEF PopsAreSafe, NoUseAfterFree
  <1>1. pc[t] \in {"push_next", "push_link"} /\ n = ptr[t] /\ ptr[t] = tail
    BY DEF Accessed, TailInv, PopSteps
  <1>2. head # Null /\ NotAfter(head, tail)
    BY <1>1, LastIsAhead DEF IInv
  <1> QED BY <1>1, <1>2 DEF IInv, GarbageInv, Garbage, Gone

(* If one thread pushes, no operation of queue.rs accesses a node that was *)
(* freed, for any number of threads that pop.  Two that push may: then the *)
(* tail lags behind the head.                                              *)
THEOREM OnePusherSafe ==
  ASSUME OnePusher
  PROVE  Spec => []NoUseAfterFree
  <1>1. Init => TailInv
    BY TailStart DEF Init, Outside
  <1>2. IInv /\ TailInv /\ [Next]_vars => TailInv'
    BY TailStep
  <1>3. IInv /\ TailInv => NoUseAfterFree
    BY Safe
  <1> QED BY <1>1, <1>2, <1>3, Inductive, PTL DEF Spec
=============================================================================
