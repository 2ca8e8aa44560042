--------------------------- MODULE HpQueueProofs ---------------------------
(* Theorems about HpQueue for any number of threads, nodes and slots.      *)
EXTENDS HpQueue, MSQueueProofs, SequenceTheorems

(* The nodes that are on their way to be freed, or were. *)
Gone == H!Deferred \cup H!Victims \cup freed

(* What goes with what: a thread frees at the end of its pop, and protects *)
(* what it has loaded last.                                                *)
PlaceInv(t) ==
  /\ pc[t] \notin {"out", "enter", "free", "push_check", "pop_read"}
  /\ op[t] \in {"none", "push", "pop"}
  /\ guard[t] \in {"register", "validate"} =>
       pc[t] \in {"push_next", "pop_next", "pop_cas"}
  /\ guard[t] = "leave" => pc[t] \in {"push_tail", "pop_head", "return"}
  /\ guard[t] = "next" => fpc[t] = "start"
  /\ fpc[t] # "idle" => pc[t] = "return" /\ guard[t] \in {"next", "none"}
  /\ victim[t] = Null <=> fpc[t] \in {"idle", "pop"}
  /\ fpc[t] \notin {"scan", "spin"} => at[t] = 1

(* The slots are a stack of at most two: the head or tail that was loaded, *)
(* and the node after the head.                                            *)
StackInv(t) ==
  /\ \A i \in H!Slots : i > 2 => slots[t][i] = Null
  /\ slots[t][1] = Null => slots[t][2] = Null
  /\ slots[t][2] # Null => slots[t][1] # slots[t][2]

SlotInv(t) ==
  /\ \/ guard[t] = "none" /\ pc[t] \in {"work", "push_tail", "pop_head"}
     \/ guard[t] = "register" /\ pc[t] # "pop_cas"
     \/ guard[t] = "none" /\ pc[t] = "return" /\ fpc[t] # "start"
     => slots[t][1] = Null
  /\ \/ guard[t] # "register" /\ pc[t] \in {"push_next", "pop_next"}
     \/ pc[t] \in {"push_link", "push_help", "push_swing", "pop_cas", "pop_take"}
     => slots[t][1] = ptr[t]
  /\ fpc[t] = "start" => slots[t][1] = victim[t]
  /\ guard[t] = "leave" => slots[t][1] # Null
  /\ \/ guard[t] # "register" /\ pc[t] = "pop_cas"
     \/ pc[t] = "pop_take"
     => slots[t][2] = succ[t]
  /\ guard[t] = "next" => slots[t][2] # Null
  /\ \/ guard[t] \notin {"leave", "next"} /\ pc[t] \notin {"pop_cas", "pop_take"}
     \/ guard[t] = "register"
     => slots[t][2] = Null

GarbageInv == Garbage(Gone)

(* Slot i of the scan is slot k of thread t. *)
IsSlot(i, t, k) ==
  Entries[((i - 1) \div NumHp) + 1] = t /\ ((i - 1) % NumHp) + 1 = k

(* The slot k of t keeps n: n was not garbage yet when it was put there,   *)
(* so that who is to free it has not read the slot so far.                 *)
Keeps(t, k, n) ==
  /\ n \notin freed
  /\ \A u \in Threads : victim[u] = n =>
       /\ fpc[u] # "drop"
       /\ \A i \in 1..H!Last : IsSlot(i, t, k) => i >= at[u]

(* A head that was validated is kept until the pop gives up, and its       *)
(* successor once it is the head.                                          *)
KeepInv(t) ==
  /\ \/ pc[t] = "pop_next" /\ guard[t] = "none"
     \/ pc[t] = "pop_cas"
     => Keeps(t, 1, ptr[t])
  /\ pc[t] = "pop_take" => Keeps(t, 2, succ[t])

LeakInv ==
  /\ NoLeak(Gone)
  /\ head = Null => \A t \in Threads : pc[t] = "work"

IInv ==
  /\ QueueInv /\ TypeOK /\ GarbageInv /\ H!FreedOnce /\ LeakInv
  /\ \A t \in Threads : PlaceInv(t) /\ StackInv(t) /\ SlotInv(t) /\ KeepInv(t)
-----------------------------------------------------------------------------
(* What a queue of distinct nodes is after an addition, and after a        *)
(* removal.                                                                *)
InQueue(q) == {q[i] : i \in DOMAIN q}
Once(q) == \A i, j \in DOMAIN q : q[i] = q[j] => i = j

LEMMA Appended ==
  ASSUME NEW q \in Seq(Nodes), NEW n \in Nodes
  PROVE  /\ Append(q, n) \in Seq(Nodes)
         /\ InQueue(Append(q, n)) = InQueue(q) \cup {n}
         /\ Once(q) /\ n \notin InQueue(q) => Once(Append(q, n))
  <1>1. PICK l \in Nat : /\ DOMAIN q = 1..l /\ DOMAIN Append(q, n) = 1..l + 1
                         /\ \A i \in 1..l : Append(q, n)[i] = q[i]
                         /\ Append(q, n)[l + 1] = n
    <2>1. Len(q) \in Nat /\ DOMAIN q = 1..Len(q)
      BY LenProperties
    <2>2. /\ DOMAIN Append(q, n) = 1..Len(q) + 1
          /\ \A i \in 1..Len(q) : Append(q, n)[i] = q[i]
          /\ Append(q, n)[Len(q) + 1] = n
      BY AppendProperties, LenProperties
    <2> QED BY <2>1, <2>2
  <1>2. Append(q, n) \in Seq(Nodes)
    BY AppendProperties
  <1>3. InQueue(Append(q, n)) = InQueue(q) \cup {n}
    BY <1>1 DEF InQueue
  <1>4. Once(q) /\ n \notin InQueue(q) => Once(Append(q, n))
    BY <1>1 DEF InQueue, Once
  <1> QED BY <1>2, <1>3, <1>4

LEMMA Removed ==
  ASSUME NEW q \in Seq(Nodes), q # <<>>
  PROVE  /\ Tail(q) \in Seq(Nodes) /\ Head(q) \in Nodes
         /\ InQueue(q) = InQueue(Tail(q)) \cup {Head(q)}
         /\ Once(q) => Once(Tail(q)) /\ Head(q) \notin InQueue(Tail(q))
  <1>1. Tail(q) \in Seq(Nodes) /\ Head(q) \in Nodes
    BY HeadTailProperties
  <1>2. PICK l \in Nat : /\ DOMAIN q = 1..l + 1 /\ DOMAIN Tail(q) = 1..l
                         /\ \A i \in 1..l : Tail(q)[i] = q[i + 1]
                         /\ Head(q) = q[1]
    <2>1. PICK m \in Nat : Len(q) = m + 1
      <3>1. Len(q) \in Nat /\ Len(q) # 0
        BY EmptySeq, LenProperties
      <3>2. Len(q) - 1 \in Nat /\ Len(q) = (Len(q) - 1) + 1
        BY <3>1
      <3> QED BY <3>2
    <2>2. Len(Tail(q)) = m /\ DOMAIN q = 1..m + 1
      BY <2>1, HeadTailProperties, LenProperties
    <2>3. DOMAIN Tail(q) = 1..m /\ Head(q) = q[1]
      BY <1>1, <2>2, HeadTailProperties, LenProperties
    <2>4. \A i \in 1..m : Tail(q)[i] = q[i + 1]
      BY <2>2, HeadTailProperties
    <2> QED BY <2>2, <2>3, <2>4
  <1>3. InQueue(q) = InQueue(Tail(q)) \cup {Head(q)}
    <2>1. ASSUME NEW i \in 1..l + 1 PROVE q[i] \in InQueue(Tail(q)) \cup {Head(q)}
      <3>1. i = 1 \/ (i - 1 \in 1..l /\ (i - 1) + 1 = i)
        BY <2>1
      <3> QED BY <1>2, <3>1 DEF InQueue
    <2>2. ASSUME NEW i \in 1..l PROVE Tail(q)[i] \in InQueue(q)
      <3>1. i + 1 \in 1..l + 1
        BY <2>2
      <3> QED BY <1>2, <3>1 DEF InQueue
    <2>3. Head(q) \in InQueue(q)
      BY <1>2 DEF InQueue
    <2> QED BY <1>2, <2>1, <2>2, <2>3 DEF InQueue
  <1>4. ASSUME Once(q) PROVE Once(Tail(q)) /\ Head(q) \notin InQueue(Tail(q))
    BY <1>2, <1>4 DEF InQueue, Once
  <1> QED BY <1>1, <1>3, <1>4

(* The least and the greatest of a set, as CHOOSE finds them.              *)
LEMMA FirstIs ==
  ASSUME NEW S \in SUBSET Nat, NEW m \in S, \A j \in S : m <= j
  PROVE  H!First(S) = m
  <1>1. \A i \in S : (\A j \in S : i <= j) => i = m
    OBVIOUS
  <1> QED BY <1>1 DEF H!First

(* What scan_addr reads, slot by slot, is all slots of all threads.        *)
LEMMA ScanMeets ==
  ASSUME NEW t \in Threads, NEW k \in H!Slots
  PROVE  /\ H!Last \in Nat \ {0}
         /\ \E i \in 1..H!Last : IsSlot(i, t, k)
  <1>1. PICK e \in 1..Len(Entries) : Entries[e] = t
    BY HpQueueAssumption, LenProperties DEF H!HazardConstants
  <1>2. NumHp \in Nat \ {0} /\ Len(Entries) \in Nat /\ k \in 1..NumHp
    BY HpQueueAssumption, LenProperties DEF H!HazardConstants, H!Slots
  <1> DEFINE i == (e - 1) * NumHp + k
  <1>3. (e - 1) * NumHp \in Nat /\ i - 1 = (e - 1) * NumHp + (k - 1)
    BY <1>1, <1>2
  <1>4. i \in 1..H!Last
    <2>1. (Len(Entries) - e) * NumHp \in Nat
      BY <1>1, <1>2
    <2>2. H!Last = (e - 1) * NumHp + NumHp + (Len(Entries) - e) * NumHp
      BY <1>1, <1>2 DEF H!Last
    <2> QED BY <1>2, <1>3, <2>1, <2>2
  <1>5. (i - 1) \div NumHp = e - 1 /\ (i - 1) % NumHp = k - 1
    BY <1>1, <1>2, <1>3
  <1>6. IsSlot(i, t, k)
    BY <1>1, <1>2, <1>5 DEF IsSlot
  <1>7. H!Last \in Nat
    BY <1>2 DEF H!Last
  <1>8. H!Last # 0
    BY <1>4, <1>7
  <1> QED BY <1>4, <1>6, <1>7, <1>8

(* A node that is no garbage is kept by whoever has it in a slot.          *)
LEMMA KeptWhileReached ==
  \A n \in Nodes \ Gone : \A t, k : Keeps(t, k, n)
  BY QueueAssumption DEF Gone, H!Victims, Keeps

LEMMA KeptNext ==
  (\A n \in Nodes \ Gone : \A t, k : Keeps(t, k, n))'
  BY KeptWhileReached, PTL
-----------------------------------------------------------------------------
(* The steps of the thread that has something to do about protection. *)
Guarding(t) == RegisterLoaded(t) \/ Validate(t) \/ Leave(t)

LEMMA NextCases ==
  ASSUME [Next]_vars
  PROVE  \/ \E t \in Threads :
              /\ \/ QueueStep(t)
                 \/ Ready(t) /\ Calling(t) /\ UNCHANGED <<hazardVars, guard>>
                 \/ Guarding(t) \/ FreeOld(t) \/ Freeing(t)
              /\ UNCHANGED saw
         \/ DropQueue /\ UNCHANGED saw
         \/ UNCHANGED vars
  BY DEF Next, Step, Running, Guarding

(* What a thread does is its own affair.                                   *)
LEMMA QueueStepIs ==
  ASSUME NEW t \in Threads, QueueStep(t)
  PROVE  Moving(t) /\ UNCHANGED hazardVars /\ Ready(t) /\ AfterStep(t)
  BY DEF QueueStep, Moving

Others(t) ==
  \A u \in Threads \ {t} :
    /\ pc'[u] = pc[u] /\ ptr'[u] = ptr[u] /\ succ'[u] = succ[u] /\ op'[u] = op[u]
    /\ guard'[u] = guard[u] /\ slots'[u] = slots[u]
    /\ fpc'[u] = fpc[u] /\ victim'[u] = victim[u] /\ at'[u] = at[u]
-----------------------------------------------------------------------------
(* What becomes of the slots of a thread, as a stack of two.               *)
Stack(t, a, b) ==
  /\ slots[t][1] = a /\ slots[t][2] = b
  /\ \A i \in H!Slots : i > 2 => slots[t][i] = Null

SlotsType == slots \in [Threads -> [H!Slots -> Nodes \cup {Null}]]

OtherSlots(t) == \A u \in Threads \ {t} : slots'[u] = slots[u]

LEMMA TwoSlots == 1 \in H!Slots /\ 2 \in H!Slots /\ H!Slots \subseteq Nat
  BY HpQueueAssumption DEF H!Slots, H!HazardConstants

LEMMA SlotSet ==
  ASSUME SlotsType, NEW t \in Threads, NEW i \in H!Slots,
         NEW n \in Nodes \cup {Null}, H!SetSlot(t, i, n)
  PROVE  /\ SlotsType' /\ OtherSlots(t)
         /\ slots'[t][i] = n
         /\ \A j \in H!Slots \ {i} : slots'[t][j] = slots[t][j]
  BY DEF SlotsType, H!SetSlot, OtherSlots

LEMMA Registers ==
  ASSUME SlotsType, NEW t \in Threads, NEW a \in Nodes \cup {Null},
         Stack(t, a, Null), NEW n \in Nodes, H!Register(t, n)
  PROVE  /\ SlotsType' /\ OtherSlots(t)
         /\ a = Null => Stack(t, n, Null)'
         /\ a # Null => Stack(t, a, n)'
  <1> USE TwoSlots
  <1>1. H!Holds(t, Null) \subseteq Nat
    BY DEF H!Holds
  <1>2. CASE a = Null
    <2>1. 1 \in H!Holds(t, Null) /\ \A j \in H!Holds(t, Null) : 1 <= j
      BY <1>2 DEF Stack, H!Holds, H!Slots
    <2>2. H!SetSlot(t, 1, n)
      BY <1>1, <2>1, FirstIs DEF H!Register
    <2> QED BY <1>2, <2>2, SlotSet DEF Stack
  <1>3. CASE a # Null
    <2>1. 2 \in H!Holds(t, Null) /\ \A j \in H!Holds(t, Null) : 2 <= j
      BY <1>3 DEF Stack, H!Holds, H!Slots
    <2>2. H!SetSlot(t, 2, n)
      BY <1>1, <2>1, FirstIs DEF H!Register
    <2> QED BY <1>3, <2>2, SlotSet DEF Stack
  <1> QED BY <1>2, <1>3

LEMMA Deregisters ==
  ASSUME SlotsType, NEW t \in Threads, NEW a \in Nodes, NEW b \in Nodes \cup {Null},
         Stack(t, a, b), a # b
  PROVE  /\ H!Deregister(t, a) => SlotsType' /\ OtherSlots(t) /\ Stack(t, Null, b)'
         /\ b # Null /\ H!Deregister(t, b) =>
              SlotsType' /\ OtherSlots(t) /\ Stack(t, a, Null)'
  <1> USE TwoSlots
  <1>1. H!Holds(t, a) \subseteq Nat /\ H!Holds(t, b) \subseteq Nat
    BY DEF H!Holds
  <1>2. ASSUME H!Deregister(t, a)
        PROVE  SlotsType' /\ OtherSlots(t) /\ Stack(t, Null, b)'
    <2>1. 1 \in H!Holds(t, a) /\ \A j \in H!Holds(t, a) : 1 <= j
      BY DEF Stack, H!Holds, H!Slots
    <2>2. H!SetSlot(t, 1, Null)
      BY <1>1, <1>2, <2>1, FirstIs DEF H!Deregister
    <2> QED BY <2>2, SlotSet DEF Stack
  <1>3. ASSUME b # Null, H!Deregister(t, b)
        PROVE  SlotsType' /\ OtherSlots(t) /\ Stack(t, a, Null)'
    <2>1. 2 \in H!Holds(t, b) /\ \A j \in H!Holds(t, b) : 2 <= j
      BY <1>3 DEF Stack, H!Holds, H!Slots
    <2>2. H!SetSlot(t, 2, Null)
      BY <1>1, <1>3, <2>1, FirstIs DEF H!Deregister
    <2> QED BY <2>2, SlotSet DEF Stack
  <1> QED BY <1>2, <1>3

(* The HazardPtr made last is the one on top.                              *)
LEMMA LastUsedIs ==
  ASSUME SlotsType, NEW t \in Threads, NEW a \in Nodes, NEW b \in Nodes \cup {Null},
         Stack(t, a, b)
  PROVE  /\ b = Null => LastUsed(t) = 1 /\ Used(t) = {1}
         /\ b # Null => LastUsed(t) = 2 /\ Used(t) = {1, 2}
  <1>1. Used(t) = IF b = Null THEN {1} ELSE {1, 2}
    BY TwoSlots, QueueAssumption DEF Used, Stack, H!Slots
  <1>2. CASE b = Null
    <2>1. LastUsed(t) = CHOOSE i \in {1} : \A j \in {1} : j <= i
      BY <1>1, <1>2 DEF LastUsed
    <2> QED BY <1>1, <1>2, <2>1
  <1>3. CASE b # Null
    <2>1. LastUsed(t) = CHOOSE i \in {1, 2} : \A j \in {1, 2} : j <= i
      BY <1>1, <1>3 DEF LastUsed
    <2>2. \A i \in {1, 2} : (\A j \in {1, 2} : j <= i) <=> i = 2
      OBVIOUS
    <2> QED BY <1>1, <1>3, <2>1, <2>2
  <1> QED BY <1>2, <1>3
-----------------------------------------------------------------------------
(* Where a thread is and what its slots hold, after each of its steps.     *)
ThreadOK(t) == PlaceInv(t) /\ StackInv(t) /\ SlotInv(t)

GuardType == guard \in [Threads -> {"none", "register", "validate", "leave", "next"}]

LEMMA Known ==
  ASSUME IInv
  PROVE  /\ QueueTypeOK /\ QueueInv /\ H!TypeOK /\ SlotsType /\ GuardType
         /\ \A t \in Threads : ThreadOK(t) /\ ThreadInv(t)
  BY DEF IInv, TypeOK, H!TypeOK, SlotsType, GuardType, ThreadOK, QueueInv

LEMMA OthersOK ==
  ASSUME NEW t \in Threads, Others(t), NEW u \in Threads \ {t}, ThreadOK(u)
  PROVE  ThreadOK(u)'
  <1>1. UNCHANGED <<pc[u], ptr[u], succ[u], op[u], guard[u], slots[u], fpc[u],
                    victim[u], at[u]>>
    BY DEF Others
  <1>2. PlaceInv(u)'
    BY <1>1 DEF ThreadOK, PlaceInv
  <1>3. StackInv(u)'
    BY <1>1 DEF ThreadOK, StackInv, H!Slots
  <1>4. SlotInv(u)'
    BY <1>1 DEF ThreadOK, SlotInv
  <1> QED BY <1>2, <1>3, <1>4 DEF ThreadOK

LEMMA QueueStepOK ==
  ASSUME IInv, NEW t \in Threads, QueueStep(t)
  PROVE  GuardType' /\ Others(t) /\ ThreadOK(t)'
  <1>0. /\ QueueTypeOK /\ GuardType /\ ThreadOK(t) /\ UNCHANGED hazardVars
        /\ guard[t] = "none" /\ fpc[t] = "idle" /\ AfterStep(t)
    BY Known DEF QueueStep, Ready
  <1>1. /\ UNCHANGED <<slots, fpc, victim, at>>
        /\ \A u \in Threads \ {t} : guard'[u] = guard[u]
        /\ GuardType'
        /\ guard'[t] =
             IF pc'[t] \in {"push_next", "pop_next", "pop_cas"} THEN "register"
             ELSE IF pc'[t] \in {"push_tail", "pop_head", "return"} THEN "leave"
             ELSE "none"
    BY <1>0 DEF hazardVars, freeVars, AfterStep, Guard, GuardType
  <1>2. StackInv(t)'
    BY <1>0, <1>1 DEF ThreadOK, StackInv, H!Slots
  <1> USE DEF QueueTypeOK, Goto, PlaceInv, SlotInv, ThreadOK
  <1>3. CASE LoadTail(t)
    BY <1>0, <1>1, <1>2, <1>3 DEF LoadTail, Others
  <1>4. CASE LoadTailNext(t)
    BY <1>0, <1>1, <1>2, <1>4 DEF LoadTailNext, Others
  <1>5. CASE HelpTail(t)
    BY <1>0, <1>1, <1>2, <1>5 DEF HelpTail, Others
  <1>6. CASE LinkNode(t)
    BY <1>0, <1>1, <1>2, <1>6 DEF LinkNode, Others
  <1>7. CASE SwingTail(t)
    <2>1. ptr[t] # Null
      BY <1>0, <1>7 DEF SwingTail
    <2> QED BY <1>0, <1>1, <1>2, <1>7, <2>1 DEF SwingTail, Finish, Others
  <1>8. CASE LoadHead(t)
    BY <1>0, <1>1, <1>2, <1>8 DEF LoadHead, Others
  <1>9. CASE LoadHeadNext(t)
    BY <1>0, <1>1, <1>2, <1>9 DEF LoadHeadNext, Finish, Others
  <1>10. CASE ReadFirst(t)
    BY <1>0, <1>10 DEF ReadFirst
  <1>11. CASE SwingHead(t)
    BY <1>0, <1>1, <1>2, <1>11 DEF SwingHead, Finish, Others
  <1> QED
    BY <1>3, <1>4, <1>5, <1>6, <1>7, <1>8, <1>9, <1>10, <1>11
    DEF QueueStep, Pushing, Popping

LEMMA CallingOK ==
  ASSUME IInv, NEW t \in Threads, Ready(t), Calling(t), UNCHANGED <<hazardVars, guard>>
  PROVE  Others(t) /\ ThreadOK(t)'
  <1>0. /\ QueueTypeOK /\ ThreadOK(t) /\ guard[t] = "none" /\ fpc[t] = "idle"
        /\ UNCHANGED <<slots, fpc, victim, at, guard>>
        /\ May[t] \subseteq {"push", "pop"}
    BY Known, HpQueueAssumption DEF Ready, hazardVars, freeVars
  <1>1. StackInv(t)'
    BY <1>0 DEF ThreadOK, StackInv, H!Slots
  <1> USE DEF QueueTypeOK, Goto, PlaceInv, SlotInv, ThreadOK
  <1>2. CASE Return(t)
    BY <1>0, <1>1, <1>2 DEF Return, Others
  <1>3. ASSUME NEW o \in Ops, CallPush(t, o) PROVE Others(t) /\ ThreadOK(t)'
    BY <1>0, <1>1, <1>3 DEF CallPush, Others
  <1>4. ASSUME NEW o \in Ops, CallPop(t, o) PROVE Others(t) /\ ThreadOK(t)'
    BY <1>0, <1>1, <1>4 DEF CallPop, Others
  <1> QED BY <1>2, <1>3, <1>4 DEF Calling

(* The head that was loaded and its successor are two nodes. *)
LEMMA Successor ==
  ASSUME IInv, NEW t \in Threads, pc[t] \in {"pop_cas", "pop_take"}
  PROVE  /\ ptr[t] \in Linked /\ succ[t] \in Linked /\ succ[t] = next[ptr[t]]
         /\ ptr[t] # Null /\ succ[t] # Null /\ succ[t] # ptr[t]
         /\ head # Null /\ head \in Linked
  <1>1. /\ ptr[t] \in Linked /\ succ[t] = next[ptr[t]] /\ head # Null
        /\ ptr[t] # Null /\ succ[t] # Null
    BY Known DEF QueueTypeOK, ThreadInv, PopInv, PopSteps
  <1> QED BY <1>1, Known, NextInOrder, ChainEntries

LEMMA RegisterOK ==
  ASSUME IInv, NEW t \in Threads, RegisterLoaded(t)
  PROVE  SlotsType' /\ GuardType' /\ Others(t) /\ ThreadOK(t)'
  <1>0. /\ QueueTypeOK /\ GuardType /\ SlotsType /\ ThreadOK(t)
        /\ guard[t] = "register" /\ guard' = [guard EXCEPT ![t] = "validate"]
        /\ H!Register(t, Loaded(t))
        /\ UNCHANGED <<pc, ptr, succ, op, fpc, victim, at>>
    BY Known DEF RegisterLoaded, Guard, H!Register, queueVars, H!freeVars
  <1>1. Loaded(t) \in Nodes
    BY <1>0 DEF ThreadOK, PlaceInv, Loaded, QueueTypeOK, Pointer
  <1>2. CASE pc[t] = "pop_cas"
    <2>1. Stack(t, ptr[t], Null) /\ ptr[t] # Null /\ ptr[t] \in Nodes
      BY <1>0, <1>2 DEF ThreadOK, StackInv, SlotInv, Stack, QueueTypeOK, Pointer
    <2>2. SlotsType' /\ OtherSlots(t) /\ Stack(t, ptr[t], succ[t])'
      <3>1. SlotsType' /\ OtherSlots(t) /\ slots'[t][1] = ptr[t] /\ slots'[t][2] = succ[t]
               /\ \A i \in H!Slots : i > 2 => slots'[t][i] = Null
        BY <1>0, <1>1, <1>2, <2>1, Registers DEF Loaded, Stack
      <3> QED BY <1>0, <3>1 DEF Stack
    <2>3. succ[t] # ptr[t]
      BY <1>2, Successor
    <2> QED
      BY <1>0, <1>2, <2>1, <2>2, <2>3
      DEF GuardType, Others, OtherSlots, ThreadOK, PlaceInv, StackInv, SlotInv, Stack
  <1>3. CASE pc[t] \in {"push_next", "pop_next"}
    <2>1. Stack(t, Null, Null)
      BY <1>0, <1>3 DEF ThreadOK, StackInv, SlotInv, Stack
    <2>2. SlotsType' /\ OtherSlots(t) /\ slots'[t][1] = ptr[t] /\ slots'[t][2] = Null
               /\ \A i \in H!Slots : i > 2 => slots'[t][i] = Null
      BY <1>0, <1>1, <1>3, <2>1, Registers DEF Loaded, Stack
    <2>3. ptr[t] # Null
      BY <1>0, <1>3 DEF QueueTypeOK
    <2> QED
      BY <1>0, <1>3, <2>2, <2>3
      DEF GuardType, Others, OtherSlots, ThreadOK, PlaceInv, StackInv, SlotInv, H!Slots
  <1> QED BY <1>0, <1>2, <1>3 DEF ThreadOK, PlaceInv

LEMMA ValidateOK ==
  ASSUME IInv, NEW t \in Threads, Validate(t)
  PROVE  GuardType' /\ Others(t) /\ ThreadOK(t)'
  <1>0. /\ QueueTypeOK /\ GuardType /\ ThreadOK(t)
        /\ guard[t] = "validate" /\ UNCHANGED <<slots, op, fpc, victim, at>>
    BY Known DEF Validate, hazardVars, freeVars
  <1>1. StackInv(t)'
    BY <1>0 DEF ThreadOK, StackInv, H!Slots
  <1>2. ptr[t] # Null
    BY <1>0 DEF QueueTypeOK, ThreadOK, PlaceInv
  <1>3. CASE Source(t) = Loaded(t)
    BY <1>0, <1>1, <1>3
    DEF Validate, Guard, GuardType, Others, ThreadOK, PlaceInv, SlotInv
  <1>4. CASE Source(t) # Loaded(t)
    BY <1>0, <1>1, <1>2, <1>4
    DEF Validate, Guard, GuardType, Others, ThreadOK, PlaceInv, SlotInv, Goto, QueueTypeOK
  <1> QED BY <1>3, <1>4

LEMMA LeaveOK ==
  ASSUME IInv, NEW t \in Threads, Leave(t)
  PROVE  SlotsType' /\ GuardType' /\ Others(t) /\ ThreadOK(t)'
  <1> DEFINE a == slots[t][1]
             b == slots[t][2]
  <1>0. /\ QueueTypeOK /\ GuardType /\ SlotsType /\ ThreadOK(t)
        /\ guard[t] \in {"leave", "next"}
        /\ H!Deregister(t, slots[t][LastUsed(t)])
        /\ guard' = [guard EXCEPT ![t] =
                       IF guard[t] = "leave" /\ Used(t) # {LastUsed(t)} THEN "leave"
                       ELSE "none"]
        /\ UNCHANGED <<pc, ptr, succ, op, fpc, victim, at>>
    BY Known DEF Leave, Guard, queueVars, freeVars
  <1>1. a \in Nodes /\ b \in Nodes \cup {Null} /\ a # b /\ Stack(t, a, b)
    <2>1. a \in Nodes \cup {Null} /\ b \in Nodes \cup {Null}
      BY <1>0, TwoSlots DEF SlotsType
    <2>2. a # Null /\ (b # Null => a # b)
      BY <1>0 DEF ThreadOK, StackInv, SlotInv
    <2>3. Stack(t, a, b)
      BY <1>0 DEF ThreadOK, StackInv, Stack
    <2> QED BY <2>1, <2>2, <2>3
  <1> HIDE DEF a, b
  <1>2. CASE b = Null
    <2>1. /\ SlotsType' /\ OtherSlots(t)
          /\ slots'[t][1] = Null /\ slots'[t][2] = Null
          /\ \A i \in H!Slots : i > 2 => slots'[t][i] = Null
      <3>1. slots[t][LastUsed(t)] = a
        BY <1>0, <1>1, <1>2, LastUsedIs DEF Stack
      <3> QED BY <1>0, <1>1, <1>2, <3>1, Deregisters DEF Stack
    <2>2. guard'[t] = "none" /\ guard[t] = "leave"
      BY <1>0, <1>1, <1>2, LastUsedIs DEF GuardType, ThreadOK, SlotInv, b
    <2> QED
      BY <1>0, <2>1, <2>2
      DEF GuardType, Others, OtherSlots, ThreadOK, PlaceInv, StackInv, SlotInv, H!Slots
  <1>3. CASE b # Null
    <2>1. /\ SlotsType' /\ OtherSlots(t)
          /\ slots'[t][1] = a /\ slots'[t][2] = Null
          /\ \A i \in H!Slots : i > 2 => slots'[t][i] = Null
      <3>1. slots[t][LastUsed(t)] = b
        BY <1>0, <1>1, <1>3, LastUsedIs DEF Stack
      <3> QED BY <1>0, <1>1, <1>3, <3>1, Deregisters DEF Stack
    <2>2. guard'[t] = IF guard[t] = "leave" THEN "leave" ELSE "none"
      BY <1>0, <1>1, <1>3, LastUsedIs DEF GuardType
    <2>3. a # Null /\ (fpc[t] = "start" => a = victim[t])
      BY <1>0, <1>1, QueueAssumption DEF ThreadOK, SlotInv, a
    <2> QED
      BY <1>0, <2>1, <2>2, <2>3
      DEF GuardType, Others, OtherSlots, ThreadOK, PlaceInv, StackInv, SlotInv, H!Slots
  <1> QED BY <1>2, <1>3

LEMMA FreeOldOK ==
  ASSUME IInv, NEW t \in Threads, FreeOld(t)
  PROVE  H!TypeOK' /\ GuardType' /\ Others(t) /\ ThreadOK(t)'
  <1>0. /\ QueueTypeOK /\ GuardType /\ H!TypeOK /\ ThreadOK(t) /\ guard[t] = "none"
        /\ pc[t] = "pop_take" /\ pc' = [pc EXCEPT ![t] = "return"]
        /\ ptr' = [ptr EXCEPT ![t] = Null] /\ succ' = [succ EXCEPT ![t] = Null]
        /\ guard' = [guard EXCEPT ![t] = "next"]
        /\ fpc' = [fpc EXCEPT ![t] = "start"]
        /\ victim' = [victim EXCEPT ![t] = ptr[t]]
        /\ UNCHANGED <<op, slots, at, waits, calls, turns, deferred, freed>>
    BY Known DEF FreeOld, TakeData, Finish, Goto, Guard, Ready, H!Free, H!Goto, H!Aim
  <1>1. ptr[t] \in Nodes /\ ptr[t] # Null /\ succ[t] # Null
    BY <1>0 DEF QueueTypeOK, Pointer
  <1>2. H!TypeOK'
    BY <1>0, <1>1 DEF H!TypeOK
  <1>3. StackInv(t)'
    BY <1>0 DEF ThreadOK, StackInv, H!Slots
  <1>4. Others(t)
    BY <1>0 DEF Others, QueueTypeOK, GuardType, H!TypeOK
  <1>5. PlaceInv(t)' /\ SlotInv(t)'
    BY <1>0, <1>1 DEF ThreadOK, PlaceInv, SlotInv, QueueTypeOK, GuardType, H!TypeOK
  <1>6. GuardType'
    BY <1>0 DEF GuardType
  <1> QED BY <1>2, <1>3, <1>4, <1>5, <1>6 DEF ThreadOK
-----------------------------------------------------------------------------
(* The steps that free. *)
LEMMA FreeingIs ==
  ASSUME IInv, NEW t \in Threads, Freeing(t)
  PROVE  /\ UNCHANGED <<queueVars, pc, guard>>
         /\ pc[t] = "return" /\ guard[t] = "none" /\ fpc[t] # "idle"
  <1>1. guard[t] = "none" /\ UNCHANGED <<queueVars, pc, guard>> /\ fpc[t] # "idle"
    BY DEF Freeing, H!Freeing, H!StartFree, H!Defer, H!PopDeferred, H!ScanSlot, H!Keep,
       H!Drop
  <1> QED BY <1>1, Known DEF ThreadOK, PlaceInv

(* Of a thread that frees only these change. *)
LEMMA FreeingKeeps ==
  ASSUME IInv, NEW t \in Threads, Freeing(t),
         \A u \in Threads \ {t} : /\ fpc'[u] = fpc[u] /\ victim'[u] = victim[u]
                                  /\ at'[u] = at[u] /\ slots'[u] = slots[u],
         slots'[t][1] = Null, slots'[t][2] = Null,
         \A i \in H!Slots : i > 2 => slots'[t][i] = Null,
         fpc'[t] # "start",
         victim'[t] = Null <=> fpc'[t] \in {"idle", "pop"},
         fpc'[t] \notin {"scan", "spin"} => at'[t] = 1
  PROVE  Others(t) /\ ThreadOK(t)'
  <1>1. /\ UNCHANGED <<queueVars, pc, guard>> /\ ThreadOK(t)
        /\ pc[t] = "return" /\ guard[t] = "none"
    BY FreeingIs, Known
  <1>2. UNCHANGED <<pc, ptr, succ, op, guard>>
    BY <1>1 DEF queueVars
  <1>3. Others(t)
    BY <1>2 DEF Others
  <1>4. PlaceInv(t)'
    BY <1>1, <1>2 DEF ThreadOK, PlaceInv
  <1>5. StackInv(t)'
    BY DEF StackInv, H!Slots
  <1>6. SlotInv(t)'
    BY <1>1, <1>2 DEF SlotInv
  <1> QED BY <1>3, <1>4, <1>5, <1>6 DEF ThreadOK

LEMMA FreeingOK ==
  ASSUME IInv, NEW t \in Threads, Freeing(t)
  PROVE  H!TypeOK' /\ Others(t) /\ ThreadOK(t)'
  <1>0. /\ H!TypeOK /\ SlotsType /\ ThreadOK(t)
        /\ pc[t] = "return" /\ guard[t] = "none"
    BY FreeingIs, Known
  <1>a. FreeEvery \in Nat \ {0} /\ H!Last \in Nat \ {0}
    BY HpQueueAssumption, ScanMeets, TwoSlots DEF H!HazardConstants
  <1>b. fpc[t] # "start" =>
          /\ slots[t][1] = Null /\ slots[t][2] = Null
          /\ \A i \in H!Slots : i > 2 => slots[t][i] = Null
    BY <1>0 DEF ThreadOK, StackInv, SlotInv
  <1>c. /\ victim[t] = Null <=> fpc[t] \in {"idle", "pop"}
        /\ fpc[t] \notin {"scan", "spin"} => at[t] = 1
        /\ victim[t] \in Nodes \cup {Null}
    BY <1>0 DEF ThreadOK, PlaceInv, H!TypeOK
  <1> USE DEF H!Goto, H!Aim, H!Rewind, H!EndTurn
  <1>1. CASE H!StartFree(t)
    <2>1. Stack(t, victim[t], Null) /\ victim[t] \in Nodes
      BY <1>0, <1>1, <1>c DEF H!StartFree, ThreadOK, StackInv, SlotInv, Stack
    <2>2. victim[t] # Null
      BY <2>1, QueueAssumption
    <2>3. /\ SlotsType' /\ OtherSlots(t) /\ slots'[t][1] = Null /\ slots'[t][2] = Null
          /\ \A i \in H!Slots : i > 2 => slots'[t][i] = Null
      BY <1>0, <1>1, <2>1, <2>2, Deregisters DEF H!StartFree, Stack
    <2>4. /\ fpc' = [fpc EXCEPT ![t] = IF waits THEN "spin" ELSE "defer"]
          /\ UNCHANGED <<waits, victim, at, calls, turns, deferred, freed>>
          /\ at[t] = 1
      BY <1>1, <1>c DEF H!StartFree
    <2>5. H!TypeOK'
      BY <1>0, <2>3, <2>4 DEF H!TypeOK, SlotsType
    <2>6. Others(t) /\ ThreadOK(t)'
      BY <1>0, <2>2, <2>3, <2>4, FreeingKeeps DEF H!TypeOK, OtherSlots
    <2> QED BY <2>5, <2>6
  <1>2. CASE H!Defer(t)
    <2>1. victim[t] \in Nodes
      BY <1>2, <1>c DEF H!Defer
    <2>2. deferred' \in Seq(Nodes)
      BY <1>0, <1>2, <2>1, Appended DEF H!Defer, H!TypeOK
    <2>3. (calls[t] + 1) % FreeEvery \in 0..FreeEvery - 1
      BY <1>0, <1>a DEF H!TypeOK
    <2>4. PICK c \in 0..FreeEvery - 1 :
            /\ fpc[t] = "defer"
            /\ calls' = [calls EXCEPT ![t] = c]
            /\ turns' = [turns EXCEPT ![t] = IF c = 0 THEN FreeEvery ELSE 0]
            /\ fpc' = [fpc EXCEPT ![t] = IF c = 0 THEN "pop" ELSE "idle"]
            /\ victim' = [victim EXCEPT ![t] = Null]
            /\ UNCHANGED <<waits, slots, at, freed>>
      BY <1>0, <1>2, <2>3 DEF H!Defer, H!TypeOK
    <2>5. H!TypeOK'
      BY <1>0, <1>a, <2>2, <2>4 DEF H!TypeOK
    <2>6. Others(t) /\ ThreadOK(t)'
      BY <1>0, <1>b, <1>c, <2>4, FreeingKeeps DEF H!TypeOK
    <2> QED BY <2>5, <2>6
  <1>3. CASE H!PopDeferred(t)
    <2>1. CASE deferred = <<>>
      <3>1. /\ fpc' = [fpc EXCEPT ![t] = "idle"] /\ turns' = [turns EXCEPT ![t] = 0]
            /\ fpc[t] = "pop"
            /\ UNCHANGED <<victim, deferred, waits, slots, at, calls, freed>>
        BY <1>3, <2>1 DEF H!PopDeferred
      <3>2. H!TypeOK'
        BY <1>0, <1>a, <3>1 DEF H!TypeOK
      <3>3. Others(t) /\ ThreadOK(t)'
        BY <1>0, <1>b, <1>c, <3>1, FreeingKeeps DEF H!TypeOK
      <3> QED BY <3>2, <3>3
    <2>2. CASE deferred # <<>>
      <3>1. /\ fpc' = [fpc EXCEPT ![t] = "scan"] /\ fpc[t] = "pop"
            /\ victim' = [victim EXCEPT ![t] = Head(deferred)]
            /\ deferred' = Tail(deferred)
            /\ UNCHANGED <<turns, waits, slots, at, calls, freed>>
        BY <1>3, <2>2 DEF H!PopDeferred
      <3>2. Head(deferred) \in Nodes /\ Tail(deferred) \in Seq(Nodes)
        BY <1>0, <2>2, Removed DEF H!TypeOK
      <3>3. H!TypeOK'
        BY <1>0, <3>1, <3>2 DEF H!TypeOK
      <3>4. Others(t) /\ ThreadOK(t)'
        BY <1>0, <1>b, <1>c, <3>1, <3>2, QueueAssumption, FreeingKeeps DEF H!TypeOK
      <3> QED BY <3>3, <3>4
    <2> QED BY <2>1, <2>2
  <1>4. CASE H!ScanSlot(t)
    <2>1. /\ fpc[t] \in {"scan", "spin"}
          /\ UNCHANGED <<waits, slots, victim, calls, turns, deferred, freed>>
          /\ \/ /\ at' = [at EXCEPT ![t] = 1]
                /\ fpc' \in {[fpc EXCEPT ![t] = p] : p \in {"spin", "keep", "drop"}}
             \/ at[t] < H!Last /\ at' = [at EXCEPT ![t] = at[t] + 1] /\ UNCHANGED fpc
      BY <1>0, <1>4 DEF H!ScanSlot, H!TypeOK
    <2>2. at[t] \in 1..H!Last
      BY <1>0 DEF H!TypeOK
    <2>3. at'[t] \in 1..H!Last /\ at' = [at EXCEPT ![t] = at'[t]]
      BY <1>0, <1>a, <2>1, <2>2 DEF H!TypeOK
    <2>4. H!TypeOK'
      BY <1>0, <2>1, <2>3 DEF H!TypeOK
    <2>5. Others(t) /\ ThreadOK(t)'
      BY <1>0, <1>b, <1>c, <2>1, FreeingKeeps DEF H!TypeOK
    <2> QED BY <2>4, <2>5
  <1>5. CASE H!Keep(t) \/ H!Drop(t)
    <2>1. victim[t] \in Nodes
      BY <1>5, <1>c DEF H!Keep, H!Drop
    <2>2. deferred' \in Seq(Nodes) /\ freed' \in SUBSET Nodes
      <3>1. CASE H!Keep(t)
        BY <1>0, <2>1, <3>1, Appended DEF H!Keep, H!TypeOK
      <3>2. CASE H!Drop(t)
        BY <1>0, <2>1, <3>2 DEF H!Drop, H!TypeOK
      <3> QED BY <1>5, <3>1, <3>2
    <2>3. /\ fpc[t] \in {"keep", "drop"}
          /\ turns' = [turns EXCEPT ![t] = IF turns[t] = 0 THEN 0 ELSE turns[t] - 1]
          /\ fpc' = [fpc EXCEPT ![t] = IF turns[t] > 1 THEN "pop" ELSE "idle"]
          /\ victim' = [victim EXCEPT ![t] = Null]
          /\ UNCHANGED <<waits, slots, at, calls>>
      BY <1>0, <1>5 DEF H!Keep, H!Drop, H!TypeOK
    <2>4. (IF turns[t] = 0 THEN 0 ELSE turns[t] - 1) \in 0..FreeEvery
      <3>1. turns[t] \in 0..FreeEvery
        BY <1>0 DEF H!TypeOK
      <3> QED BY <1>a, <3>1
    <2>5. turns' \in [Threads -> 0..FreeEvery]
      BY <1>0, <2>3, <2>4 DEF H!TypeOK
    <2>6. H!TypeOK'
      BY <1>0, <2>2, <2>3, <2>5 DEF H!TypeOK
    <2>7. Others(t) /\ ThreadOK(t)'
      BY <1>0, <1>b, <1>c, <2>3, FreeingKeeps DEF H!TypeOK
    <2> QED BY <2>6, <2>7
  <1> QED BY <1>1, <1>2, <1>3, <1>4, <1>5 DEF Freeing, H!Freeing

LEMMA ThreadsStep == IInv /\ [Next]_vars => \A t \in Threads : ThreadOK(t)'
  <1> SUFFICES ASSUME IInv, [Next]_vars PROVE \A t \in Threads : ThreadOK(t)'
    OBVIOUS
  <1>1. ASSUME NEW t \in Threads, Others(t) /\ ThreadOK(t)'
        PROVE  \A u \in Threads : ThreadOK(u)'
    BY <1>1, Known, OthersOK
  <1>2. CASE DropQueue
    <2>1. UNCHANGED <<pc, ptr, succ, op, guard, slots, fpc, victim, at>>
      BY <1>2 DEF DropQueue
    <2> QED BY <2>1, Known DEF ThreadOK, PlaceInv, StackInv, SlotInv, H!Slots
  <1>3. CASE UNCHANGED vars
    <2>1. UNCHANGED <<pc, ptr, succ, op, guard, slots, fpc, victim, at>>
      BY <1>3 DEF vars, queueVars, hazardVars, freeVars
    <2> QED BY <2>1, Known DEF ThreadOK, PlaceInv, StackInv, SlotInv, H!Slots
  <1> QED
    BY <1>1, <1>2, <1>3, NextCases, QueueStepOK, CallingOK, RegisterOK, ValidateOK,
       LeaveOK, FreeOldOK, FreeingOK DEF Guarding

LEMMA QueueKeeps == IInv /\ [Next]_vars => QueueInv'
  <1> SUFFICES ASSUME IInv, [Next]_vars PROVE QueueInv'
    OBVIOUS
  <1>0. QueueInv /\ QueueTypeOK
    BY Known
  <1>1. ASSUME NEW t \in Threads, Moving(t), UNCHANGED saw PROVE QueueInv'
    <2>1. saw' \in [Threads -> SUBSET Pointer]
      BY <1>0, <1>1 DEF QueueTypeOK
    <2> QED BY <1>0, <1>1, <2>1, MovingStep
  <1>2. ASSUME UNCHANGED <<queueVars, pc, saw>> PROVE QueueInv'
    BY <1>0, <1>2 DEF queueVars, QueueInv, QueueTypeOK, ChainInv, EndInv, NewInv,
       ThreadInv, PushInv, PopInv, Linked, NotAfter
  <1>3. ASSUME NEW t \in Threads, Validate(t), UNCHANGED saw PROVE QueueInv'
    <2>1. CASE Source(t) = Loaded(t)
      BY <1>2, <1>3, <2>1 DEF Validate, queueVars
    <2>2. CASE Source(t) # Loaded(t)
      <3>1. /\ pc' = [pc EXCEPT ![t] = IF pc[t] = "push_next" THEN "push_tail"
                                       ELSE "pop_head"]
            /\ ptr' = [ptr EXCEPT ![t] = Null] /\ succ' = [succ EXCEPT ![t] = Null]
            /\ UNCHANGED <<head, tail, next, op, node, result, linked, saw>>
            /\ pc[t] \in {"push_next", "pop_next", "pop_cas"}
        BY <1>3, <2>2, Known DEF Validate, Goto, ThreadOK, PlaceInv
      <3>2. QueueTypeOK'
        BY <1>0, <3>1 DEF QueueTypeOK, Pointer, Phase, PushSteps, PopSteps
      <3>3. Quiet(t) /\ ThreadInv(t)'
        BY <1>0, <3>1, Known DEF Quiet, ThreadInv, PushInv, PopInv, PushSteps, PopSteps,
           QueueTypeOK
      <3> QED BY <1>0, <3>2, <3>3, QuietStep
    <2> QED BY <2>1, <2>2
  <1>4. CASE DropQueue /\ UNCHANGED saw
    <2>1. /\ UNCHANGED <<next, pc, op, node, ptr, succ, result, linked, saw>>
          /\ head' = Null /\ tail' = Null
          /\ \A t \in Threads : pc[t] = "work"
      BY <1>4 DEF DropQueue
    <2>2. QueueTypeOK'
      BY <1>0, <2>1 DEF QueueTypeOK, Pointer
    <2> QED
      BY <1>0, <2>1, <2>2 DEF QueueInv, ChainInv, EndInv, NewInv, ThreadInv, PushInv,
         PopInv, Linked, PushSteps, PopSteps
  <1>5. CASE UNCHANGED vars
    BY <1>2, <1>5 DEF vars
  <1>6. ASSUME NEW t \in Threads, UNCHANGED saw,
               QueueStep(t) \/ Calling(t) \/ FreeOld(t)
        PROVE  QueueInv'
    BY <1>1, <1>6 DEF QueueStep, FreeOld, Moving
  <1>7. ASSUME NEW t \in Threads, UNCHANGED saw,
               RegisterLoaded(t) \/ Leave(t) \/ Freeing(t)
        PROVE  QueueInv'
    BY <1>2, <1>7 DEF RegisterLoaded, Leave, Freeing
  <1> QED BY <1>3, <1>4, <1>5, <1>6, <1>7, NextCases DEF Guarding

LEMMA TypesKeep == IInv /\ [Next]_vars => TypeOK'
  <1> SUFFICES ASSUME IInv, [Next]_vars PROVE TypeOK'
    OBVIOUS
  <1>0. QueueTypeOK' /\ H!TypeOK /\ GuardType
    BY QueueKeeps, Known DEF QueueInv
  <1>1. H!TypeOK' /\ GuardType'
    <2>1. ASSUME NEW t \in Threads, QueueStep(t) PROVE H!TypeOK' /\ GuardType'
      BY <1>0, <2>1, QueueStepOK, QueueStepIs DEF H!TypeOK, hazardVars, freeVars
    <2>2. ASSUME UNCHANGED <<hazardVars, guard>> PROVE H!TypeOK' /\ GuardType'
      BY <1>0, <2>2 DEF H!TypeOK, GuardType, hazardVars, freeVars
    <2>3. ASSUME NEW t \in Threads, RegisterLoaded(t) \/ Leave(t)
          PROVE  H!TypeOK' /\ GuardType'
      <3>1. SlotsType' /\ GuardType'
        BY <2>3, RegisterOK, LeaveOK
      <3>2. UNCHANGED <<waits, fpc, victim, at, calls, turns, deferred, freed>>
        BY <2>3 DEF RegisterLoaded, Leave, H!Register, H!freeVars, freeVars
      <3> QED BY <1>0, <3>1, <3>2 DEF H!TypeOK, SlotsType
    <2>4. ASSUME NEW t \in Threads, Validate(t) PROVE H!TypeOK' /\ GuardType'
      BY <1>0, <2>4, ValidateOK DEF Validate, H!TypeOK, hazardVars, freeVars
    <2>5. ASSUME NEW t \in Threads, FreeOld(t) PROVE H!TypeOK' /\ GuardType'
      BY <2>5, FreeOldOK
    <2>6. ASSUME NEW t \in Threads, Freeing(t) PROVE H!TypeOK' /\ GuardType'
      BY <1>0, <2>6, FreeingOK, FreeingIs DEF GuardType
    <2>7. CASE DropQueue
      <3>1. Reachable \subseteq Nodes
        BY <2>7, Known, ChainEntries, ReachableInOrder DEF DropQueue
      <3> QED BY <1>0, <2>7, <3>1 DEF DropQueue, H!TypeOK, GuardType
    <2>8. CASE UNCHANGED vars
      BY <2>2, <2>8 DEF vars
    <2> QED BY <2>1, <2>2, <2>3, <2>4, <2>5, <2>6, <2>7, <2>8, NextCases DEF Guarding
  <1> QED BY <1>0, <1>1 DEF TypeOK, GuardType
-----------------------------------------------------------------------------
(* A thread has a node, and only it, or none.                              *)
OneVictim ==
  \A t, u \in Threads : victim[t] = victim[u] /\ victim[t] # Null => t = u

LEMMA OnceIs ==
  H!FreedOnce <=>
    /\ (InQueue(deferred) \cup H!Victims) \cap freed = {}
    /\ InQueue(deferred) \cap H!Victims = {}
    /\ Once(deferred)
    /\ OneVictim
  BY DEF H!FreedOnce, H!Deferred, InQueue, Once, OneVictim

LEMMA OnceNext ==
  (H!FreedOnce <=>
    /\ (InQueue(deferred) \cup H!Victims) \cap freed = {}
    /\ InQueue(deferred) \cap H!Victims = {}
    /\ Once(deferred)
    /\ OneVictim)'
  BY OnceIs, PTL

LEMMA GivenUp ==
  ASSUME H!TypeOK, OneVictim, NEW t \in Threads, victim[t] # Null,
         victim' = [victim EXCEPT ![t] = Null]
  PROVE  OneVictim' /\ H!Victims' = H!Victims \ {victim[t]} /\ victim[t] \in H!Victims
  BY DEF H!TypeOK, OneVictim, H!Victims

LEMMA TakenUp ==
  ASSUME H!TypeOK, OneVictim, NEW t \in Threads, victim[t] = Null,
         NEW n \in Nodes, n \notin H!Victims,
         victim' = [victim EXCEPT ![t] = n]
  PROVE  OneVictim' /\ H!Victims' = H!Victims \cup {n}
  <1>1. n # Null /\ \A u \in Threads : victim[u] # n
    BY QueueAssumption DEF H!Victims
  <1> QED BY <1>1 DEF H!TypeOK, OneVictim, H!Victims

LEMMA FreeingGone ==
  ASSUME IInv, NEW t \in Threads, Freeing(t)
  PROVE  Gone' = Gone /\ H!FreedOnce'
  <1>0. /\ H!TypeOK /\ deferred \in Seq(Nodes)
        /\ victim[t] = Null <=> fpc[t] \in {"idle", "pop"}
        /\ victim[t] # Null => victim[t] \in Nodes
    BY Known DEF H!TypeOK, ThreadOK, PlaceInv
  <1>1. /\ (InQueue(deferred) \cup H!Victims) \cap freed = {}
        /\ InQueue(deferred) \cap H!Victims = {}
        /\ Once(deferred) /\ OneVictim
    BY OnceIs DEF IInv
  <1>a. /\ Gone = InQueue(deferred) \cup H!Victims \cup freed
        /\ Gone' = InQueue(deferred') \cup H!Victims' \cup freed'
    BY DEF Gone, H!Deferred, InQueue
  <1> USE DEF H!Goto, H!Aim, H!Rewind, H!EndTurn
  <1>2. CASE H!StartFree(t) \/ H!ScanSlot(t)
    <2>1. UNCHANGED <<victim, deferred, freed>>
      BY <1>2 DEF H!StartFree, H!ScanSlot
    <2> QED BY <1>1, <1>a, <2>1, OnceNext DEF H!Victims, InQueue, Once, OneVictim
  <1>3. CASE H!Defer(t) \/ H!Keep(t)
    <2>1. /\ deferred' = Append(deferred, victim[t]) /\ freed' = freed
          /\ victim' = [victim EXCEPT ![t] = Null] /\ victim[t] # Null
      BY <1>0, <1>3 DEF H!Defer, H!Keep
    <2>2. /\ OneVictim' /\ H!Victims' = H!Victims \ {victim[t]}
          /\ victim[t] \in H!Victims
      BY <1>0, <1>1, <2>1, GivenUp
    <2>3. /\ InQueue(deferred') = InQueue(deferred) \cup {victim[t]}
          /\ Once(deferred')
      BY <1>0, <1>1, <2>1, <2>2, Appended
    <2>4. Once(deferred)' /\ InQueue(deferred)' = InQueue(deferred')
      BY <2>3 DEF Once, InQueue
    <2> QED BY <1>1, <1>a, <2>1, <2>2, <2>3, <2>4, OnceNext
  <1>4. CASE H!PopDeferred(t) /\ deferred = <<>>
    <2>1. UNCHANGED <<victim, deferred, freed>>
      BY <1>4 DEF H!PopDeferred
    <2> QED BY <1>1, <1>a, <2>1, OnceNext DEF H!Victims, InQueue, Once, OneVictim
  <1>5. CASE H!PopDeferred(t) /\ deferred # <<>>
    <2>1. /\ victim' = [victim EXCEPT ![t] = Head(deferred)] /\ freed' = freed
          /\ deferred' = Tail(deferred) /\ victim[t] = Null
      BY <1>0, <1>5 DEF H!PopDeferred
    <2>2. /\ Head(deferred) \in Nodes
          /\ InQueue(deferred) = InQueue(deferred') \cup {Head(deferred)}
          /\ Once(deferred') /\ Head(deferred) \notin InQueue(deferred')
      BY <1>0, <1>1, <1>5, <2>1, Removed
    <2>3. OneVictim' /\ H!Victims' = H!Victims \cup {Head(deferred)}
      BY <1>0, <1>1, <2>1, <2>2, TakenUp
    <2>4. Once(deferred)' /\ InQueue(deferred)' = InQueue(deferred')
      BY <2>2 DEF Once, InQueue
    <2> QED BY <1>1, <1>a, <2>1, <2>2, <2>3, <2>4, OnceNext
  <1>6. CASE H!Drop(t)
    <2>1. /\ freed' = freed \cup {victim[t]} /\ deferred' = deferred
          /\ victim' = [victim EXCEPT ![t] = Null] /\ victim[t] # Null
      BY <1>0, <1>6 DEF H!Drop
    <2>2. /\ OneVictim' /\ H!Victims' = H!Victims \ {victim[t]}
          /\ victim[t] \in H!Victims
      BY <1>0, <1>1, <2>1, GivenUp
    <2> QED BY <1>1, <1>a, <2>1, <2>2, OnceNext DEF Once, InQueue
  <1> QED BY <1>2, <1>3, <1>4, <1>5, <1>6 DEF Freeing, H!Freeing

LEMMA FreeOldGone ==
  ASSUME IInv, NEW t \in Threads, FreeOld(t)
  PROVE  Gone' = Gone \cup {ptr[t]} /\ H!FreedOnce'
  <1>0. /\ H!TypeOK /\ victim[t] = Null /\ ptr[t] \in Nodes /\ ptr[t] \notin Gone
        /\ victim' = [victim EXCEPT ![t] = ptr[t]] /\ UNCHANGED <<deferred, freed>>
    BY Known DEF FreeOld, TakeData, Ready, H!Free, H!Aim, ThreadOK, PlaceInv, QueueTypeOK,
       Pointer, IInv, GarbageInv, Garbage
  <1>1. /\ (InQueue(deferred) \cup H!Victims) \cap freed = {}
        /\ InQueue(deferred) \cap H!Victims = {}
        /\ Once(deferred) /\ OneVictim
    BY OnceIs DEF IInv
  <1>a. /\ Gone = InQueue(deferred) \cup H!Victims \cup freed
        /\ Gone' = InQueue(deferred') \cup H!Victims' \cup freed'
    BY DEF Gone, H!Deferred, InQueue
  <1>2. OneVictim' /\ H!Victims' = H!Victims \cup {ptr[t]}
    BY <1>0, <1>1, <1>a, TakenUp
  <1> QED BY <1>0, <1>1, <1>2, <1>a, OnceNext DEF Once, InQueue

(* The other steps of the threads leave all of that alone.                 *)
LEMMA NothingGoes ==
  ASSUME IInv, UNCHANGED <<victim, deferred, freed>>
  PROVE  Gone' = Gone /\ H!FreedOnce'
  BY DEF IInv, Gone, H!Deferred, H!Victims, H!FreedOnce

LEMMA MovesNothing ==
  ASSUME NEW t \in Threads,
         \/ QueueStep(t) \/ Guarding(t)
         \/ Ready(t) /\ Calling(t) /\ UNCHANGED <<hazardVars, guard>>
  PROVE  UNCHANGED <<victim, deferred, freed, at, fpc>>
  BY DEF QueueStep, Guarding, RegisterLoaded, H!Register, H!freeVars, Validate, Leave,
     hazardVars, freeVars

LEMMA OnceStep == IInv /\ [Next]_vars => H!FreedOnce'
  <1> SUFFICES ASSUME IInv, [Next]_vars PROVE H!FreedOnce'
    OBVIOUS
  <1>1. CASE DropQueue
    <2>1. Reachable \cap Gone = {}
      BY <1>1, Known, ReachableInOrder DEF DropQueue, IInv, GarbageInv, Garbage
    <2>2. freed' = freed \cup Reachable /\ UNCHANGED <<victim, deferred>>
      BY <1>1 DEF DropQueue
    <2> QED
      BY <2>1, <2>2 DEF IInv, Gone, H!Deferred, H!Victims, H!FreedOnce
  <1>2. CASE UNCHANGED vars
    BY <1>2, NothingGoes DEF vars, hazardVars, freeVars
  <1> QED
    BY <1>1, <1>2, NextCases, MovesNothing, NothingGoes, FreeingGone, FreeOldGone

LEMMA Dropped ==
  ASSUME IInv, DropQueue
  PROVE  /\ Gone' = Gone \cup Reachable /\ Reachable \cap Gone = {}
         /\ Reachable = {n \in Linked : NotAfter(head, n)} /\ head # Null
         /\ head' = Null /\ \A t \in Threads : pc[t] = "work" /\ pc'[t] = "work"
         /\ UNCHANGED <<linked, ptr>>
  <1>1. /\ freed' = freed \cup Reachable /\ UNCHANGED <<victim, deferred, linked, ptr>>
        /\ head' = Null /\ head # Null
        /\ \A t \in Threads : pc[t] = "work" /\ pc'[t] = "work"
    BY DEF DropQueue
  <1>2. Gone' = Gone \cup Reachable
    BY <1>1 DEF Gone, H!Deferred, H!Victims
  <1>3. Reachable = {n \in Linked : NotAfter(head, n)}
    BY <1>1, Known, ReachableInOrder
  <1>4. Reachable \cap Gone = {}
    BY <1>1, <1>3 DEF IInv, GarbageInv, Garbage
  <1> QED BY <1>1, <1>2, <1>3, <1>4

(* A step that neither moves the head nor takes a node.                    *)
LEMMA Stays ==
  ASSUME IInv, NEW t \in Threads, Gone' = Gone, UNCHANGED <<head, linked>>,
         \A u \in Threads \ {t} : pc'[u] = pc[u] /\ ptr'[u] = ptr[u],
         pc[t] # "pop_take", pc'[t] # "pop_take",
         pc[t] = "work" => pc'[t] = "work"
  PROVE  GarbageInv' /\ LeakInv'
  BY DEF IInv, GarbageInv, Garbage, LeakInv, NoLeak, Linked, NotAfter

LEMMA GarbageStep == IInv /\ [Next]_vars => GarbageInv' /\ LeakInv'
  <1> SUFFICES ASSUME IInv, [Next]_vars PROVE GarbageInv' /\ LeakInv'
    OBVIOUS
  <1>0. QueueInv /\ Garbage(Gone) /\ NoLeak(Gone)
    BY DEF IInv, GarbageInv, LeakInv
  <1>1. ASSUME NEW t \in Threads,
               QueueStep(t) \/ (Ready(t) /\ Calling(t) /\ UNCHANGED <<hazardVars, guard>>)
        PROVE  GarbageInv' /\ LeakInv'
    <2>1. Gone' = Gone
      BY <1>1, MovesNothing, NothingGoes
    <2>2. Pushing(t) \/ Popping(t) \/ Calling(t)
      BY <1>1 DEF QueueStep
    <2>3. GarbageInv'
      BY <1>0, <2>1, <2>2, GarbageMoving DEF GarbageInv, Garbage
    <2>4. NoLeak(Gone)'
      BY <1>0, <2>1, <2>2, LeakMoving DEF NoLeak
    <2>5. head' # Null
      <3>1. head # Null
        BY <1>0, <2>2 DEF Calling, Return, CallPush, CallPop, Pushing, Popping, LoadTail,
           LoadTailNext, HelpTail, LinkNode, SwingTail, LoadHead, LoadHeadNext, ReadFirst,
           SwingHead, IInv, LeakInv
      <3>2. head' = head \/ (SwingHead(t) /\ head = ptr[t])
        BY <1>0, <2>2, MovingEffect DEF Moving
      <3> QED BY <1>0, <3>1, <3>2, HeadMoves
    <2> QED BY <2>3, <2>4, <2>5 DEF LeakInv
  <1>2. ASSUME NEW t \in Threads, Guarding(t) PROVE GarbageInv' /\ LeakInv'
    <2>1. Gone' = Gone
      BY <1>2, MovesNothing, NothingGoes
    <2>2. /\ UNCHANGED <<head, linked>>
          /\ \A u \in Threads \ {t} : pc'[u] = pc[u] /\ ptr'[u] = ptr[u]
          /\ pc'[t] = "pop_take" => pc[t] = "pop_take"
          /\ pc[t] = "work" => pc'[t] = "work"
      BY <1>2, RegisterOK, ValidateOK, LeaveOK, Known
      DEF Guarding, RegisterLoaded, Validate, Leave, queueVars, Others, Goto, QueueTypeOK,
          ThreadOK, PlaceInv
    <2>3. pc[t] # "pop_take"
      BY <1>2, Known DEF Guarding, RegisterLoaded, Validate, Leave, ThreadOK, PlaceInv
    <2> QED BY <2>1, <2>2, <2>3, Stays
  <1>3. ASSUME NEW t \in Threads, FreeOld(t) PROVE GarbageInv' /\ LeakInv'
    <2>1. TakeData(t) /\ Gone' = Gone \cup {ptr[t]} /\ head' = head
      BY <1>3, FreeOldGone DEF FreeOld, TakeData
    <2>2. GarbageInv'
      BY <1>0, <2>1, GarbageTaken DEF GarbageInv, Garbage
    <2>3. NoLeak(Gone)'
      BY <1>0, <2>1, LeakTaken DEF NoLeak
    <2>4. head # Null
      BY <2>1, Successor DEF TakeData
    <2> QED BY <2>1, <2>2, <2>3, <2>4 DEF LeakInv
  <1>4. ASSUME NEW t \in Threads, Freeing(t) PROVE GarbageInv' /\ LeakInv'
    <2>1. Gone' = Gone
      BY <1>4, FreeingGone
    <2>2. UNCHANGED <<head, linked, pc, ptr>> /\ pc[t] = "return"
      BY <1>4, FreeingIs DEF queueVars
    <2> QED BY <2>1, <2>2, Stays
  <1>5. CASE DropQueue
    BY <1>0, <1>5, Dropped DEF GarbageInv, Garbage, LeakInv, NoLeak, Linked
  <1>6. CASE UNCHANGED vars
    <2>1. UNCHANGED <<head, linked, pc, ptr>> /\ Gone' = Gone
      BY <1>6, NothingGoes DEF vars, queueVars, hazardVars, freeVars
    <2> QED
      BY <1>0, <2>1 DEF IInv, GarbageInv, Garbage, LeakInv, NoLeak, Linked, NotAfter
  <1> QED BY <1>1, <1>2, <1>3, <1>4, <1>5, <1>6, NextCases
-----------------------------------------------------------------------------
(* A node in a slot stays there for the scans of the others: who has read  *)
(* all slots without meeting it would have read this one.                  *)
LEMMA KeepsOn ==
  ASSUME IInv, NEW u \in Threads,
         \/ QueueStep(u) \/ Guarding(u) \/ FreeOld(u) \/ Freeing(u)
         \/ Ready(u) /\ Calling(u) /\ UNCHANGED <<hazardVars, guard>>,
         NEW t \in Threads, NEW k \in H!Slots, NEW n \in Nodes, slots[t][k] = n,
         Keeps(t, k, n)
  PROVE  Keeps(t, k, n)'
  <1>0. /\ H!TypeOK /\ n # Null
        /\ fpc[u] \notin {"scan", "spin"} => at[u] = 1
        /\ H!Last \in Nat \ {0}
    BY Known, QueueAssumption, ScanMeets DEF ThreadOK, PlaceInv
  <1>1. /\ n \notin freed
        /\ \A x \in Threads : victim[x] = n =>
             fpc[x] # "drop" /\ \A i \in 1..H!Last : IsSlot(i, t, k) => i >= at[x]
    BY DEF Keeps
  <1>2. CASE UNCHANGED <<victim, freed, at, fpc>>
    BY <1>1, <1>2 DEF Keeps
  <1>3. ASSUME n \notin freed',
               \A x \in Threads \ {u} :
                 victim'[x] = victim[x] /\ fpc'[x] = fpc[x] /\ at'[x] = at[x],
               victim'[u] # n \/ (fpc'[u] # "drop" /\ at'[u] = 1)
        PROVE  Keeps(t, k, n)'
    BY <1>0, <1>1, <1>3 DEF Keeps
  <1>4. CASE FreeOld(u)
    <2>1. /\ fpc' = [fpc EXCEPT ![u] = "start"] /\ fpc[u] = "idle"
          /\ victim' = [victim EXCEPT ![u] = ptr[u]]
          /\ UNCHANGED <<at, freed>>
      BY <1>4 DEF FreeOld, H!Free, H!Goto, H!Aim
    <2> QED BY <1>0, <1>1, <1>3, <2>1 DEF H!TypeOK
  <1> USE DEF H!Goto, H!Aim, H!Rewind, H!EndTurn
  <1>5. CASE H!StartFree(u) \/ H!PopDeferred(u)
    <2>1. /\ UNCHANGED <<at, freed>> /\ fpc[u] \in {"start", "pop"}
          /\ fpc'[u] # "drop"
          /\ \A x \in Threads \ {u} : victim'[x] = victim[x] /\ fpc'[x] = fpc[x]
      BY <1>0, <1>5 DEF H!StartFree, H!PopDeferred, H!TypeOK
    <2> QED BY <1>0, <1>1, <1>3, <2>1
  <1>6. CASE H!Defer(u) \/ H!Keep(u)
    <2>1. /\ UNCHANGED <<at, freed>> /\ victim'[u] = Null
          /\ \A x \in Threads \ {u} : victim'[x] = victim[x] /\ fpc'[x] = fpc[x]
      BY <1>0, <1>6 DEF H!Defer, H!Keep, H!TypeOK
    <2> QED BY <1>0, <1>1, <1>3, <2>1
  <1>7. CASE H!Drop(u)
    <2>1. /\ freed' = freed \cup {victim[u]} /\ fpc[u] = "drop" /\ at' = at
          /\ victim'[u] = Null
          /\ \A x \in Threads \ {u} : victim'[x] = victim[x] /\ fpc'[x] = fpc[x]
      BY <1>0, <1>7 DEF H!Drop, H!TypeOK
    <2> QED BY <1>0, <1>1, <1>3, <2>1
  <1>8. CASE H!ScanSlot(u)
    <2>0. /\ UNCHANGED <<victim, freed>> /\ at[u] \in 1..H!Last
          /\ \A x \in Threads \ {u} : fpc'[x] = fpc[x] /\ at'[x] = at[x]
      BY <1>0, <1>8 DEF H!ScanSlot, H!TypeOK
    <2>1. CASE victim[u] # n
      BY <1>1, <1>3, <2>0, <2>1
    <2>2. CASE victim[u] = n /\ H!Slot(at[u]) = n
      <3>1. fpc'[u] # "drop" /\ at'[u] = 1
        BY <1>0, <1>8, <2>2 DEF H!ScanSlot, H!TypeOK
      <3> QED BY <1>1, <1>3, <2>0, <3>1
    <2>3. CASE victim[u] = n /\ H!Slot(at[u]) # n
      <3>1. ~IsSlot(at[u], t, k)
        BY <2>3 DEF IsSlot, H!Slot
      <3>2. \A i \in 1..H!Last : IsSlot(i, t, k) => i >= at[u] + 1
        <4>1. ASSUME NEW i \in 1..H!Last, IsSlot(i, t, k) PROVE i >= at[u] + 1
          <5>1. i >= at[u] /\ i # at[u]
            BY <1>1, <2>3, <3>1, <4>1
          <5> QED BY <1>0, <2>0, <5>1
        <4> QED BY <4>1
      <3>3. PICK i \in 1..H!Last : IsSlot(i, t, k)
        BY ScanMeets
      <3>4. at[u] # H!Last
        BY <1>0, <2>0, <3>2, <3>3
      <3>5. at' = [at EXCEPT ![u] = at[u] + 1] /\ fpc' = fpc
        BY <1>8, <2>3, <3>4 DEF H!ScanSlot
      <3>6. at'[u] = at[u] + 1
        BY <1>0, <3>5 DEF H!TypeOK
      <3> QED BY <1>1, <2>0, <3>2, <3>5, <3>6 DEF Keeps
    <2> QED BY <2>1, <2>2, <2>3
  <1> QED
    BY <1>2, <1>4, <1>5, <1>6, <1>7, <1>8, MovesNothing DEF Freeing, H!Freeing

(* The head is never garbage. *)
LEMMA HeadIsKept ==
  QueueInv /\ GarbageInv /\ head # Null => head \in Nodes \ Gone
  BY ChainEntries DEF GarbageInv, Garbage

LEMMA HeadIsKeptNext ==
  (QueueInv /\ GarbageInv /\ head # Null => head \in Nodes \ Gone)'
  BY HeadIsKept, PTL

Headed(t) == (pc[t] = "pop_next" /\ guard[t] = "none") \/ pc[t] = "pop_cas"

(* A pointer that is to be kept was the head when that began.              *)
LEMMA KeptFrom ==
  ASSUME IInv, NEW u \in Threads,
         \/ QueueStep(u) \/ Guarding(u) \/ FreeOld(u) \/ Freeing(u)
         \/ Ready(u) /\ Calling(u) /\ UNCHANGED <<hazardVars, guard>>
  PROVE  \A t \in Threads :
           /\ Headed(t)' => \/ Headed(t) /\ ptr'[t] = ptr[t]
                            \/ ptr'[t] = head' /\ head' # Null
           /\ pc'[t] = "pop_take" => \/ pc[t] = "pop_take" /\ succ'[t] = succ[t]
                                     \/ succ'[t] = head' /\ head' # Null
  <1> USE DEF Headed
  <1>0. QueueTypeOK /\ GuardType /\ \A t \in Threads : ThreadOK(t) /\ ThreadInv(t)
    BY Known
  <1>1. ASSUME Others(u) PROVE \A t \in Threads \ {u} :
           /\ Headed(t)' => Headed(t) /\ ptr'[t] = ptr[t]
           /\ pc'[t] = "pop_take" => pc[t] = "pop_take" /\ succ'[t] = succ[t]
    BY <1>1 DEF Others
  <1>2. CASE QueueStep(u)
    <2>1. /\ guard[u] = "none" /\ Moving(u) /\ Others(u)
          /\ Pushing(u) \/ Popping(u)
      BY <1>2, QueueStepOK, QueueStepIs DEF Ready, QueueStep
    <2>2. pc'[u] \in {"pop_next", "pop_cas"} => guard'[u] = "register"
      BY <1>0, <1>2 DEF QueueStep, AfterStep, Guard, GuardType
    <2>3. pc'[u] = "pop_cas" => pc[u] = "pop_next" /\ ptr'[u] = ptr[u]
      BY <1>0, <2>1 DEF Pushing, Popping, LoadTail,
         LoadTailNext, HelpTail, LinkNode, SwingTail, LoadHead, LoadHeadNext, ReadFirst,
         SwingHead, Finish, Goto, QueueTypeOK, ThreadOK, PlaceInv
    <2>4. pc'[u] = "pop_take" => SwingHead(u) /\ head = ptr[u] /\ pc[u] = "pop_cas"
      BY <1>0, <2>1, MovingEffect DEF IInv, SwingHead
    <2>5. SwingHead(u) /\ head = ptr[u] => head' = succ[u] /\ succ' = succ
      BY DEF SwingHead
    <2>6. pc[u] = "pop_cas" => succ[u] # Null
      BY Successor
    <2> QED BY <1>1, <2>1, <2>2, <2>3, <2>4, <2>5, <2>6
  <1>3. CASE Guarding(u)
    <2>1. Others(u)
      BY <1>3, RegisterOK, ValidateOK, LeaveOK DEF Guarding
    <2>2. CASE RegisterLoaded(u) \/ Leave(u)
      <3>1. UNCHANGED <<pc, ptr, succ, head>>
        BY <2>2 DEF RegisterLoaded, Leave, queueVars
      <3>2. Headed(u)' => Headed(u)
        BY <1>0, <2>2, <3>1 DEF RegisterLoaded, Leave, Guard, GuardType, ThreadOK, PlaceInv
      <3> QED BY <1>1, <2>1, <3>1, <3>2
    <2>3. CASE Validate(u)
      BY <1>0, <1>1, <2>1, <2>3, Successor
      DEF Validate, Source, Loaded, Guard, GuardType, ThreadOK, PlaceInv, Goto,
          QueueTypeOK, ThreadInv, PopSteps
    <2> QED BY <1>3, <2>2, <2>3 DEF Guarding
  <1>4. CASE FreeOld(u)
    BY <1>0, <1>1, <1>4, FreeOldOK
    DEF FreeOld, TakeData, Finish, Goto, QueueTypeOK
  <1>5. CASE Freeing(u)
    BY <1>5, FreeingIs DEF queueVars
  <1>6. CASE Ready(u) /\ Calling(u) /\ UNCHANGED <<hazardVars, guard>>
    <2>1. Others(u) /\ pc'[u] \notin {"pop_next", "pop_cas", "pop_take"}
      BY <1>0, <1>6, CallingOK DEF Calling, Return, CallPush, CallPop, Goto, QueueTypeOK
    <2> QED BY <1>1, <2>1
  <1> QED BY <1>2, <1>3, <1>4, <1>5, <1>6

LEMMA KeepStep == IInv /\ [Next]_vars => \A t \in Threads : KeepInv(t)'
  <1> SUFFICES ASSUME IInv, [Next]_vars, NEW t \in Threads PROVE KeepInv(t)'
    OBVIOUS
  <1>0. /\ head' # Null => head' \in Nodes \ Gone'
        /\ \A n \in Nodes \ Gone' : \A k : Keeps(t, k, n)'
    BY QueueKeeps, GarbageStep, HeadIsKeptNext, KeptNext
  <1>1. ASSUME NEW u \in Threads,
               \/ QueueStep(u) \/ Guarding(u) \/ FreeOld(u) \/ Freeing(u)
               \/ Ready(u) /\ Calling(u) /\ UNCHANGED <<hazardVars, guard>>
        PROVE  KeepInv(t)'
    <2>1. ASSUME Headed(t)' PROVE Keeps(t, 1, ptr[t])'
      <3>1. CASE Headed(t) /\ ptr'[t] = ptr[t]
        <4>1. PICK n \in Nodes : n = ptr[t]
          BY <3>1, Known DEF Headed, QueueTypeOK, Pointer
        <4>2. slots[t][1] = n /\ Keeps(t, 1, n)
          BY <3>1, <4>1, Known DEF Headed, ThreadOK, SlotInv, IInv, KeepInv
        <4>3. Keeps(t, 1, n)'
          BY <1>1, <4>2, KeepsOn, TwoSlots
        <4> QED BY <3>1, <4>1, <4>3 DEF Keeps
      <3>2. CASE ptr'[t] = head' /\ head' # Null
        BY <1>0, <3>2 DEF Keeps
      <3> QED BY <1>1, <2>1, <3>1, <3>2, KeptFrom
    <2>2. ASSUME pc'[t] = "pop_take" PROVE Keeps(t, 2, succ[t])'
      <3>1. CASE pc[t] = "pop_take" /\ succ'[t] = succ[t]
        <4>1. PICK n \in Nodes : n = succ[t]
          BY <3>1, Known DEF QueueTypeOK, Pointer
        <4>2. slots[t][2] = n /\ Keeps(t, 2, n)
          BY <3>1, <4>1, Known DEF ThreadOK, SlotInv, IInv, KeepInv
        <4>3. Keeps(t, 2, n)'
          BY <1>1, <4>2, KeepsOn, TwoSlots
        <4> QED BY <3>1, <4>1, <4>3 DEF Keeps
      <3>2. CASE succ'[t] = head' /\ head' # Null
        BY <1>0, <3>2 DEF Keeps
      <3> QED BY <1>1, <2>2, <3>1, <3>2, KeptFrom
    <2> QED BY <2>1, <2>2 DEF KeepInv, Headed
  <1>2. CASE DropQueue
    BY <1>2 DEF DropQueue, KeepInv
  <1>3. CASE UNCHANGED vars
    BY <1>3 DEF vars, queueVars, hazardVars, freeVars, IInv, KeepInv, Keeps
  <1> QED BY <1>1, <1>2, <1>3, NextCases
-----------------------------------------------------------------------------
LEMMA IndInit == Init => IInv
  <1> SUFFICES ASSUME Init PROVE IInv
    OBVIOUS
  <1>1. QueueInv
    BY QueueStart DEF Init, Outside
  <1>2. /\ \A t \in Threads : pc[t] = "work" /\ op[t] = "none" /\ guard[t] = "none"
        /\ \A t \in Threads : fpc[t] = "idle" /\ victim[t] = Null /\ at[t] = 1
        /\ \A t \in Threads : \A i \in H!Slots : slots[t][i] = Null
        /\ deferred = <<>> /\ freed = {}
    BY DEF Init, QueueInit, H!Init
  <1>3. TypeOK
    <2>1. FreeEvery \in Nat \ {0}
      BY HpQueueAssumption DEF H!HazardConstants
    <2>2. ASSUME NEW t \in Threads PROVE 1 \in 1..H!Last
      <3>1. H!Last \in Nat \ {0}
        BY ScanMeets, TwoSlots
      <3> QED BY <3>1
    <2>3. at \in [Threads -> 1..H!Last] /\ calls \in [Threads -> 0..FreeEvery - 1]
            /\ turns \in [Threads -> 0..FreeEvery]
      BY <2>1, <2>2 DEF Init, H!Init
    <2> QED BY <1>1, <2>3 DEF Init, H!Init, TypeOK, H!TypeOK, QueueInv
  <1>4. Gone = {} /\ H!FreedOnce
    BY <1>2 DEF Gone, H!Deferred, H!Victims, H!FreedOnce
  <1>5. GarbageInv
    BY <1>2, <1>4 DEF GarbageInv, Garbage
  <1>6. LeakInv
    <2>1. PICK s \in Nodes : head = s /\ linked = <<s>>
      BY DEF Init, QueueInit
    <2>2. Linked = {s} /\ s # Null
      BY <2>1, QueueAssumption DEF Linked
    <2> QED BY <1>1, <2>1, <2>2, ChainEntries DEF LeakInv, NoLeak
  <1>7. \A t \in Threads : PlaceInv(t) /\ StackInv(t) /\ SlotInv(t) /\ KeepInv(t)
    <2> SUFFICES ASSUME NEW t \in Threads
                 PROVE  PlaceInv(t) /\ StackInv(t) /\ SlotInv(t) /\ KeepInv(t)
      OBVIOUS
    <2>1. PlaceInv(t)
      BY <1>2 DEF PlaceInv
    <2>2. StackInv(t) /\ SlotInv(t)
      BY <1>2, TwoSlots DEF StackInv, SlotInv
    <2>3. KeepInv(t)
      BY <1>2 DEF KeepInv
    <2> QED BY <2>1, <2>2, <2>3
  <1> QED BY <1>1, <1>3, <1>4, <1>5, <1>6, <1>7 DEF IInv

LEMMA IndStep == IInv /\ [Next]_vars => IInv'
  BY QueueKeeps, TypesKeep, GarbageStep, OnceStep, ThreadsStep, KeepStep
  DEF IInv, ThreadOK

(* What holds in every state of hp/queue.rs: the history of the queue, the *)
(* slots that each thread holds (queue.rs:38-165), and whom the scans of   *)
(* HazardPtr::free still have to meet (hp/mod.rs).                         *)
THEOREM Inductive == Spec => []IInv
  BY IndInit, IndStep, PTL DEF Spec

(* The types of the queue and of the hazard pointers are those of their    *)
(* modules; no pointer is null where push or pop follows it.               *)
THEOREM TypeCorrect == Spec => []TypeOK
  BY Inductive, PTL DEF IInv

(* The links of hp/queue.rs are the order of the pushes, and the tail is   *)
(* the last node or the one before, also when a validation fails.          *)
THEOREM LinksAreHistory == Spec => []ChainInOrder
  <1>1. IInv => ChainInOrder
    BY ChainFollows DEF IInv
  <1> QED BY <1>1, Inductive, PTL

(* What pop gives to HazardPtr::free (hp/queue.rs:158), until the memory   *)
(* is given back, is out of reach from the head, and is freed once, for    *)
(* any number of threads, nodes and slots, with hp-wait or without.        *)
THEOREM GarbageOnly == Spec => []FreesOnlyGarbage
  <1>1. ASSUME IInv PROVE FreesOnlyGarbage
    <2>1. Reachable \cap Gone = {}
      BY <1>1, ReachableInOrder DEF IInv, GarbageInv, Garbage, Reachable
    <2> QED BY <1>1, <2>1 DEF IInv, FreesOnlyGarbage, Gone
  <1> QED BY <1>1, Inductive, PTL

(* Queue::drop (hp/queue.rs) leaves no node behind: each was freed, or is  *)
(* with defer_hp, or never was linked.                                     *)
THEOREM LeaksNothing == Spec => []NothingLeaked
  <1>1. ASSUME IInv PROVE NothingLeaked
    <2>1. ASSUME head = Null PROVE H!Victims = {}
      <3>1. \A t \in Threads : pc[t] = "work"
        BY <1>1, <2>1 DEF IInv, LeakInv
      <3>2. \A t \in Threads : victim[t] = Null
        BY <1>1, <3>1 DEF IInv, PlaceInv
      <3> QED BY <3>2 DEF H!Victims
    <2> QED BY <1>1, <2>1 DEF IInv, LeakInv, NoLeak, NothingLeaked, Gone
  <1> QED BY <1>1, Inductive, PTL

(* Two slots are enough for push and pop, and for what free registers      *)
(* itself: a pop has dropped its own two by then.  register never panics   *)
(* for want of one (hp/atomic.rs:967-978), and no operation ends with one  *)
(* in use.                                                                 *)
THEOREM SlotsAreEnough == Spec => []SlotsSuffice
  <1>1. ASSUME IInv PROVE SlotsSuffice
    <2>1. ASSUME NEW t \in Threads, guard[t] = "register" PROVE 2 \in H!Holds(t, Null)
      BY <1>1, <2>1, TwoSlots DEF IInv, SlotInv, H!Holds
    <2>2. ASSUME NEW t \in Threads, fpc[t] \notin {"idle", "start"}
          PROVE  1 \in H!Holds(t, Null) /\ 2 \in H!Holds(t, Null)
      <3>1. pc[t] = "return" /\ guard[t] = "none"
        BY <1>1, <2>2 DEF IInv, PlaceInv
      <3>2. slots[t][1] = Null /\ slots[t][2] = Null
        BY <1>1, <2>2, <3>1 DEF IInv, SlotInv
      <3> QED BY <3>2, TwoSlots DEF H!Holds
    <2>3. ASSUME NEW t \in Threads PROVE H!HasRoom(t)
      <3>1. CASE fpc[t] \in {"idle", "start"}
        BY <3>1 DEF H!HasRoom
      <3>2. CASE fpc[t] \notin {"idle", "start"}
        <4>1. 1 \in H!Holds(t, Null) /\ 2 \in H!Holds(t, Null) /\ 1 # 2
          BY <2>2, <3>2
        <4>2. \E i, j \in H!Holds(t, Null) : i # j
          BY <4>1
        <4> QED BY <4>1, <4>2 DEF H!HasRoom
      <3> QED BY <3>1, <3>2
    <2>4. ASSUME NEW t \in Threads, pc[t] = "work" PROVE Used(t) = {}
      <3>1. guard[t] = "none"
        BY <1>1, <2>4, Known DEF ThreadOK, PlaceInv, GuardType
      <3>2. slots[t][1] = Null
        BY <1>1, <2>4, <3>1 DEF IInv, SlotInv
      <3>3. ASSUME NEW i \in H!Slots PROVE slots[t][i] = Null
        <4>1. i = 1 \/ i = 2 \/ i > 2
          BY TwoSlots DEF H!Slots
        <4> QED BY <1>1, <3>2, <4>1 DEF IInv, StackInv
      <3> QED BY <3>3 DEF Used
    <2> QED BY <2>1, <2>3, <2>4 DEF SlotsSuffice
  <1> QED BY <1>1, Inductive, PTL
-----------------------------------------------------------------------------
(* What a thread accesses to pop has not been given back.                  *)
PopsAreSafe ==
  \A t \in Threads : pc[t] \in PopSteps => Touched(t) \cap freed = {}

LEMMA PopAccess == IInv => PopsAreSafe
  <1> SUFFICES ASSUME IInv, NEW t \in Threads, pc[t] \in PopSteps
               PROVE  Touched(t) \cap freed = {}
    BY DEF PopsAreSafe
  <1>1. pc[t] # "pop_read" /\ KeepInv(t)
    BY DEF IInv, PlaceInv
  <1> QED BY <1>1 DEF Touched, Accessed, KeepInv, Keeps, PopSteps

(* However many threads push, the two hazard pointers of pop keep the head *)
(* and its successor until it is done (hp/queue.rs:108-165): each scan     *)
(* that began after the head was taken out meets them.                     *)
THEOREM PopsSafe == Spec => []PopsAreSafe
  BY PopAccess, Inductive, PTL

(* With one thread that pushes. *)
LEMMA TailStep ==
  ASSUME OnePusher, IInv, TailInv, [Next]_vars
  PROVE  TailInv'
  <1>0. /\ QueueInv /\ QueueTypeOK /\ pc \in [Threads -> Phase]
        /\ next \in [Nodes -> Pointer]
    BY DEF IInv, QueueInv, QueueTypeOK
  <1>1. ASSUME NEW t \in Threads, QueueStep(t) \/ FreeOld(t) \/ Calling(t)
        PROVE  TailInv'
    BY <1>0, <1>1, TailMoving DEF QueueStep, FreeOld, Moving
  <1>2. ASSUME NEW t \in Threads, Validate(t) PROVE TailInv'
    <2>1. /\ UNCHANGED <<head, tail, next, node>> /\ pc[t] # "push_swing"
          /\ \A u \in Threads \ {t} : pc'[u] = pc[u] /\ ptr'[u] = ptr[u]
          /\ \/ pc'[t] = pc[t] /\ ptr'[t] = ptr[t]
             \/ pc[t] = "push_next" /\ pc'[t] = "push_tail"
             \/ pc'[t] = "pop_head"
      BY <1>0, <1>2, Known
      DEF Validate, Goto, ThreadOK, PlaceInv, QueueTypeOK
    <2> QED BY <2>1 DEF TailInv, PushSteps
  <1>3. ASSUME UNCHANGED <<queueVars, pc>> PROVE TailInv'
    BY <1>3 DEF queueVars, TailInv
  <1>4. CASE DropQueue
    BY <1>4 DEF DropQueue, TailInv, PushSteps
  <1>5. CASE UNCHANGED vars
    BY <1>3, <1>5 DEF vars
  <1>6. ASSUME NEW t \in Threads, RegisterLoaded(t) \/ Leave(t) \/ Freeing(t)
        PROVE  TailInv'
    BY <1>3, <1>6 DEF RegisterLoaded, Leave, Freeing
  <1> QED BY <1>1, <1>2, <1>4, <1>5, <1>6, NextCases DEF Guarding

LEMMA Safe ==
  ASSUME OnePusher, IInv, TailInv
  PROVE  NoUseAfterFree
  <1> SUFFICES ASSUME NEW t \in Threads, pc[t] \notin PopSteps, NEW n \in Touched(t)
               PROVE  n \notin freed
    BY PopAccess DEF PopsAreSafe, NoUseAfterFree
  <1>1. pc[t] \in {"push_next", "push_link"} /\ n = ptr[t]
    BY DEF Touched, Accessed, PopSteps
  <1>2. head # Null /\ ptr[t] = tail /\ NotAfter(head, tail)
    BY <1>1, LastIsAhead DEF IInv
  <1> QED BY <1>1, <1>2 DEF IInv, GarbageInv, Garbage, Gone

(* If one thread pushes, no operation of hp/queue.rs accesses a node whose *)
(* memory was given back, for any number of threads that pop.  With two    *)
(* the tail may lag behind the head, and a hazard pointer does not help:   *)
(* the tail is loaded again, and validated, after its node was freed.      *)
THEOREM OnePusherSafe ==
  ASSUME OnePusher
  PROVE  Spec => []NoUseAfterFree
  <1>1. Init => TailInv
    BY TailStart DEF Init, Outside
  <1>2. IInv /\ TailInv /\ [Next]_vars => TailInv'
    BY TailStep
  <1>3. IInv /\ TailInv => NoUseAfterFree
    BY Safe
  <1> QED BY <1>1, <1>2, <1>3, Inductive, PTL DEF Spec
=============================================================================
