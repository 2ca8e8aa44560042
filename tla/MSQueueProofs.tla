--------------------------- MODULE MSQueueProofs ---------------------------
(* The invariant of the steps of MSQueue, for any number of threads and    *)
(* nodes and whatever the threads call: that the pointers are the history  *)
(* in `linked`.  The queues built on those steps have it from here.        *)
EXTENDS MSQueue, SequenceTheorems, TLAPS

(* m was linked no later than n. *)
NotAfter(m, n) ==
  \A i, j \in DOMAIN linked : linked[i] = m /\ linked[j] = n => i <= j

(* The nodes were linked one by one, each to the one before; a node that   *)
(* was not linked leads nowhere.                                           *)
ChainInv ==
  /\ linked # <<>>
  /\ \A i, j \in DOMAIN linked : linked[i] = linked[j] => i = j
  /\ \A i \in DOMAIN linked :
       next[linked[i]] = IF i = Len(linked) THEN Null ELSE linked[i + 1]
  /\ \A n \in Nodes \ Linked : next[n] = Null

(* The tail is the last node or the one before. *)
EndInv ==
  head # Null =>
    /\ head \in Linked
    /\ \E i \in DOMAIN linked :
         tail = linked[i] /\ i >= Len(linked) - 1

(* Each push has a node to itself. *)
NewInv ==
  /\ \A t, u \in Threads : node[t] = node[u] /\ node[t] # Null => t = u
  /\ \A t \in Threads :
       pc[t] \in PushSteps \ {"push_swing"} => node[t] \notin Linked

(* What a thread has loaded: an old tail or head, and what came after it.  *)
PushInv(t) ==
  /\ pc[t] \in PushSteps \ {"push_tail"} =>
       ptr[t] \in Linked /\ NotAfter(ptr[t], tail)
  /\ pc[t] = "push_check" => succ[t] \in {Null, next[ptr[t]]}
  /\ pc[t] = "push_help" => succ[t] = next[ptr[t]]
  /\ pc[t] = "push_swing" => next[ptr[t]] = node[t]

PopInv(t) ==
  /\ pc[t] \in PopSteps \ {"pop_head"} =>
       ptr[t] \in Linked /\ NotAfter(ptr[t], head)
  /\ pc[t] \in PopSteps \ {"pop_head", "pop_next"} => succ[t] = next[ptr[t]]
  /\ pc[t] = "pop_take" => NotAfter(succ[t], head)

ThreadInv(t) ==
  /\ pc[t] \in PushSteps \cup PopSteps => head # Null
  /\ PushInv(t)
  /\ PopInv(t)

QueueInv ==
  /\ QueueTypeOK /\ ChainInv /\ EndInv /\ NewInv
  /\ \A t \in Threads : ThreadInv(t)
-----------------------------------------------------------------------------
(* The steps that all queues have. *)
Moving(t) == Pushing(t) \/ Popping(t) \/ TakeData(t) \/ Calling(t)

(* Types are kept. *)
LEMMA TypeStep ==
  ASSUME QueueInv, NEW t \in Threads, Moving(t),
         saw' \in [Threads -> SUBSET Pointer]
  PROVE  QueueTypeOK'
  <1> USE QueueAssumption DEF QueueInv, QueueTypeOK, Pointer, Phase, PushSteps,
            PopSteps, Outside, Results, Goto
  <1>1. CASE LoadTail(t)
    <2>1. tail # Null
      BY <1>1 DEF LoadTail, EndInv, ThreadInv
    <2> QED BY <1>1, <2>1 DEF LoadTail
  <1>2. CASE LoadTailNext(t)
    BY <1>2 DEF LoadTailNext
  <1>3. CASE HelpTail(t)
    BY <1>3 DEF HelpTail
  <1>4. CASE LinkNode(t)
    <2>1. CASE next[ptr[t]] = Null
      <3>1. node[t] \in Nodes
        BY <1>4 DEF LinkNode
      <3>2. next' \in [Nodes -> Pointer]
        BY <1>4, <2>1, <3>1 DEF LinkNode
      <3>3. linked' \in Seq(Nodes)
        <4>1. linked \in Seq(Nodes) /\ linked' = Append(linked, node[t])
          BY <1>4, <2>1 DEF LinkNode
        <4> QED BY ONLY <3>1, <4>1
      <3>4. UNCHANGED <<head, tail, op, node, ptr, succ, result>>
        BY <1>4, <2>1 DEF LinkNode
      <3>5. pc[t] = "push_link" /\ pc' = [pc EXCEPT ![t] = "push_swing"]
        BY <1>4, <2>1 DEF LinkNode
      <3> QED BY <3>2, <3>3, <3>4, <3>5
    <2>2. CASE next[ptr[t]] # Null
      <3>1. /\ UNCHANGED <<head, tail, next, op, node, succ, linked, result>>
            /\ pc[t] = "push_link" /\ pc' = [pc EXCEPT ![t] = "push_tail"]
            /\ ptr' = [ptr EXCEPT ![t] = Null]
        BY <1>4, <2>2 DEF LinkNode
      <3>2. /\ pc' \in [Threads -> Phase] /\ pc'[t] = "push_tail"
            /\ \A u \in Threads \ {t} : pc'[u] = pc[u] /\ ptr'[u] = ptr[u]
        BY <3>1
      <3> QED BY <3>1, <3>2
    <2> QED BY <2>1, <2>2
  <1>5. CASE SwingTail(t)
    BY <1>5 DEF SwingTail, Finish
  <1>6. CASE LoadHead(t)
    BY <1>6 DEF LoadHead, ThreadInv
  <1>7. CASE LoadHeadNext(t)
    <2>1. ASSUME NEW r \in {Null, "yes", "no"}, Finish(t, r)
          PROVE  QueueTypeOK'
      BY <1>7, <2>1 DEF LoadHeadNext, Finish
    <2>2. CASE /\ next[ptr[t]] # Null
               /\ succ' = [succ EXCEPT ![t] = next[ptr[t]]]
               /\ Goto(t, IF op[t] = "pop_if" THEN "pop_read" ELSE "pop_cas")
               /\ UNCHANGED <<ptr, result>>
      BY <1>7, <2>2 DEF LoadHeadNext
    <2> QED BY <1>7, <2>1, <2>2 DEF LoadHeadNext
  <1>8. CASE ReadFirst(t)
    <2>1. CASE succ[t] \in Wanted
      BY <1>8, <2>1 DEF ReadFirst
    <2>2. CASE succ[t] \notin Wanted
      <3>1. /\ pc' = [pc EXCEPT ![t] = "return"]
            /\ ptr' = [ptr EXCEPT ![t] = Null] /\ succ' = [succ EXCEPT ![t] = Null]
            /\ result' = [result EXCEPT ![t] = Null]
            /\ UNCHANGED <<head, tail, next, op, node, linked>>
        BY <1>8, <2>2 DEF ReadFirst, Finish
      <3>2. /\ pc' \in [Threads -> Phase] /\ pc'[t] = "return"
            /\ \A u \in Threads \ {t} : pc'[u] = pc[u] /\ ptr'[u] = ptr[u]
                                                /\ succ'[u] = succ[u]
        BY <3>1
      <3>3. /\ ptr' \in [Threads -> Pointer] /\ succ' \in [Threads -> Pointer]
            /\ result' \in [Threads -> Results]
        BY <3>1
      <3> QED BY <3>1, <3>2, <3>3
    <2> QED BY <2>1, <2>2
  <1>9. CASE SwingHead(t)
    <2>0. pc[t] = "pop_cas" /\ UNCHANGED <<tail, next, op, node, linked>>
      BY <1>9 DEF SwingHead
    <2>1. CASE head = ptr[t]
      <3>1. /\ head' = succ[t] /\ pc' = [pc EXCEPT ![t] = "pop_take"]
            /\ UNCHANGED <<ptr, succ, result>>
        BY <1>9, <2>1 DEF SwingHead
      <3>2. /\ pc' \in [Threads -> Phase] /\ pc'[t] = "pop_take"
            /\ \A u \in Threads \ {t} : pc'[u] = pc[u]
        BY <3>1
      <3> QED BY <2>0, <3>1, <3>2
    <2>2. CASE head # ptr[t]
      <3>1. /\ pc' \in {[pc EXCEPT ![t] = "pop_head"], [pc EXCEPT ![t] = "return"]}
            /\ ptr' = [ptr EXCEPT ![t] = Null] /\ succ' = [succ EXCEPT ![t] = Null]
            /\ result' \in {result, [result EXCEPT ![t] = Null]}
            /\ head' = head
        BY <1>9, <2>2 DEF SwingHead, Finish
      <3>2. /\ pc' \in [Threads -> Phase] /\ result' \in [Threads -> Results]
            /\ ptr' \in [Threads -> Pointer] /\ succ' \in [Threads -> Pointer]
        BY <3>1
      <3>3. /\ pc'[t] \in {"pop_head", "return"} /\ ptr'[t] = Null /\ succ'[t] = Null
            /\ \A u \in Threads \ {t} :
                 pc'[u] = pc[u] /\ ptr'[u] = ptr[u] /\ succ'[u] = succ[u]
        BY <3>1
      <3> QED BY <2>0, <3>1, <3>2, <3>3
    <2> QED BY <2>1, <2>2
  <1>10. CASE TakeData(t)
    BY <1>10 DEF TakeData, Finish
  <1>11. CASE Return(t)
    BY <1>11 DEF Return
  <1>12. ASSUME NEW o \in Ops, CallPush(t, o) PROVE QueueTypeOK'
    BY <1>12 DEF CallPush, Unused
  <1>13. ASSUME NEW o \in Ops, CallPop(t, o) PROVE QueueTypeOK'
    BY <1>13 DEF CallPop
  <1> QED
    BY <1>1, <1>2, <1>3, <1>4, <1>5, <1>6, <1>7, <1>8, <1>9, <1>10, <1>11,
       <1>12, <1>13
    DEF Moving, Pushing, Popping, Calling

(* The entries of the history, and the ends among them.                    *)
LEMMA ChainEntries ==
  ASSUME QueueInv
  PROVE  /\ Len(linked) \in Nat \ {0} /\ DOMAIN linked = 1..Len(linked)
         /\ Linked \subseteq Nodes
         /\ \A n : NotAfter(n, n)
         /\ head # Null => head \in Linked /\ tail \in Linked
  <1>1. linked \in Seq(Nodes) /\ linked # <<>>
    BY DEF QueueInv, QueueTypeOK, ChainInv
  <1>2. Len(linked) \in Nat \ {0} /\ DOMAIN linked = 1..Len(linked)
    BY <1>1
  <1>3. Linked \subseteq Nodes
    BY <1>1 DEF Linked
  <1>4. \A i, j \in 1..Len(linked) : linked[i] = linked[j] => i <= j
    BY <1>2 DEF QueueInv, ChainInv
  <1>5. \A n : NotAfter(n, n)
    BY <1>2, <1>4 DEF NotAfter
  <1>6. head # Null => head \in Linked /\ tail \in Linked
    BY DEF QueueInv, EndInv, Linked
  <1> QED BY <1>2, <1>3, <1>5, <1>6

(* A step of one thread that changes nothing the others see. *)
Quiet(t) ==
  /\ UNCHANGED <<head, tail, next, node, linked>>
  /\ \A u \in Threads \ {t} :
       pc'[u] = pc[u] /\ ptr'[u] = ptr[u] /\ succ'[u] = succ[u]
  /\ pc'[t] \in PushSteps \ {"push_swing"} =>
       pc[t] \in PushSteps \ {"push_swing"}

LEMMA QuietStep ==
  ASSUME QueueInv, NEW t \in Threads, Quiet(t), QueueTypeOK', ThreadInv(t)'
  PROVE  QueueInv'
  <1>1. ChainInv'
    BY DEF QueueInv, ChainInv, Quiet, Linked
  <1>2. EndInv'
    BY DEF QueueInv, EndInv, Quiet, Linked
  <1>3. NewInv'
    BY DEF QueueInv, NewInv, Quiet, Linked
  <1>4. ASSUME NEW u \in Threads \ {t} PROVE ThreadInv(u)'
    <2>1. ThreadInv(u)
      BY DEF QueueInv
    <2> QED
      BY <2>1 DEF ThreadInv, PushInv, PopInv, Quiet, Linked, NotAfter
  <1> QED BY <1>1, <1>2, <1>3, <1>4 DEF QueueInv

(* A node is linked behind the last one, and the tail does not lag then.   *)
LEMMA Linking ==
  ASSUME QueueInv, NEW t \in Threads, LinkNode(t), next[ptr[t]] = Null
  PROVE  /\ Len(linked) \in Nat \ {0}
         /\ DOMAIN linked = 1..Len(linked)
         /\ ptr[t] = linked[Len(linked)] /\ tail = ptr[t]
         /\ node[t] \in Nodes \ Linked
         /\ Len(linked') = Len(linked) + 1
         /\ DOMAIN linked' = 1..Len(linked) + 1
         /\ \A i \in 1..Len(linked) : linked'[i] = linked[i]
         /\ linked'[Len(linked) + 1] = node[t]
         /\ Linked' = Linked \cup {node[t]}
  <1>1. /\ linked \in Seq(Nodes) /\ linked # <<>>
        /\ pc[t] = "push_link" /\ head # Null
        /\ linked' = Append(linked, node[t])
    BY DEF QueueInv, QueueTypeOK, ChainInv, LinkNode, ThreadInv, PushSteps
  <1>2. Len(linked) \in Nat \ {0} /\ DOMAIN linked = 1..Len(linked)
    BY <1>1
  <1>3. node[t] \in Nodes \ Linked
    BY <1>1 DEF QueueInv, QueueTypeOK, NewInv, PushSteps, Pointer
  <1>4. PICK i \in 1..Len(linked) : ptr[t] = linked[i]
    BY <1>1, <1>2 DEF QueueInv, ThreadInv, PushInv, PushSteps, Linked
  <1>5. i = Len(linked)
    <2>1. \A j \in 1..Len(linked) : linked[j] # Null
      BY <1>1, <1>2, QueueAssumption
    <2> QED BY <1>2, <1>4, <2>1 DEF QueueInv, ChainInv
  <1>6. tail = linked[i]
    <2>1. PICK j \in 1..Len(linked) : tail = linked[j]
      BY <1>1, <1>2 DEF QueueInv, EndInv
    <2>2. i <= j
      BY <1>1, <1>2, <1>4, <2>1
         DEF QueueInv, ThreadInv, PushInv, PushSteps, NotAfter
    <2> QED BY <1>2, <1>5, <2>1, <2>2
  <1>7. /\ Len(linked') = Len(linked) + 1
        /\ DOMAIN linked' = 1..Len(linked) + 1
        /\ \A j \in 1..Len(linked) : linked'[j] = linked[j]
        /\ linked'[Len(linked) + 1] = node[t]
    BY <1>1, <1>2, <1>3
  <1>8. Linked' = Linked \cup {node[t]}
    BY <1>2, <1>7 DEF Linked
  <1> QED BY <1>2, <1>3, <1>4, <1>5, <1>6, <1>7, <1>8

(* What a moving end does to the others: tail and head only move on.       *)
LEMMA TailMoves ==
  ASSUME QueueInv, NEW t \in Threads, HelpTail(t) \/ SwingTail(t)
  PROVE  /\ EndInv'
         /\ \A n \in Nodes : NotAfter(n, tail) => NotAfter(n, tail)'
         /\ UNCHANGED <<head, next, node, linked>>
  <1>1. PICK new \in Nodes :
        /\ pc[t] \in {"push_help", "push_swing"}
        /\ UNCHANGED <<head, next, node, linked>>
        /\ tail' = IF tail = ptr[t] THEN new ELSE tail
        /\ next[ptr[t]] = new /\ new # Null /\ head # Null
        /\ linked \in Seq(Nodes)
    <2> USE QueueAssumption
        DEF QueueInv, QueueTypeOK, ThreadInv, PushInv, PushSteps, Pointer
    <2>1. CASE HelpTail(t)
      <3>1. succ[t] \in Nodes
        BY <2>1 DEF HelpTail
      <3> QED BY <2>1, <3>1 DEF HelpTail
    <2>2. CASE SwingTail(t)
      <3>1. node[t] \in Nodes
        BY <2>2 DEF SwingTail
      <3> QED BY <2>2, <3>1 DEF SwingTail
    <2> QED BY <2>1, <2>2
  <1>2. CASE tail # ptr[t]
    BY <1>1, <1>2 DEF QueueInv, EndInv, NotAfter, Linked
  <1>3. CASE tail = ptr[t]
    <2>1. Len(linked) \in Nat /\ DOMAIN linked = 1..Len(linked)
      BY <1>1
    <2>2. PICK i \in 1..Len(linked) : tail = linked[i] /\ i >= Len(linked) - 1
      BY <1>1, <2>1 DEF QueueInv, EndInv
    <2>3. i = Len(linked) - 1 /\ new = linked[Len(linked)]
      <3>1. new = IF i = Len(linked) THEN Null ELSE linked[i + 1]
        BY <1>1, <1>3, <2>1, <2>2 DEF QueueInv, ChainInv
      <3>2. i # Len(linked)
        BY <1>1, <3>1
      <3>3. i = Len(linked) - 1 /\ i + 1 = Len(linked)
        <4>1. Len(linked) \in Nat /\ i >= Len(linked) - 1
          BY <2>1, <2>2
        <4> QED BY <3>2, <4>1
      <3> QED BY <3>1, <3>2, <3>3
    <2>4. tail' = linked[Len(linked)]
      BY <1>1, <1>3, <2>3
    <2>5. EndInv'
      <3>1. head' \in Linked'
        <4>1. head \in Linked
          BY <1>1 DEF QueueInv, EndInv
        <4> QED BY <1>1, <4>1 DEF Linked
      <3>2. Len(linked) \in DOMAIN linked' /\ tail' = linked'[Len(linked)]
        BY <1>1, <2>1, <2>2, <2>3, <2>4
      <3> QED BY <1>1, <2>1, <3>1, <3>2 DEF EndInv
    <2>6. \A j, k \in 1..Len(linked) : linked[j] = linked[k] => j = k
      BY <2>1 DEF QueueInv, ChainInv
    <2>7. ASSUME NEW n \in Nodes, NotAfter(n, tail) PROVE NotAfter(n, tail)'
      BY <1>1, <2>1, <2>2, <2>3, <2>4, <2>6 DEF NotAfter
    <2> QED BY <1>1, <2>5, <2>7
  <1> QED BY <1>2, <1>3

LEMMA HeadMoves ==
  ASSUME QueueInv, NEW t \in Threads, SwingHead(t), head = ptr[t]
  PROVE  /\ succ[t] = next[head] /\ head' = succ[t] /\ head' # Null
         /\ \E i \in DOMAIN linked :
              i + 1 \in DOMAIN linked /\ head = linked[i] /\ succ[t] = linked[i + 1]
         /\ EndInv'
         /\ \A n \in Nodes : NotAfter(n, head) => NotAfter(n, head)'
         /\ NotAfter(head, head)'
         /\ UNCHANGED <<tail, next, node, linked>>
  <1>1. /\ pc[t] = "pop_cas" /\ head' = succ[t] /\ head # Null
        /\ UNCHANGED <<tail, next, node, linked>>
        /\ succ[t] = next[head] /\ succ[t] # Null
        /\ linked \in Seq(Nodes)
    BY DEF SwingHead, QueueInv, QueueTypeOK, ThreadInv, PopInv, PopSteps
  <1>2. Len(linked) \in Nat /\ DOMAIN linked = 1..Len(linked)
    BY <1>1
  <1>3. PICK i \in 1..Len(linked) : head = linked[i]
    BY <1>1, <1>2 DEF QueueInv, EndInv, Linked
  <1>4. i + 1 \in 1..Len(linked) /\ succ[t] = linked[i + 1]
    BY <1>1, <1>2, <1>3 DEF QueueInv, ChainInv
  <1>5. EndInv'
    <2>1. head' \in Linked'
      BY <1>1, <1>2, <1>4 DEF Linked
    <2>2. \E j \in DOMAIN linked' : tail' = linked'[j] /\ j >= Len(linked') - 1
      BY <1>1 DEF QueueInv, EndInv
    <2> QED BY <2>1, <2>2 DEF EndInv
  <1>6. \A j, k \in 1..Len(linked) : linked[j] = linked[k] => j = k
    BY <1>2 DEF QueueInv, ChainInv
  <1>7. ASSUME NEW n \in Nodes, NotAfter(n, head) PROVE NotAfter(n, head)'
    BY <1>1, <1>2, <1>3, <1>4, <1>6, <1>7 DEF NotAfter
  <1>8. NotAfter(head, head)'
    BY <1>1, <1>2, <1>4, <1>6 DEF NotAfter
  <1> QED BY <1>1, <1>2, <1>3, <1>4, <1>5, <1>7, <1>8

(* What the link of a new node leaves as it was, for every thread.         *)
LEMMA LinkKeeps ==
  ASSUME QueueInv, NEW t \in Threads, LinkNode(t), next[ptr[t]] = Null
  PROVE  /\ ChainInv' /\ EndInv' /\ NewInv'
         /\ \A u \in Threads : ThreadInv(u)'
  <1> DEFINE n == Len(linked)
  <1>1. /\ pc[t] = "push_link" /\ head # Null
        /\ UNCHANGED <<head, tail, op, node, succ, result, ptr>>
        /\ pc' = [pc EXCEPT ![t] = "push_swing"]
        /\ next' = [next EXCEPT ![ptr[t]] = node[t]]
    BY DEF LinkNode, Goto, QueueInv, ThreadInv, PushSteps
  <1>2. /\ next \in [Nodes -> Pointer] /\ pc \in [Threads -> Phase]
        /\ linked \in Seq(Nodes)
    BY DEF QueueInv, QueueTypeOK
  <1>0. DOMAIN linked = 1..n /\ DOMAIN linked' = 1..n + 1
    BY Linking
  <1>3. /\ n \in Nat \ {0}
        /\ ptr[t] = linked[n] /\ tail = ptr[t]
        /\ node[t] \in Nodes \ Linked
        /\ Len(linked') = n + 1
        /\ \A i \in 1..n : linked'[i] = linked[i] /\ linked[i] \in Linked
        /\ linked'[n + 1] = node[t]
        /\ Linked' = Linked \cup {node[t]}
    BY Linking DEF Linked
  <1>4. /\ \A i, j \in 1..n : linked[i] = linked[j] => i = j
        /\ \A i \in 1..n :
             next[linked[i]] = IF i = n THEN Null ELSE linked[i + 1]
        /\ \A m \in Nodes \ Linked : next[m] = Null
    BY <1>0 DEF QueueInv, ChainInv
  <1>5. /\ \A m \in Nodes \ {linked[n]} : next'[m] = next[m]
        /\ next'[linked[n]] = node[t]
        /\ linked[n] \in Nodes \cap Linked /\ Linked \subseteq Nodes
    BY <1>0, <1>1, <1>2, <1>3 DEF Linked
  <1>6. ChainInv'
    <2>1. \A i, j \in 1..n + 1 : linked'[i] = linked'[j] => i = j
      BY <1>3, <1>4
    <2>2. ASSUME NEW i \in 1..n + 1
          PROVE  next'[linked'[i]] = IF i = n + 1 THEN Null ELSE linked'[i + 1]
      <3>1. CASE i = n + 1
        BY <1>3, <1>4, <1>5, <3>1
      <3>2. CASE i = n
        BY <1>3, <1>4, <1>5, <3>2
      <3>3. CASE i < n
        BY <1>3, <1>4, <1>5, <3>3
      <3> QED BY <1>3, <3>1, <3>2, <3>3
    <2>3. \A m \in Nodes \ Linked' : next'[m] = Null
      BY <1>3, <1>4, <1>5
    <2>4. linked' # <<>>
      BY <1>3
    <2> QED BY <1>0, <1>3, <2>1, <2>2, <2>3, <2>4 DEF ChainInv
  <1>7. EndInv'
    <2>1. head' \in Linked'
      BY <1>1, <1>3 DEF QueueInv, EndInv
    <2>2. n \in DOMAIN linked' /\ tail' = linked'[n] /\ n >= Len(linked') - 1
      BY <1>0, <1>1, <1>3
    <2> QED BY <2>1, <2>2 DEF EndInv
  <1>8. NewInv'
    <2>1. ASSUME NEW u \in Threads, pc'[u] \in PushSteps \ {"push_swing"}
          PROVE  node'[u] \notin Linked'
      <3>1. u # t /\ pc'[u] = pc[u]
        BY <1>1, <1>2, <2>1
      <3>2. node[u] # node[t] /\ node[u] \notin Linked
        BY <1>3, <2>1, <3>1, QueueAssumption DEF QueueInv, NewInv
      <3> QED BY <1>1, <1>3, <3>2
    <2> QED BY <1>1, <2>1 DEF QueueInv, NewInv
  <1>9. \A m, k \in Linked : NotAfter(m, k) => NotAfter(m, k)'
    BY <1>0, <1>3 DEF NotAfter
  <1>10. ASSUME NEW u \in Threads PROVE ThreadInv(u)'
    <2>1. pc'[u] = IF u = t THEN "push_swing" ELSE pc[u]
      BY <1>1, <1>2
    <2>2. /\ ThreadInv(u)
          /\ pc[u] \in {"push_help", "pop_read", "pop_cas", "pop_take"} =>
               succ[u] # Null
      BY DEF QueueInv, QueueTypeOK
    <2>3. head \in Linked /\ tail \in Linked
      BY <1>1, <1>3, <1>5 DEF QueueInv, EndInv
    <2>4. PushInv(u)'
      <3>1. CASE u = t
        BY <1>1, <1>3, <1>5, <1>9, <2>1, <2>2, <2>3, <3>1
           DEF ThreadInv, PushInv, PushSteps
      <3>2. CASE u # t /\ pc[u] \in PushSteps \ {"push_tail"}
        <4>1. /\ ptr[u] \in Linked /\ NotAfter(ptr[u], tail)
              /\ pc'[u] = pc[u]
          BY <2>1, <2>2, <3>2 DEF ThreadInv, PushInv
        <4>2. NotAfter(ptr[u], tail)' /\ ptr'[u] \in Linked'
          BY <1>1, <1>3, <1>9, <2>3, <4>1
        <4>3. next'[ptr[u]] = next[ptr[u]] \/ next[ptr[u]] = Null
          BY <1>3, <1>4, <1>5, <4>1
        <4>4. node[u] # Null
          BY <3>2 DEF QueueInv, QueueTypeOK
        <4> QED
          BY <1>1, <2>2, <3>2, <4>1, <4>2, <4>3, <4>4
          DEF ThreadInv, PushInv, PushSteps
      <3> QED BY <2>1, <3>1, <3>2 DEF PushInv, PushSteps
    <2>5. PopInv(u)'
      <3>1. pc'[u] \in PopSteps => pc[u] = pc'[u]
        BY <2>1 DEF PopSteps
      <3>2. CASE pc'[u] \in PopSteps \ {"pop_head"}
        <4>1. ptr[u] \in Linked /\ NotAfter(ptr[u], head) /\ pc'[u] = pc[u]
          BY <2>2, <3>1, <3>2 DEF ThreadInv, PopInv
        <4>2. NotAfter(ptr[u], head)' /\ ptr'[u] \in Linked'
          BY <1>1, <1>3, <1>9, <2>3, <4>1
        <4>3. next'[ptr[u]] = next[ptr[u]] \/ next[ptr[u]] = Null
          BY <1>3, <1>4, <1>5, <4>1
        <4>4. CASE pc[u] = "pop_next"
          BY <4>1, <4>2, <4>4 DEF PopInv, PopSteps
        <4>5. CASE pc[u] # "pop_next"
          <5>1. succ[u] = next[ptr[u]] /\ succ[u] # Null
            BY <2>2, <3>2, <4>1, <4>5 DEF ThreadInv, PopInv, PopSteps
          <5>2. succ[u] \in Linked
            <6>1. PICK i \in 1..n : ptr[u] = linked[i]
              BY <1>0, <4>1 DEF Linked
            <6> QED BY <1>3, <1>4, <5>1, <6>1
          <5> QED
            BY <1>1, <1>9, <2>2, <2>3, <4>1, <4>2, <4>3, <4>5, <5>1, <5>2
            DEF ThreadInv, PopInv, PopSteps
        <4> QED BY <4>4, <4>5
      <3> QED BY <3>2 DEF PopInv, PopSteps
    <2> QED BY <1>1, <2>1, <2>2, <2>4, <2>5 DEF ThreadInv, PushSteps, PopSteps
  <1> QED BY <1>6, <1>7, <1>8, <1>10

(* Help, swing of the tail, and swing of the head, for every thread.       *)
LEMMA EndsKeep ==
  ASSUME QueueInv, NEW t \in Threads, QueueTypeOK',
         HelpTail(t) \/ SwingTail(t) \/ (SwingHead(t) /\ head = ptr[t])
  PROVE  QueueInv'
  <1>1. /\ EndInv'
        /\ UNCHANGED <<next, node, linked>>
        /\ \A n \in Nodes : /\ NotAfter(n, tail) => NotAfter(n, tail)'
                            /\ NotAfter(n, head) => NotAfter(n, head)'
        /\ head' # Null
    <2>1. CASE HelpTail(t) \/ SwingTail(t)
      <3>1. head # Null
        BY <2>1 DEF HelpTail, SwingTail, QueueInv, ThreadInv, PushSteps
      <3>2. UNCHANGED <<head, linked>>
        BY <2>1, TailMoves
      <3>3. \A n \in Nodes : NotAfter(n, head) => NotAfter(n, head)'
        BY <3>2 DEF NotAfter
      <3> QED BY <2>1, <3>1, <3>2, <3>3, TailMoves
    <2>2. CASE SwingHead(t) /\ head = ptr[t]
      <3>1. UNCHANGED <<tail, linked>>
        BY <2>2, HeadMoves
      <3>2. \A n \in Nodes : NotAfter(n, tail) => NotAfter(n, tail)'
        BY <3>1 DEF NotAfter
      <3> QED BY <2>2, <3>2, HeadMoves
    <2> QED BY <2>1, <2>2
  <1>2. Linked' = Linked /\ Linked \subseteq Nodes
    BY <1>1 DEF Linked, QueueInv, QueueTypeOK
  <1>3. /\ \A u \in Threads \ {t} :
             pc'[u] = pc[u] /\ ptr'[u] = ptr[u] /\ succ'[u] = succ[u]
        /\ pc[t] \in {"push_help", "push_swing"} =>
             pc'[t] \in {"push_tail", "return"}
        /\ pc[t] = "pop_cas" =>
             pc'[t] = "pop_take" /\ ptr'[t] = ptr[t] /\ succ'[t] = succ[t]
        /\ pc'[t] = "push_tail" => pc[t] = "push_help"
        /\ pc[t] \in {"push_help", "push_swing", "pop_cas"}
        /\ pc'[t] = "pop_take" => NotAfter(succ[t], head)'
    <2>1. CASE HelpTail(t)
      BY <2>1 DEF HelpTail, Goto, QueueInv, QueueTypeOK
    <2>2. CASE SwingTail(t)
      BY <2>2 DEF SwingTail, Finish, Goto, QueueInv, QueueTypeOK
    <2>3. CASE SwingHead(t) /\ head = ptr[t]
      <3>1. head' = succ[t] /\ NotAfter(head, head)'
        BY <2>3, HeadMoves
      <3>2. succ' = succ
        BY <2>3 DEF SwingHead
      <3>3. NotAfter(succ[t], head)'
        BY <3>1, <3>2
      <3> QED BY <2>3, <3>3 DEF SwingHead, Goto, QueueInv, QueueTypeOK
    <2> QED BY <2>1, <2>2, <2>3
  <1>4. ChainInv'
    BY <1>1, <1>2 DEF QueueInv, ChainInv
  <1>5. NewInv'
    BY <1>1, <1>2, <1>3 DEF QueueInv, NewInv, PushSteps
  <1>6. ASSUME NEW u \in Threads \ {t} PROVE ThreadInv(u)'
    <2>1. ThreadInv(u) /\ succ[u] \in Pointer /\ next \in [Nodes -> Pointer]
      BY DEF QueueInv, QueueTypeOK
    <2>2. PushInv(u)'
      BY <1>1, <1>2, <1>3, <2>1 DEF ThreadInv, PushInv
    <2>3. PopInv(u)'
      <3>1. pc[u] = "pop_take" => succ[u] \in Nodes
        BY <2>1 DEF QueueInv, QueueTypeOK, Pointer
      <3>2. pc[u] = "pop_take" => NotAfter(succ[u], head)'
        BY <1>1, <1>3, <2>1, <3>1 DEF ThreadInv, PopInv
      <3> QED BY <1>1, <1>2, <1>3, <2>1, <3>2 DEF ThreadInv, PopInv
    <2> QED BY <1>1, <1>3, <2>1, <2>2, <2>3 DEF ThreadInv
  <1>7. ThreadInv(t)'
    <2>1. ThreadInv(t)
      BY DEF QueueInv
    <2> QED
      BY <1>1, <1>2, <1>3, <2>1
      DEF ThreadInv, PushInv, PopInv, PushSteps, PopSteps
  <1> QED BY <1>1, <1>4, <1>5, <1>6, <1>7 DEF QueueInv

(* An operation that starts or ends touches no node but its own.           *)
LEMMA CallingKeeps ==
  ASSUME QueueInv, NEW t \in Threads, Calling(t), QueueTypeOK'
  PROVE  QueueInv'
  <1>1. /\ UNCHANGED <<head, tail, next, ptr, succ, linked>>
        /\ \A u \in Threads \ {t} : pc'[u] = pc[u] /\ node'[u] = node[u]
        /\ pc'[t] \in {"work", "push_tail", "pop_head"}
        /\ pc'[t] # "work" => head # Null
        /\ \/ node'[t] \in {Null, node[t]} /\ pc'[t] # "push_tail"
           \/ node'[t] \in Unused
    BY DEF Calling, Return, CallPush, CallPop, Goto, QueueInv, QueueTypeOK
  <1>2. NewInv'
    BY <1>1, QueueAssumption DEF QueueInv, NewInv, Unused, Linked, PushSteps
  <1>3. ASSUME NEW u \in Threads PROVE ThreadInv(u)'
    BY <1>1 DEF QueueInv, ThreadInv, PushInv, PopInv, PushSteps, PopSteps, NotAfter,
               Linked
  <1>4. ChainInv' /\ EndInv'
    BY <1>1 DEF QueueInv, ChainInv, EndInv, Linked
  <1> QED BY <1>2, <1>3, <1>4 DEF QueueInv

(* The steps of the operations keep the invariant.                         *)
LEMMA MovingStep ==
  ASSUME QueueInv, NEW t \in Threads, Moving(t),
         saw' \in [Threads -> SUBSET Pointer]
  PROVE  QueueInv'
  <1>1. QueueTypeOK'
    BY TypeStep
  <1>2. ASSUME Quiet(t), ThreadInv(t)' PROVE QueueInv'
    BY <1>1, <1>2, QuietStep
  <1> USE DEF Quiet, ThreadInv, PushInv, PopInv, PushSteps, PopSteps, Goto
  <1>3. CASE LoadTail(t)
    <2>1. Quiet(t)
      BY <1>3 DEF LoadTail, QueueInv, QueueTypeOK
    <2>2. tail \in Linked /\ NotAfter(tail, tail) /\ head # Null
      BY <1>3, ChainEntries DEF LoadTail, QueueInv
    <2>3. ThreadInv(t)'
      BY <1>3, <2>2 DEF LoadTail, QueueInv, QueueTypeOK, NotAfter, Linked
    <2> QED BY <1>2, <2>1, <2>3
  <1>4. CASE LoadTailNext(t)
    <2>1. Quiet(t)
      BY <1>4 DEF LoadTailNext, QueueInv, QueueTypeOK
    <2>2. ThreadInv(t)'
      BY <1>4 DEF LoadTailNext, QueueInv, QueueTypeOK, NotAfter, Linked
    <2> QED BY <1>2, <2>1, <2>2
  <1>5. CASE LoadHead(t)
    <2>1. Quiet(t)
      BY <1>5 DEF LoadHead, QueueInv, QueueTypeOK
    <2>2. head \in Linked /\ NotAfter(head, head) /\ head # Null
      BY <1>5, ChainEntries DEF LoadHead, QueueInv
    <2>3. ThreadInv(t)'
      BY <1>5, <2>2 DEF LoadHead, QueueInv, QueueTypeOK, NotAfter, Linked
    <2> QED BY <1>2, <2>1, <2>3
  <1>6. CASE LoadHeadNext(t)
    <2>1. Quiet(t)
      BY <1>6 DEF LoadHeadNext, Finish, QueueInv, QueueTypeOK
    <2>2. ThreadInv(t)'
      BY <1>6 DEF LoadHeadNext, Finish, QueueInv, QueueTypeOK, NotAfter, Linked
    <2> QED BY <1>2, <2>1, <2>2
  <1>7. CASE ReadFirst(t)
    <2>1. Quiet(t)
      BY <1>7 DEF ReadFirst, Finish, QueueInv, QueueTypeOK
    <2>2. ThreadInv(t)'
      BY <1>7 DEF ReadFirst, Finish, QueueInv, QueueTypeOK, NotAfter, Linked
    <2> QED BY <1>2, <2>1, <2>2
  <1>8. CASE TakeData(t)
    <2>1. Quiet(t) /\ ThreadInv(t)'
      BY <1>8 DEF TakeData, Finish, QueueInv, QueueTypeOK
    <2> QED BY <1>2, <2>1
  <1>9. CASE LinkNode(t)
    <2>1. CASE next[ptr[t]] = Null
      BY <1>1, <1>9, <2>1, LinkKeeps DEF QueueInv
    <2>2. CASE next[ptr[t]] # Null
      <3>1. Quiet(t) /\ ThreadInv(t)'
        BY <1>9, <2>2 DEF LinkNode, QueueInv, QueueTypeOK
      <3> QED BY <1>2, <3>1
    <2> QED BY <2>1, <2>2
  <1>10. CASE SwingHead(t)
    <2>1. CASE head = ptr[t]
      BY <1>1, <1>10, <2>1, EndsKeep
    <2>2. CASE head # ptr[t]
      <3>1. Quiet(t) /\ ThreadInv(t)'
        BY <1>10, <2>2 DEF SwingHead, Finish, QueueInv, QueueTypeOK
      <3> QED BY <1>2, <3>1
    <2> QED BY <2>1, <2>2
  <1>11. CASE HelpTail(t) \/ SwingTail(t)
    BY <1>1, <1>11, EndsKeep
  <1>12. CASE Calling(t)
    BY <1>1, <1>12, CallingKeeps
  <1> QED
    BY <1>3, <1>4, <1>5, <1>6, <1>7, <1>8, <1>9, <1>10, <1>11, <1>12
    DEF Moving, Pushing, Popping

(* What happens outside of the operations, in `pin` and around it, is none *)
(* of the queue's business.                                                *)
LEMMA OutsideStep ==
  ASSUME QueueInv, NEW t \in Threads, NEW p \in Outside,
         pc[t] \in Outside, Goto(t, p), UNCHANGED queueVars,
         saw' \in [Threads -> SUBSET Pointer]
  PROVE  QueueInv'
  <1>1. QueueTypeOK'
    BY DEF QueueInv, QueueTypeOK, queueVars, Goto, PushSteps, PopSteps, Outside, Phase
  <1>2. Quiet(t) /\ ThreadInv(t)'
    BY DEF Quiet, ThreadInv, PushInv, PopInv, queueVars, Goto, PushSteps, PopSteps,
           Outside, QueueInv, QueueTypeOK
  <1> QED BY <1>1, <1>2, QuietStep

LEMMA QueueStart ==
  ASSUME NEW start \in Outside, QueueInit(start)
  PROVE  QueueInv
  <1>1. PICK s \in Nodes : head = s /\ tail = s /\ linked = <<s>>
    BY DEF QueueInit
  <1>2. QueueTypeOK
    BY <1>1 DEF QueueInit, QueueTypeOK, Pointer, Phase, Outside, Results, PushSteps,
                PopSteps
  <1>3. /\ Len(linked) = 1 /\ DOMAIN linked = {1} /\ linked[1] = s
        /\ linked # <<>> /\ Linked = {s}
    BY <1>1 DEF Linked
  <1>4. ChainInv /\ EndInv /\ NewInv
    BY <1>1, <1>3 DEF QueueInit, ChainInv, EndInv, NewInv, Outside, PushSteps
  <1>5. \A t \in Threads : ThreadInv(t)
    BY DEF QueueInit, ThreadInv, PushInv, PopInv, Outside, PushSteps, PopSteps
  <1> QED BY <1>2, <1>4, <1>5 DEF QueueInv

(* The history `saw` has the right type, when head and next do.            *)
LEMMA LookType ==
  ASSUME QueueInv, Look, head' \in Pointer, next' \in [Nodes -> Pointer]
  PROVE  saw' \in [Threads -> SUBSET Pointer]
  <1>1. First' \in Pointer
    BY DEF First, Pointer
  <1> QED BY <1>1 DEF Look, QueueInv, QueueTypeOK

LEMMA LookStep ==
  ASSUME QueueInv, NEW t \in Threads, Moving(t), Look
  PROVE  QueueInv'
  <1> USE DEF QueueInv, QueueTypeOK, Pointer
  <1>1. head' \in Pointer
    <2>1. head' \in {head, succ[t]}
      BY DEF Moving, Pushing, Popping, Calling, LoadTail, LoadTailNext, HelpTail,
             LinkNode, SwingTail, LoadHead, LoadHeadNext, ReadFirst, SwingHead,
             TakeData, Return, CallPush, CallPop
    <2> QED BY <2>1
  <1>2. next' \in [Nodes -> Pointer]
    <2>1. next' \in {next, [next EXCEPT ![ptr[t]] = node[t]]}
      BY DEF Moving, Pushing, Popping, Calling, LoadTail, LoadTailNext, HelpTail,
             LinkNode, SwingTail, LoadHead, LoadHeadNext, ReadFirst, SwingHead,
             TakeData, Return, CallPush, CallPop
    <2> QED BY <2>1
  <1> QED BY <1>1, <1>2, LookType, MovingStep

LEMMA ChainFollows == QueueInv => ChainInOrder
  <1> SUFFICES ASSUME QueueInv, head # Null PROVE ChainInOrder
    BY DEF ChainInOrder
  <1>1. Len(linked) \in Nat \ {0} /\ DOMAIN linked = 1..Len(linked)
    BY ChainEntries
  <1>2. PICK i \in 1..Len(linked) : tail = linked[i] /\ i >= Len(linked) - 1
    BY <1>1 DEF QueueInv, EndInv
  <1>3. i \in {Len(linked), Len(linked) - 1} \ {0}
    <2>1. Len(linked) \in Nat
      BY <1>1
    <2> QED BY <1>2, <2>1
  <1> QED BY <1>2, <1>3 DEF QueueInv, ChainInv, ChainInOrder
-----------------------------------------------------------------------------
(* NotAfter orders the nodes that were linked, and next leads to the next. *)
LEMMA Order ==
  ASSUME QueueInv
  PROVE  /\ \A m, n \in Linked : NotAfter(m, n) \/ NotAfter(n, m)
         /\ \A m, n \in Linked : NotAfter(m, n) /\ NotAfter(n, m) => m = n
         /\ \A m, n, k \in Linked :
              NotAfter(m, n) /\ NotAfter(n, k) => NotAfter(m, k)
  <1>1. PICK l \in Nat : DOMAIN linked = 1..l
    BY ChainEntries
  <1>2. \A i, j \in 1..l : linked[i] = linked[j] => i = j
    BY <1>1 DEF QueueInv, ChainInv
  <1>3. \A i, j \in 1..l : NotAfter(linked[i], linked[j]) <=> i <= j
    BY <1>1, <1>2 DEF NotAfter
  <1>4. \A n \in Linked : \E i \in 1..l : n = linked[i]
    BY <1>1 DEF Linked
  <1> QED BY <1>3, <1>4

LEMMA NextInOrder ==
  ASSUME QueueInv, NEW m \in Linked, next[m] # Null
  PROVE  /\ next[m] \in Linked /\ next[m] # m /\ NotAfter(m, next[m])
         /\ \A n \in Linked : NotAfter(m, n) /\ n # m => NotAfter(next[m], n)
  <1>1. PICK l \in Nat : DOMAIN linked = 1..l /\ Len(linked) = l
    BY ChainEntries
  <1>2. \A i, j \in 1..l : linked[i] = linked[j] => i = j
    BY <1>1 DEF QueueInv, ChainInv
  <1>3. \A i, j \in 1..l : NotAfter(linked[i], linked[j]) <=> i <= j
    BY <1>1, <1>2 DEF NotAfter
  <1>4. \A n \in Linked : \E i \in 1..l : n = linked[i]
    BY <1>1 DEF Linked
  <1>5. PICK i \in 1..l : m = linked[i]
    BY <1>4
  <1>6. i + 1 \in 1..l /\ next[m] = linked[i + 1]
    BY <1>1, <1>5 DEF QueueInv, ChainInv
  <1>7. \A j \in 1..l : i <= j /\ j # i => i + 1 <= j
    OBVIOUS
  <1>8. next[m] \in Linked
    BY <1>1, <1>6 DEF Linked
  <1>9. next[m] # m
    BY <1>2, <1>5, <1>6
  <1>10. NotAfter(m, next[m])
    BY <1>3, <1>5, <1>6
  <1>11. ASSUME NEW n \in Linked, NotAfter(m, n), n # m
         PROVE  NotAfter(next[m], n)
    BY <1>3, <1>4, <1>5, <1>6, <1>7, <1>11
  <1> QED BY <1>8, <1>9, <1>10, <1>11

(* What is reachable is what was linked from the head on.                  *)
LEMMA ReachableInOrder ==
  ASSUME QueueInv, head # Null
  PROVE  Reachable = {n \in Linked : NotAfter(head, n)}
  <1>1. PICK l \in Nat : DOMAIN linked = 1..l /\ Len(linked) = l
    BY ChainEntries
  <1>2. \A i, j \in 1..l : linked[i] = linked[j] => i = j
    BY <1>1 DEF QueueInv, ChainInv
  <1>3. PICK i \in 1..l : linked[i] = head
    BY <1>1, ChainEntries DEF Linked
  <1>4. (CHOOSE j \in DOMAIN linked : linked[j] = head) = i
    BY <1>1, <1>2, <1>3
  <1>5. Items = SubSeq(linked, i + 1, l)
    BY <1>1, <1>4 DEF Items
  <1>6. /\ DOMAIN Items = 1..l - i
        /\ \A k \in 1..l - i : Items[k] = linked[i + k]
    BY <1>1, <1>5 DEF QueueInv, QueueTypeOK
  <1>7. {Items[k] : k \in DOMAIN Items} = {linked[j] : j \in i + 1..l}
    <2>1. ASSUME NEW j \in i + 1..l
          PROVE  j - i \in 1..l - i /\ linked[j] = Items[j - i]
      BY <1>6
    <2>2. ASSUME NEW k \in 1..l - i
          PROVE  i + k \in i + 1..l /\ Items[k] = linked[i + k]
      BY <1>6
    <2>3. \A k \in DOMAIN Items : Items[k] \in {linked[j] : j \in i + 1..l}
      BY <1>6, <2>2
    <2>4. \A j \in i + 1..l : linked[j] \in {Items[k] : k \in DOMAIN Items}
      BY <1>6, <2>1
    <2> QED BY ONLY <2>3, <2>4
  <1>8. \A j \in 1..l : NotAfter(head, linked[j]) <=> i <= j
    BY <1>1, <1>2, <1>3 DEF NotAfter
  <1>9. {n \in Linked : NotAfter(head, n)} = {head} \cup {linked[j] : j \in i + 1..l}
    BY <1>1, <1>3, <1>8 DEF Linked
  <1> QED BY <1>7, <1>9 DEF Reachable

(* A node that leads nowhere is the last one.                              *)
LEMMA LastInOrder ==
  ASSUME QueueInv, NEW m \in Linked, next[m] = Null
  PROVE  \A n \in Linked : NotAfter(n, m)
  <1>1. PICK l \in Nat : DOMAIN linked = 1..l /\ Len(linked) = l
    BY ChainEntries
  <1>2. \A i, j \in 1..l : linked[i] = linked[j] => i = j
    BY <1>1 DEF QueueInv, ChainInv
  <1>3. PICK i \in 1..l : m = linked[i]
    BY <1>1 DEF Linked
  <1>4. \A j \in 1..l : linked[j] # Null
    BY <1>1, QueueAssumption DEF QueueInv, QueueTypeOK
  <1>5. i = l
    BY <1>1, <1>3, <1>4 DEF QueueInv, ChainInv
  <1> QED BY <1>1, <1>2, <1>3, <1>5 DEF NotAfter

(* What was linked stays, in its order.                                    *)
LEMMA OrderKept ==
  ASSUME QueueInv, NEW t \in Threads, Moving(t)
  PROVE  /\ Linked \subseteq Linked'
         /\ \A m, n \in Linked : NotAfter(m, n)' <=> NotAfter(m, n)
  <1>1. CASE LinkNode(t) /\ next[ptr[t]] = Null
    <2>1. PICK l \in Nat : /\ DOMAIN linked = 1..l /\ DOMAIN linked' = 1..l + 1
                           /\ \A i \in 1..l : linked'[i] = linked[i]
                           /\ linked'[l + 1] \notin Linked
                           /\ Linked \subseteq Linked'
      BY <1>1, Linking
    <2> QED BY <2>1 DEF NotAfter
  <1>2. CASE ~(LinkNode(t) /\ next[ptr[t]] = Null)
    <2>1. UNCHANGED linked
      BY <1>2 DEF Moving, Pushing, Popping, Calling, LoadTail, LoadTailNext, HelpTail,
             LinkNode, SwingTail, LoadHead, LoadHeadNext, ReadFirst, SwingHead,
             TakeData, Return, CallPush, CallPop
    <2> QED BY <2>1 DEF Linked, NotAfter
  <1> QED BY <1>1, <1>2

(* Which steps change what the reclamation has to know of.                 *)
LEMMA MovingEffect ==
  ASSUME QueueInv, NEW t \in Threads, Moving(t)
  PROVE  /\ \A u \in Threads \ {t} :
              pc'[u] = pc[u] /\ ptr'[u] = ptr[u] /\ succ'[u] = succ[u]
         /\ pc[t] \in PushSteps \cup PopSteps \cup {"work", "return"}
         /\ pc'[t] \in PushSteps \cup PopSteps \cup {"work", "return"}
         /\ head' = head \/ (SwingHead(t) /\ head = ptr[t])
         /\ linked' = linked \/ (LinkNode(t) /\ next[ptr[t]] = Null)
         /\ pc'[t] \in PopSteps \ {"pop_head"} =>
              \/ pc'[t] = "pop_next" /\ head # Null /\ ptr'[t] = head
                   /\ UNCHANGED head
              \/ pc[t] \in PopSteps \ {"pop_head", "pop_take"}
                   /\ ptr'[t] = ptr[t]
         /\ pc'[t] = "pop_take" => SwingHead(t) /\ head = ptr[t]
         /\ pc[t] = "pop_take" => TakeData(t)
  <1> USE DEF QueueInv, QueueTypeOK, Goto, PushSteps, PopSteps, Finish
  <1>1. CASE Pushing(t)
    BY <1>1 DEF Pushing, LoadTail, LoadTailNext, HelpTail, LinkNode, SwingTail
  <1>2. CASE LoadHead(t)
    BY <1>2 DEF LoadHead, ThreadInv
  <1>3. CASE LoadHeadNext(t) \/ ReadFirst(t)
    BY <1>3 DEF LoadHeadNext, ReadFirst
  <1>4. CASE SwingHead(t)
    BY <1>4 DEF SwingHead
  <1>5. CASE TakeData(t)
    BY <1>5 DEF TakeData
  <1>6. CASE Calling(t)
    BY <1>6 DEF Calling, Return, CallPush, CallPop
  <1> QED BY <1>1, <1>2, <1>3, <1>4, <1>5, <1>6 DEF Moving, Popping
-----------------------------------------------------------------------------
(* At most one thread pushes.                                              *)
OnePusher ==
  \A t, u \in Threads :
    May[t] \cap Pushes # {} /\ May[u] \cap Pushes # {} => t = u

(* Then the tail lags only while that thread is about to move it, and is   *)
(* the last node whenever it loads it.                                     *)
TailInv ==
  /\ \A t \in Threads :
       /\ pc[t] \in PushSteps => May[t] \cap Pushes # {}
       /\ pc[t] \notin {"push_check", "push_help"}
       /\ pc[t] \in {"push_next", "push_link"} => ptr[t] = tail
       /\ pc[t] = "push_swing" => ptr[t] = tail /\ next[node[t]] = Null
  /\ head # Null /\ (\A t \in Threads : pc[t] # "push_swing") =>
       next[tail] = Null

(* The steps of the operations keep this, too.                             *)
LEMMA TailMoving ==
  ASSUME OnePusher, QueueInv, TailInv, NEW t \in Threads, Moving(t)
  PROVE  TailInv'
  <1>0. /\ QueueInv /\ QueueTypeOK /\ pc \in [Threads -> Phase]
        /\ next \in [Nodes -> Pointer]
    BY DEF QueueInv, QueueTypeOK
  <1>1. ASSUME Pushing(t) PROVE TailInv'
    <2>1. May[t] \cap Pushes # {} /\ head # Null
      BY <1>0, <1>1 DEF TailInv, Pushing, LoadTail, LoadTailNext, HelpTail, LinkNode,
         SwingTail, PushSteps, QueueInv, ThreadInv
    <2>2. \A u \in Threads \ {t} : pc[u] \notin PushSteps
      BY <2>1 DEF OnePusher, TailInv
    <2> USE DEF TailInv, PushSteps, Goto
    <2>3. CASE LoadTail(t)
      BY <1>0, <2>1, <2>2, <2>3 DEF LoadTail, QueueTypeOK
    <2>4. CASE LoadTailNext(t)
      BY <1>0, <2>1, <2>2, <2>4 DEF LoadTailNext
    <2>5. CASE HelpTail(t)
      BY <2>5 DEF HelpTail
    <2>6. CASE LinkNode(t)
      <3>1. next[ptr[t]] = Null
        BY <2>1, <2>2, <2>6 DEF LinkNode
      <3>2. /\ ptr[t] \in Linked /\ node[t] \in Nodes \ Linked /\ ptr[t] = tail
            /\ next[node[t]] = Null
        BY <1>0, <2>6, <3>1, Linking DEF QueueInv, ChainInv, Linked
      <3>3. next'[node[t]] = Null
        BY <1>0, <2>6, <3>1, <3>2, ChainEntries DEF LinkNode
      <3> QED BY <1>0, <2>1, <2>2, <2>6, <3>1, <3>2, <3>3 DEF LinkNode
    <2>7. CASE SwingTail(t)
      BY <1>0, <2>1, <2>2, <2>7 DEF SwingTail, Finish
    <2> QED BY <1>1, <2>3, <2>4, <2>5, <2>6, <2>7 DEF Pushing
  <1>2. ASSUME Popping(t) \/ TakeData(t) PROVE TailInv'
    <2>1. /\ UNCHANGED <<tail, next, node>> /\ pc[t] \in PopSteps
          /\ pc'[t] \in PopSteps \cup {"return"} /\ head # Null
          /\ \A u \in Threads \ {t} : pc'[u] = pc[u] /\ ptr'[u] = ptr[u]
      <3> USE <1>0 DEF Goto, Finish, PopSteps, PushSteps, QueueTypeOK, QueueInv,
                       ThreadInv
      <3>1. CASE LoadHead(t)
        BY <3>1 DEF LoadHead
      <3>2. CASE LoadHeadNext(t) \/ ReadFirst(t)
        BY <3>2 DEF LoadHeadNext, ReadFirst
      <3>3. CASE SwingHead(t)
        BY <3>3 DEF SwingHead
      <3>4. CASE TakeData(t)
        BY <3>4 DEF TakeData
      <3> QED BY <1>2, <3>1, <3>2, <3>3, <3>4 DEF Popping
    <2> QED BY <2>1 DEF TailInv, PopSteps, PushSteps
  <1>3. ASSUME Calling(t) PROVE TailInv'
    <2>1. /\ UNCHANGED <<head, tail, next, ptr>> /\ pc[t] \in {"work", "return"}
          /\ pc'[t] \in {"work", "push_tail", "pop_head"}
          /\ pc'[t] = "push_tail" => May[t] \cap Pushes # {}
          /\ \A u \in Threads \ {t} : pc'[u] = pc[u] /\ node'[u] = node[u]
      BY <1>0, <1>3 DEF Calling, Return, CallPush, CallPop, Goto, QueueTypeOK
    <2> QED BY <2>1 DEF TailInv, PushSteps
  <1> QED BY <1>1, <1>2, <1>3 DEF Moving

(* What that thread follows is the last node, which the head has not       *)
(* passed.                                                                 *)
LEMMA LastIsAhead ==
  ASSUME OnePusher, QueueInv, TailInv, NEW t \in Threads,
         pc[t] \in {"push_next", "push_link"}
  PROVE  head # Null /\ ptr[t] = tail /\ NotAfter(head, tail)
  <1>1. ptr[t] = tail
    BY DEF TailInv
  <1>2. head # Null /\ head \in Linked /\ tail \in Linked
    BY ChainEntries DEF QueueInv, ThreadInv, PushSteps
  <1>3. next[tail] = Null
    <2>1. \A u \in Threads : pc[u] # "push_swing"
      BY DEF OnePusher, TailInv, PushSteps
    <2> QED BY <1>2, <2>1 DEF TailInv
  <1>4. NotAfter(head, tail)
    BY <1>2, <1>3, LastInOrder
  <1> QED BY <1>1, <1>2, <1>4

LEMMA TailStart ==
  ASSUME NEW start \in Outside, QueueInit(start)
  PROVE  TailInv
  <1>1. PICK s \in Nodes : tail = s /\ next = [n \in Nodes |-> Null]
    BY DEF QueueInit
  <1> QED BY <1>1 DEF QueueInit, TailInv, PushSteps, Outside
-----------------------------------------------------------------------------
(* How the head moves on: no node from the new one on lies before the old. *)
LEMMA HeadSteps ==
  ASSUME QueueInv, NEW t \in Threads, SwingHead(t), head = ptr[t]
  PROVE  /\ pc[t] = "pop_cas" /\ head # Null /\ head \in Linked
         /\ linked' = linked /\ Linked' = Linked
         /\ \A n \in Linked :
              (NotAfter(head, n) /\ n # head) <=> NotAfter(head, n)'
         /\ pc' = [pc EXCEPT ![t] = "pop_take"] /\ UNCHANGED ptr
  <1>1. /\ pc[t] = "pop_cas" /\ pc' = [pc EXCEPT ![t] = "pop_take"]
        /\ UNCHANGED <<ptr, linked>> /\ Linked' = Linked
    BY DEF SwingHead, Goto, Linked
  <1>2. head # Null /\ head \in Linked
    BY <1>1, ChainEntries DEF QueueInv, ThreadInv, PopSteps
  <1>3. PICK m : m = next[head] /\ head' = m /\ m # Null
    BY HeadMoves
  <1>4. /\ m \in Linked /\ m # head /\ NotAfter(head, m)
        /\ \A n \in Linked : NotAfter(head, n) /\ n # head => NotAfter(m, n)
    BY <1>2, <1>3, NextInOrder
  <1>5. \A n \in Linked :
          /\ NotAfter(m, n) => NotAfter(head, n)
          /\ NotAfter(m, n) => n # head
    BY <1>2, <1>4, Order
  <1>6. ASSUME NEW n \in Linked PROVE NotAfter(head, n)' <=> NotAfter(m, n)
    BY <1>1, <1>3 DEF NotAfter
  <1> QED BY <1>1, <1>2, <1>4, <1>5, <1>6

(* A sentinel that was taken out lies before the head. *)
LEMMA TakenIsBehind ==
  ASSUME QueueInv, NEW t \in Threads, pc[t] = "pop_take"
  PROVE  ptr[t] \in Linked /\ head \in Linked /\ ~NotAfter(head, ptr[t])
  <1>1. /\ ptr[t] \in Linked /\ head # Null /\ head \in Linked
        /\ succ[t] = next[ptr[t]] /\ succ[t] # Null
        /\ NotAfter(succ[t], head)
    BY ChainEntries DEF QueueInv, QueueTypeOK, ThreadInv, PopInv, PopSteps
  <1>2. /\ succ[t] \in Linked /\ succ[t] # ptr[t] /\ NotAfter(ptr[t], succ[t])
    BY <1>1, NextInOrder
  <1> QED BY <1>1, <1>2, Order

(* Garbage lies before the head, and a node has one thread to retire it.   *)
Garbage(G) ==
  /\ G \subseteq Linked
  /\ head # Null => \A n \in G : ~NotAfter(head, n)
  /\ \A t \in Threads : pc[t] = "pop_take" => ptr[t] \notin G
  /\ \A t, u \in Threads :
       pc[t] = "pop_take" /\ pc[u] = "pop_take" /\ ptr[t] = ptr[u] => t = u

(* Each node that was linked is garbage, or in the queue, or about to be   *)
(* retired.                                                                *)
NoLeak(G) ==
  \A n \in Linked :
    \/ n \in G
    \/ head # Null /\ NotAfter(head, n)
    \/ \E t \in Threads : pc[t] = "pop_take" /\ ptr[t] = n

LEMMA GarbageMoving ==
  ASSUME QueueInv, NEW G, Garbage(G), NEW t \in Threads,
         Pushing(t) \/ Popping(t) \/ Calling(t)
  PROVE  Garbage(G)'
  <1>0. Moving(t) /\ pc \in [Threads -> Phase]
    BY DEF Moving, QueueInv, QueueTypeOK
  <1>1. /\ Linked \subseteq Linked'
        /\ \A m, n \in Linked : NotAfter(m, n)' <=> NotAfter(m, n)
    BY <1>0, OrderKept
  <1>2. CASE SwingHead(t) /\ head = ptr[t]
    <2>1. \A n \in G : ~NotAfter(head, n)'
      BY <1>2, HeadSteps DEF Garbage
    <2>2. pc' = [pc EXCEPT ![t] = "pop_take"] /\ UNCHANGED ptr
      BY <1>2, HeadSteps
    <2>3. ptr[t] \notin G
      BY <1>2, HeadSteps, ChainEntries DEF Garbage
    <2>4. \A u \in Threads : pc[u] = "pop_take" => ptr[u] # ptr[t]
      BY <1>2, ChainEntries, TakenIsBehind
    <2> QED BY <1>0, <1>1, <2>1, <2>2, <2>3, <2>4 DEF Garbage
  <1>3. CASE ~(SwingHead(t) /\ head = ptr[t])
    <2>1. /\ \A u \in Threads \ {t} : pc'[u] = pc[u] /\ ptr'[u] = ptr[u]
          /\ pc'[t] # "pop_take" /\ head' = head
      BY <1>0, <1>3, MovingEffect
    <2>2. head # Null => head \in Linked
      BY ChainEntries
    <2> QED BY <1>1, <2>1, <2>2 DEF Garbage
  <1> QED BY <1>2, <1>3

(* The sentinel that a pop has taken out is garbage from then on.          *)
LEMMA GarbageTaken ==
  ASSUME QueueInv, NEW G, Garbage(G), NEW t \in Threads, TakeData(t),
         NEW K, K = G \cup {ptr[t]}
  PROVE  Garbage(K)'
  <1>1. /\ pc[t] = "pop_take" /\ pc' = [pc EXCEPT ![t] = "return"]
        /\ pc \in [Threads -> Phase] /\ UNCHANGED <<head, linked>>
        /\ \A u \in Threads \ {t} : ptr'[u] = ptr[u]
    BY DEF TakeData, Finish, Goto, QueueInv, QueueTypeOK
  <1>2. ptr[t] \in Linked /\ ~NotAfter(head, ptr[t])
    BY <1>1, TakenIsBehind
  <1> QED BY <1>1, <1>2 DEF Garbage, Linked, NotAfter

LEMMA LeakMoving ==
  ASSUME QueueInv, NEW G, NoLeak(G), NEW t \in Threads,
         Pushing(t) \/ Popping(t) \/ Calling(t)
  PROVE  NoLeak(G)'
  <1> SUFFICES ASSUME NEW n \in Linked'
               PROVE  \/ n \in G
                      \/ head' # Null /\ NotAfter(head, n)'
                      \/ \E u \in Threads : pc'[u] = "pop_take" /\ ptr'[u] = n
    BY DEF NoLeak
  <1>0. Moving(t) /\ pc \in [Threads -> Phase]
    BY DEF Moving, QueueInv, QueueTypeOK
  <1>1. \A x, y \in Linked : NotAfter(x, y)' <=> NotAfter(x, y)
    BY <1>0, OrderKept
  <1>2. CASE SwingHead(t) /\ head = ptr[t]
    <2>1. /\ head \in Linked /\ Linked' = Linked
          /\ NotAfter(head, n) /\ n # head => NotAfter(head, n)'
          /\ pc' = [pc EXCEPT ![t] = "pop_take"] /\ UNCHANGED ptr
      BY <1>2, HeadSteps
    <2>2. head' # Null
      BY <1>2, HeadMoves
    <2> QED BY <1>0, <1>2, <2>1, <2>2 DEF NoLeak
  <1>3. CASE ~(SwingHead(t) /\ head = ptr[t])
    <2>1. /\ \A u \in Threads \ {t} : pc'[u] = pc[u] /\ ptr'[u] = ptr[u]
          /\ pc[t] # "pop_take" /\ head' = head
      BY <1>0, <1>3, MovingEffect DEF Pushing, Popping, Calling, LoadTail, LoadTailNext,
         HelpTail, LinkNode, SwingTail, LoadHead, LoadHeadNext, ReadFirst, SwingHead,
         Return, CallPush, CallPop
    <2>2. CASE n \in Linked
      <3>1. head # Null => head \in Linked
        BY ChainEntries
      <3> QED BY <1>1, <2>1, <2>2, <3>1 DEF NoLeak
    <2>3. CASE n \notin Linked
      <3>1. LinkNode(t) /\ next[ptr[t]] = Null
        BY <1>0, <2>3, MovingEffect DEF Linked
      <3>2. head # Null /\ head \in Linked
        BY <3>1, ChainEntries DEF LinkNode, QueueInv, ThreadInv, PushSteps
      <3>3. NotAfter(head, n)'
        <4>1. PICK l \in Nat : /\ DOMAIN linked = 1..l /\ DOMAIN linked' = 1..l + 1
                               /\ \A i \in 1..l : linked'[i] = linked[i]
                               /\ \A i \in 1..l : linked'[i] \in Linked
          BY <3>1, Linking DEF Linked
        <4> QED BY <2>1, <2>3, <3>2, <4>1 DEF NotAfter
      <3> QED BY <2>1, <3>2, <3>3
    <2> QED BY <2>2, <2>3
  <1> QED BY <1>2, <1>3

LEMMA LeakTaken ==
  ASSUME QueueInv, NEW G, NoLeak(G), NEW t \in Threads, TakeData(t),
         NEW K, K = G \cup {ptr[t]}
  PROVE  NoLeak(K)'
  <1>1. /\ pc[t] = "pop_take" /\ pc' = [pc EXCEPT ![t] = "return"]
        /\ pc \in [Threads -> Phase] /\ UNCHANGED <<head, linked>>
        /\ \A u \in Threads \ {t} : ptr'[u] = ptr[u]
    BY DEF TakeData, Finish, Goto, QueueInv, QueueTypeOK
  <1> QED BY <1>1 DEF NoLeak, Linked, NotAfter
-----------------------------------------------------------------------------
(* Where the thread is, and what it has called.                            *)
OpInv(t) ==
  /\ pc[t] \in Outside => op[t] = "none" /\ result[t] = "pending"
  /\ pc[t] \in PushSteps => op[t] \in Pushes /\ result[t] = "pending"
  /\ pc[t] \in PopSteps => op[t] \in Ops \ Pushes /\ result[t] = "pending"
  /\ pc[t] \in {"pop_read", "pop_cas", "pop_take"} => op[t] # "is_empty"
  /\ pc[t] = "pop_read" => op[t] = "pop_if"
  /\ pc[t] = "pop_cas" /\ op[t] = "pop_if" => succ[t] \in Wanted
  /\ pc[t] = "return" => op[t] # "none" /\ result[t] # "pending"

(* A call that looks has seen the first value of this moment, and the      *)
(* first value of some earlier one in the node it has loaded.              *)
SawInv(t) ==
  /\ Looking(t) => First \in saw[t]
  /\ ~Looking(t) => saw[t] = {}
  /\ pc[t] \in {"pop_next", "pop_read", "pop_cas"} => next[ptr[t]] \in saw[t]

FifoInv ==
  /\ QueueInv
  /\ head # Null
  /\ \A t \in Threads : OpInv(t) /\ SawInv(t)
-----------------------------------------------------------------------------
(* LeakingQueue, the queue of src/nothing/queue.rs: the steps that only it  *)
(* has, and the others.                                                    *)
Leaking == INSTANCE LeakingQueue WITH Steady <- Threads

queueState == <<queueVars, pc, saw>>
Own(t) == Leaking!EnqueueNext(t) \/ Leaking!EnqueueCheck(t) \/ Leaking!GiveUp(t)
Stepping ==
  \/ \E t \in Threads : (Moving(t) \/ Own(t)) /\ Look
  \/ UNCHANGED queueState

LEMMA LeakingStart == Leaking!Init => QueueInit("work")
  BY DEF Leaking!Init, Leaking!QueueInit, QueueInit

LEMMA LeakingSteps == [Leaking!Next]_(Leaking!vars) => Stepping
  <1>1. ASSUME UNCHANGED Leaking!vars PROVE Stepping
    BY <1>1 DEF Leaking!vars, Leaking!queueVars, Stepping, queueState, queueVars
  <1>2. ASSUME Leaking!Next PROVE Stepping
    <2>1. PICK t \in Threads : Leaking!Calling(t) \/ Leaking!Running(t)
      BY <1>2 DEF Leaking!Next
    <2>2. Look
      BY <1>2 DEF Leaking!Next, Leaking!Look, Look, Leaking!Looking, Looking,
         Leaking!First, First, Leaking!PopSteps, PopSteps
    <2> USE DEF Leaking!Goto, Goto, Leaking!Finish, Finish
    <2>3. Leaking!Calling(t) => Calling(t)
      BY DEF Leaking!Calling, Calling, Leaking!CallPush, CallPush, Leaking!CallPop,
         CallPop, Leaking!Return, Return, Leaking!Ops, Ops, Leaking!Pushes, Pushes,
         Leaking!Unused, Unused, Leaking!Linked, Linked
    <2>4. Leaking!Popping(t) => Popping(t)
      BY DEF Leaking!Popping, Popping, Leaking!LoadHead, LoadHead, Leaking!LoadHeadNext,
         LoadHeadNext, Leaking!ReadFirst, ReadFirst, Leaking!SwingHead, SwingHead
    <2>5. Leaking!TakeData(t) => TakeData(t)
      BY DEF Leaking!TakeData, TakeData
    <2>6. Leaking!Enqueuing(t) => Pushing(t) \/ Own(t)
      BY DEF Leaking!Enqueuing, Pushing, Own, Leaking!LoadTail, LoadTail,
         Leaking!LoadTailNext, LoadTailNext, Leaking!HelpTail, HelpTail,
         Leaking!LinkNode, LinkNode, Leaking!SwingTail, SwingTail
    <2>7. Leaking!GiveUp(t) => Own(t)
      BY DEF Own
    <2>8. Moving(t) \/ Own(t)
      BY <2>1, <2>3, <2>4, <2>5, <2>6, <2>7 DEF Leaking!Running, Moving
    <2> QED BY <2>2, <2>8 DEF Stepping
  <1> QED BY <1>1, <1>2

LEMMA OwnStep ==
  ASSUME QueueInv, NEW t \in Threads, Own(t), Look
  PROVE  QueueInv'
  <1>1. UNCHANGED <<head, tail, next, op, node, linked>>
    BY DEF Own, Leaking!EnqueueNext, Leaking!EnqueueCheck, Leaking!GiveUp,
       Leaking!Finish, Leaking!Goto
  <1>2. saw' \in [Threads -> SUBSET Pointer]
    BY <1>1, LookType DEF QueueInv, QueueTypeOK
  <1>3. pc[t] = "push_check" =>
          ptr[t] \in Linked /\ Linked \subseteq Nodes /\ ptr[t] # Null
    BY ChainEntries, QueueAssumption DEF QueueInv, ThreadInv, PushInv, PushSteps
  <1> USE DEF Quiet, ThreadInv, PushInv, PopInv, PushSteps, PopSteps, Goto, Linked,
              NotAfter
  <1>4. CASE Leaking!EnqueueNext(t)
    <2>1. QueueTypeOK'
      BY <1>2, <1>4 DEF Leaking!Goto, Leaking!EnqueueNext, QueueInv, QueueTypeOK,
         Pointer, Phase
    <2>2. Quiet(t) /\ ThreadInv(t)'
      BY <1>1, <1>4 DEF Leaking!Goto, Leaking!EnqueueNext, QueueInv, QueueTypeOK
    <2> QED BY <2>1, <2>2, QuietStep
  <1>5. CASE Leaking!EnqueueCheck(t)
    <2>1. QueueTypeOK'
      <3> USE DEF QueueInv, QueueTypeOK, Pointer, Phase
      <3>1. CASE tail # ptr[t]
        BY <1>2, <1>3, <1>5, <3>1, SMTT(30) DEF Leaking!Goto, Leaking!EnqueueCheck
      <3>2. CASE tail = ptr[t] /\ succ[t] = Null
        BY <1>2, <1>3, <1>5, <3>2, SMTT(30) DEF Leaking!Goto, Leaking!EnqueueCheck
      <3>3. CASE tail = ptr[t] /\ succ[t] # Null
        BY <1>2, <1>3, <1>5, <3>3, SMTT(30) DEF Leaking!Goto, Leaking!EnqueueCheck
      <3> QED BY <3>1, <3>2, <3>3
    <2>2. Quiet(t) /\ ThreadInv(t)'
      BY <1>1, <1>5 DEF Leaking!Goto, Leaking!EnqueueCheck, QueueInv, QueueTypeOK
    <2> QED BY <2>1, <2>2, QuietStep
  <1>6. CASE Leaking!GiveUp(t)
    <2>1. QueueTypeOK'
      BY <1>2, <1>6
         DEF Leaking!GiveUp, Leaking!Finish, Leaking!Goto, Finish, QueueInv,
             QueueTypeOK, Pointer, Phase, Results
    <2>2. Quiet(t) /\ ThreadInv(t)'
      BY <1>1, <1>6
         DEF Leaking!GiveUp, Leaking!Finish, Leaking!Goto, Finish, QueueInv, QueueTypeOK
    <2> QED BY <2>1, <2>2, QuietStep
  <1> QED BY <1>4, <1>5, <1>6 DEF Own

LEMMA SteppingKeeps == QueueInv /\ Stepping => QueueInv'
  <1>1. ASSUME QueueInv, UNCHANGED queueState PROVE QueueInv'
    BY <1>1 DEF queueState, queueVars, QueueInv, QueueTypeOK, ChainInv, EndInv, NewInv,
       ThreadInv, PushInv, PopInv, Linked, NotAfter
  <1> QED BY <1>1, LookStep, OwnStep DEF Stepping

(* The queue is not dropped. *)
LEMMA HeadStep ==
  ASSUME QueueInv, head # Null, Stepping
  PROVE  head' # Null
  <1>1. ASSUME NEW t \in Threads, Moving(t) PROVE head' # Null
    BY <1>1, MovingEffect, HeadMoves
  <1>2. ASSUME NEW t \in Threads, Own(t) PROVE head' # Null
    BY <1>2 DEF Own, Leaking!EnqueueNext, Leaking!EnqueueCheck, Leaking!GiveUp,
       Leaking!Finish, Leaking!Goto
  <1> QED BY <1>1, <1>2 DEF Stepping, queueState, queueVars

LEMMA OpStep ==
  ASSUME FifoInv, Stepping, NEW u \in Threads
  PROVE  OpInv(u)'
  <1>0. /\ OpInv(u) /\ pc \in [Threads -> Phase] /\ succ \in [Threads -> Pointer]
        /\ op \in [Threads -> Ops \cup {"none"}] /\ result \in [Threads -> Results]
        /\ pc[u] \in {"pop_take"} => succ[u] # Null
    BY DEF FifoInv, QueueInv, QueueTypeOK
  <1> USE QueueAssumption
      DEF OpInv, Goto, Finish, PushSteps, PopSteps, Outside, Ops, Pushes, Pointer
  <1>1. ASSUME NEW t \in Threads, Pushing(t) PROVE OpInv(u)'
    BY <1>0, <1>1 DEF Pushing, LoadTail, LoadTailNext, HelpTail, LinkNode, SwingTail
  <1>2. ASSUME NEW t \in Threads, LoadHead(t) PROVE OpInv(u)'
    BY <1>0, <1>2 DEF LoadHead
  <1>3. ASSUME NEW t \in Threads, LoadHeadNext(t) PROVE OpInv(u)'
    BY <1>0, <1>3 DEF LoadHeadNext
  <1>4. ASSUME NEW t \in Threads, ReadFirst(t) PROVE OpInv(u)'
    BY <1>0, <1>4 DEF ReadFirst
  <1>5. ASSUME NEW t \in Threads, SwingHead(t) \/ Leaking!GiveUp(t) PROVE OpInv(u)'
    BY <1>0, <1>5 DEF SwingHead, Leaking!GiveUp, Leaking!Finish, Leaking!Goto
  <1>6. ASSUME NEW t \in Threads, TakeData(t) PROVE OpInv(u)'
    BY <1>0, <1>6 DEF TakeData
  <1>7. ASSUME NEW t \in Threads, Calling(t) PROVE OpInv(u)'
    BY <1>0, <1>7, QueueAssumption DEF Calling, Return, CallPush, CallPop
  <1>8. ASSUME NEW t \in Threads, Leaking!EnqueueNext(t) \/ Leaking!EnqueueCheck(t)
        PROVE  OpInv(u)'
    BY <1>0, <1>8 DEF Leaking!Goto, Leaking!EnqueueNext, Leaking!EnqueueCheck
  <1>9. CASE UNCHANGED queueState
    BY <1>0, <1>9 DEF queueState, queueVars
  <1> QED
    BY <1>1, <1>2, <1>3, <1>4, <1>5, <1>6, <1>7, <1>8, <1>9
    DEF Stepping, Moving, Popping, Own

(* A node that leads nowhere and is not after the head is the head.        *)
LEMMA LastIsHead ==
  ASSUME QueueInv, head # Null, NEW n \in Linked, NotAfter(n, head), next[n] = Null
  PROVE  n = head
  BY ChainEntries, LastInOrder, Order

(* What is linked behind a node that a call has loaded is seen by it.      *)
LEMMA SawStep ==
  ASSUME FifoInv, Stepping, NEW u \in Threads
  PROVE  SawInv(u)'
  <1>0. /\ QueueInv /\ head # Null /\ SawInv(u) /\ pc \in [Threads -> Phase]
        /\ next \in [Nodes -> Pointer]
    BY DEF FifoInv, QueueInv, QueueTypeOK
  <1>1. CASE UNCHANGED queueState
    BY <1>0, <1>1 DEF queueState, queueVars, SawInv, Looking, First
  <1>2. CASE ~UNCHANGED queueState
    <2>1. PICK t \in Threads : (Moving(t) \/ Own(t)) /\ Look
      BY <1>2 DEF Stepping
    <2>2. (Looking(u) => First \in saw[u])' /\ (~Looking(u) => saw[u] = {})'
      BY <2>1 DEF Look, Looking
    <2>3. ASSUME pc'[u] \in {"pop_next", "pop_read", "pop_cas"}
          PROVE  next'[ptr'[u]] \in saw'[u]
      <3>1. Looking(u)' /\ First' \in saw'[u]
        BY <2>2, <2>3 DEF Looking, PopSteps
      <3>2. CASE LoadHead(t) /\ t = u
        BY <1>0, <2>3, <3>1, <3>2 DEF LoadHead, First, QueueInv, QueueTypeOK
      <3>3. CASE ~(LoadHead(t) /\ t = u)
        <4>1. ptr'[u] = ptr[u] /\ pc[u] \in {"pop_next", "pop_read", "pop_cas"}
          <5>1. CASE Moving(t) /\ t = u
            BY <1>0, <2>3, <3>3, <5>1 DEF Moving, Pushing, Popping, Calling, LoadTail,
               LoadTailNext, HelpTail, LinkNode, SwingTail, LoadHead, LoadHeadNext,
               ReadFirst, SwingHead, TakeData, Return, CallPush, CallPop, Goto, Finish
          <5>2. CASE Moving(t) /\ t # u
            BY <1>0, <2>3, <5>2, MovingEffect
          <5>3. CASE Own(t)
            BY <1>0, <2>3, <5>3 DEF Own, Leaking!EnqueueNext, Leaking!EnqueueCheck,
               Leaking!GiveUp, Leaking!Finish, Leaking!Goto, Goto,
               Finish, QueueInv, QueueTypeOK
          <5> QED BY <2>1, <5>1, <5>2, <5>3
        <4>2. next[ptr[u]] \in saw[u] /\ Looking(u)
          BY <1>0, <4>1 DEF SawInv, Looking, PopSteps
        <4>3. saw[u] \subseteq saw'[u]
          BY <2>1, <3>1, <4>2 DEF Look
        <4>4. CASE next'[ptr[u]] = next[ptr[u]]
          BY <4>1, <4>2, <4>3, <4>4
        <4>5. CASE next'[ptr[u]] # next[ptr[u]]
          <5>0. UNCHANGED next \/ LinkNode(t)
            BY <2>1 DEF Moving, Pushing, Popping, Calling, LoadTail,
               LoadTailNext, HelpTail, LinkNode, SwingTail, LoadHead, LoadHeadNext,
               ReadFirst, SwingHead, TakeData, Return, CallPush, CallPop, Own,
               Leaking!EnqueueNext, Leaking!EnqueueCheck, Leaking!GiveUp,
               Leaking!Finish, Leaking!Goto
          <5>1. ptr[u] \in Linked /\ NotAfter(ptr[u], head)
            BY <1>0, <4>1 DEF QueueInv, ThreadInv, PopInv, PopSteps
          <5>2. LinkNode(t) /\ next[ptr[t]] = Null /\ ptr[u] = ptr[t]
            BY <1>0, <4>5, <5>0, <5>1, ChainEntries DEF LinkNode
          <5>3. ptr[u] = head
            BY <1>0, <5>1, <5>2, LastIsHead
          <5>4. head' = head
            BY <5>2 DEF LinkNode
          <5> QED BY <1>0, <3>1, <4>1, <5>3, <5>4 DEF First
        <4> QED BY <4>4, <4>5
      <3> QED BY <3>2, <3>3
    <2> QED BY <2>2, <2>3 DEF SawInv
  <1> QED BY <1>1, <1>2

LEMMA FifoInit == QueueInit("work") => FifoInv
  <1> SUFFICES ASSUME QueueInit("work") PROVE FifoInv
    OBVIOUS
  <1>1. QueueInv
    BY QueueStart DEF Outside
  <1>2. head # Null
    BY QueueAssumption DEF QueueInit
  <1>3. \A t \in Threads : OpInv(t) /\ SawInv(t)
    BY DEF QueueInit, OpInv, SawInv, Looking, Outside, PushSteps, PopSteps
  <1> QED BY <1>1, <1>2, <1>3 DEF FifoInv

LEMMA FifoInvStep == FifoInv /\ Stepping => FifoInv'
  <1> SUFFICES ASSUME FifoInv, Stepping PROVE FifoInv'
    OBVIOUS
  <1>1. QueueInv' /\ head' # Null
    BY SteppingKeeps, HeadStep DEF FifoInv
  <1>2. \A t \in Threads : OpInv(t)' /\ SawInv(t)'
    BY OpStep, SawStep
  <1> QED BY <1>1, <1>2 DEF FifoInv

(* The invariant of the pointers, together with where an operation of      *)
(* nothing/queue.rs or ebr/queue.rs is and what it has seen, holds         *)
(* throughout.                                                             *)
THEOREM FifoInductive == Leaking!Spec => []FifoInv
  BY FifoInit, FifoInvStep, LeakingStart, LeakingSteps, PTL DEF Leaking!Spec

(* No pointer is null where push, enqueue or a pop of nothing/queue.rs and *)
(* ebr/queue.rs follows it, and the variables keep their types.            *)
THEOREM FifoTypeCorrect == Leaking!Spec => []QueueTypeOK
  <1>1. FifoInv => QueueTypeOK
    BY DEF FifoInv, QueueInv
  <1> QED BY <1>1, FifoInductive, PTL

(* The links of nothing/queue.rs, and of ebr/queue.rs, are the order of    *)
(* the pushes, for push and enqueue and every pop together.                *)
THEOREM FifoLinksAreHistory == Leaking!Spec => []ChainInOrder
  <1>1. FifoInv => ChainInOrder
    BY ChainFollows DEF FifoInv
  <1> QED BY <1>1, FifoInductive, PTL
-----------------------------------------------------------------------------
(* The contents of the queue, and what the steps do to them.               *)
ItemsFrom(l, i) ==
  /\ i <= l /\ Len(linked) = l /\ linked[i] = head
  /\ \A j \in 1..l : linked[j] = head => j = i
  /\ Items \in Seq(Nodes) /\ Len(Items) = l - i
  /\ \A k \in 1..l - i : Items[k] = linked[i + k]

LEMMA ItemsAre ==
  QueueInv /\ head # Null => \E l \in Nat, i \in Nat \ {0} : ItemsFrom(l, i)
  <1> SUFFICES ASSUME QueueInv, head # Null
               PROVE  \E l \in Nat, i \in Nat \ {0} : ItemsFrom(l, i)
    OBVIOUS
  <1>1. PICK l \in Nat : DOMAIN linked = 1..l /\ Len(linked) = l
    BY ChainEntries
  <1>2. PICK i \in 1..l : linked[i] = head
    BY <1>1, ChainEntries DEF Linked
  <1>3. \A j \in 1..l : linked[j] = head => j = i
    BY <1>1, <1>2 DEF QueueInv, ChainInv
  <1>4. (CHOOSE j \in DOMAIN linked : linked[j] = head) = i
    BY <1>1, <1>2, <1>3
  <1>5. Items = SubSeq(linked, i + 1, l)
    BY <1>1, <1>4 DEF Items
  <1>6. linked \in Seq(Nodes)
    BY DEF QueueInv, QueueTypeOK
  <1>7. \A j \in i + 1..l : linked[j] \in Nodes
    BY <1>1, <1>6
  <1>8. i + 1 \in Int /\ l \in Int
    OBVIOUS
  <1>9. /\ Items \in Seq(Nodes)
        /\ Len(Items) = IF i + 1 <= l THEN l - (i + 1) + 1 ELSE 0
        /\ \A k \in 1..l - (i + 1) + 1 : Items[k] = linked[i + 1 + k - 1]
    BY <1>5, <1>7, <1>8, SubSeqProperties
  <1>10. Len(Items) = l - i /\ \A k \in 1..l - i : Items[k] = linked[i + k]
    BY <1>9
  <1>11. i \in Nat \ {0} /\ i <= l
    OBVIOUS
  <1>12. ItemsFrom(l, i)
    BY <1>1, <1>2, <1>3, <1>9, <1>10, <1>11 DEF ItemsFrom
  <1> QED BY <1>11, <1>12

LEMMA ItemsAfter ==
  ASSUME QueueInv', (head # Null)'
  PROVE  \E l \in Nat, i \in Nat \ {0} : ItemsFrom(l, i)'
  <1>1. (QueueInv /\ head # Null => \E l \in Nat, i \in Nat \ {0} : ItemsFrom(l, i))'
    BY ItemsAre, PTL
  <1> QED BY <1>1

LEMMA ItemsSame ==
  ASSUME UNCHANGED <<head, linked>>
  PROVE  Items' = Items
  BY DEF Items

LEMMA FirstIsHead ==
  ASSUME QueueInv, head # Null
  PROVE  /\ Fifo!First(Items) = First
         /\ Items # <<>> <=> First # Null
         /\ Items # <<>> => Head(Items) = First
  <1>1. PICK l \in Nat, i \in Nat \ {0} : ItemsFrom(l, i)
    BY ItemsAre
  <1> USE DEF ItemsFrom
  <1>2. DOMAIN linked = 1..l
    BY <1>1 DEF QueueInv, QueueTypeOK
  <1>3. First = IF i = l THEN Null ELSE linked[i + 1]
    BY <1>1, <1>2 DEF First, QueueInv, ChainInv
  <1>4. CASE i = l
    <2>1. Items = <<>>
      BY <1>1, <1>4
    <2> QED BY <1>3, <1>4, <2>1 DEF Fifo!First
  <1>5. CASE i # l
    <2>1. Items # <<>> /\ Head(Items) = linked[i + 1]
      BY <1>1, <1>5
    <2>2. linked[i + 1] \in Nodes
      BY <1>1, <1>2, <1>5 DEF QueueInv, QueueTypeOK
    <2> QED BY <1>3, <1>5, <2>1, <2>2, QueueAssumption DEF Fifo!First
  <1> QED BY <1>4, <1>5

(* A pop that loaded an earlier head saw another first value behind it.    *)
LEMMA AnotherFirst ==
  ASSUME QueueInv, head # Null, NEW t \in Threads, ptr[t] # head,
         pc[t] \in PopSteps \ {"pop_head"}
  PROVE  next[ptr[t]] # First
  <1>1. ptr[t] \in Linked /\ NotAfter(ptr[t], head)
    BY DEF QueueInv, ThreadInv, PopInv
  <1>2. Len(linked) \in Nat /\ DOMAIN linked = 1..Len(linked) /\ head \in Linked
    BY ChainEntries
  <1>3. PICK i, j \in 1..Len(linked) : ptr[t] = linked[i] /\ head = linked[j]
    BY <1>1, <1>2 DEF Linked
  <1>4. i < j
    BY <1>1, <1>2, <1>3 DEF NotAfter
  <1>5. next[ptr[t]] = linked[i + 1] /\ linked[i + 1] \in Nodes
    BY <1>2, <1>3, <1>4 DEF QueueInv, ChainInv, QueueTypeOK
  <1>6. First = IF j = Len(linked) THEN Null ELSE linked[j + 1]
    BY <1>2, <1>3 DEF First, QueueInv, ChainInv
  <1>7. CASE j = Len(linked)
    BY <1>5, <1>6, <1>7, QueueAssumption
  <1>8. CASE j # Len(linked)
    <2>1. i + 1 \in DOMAIN linked /\ j + 1 \in DOMAIN linked /\ i + 1 # j + 1
      BY <1>2, <1>4, <1>8
    <2> QED BY <1>5, <1>6, <1>8, <2>1 DEF QueueInv, ChainInv
  <1> QED BY <1>7, <1>8

LEMMA ItemsLink ==
  ASSUME QueueInv, QueueInv', head # Null, NEW t \in Threads, LinkNode(t),
         next[ptr[t]] = Null
  PROVE  Items' = Append(Items, node[t])
  <1>1. PICK l \in Nat, i \in Nat \ {0} : ItemsFrom(l, i)
    BY ItemsAre
  <1> USE DEF ItemsFrom
  <1>2. /\ head' = head /\ head' # Null /\ node[t] \in Nodes
        /\ Len(linked') = l + 1 /\ \A j \in 1..l : linked'[j] = linked[j]
        /\ linked'[l + 1] = node[t]
    BY <1>1, Linking DEF LinkNode
  <1>3. PICK m \in Nat, h \in Nat \ {0} : ItemsFrom(m, h)'
    BY <1>2, ItemsAfter
  <1>4. m = l + 1 /\ h = i
    BY <1>1, <1>2, <1>3
  <1>5. PICK q \in Seq(Nodes) : q = Append(Items, node[t])
    BY <1>1, <1>2, AppendProperties
  <1>6. /\ Len(q) = l - i + 1 /\ q[l - i + 1] = node[t]
        /\ \A k \in 1..l - i : q[k] = linked[i + k]
    BY <1>1, <1>2, <1>5
  <1>7. ASSUME NEW k \in 1..Len(q) PROVE Items'[k] = q[k]
    <2>1. CASE k = l - i + 1
      BY <1>2, <1>3, <1>4, <1>6, <2>1
    <2>2. CASE k # l - i + 1
      <3>1. k \in 1..l - i /\ i + k \in 1..l /\ k \in 1..m - h
        BY <1>1, <1>4, <1>6, <2>2
      <3>2. q[k] = linked[i + k] /\ linked'[i + k] = linked[i + k]
        BY <1>2, <1>6, <3>1
      <3>3. Items'[k] = linked'[h + k]
        BY <1>3, <3>1
      <3> QED BY <1>4, <3>2, <3>3
    <2> QED BY <2>1, <2>2
  <1> QED BY <1>3, <1>4, <1>5, <1>6, <1>7, SeqEqual

LEMMA ItemsPop ==
  ASSUME QueueInv, QueueInv', head # Null, NEW t \in Threads, SwingHead(t),
         head = ptr[t]
  PROVE  Items # <<>> /\ Head(Items) = succ[t] /\ Items' = Tail(Items)
  <1>1. PICK l \in Nat, i \in Nat \ {0} : ItemsFrom(l, i)
    BY ItemsAre
  <1> USE DEF ItemsFrom
  <1>2. /\ head' = succ[t] /\ head' # Null /\ linked' = linked
        /\ succ[t] = next[head]
    BY HeadMoves
  <1>3. Items # <<>> /\ Head(Items) = succ[t]
    BY <1>2, FirstIsHead DEF First
  <1>4. i < l /\ linked[i + 1] = head'
    BY <1>1, <1>2, <1>3
  <1>5. PICK m \in Nat, h \in Nat \ {0} : ItemsFrom(m, h)'
    BY <1>2, ItemsAfter
  <1>6. m = l /\ h = i + 1
    BY <1>1, <1>2, <1>4, <1>5
  <1>7. PICK q \in Seq(Nodes) : q = Tail(Items)
    BY <1>1, <1>3, HeadTailProperties
  <1>8. Len(q) = l - i - 1 /\ \A k \in 1..l - i - 1 : q[k] = Items[k + 1]
    BY <1>1, <1>3, <1>7
  <1>9. ASSUME NEW k \in 1..Len(q) PROVE Items'[k] = q[k]
    <2>1. Len(q) = l - i - 1
      BY <1>8
    <2>2. k \in 1..m - h /\ k + 1 \in 1..l - i /\ h + k = i + (k + 1)
      BY <1>6, <2>1
    <2>3. Items'[k] = linked'[h + k]
      BY <1>5, <2>2
    <2>4. q[k] = Items[k + 1]
      BY <1>8, <2>1
    <2>5. Items[k + 1] = linked[i + (k + 1)]
      BY <1>1, <2>2
    <2> QED BY <1>2, <2>2, <2>3, <2>4, <2>5
  <1> QED BY <1>3, <1>5, <1>6, <1>7, <1>8, <1>9, SeqEqual
-----------------------------------------------------------------------------
(* The refinement. *)
LEMMA LooksAlike ==
  ASSUME FifoInv
  PROVE  \A t \in Threads : Fifo!Looking(t) <=> Looking(t)
  <1> SUFFICES ASSUME NEW t \in Threads PROVE Fifo!Looking(t) <=> Looking(t)
    OBVIOUS
  <1>1. /\ OpInv(t) /\ pc[t] \in Phase /\ succ[t] \in Pointer
        /\ op[t] \in Ops \cup {"none"}
    BY DEF FifoInv, QueueInv, QueueTypeOK
  <1>2. Ops = Fifo!Ops /\ Pushes = Fifo!Pushes
    BY DEF Ops, Pushes, Fifo!Ops, Fifo!Pushes, Fifo!Pops
  <1>3. Outcome[t] = CASE pc[t] = "push_swing" -> "done"
                       [] pc[t] = "pop_take" -> succ[t]
                       [] OTHER -> result[t]
    BY DEF Outcome
  <1>4. pc[t] = "pop_take" => Outcome[t] # "pending"
    BY <1>1, <1>3, QueueAssumption DEF Pointer
  <1>5. pc[t] \notin {"push_swing", "pop_take"} => Outcome[t] = result[t]
    BY <1>3
  <1>6. CASE pc[t] \in PushSteps
    BY <1>1, <1>2, <1>6 DEF OpInv, Fifo!Looking, Looking, PushSteps, PopSteps
  <1>7. CASE pc[t] \in PopSteps
    BY <1>1, <1>2, <1>4, <1>5, <1>7 DEF OpInv, Fifo!Looking, Looking, PopSteps
  <1>8. CASE pc[t] \in Outside
    BY <1>1, <1>2, <1>8 DEF OpInv, Fifo!Looking, Looking, Outside, PopSteps, Ops, Pushes
  <1>9. CASE pc[t] = "return"
    BY <1>1, <1>5, <1>9 DEF OpInv, Fifo!Looking, Looking, PopSteps
  <1> QED BY <1>1, <1>6, <1>7, <1>8, <1>9 DEF Phase

LEMMA LooksAfter ==
  (FifoInv => \A t \in Threads : Fifo!Looking(t) <=> Looking(t))'
  <1>1. FifoInv => \A t \in Threads : Fifo!Looking(t) <=> Looking(t)
    BY LooksAlike
  <1> QED BY <1>1, PTL

LEMMA FirstAfter == (FifoInv => Fifo!First(Items) = First)'
  <1>1. FifoInv => Fifo!First(Items) = First
    BY FirstIsHead DEF FifoInv
  <1> QED BY <1>1, PTL

LEMMA LookMaps ==
  ASSUME FifoInv, FifoInv', Look
  PROVE  Fifo!Look
  <1>1. \A t \in Threads : Fifo!Looking(t) <=> Looking(t)
    BY LooksAlike
  <1>2. \A t \in Threads : Fifo!Looking(t)' <=> Looking(t)'
    BY LooksAfter
  <1>3. Fifo!First(Items') = First'
    BY FirstAfter DEF Fifo!First
  <1> QED BY <1>1, <1>2, <1>3 DEF Look, Fifo!Look

(* The other variables of the queue's promise, when only one result        *)
(* changes, or none.                                                       *)
LEMMA OutcomeIs ==
  ASSUME NEW t \in Threads, NEW r,
         \A u \in Threads \ {t} :
           pc'[u] = pc[u] /\ succ'[u] = succ[u] /\ result'[u] = result[u],
         Outcome'[t] = r
  PROVE  Outcome' = [Outcome EXCEPT ![t] = r]
  <1>1. \A u \in Threads \ {t} : Outcome'[u] = Outcome[u]
    BY DEF Outcome
  <1>2. Outcome = [u \in Threads |-> Outcome[u]]
        /\ Outcome' = [u \in Threads |-> Outcome'[u]]
    BY DEF Outcome
  <1> QED BY <1>1, <1>2

(* Between two moments in which an operation takes effect. *)
LEMMA Internal ==
  ASSUME FifoInv, FifoInv', Look, UNCHANGED <<Items, op, node, Outcome>>
  PROVE  UNCHANGED Fifo!vars
  <1>1. \A t \in Threads : Looking(t) <=> Looking(t)'
    BY LooksAlike, LooksAfter DEF Fifo!Looking
  <1>2. First' = First
    BY FirstAfter, FirstIsHead DEF FifoInv, Fifo!First
  <1>3. saw' = saw
    <2>1. saw \in [Threads -> SUBSET Pointer]
      BY DEF FifoInv, QueueInv, QueueTypeOK
    <2>2. \A t \in Threads : saw'[t] = saw[t]
      BY <1>1, <1>2 DEF Look, FifoInv, SawInv
    <2> QED BY <2>1, <2>2 DEF Look
  <1> QED BY <1>3 DEF Fifo!vars

LEMMA StartMaps == QueueInit("work") => Fifo!Init
  <1> SUFFICES ASSUME QueueInit("work") PROVE Fifo!Init
    OBVIOUS
  <1>1. PICK s \in Nodes : head = s /\ linked = <<s>>
    BY DEF QueueInit
  <1>2. Items = <<>>
    <2>1. QueueInv /\ head # Null
      BY FifoInit DEF FifoInv
    <2>2. First = Null
      BY <1>1, <2>1 DEF QueueInit, First
    <2> QED BY <2>1, <2>2, FirstIsHead
  <1>3. Outcome = [t \in Threads |-> "pending"]
    BY DEF Outcome, QueueInit
  <1> QED BY <1>2, <1>3 DEF Fifo!Init, QueueInit

LEMMA FifoStep ==
  ASSUME FifoInv, FifoInv', Stepping
  PROVE  [Fifo!Next]_(Fifo!vars)
  <1>0. /\ QueueInv /\ QueueInv' /\ head # Null /\ \A t \in Threads : OpInv(t)
        /\ QueueTypeOK
    BY DEF FifoInv, QueueInv
  <1>a. /\ pc \in [Threads -> Phase] /\ succ \in [Threads -> Pointer]
        /\ op \in [Threads -> Ops \cup {"none"}] /\ result \in [Threads -> Results]
        /\ node \in [Threads -> Pointer] /\ ptr \in [Threads -> Pointer]
    BY <1>0 DEF QueueTypeOK
  <1>b. /\ Pushes = Fifo!Pushes /\ Ops = Fifo!Ops
        /\ Fifo!Pops = {"pop", "pop_if", "pop_once"}
    BY DEF Pushes, Ops, Fifo!Pushes, Fifo!Ops, Fifo!Pops
  <1>c. CASE UNCHANGED queueState
    BY <1>c DEF queueState, queueVars, Fifo!vars, Items, Outcome
  <1>d. CASE ~UNCHANGED queueState
    <2>1. PICK t \in Threads : (Moving(t) \/ Own(t)) /\ Look
      BY <1>d DEF Stepping
    <2>2. Fifo!Look
      BY <2>1, LookMaps
    <2>a. OpInv(t) /\ Outcome[t] = CASE pc[t] = "push_swing" -> "done"
                                     [] pc[t] = "pop_take" -> succ[t]
                                     [] OTHER -> result[t]
      BY <1>0 DEF Outcome
    <2>b. Outcome'[t] = CASE pc'[t] = "push_swing" -> "done"
                          [] pc'[t] = "pop_take" -> succ'[t]
                          [] OTHER -> result'[t]
      BY DEF Outcome
    <2>c. Outcome = [u \in Threads |-> Outcome[u]]
      BY DEF Outcome
    <2>d. SawInv(t)
      BY DEF FifoInv
    <2>3. ASSUME UNCHANGED <<Items, op, node, Outcome>>
          PROVE  UNCHANGED Fifo!vars
      BY <2>1, <2>3, Internal
    <2>4. ASSUME \/ Fifo!Call(t) \/ Fifo!Enqueue(t) \/ Fifo!Take(t)
                 \/ Fifo!None(t) \/ Fifo!IsEmpty(t) \/ Fifo!Return(t)
          PROVE  Fifo!Next
      BY <2>2, <2>4 DEF Fifo!Next
    <2>5. ASSUME UNCHANGED <<head, linked, op, node>>,
                 \A u \in Threads \ {t} :
                   pc'[u] = pc[u] /\ succ'[u] = succ[u] /\ result'[u] = result[u],
                 Outcome'[t] = Outcome[t]
          PROVE  UNCHANGED Fifo!vars
      <3>1. Outcome' = [Outcome EXCEPT ![t] = Outcome[t]]
        BY <2>5, OutcomeIs
      <3>2. Outcome' = Outcome
        BY <2>c, <3>1
      <3> QED BY <2>3, <2>5, <3>2, ItemsSame
    <2> USE DEF Goto, Finish
    <2>6. CASE LoadTail(t) \/ LoadTailNext(t) \/ Leaking!EnqueueNext(t)
                 \/ Leaking!EnqueueCheck(t)
                 \/ HelpTail(t) \/ LoadHead(t)
                 \/ (LinkNode(t) /\ next[ptr[t]] # Null)
      BY <1>a, <2>5, <2>6, <2>a, <2>b DEF LoadTail, LoadTailNext, Leaking!Goto,
         Leaking!EnqueueNext, Leaking!EnqueueCheck, HelpTail, LoadHead, LinkNode
    <2>7. CASE SwingTail(t)
      BY <1>a, <2>5, <2>7, <2>a, <2>b DEF SwingTail
    <2>8. CASE TakeData(t)
      BY <1>a, <2>5, <2>8, <2>a, <2>b DEF TakeData
    <2>9. CASE LinkNode(t) /\ next[ptr[t]] = Null
      <3>1. Items' = Append(Items, node[t])
        BY <1>0, <2>9, ItemsLink
      <3>2. /\ Outcome'[t] = "done" /\ UNCHANGED <<op, node>>
            /\ \A u \in Threads \ {t} :
                 pc'[u] = pc[u] /\ succ'[u] = succ[u] /\ result'[u] = result[u]
        BY <1>a, <2>9, <2>b DEF LinkNode
      <3>3. Outcome' = [Outcome EXCEPT ![t] = "done"]
        BY <3>2, OutcomeIs
      <3>4. op[t] \in Pushes /\ Outcome[t] = "pending"
        BY <2>9, <2>a DEF LinkNode, OpInv, PushSteps
      <3> QED BY <1>b, <2>4, <3>1, <3>2, <3>3, <3>4 DEF Fifo!Enqueue
    <2>10. CASE SwingHead(t) /\ head = ptr[t]
      <3>1. Items # <<>> /\ Head(Items) = succ[t] /\ Items' = Tail(Items)
        BY <1>0, <2>10, ItemsPop
      <3>2. /\ Outcome'[t] = succ[t] /\ UNCHANGED <<op, node>>
            /\ \A u \in Threads \ {t} :
                 pc'[u] = pc[u] /\ succ'[u] = succ[u] /\ result'[u] = result[u]
        BY <1>a, <2>10, <2>b DEF SwingHead
      <3>3. Outcome' = [Outcome EXCEPT ![t] = succ[t]]
        BY <3>2, OutcomeIs
      <3>4. /\ op[t] \in {"pop", "pop_if", "pop_once"} /\ Outcome[t] = "pending"
            /\ op[t] = "pop_if" => succ[t] \in Wanted
        BY <2>10, <2>a DEF SwingHead, OpInv, PopSteps, Ops, Pushes
      <3> QED BY <1>b, <2>4, <3>1, <3>2, <3>3, <3>4 DEF Fifo!Take
    <2>11. CASE SwingHead(t) /\ head # ptr[t] /\ op[t] = "pop"
      BY <1>a, <2>5, <2>11, <2>a, <2>b DEF SwingHead
    <2>12. ASSUME NEW r, Finish(t, r), UNCHANGED <<head, linked, op, node>>,
                  pc[t] \in PopSteps \ {"pop_take"}
           PROVE  /\ Outcome' = [Outcome EXCEPT ![t] = r] /\ Items' = Items
                  /\ Outcome[t] = "pending" /\ op[t] \in Ops \ Pushes
      <3>1. Outcome'[t] = r /\ Outcome[t] = "pending" /\ op[t] \in Ops \ Pushes
        BY <1>a, <2>12, <2>a, <2>b DEF OpInv, PopSteps
      <3>2. \A u \in Threads \ {t} :
              pc'[u] = pc[u] /\ succ'[u] = succ[u] /\ result'[u] = result[u]
        BY <1>a, <2>12
      <3> QED BY <2>12, <3>1, <3>2, OutcomeIs, ItemsSame
    <2>13. CASE (SwingHead(t) /\ head # ptr[t] /\ op[t] = "pop_if") \/ Leaking!GiveUp(t)
      <3>1. /\ Finish(t, Null) /\ UNCHANGED <<head, linked, op, node>>
            /\ pc[t] = "pop_cas" /\ op[t] \in {"pop_if", "pop_once"}
        BY <2>13 DEF SwingHead, Leaking!GiveUp, Leaking!Finish, Leaking!Goto
      <3>2. /\ Outcome' = [Outcome EXCEPT ![t] = Null] /\ Items' = Items
            /\ Outcome[t] = "pending"
        BY <2>12, <3>1 DEF PopSteps
      <3>3. next[ptr[t]] \in saw[t]
        BY <1>0, <2>d, <3>1 DEF SawInv, QueueInv, ThreadInv, PopInv, PopSteps
      <3>4. head # ptr[t]
        BY <2>13 DEF Leaking!GiveUp
      <3>5. next[ptr[t]] # Fifo!First(Items)
        BY <1>0, <3>1, <3>4, AnotherFirst, FirstIsHead DEF PopSteps
      <3> QED BY <1>b, <2>4, <3>1, <3>2, <3>3, <3>5 DEF Fifo!None
    <2>14. CASE ReadFirst(t) /\ succ[t] \in Wanted
      BY <1>a, <2>5, <2>14, <2>a, <2>b DEF ReadFirst
    <2>15. CASE ReadFirst(t) /\ succ[t] \notin Wanted
      <3>1. /\ Finish(t, Null) /\ UNCHANGED <<head, linked, op, node>>
            /\ pc[t] = "pop_read"
        BY <2>15 DEF ReadFirst
      <3>2. /\ Outcome' = [Outcome EXCEPT ![t] = Null] /\ Items' = Items
            /\ Outcome[t] = "pending"
        BY <2>12, <3>1 DEF PopSteps
      <3>3. op[t] = "pop_if" /\ ~(saw[t] \subseteq Wanted)
        BY <1>0, <2>15, <2>a, <2>d, <3>1
           DEF OpInv, SawInv, QueueInv, ThreadInv, PopInv, PopSteps
      <3> QED BY <1>b, <2>4, <3>1, <3>2, <3>3 DEF Fifo!None
    <2>16. CASE LoadHeadNext(t)
      <3>0. pc[t] = "pop_next" /\ UNCHANGED <<head, linked, op, node>>
        BY <2>16 DEF LoadHeadNext
      <3>1. CASE next[ptr[t]] # Null /\ op[t] # "is_empty"
        BY <1>a, <2>5, <2>16, <2>a, <2>b, <3>1 DEF LoadHeadNext
      <3>2. CASE next[ptr[t]] = Null
        <4>1. Finish(t, IF op[t] = "is_empty" THEN "yes" ELSE Null)
          BY <2>16, <3>2 DEF LoadHeadNext
        <4>2. Null \in saw[t]
          BY <2>d, <3>0, <3>2 DEF SawInv
        <4>3. /\ Outcome' = [Outcome EXCEPT
                               ![t] = IF op[t] = "is_empty" THEN "yes" ELSE Null]
              /\ Items' = Items /\ Outcome[t] = "pending" /\ op[t] \in Ops \ Pushes
          BY <2>12, <3>0, <4>1 DEF PopSteps
        <4>4. CASE op[t] = "is_empty"
          BY <2>4, <3>0, <4>2, <4>3, <4>4 DEF Fifo!IsEmpty
        <4>5. CASE op[t] # "is_empty"
          BY <1>b, <2>4, <3>0, <4>2, <4>3, <4>5 DEF Fifo!None, Ops
        <4> QED BY <4>4, <4>5
      <3>3. CASE next[ptr[t]] # Null /\ op[t] = "is_empty"
        <4>1. Finish(t, "no")
          BY <2>16, <3>3 DEF LoadHeadNext
        <4>2. saw[t] # {Null}
          BY <2>d, <3>0, <3>3 DEF SawInv
        <4>3. /\ Outcome' = [Outcome EXCEPT ![t] = "no"]
              /\ Items' = Items /\ Outcome[t] = "pending"
          BY <2>12, <3>0, <4>1 DEF PopSteps
        <4> QED BY <2>4, <3>0, <3>3, <4>2, <4>3 DEF Fifo!IsEmpty
      <3> QED BY <3>1, <3>2, <3>3
    <2>17. CASE Return(t)
      <3>1. /\ pc[t] = "return" /\ UNCHANGED <<head, linked>>
            /\ op' = [op EXCEPT ![t] = "none"] /\ node' = [node EXCEPT ![t] = Null]
        BY <2>17 DEF Return
      <3>2. Outcome[t] # "pending"
        BY <2>a, <3>1 DEF OpInv
      <3>3. Outcome' = [Outcome EXCEPT ![t] = "pending"]
        <4>1. /\ Outcome'[t] = "pending"
              /\ \A u \in Threads \ {t} :
                   pc'[u] = pc[u] /\ succ'[u] = succ[u] /\ result'[u] = result[u]
          BY <1>a, <2>17, <2>b DEF Return
        <4> QED BY <4>1, OutcomeIs
      <3> QED BY <2>4, <3>1, <3>2, <3>3, ItemsSame DEF Fifo!Return
    <2>18. ASSUME NEW o \in Ops, CallPush(t, o) \/ CallPop(t, o)
           PROVE  Fifo!Next
      <3>1. /\ pc[t] = "work" /\ UNCHANGED <<head, linked>>
            /\ op' = [op EXCEPT ![t] = o]
            /\ \/ o \in Pushes /\ \E n \in Nodes : node' = [node EXCEPT ![t] = n]
               \/ o \in Ops \ Pushes /\ UNCHANGED node
        BY <2>18 DEF CallPush, CallPop, Unused
      <3>2. op[t] = "none"
        BY <2>a, <3>1 DEF OpInv, Outside
      <3>3. Outcome' = Outcome
        <4>1. /\ Outcome'[t] = Outcome[t]
              /\ \A u \in Threads \ {t} :
                   pc'[u] = pc[u] /\ succ'[u] = succ[u] /\ result'[u] = result[u]
          BY <1>a, <2>18, <2>a, <2>b DEF CallPush, CallPop
        <4>2. Outcome' = [Outcome EXCEPT ![t] = Outcome[t]]
          BY <4>1, OutcomeIs
        <4> QED BY <2>c, <4>2
      <3> QED BY <1>b, <2>4, <3>1, <3>2, <3>3, ItemsSame DEF Fifo!Call
    <2>19. next[ptr[t]] = Null \/ next[ptr[t]] # Null
      OBVIOUS
    <2>20. SwingHead(t) => (SwingHead(t) /\ head = ptr[t])
                        \/ (SwingHead(t) /\ head # ptr[t] /\ op[t] = "pop")
                        \/ (SwingHead(t) /\ head # ptr[t] /\ op[t] = "pop_if")
      BY DEF SwingHead
    <2>21. ASSUME Popping(t) PROVE Fifo!Next \/ UNCHANGED Fifo!vars
      BY <2>6, <2>10, <2>11, <2>13, <2>14, <2>15, <2>16, <2>20, <2>21 DEF Popping
    <2>22. ASSUME Pushing(t) PROVE Fifo!Next \/ UNCHANGED Fifo!vars
      BY <2>6, <2>7, <2>9, <2>22 DEF Pushing
    <2>23. ASSUME Calling(t) PROVE Fifo!Next \/ UNCHANGED Fifo!vars
      BY <2>17, <2>18, <2>23 DEF Calling
    <2>24. ASSUME Own(t) PROVE Fifo!Next \/ UNCHANGED Fifo!vars
      BY <2>6, <2>13, <2>24 DEF Own
    <2> QED BY <2>1, <2>8, <2>21, <2>22, <2>23, <2>24 DEF Moving
  <1> QED BY <1>c, <1>d

(* The operations of nothing/queue.rs and of ebr/queue.rs take effect one  *)
(* after the other, each between its call and its return, as those of a    *)
(* first-in first-out queue.                                               *)
THEOREM ImplementsFifo == Leaking!Spec => IsFifo
  <1>1. FifoInv /\ FifoInv' /\ Stepping => [Fifo!Next]_(Fifo!vars)
    BY FifoStep
  <1> QED BY StartMaps, <1>1, FifoInductive, LeakingStart, LeakingSteps, PTL
     DEF Leaking!Spec, IsFifo, Fifo!Spec
=============================================================================
