--------------------------- MODULE LeakingQueue ----------------------------
(***************************************************************************)
(* The queue when no node is ever freed.  src/nothing/queue.rs is such a   *)
(* queue: its push is the one of MSQueue, its enqueue looks at the tail    *)
(* twice, and its pop, here pop_once, tries its compare-and-swap once.     *)
(* The operations of src/ebr/queue.rs are here as well: order and progress *)
(* do not depend on the reclamation.                                       *)
(***************************************************************************)
EXTENDS MSQueue

CONSTANT Steady  \* the threads that are never stopped in an operation

ASSUME LeakingQueueAssumption == Steady \subseteq Threads

vars == <<queueVars, pc, saw>>

TypeOK == QueueTypeOK

Init == QueueInit("work")

EnqueueNext(t) ==
  /\ pc[t] = "push_next"
  /\ op[t] = "enqueue"
  /\ succ' = [succ EXCEPT ![t] = next[ptr[t]]]
  /\ Goto(t, "push_check")
  /\ UNCHANGED <<head, tail, next, op, node, ptr, result, linked>>

(* Mutant: the tail is not moved on when it lags. *)
EnqueueCheckNoHelp(t) ==
  /\ pc[t] = "push_check"
  /\ \/ /\ tail = ptr[t] /\ succ[t] = Null
        /\ Goto(t, "push_link")
        /\ UNCHANGED <<ptr, succ>>
     \/ /\ tail # ptr[t] \/ succ[t] # Null
        /\ Goto(t, "push_tail")
        /\ ptr' = [ptr EXCEPT ![t] = Null]
        /\ succ' = [succ EXCEPT ![t] = Null]
  /\ UNCHANGED <<head, tail, next, op, node, result, linked>>

(* The second look: go on only if the tail has not moved. *)
EnqueueCheck(t) ==
  /\ pc[t] = "push_check"
  /\ \/ /\ tail = ptr[t]
        /\ Goto(t, IF succ[t] = Null THEN "push_link" ELSE "push_help")
        /\ UNCHANGED <<ptr, succ>>
     \/ /\ tail # ptr[t]
        /\ Goto(t, "push_tail")
        /\ ptr' = [ptr EXCEPT ![t] = Null]
        /\ succ' = [succ EXCEPT ![t] = Null]
  /\ UNCHANGED <<head, tail, next, op, node, result, linked>>

(* pop_once gives up if the head has moved. *)
GiveUp(t) ==
  /\ pc[t] = "pop_cas"
  /\ op[t] = "pop_once"
  /\ head # ptr[t]
  /\ Finish(t, Null)
  /\ UNCHANGED <<head, tail, next, op, node, linked>>

Enqueuing(t) ==
  \/ op[t] = "push" /\ LoadTailNext(t)
  \/ LoadTail(t) \/ EnqueueNext(t) \/ EnqueueCheck(t)
  \/ HelpTail(t) \/ LinkNode(t) \/ SwingTail(t)

Running(t) == Enqueuing(t) \/ Popping(t) \/ GiveUp(t) \/ TakeData(t)

Next == (\E t \in Threads : Calling(t) \/ Running(t)) /\ Look

Spec == Init /\ [][Next]_vars
FairSpec == Spec /\ \A t \in Steady : WF_vars(Running(t) /\ Look)
-----------------------------------------------------------------------------
(* A thread that stops inside an operation does not keep the others from   *)
(* finishing theirs.                                                       *)
LockFree ==
  \A t \in Steady :
    pc[t] \in PushSteps \cup PopSteps ~> pc[t] = "return"
=============================================================================
