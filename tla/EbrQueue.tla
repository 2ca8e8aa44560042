----------------------------- MODULE EbrQueue ------------------------------
(***************************************************************************)
(* The queue of src/ebr/queue.rs under epoch based reclamation: threads    *)
(* enter `pin`, may move the epoch and free garbage there, and then call   *)
(* operations of the queue; pop hands the old sentinel to add_garbage.     *)
(* What `pin` does is taken from Epochs, which Ebr implements.             *)
(***************************************************************************)
EXTENDS MSQueue

CONSTANT MaxEpoch  \* bound: the epoch is not moved beyond this value

(* The operations of src/ebr/queue.rs. *)
ASSUME EbrQueueAssumption ==
  \A t \in Threads : May[t] \subseteq {"push", "pop", "pop_if", "is_empty"}

VARIABLES epoch, pinned, pinAt, retiredAt, retired, freed

epochVars == <<epoch, pinned, pinAt, retiredAt, retired, freed>>
vars == <<queueVars, pc, saw, epochVars>>

R == INSTANCE Epochs

TypeOK == QueueTypeOK /\ R!TypeOK

Init == QueueInit("out") /\ R!Init
-----------------------------------------------------------------------------
Enter(t) ==
  /\ pc[t] = "out"
  /\ R!Pin(t)
  /\ Goto(t, "enter")
  /\ UNCHANGED queueVars

(* Before its closure `pin` may move the epoch, and who does frees. *)
MoveEpoch(t) ==
  /\ pc[t] = "enter"
  /\ epoch < MaxEpoch
  /\ R!Advance(t)
  /\ Goto(t, "free")
  /\ UNCHANGED queueVars

FreeGarbage(t) ==
  /\ pc[t] = "free"
  /\ \E S \in SUBSET retired : R!Free(t, S)
  /\ Goto(t, "work")
  /\ UNCHANGED queueVars

Begin(t) ==
  /\ pc[t] = "enter"
  /\ Goto(t, "work")
  /\ UNCHANGED <<queueVars, epochVars>>

Leave(t) ==
  /\ pc[t] = "work"
  /\ R!Unpin(t)
  /\ Goto(t, "out")
  /\ UNCHANGED queueVars

(* Mutant: the new sentinel is retired. *)
RetireNew(t) == TakeData(t) /\ R!Retire(t, succ[t])
(* The end of pop and pop_if. *)
RetireOld(t) == TakeData(t) /\ R!Retire(t, ptr[t])

(* Mutant: only the nodes that hold a value are freed. *)
DropQueueButHead ==
  /\ head # Null
  /\ \A t \in Threads : pc[t] = "out"
  /\ freed' = freed \cup (Reachable \ {head})
  /\ head' = Null /\ tail' = Null
  /\ UNCHANGED <<next, pc, op, node, ptr, succ, result, linked,
                 epoch, pinned, pinAt, retiredAt, retired>>

(* Queue::drop, with nobody left who uses the queue: the nodes that are    *)
(* still in it are freed at once.                                          *)
DropQueue ==
  /\ head # Null
  /\ \A t \in Threads : pc[t] = "out"
  /\ freed' = freed \cup Reachable
  /\ head' = Null /\ tail' = Null
  /\ UNCHANGED <<next, pc, op, node, ptr, succ, result, linked,
                 epoch, pinned, pinAt, retiredAt, retired>>

InPin(t) == MoveEpoch(t) \/ FreeGarbage(t) \/ Begin(t)

Running(t) ==
  \/ (Pushing(t) \/ Popping(t)) /\ UNCHANGED epochVars
  \/ RetireOld(t)

Step(t) ==
  \/ Enter(t) \/ InPin(t) \/ Leave(t)
  \/ Calling(t) /\ UNCHANGED epochVars
  \/ Running(t)

Next == ((\E t \in Threads : Step(t)) \/ DropQueue) /\ Look

Spec == Init /\ [][Next]_vars
-----------------------------------------------------------------------------
(* No thread accesses a node whose memory was given back. *)
NoUseAfterFree == \A t \in Threads : Accessed(t) \cap freed = {}

(* A node that can be reached from the head is not garbage, and pop hands  *)
(* a sentinel to the scheme that nobody has handed to it before.           *)
GarbageIsUnreachable ==
  /\ Reachable \cap (retired \cup freed) = {}
  /\ \A t \in Threads :
       pc[t] = "pop_take" => ptr[t] \notin retired \cup freed

(* Once the queue is dropped and no thread is in `pin`, every node that    *)
(* was in it has been freed or is with the scheme.                         *)
NothingLeaked ==
  head = Null => Linked \subseteq retired \cup freed
=============================================================================
