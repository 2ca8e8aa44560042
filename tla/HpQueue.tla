------------------------------ MODULE HpQueue ------------------------------
(***************************************************************************)
(* The queue of src/hp/queue.rs: the steps of MSQueue, and between them    *)
(* what protects the nodes they access.  A pointer that was loaded is      *)
(* registered and then validated, that is, loaded again; HazardPtrs that   *)
(* go out of scope are deregistered; pop frees the old sentinel.           *)
(***************************************************************************)
EXTENDS MSQueue

CONSTANTS Entries, NumHp, FreeEvery

VARIABLES
  waits, slots, fpc, victim, at, calls, turns, deferred, freed,
  guard   \* what the thread does about protection before it goes on

freeVars == <<fpc, victim, at, calls, turns, deferred, freed>>
hazardVars == <<waits, slots, freeVars>>
vars == <<queueVars, pc, saw, hazardVars, guard>>

H == INSTANCE HazardPointers

(* is_empty and len register nothing and are left out.  A pop holds two    *)
(* hazard pointers, and none while it frees: then free needs two.          *)
ASSUME HpQueueAssumption ==
  /\ H!HazardConstants
  /\ NumHp >= 2
  /\ \A t \in Threads : May[t] \subseteq {"push", "pop"}

TypeOK ==
  /\ QueueTypeOK /\ H!TypeOK
  /\ guard \in [Threads -> {"none", "register", "validate", "leave", "next"}]

Init ==
  /\ QueueInit("work")
  /\ H!Init
  /\ guard = [t \in Threads |-> "none"]
-----------------------------------------------------------------------------
Guard(t, g) == guard' = [guard EXCEPT ![t] = g]
Ready(t) == guard[t] = "none" /\ fpc[t] = "idle"

(* A pointer that was loaded has to be protected; at the end of a turn of  *)
(* the loop, and of the operation, all are given up.                       *)
AfterStep(t) ==
  Guard(t, IF pc'[t] \in {"push_next", "pop_next", "pop_cas"} THEN "register"
           ELSE IF pc'[t] \in {"push_tail", "pop_head", "return"} THEN "leave"
           ELSE "none")

QueueStep(t) ==
  /\ Ready(t)
  /\ Pushing(t) \/ Popping(t)
  /\ AfterStep(t)
  /\ UNCHANGED hazardVars

(* The pointer loaded last. *)
Loaded(t) == IF pc[t] = "pop_cas" THEN succ[t] ELSE ptr[t]

RegisterLoaded(t) ==
  /\ guard[t] = "register"
  /\ H!Register(t, Loaded(t))
  /\ Guard(t, "validate")
  /\ UNCHANGED <<queueVars, pc>>

(* Where it was loaded from, as it is now. *)
Source(t) ==
  CASE pc[t] = "push_next" -> tail
    [] pc[t] = "pop_next" -> head
    [] pc[t] = "pop_cas" -> next[ptr[t]]

(* Mutant: not loaded again. *)
ValidateNot(t) ==
  /\ guard[t] = "validate"
  /\ Guard(t, "none")
  /\ UNCHANGED <<queueVars, pc, hazardVars>>

(* push starts again when the tail has moved, and pop, by calling itself,  *)
(* when the head has.                                                      *)
Validate(t) ==
  /\ guard[t] = "validate"
  /\ \/ /\ Source(t) = Loaded(t)
        /\ Guard(t, "none")
        /\ UNCHANGED <<pc, ptr, succ>>
     \/ /\ Source(t) # Loaded(t)
        /\ Goto(t, IF pc[t] = "push_next" THEN "push_tail" ELSE "pop_head")
        /\ ptr' = [ptr EXCEPT ![t] = Null]
        /\ succ' = [succ EXCEPT ![t] = Null]
        /\ Guard(t, "leave")
  /\ UNCHANGED <<head, tail, next, op, node, result, linked, hazardVars>>

Used(t) == {i \in H!Slots : slots[t][i] # Null}
LastUsed(t) == CHOOSE i \in Used(t) : \A j \in Used(t) : j <= i

(* Mutant: only the one made last is dropped. *)
LeaveOne(t) ==
  /\ guard[t] \in {"leave", "next"}
  /\ H!Deregister(t, slots[t][LastUsed(t)])
  /\ Guard(t, "none")
  /\ UNCHANGED <<queueVars, pc, waits, freeVars>>

(* HazardPtrs are dropped, the one made last first. *)
Leave(t) ==
  /\ guard[t] \in {"leave", "next"}
  /\ H!Deregister(t, slots[t][LastUsed(t)])
  /\ Guard(t, IF guard[t] = "leave" /\ Used(t) # {LastUsed(t)} THEN "leave"
              ELSE "none")
  /\ UNCHANGED <<queueVars, pc, waits, freeVars>>

(* Mutant: the new sentinel is freed. *)
FreeNew(t) ==
  /\ Ready(t)
  /\ TakeData(t)
  /\ H!Free(t, succ[t])
  /\ Guard(t, "next")
  /\ UNCHANGED slots

(* The end of pop: next_hp is dropped, and the old sentinel freed. *)
FreeOld(t) ==
  /\ Ready(t)
  /\ TakeData(t)
  /\ H!Free(t, ptr[t])
  /\ Guard(t, "next")
  /\ UNCHANGED slots

Freeing(t) ==
  /\ guard[t] = "none"
  /\ H!Freeing(t)
  /\ UNCHANGED <<queueVars, pc, guard>>

(* Queue::drop, with nobody left who uses the queue. *)
DropQueue ==
  /\ head # Null
  /\ \A t \in Threads : pc[t] = "work"
  /\ freed' = freed \cup Reachable
  /\ head' = Null /\ tail' = Null
  /\ UNCHANGED <<next, pc, op, node, ptr, succ, result, linked, waits, slots,
                 fpc, victim, at, calls, turns, deferred, guard>>

Running(t) ==
  QueueStep(t) \/ RegisterLoaded(t) \/ Validate(t) \/ Leave(t) \/ FreeOld(t)
    \/ Freeing(t)

Step(t) ==
  \/ Ready(t) /\ Calling(t) /\ UNCHANGED <<hazardVars, guard>>
  \/ Running(t)

Next == ((\E t \in Threads : Step(t)) \/ DropQueue) /\ UNCHANGED saw

Spec == Init /\ [][Next]_vars

(* A thread inside an operation goes on. *)
FairSpec == Spec /\ \A t \in Threads : WF_vars(Running(t) /\ UNCHANGED saw)
-----------------------------------------------------------------------------
(* The nodes whose memory the thread accesses in its next step: to load    *)
(* the successor of the head again is an access, too.                      *)
Touched(t) ==
  IF guard[t] = "validate" /\ pc[t] = "pop_cas" THEN {ptr[t]}
  ELSE IF guard[t] = "none" THEN Accessed(t) ELSE {}

(* No thread accesses a node whose memory was given back: "while someone   *)
(* is using the head pointer, keep it here" (hp/queue.rs:137).             *)
NoUseAfterFree == \A t \in Threads : Touched(t) \cap freed = {}

(* What is freed, or waits for that, cannot be reached from the queue, and *)
(* is freed once.                                                          *)
FreesOnlyGarbage ==
  /\ Reachable \cap (H!Deferred \cup H!Victims \cup freed) = {}
  /\ H!FreedOnce

(* Dropping the queue leaves no node behind that is not with defer_hp. *)
NothingLeaked == head = Null => Linked \subseteq H!Deferred \cup freed

(* No registration panics for want of a slot (HazardError::NoSpace), those *)
(* made within free included, and nobody keeps a slot for longer than an   *)
(* operation.                                                              *)
SlotsSuffice ==
  \A t \in Threads :
    /\ guard[t] = "register" => H!Holds(t, Null) # {}
    /\ H!HasRoom(t)
    /\ pc[t] = "work" => Used(t) = {}

(* wait, and free_from_queue, come to an end. *)
FreeTerminates == \A t \in Threads : fpc[t] # "idle" ~> fpc[t] = "idle"
=============================================================================
