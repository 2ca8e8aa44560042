------------------------------- MODULE HpList ------------------------------
(***************************************************************************)
(* The list of src/hp/list.rs: the steps of MarkedList on the links, and   *)
(* between them what protects the nodes.  A pointer that was loaded is     *)
(* registered and validated, that is, loaded again from where it came; the *)
(* null pointer too, which takes no slot but wants an empty one.  At most  *)
(* the node before is kept.                                                *)
(***************************************************************************)
EXTENDS MarkedList, FiniteSets

CONSTANTS
  Filled,    \* what is in the list at the start
  Entries, NumHp, FreeEvery

VARIABLES
  waits, slots, fpc, victim, at, calls, turns, deferred, freed,
  guard,  \* what the thread does about protection before it goes on
  global  \* whether the list is ENTRIES of hp/mod.rs

freeVars == <<fpc, victim, at, calls, turns, deferred, freed>>
hazardVars == <<waits, slots, freeVars>>
vars == <<listVars, controlVars, hazardVars, guard, global>>

H == INSTANCE HazardPointers

(* is_empty registers nothing and is left out.  remove_with_node is only   *)
(* called on ENTRIES, by the thread whose entry it is.  A removal holds    *)
(* two hazard pointers; remove keeps one of them while it frees, and free  *)
(* needs two more.                                                         *)
ASSUME HpListAssumption ==
  /\ H!HazardConstants
  /\ NumHp >= 3
  /\ Filled \in Seq(Nodes)
  /\ \A i, j \in DOMAIN Filled : Filled[i] = Filled[j] => i = j
  /\ \A t \in Threads : <<"is_empty", Null>> \notin May[t]
  /\ \A t, u \in Threads, v \in Values :
       t # u /\ <<"remove_with", v>> \in May[t] => <<"remove_with", v>> \notin May[u]

TypeOK ==
  /\ link \in [Nodes \cup {Root} -> Link]
  /\ pc \in [Threads -> Phase]
  /\ H!TypeOK
  /\ guard \in [Threads -> {"none", "register", "validate", "shift", "trim",
                            "use", "leave"}]
  /\ global \in BOOLEAN

Init ==
  /\ ListInit("work", Filled)
  /\ H!Init
  /\ guard = [t \in Threads |-> "none"]
  /\ global \in BOOLEAN
-----------------------------------------------------------------------------
Guard(t, g) == guard' = [guard EXCEPT ![t] = g]
Ready(t, p) == pc[t] = p /\ guard[t] = "none" /\ fpc[t] = "idle"
Removes(t) == op[t] \in {"remove_front", "remove", "remove_with"}
Again(t) == Restart(t) /\ Guard(t, "leave")
Answer(t, r) == Finish(t, r) /\ Guard(t, "leave")

(* The pointer loaded last, and where from, as it is now. *)
Loaded(t) ==
  CASE pc[t] = "ins_cas" -> found[t]
    [] pc[t] = "visit" -> cur[t]
    [] pc[t] = "mark" -> nxt[t]
Source(t) ==
  CASE pc[t] = "ins_cas" -> link[Root]
    [] pc[t] = "visit" -> link[prev[t]]
    [] pc[t] = "mark" -> link[cur[t].to]

RegisterLoaded(t) ==
  /\ guard[t] = "register"
  /\ \/ /\ Loaded(t).to # Null
        /\ H!Register(t, Loaded(t).to)
     \/ /\ Loaded(t).to = Null /\ H!Holds(t, Null) # {}
        /\ UNCHANGED hazardVars
  /\ Guard(t, "validate")
  /\ UNCHANGED <<listVars, pc, op, arg>>

(* Mutant: not loaded again. *)
ValidateNot(t) ==
  /\ guard[t] = "validate"
  /\ Guard(t, IF pc[t] = "visit" /\ ~Removes(t) THEN "trim" ELSE "none")
  /\ UNCHANGED <<listVars, pc, op, arg, hazardVars>>

(* When the link has changed insert loads the head again, the iterator the *)
(* link of its node, and the others start again.                           *)
Validate(t) ==
  /\ guard[t] = "validate"
  /\ \/ /\ Source(t) = Loaded(t)
        /\ Guard(t, IF pc[t] = "visit" /\ ~Removes(t) THEN "trim" ELSE "none")
        /\ UNCHANGED <<pc, prev, cur, nxt, found, result>>
     \/ /\ Source(t) # Loaded(t) /\ op[t] = "insert"
        /\ Goto(t, "ins_load") /\ Guard(t, "leave")
        /\ UNCHANGED <<prev, cur, nxt, found, result>>
     \/ /\ Source(t) # Loaded(t) /\ op[t] = "walk" /\ prev[t] # Root
        /\ cur' = [cur EXCEPT ![t] = To(prev[t])]
        /\ prev' = [prev EXCEPT ![t] = Root]
        /\ Guard(t, "trim")
        /\ UNCHANGED <<pc, nxt, found, result>>
     \/ /\ Source(t) # Loaded(t) /\ op[t] # "insert"
        /\ op[t] = "walk" => prev[t] = Root
        /\ Again(t)
  /\ UNCHANGED <<link, op, arg, order, out, hazardVars>>

Held(t) == {slots[t][i] : i \in H!Slots} \ {Null}

(* What is not dropped: a removal needs the node before as well. *)
Keeps(t) ==
  CASE guard[t] = "leave" -> {}
    [] guard[t] # "leave" /\ fpc[t] # "idle" -> {victim[t]}
    [] guard[t] # "leave" /\ fpc[t] = "idle" ->
         {cur[t].to} \cup IF Removes(t) THEN {prev[t]} ELSE {}

AfterRelease(t) ==
  CASE guard[t] = "leave" ->
         IF pc[t] = "ins_cas" \/ (pc[t] = "visit" /\ cur[t].to # Null)
           THEN "register" ELSE "none"
    [] guard[t] = "shift" -> "register"
    [] guard[t] = "trim" ->
         IF op[t] = "walk" /\ prev[t] # Root THEN "use" ELSE "none"

(* Mutant: only one is dropped. *)
ReleaseOne(t) ==
  /\ guard[t] \in {"shift", "trim", "leave"}
  /\ guard[t] = "leave" => fpc[t] = "idle"
  /\ \/ Held(t) \subseteq Keeps(t) /\ UNCHANGED slots
     \/ \E n \in Held(t) \ Keeps(t) : H!Deregister(t, n)
  /\ Guard(t, AfterRelease(t))
  /\ UNCHANGED <<listVars, pc, op, arg, waits, freeVars>>

(* HazardPtrs that are replaced or go out of scope are deregistered; that  *)
(* of the node before only when the node that is removed is freed.         *)
Release(t) ==
  /\ guard[t] \in {"shift", "trim", "leave"}
  /\ guard[t] = "leave" => fpc[t] = "idle"
  /\ \/ Held(t) \subseteq Keeps(t) /\ UNCHANGED slots
     \/ \E n \in Held(t) \ Keeps(t) : H!Deregister(t, n)
  /\ Guard(t, IF Cardinality(Held(t) \ Keeps(t)) > 1 THEN guard[t]
              ELSE AfterRelease(t))
  /\ UNCHANGED <<listVars, pc, op, arg, waits, freeVars>>
-----------------------------------------------------------------------------
InsertStep(t) ==
  /\ guard[t] = "none"
  /\ \/ InsertLoad(t) /\ Guard(t, "register")
     \/ InsertCas(t) /\ Guard(t, "leave")
  /\ UNCHANGED hazardVars

(* Only removals look whether the list is empty before they register. *)
Begin(t) ==
  /\ Ready(t, "head")
  /\ \/ link[Root].to = Null /\ Removes(t) /\ Answer(t, Null)
     \/ /\ link[Root].to # Null \/ ~Removes(t)
        /\ cur' = [cur EXCEPT ![t] = link[Root]]
        /\ Goto(t, "visit") /\ Guard(t, "register")
        /\ UNCHANGED <<prev, nxt, found, result>>
  /\ UNCHANGED <<link, op, arg, order, out, hazardVars>>

(* On to the next node. *)
Advance(t, l) ==
  /\ prev' = [prev EXCEPT ![t] = cur[t].to]
  /\ cur' = [cur EXCEPT ![t] = l]
  /\ Guard(t, IF Removes(t) THEN "shift" ELSE "register")
  /\ UNCHANGED <<pc, nxt, found, result>>

VisitFirst(t, l) ==
  \/ l.tag /\ Again(t)
  \/ ~l.tag /\ Aim(t, l) /\ Guard(t, "register")

VisitToRemove(t, l) ==
  \/ /\ Hit(t)
     /\ Aim(t, IF op[t] = "remove" THEN Untagged(l) ELSE l) /\ Guard(t, "none")
  \/ ~Hit(t) /\ op[t] = "remove" /\ l.tag /\ Again(t)
  \/ /\ ~Hit(t) /\ ~(op[t] = "remove" /\ l.tag)
     /\ \/ l.to = Null /\ Answer(t, Null)
        \/ l.to # Null /\ Advance(t, Untagged(l))

VisitToFind(t, l) ==
  \/ Hit(t) /\ Answer(t, "found")
  \/ ~Hit(t) /\ l.tag /\ Again(t)
  \/ ~Hit(t) /\ ~l.tag /\ Advance(t, l)

(* The iterator does not follow a node that was freed any further here;    *)
(* what it would find there is undefined.                                  *)
Visit(t) ==
  /\ Ready(t, "visit")
  /\ \/ cur[t].to = Null /\ Answer(t, IF op[t] = "walk" THEN "done" ELSE Null)
     \/ /\ cur[t].to # Null
        /\ LET l == link[cur[t].to]
           IN  CASE op[t] = "remove_front" -> VisitFirst(t, l)
                 [] op[t] \in {"remove", "remove_with"} -> VisitToRemove(t, l)
                 [] op[t] = "contains" -> VisitToFind(t, l)
                 [] op[t] = "walk" -> cur[t].to \notin freed /\ Advance(t, l)
  /\ UNCHANGED <<link, op, arg, order, out, hazardVars>>

(* The caller looks at the reference the iterator has returned. *)
Use(t) ==
  /\ guard[t] = "use"
  /\ Guard(t, "none")
  /\ UNCHANGED <<listVars, pc, op, arg, hazardVars>>

(* Mutant: the tag is stored, not compared and swapped. *)
TagStore(t) ==
  /\ Ready(t, "mark")
  /\ link' = [link EXCEPT ![cur[t].to] = Tagged(nxt[t])]
  /\ Goto(t, "swing")
  /\ UNCHANGED <<op, arg, prev, cur, nxt, found, result, order, out, guard,
                 hazardVars>>

(* Unlike in ebr, remove_front too starts again when the mark fails. *)
Tag(t) ==
  /\ Ready(t, "mark")
  /\ \/ /\ link[cur[t].to] = nxt[t]
        /\ link' = [link EXCEPT ![cur[t].to] = Tagged(nxt[t])]
        /\ Goto(t, "swing")
        /\ UNCHANGED <<prev, cur, nxt, found, result, guard>>
     \/ link[cur[t].to] # nxt[t] /\ Again(t) /\ UNCHANGED link
  /\ UNCHANGED <<op, arg, order, out, hazardVars>>

Unlink(t) ==
  /\ guard[t] = "none"
  /\ \/ Swing(t) /\ UNCHANGED guard
     \/ Unmark(t) /\ Guard(t, "leave")
  /\ UNCHANGED hazardVars

(* Mutant: freed, and given to the caller. *)
RemoveBoth(t) ==
  /\ Ready(t, "take")
  /\ Take(t)
  /\ H!Free(t, cur[t].to)
  /\ Guard(t, IF op[t] = "remove_front" THEN "trim" ELSE "leave")
  /\ UNCHANGED <<waits, slots>>

(* The node is freed, by remove_front after next_hp was dropped, or given  *)
(* to the caller.                                                          *)
Remove(t) ==
  /\ Ready(t, "take")
  /\ Take(t)
  /\ \/ op[t] = "remove_with" /\ UNCHANGED freeVars
     \/ op[t] # "remove_with" /\ H!Free(t, cur[t].to)
  /\ Guard(t, IF op[t] = "remove_front" THEN "trim" ELSE "leave")
  /\ UNCHANGED <<waits, slots>>

Freeing(t) ==
  /\ guard[t] \in {"none", "leave"}
  /\ H!Freeing(t)
  /\ UNCHANGED <<listVars, pc, op, arg, guard>>

(* No other removal is called on ENTRIES; after remove_with_node,          *)
(* remove_thread_local waits for the node by itself.                       *)
Call(t) ==
  /\ guard[t] = "none" /\ fpc[t] = "idle"
  /\ Calling(t)
  /\ op'[t] = "remove_with" => global
  /\ op'[t] \in {"remove", "remove_front", "contains"} => ~global
  /\ \/ /\ pc[t] = "return" /\ op[t] = "remove_with" /\ result[t] # Null
        /\ H!Reclaim(t, result[t])
     \/ /\ ~(pc[t] = "return" /\ op[t] = "remove_with" /\ result[t] # Null)
        /\ UNCHANGED hazardVars
  /\ UNCHANGED guard

(* List::drop, with nobody left who uses the list. *)
DropList ==
  /\ \A t \in Threads : Ready(t, "work")
  /\ freed' = freed \cup ItemSet
  /\ out' = Ordered
  /\ link' = [link EXCEPT ![Root] = To(Null)]
  /\ pc' = [t \in Threads |-> "out"]
  /\ UNCHANGED <<op, arg, prev, cur, nxt, found, result, order, waits, slots,
                 fpc, victim, at, calls, turns, deferred, guard>>

Running(t) ==
  RegisterLoaded(t) \/ Validate(t) \/ Release(t) \/ InsertStep(t) \/ Begin(t)
    \/ Visit(t) \/ Use(t) \/ Tag(t) \/ Unlink(t) \/ Remove(t) \/ Freeing(t)

Next ==
  /\ (\E t \in Threads : Call(t) \/ Running(t)) \/ DropList
  /\ UNCHANGED <<saw, owed, global>>

Spec == Init /\ [][Next]_vars
-----------------------------------------------------------------------------
AccessedNow(t) ==
  CASE guard[t] = "none" /\ cur[t].to # Null -> Accessed(t)
    [] guard[t] = "validate" /\ pc[t] = "visit" -> {prev[t]} \ {Root}
    [] guard[t] = "validate" /\ pc[t] = "mark" -> {cur[t].to}
    [] guard[t] = "use" -> {prev[t]}
    [] OTHER -> {}

(* No operation but the iterator accesses a node whose memory was given    *)
(* back: "it is safe to free" (hp/list.rs:135).                            *)
NoUseAfterFree ==
  \A t \in Threads : op[t] # "walk" => AccessedNow(t) \cap freed = {}

(* The same of the iterator. *)
WalkIsSafe ==
  \A t \in Threads : op[t] = "walk" => AccessedNow(t) \cap freed = {}

InHand == {cur[t].to : t \in {u \in Threads : pc[u] = "take"}}
            \cup {result[t] : t \in {u \in Threads : op[u] = "remove_with"}}

(* A node that is removed is with the thread that removed it, waits to be  *)
(* freed, or was freed, once; no other node is.                            *)
RemovedOnce ==
  /\ H!FreedOnce
  /\ InHand \cap (H!Deferred \cup H!Victims \cup freed) = {}
  /\ out = (InHand \cap Nodes) \cup H!Deferred \cup H!Victims \cup freed

(* A registration finds an empty slot (HazardError::NoSpace), within free  *)
(* too, and a call that has ended keeps none.                              *)
SlotsSuffice ==
  \A t \in Threads :
    /\ guard[t] = "register" => H!Holds(t, Null) # {}
    /\ H!HasRoom(t)
    /\ pc[t] = "work" /\ fpc[t] = "idle" => Held(t) = {}

(* Nobody waits in spin (hp/atomic.rs:1028) for himself, or for somebody    *)
(* who waits for him: whoever waits may have the node before its own still *)
(* registered, and that node may be what its owner waits for.              *)
NoWaitCycle ==
  \A S \in (SUBSET {t \in Threads : fpc[t] = "spin"}) \ {{}} :
    \E t \in S : \A u \in S : H!Holds(u, victim[t]) = {}
=============================================================================
