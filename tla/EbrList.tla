------------------------------ MODULE EbrList ------------------------------
(***************************************************************************)
(* The list of src/ebr/list.rs under epoch based reclamation: operations   *)
(* are called inside `pin`.  The node that was removed goes to add_garbage,*)
(* but for remove_with, which leaves it to its caller; the only one there  *)
(* is, LocalState::drop, frees it at once (mod.rs:372-375).  What a thread *)
(* does that reads such a node is undefined: behaviours do not go on with  *)
(* that thread.                                                            *)
(***************************************************************************)
EXTENDS MarkedList

CONSTANT MaxEpoch  \* bound: the epoch is not moved beyond this value

VARIABLES
  epoch, pinned, pinAt, retiredAt, retired,
  freed,     \* the nodes the scheme has given back
  dropped,   \* the nodes the caller of remove_with has freed
  dropping   \* the list is being dropped

epochVars == <<epoch, pinned, pinAt, retiredAt, retired, freed>>
vars == <<listVars, controlVars, epochVars, dropped, dropping>>

R == INSTANCE Epochs

TypeOK ==
  ListTypeOK /\ R!TypeOK /\ dropped \in SUBSET Nodes /\ dropping \in BOOLEAN

Init ==
  ListInit("out", <<>>) /\ R!Init /\ dropped = {} /\ dropping = FALSE
-----------------------------------------------------------------------------
Enter(t) ==
  /\ pc[t] = "out"
  /\ R!Pin(t)
  /\ Goto(t, "enter")
  /\ UNCHANGED <<listVars, op, arg>>

(* Before its closure `pin` may move the epoch, and who does frees. *)
MoveEpoch(t) ==
  /\ pc[t] = "enter"
  /\ epoch < MaxEpoch
  /\ R!Advance(t)
  /\ Goto(t, "free")
  /\ UNCHANGED <<listVars, op, arg>>

FreeGarbage(t) ==
  /\ pc[t] = "free"
  /\ \E S \in SUBSET retired : R!Free(t, S)
  /\ Goto(t, "work")
  /\ UNCHANGED <<listVars, op, arg>>

Begin(t) ==
  /\ pc[t] = "enter"
  /\ Goto(t, "work")
  /\ UNCHANGED <<listVars, op, arg, epochVars>>

Leave(t) ==
  /\ pc[t] = "work"
  /\ R!Unpin(t)
  /\ Goto(t, "out")
  /\ UNCHANGED <<listVars, op, arg>>

(* The end of remove_front and remove. *)
RetireTaken(t) ==
  /\ op[t] # "remove_with"
  /\ Take(t)
  /\ R!Retire(t, cur[t].to)
  /\ UNCHANGED dropped

(* The end of remove_with: its closure is given the node and drops it. *)
DropTaken(t) ==
  /\ op[t] = "remove_with"
  /\ Take(t)
  /\ dropped' = dropped \cup {cur[t].to}
  /\ UNCHANGED epochVars

(* Mutant: the node behind the first one is forgotten. *)
DropFrontSkip(t) ==
  /\ pc[t] = "work"
  /\ \A u \in Threads \ {t} : pc[u] = "out"
  /\ Items # <<>>
  /\ R!Retire(t, Items[1])
  /\ link' = [link EXCEPT ![Root] =
                IF Len(Items) > 2 THEN To(Items[3]) ELSE To(Null)]
  /\ out' = out \cup {Items[i] : i \in 1..IF Len(Items) > 1 THEN 2 ELSE 1}
  /\ dropping' = TRUE
  /\ UNCHANGED <<pc, op, arg, prev, cur, nxt, found, result, order>>

(* List::drop, inside `pin` and with nobody else who uses the list, one    *)
(* turn of its loop: the first node is handed to add_garbage.              *)
DropFront(t) ==
  /\ pc[t] = "work"
  /\ \A u \in Threads \ {t} : pc[u] = "out"
  /\ link[Root].to # Null
  /\ R!Retire(t, link[Root].to)
  /\ link' = [link EXCEPT ![Root] = link[link[Root].to]]
  /\ out' = out \cup {link[Root].to}
  /\ dropping' = TRUE
  /\ UNCHANGED <<pc, op, arg, prev, cur, nxt, found, result, order>>

InPin(t) == Enter(t) \/ MoveEpoch(t) \/ FreeGarbage(t) \/ Begin(t) \/ Leave(t)

Running(t) ==
  /\ Accessed(t) \cap dropped = {}
  /\ \/ /\ Inserting(t) \/ Searching(t) \/ Unlinking(t)
        /\ UNCHANGED <<epochVars, dropped>>
     \/ RetireTaken(t)
     \/ DropTaken(t)

(* Nothing is called on a list that is being dropped. *)
Step(t) ==
  \/ InPin(t) /\ UNCHANGED <<dropped, dropping>>
  \/ ~dropping /\ Calling(t) /\ UNCHANGED <<epochVars, dropped, dropping>>
  \/ Running(t) /\ UNCHANGED dropping
  \/ DropFront(t) /\ UNCHANGED dropped

Next == (\E t \in Threads : Step(t)) /\ NoteOwed /\ UNCHANGED saw

Spec == Init /\ [][Next]_vars
-----------------------------------------------------------------------------
(* No thread accesses a node that the scheme has given back, and none does *)
(* at all as long as nobody calls remove_with.                             *)
NoUseAfterFree == \A t \in Threads : Accessed(t) \cap freed = {}

(* Nor one that the caller of remove_with has freed.  This does not hold,  *)
(* as the comment at mod.rs:373-374 says.                                  *)
NoUseAfterDrop == \A t \in Threads : Accessed(t) \cap dropped = {}

Gone == retired \cup freed \cup dropped

(* Walks go on through removed nodes, but nobody who pins after a node was *)
(* removed gets to it: no link of a node in the list leads there, and it   *)
(* is handed over, to the scheme or the caller of remove_with, once.       *)
GarbageIsUnreachable ==
  /\ \A n \in {Root} \cup ItemSet : link[n].to \notin Gone
  /\ \A t \in Threads : pc[t] = "take" => cur[t].to \notin Gone

(* Once the list is dropped every node that was in it has been handed over.*)
NothingLeaked ==
  dropping /\ link[Root].to = Null /\ (\A t \in Threads : pc[t] = "out") =>
    Ordered \subseteq Gone
=============================================================================
