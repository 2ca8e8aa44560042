---------------------------- MODULE LeakingList ----------------------------
(***************************************************************************)
(* The list when no node is ever freed: src/nothing/list.rs, and for order *)
(* and progress src/ebr/list.rs as well.                                   *)
(***************************************************************************)
EXTENDS MarkedList

vars == <<listVars, controlVars>>

TypeOK == ListTypeOK

Init == ListInit("work", <<>>)

Running(t) == Inserting(t) \/ Searching(t) \/ Unlinking(t) \/ Take(t)

(* Without walks, only what a call could have seen is noted. *)
Note == NoteSaw /\ UNCHANGED owed

Next == (\E t \in Threads : Calling(t) \/ Running(t)) /\ Note

Spec == Init /\ [][Next]_vars

(* An operation that was called goes on.  A tag is a lock: a thread that   *)
(* stops with one keeps others waiting (ebr/list.rs:163-165), so this is   *)
(* assumed of all threads.                                                 *)
FairSpec == Spec /\ \A t \in Threads : WF_vars(Running(t) /\ Note)
-----------------------------------------------------------------------------
(* Every operation ends, although some start again whenever they meet a    *)
(* tag and others take their own tag back.                                 *)
Terminates == \A t \in Threads : pc[t] \in Steps ~> pc[t] = "return"
=============================================================================
