---------------------------- MODULE SafeReclaim ----------------------------
(***************************************************************************)
(* What every reclamation scheme of the crate promises to the queue and    *)
(* the list built on it: the memory of a node that was taken out of the    *)
(* structure is given back once, and never while a thread may still follow *)
(* a pointer to it.  The schemes differ in how they find the moment; this  *)
(* module only says which moments are allowed.                             *)
(***************************************************************************)
CONSTANTS
  Threads,  \* the threads that use the structure
  Nodes     \* the allocations made for it; an allocation is used once

VARIABLES
  status,   \* life of each node
  hold      \* per thread, the nodes it may still dereference

vars == <<status, hold>>

Life == {"fresh", "live", "retired", "freed"}

TypeOK ==
  /\ status \in [Nodes -> Life]
  /\ hold \in [Threads -> SUBSET Nodes]

Init ==
  /\ status = [n \in Nodes |-> "fresh"]
  /\ hold = [t \in Threads |-> {}]

(* A node becomes reachable from the structure. *)
Publish(n) ==
  /\ status[n] = "fresh"
  /\ status' = [status EXCEPT ![n] = "live"]
  /\ UNCHANGED hold

(* A thread follows a pointer to a reachable node. *)
Acquire(t, n) ==
  /\ status[n] = "live"
  /\ hold' = [hold EXCEPT ![t] = @ \cup {n}]
  /\ UNCHANGED status

(* A node is unlinked and handed to the scheme. *)
Retire(n) ==
  /\ status[n] = "live"
  /\ status' = [status EXCEPT ![n] = "retired"]
  /\ UNCHANGED hold

(* A thread leaves its operation and forgets every pointer it read. *)
Release(t) ==
  /\ hold' = [hold EXCEPT ![t] = {}]
  /\ UNCHANGED status

(* The scheme gives back retired nodes that nobody holds. *)
Free(S) ==
  /\ \A n \in S : status[n] = "retired"
  /\ \A t \in Threads : hold[t] \cap S = {}
  /\ status' = [n \in Nodes |-> IF n \in S THEN "freed" ELSE status[n]]
  /\ UNCHANGED hold

Next ==
  \/ \E n \in Nodes : Publish(n) \/ Retire(n)
  \/ \E t \in Threads : Release(t) \/ \E n \in Nodes : Acquire(t, n)
  \/ \E S \in SUBSET Nodes : Free(S)

Spec == Init /\ [][Next]_vars
=============================================================================
