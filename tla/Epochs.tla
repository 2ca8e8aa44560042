------------------------------- MODULE Epochs -------------------------------
(***************************************************************************)
(* The rule of epoch based reclamation as a client sees it                 *)
(* (src/ebr/mod.rs, lines 6-12): threads pin the current epoch, the epoch  *)
(* moves when every pinned thread has seen it, and a node unlinked in      *)
(* epoch e may be freed from epoch e+2 on.  Ebr implements it; EbrQueue    *)
(* uses it.                                                                *)
(***************************************************************************)
EXTENDS Naturals

CONSTANTS Threads, Nodes

VARIABLES
  epoch,
  pinned,     \* the threads inside `pin`
  pinAt,      \* the epoch in which each of them pinned, 0 for the others
  retiredAt,  \* the epoch in which each node was unlinked, 0 before that
  retired,    \* the nodes handed over and not yet given back
  freed       \* the nodes given back

vars == <<epoch, pinned, pinAt, retiredAt, retired, freed>>

TypeOK ==
  /\ epoch \in Nat
  /\ pinned \in SUBSET Threads
  /\ pinAt \in [Threads -> Nat]
  /\ retiredAt \in [Nodes -> Nat]
  /\ retired \in SUBSET Nodes
  /\ freed \in SUBSET Nodes

Init ==
  /\ epoch = 0
  /\ pinned = {}
  /\ pinAt = [t \in Threads |-> 0]
  /\ retiredAt = [n \in Nodes |-> 0]
  /\ retired = {}
  /\ freed = {}

Pin(t) ==
  /\ t \notin pinned
  /\ pinned' = pinned \cup {t}
  /\ pinAt' = [pinAt EXCEPT ![t] = epoch]
  /\ UNCHANGED <<epoch, retiredAt, retired, freed>>

Unpin(t) ==
  /\ t \in pinned
  /\ pinned' = pinned \ {t}
  /\ pinAt' = [pinAt EXCEPT ![t] = 0]
  /\ UNCHANGED <<epoch, retiredAt, retired, freed>>

(* A pinned thread hands over a node. *)
Retire(t, n) ==
  /\ t \in pinned
  /\ n \notin retired \cup freed
  /\ retiredAt' = [retiredAt EXCEPT ![n] = epoch]
  /\ retired' = retired \cup {n}
  /\ UNCHANGED <<epoch, pinned, pinAt, freed>>

(* Mutant: it is enough to have seen the epoch before. *)
AdvanceOneBehind(t) ==
  /\ t \in pinned
  /\ \A u \in pinned : pinAt[u] + 1 >= epoch
  /\ epoch' = epoch + 1
  /\ UNCHANGED <<pinned, pinAt, retiredAt, retired, freed>>

(* A pinned thread moves the epoch. *)
Advance(t) ==
  /\ t \in pinned
  /\ \A u \in pinned : pinAt[u] = epoch
  /\ epoch' = epoch + 1
  /\ UNCHANGED <<pinned, pinAt, retiredAt, retired, freed>>

(* A pinned thread gives back nodes that are old enough. *)
Free(t, S) ==
  /\ t \in pinned
  /\ S \subseteq retired
  /\ \A n \in S : retiredAt[n] + 2 <= epoch
  /\ retired' = retired \ S
  /\ freed' = freed \cup S
  /\ UNCHANGED <<epoch, pinned, pinAt, retiredAt>>

Next ==
  \E t \in Threads :
    \/ Pin(t) \/ Unpin(t) \/ Advance(t)
    \/ \E n \in Nodes : Retire(t, n)
    \/ \E S \in SUBSET Nodes : Free(t, S)

Spec == Init /\ [][Next]_vars
=============================================================================
