------------------------------- MODULE MCEbr -------------------------------
(* Instances of Ebr for TLC. *)
EXTENDS EbrProofs, TLC

Symmetry == Permutations(Threads)

Ended == {t \in Threads : pc[t] \in {"removing", "exiting", "gone"}}

(* Bound on threads that end: two while the epoch is young, and beyond     *)
(* that one; without any, Spec says it all.  Where a walk has read a freed *)
(* marker there is little left to check.                                   *)
FewEnd ==
  /\ Cardinality(Ended) <= 2
  /\ epoch <= 1 \/ Cardinality(Ended) = 1
  /\ strayed => epoch <= 1
=============================================================================
