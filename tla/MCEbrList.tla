----------------------------- MODULE MCEbrList ------------------------------
(* Instances of EbrList for TLC. *)
EXTENDS EbrList, MarkedListProofs, TLC

CONSTANTS t1, t2, t3, n1, n2, n3, a, b, c

DataOnce == (n1 :> a) @@ (n2 :> b) @@ (n3 :> c)

(* As the list of markers is used: the node that an insertion returned is  *)
(* taken out again with remove_with, by one thread, while others walk and  *)
(* remove its neighbours.                                                  *)
MayWalk ==
  (t1 :> Inserts \cup {<<"walk", Null>>}) @@ (t2 :> {<<"remove_with", b>>})
    @@ (t3 :> {<<"remove", a>>})

(* What the theorems assume. *)
ASSUME MayWalkSuits == SoleRemover
=============================================================================
