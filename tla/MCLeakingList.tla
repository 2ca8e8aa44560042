--------------------------- MODULE MCLeakingList ---------------------------
(* Instances of LeakingList for TLC. *)
EXTENDS LeakingList, MarkedListProofs, TLC

CONSTANTS t1, t2, t3, n1, n2, n3, a, b

(* The value a is inserted twice. *)
DataTwice == (n1 :> a) @@ (n2 :> b) @@ (n3 :> a)

MayAll ==
  (t1 :> Inserts)
    @@ (t2 :> {<<"remove", a>>, <<"remove_front", Null>>})
    @@ (t3 :> {<<"remove", b>>, <<"contains", a>>, <<"is_empty", Null>>})

(* What the theorems assume holds of the first instance, not of the one    *)
(* below.                                                                  *)
ASSUME MayAllSuits == May = MayAll => SoleRemover

(* Two threads remove the same value with remove_with. *)
MayTwice ==
  (t1 :> Inserts) @@ (t2 :> {<<"remove_with", a>>})
    @@ (t3 :> {<<"remove_with", a>>})
=============================================================================
