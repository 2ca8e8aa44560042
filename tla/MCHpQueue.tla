----------------------------- MODULE MCHpQueue ------------------------------
(* Instances of HpQueue for TLC. *)
EXTENDS HpQueue, TLC

CONSTANTS t1, t2, t3

(* One thread that pushes, two that pop. *)
MayOnePusher == (t1 :> {"push"}) @@ (t2 :> {"pop"}) @@ (t3 :> {"pop"})
(* Two threads that push, one that pops. *)
MayTwoPushers == (t1 :> {"push"}) @@ (t2 :> {"push"}) @@ (t3 :> {"pop"})

EntriesInOrder == <<t1, t2, t3>>
=============================================================================
