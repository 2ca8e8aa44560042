----------------------------- MODULE MCEbrQueue -----------------------------
(* Instances of EbrQueue for TLC. *)
EXTENDS EbrQueue, TLC

CONSTANTS t1, t2, t3

(* One thread that pushes, two that pop. *)
MayOnePusher == (t1 :> {"push"}) @@ (t2 :> {"pop"}) @@ (t3 :> {"pop_if"})
(* Two threads that push, one that pops. *)
MayTwoPushers == (t1 :> {"push"}) @@ (t2 :> {"push"}) @@ (t3 :> {"pop"})

Symmetry == Permutations(Nodes)
=============================================================================
