--------------------------- MODULE MCLeakingQueue ---------------------------
(* Instances of LeakingQueue for TLC. *)
EXTENDS LeakingQueue, TLC

CONSTANTS t1, t2, t3, n2

(* The operations of both crates, on one queue. *)
MayAll == (t1 :> {"push", "pop"}) @@ (t2 :> {"enqueue", "push", "pop_once"})
            @@ (t3 :> {"pop_if", "is_empty"})

SomeWanted == Nodes \ {n2}
=============================================================================
