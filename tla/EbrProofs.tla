----------------------------- MODULE EbrProofs -----------------------------
(* Theorems about Ebr for any number of threads, nodes and epochs: that it *)
(* frees nothing too early, neither loses nor doubles a piece of garbage,  *)
(* and implements Epochs and SafeReclaim.                                  *)
EXTENDS Ebr, FiniteSetTheorems, TLAPS

(* What a thread knows about the epoch between setting and clearing its    *)
(* marker.                                                                 *)
PinInv ==
  \A t \in Threads :
    /\ InPin(t) => /\ t \in pins
                   /\ marker[t].pinned
                   /\ marker[t].epoch = localEpoch[t]
                   /\ localEpoch[t] <= pinAt[t]
                   /\ pinAt[t] <= epoch
                   /\ epoch <= pinAt[t] + 1
    /\ ~InPin(t) => hold[t] = {}
    /\ pc[t] = "pinning" => t \in pins /\ localEpoch[t] <= epoch

(* A thread that walks the markers: whoever is pinned and was passed has   *)
(* pinned in the epoch that is being checked, or later.                    *)
ScanInv ==
  \A t \in Threads :
    /\ pc[t] \in {"head", "scan"} =>
         localEpoch[t] <= checkEpoch[t] /\ checkEpoch[t] <= epoch
    /\ pc[t] = "scan" =>
         /\ t \notin toScan[t] => localEpoch[t] = checkEpoch[t]
         /\ \A u \in Threads :
              InPin(u) /\ u \notin toScan[t] => checkEpoch[t] <= pinAt[u]

(* The thread that frees is the one that moved the epoch last. *)
FreeInv ==
  /\ \A t \in Threads :
       /\ Freeing(t) => epoch = localEpoch[t] + 1 /\ pinAt[t] = localEpoch[t]
       /\ popped[t].index > 0 => pc[t] \in {"drop", "tag", "push"}
  /\ OneFrees

(* The epoch of a bag. *)
TagInv ==
  /\ \A t \in Threads : pc[t] = "push" => pinAt[t] <= tag[t] /\ tag[t] <= epoch
  /\ \A i \in DOMAIN garbage : garbage[i].epoch <= epoch
  /\ TagsSortedByOne

(* Nodes in bags are unlinked. *)
UnlinkedInv ==
  \A n \in Nodes :
    status[n] \in {"fresh", "live"} =>
      /\ \A t \in Threads : /\ n \notin bag[t].nodes
                            /\ n \notin full[t].nodes
                            /\ n \notin popped[t].nodes
      /\ \A i \in DOMAIN garbage : n \notin garbage[i].bag.nodes

(* Who holds a node of a bag pinned no later than the epoch of the bag. *)
HoldInv ==
  \A u \in Threads : \A n \in hold[u] :
    /\ \A t \in Threads :
         /\ pc[t] = "push" /\ n \in full[t].nodes => pinAt[u] <= tag[t]
         /\ n \notin popped[t].nodes
    /\ \A i \in DOMAIN garbage :
         n \in garbage[i].bag.nodes => pinAt[u] <= garbage[i].epoch

(* The epoch of a bag is no earlier than the retirement of its nodes. *)
AgeInv ==
  \A n \in Nodes :
    /\ retiredAt[n] <= epoch
    /\ \A t \in Threads :
         /\ pc[t] = "push" /\ n \in full[t].nodes => retiredAt[n] <= tag[t]
         /\ n \in popped[t].nodes => retiredAt[n] + 2 <= epoch
    /\ \A i \in DOMAIN garbage :
         n \in garbage[i].bag.nodes => retiredAt[n] <= garbage[i].epoch

(* The scheme at work. *)
SchemeInv == /\ TypeOK
             /\ PinInv
             /\ ScanInv
             /\ FreeInv
             /\ TagInv
             /\ UnlinkedInv
             /\ HoldInv
             /\ AgeInv

(* It works until a walk reads a marker that was freed. *)
IInv == /\ TypeOK
        /\ ~strayed => SchemeInv
-----------------------------------------------------------------------------
(* The operators on bags stay in Bag. *)
LEMMA BagTypes ==
  /\ EmptyBag \in Bag
  /\ \A b \in Bag, ns \in SUBSET Nodes : ~IsFull(b) => Inserted(b, ns) \in Bag
  /\ \A ns \in SUBSET Nodes : Inserted(EmptyBag, ns) \in Bag
  BY EbrAssumption DEF Bag, EmptyBag, IsFull, Inserted

(* LocalState::add_garbage keeps the types, whichever way it goes. *)
LEMMA AddGarbageType ==
  ASSUME TypeOK, NEW t \in Threads, NEW ns \in SUBSET Nodes,
         NEW next \in Phase, AddGarbage(t, ns, next)
  PROVE  /\ bag' \in [Threads -> Bag]
         /\ full' \in [Threads -> Bag]
         /\ pc' \in [Threads -> Phase]
  <1>1. CASE /\ full' = [full EXCEPT ![t] = bag[t]]
             /\ bag' = [bag EXCEPT ![t] = Inserted(EmptyBag, ns)]
             /\ pc' = [pc EXCEPT ![t] = "tag"]
    BY <1>1, BagTypes DEF TypeOK, Phase, PinPhase
  <1>2. CASE /\ ~IsFull(bag[t])
             /\ bag' = [bag EXCEPT ![t] = Inserted(bag[t], ns)]
             /\ pc' = [pc EXCEPT ![t] = next]
             /\ UNCHANGED full
    BY <1>2, BagTypes DEF TypeOK
  <1> QED BY <1>1, <1>2 DEF AddGarbage

(* What add_garbage does to the threads: only the caller moves, and the    *)
(* nodes of its two bags come from the local bag and the argument.         *)
LEMMA AddGarbageEffect ==
  ASSUME TypeOK, NEW t \in Threads, NEW ns \in SUBSET Nodes,
         NEW next \in Phase, AddGarbage(t, ns, next)
  PROVE  /\ pc'[t] \in {"tag", next}
         /\ bag'[t].nodes \subseteq bag[t].nodes \cup ns
         /\ full'[t].nodes \in {bag[t].nodes, full[t].nodes}
         /\ \A u \in Threads \ {t} : /\ pc'[u] = pc[u]
                                     /\ bag'[u] = bag[u]
                                     /\ full'[u] = full[u]
  <1>1. CASE /\ full' = [full EXCEPT ![t] = bag[t]]
             /\ bag' = [bag EXCEPT ![t] = Inserted(EmptyBag, ns)]
             /\ pc' = [pc EXCEPT ![t] = "tag"]
    BY <1>1 DEF TypeOK, Inserted, EmptyBag
  <1>2. CASE /\ ~IsFull(bag[t])
             /\ bag' = [bag EXCEPT ![t] = Inserted(bag[t], ns)]
             /\ pc' = [pc EXCEPT ![t] = next]
             /\ UNCHANGED full
    BY <1>2 DEF TypeOK, Inserted
  <1> QED BY <1>1, <1>2 DEF AddGarbage

LEMMA AddGarbageMoves ==
  ASSUME TypeOK, NEW t \in Threads, NEW ns \in SUBSET Nodes,
         NEW next \in Phase, AddGarbage(t, ns, next)
  PROVE  \/ /\ full'[t] = bag[t]
            /\ bag'[t].nodes = ns /\ bag'[t].index = 1
            /\ pc'[t] = "tag"
         \/ /\ full'[t] = full[t]
            /\ bag'[t].nodes = bag[t].nodes \cup ns
            /\ bag'[t].index = bag[t].index + 1
            /\ pc'[t] = next
  <1>1. CASE /\ full' = [full EXCEPT ![t] = bag[t]]
             /\ bag' = [bag EXCEPT ![t] = Inserted(EmptyBag, ns)]
             /\ pc' = [pc EXCEPT ![t] = "tag"]
    BY <1>1 DEF TypeOK, Inserted, EmptyBag
  <1>2. CASE /\ bag' = [bag EXCEPT ![t] = Inserted(bag[t], ns)]
             /\ pc' = [pc EXCEPT ![t] = next]
             /\ UNCHANGED full
    BY <1>2 DEF TypeOK, Inserted
  <1> QED BY <1>1, <1>2 DEF AddGarbage

(* Every variable keeps its type. *)
LEMMA TypeInit == Init => TypeOK
  <1> SUFFICES ASSUME Init PROVE TypeOK
    OBVIOUS
  <1>1. strayed \in BOOLEAN
    BY DEF Init
  <1>2. /\ pins \in SUBSET Threads
        /\ garbage \in Seq(Entry)
        /\ marker \in [Threads -> [epoch : Nat, pinned : BOOLEAN]]
        /\ bag \in [Threads -> Bag]
        /\ full \in [Threads -> Bag]
        /\ popped \in [Threads -> Bag]
    BY BagTypes DEF Init
  <1>3. /\ pinCount \in [Threads -> 0..PinInterval - 1]
        /\ pc \in [Threads -> Phase]
        /\ status \in [Nodes -> Life]
    BY EbrAssumption DEF Init, Phase, Life
  <1> QED BY <1>1, <1>2, <1>3 DEF Init, TypeOK

LEMMA TypeStep == TypeOK /\ [NextExit]_vars => TypeOK'
  <1> SUFFICES ASSUME TypeOK, [NextExit]_vars PROVE TypeOK'
    OBVIOUS
  <1> USE EbrAssumption
  <1>1. ASSUME NEW t \in Threads, Register(t) PROVE TypeOK'
    BY <1>1 DEF Register, TypeOK, clientVars
  <1>2. ASSUME NEW t \in Threads, ReadEpoch(t) PROVE TypeOK'
    BY <1>2 DEF ReadEpoch, TypeOK, clientVars, Phase
  <1>3. ASSUME NEW t \in Threads, MarkPinned(t) PROVE TypeOK'
    <2>1. (pinCount[t] + 1) % PinInterval \in 0..PinInterval - 1
      BY DEF TypeOK
    <2> QED BY <1>3, <2>1 DEF MarkPinned, TypeOK, clientVars, Phase, PinPhase
  <1>4. ASSUME NEW t \in Threads, Unpin(t) PROVE TypeOK'
    BY <1>4 DEF Unpin, TypeOK, Phase, PinPhase
  <1>5. ASSUME NEW t \in Threads, LoadCheckEpoch(t) PROVE TypeOK'
    BY <1>5 DEF LoadCheckEpoch, TypeOK, clientVars, Phase, PinPhase
  <1>6. ASSUME NEW t \in Threads, LoadHead(t) PROVE TypeOK'
    BY <1>6 DEF LoadHead, TypeOK, clientVars, Phase, PinPhase
  <1>7. ASSUME NEW t \in Threads, NEW u \in Threads, ScanMarker(t, u)
        PROVE TypeOK'
    <2>1. CASE /\ toScan' = [toScan EXCEPT ![t] = @ \ {u}]
               /\ UNCHANGED <<pc, checkEpoch>>
      BY <1>7, <2>1 DEF ScanMarker, TypeOK, clientVars
    <2>2. CASE /\ toScan' = [toScan EXCEPT ![t] = {}]
               /\ checkEpoch' = [checkEpoch EXCEPT ![t] = 0]
               /\ pc' = [pc EXCEPT ![t] = "work"]
      BY <1>7, <2>2 DEF ScanMarker, TypeOK, clientVars, Phase, PinPhase
    <2> QED BY <1>7, <2>1, <2>2 DEF ScanMarker
  <1>8. ASSUME NEW t \in Threads, AdvanceEpoch(t) PROVE TypeOK'
    <2>1. CASE /\ epoch' = localEpoch[t] + 1
               /\ pc' = [pc EXCEPT ![t] = "free"]
      BY <1>8, <2>1, SMTT(30) DEF AdvanceEpoch, TypeOK, clientVars, Phase, PinPhase
    <2>2. CASE /\ pc' = [pc EXCEPT ![t] = "work"]
               /\ UNCHANGED epoch
      BY <1>8, <2>2 DEF AdvanceEpoch, TypeOK, clientVars, Phase, PinPhase
    <2> QED BY <1>8, <2>1, <2>2 DEF AdvanceEpoch
  <1>9. ASSUME NEW t \in Threads, TagBag(t) PROVE TypeOK'
    BY <1>9 DEF TagBag, TypeOK, clientVars, Phase, PinPhase
  <1>10. ASSUME NEW t \in Threads, PushBag(t) PROVE TypeOK'
    <2>1. [epoch |-> tag[t], bag |-> full[t]] \in Entry
      BY DEF TypeOK, Entry
    <2>2. garbage' \in Seq(Entry)
      BY <1>10, <2>1 DEF PushBag, TypeOK
    <2> QED BY <1>10, <2>2, BagTypes
      DEF PushBag, TypeOK, clientVars, Phase, PinPhase
  <1>11. ASSUME NEW t \in Threads, PopExpired(t) PROVE TypeOK'
    <2>1. garbage # <<>> /\ garbage \in Seq(Entry)
      BY <1>11 DEF PopExpired, HeadExpired, TypeOK
    <2>2. Head(garbage) \in Entry /\ Tail(garbage) \in Seq(Entry)
      BY <2>1
    <2>3. popped' \in [Threads -> Bag]
      BY <1>11, <2>2 DEF PopExpired, TypeOK, Entry
    <2>4. /\ bag' \in [Threads -> Bag]
          /\ full' \in [Threads -> Bag]
          /\ pc' \in [Threads -> Phase]
      BY <1>11, AddGarbageType DEF PopExpired, Phase, PinPhase
    <2> QED BY <1>11, <2>2, <2>3, <2>4 DEF PopExpired, TypeOK, clientVars
  <1>12. ASSUME NEW t \in Threads, DropBag(t) PROVE TypeOK'
    BY <1>12, BagTypes DEF DropBag, TypeOK, Phase, PinPhase, Life
  <1>13. ASSUME NEW t \in Threads, FreeDone(t) PROVE TypeOK'
    BY <1>13 DEF FreeDone, TypeOK, clientVars, Phase, PinPhase
  <1>14. ASSUME NEW t \in Threads, NEW n \in Nodes, Publish(t, n)
         PROVE  TypeOK'
    BY <1>14 DEF Publish, TypeOK, reclaimVars, Life
  <1>15. ASSUME NEW t \in Threads, NEW n \in Nodes, Acquire(t, n)
         PROVE  TypeOK'
    BY <1>15 DEF Acquire, TypeOK, reclaimVars
  <1>16. ASSUME NEW t \in Threads, NEW n \in Nodes, Unlink(t, n) PROVE TypeOK'
    <2>1. /\ bag' \in [Threads -> Bag]
          /\ full' \in [Threads -> Bag]
          /\ pc' \in [Threads -> Phase]
      BY <1>16, AddGarbageType DEF Unlink, Phase, PinPhase
    <2>2. status' \in [Nodes -> Life]
      BY <1>16 DEF Unlink, TypeOK, Life
    <2> QED BY <1>16, <2>1, <2>2 DEF Unlink, TypeOK
  <1>17. CASE UNCHANGED vars
    BY <1>17 DEF TypeOK, vars
  <1>18. ASSUME NEW t \in Threads, RemoveMarker(t) PROVE TypeOK'
    BY <1>18 DEF RemoveMarker, TypeOK, Phase, PinPhase, clientVars
  <1>19. ASSUME NEW t \in Threads, DropLocalBag(t) PROVE TypeOK'
    BY <1>19, BagTypes DEF DropLocalBag, TypeOK, Phase, PinPhase, Life
  <1>20. ASSUME NEW t \in Threads, StartRemoval(t) PROVE TypeOK'
    BY <1>20 DEF StartRemoval, TypeOK, Phase, PinPhase
  <1>21. ASSUME NEW t \in Threads, NEW u \in Threads, ScanFreed(t, u)
         PROVE  TypeOK'
    <2>1. pc' \in [Threads -> Phase] /\ checkEpoch' \in [Threads -> Nat]
      <3>1. CASE UNCHANGED <<pc, checkEpoch>>
        BY <3>1 DEF TypeOK
      <3>2. CASE /\ pc' = [pc EXCEPT ![t] = "work"]
                 /\ checkEpoch' = [checkEpoch EXCEPT ![t] = 0]
        BY <3>2 DEF TypeOK, Phase, PinPhase
      <3> QED BY <1>21, <3>1, <3>2 DEF ScanFreed
    <2>2. toScan' \in [Threads -> SUBSET Threads] /\ strayed' \in BOOLEAN
      BY <1>21 DEF ScanFreed, TypeOK
    <2> QED BY <1>21, <2>1, <2>2 DEF ScanFreed, TypeOK, clientVars
  <1>22. ASSUME NEW t \in Threads, NEW u \in Threads, RemoveFreed(t, u)
         PROVE  TypeOK'
    <2>1. pc' \in [Threads -> Phase] /\ pins' \in SUBSET Threads
      BY <1>22 DEF RemoveFreed, TypeOK, Phase, PinPhase
    <2>2. toScan' \in [Threads -> SUBSET Threads] /\ strayed' \in BOOLEAN
      BY <1>22 DEF RemoveFreed, TypeOK
    <2> QED BY <1>22, <2>1, <2>2 DEF RemoveFreed, TypeOK, clientVars
  <1> QED
    BY <1>1, <1>2, <1>3, <1>4, <1>5, <1>6, <1>7, <1>8, <1>9, <1>10, <1>11,
       <1>12, <1>13, <1>14, <1>15, <1>16, <1>17, <1>18, <1>19, <1>20, <1>21, <1>22
    DEF NextExit, Next, Reclaimer, Pinning, Advancing, Collecting, Client, Exit

(* When the epoch is about to move, all pinned threads have pinned in it.  *)
LEMMA AdvanceSeen ==
  ASSUME SchemeInv, NEW t \in Threads, AdvanceEpoch(t), epoch = localEpoch[t]
  PROVE  \A u \in Threads : InPin(u) => pinAt[u] = epoch
  <1>1. pc[t] = "scan" /\ toScan[t] = {}
    BY DEF AdvanceEpoch
  <1>2. checkEpoch[t] = epoch
    BY <1>1 DEF SchemeInv, ScanInv
  <1>3. \A u \in Threads : InPin(u) => checkEpoch[t] <= pinAt[u]
    BY <1>1 DEF SchemeInv, ScanInv
  <1>4. \A u \in Threads : InPin(u) => pinAt[u] <= epoch
    BY DEF SchemeInv, PinInv
  <1>5. epoch \in Nat /\ \A u \in Threads : pinAt[u] \in Nat
    BY DEF SchemeInv, TypeOK
  <1> QED BY <1>2, <1>3, <1>4, <1>5

(* PinInv is preserved.  Only the step that moves the epoch is delicate.   *)
LEMMA PinStep == SchemeInv /\ [NextExit]_vars /\ ~strayed' => PinInv'
  <1> SUFFICES ASSUME SchemeInv, [NextExit]_vars, ~strayed' PROVE PinInv'
    OBVIOUS
  <1>1. ASSUME NEW t \in Threads, Register(t) PROVE PinInv'
    BY <1>1 DEF Register, SchemeInv, TypeOK, PinInv, InPin, PinPhase,
        clientVars
  <1>2. ASSUME NEW t \in Threads, ReadEpoch(t) PROVE PinInv'
    BY <1>2, SMTT(30) DEF ReadEpoch, SchemeInv, TypeOK, PinInv, InPin, PinPhase,
        clientVars
  <1>3. ASSUME NEW t \in Threads, MarkPinned(t) PROVE PinInv'
    BY <1>3, SMTT(30) DEF MarkPinned, SchemeInv, TypeOK, PinInv, InPin,
        PinPhase, clientVars
  <1>4. ASSUME NEW t \in Threads, Unpin(t) PROVE PinInv'
    BY <1>4 DEF Unpin, SchemeInv, TypeOK, PinInv, InPin, PinPhase
  <1>5. ASSUME NEW t \in Threads, LoadCheckEpoch(t) PROVE PinInv'
    BY <1>5 DEF LoadCheckEpoch, SchemeInv, TypeOK, PinInv, InPin, PinPhase,
        clientVars
  <1>6. ASSUME NEW t \in Threads, LoadHead(t) PROVE PinInv'
    BY <1>6 DEF LoadHead, SchemeInv, TypeOK, PinInv, InPin, PinPhase,
        clientVars
  <1>7. ASSUME NEW t \in Threads, NEW u \in Threads, ScanMarker(t, u)
        PROVE  PinInv'
    <2>1. CASE pc' = pc
      BY <1>7, <2>1 DEF ScanMarker, SchemeInv, PinInv, InPin, clientVars
    <2>2. CASE pc' = [pc EXCEPT ![t] = "work"]
      BY <1>7, <2>2, SMTT(30)
      DEF ScanMarker, SchemeInv, TypeOK, PinInv, InPin, PinPhase, clientVars
    <2> QED BY <1>7, <2>1, <2>2 DEF ScanMarker
  <1>8. ASSUME NEW t \in Threads, AdvanceEpoch(t) PROVE PinInv'
    <2>1. CASE /\ epoch = localEpoch[t]
               /\ epoch' = localEpoch[t] + 1
               /\ pc' = [pc EXCEPT ![t] = "free"]
      <3>1. \A u \in Threads : InPin(u) => pinAt[u] = epoch
        BY <1>8, <2>1, AdvanceSeen
      <3> QED BY <1>8, <2>1, <3>1
        DEF AdvanceEpoch, SchemeInv, TypeOK, PinInv, InPin, PinPhase, clientVars
    <2>2. CASE /\ pc' = [pc EXCEPT ![t] = "work"]
               /\ UNCHANGED epoch
      BY <1>8, <2>2
      DEF AdvanceEpoch, SchemeInv, TypeOK, PinInv, InPin, PinPhase, clientVars
    <2> QED BY <1>8, <2>1, <2>2 DEF AdvanceEpoch
  <1>9. ASSUME NEW t \in Threads, TagBag(t) PROVE PinInv'
    BY <1>9 DEF TagBag, SchemeInv, TypeOK, PinInv, InPin, PinPhase,
        clientVars
  <1>10. ASSUME NEW t \in Threads, PushBag(t) PROVE PinInv'
    BY <1>10 DEF PushBag, SchemeInv, TypeOK, PinInv, InPin, PinPhase,
        clientVars
  <1>11. ASSUME NEW t \in Threads, PopExpired(t) PROVE PinInv'
    <2>1. pc'[t] \in {"tag", "drop"} /\ \A u \in Threads \ {t} : pc'[u] = pc[u]
      BY <1>11, AddGarbageEffect DEF PopExpired, SchemeInv, Phase, PinPhase
    <2> QED BY <1>11, <2>1, SMTT(30)
      DEF PopExpired, SchemeInv, TypeOK, PinInv, InPin, PinPhase, clientVars
  <1>12. ASSUME NEW t \in Threads, DropBag(t) PROVE PinInv'
    BY <1>12 DEF DropBag, SchemeInv, TypeOK, PinInv, InPin, PinPhase
  <1>13. ASSUME NEW t \in Threads, FreeDone(t) PROVE PinInv'
    BY <1>13 DEF FreeDone, SchemeInv, TypeOK, PinInv, InPin, PinPhase,
        clientVars
  <1>14. ASSUME NEW t \in Threads, NEW n \in Nodes, Publish(t, n)
         PROVE  PinInv'
    BY <1>14 DEF Publish, SchemeInv, TypeOK, PinInv, InPin, PinPhase,
        reclaimVars
  <1>15. ASSUME NEW t \in Threads, NEW n \in Nodes, Acquire(t, n)
         PROVE  PinInv'
    BY <1>15 DEF Acquire, SchemeInv, TypeOK, PinInv, InPin, PinPhase,
        reclaimVars
  <1>16. ASSUME NEW t \in Threads, NEW n \in Nodes, Unlink(t, n) PROVE PinInv'
    <2>1. pc'[t] \in {"tag", "work"} /\ \A u \in Threads \ {t} : pc'[u] = pc[u]
      BY <1>16, AddGarbageEffect DEF Unlink, SchemeInv, Phase, PinPhase
    <2> QED BY <1>16, <2>1, SMTT(30)
      DEF Unlink, SchemeInv, TypeOK, PinInv, InPin, PinPhase
  <1>17. CASE UNCHANGED vars
    BY <1>17 DEF SchemeInv, TypeOK, PinInv, InPin, PinPhase, vars
  <1>18. ASSUME NEW t \in Threads, RemoveMarker(t) PROVE PinInv'
    BY <1>18 DEF RemoveMarker, SchemeInv, TypeOK, PinInv, InPin, PinPhase, clientVars
  <1>19. ASSUME NEW t \in Threads, DropLocalBag(t) PROVE PinInv'
    BY <1>19 DEF DropLocalBag, SchemeInv, TypeOK, PinInv, InPin, PinPhase
  <1>20. ASSUME NEW t \in Threads, StartRemoval(t) PROVE PinInv'
    BY <1>20 DEF StartRemoval, SchemeInv, TypeOK, PinInv, InPin, PinPhase
  <1>21. ASSUME NEW t \in Threads, NEW u \in Threads,
                ScanFreed(t, u) \/ RemoveFreed(t, u)
         PROVE  PinInv'
    BY <1>21 DEF ScanFreed, RemoveFreed
  <1> QED
    BY <1>1, <1>2, <1>3, <1>4, <1>5, <1>6, <1>7, <1>8, <1>9, <1>10, <1>11,
       <1>12, <1>13, <1>14, <1>15, <1>16, <1>17, <1>18, <1>19, <1>20, <1>21
    DEF NextExit, Next, Reclaimer, Pinning, Advancing, Collecting, Client, Exit

(* ScanInv is preserved: a thread that pins after the walk has begun does *)
(* so in the epoch that is checked, or in a later one.                     *)
LEMMA ScanStep == SchemeInv /\ [NextExit]_vars /\ ~strayed' => ScanInv'
  <1> SUFFICES ASSUME SchemeInv, [NextExit]_vars, ~strayed' PROVE ScanInv'
    OBVIOUS
  <1>1. ASSUME NEW t \in Threads, Register(t) PROVE ScanInv'
    BY <1>1 DEF Register, SchemeInv, TypeOK, PinInv, ScanInv, InPin, PinPhase,
        clientVars
  <1>2. ASSUME NEW t \in Threads, ReadEpoch(t) PROVE ScanInv'
    BY <1>2 DEF ReadEpoch, SchemeInv, TypeOK, PinInv, ScanInv, InPin, PinPhase,
        clientVars
  <1>3. ASSUME NEW t \in Threads, MarkPinned(t) PROVE ScanInv'
    BY <1>3 DEF MarkPinned, SchemeInv, TypeOK, PinInv, ScanInv, InPin, PinPhase,
        clientVars
  <1>4. ASSUME NEW t \in Threads, Unpin(t) PROVE ScanInv'
    BY <1>4 DEF Unpin, SchemeInv, TypeOK, PinInv, ScanInv, InPin, PinPhase
  <1>5. ASSUME NEW t \in Threads, LoadCheckEpoch(t) PROVE ScanInv'
    BY <1>5, SMTT(30) DEF LoadCheckEpoch, SchemeInv, TypeOK, PinInv, ScanInv, InPin,
        PinPhase, clientVars
  <1>6. ASSUME NEW t \in Threads, LoadHead(t) PROVE ScanInv'
    BY <1>6, SMTT(30) DEF LoadHead, SchemeInv, TypeOK, PinInv, ScanInv, InPin,
        PinPhase, clientVars
  <1>7. ASSUME NEW t \in Threads, NEW u \in Threads, ScanMarker(t, u)
        PROVE  ScanInv'
    <2>1. CASE /\ u \in pins => SeenEpoch(t, u)
               /\ toScan' = [toScan EXCEPT ![t] = @ \ {u}]
               /\ UNCHANGED <<pc, checkEpoch>>
      <3>1. InPin(u) => checkEpoch[t] <= pinAt[u]
        BY <1>7, <2>1 DEF ScanMarker, SeenEpoch, SchemeInv, TypeOK, PinInv
      <3>2. u = t => localEpoch[t] = checkEpoch[t]
        BY <1>7, <2>1 DEF ScanMarker, SeenEpoch, SchemeInv, PinInv, InPin, PinPhase
      <3> QED BY <1>7, <2>1, <3>1, <3>2, SMTT(30)
        DEF ScanMarker, SchemeInv, TypeOK, ScanInv, InPin, clientVars
    <2>2. CASE /\ toScan' = [toScan EXCEPT ![t] = {}]
               /\ checkEpoch' = [checkEpoch EXCEPT ![t] = 0]
               /\ pc' = [pc EXCEPT ![t] = "work"]
      BY <1>7, <2>2
      DEF ScanMarker, SchemeInv, TypeOK, ScanInv, InPin, PinPhase, clientVars
    <2> QED BY <1>7, <2>1, <2>2 DEF ScanMarker
  <1>8. ASSUME NEW t \in Threads, AdvanceEpoch(t) PROVE ScanInv'
    <2>1. CASE /\ epoch = localEpoch[t]
               /\ epoch' = localEpoch[t] + 1
               /\ pc' = [pc EXCEPT ![t] = "free"]
      BY <1>8, <2>1, SMTT(30)
      DEF AdvanceEpoch, SchemeInv, TypeOK, ScanInv, InPin, PinPhase, clientVars
    <2>2. CASE /\ pc' = [pc EXCEPT ![t] = "work"]
               /\ UNCHANGED epoch
      BY <1>8, <2>2
      DEF AdvanceEpoch, SchemeInv, TypeOK, ScanInv, InPin, PinPhase, clientVars
    <2> QED BY <1>8, <2>1, <2>2 DEF AdvanceEpoch
  <1>9. ASSUME NEW t \in Threads, TagBag(t) PROVE ScanInv'
    BY <1>9 DEF TagBag, SchemeInv, TypeOK, PinInv, ScanInv, InPin, PinPhase,
        clientVars
  <1>10. ASSUME NEW t \in Threads, PushBag(t) PROVE ScanInv'
    BY <1>10, SMTT(30) DEF PushBag, SchemeInv, TypeOK, PinInv, ScanInv, InPin,
        PinPhase, clientVars
  <1>11. ASSUME NEW t \in Threads, PopExpired(t) PROVE ScanInv'
    <2>1. pc'[t] \in {"tag", "drop"} /\ \A u \in Threads \ {t} : pc'[u] = pc[u]
      BY <1>11, AddGarbageEffect DEF PopExpired, SchemeInv, Phase, PinPhase
    <2> QED BY <1>11, <2>1
      DEF PopExpired, SchemeInv, TypeOK, PinInv, ScanInv, InPin, PinPhase, clientVars
  <1>12. ASSUME NEW t \in Threads, DropBag(t) PROVE ScanInv'
    BY <1>12 DEF DropBag, SchemeInv, TypeOK, PinInv, ScanInv, InPin, PinPhase
  <1>13. ASSUME NEW t \in Threads, FreeDone(t) PROVE ScanInv'
    BY <1>13 DEF FreeDone, SchemeInv, TypeOK, PinInv, ScanInv, InPin, PinPhase,
        clientVars
  <1>14. ASSUME NEW t \in Threads, NEW n \in Nodes, Publish(t, n)
         PROVE  ScanInv'
    BY <1>14 DEF Publish, SchemeInv, TypeOK, PinInv, ScanInv, InPin, PinPhase,
        reclaimVars
  <1>15. ASSUME NEW t \in Threads, NEW n \in Nodes, Acquire(t, n)
         PROVE  ScanInv'
    BY <1>15 DEF Acquire, SchemeInv, TypeOK, PinInv, ScanInv, InPin, PinPhase,
        reclaimVars
  <1>16. ASSUME NEW t \in Threads, NEW n \in Nodes, Unlink(t, n)
         PROVE  ScanInv'
    <2>1. pc'[t] \in {"tag", "work"} /\ \A u \in Threads \ {t} : pc'[u] = pc[u]
      BY <1>16, AddGarbageEffect DEF Unlink, SchemeInv, Phase, PinPhase
    <2>2. UNCHANGED <<epoch, pins, localEpoch, checkEpoch, toScan, pinAt>>
      BY <1>16 DEF Unlink
    <2>3. pc[t] = "work"
      BY <1>16 DEF Unlink
    <2> QED BY <2>1, <2>2, <2>3 DEF SchemeInv, ScanInv, InPin, PinPhase
  <1>17. CASE UNCHANGED vars
    BY <1>17 DEF SchemeInv, TypeOK, PinInv, ScanInv, InPin, PinPhase, vars
  <1>18. ASSUME NEW t \in Threads, RemoveMarker(t) PROVE ScanInv'
    BY <1>18 DEF RemoveMarker, SchemeInv, TypeOK, ScanInv, InPin, PinPhase, clientVars
  <1>19. ASSUME NEW t \in Threads, DropLocalBag(t) PROVE ScanInv'
    BY <1>19 DEF DropLocalBag, SchemeInv, TypeOK, ScanInv, InPin, PinPhase
  <1>20. ASSUME NEW t \in Threads, StartRemoval(t) PROVE ScanInv'
    BY <1>20 DEF StartRemoval, SchemeInv, TypeOK, ScanInv, InPin, PinPhase
  <1>21. ASSUME NEW t \in Threads, NEW u \in Threads,
                ScanFreed(t, u) \/ RemoveFreed(t, u)
         PROVE  ScanInv'
    BY <1>21 DEF ScanFreed, RemoveFreed
  <1> QED
    BY <1>1, <1>2, <1>3, <1>4, <1>5, <1>6, <1>7, <1>8, <1>9, <1>10, <1>11,
       <1>12, <1>13, <1>14, <1>15, <1>16, <1>17, <1>18, <1>19, <1>20, <1>21
    DEF NextExit, Next, Reclaimer, Pinning, Advancing, Collecting, Client, Exit
(* A step that moves one thread, and not into freeing. *)
LEMMA FreeFrame ==
  ASSUME FreeInv, NEW t \in Threads, UNCHANGED <<epoch, popped>>,
         \A u \in Threads \ {t} : /\ pc'[u] = pc[u]
                                 /\ localEpoch'[u] = localEpoch[u]
                                 /\ pinAt'[u] = pinAt[u],
         Freeing(t)' => /\ Freeing(t)
                        /\ localEpoch'[t] = localEpoch[t]
                        /\ pinAt'[t] = pinAt[t],
         popped[t].index > 0 => pc'[t] \in {"drop", "tag", "push"}
  PROVE  FreeInv'
  <1>1. \A u \in Threads : Freeing(u)' =>
          Freeing(u) /\ localEpoch'[u] = localEpoch[u] /\ pinAt'[u] = pinAt[u]
    BY DEF Freeing
  <1>2. \A u \in Threads : popped'[u].index > 0 => pc'[u] \in {"drop", "tag", "push"}
    BY DEF FreeInv
  <1> QED BY <1>1, <1>2 DEF FreeInv, OneFrees

(* FreeInv is preserved: while a thread frees, its own marker keeps the    *)
(* epoch from moving.                                                      *)
LEMMA FreeStep == SchemeInv /\ [NextExit]_vars /\ ~strayed' => FreeInv'
  <1> SUFFICES ASSUME SchemeInv, [NextExit]_vars, ~strayed' PROVE FreeInv'
    OBVIOUS
  <1>1. ASSUME NEW t \in Threads, Register(t) PROVE FreeInv'
    BY <1>1 DEF Register, SchemeInv, TypeOK, FreeInv, OneFrees, Freeing,
        clientVars
  <1>2. ASSUME NEW t \in Threads, ReadEpoch(t) PROVE FreeInv'
    <2>1. /\ pc[t] = "idle" /\ pc'[t] = "pinning"
          /\ \A u \in Threads \ {t} : /\ pc'[u] = pc[u]
                                  /\ localEpoch'[u] = localEpoch[u]
                                  /\ pinAt'[u] = pinAt[u]
          /\ UNCHANGED <<epoch, popped>>
      BY <1>2 DEF ReadEpoch, SchemeInv, TypeOK, clientVars
    <2> QED BY <2>1, FreeFrame DEF SchemeInv, FreeInv, Freeing
  <1>3. ASSUME NEW t \in Threads, MarkPinned(t) PROVE FreeInv'
    <2>1. /\ pc[t] = "pinning" /\ pc'[t] \in {"check", "work"}
          /\ \A u \in Threads \ {t} : /\ pc'[u] = pc[u]
                                  /\ localEpoch'[u] = localEpoch[u]
                                  /\ pinAt'[u] = pinAt[u]
          /\ UNCHANGED <<epoch, popped>>
      BY <1>3 DEF MarkPinned, SchemeInv, TypeOK, clientVars
    <2> QED BY <2>1, FreeFrame DEF SchemeInv, FreeInv, Freeing
  <1>4. ASSUME NEW t \in Threads, Unpin(t) PROVE FreeInv'
    <2>1. /\ pc[t] = "work" /\ pc'[t] = "idle"
          /\ \A u \in Threads \ {t} : /\ pc'[u] = pc[u]
                                  /\ localEpoch'[u] = localEpoch[u]
                                  /\ pinAt'[u] = pinAt[u]
          /\ UNCHANGED <<epoch, popped>>
      BY <1>4 DEF Unpin, SchemeInv, TypeOK
    <2> QED BY <2>1, FreeFrame DEF SchemeInv, FreeInv, Freeing
  <1>5. ASSUME NEW t \in Threads, LoadCheckEpoch(t) PROVE FreeInv'
    <2>1. /\ pc[t] = "check" /\ pc'[t] = "head"
          /\ \A u \in Threads \ {t} : /\ pc'[u] = pc[u]
                                  /\ localEpoch'[u] = localEpoch[u]
                                  /\ pinAt'[u] = pinAt[u]
          /\ UNCHANGED <<epoch, popped>>
      BY <1>5 DEF LoadCheckEpoch, SchemeInv, TypeOK, clientVars
    <2> QED BY <2>1, FreeFrame DEF SchemeInv, FreeInv, Freeing
  <1>6. ASSUME NEW t \in Threads, LoadHead(t) PROVE FreeInv'
    <2>1. /\ pc[t] = "head" /\ pc'[t] = "scan"
          /\ \A u \in Threads \ {t} : /\ pc'[u] = pc[u]
                                  /\ localEpoch'[u] = localEpoch[u]
                                  /\ pinAt'[u] = pinAt[u]
          /\ UNCHANGED <<epoch, popped>>
      BY <1>6 DEF LoadHead, SchemeInv, TypeOK, clientVars
    <2> QED BY <2>1, FreeFrame DEF SchemeInv, FreeInv, Freeing
  <1>7. ASSUME NEW t \in Threads, NEW u \in Threads, ScanMarker(t, u)
        PROVE  FreeInv'
    <2>1. /\ pc[t] = "scan" /\ pc'[t] \in {"scan", "work"}
          /\ \A v \in Threads \ {t} : pc'[v] = pc[v]
      <3>1. CASE pc' = pc
        BY <1>7, <3>1 DEF ScanMarker
      <3>2. CASE pc' = [pc EXCEPT ![t] = "work"]
        BY <1>7, <3>2 DEF ScanMarker, SchemeInv, TypeOK
      <3> QED BY <1>7, <3>1, <3>2 DEF ScanMarker
    <2>2. UNCHANGED <<epoch, popped, localEpoch, pinAt>>
      BY <1>7 DEF ScanMarker
    <2> QED BY <2>1, <2>2, FreeFrame DEF SchemeInv, FreeInv, Freeing
  <1>8. ASSUME NEW t \in Threads, AdvanceEpoch(t) PROVE FreeInv'
    <2>1. CASE /\ epoch = localEpoch[t]
               /\ epoch' = localEpoch[t] + 1
               /\ pc' = [pc EXCEPT ![t] = "free"]
      <3>1. \A u \in Threads : ~Freeing(u)
        <4> SUFFICES ASSUME NEW u \in Threads, Freeing(u) PROVE FALSE
          OBVIOUS
        <4>1. InPin(u)
          BY DEF Freeing, InPin, PinPhase
        <4>2. pinAt[u] = epoch
          BY <1>8, <2>1, <4>1, AdvanceSeen
        <4>3. epoch = localEpoch[u] + 1 /\ pinAt[u] = localEpoch[u]
          BY DEF SchemeInv, FreeInv
        <4> QED BY <4>2, <4>3 DEF SchemeInv, TypeOK
      <3>2. InPin(t)
        BY <1>8 DEF AdvanceEpoch, InPin, PinPhase
      <3>3. pinAt[t] = localEpoch[t]
        BY <1>8, <2>1, <3>2, AdvanceSeen
      <3>4. /\ pc[t] = "scan" /\ pc'[t] = "free"
            /\ \A u \in Threads \ {t} : pc'[u] = pc[u]
            /\ UNCHANGED <<popped, localEpoch, pinAt>>
        BY <1>8, <2>1 DEF AdvanceEpoch, SchemeInv, TypeOK
      <3>5. \A u \in Threads : Freeing(u)' => u = t
        BY <3>1, <3>4 DEF Freeing
      <3>6. \A u \in Threads : ~(popped[u].index > 0)
        BY <3>1, <3>4 DEF SchemeInv, FreeInv, Freeing
      <3> QED BY <2>1, <3>3, <3>4, <3>5, <3>6 DEF FreeInv, OneFrees
    <2>2. CASE /\ pc' = [pc EXCEPT ![t] = "work"]
               /\ UNCHANGED epoch
      <3>1. /\ pc[t] = "scan" /\ pc'[t] = "work"
            /\ \A u \in Threads \ {t} : pc'[u] = pc[u]
            /\ UNCHANGED <<epoch, popped, localEpoch, pinAt>>
        BY <1>8, <2>2 DEF AdvanceEpoch, SchemeInv, TypeOK
      <3> QED BY <3>1, FreeFrame DEF SchemeInv, FreeInv, Freeing
    <2> QED BY <1>8, <2>1, <2>2 DEF AdvanceEpoch
  <1>9. ASSUME NEW t \in Threads, TagBag(t) PROVE FreeInv'
    <2>1. /\ pc[t] = "tag" /\ pc'[t] = "push"
          /\ \A u \in Threads \ {t} : pc'[u] = pc[u]
          /\ UNCHANGED <<epoch, popped, localEpoch, pinAt>>
      BY <1>9 DEF TagBag, SchemeInv, TypeOK, clientVars
    <2> QED BY <2>1, FreeFrame DEF SchemeInv, FreeInv, Freeing
  <1>10. ASSUME NEW t \in Threads, PushBag(t) PROVE FreeInv'
    <2>1. /\ pc[t] = "push"
          /\ \/ pc'[t] = "drop" /\ popped[t].index > 0
             \/ pc'[t] = "work" /\ ~(popped[t].index > 0)
          /\ \A u \in Threads \ {t} : pc'[u] = pc[u]
          /\ UNCHANGED <<epoch, popped, localEpoch, pinAt>>
      BY <1>10 DEF PushBag, SchemeInv, TypeOK, clientVars
    <2> QED BY <2>1, FreeFrame DEF SchemeInv, FreeInv, Freeing
  <1>11. ASSUME NEW t \in Threads, PopExpired(t) PROVE FreeInv'
    <2>1. pc'[t] \in {"tag", "drop"} /\ \A u \in Threads \ {t} : pc'[u] = pc[u]
      BY <1>11, AddGarbageEffect DEF PopExpired, SchemeInv, Phase, PinPhase
    <2>2. /\ \A u \in Threads \ {t} : popped'[u] = popped[u]
          /\ UNCHANGED <<epoch, localEpoch, pinAt>>
          /\ pc[t] = "free"
      BY <1>11 DEF PopExpired, SchemeInv, TypeOK, clientVars
    <2>3. \A u \in Threads : Freeing(u)' => Freeing(u)
      BY <2>1, <2>2 DEF Freeing
    <2> QED BY <2>1, <2>2, <2>3 DEF SchemeInv, FreeInv, OneFrees
  <1>12. ASSUME NEW t \in Threads, DropBag(t) PROVE FreeInv'
    <2>1. /\ popped'[t].index = 0
          /\ \A u \in Threads \ {t} : popped'[u] = popped[u]
      BY <1>12 DEF DropBag, SchemeInv, TypeOK, EmptyBag
    <2>2. /\ pc[t] = "drop" /\ pc'[t] = "free"
          /\ \A u \in Threads \ {t} : pc'[u] = pc[u]
      BY <1>12 DEF DropBag, SchemeInv, TypeOK
    <2>3. \A u \in Threads : Freeing(u)' => Freeing(u)
      BY <2>1, <2>2 DEF Freeing
    <2> QED BY <1>12, <2>1, <2>2, <2>3 DEF DropBag, SchemeInv, FreeInv, OneFrees
  <1>13. ASSUME NEW t \in Threads, FreeDone(t) PROVE FreeInv'
    <2>1. /\ pc[t] = "free" /\ pc'[t] = "work"
          /\ \A u \in Threads \ {t} : /\ pc'[u] = pc[u]
                                  /\ localEpoch'[u] = localEpoch[u]
                                  /\ pinAt'[u] = pinAt[u]
          /\ UNCHANGED <<epoch, popped>>
      BY <1>13 DEF FreeDone, SchemeInv, TypeOK, clientVars
    <2> QED BY <2>1, FreeFrame DEF SchemeInv, FreeInv, Freeing
  <1>14. ASSUME NEW t \in Threads, NEW n \in Nodes, Publish(t, n)
         PROVE  FreeInv'
    BY <1>14 DEF Publish, SchemeInv, TypeOK, FreeInv, OneFrees, Freeing,
        reclaimVars
  <1>15. ASSUME NEW t \in Threads, NEW n \in Nodes, Acquire(t, n)
         PROVE  FreeInv'
    BY <1>15 DEF Acquire, SchemeInv, TypeOK, FreeInv, OneFrees, Freeing,
        reclaimVars
  <1>16. ASSUME NEW t \in Threads, NEW n \in Nodes, Unlink(t, n)
         PROVE  FreeInv'
    <2>1. pc'[t] \in {"tag", "work"} /\ \A u \in Threads \ {t} : pc'[u] = pc[u]
      BY <1>16, AddGarbageEffect DEF Unlink, SchemeInv, Phase, PinPhase
    <2>2. pc[t] = "work" /\ UNCHANGED <<epoch, popped, localEpoch, pinAt>>
      BY <1>16 DEF Unlink
    <2> QED BY <2>1, <2>2, FreeFrame DEF SchemeInv, FreeInv, Freeing
  <1>17. CASE UNCHANGED vars
    BY <1>17 DEF SchemeInv, TypeOK, FreeInv, OneFrees, Freeing, vars
  <1>18. ASSUME NEW t \in Threads, RemoveMarker(t) PROVE FreeInv'
    <2>1. /\ pc[t] = "removing" /\ pc'[t] = "exiting"
          /\ \A u \in Threads \ {t} : /\ pc'[u] = pc[u]
                                  /\ localEpoch'[u] = localEpoch[u]
                                  /\ pinAt'[u] = pinAt[u]
          /\ UNCHANGED <<epoch, popped>>
      BY <1>18 DEF RemoveMarker, SchemeInv, TypeOK
    <2> QED BY <2>1, FreeFrame DEF SchemeInv, FreeInv, Freeing
  <1>19. ASSUME NEW t \in Threads, DropLocalBag(t) PROVE FreeInv'
    <2>1. /\ pc[t] = "exiting" /\ pc'[t] = "gone"
          /\ \A u \in Threads \ {t} : pc'[u] = pc[u]
          /\ UNCHANGED <<epoch, popped, localEpoch, pinAt>>
      BY <1>19 DEF DropLocalBag, SchemeInv, TypeOK
    <2> QED BY <2>1, FreeFrame DEF SchemeInv, FreeInv, Freeing
  <1>20. ASSUME NEW t \in Threads, StartRemoval(t) PROVE FreeInv'
    <2>1. /\ pc[t] \in {"idle", "work"} /\ pc'[t] = "removing"
          /\ \A u \in Threads \ {t} : /\ pc'[u] = pc[u]
                                  /\ localEpoch'[u] = localEpoch[u]
                                  /\ pinAt'[u] = pinAt[u]
          /\ UNCHANGED <<epoch, popped>>
      BY <1>20 DEF StartRemoval, SchemeInv, TypeOK
    <2> QED BY <2>1, FreeFrame DEF SchemeInv, FreeInv, Freeing
  <1>21. ASSUME NEW t \in Threads, NEW u \in Threads,
                ScanFreed(t, u) \/ RemoveFreed(t, u)
         PROVE  FreeInv'
    BY <1>21 DEF ScanFreed, RemoveFreed
  <1> QED
    BY <1>1, <1>2, <1>3, <1>4, <1>5, <1>6, <1>7, <1>8, <1>9, <1>10, <1>11,
       <1>12, <1>13, <1>14, <1>15, <1>16, <1>17, <1>18, <1>19, <1>20, <1>21
    DEF NextExit, Next, Reclaimer, Pinning, Advancing, Collecting, Client, Exit

LEMMA GarbageEntries ==
  ASSUME TypeOK
  PROVE  \A i \in DOMAIN garbage : /\ garbage[i].epoch \in Nat
                                   /\ garbage[i].bag \in Bag
  <1>1. \A i \in DOMAIN garbage : garbage[i] \in Entry
    BY DEF TypeOK
  <1> QED BY <1>1 DEF Entry

(* The queue of bags after a push and after a pop, entry by entry. *)
LEMMA PushEntries ==
  ASSUME TypeOK, NEW t \in Threads, PushBag(t)
  PROVE  /\ DOMAIN garbage = 1..Len(garbage)
         /\ DOMAIN garbage' = 1..Len(garbage) + 1
         /\ \A i \in 1..Len(garbage) : garbage'[i] = garbage[i]
         /\ garbage'[Len(garbage) + 1] = [epoch |-> tag[t], bag |-> full[t]]
         /\ Len(garbage) \in Nat
  BY DEF PushBag, TypeOK, Entry

LEMMA PopEntries ==
  ASSUME TypeOK, NEW t \in Threads, PopExpired(t)
  PROVE  /\ DOMAIN garbage = 1..Len(garbage)
         /\ DOMAIN garbage' = 1..Len(garbage) - 1
         /\ Len(garbage) \in Nat \ {0}
         /\ \A i \in 1..Len(garbage) - 1 : garbage'[i] = garbage[i + 1]
         /\ Head(garbage) = garbage[1]
  <1>1. garbage # <<>> /\ garbage \in Seq(Entry) /\ garbage' = Tail(garbage)
    BY DEF PopExpired, HeadExpired, TypeOK
  <1> QED BY <1>1
(* TagInv is preserved: between reading the epoch for a bag and pushing    *)
(* the bag, the thread is pinned, so the epoch moves once at most.         *)
LEMMA TagStep == SchemeInv /\ [NextExit]_vars /\ ~strayed' => TagInv'
  <1> SUFFICES ASSUME SchemeInv, [NextExit]_vars, ~strayed' PROVE TagInv'
    OBVIOUS
  <1>1. ASSUME NEW t \in Threads, Register(t) PROVE TagInv'
    BY <1>1 DEF Register, SchemeInv, TypeOK, TagInv, TagsSortedByOne, clientVars
  <1>2. ASSUME NEW t \in Threads, ReadEpoch(t) PROVE TagInv'
    BY <1>2 DEF ReadEpoch, SchemeInv, TypeOK, TagInv, TagsSortedByOne, clientVars
  <1>3. ASSUME NEW t \in Threads, MarkPinned(t) PROVE TagInv'
    BY <1>3 DEF MarkPinned, SchemeInv, TypeOK, TagInv, TagsSortedByOne, clientVars
  <1>4. ASSUME NEW t \in Threads, Unpin(t) PROVE TagInv'
    BY <1>4 DEF Unpin, SchemeInv, TypeOK, TagInv, TagsSortedByOne
  <1>5. ASSUME NEW t \in Threads, LoadCheckEpoch(t) PROVE TagInv'
    BY <1>5 DEF LoadCheckEpoch, SchemeInv, TypeOK, TagInv, TagsSortedByOne,
        clientVars
  <1>6. ASSUME NEW t \in Threads, LoadHead(t) PROVE TagInv'
    BY <1>6 DEF LoadHead, SchemeInv, TypeOK, TagInv, TagsSortedByOne, clientVars
  <1>7. ASSUME NEW t \in Threads, NEW u \in Threads, ScanMarker(t, u)
        PROVE  TagInv'
    <2>1. CASE /\ toScan' = [toScan EXCEPT ![t] = @ \ {u}]
               /\ UNCHANGED <<pc, checkEpoch>>
      BY <1>7, <2>1 DEF ScanMarker, SchemeInv, TypeOK, TagInv, TagsSortedByOne
    <2>2. CASE /\ toScan' = [toScan EXCEPT ![t] = {}]
               /\ checkEpoch' = [checkEpoch EXCEPT ![t] = 0]
               /\ pc' = [pc EXCEPT ![t] = "work"]
      BY <1>7, <2>2 DEF ScanMarker, SchemeInv, TypeOK, TagInv, TagsSortedByOne
    <2> QED BY <1>7, <2>1, <2>2 DEF ScanMarker
  <1>8. ASSUME NEW t \in Threads, AdvanceEpoch(t) PROVE TagInv'
    <2>1. CASE /\ epoch = localEpoch[t]
               /\ epoch' = localEpoch[t] + 1
               /\ pc' = [pc EXCEPT ![t] = "free"]
      <3>1. \A i \in DOMAIN garbage : garbage[i].epoch \in Nat
        BY GarbageEntries DEF SchemeInv
      <3> QED
        BY <1>8, <2>1, <3>1, SMTT(30) DEF AdvanceEpoch, SchemeInv, TypeOK, TagInv,
           TagsSortedByOne
    <2>2. CASE /\ pc' = [pc EXCEPT ![t] = "work"]
               /\ UNCHANGED epoch
      BY <1>8, <2>2 DEF AdvanceEpoch, SchemeInv, TypeOK, TagInv, TagsSortedByOne
    <2> QED BY <1>8, <2>1, <2>2 DEF AdvanceEpoch
  <1>9. ASSUME NEW t \in Threads, TagBag(t) PROVE TagInv'
    BY <1>9 DEF TagBag, SchemeInv, TypeOK, TagInv, TagsSortedByOne, PinInv, InPin,
        PinPhase
  <1>10. ASSUME NEW t \in Threads, PushBag(t) PROVE TagInv'
    <2>1. pinAt[t] <= tag[t] /\ tag[t] <= epoch /\ epoch <= tag[t] + 1
      BY <1>10 DEF PushBag, SchemeInv, TypeOK, TagInv, PinInv, InPin, PinPhase
    <2>2. \A u \in Threads :
            pc'[u] = "push" => pinAt'[u] <= tag'[u] /\ tag'[u] <= epoch'
      BY <1>10 DEF PushBag, SchemeInv, TypeOK, TagInv
    <2>3. \A i \in DOMAIN garbage' :
            \/ i \in DOMAIN garbage /\ garbage'[i] = garbage[i]
            \/ /\ garbage'[i].epoch = tag[t]
               /\ \A j \in DOMAIN garbage' : ~(i < j)
      <3>1. PICK k \in Nat :
              /\ DOMAIN garbage = 1..k
              /\ DOMAIN garbage' = 1..k + 1
              /\ \A i \in 1..k : garbage'[i] = garbage[i]
              /\ garbage'[k + 1] = [epoch |-> tag[t], bag |-> full[t]]
        BY <1>10, PushEntries DEF SchemeInv
      <3>2. \A i \in 1..k + 1 : i \in 1..k \/ (i = k + 1 /\ \A j \in 1..k + 1 : ~(i < j))
        OBVIOUS
      <3> QED BY <3>1, <3>2
    <2>4. \A i \in DOMAIN garbage' : garbage'[i].epoch <= epoch
      BY <2>1, <2>3 DEF SchemeInv, TagInv
    <2>5. \A i \in DOMAIN garbage : garbage[i].epoch \in Nat
      BY GarbageEntries DEF SchemeInv
    <2>6. TagsSortedByOne'
      <3> SUFFICES ASSUME NEW i \in DOMAIN garbage', NEW j \in DOMAIN garbage',
                          i < j
                   PROVE  garbage'[i].epoch <= garbage'[j].epoch + 1
        BY DEF TagsSortedByOne
      <3>1. i \in DOMAIN garbage /\ garbage'[i] = garbage[i]
        BY <2>3
      <3>2. CASE j \in DOMAIN garbage /\ garbage'[j] = garbage[j]
        BY <3>1, <3>2 DEF SchemeInv, TagInv, TagsSortedByOne
      <3>3. CASE garbage'[j].epoch = tag[t]
        BY <2>1, <2>5, <3>1, <3>3 DEF SchemeInv, TypeOK, TagInv
      <3> QED BY <2>3, <3>2, <3>3
    <2> QED BY <1>10, <2>2, <2>4, <2>6 DEF PushBag, TagInv
  <1>11. ASSUME NEW t \in Threads, PopExpired(t) PROVE TagInv'
    <2>1. pc'[t] \in {"tag", "drop"} /\ \A u \in Threads \ {t} : pc'[u] = pc[u]
      BY <1>11, AddGarbageEffect DEF PopExpired, SchemeInv, Phase, PinPhase
    <2>2. \A u \in Threads :
            pc'[u] = "push" => pinAt'[u] <= tag'[u] /\ tag'[u] <= epoch'
      BY <1>11, <2>1 DEF PopExpired, SchemeInv, TagInv
    <2>3. \A i \in DOMAIN garbage' :
            /\ i \in DOMAIN garbage /\ i + 1 \in DOMAIN garbage
            /\ garbage'[i] = garbage[i + 1]
      BY <1>11, PopEntries DEF SchemeInv
    <2>4. \A i, j \in DOMAIN garbage' : i < j <=> i + 1 < j + 1
      BY <1>11, PopEntries DEF SchemeInv
    <2> QED BY <1>11, <2>2, <2>3, <2>4
      DEF PopExpired, SchemeInv, TagInv, TagsSortedByOne
  <1>12. ASSUME NEW t \in Threads, DropBag(t) PROVE TagInv'
    BY <1>12 DEF DropBag, SchemeInv, TypeOK, TagInv, TagsSortedByOne
  <1>13. ASSUME NEW t \in Threads, FreeDone(t) PROVE TagInv'
    BY <1>13 DEF FreeDone, SchemeInv, TypeOK, TagInv, TagsSortedByOne, clientVars
  <1>14. ASSUME NEW t \in Threads, NEW n \in Nodes, Publish(t, n)
         PROVE  TagInv'
    BY <1>14 DEF Publish, SchemeInv, TypeOK, TagInv, TagsSortedByOne, reclaimVars
  <1>15. ASSUME NEW t \in Threads, NEW n \in Nodes, Acquire(t, n)
         PROVE  TagInv'
    BY <1>15 DEF Acquire, SchemeInv, TypeOK, TagInv, TagsSortedByOne, reclaimVars
  <1>16. ASSUME NEW t \in Threads, NEW n \in Nodes, Unlink(t, n) PROVE TagInv'
    <2>1. pc'[t] \in {"tag", "work"} /\ \A u \in Threads \ {t} : pc'[u] = pc[u]
      BY <1>16, AddGarbageEffect DEF Unlink, SchemeInv, Phase, PinPhase
    <2> QED BY <1>16, <2>1 DEF Unlink, SchemeInv, TypeOK, TagInv, TagsSortedByOne
  <1>17. CASE UNCHANGED vars
    BY <1>17 DEF SchemeInv, TypeOK, TagInv, TagsSortedByOne, vars
  <1>18. ASSUME NEW t \in Threads, RemoveMarker(t) PROVE TagInv'
    BY <1>18 DEF RemoveMarker, SchemeInv, TypeOK, TagInv, TagsSortedByOne, clientVars
  <1>19. ASSUME NEW t \in Threads, DropLocalBag(t) PROVE TagInv'
    BY <1>19 DEF DropLocalBag, SchemeInv, TypeOK, TagInv, TagsSortedByOne
  <1>20. ASSUME NEW t \in Threads, StartRemoval(t) PROVE TagInv'
    BY <1>20 DEF StartRemoval, SchemeInv, TypeOK, TagInv, TagsSortedByOne
  <1>21. ASSUME NEW t \in Threads, NEW u \in Threads,
                ScanFreed(t, u) \/ RemoveFreed(t, u)
         PROVE  TagInv'
    BY <1>21 DEF ScanFreed, RemoveFreed
  <1> QED
    BY <1>1, <1>2, <1>3, <1>4, <1>5, <1>6, <1>7, <1>8, <1>9, <1>10, <1>11,
       <1>12, <1>13, <1>14, <1>15, <1>16, <1>17, <1>18, <1>19, <1>20, <1>21
    DEF NextExit, Next, Reclaimer, Pinning, Advancing, Collecting, Client, Exit
(* UnlinkedInv is preserved: only unlinked nodes enter a bag, and bags     *)
(* only move.                                                              *)
LEMMA UnlinkedStep == SchemeInv /\ [NextExit]_vars /\ ~strayed' => UnlinkedInv'
  <1> SUFFICES ASSUME SchemeInv, [NextExit]_vars, ~strayed' PROVE UnlinkedInv'
    OBVIOUS
  <1>1. ASSUME NEW t \in Threads, Register(t) PROVE UnlinkedInv'
    BY <1>1 DEF Register, SchemeInv, TypeOK, UnlinkedInv, clientVars
  <1>2. ASSUME NEW t \in Threads, ReadEpoch(t) PROVE UnlinkedInv'
    BY <1>2 DEF ReadEpoch, SchemeInv, TypeOK, UnlinkedInv, clientVars
  <1>3. ASSUME NEW t \in Threads, MarkPinned(t) PROVE UnlinkedInv'
    BY <1>3 DEF MarkPinned, SchemeInv, TypeOK, UnlinkedInv, clientVars
  <1>4. ASSUME NEW t \in Threads, Unpin(t) PROVE UnlinkedInv'
    BY <1>4 DEF Unpin, SchemeInv, TypeOK, UnlinkedInv
  <1>5. ASSUME NEW t \in Threads, LoadCheckEpoch(t) PROVE UnlinkedInv'
    BY <1>5 DEF LoadCheckEpoch, SchemeInv, TypeOK, UnlinkedInv, clientVars
  <1>6. ASSUME NEW t \in Threads, LoadHead(t) PROVE UnlinkedInv'
    BY <1>6 DEF LoadHead, SchemeInv, TypeOK, UnlinkedInv, clientVars
  <1>7. ASSUME NEW t \in Threads, NEW u \in Threads, ScanMarker(t, u)
        PROVE  UnlinkedInv'
    <2>1. CASE /\ toScan' = [toScan EXCEPT ![t] = @ \ {u}]
               /\ UNCHANGED <<pc, checkEpoch>>
      BY <1>7, <2>1 DEF ScanMarker, SchemeInv, TypeOK, UnlinkedInv, clientVars
    <2>2. CASE /\ toScan' = [toScan EXCEPT ![t] = {}]
               /\ checkEpoch' = [checkEpoch EXCEPT ![t] = 0]
               /\ pc' = [pc EXCEPT ![t] = "work"]
      BY <1>7, <2>2 DEF ScanMarker, SchemeInv, TypeOK, UnlinkedInv, clientVars
    <2> QED BY <1>7, <2>1, <2>2 DEF ScanMarker
  <1>8. ASSUME NEW t \in Threads, AdvanceEpoch(t) PROVE UnlinkedInv'
    <2>1. CASE /\ epoch' = localEpoch[t] + 1
               /\ pc' = [pc EXCEPT ![t] = "free"]
      BY <1>8, <2>1 DEF AdvanceEpoch, SchemeInv, TypeOK, UnlinkedInv, clientVars
    <2>2. CASE /\ pc' = [pc EXCEPT ![t] = "work"]
               /\ UNCHANGED epoch
      BY <1>8, <2>2 DEF AdvanceEpoch, SchemeInv, TypeOK, UnlinkedInv, clientVars
    <2> QED BY <1>8, <2>1, <2>2 DEF AdvanceEpoch
  <1>9. ASSUME NEW t \in Threads, TagBag(t) PROVE UnlinkedInv'
    BY <1>9 DEF TagBag, SchemeInv, TypeOK, UnlinkedInv, clientVars
  <1>10. ASSUME NEW t \in Threads, PushBag(t) PROVE UnlinkedInv'
    <2>1. PICK k \in Nat :
            /\ DOMAIN garbage = 1..k
            /\ DOMAIN garbage' = 1..k + 1
            /\ \A i \in 1..k : garbage'[i] = garbage[i]
            /\ garbage'[k + 1] = [epoch |-> tag[t], bag |-> full[t]]
      BY <1>10, PushEntries DEF SchemeInv
    <2>2. \A i \in DOMAIN garbage' :
            \/ i \in DOMAIN garbage /\ garbage'[i] = garbage[i]
            \/ garbage'[i].bag = full[t]
      BY <2>1
    <2>3. \A u \in Threads : full'[u].nodes \subseteq full[u].nodes
      BY <1>10 DEF PushBag, SchemeInv, TypeOK, EmptyBag
    <2> QED BY <1>10, <2>2, <2>3 DEF PushBag, SchemeInv, UnlinkedInv, clientVars
  <1>11. ASSUME NEW t \in Threads, PopExpired(t) PROVE UnlinkedInv'
    <2>1. \A u \in Threads :
            /\ bag'[u].nodes \subseteq bag[u].nodes
            /\ full'[u].nodes \in {bag[u].nodes, full[u].nodes}
      BY <1>11, AddGarbageEffect DEF PopExpired, SchemeInv, Phase, PinPhase
    <2>2. \A i \in DOMAIN garbage' :
            i + 1 \in DOMAIN garbage /\ garbage'[i] = garbage[i + 1]
      BY <1>11, PopEntries DEF SchemeInv
    <2>3. 1 \in DOMAIN garbage /\ Head(garbage) = garbage[1]
      BY <1>11, PopEntries DEF SchemeInv
    <2>4. \A u \in Threads :
            popped'[u].nodes \in {popped[u].nodes, garbage[1].bag.nodes}
      BY <1>11, <2>3 DEF PopExpired, SchemeInv, TypeOK
    <2> QED BY <1>11, <2>1, <2>2, <2>3, <2>4
      DEF PopExpired, SchemeInv, UnlinkedInv, clientVars
  <1>12. ASSUME NEW t \in Threads, DropBag(t) PROVE UnlinkedInv'
    <2>1. \A u \in Threads : popped'[u].nodes \subseteq popped[u].nodes
      BY <1>12 DEF DropBag, SchemeInv, TypeOK, EmptyBag
    <2>2. \A n \in Nodes : status'[n] # "freed" => status'[n] = status[n]
      BY <1>12 DEF DropBag
    <2> QED BY <1>12, <2>1, <2>2 DEF DropBag, SchemeInv, UnlinkedInv
  <1>13. ASSUME NEW t \in Threads, FreeDone(t) PROVE UnlinkedInv'
    BY <1>13 DEF FreeDone, SchemeInv, TypeOK, UnlinkedInv, clientVars
  <1>14. ASSUME NEW t \in Threads, NEW n \in Nodes, Publish(t, n)
         PROVE  UnlinkedInv'
    BY <1>14 DEF Publish, SchemeInv, TypeOK, UnlinkedInv, reclaimVars
  <1>15. ASSUME NEW t \in Threads, NEW n \in Nodes, Acquire(t, n)
         PROVE  UnlinkedInv'
    BY <1>15 DEF Acquire, SchemeInv, TypeOK, UnlinkedInv, reclaimVars
  <1>16. ASSUME NEW t \in Threads, NEW n \in Nodes, Unlink(t, n)
         PROVE  UnlinkedInv'
    <2>1. \A u \in Threads :
            /\ bag'[u].nodes \subseteq bag[u].nodes \cup {n}
            /\ full'[u].nodes \in {bag[u].nodes, full[u].nodes}
      BY <1>16, AddGarbageEffect DEF Unlink, SchemeInv, Phase, PinPhase
    <2>2. /\ status'[n] = "retired"
          /\ \A m \in Nodes : m # n => status'[m] = status[m]
      BY <1>16 DEF Unlink, SchemeInv, TypeOK
    <2> QED BY <1>16, <2>1, <2>2 DEF Unlink, SchemeInv, UnlinkedInv
  <1>17. CASE UNCHANGED vars
    BY <1>17 DEF SchemeInv, TypeOK, UnlinkedInv, vars
  <1>18. ASSUME NEW t \in Threads, RemoveMarker(t) PROVE UnlinkedInv'
    BY <1>18 DEF RemoveMarker, SchemeInv, TypeOK, UnlinkedInv, clientVars
  <1>19. ASSUME NEW t \in Threads, DropLocalBag(t) PROVE UnlinkedInv'
    <2>1. \A u \in Threads : bag'[u].nodes \subseteq bag[u].nodes
      BY <1>19 DEF DropLocalBag, SchemeInv, TypeOK, EmptyBag
    <2>2. \A n \in Nodes : status'[n] # "freed" => status'[n] = status[n]
      BY <1>19 DEF DropLocalBag
    <2> QED BY <1>19, <2>1, <2>2 DEF DropLocalBag, SchemeInv, UnlinkedInv
  <1>20. ASSUME NEW t \in Threads, StartRemoval(t) PROVE UnlinkedInv'
    BY <1>20 DEF StartRemoval, SchemeInv, TypeOK, UnlinkedInv
  <1>21. ASSUME NEW t \in Threads, NEW u \in Threads,
                ScanFreed(t, u) \/ RemoveFreed(t, u)
         PROVE  UnlinkedInv'
    BY <1>21 DEF ScanFreed, RemoveFreed
  <1> QED
    BY <1>1, <1>2, <1>3, <1>4, <1>5, <1>6, <1>7, <1>8, <1>9, <1>10, <1>11,
       <1>12, <1>13, <1>14, <1>15, <1>16, <1>17, <1>18, <1>19, <1>20, <1>21
    DEF NextExit, Next, Reclaimer, Pinning, Advancing, Collecting, Client, Exit
(* The bag that pop_if accepts is two epochs old. *)
LEMMA HeadIsOld ==
  ASSUME SchemeInv, NEW t \in Threads, PopExpired(t)
  PROVE  epoch >= garbage[1].epoch + 2
  <1>1. 1 \in DOMAIN garbage /\ Head(garbage) = garbage[1]
    BY PopEntries DEF SchemeInv
  <1>2. epoch = localEpoch[t] + 1
    BY DEF PopExpired, SchemeInv, FreeInv, Freeing
  <1>3. Expired(epoch, garbage[1].epoch)
    BY <1>1, <1>2 DEF PopExpired, HeadExpired
  <1>4. garbage[1].epoch \in Nat /\ epoch \in Nat
    BY <1>1, GarbageEntries DEF SchemeInv, TypeOK
  <1> QED BY <1>3, <1>4 DEF Expired, SaturatingSub

(* HoldInv is preserved.  The step that matters is PopExpired: a bag is    *)
(* taken when the epoch is two past the epoch of the bag, and a thread     *)
(* that holds one of its nodes would have kept the epoch lower.            *)
LEMMA HoldStep == SchemeInv /\ [NextExit]_vars /\ ~strayed' => HoldInv'
  <1> SUFFICES ASSUME SchemeInv, [NextExit]_vars, ~strayed' PROVE HoldInv'
    OBVIOUS
  <1>1. ASSUME NEW t \in Threads, Register(t) PROVE HoldInv'
    BY <1>1 DEF Register, SchemeInv, TypeOK, HoldInv, clientVars
  <1>2. ASSUME NEW t \in Threads, ReadEpoch(t) PROVE HoldInv'
    BY <1>2 DEF ReadEpoch, SchemeInv, TypeOK, HoldInv, clientVars
  <1>3. ASSUME NEW t \in Threads, MarkPinned(t) PROVE HoldInv'
    <2>1. hold[t] = {}
      BY <1>3 DEF MarkPinned, SchemeInv, PinInv, InPin, PinPhase
    <2>2. \A u \in Threads \ {t} : pinAt'[u] = pinAt[u]
      BY <1>3 DEF MarkPinned, SchemeInv, TypeOK
    <2>3. \A u \in Threads : pc'[u] = "push" => pc[u] = "push"
      BY <1>3 DEF MarkPinned, SchemeInv, TypeOK
    <2> QED BY <1>3, <2>1, <2>2, <2>3 DEF MarkPinned, SchemeInv, HoldInv, clientVars
  <1>4. ASSUME NEW t \in Threads, Unpin(t) PROVE HoldInv'
    <2>1. hold'[t] = {}
      BY <1>4 DEF Unpin, SchemeInv, TypeOK
    <2>2. \A u \in Threads \ {t} : pinAt'[u] = pinAt[u] /\ hold'[u] = hold[u]
      BY <1>4 DEF Unpin, SchemeInv, TypeOK
    <2>3. \A u \in Threads : pc'[u] = "push" => pc[u] = "push"
      BY <1>4 DEF Unpin, SchemeInv, TypeOK
    <2> QED BY <1>4, <2>1, <2>2, <2>3 DEF Unpin, SchemeInv, HoldInv
  <1>5. ASSUME NEW t \in Threads, LoadCheckEpoch(t) PROVE HoldInv'
    BY <1>5 DEF LoadCheckEpoch, SchemeInv, TypeOK, HoldInv, clientVars
  <1>6. ASSUME NEW t \in Threads, LoadHead(t) PROVE HoldInv'
    BY <1>6 DEF LoadHead, SchemeInv, TypeOK, HoldInv, clientVars
  <1>7. ASSUME NEW t \in Threads, NEW u \in Threads, ScanMarker(t, u)
        PROVE  HoldInv'
    <2>1. CASE /\ toScan' = [toScan EXCEPT ![t] = @ \ {u}]
               /\ UNCHANGED <<pc, checkEpoch>>
      BY <1>7, <2>1 DEF ScanMarker, SchemeInv, TypeOK, HoldInv, clientVars
    <2>2. CASE /\ toScan' = [toScan EXCEPT ![t] = {}]
               /\ checkEpoch' = [checkEpoch EXCEPT ![t] = 0]
               /\ pc' = [pc EXCEPT ![t] = "work"]
      BY <1>7, <2>2 DEF ScanMarker, SchemeInv, TypeOK, HoldInv, clientVars
    <2> QED BY <1>7, <2>1, <2>2 DEF ScanMarker
  <1>8. ASSUME NEW t \in Threads, AdvanceEpoch(t) PROVE HoldInv'
    <2>1. CASE /\ epoch' = localEpoch[t] + 1
               /\ pc' = [pc EXCEPT ![t] = "free"]
      BY <1>8, <2>1 DEF AdvanceEpoch, SchemeInv, TypeOK, HoldInv, clientVars
    <2>2. CASE /\ pc' = [pc EXCEPT ![t] = "work"]
               /\ UNCHANGED epoch
      BY <1>8, <2>2 DEF AdvanceEpoch, SchemeInv, TypeOK, HoldInv, clientVars
    <2> QED BY <1>8, <2>1, <2>2 DEF AdvanceEpoch
  <1>9. ASSUME NEW t \in Threads, TagBag(t) PROVE HoldInv'
    <2>1. \A u \in Threads : hold[u] # {} => pinAt[u] <= epoch
      BY DEF SchemeInv, PinInv
    <2>2. tag'[t] = epoch
      BY <1>9 DEF TagBag, SchemeInv, TypeOK
    <2>3. \A u \in Threads \ {t} : tag'[u] = tag[u] /\ pc'[u] = pc[u]
      BY <1>9 DEF TagBag, SchemeInv, TypeOK
    <2> QED BY <1>9, <2>1, <2>2, <2>3 DEF TagBag, SchemeInv, HoldInv, clientVars
  <1>10. ASSUME NEW t \in Threads, PushBag(t) PROVE HoldInv'
    <2>1. PICK k \in Nat :
            /\ DOMAIN garbage = 1..k
            /\ DOMAIN garbage' = 1..k + 1
            /\ \A i \in 1..k : garbage'[i] = garbage[i]
            /\ garbage'[k + 1] = [epoch |-> tag[t], bag |-> full[t]]
      BY <1>10, PushEntries DEF SchemeInv
    <2>2. \A i \in DOMAIN garbage' :
            \/ i \in DOMAIN garbage /\ garbage'[i] = garbage[i]
            \/ garbage'[i].bag = full[t] /\ garbage'[i].epoch = tag[t]
      BY <2>1
    <2>3. pc[t] = "push" /\ pc'[t] # "push"
      BY <1>10 DEF PushBag, SchemeInv, TypeOK
    <2>4. \A u \in Threads \ {t} :
            tag'[u] = tag[u] /\ pc'[u] = pc[u] /\ full'[u] = full[u]
      BY <1>10 DEF PushBag, SchemeInv, TypeOK
    <2> QED BY <1>10, <2>2, <2>3, <2>4 DEF PushBag, SchemeInv, HoldInv, clientVars
  <1>11. ASSUME NEW t \in Threads, PopExpired(t) PROVE HoldInv'
    <2>1. /\ pc'[t] # "push"
          /\ \A u \in Threads \ {t} : pc'[u] = pc[u] /\ full'[u] = full[u]
      BY <1>11, AddGarbageEffect DEF PopExpired, SchemeInv, Phase, PinPhase
    <2>2. \A i \in DOMAIN garbage' :
            i + 1 \in DOMAIN garbage /\ garbage'[i] = garbage[i + 1]
      BY <1>11, PopEntries DEF SchemeInv
    <2>3. 1 \in DOMAIN garbage /\ Head(garbage) = garbage[1]
      BY <1>11, PopEntries DEF SchemeInv
    <2>4. epoch >= garbage[1].epoch + 2
      BY <1>11, HeadIsOld
    <2>5. \A u \in Threads : hold[u] \cap garbage[1].bag.nodes = {}
      <3> SUFFICES ASSUME NEW u \in Threads, NEW n \in hold[u],
                          n \in garbage[1].bag.nodes
                   PROVE  FALSE
        OBVIOUS
      <3>1. pinAt[u] <= garbage[1].epoch
        BY <2>3 DEF SchemeInv, HoldInv
      <3>2. epoch <= pinAt[u] + 1
        BY DEF SchemeInv, PinInv
      <3>3. /\ garbage[1].epoch \in Nat /\ epoch \in Nat /\ pinAt[u] \in Nat
        BY <2>3, GarbageEntries DEF SchemeInv, TypeOK
      <3> QED BY <2>4, <3>1, <3>2, <3>3
    <2>6. \A u \in Threads :
            popped'[u].nodes \in {popped[u].nodes, garbage[1].bag.nodes}
      BY <1>11, <2>3 DEF PopExpired, SchemeInv, TypeOK
    <2> QED BY <1>11, <2>1, <2>2, <2>5, <2>6
      DEF PopExpired, SchemeInv, HoldInv, clientVars
  <1>12. ASSUME NEW t \in Threads, DropBag(t) PROVE HoldInv'
    <2>1. \A u \in Threads : popped'[u].nodes \subseteq popped[u].nodes
      BY <1>12 DEF DropBag, SchemeInv, TypeOK, EmptyBag
    <2>2. \A u \in Threads : pc'[u] = "push" => pc[u] = "push"
      BY <1>12 DEF DropBag, SchemeInv, TypeOK
    <2> QED BY <1>12, <2>1, <2>2 DEF DropBag, SchemeInv, HoldInv
  <1>13. ASSUME NEW t \in Threads, FreeDone(t) PROVE HoldInv'
    BY <1>13 DEF FreeDone, SchemeInv, TypeOK, HoldInv, clientVars
  <1>14. ASSUME NEW t \in Threads, NEW n \in Nodes, Publish(t, n)
         PROVE  HoldInv'
    BY <1>14 DEF Publish, SchemeInv, HoldInv, reclaimVars
  <1>15. ASSUME NEW t \in Threads, NEW n \in Nodes, Acquire(t, n)
         PROVE  HoldInv'
    <2>1. /\ \A u \in Threads : n \notin full[u].nodes /\ n \notin popped[u].nodes
          /\ \A i \in DOMAIN garbage : n \notin garbage[i].bag.nodes
      BY <1>15 DEF Acquire, SchemeInv, UnlinkedInv
    <2>2. \A u \in Threads : hold'[u] \subseteq hold[u] \cup {n}
      BY <1>15 DEF Acquire, SchemeInv, TypeOK
    <2> QED BY <1>15, <2>1, <2>2 DEF Acquire, SchemeInv, HoldInv, reclaimVars
  <1>16. ASSUME NEW t \in Threads, NEW n \in Nodes, Unlink(t, n)
         PROVE  HoldInv'
    <2>1. /\ pc'[t] # "push"
          /\ \A u \in Threads \ {t} : pc'[u] = pc[u] /\ full'[u] = full[u]
      BY <1>16, AddGarbageEffect DEF Unlink, SchemeInv, Phase, PinPhase
    <2> QED BY <1>16, <2>1 DEF Unlink, SchemeInv, HoldInv
  <1>17. CASE UNCHANGED vars
    BY <1>17 DEF SchemeInv, TypeOK, HoldInv, vars
  <1>18. ASSUME NEW t \in Threads, RemoveMarker(t) PROVE HoldInv'
    <2>1. \A u \in Threads : pc'[u] = "push" => pc[u] = "push"
      BY <1>18 DEF RemoveMarker, SchemeInv, TypeOK
    <2> QED BY <1>18, <2>1 DEF RemoveMarker, SchemeInv, HoldInv, clientVars
  <1>19. ASSUME NEW t \in Threads, DropLocalBag(t) PROVE HoldInv'
    <2>1. \A u \in Threads : pc'[u] = "push" => pc[u] = "push"
      BY <1>19 DEF DropLocalBag, SchemeInv, TypeOK
    <2> QED BY <1>19, <2>1 DEF DropLocalBag, SchemeInv, HoldInv
  <1>20. ASSUME NEW t \in Threads, StartRemoval(t) PROVE HoldInv'
    <2>1. hold'[t] = {}
      BY <1>20 DEF StartRemoval, SchemeInv, TypeOK
    <2>2. \A u \in Threads \ {t} : pinAt'[u] = pinAt[u] /\ hold'[u] = hold[u]
      BY <1>20 DEF StartRemoval, SchemeInv, TypeOK
    <2>3. \A u \in Threads : pc'[u] = "push" => pc[u] = "push"
      BY <1>20 DEF StartRemoval, SchemeInv, TypeOK
    <2> QED BY <1>20, <2>1, <2>2, <2>3 DEF StartRemoval, SchemeInv, HoldInv
  <1>21. ASSUME NEW t \in Threads, NEW u \in Threads,
                ScanFreed(t, u) \/ RemoveFreed(t, u)
         PROVE  HoldInv'
    BY <1>21 DEF ScanFreed, RemoveFreed
  <1> QED
    BY <1>1, <1>2, <1>3, <1>4, <1>5, <1>6, <1>7, <1>8, <1>9, <1>10, <1>11,
       <1>12, <1>13, <1>14, <1>15, <1>16, <1>17, <1>18, <1>19, <1>20, <1>21
    DEF NextExit, Next, Reclaimer, Pinning, Advancing, Collecting, Client, Exit

(* AgeInv is preserved: the epoch of a bag is read after its last node was *)
(* unlinked.                                                               *)
LEMMA AgeStep == SchemeInv /\ [NextExit]_vars /\ ~strayed' => AgeInv'
  <1> SUFFICES ASSUME SchemeInv, [NextExit]_vars, ~strayed' PROVE AgeInv'
    OBVIOUS
  <1>1. ASSUME NEW t \in Threads, Register(t) PROVE AgeInv'
    BY <1>1 DEF Register, SchemeInv, TypeOK, AgeInv, clientVars
  <1>2. ASSUME NEW t \in Threads, ReadEpoch(t) PROVE AgeInv'
    <2>1. \A u \in Threads : pc'[u] = "push" => pc[u] = "push"
      BY <1>2 DEF ReadEpoch, SchemeInv, TypeOK
    <2> QED BY <1>2, <2>1 DEF ReadEpoch, SchemeInv, AgeInv, clientVars
  <1>3. ASSUME NEW t \in Threads, MarkPinned(t) PROVE AgeInv'
    <2>1. \A u \in Threads : pc'[u] = "push" => pc[u] = "push"
      BY <1>3 DEF MarkPinned, SchemeInv, TypeOK
    <2> QED BY <1>3, <2>1 DEF MarkPinned, SchemeInv, AgeInv, clientVars
  <1>4. ASSUME NEW t \in Threads, Unpin(t) PROVE AgeInv'
    <2>1. \A u \in Threads : pc'[u] = "push" => pc[u] = "push"
      BY <1>4 DEF Unpin, SchemeInv, TypeOK
    <2> QED BY <1>4, <2>1 DEF Unpin, SchemeInv, AgeInv, clientVars
  <1>5. ASSUME NEW t \in Threads, LoadCheckEpoch(t) PROVE AgeInv'
    <2>1. \A u \in Threads : pc'[u] = "push" => pc[u] = "push"
      BY <1>5 DEF LoadCheckEpoch, SchemeInv, TypeOK
    <2> QED BY <1>5, <2>1 DEF LoadCheckEpoch, SchemeInv, AgeInv, clientVars
  <1>6. ASSUME NEW t \in Threads, LoadHead(t) PROVE AgeInv'
    <2>1. \A u \in Threads : pc'[u] = "push" => pc[u] = "push"
      BY <1>6 DEF LoadHead, SchemeInv, TypeOK
    <2> QED BY <1>6, <2>1 DEF LoadHead, SchemeInv, AgeInv, clientVars
  <1>7. ASSUME NEW t \in Threads, NEW u \in Threads, ScanMarker(t, u)
        PROVE  AgeInv'
    <2>1. \A v \in Threads : pc'[v] = "push" => pc[v] = "push"
      <3>1. CASE pc' = [pc EXCEPT ![t] = "work"]
        BY <3>1 DEF SchemeInv, TypeOK
      <3> QED BY <1>7, <3>1 DEF ScanMarker
    <2> QED BY <1>7, <2>1 DEF ScanMarker, SchemeInv, AgeInv, clientVars
  <1>8. ASSUME NEW t \in Threads, AdvanceEpoch(t) PROVE AgeInv'
    <2>1. epoch <= epoch' /\ epoch' \in Nat
      BY <1>8 DEF AdvanceEpoch, SchemeInv, TypeOK
    <2>2. \A u \in Threads : pc'[u] = "push" => pc[u] = "push"
      <3>1. CASE pc' = [pc EXCEPT ![t] = "free"]
        BY <3>1 DEF SchemeInv, TypeOK
      <3>2. CASE pc' = [pc EXCEPT ![t] = "work"]
        BY <3>2 DEF SchemeInv, TypeOK
      <3> QED BY <1>8, <3>1, <3>2 DEF AdvanceEpoch
    <2>3. \A n \in Nodes : retiredAt[n] \in Nat
      BY DEF SchemeInv, TypeOK
    <2>4. epoch \in Nat
      BY DEF SchemeInv, TypeOK
    <2> QED BY <1>8, <2>1, <2>2, <2>3, <2>4 DEF AdvanceEpoch, SchemeInv, AgeInv, clientVars
  <1>9. ASSUME NEW t \in Threads, TagBag(t) PROVE AgeInv'
    <2>1. tag'[t] = epoch
      BY <1>9 DEF TagBag, SchemeInv, TypeOK
    <2>2. \A u \in Threads \ {t} : tag'[u] = tag[u] /\ pc'[u] = pc[u]
      BY <1>9 DEF TagBag, SchemeInv, TypeOK
    <2> QED BY <1>9, <2>1, <2>2 DEF TagBag, SchemeInv, AgeInv, clientVars
  <1>10. ASSUME NEW t \in Threads, PushBag(t) PROVE AgeInv'
    <2>1. PICK k \in Nat :
            /\ DOMAIN garbage = 1..k
            /\ DOMAIN garbage' = 1..k + 1
            /\ \A i \in 1..k : garbage'[i] = garbage[i]
            /\ garbage'[k + 1] = [epoch |-> tag[t], bag |-> full[t]]
      BY <1>10, PushEntries DEF SchemeInv
    <2>2. \A i \in DOMAIN garbage' :
            \/ i \in DOMAIN garbage /\ garbage'[i] = garbage[i]
            \/ garbage'[i].bag = full[t] /\ garbage'[i].epoch = tag[t]
      BY <2>1
    <2>3. pc[t] = "push" /\ pc'[t] # "push"
      BY <1>10 DEF PushBag, SchemeInv, TypeOK
    <2>4. \A u \in Threads \ {t} :
            tag'[u] = tag[u] /\ pc'[u] = pc[u] /\ full'[u] = full[u]
      BY <1>10 DEF PushBag, SchemeInv, TypeOK
    <2> QED BY <1>10, <2>2, <2>3, <2>4 DEF PushBag, SchemeInv, AgeInv, clientVars
  <1>11. ASSUME NEW t \in Threads, PopExpired(t) PROVE AgeInv'
    <2>1. /\ pc'[t] # "push"
          /\ \A u \in Threads \ {t} : pc'[u] = pc[u] /\ full'[u] = full[u]
      BY <1>11, AddGarbageEffect DEF PopExpired, SchemeInv, Phase, PinPhase
    <2>2. \A i \in DOMAIN garbage' :
            i + 1 \in DOMAIN garbage /\ garbage'[i] = garbage[i + 1]
      BY <1>11, PopEntries DEF SchemeInv
    <2>3. 1 \in DOMAIN garbage /\ Head(garbage) = garbage[1]
      BY <1>11, PopEntries DEF SchemeInv
    <2>4. \A n \in Nodes : n \in garbage[1].bag.nodes => retiredAt[n] + 2 <= epoch
      <3>1. \A n \in Nodes :
              n \in garbage[1].bag.nodes => retiredAt[n] <= garbage[1].epoch
        BY <2>3 DEF SchemeInv, AgeInv
      <3>2. epoch >= garbage[1].epoch + 2
        BY <1>11, HeadIsOld
      <3>3. /\ epoch \in Nat /\ garbage[1].epoch \in Nat
            /\ \A n \in Nodes : retiredAt[n] \in Nat
        BY <2>3, GarbageEntries DEF SchemeInv, TypeOK
      <3> QED BY <3>1, <3>2, <3>3
    <2>5. \A u \in Threads :
            popped'[u].nodes \in {popped[u].nodes, garbage[1].bag.nodes}
      BY <1>11, <2>3 DEF PopExpired, SchemeInv, TypeOK
    <2> QED BY <1>11, <2>1, <2>2, <2>4, <2>5
      DEF PopExpired, SchemeInv, AgeInv, clientVars
  <1>12. ASSUME NEW t \in Threads, DropBag(t) PROVE AgeInv'
    <2>1. \A u \in Threads : popped'[u].nodes \subseteq popped[u].nodes
      BY <1>12 DEF DropBag, SchemeInv, TypeOK, EmptyBag
    <2>2. \A u \in Threads : pc'[u] = "push" => pc[u] = "push"
      BY <1>12 DEF DropBag, SchemeInv, TypeOK
    <2> QED BY <1>12, <2>1, <2>2 DEF DropBag, SchemeInv, AgeInv
  <1>13. ASSUME NEW t \in Threads, FreeDone(t) PROVE AgeInv'
    <2>1. \A u \in Threads : pc'[u] = "push" => pc[u] = "push"
      BY <1>13 DEF FreeDone, SchemeInv, TypeOK
    <2> QED BY <1>13, <2>1 DEF FreeDone, SchemeInv, AgeInv, clientVars
  <1>14. ASSUME NEW t \in Threads, NEW n \in Nodes, Publish(t, n)
         PROVE  AgeInv'
    BY <1>14 DEF Publish, SchemeInv, TypeOK, AgeInv, reclaimVars
  <1>15. ASSUME NEW t \in Threads, NEW n \in Nodes, Acquire(t, n)
         PROVE  AgeInv'
    BY <1>15 DEF Acquire, SchemeInv, TypeOK, AgeInv, reclaimVars
  <1>16. ASSUME NEW t \in Threads, NEW n \in Nodes, Unlink(t, n) PROVE AgeInv'
    <2>1. /\ pc'[t] # "push"
          /\ \A u \in Threads \ {t} : pc'[u] = pc[u] /\ full'[u] = full[u]
      BY <1>16, AddGarbageEffect DEF Unlink, SchemeInv, Phase, PinPhase
    <2>2. /\ retiredAt'[n] = epoch
          /\ \A m \in Nodes \ {n} : retiredAt'[m] = retiredAt[m]
      BY <1>16 DEF Unlink, SchemeInv, TypeOK
    <2>3. /\ \A u \in Threads : n \notin full[u].nodes /\ n \notin popped[u].nodes
          /\ \A i \in DOMAIN garbage : n \notin garbage[i].bag.nodes
      BY <1>16 DEF Unlink, SchemeInv, UnlinkedInv
    <2>4. epoch \in Nat
      BY DEF SchemeInv, TypeOK
    <2> QED BY <1>16, <2>1, <2>2, <2>3, <2>4 DEF Unlink, SchemeInv, AgeInv
  <1>17. CASE UNCHANGED vars
    BY <1>17 DEF SchemeInv, TypeOK, AgeInv, vars
  <1>18. ASSUME NEW t \in Threads, RemoveMarker(t) PROVE AgeInv'
    <2>1. \A u \in Threads : pc'[u] = "push" => pc[u] = "push"
      BY <1>18 DEF RemoveMarker, SchemeInv, TypeOK
    <2> QED BY <1>18, <2>1 DEF RemoveMarker, SchemeInv, AgeInv, clientVars
  <1>19. ASSUME NEW t \in Threads, DropLocalBag(t) PROVE AgeInv'
    <2>1. \A u \in Threads : pc'[u] = "push" => pc[u] = "push"
      BY <1>19 DEF DropLocalBag, SchemeInv, TypeOK
    <2> QED BY <1>19, <2>1 DEF DropLocalBag, SchemeInv, AgeInv
  <1>20. ASSUME NEW t \in Threads, StartRemoval(t) PROVE AgeInv'
    <2>1. \A u \in Threads : pc'[u] = "push" => pc[u] = "push"
      BY <1>20 DEF StartRemoval, SchemeInv, TypeOK
    <2> QED BY <1>20, <2>1 DEF StartRemoval, SchemeInv, AgeInv
  <1>21. ASSUME NEW t \in Threads, NEW u \in Threads,
                ScanFreed(t, u) \/ RemoveFreed(t, u)
         PROVE  AgeInv'
    BY <1>21 DEF ScanFreed, RemoveFreed
  <1> QED
    BY <1>1, <1>2, <1>3, <1>4, <1>5, <1>6, <1>7, <1>8, <1>9, <1>10, <1>11,
       <1>12, <1>13, <1>14, <1>15, <1>16, <1>17, <1>18, <1>19, <1>20, <1>21
    DEF NextExit, Next, Reclaimer, Pinning, Advancing, Collecting, Client, Exit

LEMMA IndInit == Init => IInv
  <1> SUFFICES ASSUME Init PROVE IInv
    OBVIOUS
  <1>1. TypeOK
    BY TypeInit
  <1>2. PinInv /\ ScanInv /\ FreeInv /\ TagInv /\ UnlinkedInv /\ HoldInv /\ AgeInv
    BY
      DEF Init, AgeInv, PinInv, ScanInv, FreeInv, OneFrees, Freeing, TagInv,
           TagsSortedByOne, UnlinkedInv, HoldInv, InPin, PinPhase, EmptyBag
  <1> QED BY <1>1, <1>2 DEF IInv, SchemeInv

(* What has been read from freed memory is never unread. *)
LEMMA StrayedStays == [NextExit]_vars /\ ~strayed' => ~strayed
  <1> SUFFICES ASSUME [NextExit]_vars, ~strayed' PROVE ~strayed
    OBVIOUS
  <1>1. ASSUME NEW t \in Threads, Reclaimer(t) PROVE strayed' = strayed
    BY <1>1 DEF Reclaimer, Pinning, Advancing, Collecting, Register, ReadEpoch,
       MarkPinned, Unpin, LoadCheckEpoch, LoadHead, ScanMarker, AdvanceEpoch,
       TagBag, PushBag, PopExpired, DropBag, FreeDone
  <1>2. ASSUME NEW t \in Threads, Client(t) PROVE strayed' = strayed
    BY <1>2 DEF Client, Publish, Acquire, Unlink, reclaimVars
  <1>3. ASSUME NEW t \in Threads, Exit(t) PROVE ~strayed
    BY <1>3 DEF Exit, StartRemoval, RemoveMarker, DropLocalBag, ScanFreed,
       RemoveFreed
  <1>4. CASE UNCHANGED vars
    BY <1>4 DEF vars
  <1> QED BY <1>1, <1>2, <1>3, <1>4 DEF NextExit, Next

LEMMA SchemeInvStep ==
  SchemeInv /\ [NextExit]_vars /\ ~strayed' => SchemeInv'
  BY TypeStep, PinStep, ScanStep, FreeStep, TagStep, UnlinkedStep, HoldStep,
     AgeStep
  DEF SchemeInv

LEMMA IndStep == IInv /\ [NextExit]_vars => IInv'
  BY TypeStep, SchemeInvStep, StrayedStays DEF IInv

(* The invariant the safety theorems rest on.  Threads may end; as soon as *)
(* a walk reads a marker that was freed, which LocalState::drop does not   *)
(* exclude, only the types are left of it (src/ebr/mod.rs:368-377).        *)
THEOREM Inductive == SpecExit => []IInv
  BY IndInit, IndStep, PTL DEF SpecExit

(* As long as the threads live nothing of that kind is read.               *)
LEMMA NobodyStrays ==
  /\ Spec => SpecExit
  /\ Spec => []SchemeInv
  <1>1. [Next]_vars => [NextExit]_vars
    BY DEF NextExit
  <1>2. Init => ~strayed
    BY DEF Init
  <1>3. ~strayed /\ [Next]_vars => ~strayed'
    <2>1. ASSUME NEW t \in Threads, Reclaimer(t) PROVE strayed' = strayed
      BY <2>1 DEF Reclaimer, Pinning, Advancing, Collecting, Register,
         ReadEpoch, MarkPinned, Unpin, LoadCheckEpoch, LoadHead, ScanMarker,
         AdvanceEpoch, TagBag, PushBag, PopExpired, DropBag, FreeDone
    <2>2. ASSUME NEW t \in Threads, Client(t) PROVE strayed' = strayed
      BY <2>2 DEF Client, Publish, Acquire, Unlink, reclaimVars
    <2> QED BY <2>1, <2>2 DEF Next, vars
  <1>4. IInv /\ ~strayed => SchemeInv
    BY DEF IInv
  <1>5. Spec => SpecExit
    BY <1>1, PTL DEF Spec, SpecExit
  <1>6. Spec => []~strayed
    BY <1>2, <1>3, PTL DEF Spec
  <1> QED BY <1>4, <1>5, <1>6, Inductive, PTL

(* The state of the reclamation scheme has the declared types in every     *)
(* reachable state (src/ebr/mod.rs).                                       *)
THEOREM TypeCorrect == SpecExit => []TypeOK
  BY Inductive, PTL DEF IInv

(* A pinned thread keeps the epoch within one of its value at pinning.  A  *)
(* thread that ends, in a panic inside pin too, does not change that, if   *)
(* no walk has read a freed marker; while threads live, none does          *)
(* (can_increment_epoch, src/ebr/mod.rs:231-244).                          *)
THEOREM PinBound == /\ SpecExit => []PinHoldsEpoch
                    /\ Spec => []EpochIsHeld
  <1>1. SchemeInv => EpochIsHeld
    BY DEF SchemeInv, PinInv, EpochIsHeld
  <1>2. IInv => PinHoldsEpoch
    BY <1>1 DEF IInv, PinHoldsEpoch
  <1> QED BY <1>1, <1>2, Inductive, NobodyStrays, PTL

(* The epoch gives mutual exclusion to free_garbage until a walk has read  *)
(* a freed marker, and always while threads live (increment_epoch,         *)
(* src/ebr/mod.rs:284-304).                                                *)
THEOREM Exclusive == /\ SpecExit => []FreeIsExclusive
                     /\ Spec => []OneFrees
  <1>1. SchemeInv => OneFrees
    BY DEF SchemeInv, FreeInv
  <1>2. IInv => FreeIsExclusive
    BY <1>1 DEF IInv, FreeIsExclusive
  <1> QED BY <1>1, <1>2, Inductive, NobodyStrays, PTL

(* The bags in the global queue are in order of epoch, up to one, until a  *)
(* walk has read a freed marker, and always while threads live             *)
(* (add_garbage_bag, src/ebr/mod.rs:248-251).                              *)
THEOREM NearlySorted == /\ SpecExit => []TagsNearlySorted
                        /\ Spec => []TagsSortedByOne
  <1>1. SchemeInv => TagsSortedByOne
    BY DEF SchemeInv, TagInv
  <1>2. IInv => TagsNearlySorted
    BY <1>1 DEF IInv, TagsNearlySorted
  <1> QED BY <1>1, <1>2, Inductive, NobodyStrays, PTL

(* free_garbage never pops a bag with a node somebody holds: until a walk  *)
(* has read a freed marker, and always while threads live (free_garbage,   *)
(* can_increment_epoch and LocalState::drop, src/ebr/mod.rs).              *)
THEOREM FreeIsSafe == /\ SpecExit => []FreeGarbageIsSafe
                      /\ Spec => []NothingHeldIsPopped
  <1>1. SchemeInv => NothingHeldIsPopped
    BY DEF SchemeInv, HoldInv, NothingHeldIsPopped
  <1>2. IInv => FreeGarbageIsSafe
    BY <1>1 DEF IInv, FreeGarbageIsSafe
  <1> QED BY <1>1, <1>2, Inductive, NobodyStrays, PTL

(* As long as nobody ends, what is held is not freed. *)
HeldInv ==
  \A u \in Threads : \A n \in hold[u] : status[n] \in {"live", "retired"}

LEMMA HeldStep == SchemeInv /\ HeldInv /\ [Next]_vars => HeldInv'
  <1> SUFFICES ASSUME SchemeInv, HeldInv, [Next]_vars PROVE HeldInv'
    OBVIOUS
  <1>1. ASSUME NEW t \in Threads, Reclaimer(t), UNCHANGED clientVars
        PROVE  HeldInv'
    BY <1>1 DEF HeldInv, clientVars
  <1>2. ASSUME NEW t \in Threads, Unpin(t) PROVE HeldInv'
    <2>1. \A u \in Threads : hold'[u] \subseteq hold[u]
      BY <1>2 DEF Unpin, SchemeInv, TypeOK
    <2> QED BY <1>2, <2>1 DEF Unpin, HeldInv
  <1>3. ASSUME NEW t \in Threads, DropBag(t) PROVE HeldInv'
    <2>1. \A u \in Threads : \A n \in hold[u] : status'[n] = status[n]
      BY <1>3 DEF DropBag, SchemeInv, TypeOK, HoldInv
    <2> QED BY <1>3, <2>1 DEF DropBag, HeldInv
  <1>4. ASSUME NEW t \in Threads, NEW n \in Nodes, Publish(t, n)
        PROVE  HeldInv'
    <2>1. \A u \in Threads : \A m \in hold[u] : status'[m] = status[m]
      BY <1>4 DEF Publish, SchemeInv, TypeOK, HeldInv
    <2> QED BY <1>4, <2>1 DEF Publish, HeldInv
  <1>5. ASSUME NEW t \in Threads, NEW n \in Nodes, Acquire(t, n)
        PROVE  HeldInv'
    <2>1. \A u \in Threads : hold'[u] \subseteq hold[u] \cup {n}
      BY <1>5 DEF Acquire, SchemeInv, TypeOK
    <2> QED BY <1>5, <2>1 DEF Acquire, HeldInv
  <1>6. ASSUME NEW t \in Threads, NEW n \in Nodes, Unlink(t, n)
        PROVE  HeldInv'
    <2>1. \A m \in Nodes : status'[m] \in {status[m], "retired"}
      BY <1>6 DEF Unlink, SchemeInv, TypeOK
    <2>2. \A u \in Threads : hold[u] \subseteq Nodes
      BY DEF SchemeInv, TypeOK
    <2> QED BY <1>6, <2>1, <2>2 DEF Unlink, HeldInv
  <1>7. CASE UNCHANGED vars
    BY <1>7 DEF vars, HeldInv
  <1>8. ASSUME NEW t \in Threads, Reclaimer(t)
        PROVE  Unpin(t) \/ DropBag(t) \/ UNCHANGED clientVars
    <2>1. Advancing(t) => UNCHANGED clientVars
      BY DEF Advancing, LoadCheckEpoch, LoadHead, ScanMarker, AdvanceEpoch
    <2>2. Pinning(t) => Unpin(t) \/ UNCHANGED clientVars
      BY DEF Pinning, Register, ReadEpoch, MarkPinned
    <2>3. Collecting(t) => DropBag(t) \/ UNCHANGED clientVars
      BY DEF Collecting, TagBag, PushBag, PopExpired, FreeDone
    <2> QED BY <1>8, <2>1, <2>2, <2>3 DEF Reclaimer
  <1> QED
    BY <1>1, <1>2, <1>3, <1>4, <1>5, <1>6, <1>7, <1>8 DEF Next, Client

(* No thread inside `pin` ever holds a node that free_garbage has freed,   *)
(* for any number of threads, any bag size and any pin interval            *)
(* (free_garbage and can_increment_epoch, src/ebr/mod.rs).                 *)
THEOREM Safe == Spec => []NoUseAfterFree
  <1>1. Init => HeldInv
    BY DEF Init, HeldInv
  <1>2. HeldInv => NoUseAfterFree
    BY DEF HeldInv, NoUseAfterFree
  <1>3. Spec => []HeldInv
    BY <1>1, HeldStep, NobodyStrays, PTL DEF Spec
  <1> QED BY <1>2, <1>3, PTL
-----------------------------------------------------------------------------
(* Neither is a piece of garbage lost, nor is it in two bags.              *)

(* A bag with no slot taken holds nothing, and the bags on the way to and  *)
(* from the global queue are only filled while they are on the way.        *)
BagInv ==
  /\ \A t \in Threads :
       /\ pc[t] \notin {"tag", "push"} => full[t].nodes = {}
       /\ pc[t] \notin {"tag", "push", "drop"} => popped[t].nodes = {}
       /\ \A b \in {bag[t], full[t], popped[t]} : b.index = 0 => b.nodes = {}
  /\ \A i \in DOMAIN garbage :
       garbage[i].bag.index = 0 => garbage[i].bag.nodes = {}

InBag(n, b) == n \in b.nodes

(* No node is in two of the bags of the threads. *)
ThreadBags(n) ==
  \A t, u \in Threads :
    /\ InBag(n, bag[t]) /\ InBag(n, bag[u]) => t = u
    /\ InBag(n, full[t]) /\ InBag(n, full[u]) => t = u
    /\ InBag(n, popped[t]) /\ InBag(n, popped[u]) => t = u
    /\ ~(InBag(n, bag[t]) /\ InBag(n, full[u]))
    /\ ~(InBag(n, bag[t]) /\ InBag(n, popped[u]))
    /\ ~(InBag(n, full[t]) /\ InBag(n, popped[u]))

(* A node in the global queue is there once and with no thread. *)
QueueBags(n) ==
  \A i \in DOMAIN garbage : InBag(n, garbage[i].bag) =>
    /\ \A j \in DOMAIN garbage : InBag(n, garbage[j].bag) => i = j
    /\ \A t \in Threads : /\ ~InBag(n, bag[t])
                         /\ ~InBag(n, full[t])
                         /\ ~InBag(n, popped[t])

(* The nodes in bags. *)
Bagged(n) ==
  \/ \E t \in Threads : \/ InBag(n, bag[t])
                        \/ InBag(n, full[t])
                        \/ InBag(n, popped[t])
  \/ \E i \in DOMAIN garbage : InBag(n, garbage[i].bag)

OneBagInv ==
  \A n \in Nodes : /\ ThreadBags(n)
                   /\ QueueBags(n)
                   /\ status[n] = "retired" <=> Bagged(n)

ConserveInv == BagInv /\ OneBagInv
-----------------------------------------------------------------------------
(* BagInv is preserved. *)
LEMMA BagStep == IInv /\ ConserveInv /\ [NextExit]_vars => BagInv'
  <1> SUFFICES ASSUME IInv, ConserveInv, [NextExit]_vars PROVE BagInv'
    OBVIOUS
  <1>1. ASSUME NEW t \in Threads, Register(t) PROVE BagInv'
    BY <1>1 DEF Register, IInv, TypeOK, ConserveInv, BagInv, clientVars
  <1>2. ASSUME NEW t \in Threads, ReadEpoch(t) PROVE BagInv'
    <2>1. \A u \in Threads :
            /\ pc'[u] \in {"tag", "push", "drop"} => pc'[u] = pc[u]
            /\ pc[u] \in {"tag", "push", "drop"} => pc'[u] = pc[u]
      BY <1>2 DEF ReadEpoch, IInv, TypeOK
    <2> QED BY <1>2, <2>1 DEF ReadEpoch, ConserveInv, BagInv, clientVars
  <1>3. ASSUME NEW t \in Threads, MarkPinned(t) PROVE BagInv'
    <2>1. \A u \in Threads :
            /\ pc'[u] \in {"tag", "push", "drop"} => pc'[u] = pc[u]
            /\ pc[u] \in {"tag", "push", "drop"} => pc'[u] = pc[u]
      BY <1>3 DEF MarkPinned, IInv, TypeOK
    <2> QED BY <1>3, <2>1 DEF MarkPinned, ConserveInv, BagInv, clientVars
  <1>4. ASSUME NEW t \in Threads, Unpin(t) PROVE BagInv'
    <2>1. \A u \in Threads :
            /\ pc'[u] \in {"tag", "push", "drop"} => pc'[u] = pc[u]
            /\ pc[u] \in {"tag", "push", "drop"} => pc'[u] = pc[u]
      BY <1>4 DEF Unpin, IInv, TypeOK
    <2> QED BY <1>4, <2>1 DEF Unpin, ConserveInv, BagInv, clientVars
  <1>5. ASSUME NEW t \in Threads, LoadCheckEpoch(t) PROVE BagInv'
    <2>1. \A u \in Threads :
            /\ pc'[u] \in {"tag", "push", "drop"} => pc'[u] = pc[u]
            /\ pc[u] \in {"tag", "push", "drop"} => pc'[u] = pc[u]
      BY <1>5 DEF LoadCheckEpoch, IInv, TypeOK
    <2> QED BY <1>5, <2>1 DEF LoadCheckEpoch, ConserveInv, BagInv, clientVars
  <1>6. ASSUME NEW t \in Threads, LoadHead(t) PROVE BagInv'
    <2>1. \A u \in Threads :
            /\ pc'[u] \in {"tag", "push", "drop"} => pc'[u] = pc[u]
            /\ pc[u] \in {"tag", "push", "drop"} => pc'[u] = pc[u]
      BY <1>6 DEF LoadHead, IInv, TypeOK
    <2> QED BY <1>6, <2>1 DEF LoadHead, ConserveInv, BagInv, clientVars
  <1>7. ASSUME NEW t \in Threads, NEW u \in Threads, ScanMarker(t, u)
        PROVE  BagInv'
    <2>1. \A v \in Threads :
            /\ pc'[v] \in {"tag", "push", "drop"} => pc'[v] = pc[v]
            /\ pc[v] \in {"tag", "push", "drop"} => pc'[v] = pc[v]
      <3>1. CASE pc' = [pc EXCEPT ![t] = "work"]
        BY <1>7, <3>1 DEF ScanMarker, IInv, TypeOK
      <3>2. CASE pc' = pc
        BY <1>7, <3>2 DEF ScanMarker, IInv, TypeOK
      <3> QED BY <1>7, <3>1, <3>2 DEF ScanMarker
    <2> QED BY <1>7, <2>1 DEF ScanMarker, ConserveInv, BagInv, clientVars
  <1>8. ASSUME NEW t \in Threads, AdvanceEpoch(t) PROVE BagInv'
    <2>1. \A v \in Threads :
            /\ pc'[v] \in {"tag", "push", "drop"} => pc'[v] = pc[v]
            /\ pc[v] \in {"tag", "push", "drop"} => pc'[v] = pc[v]
      <3>1. CASE pc' = [pc EXCEPT ![t] = "work"]
        BY <1>8, <3>1 DEF AdvanceEpoch, IInv, TypeOK
      <3>2. CASE pc' = [pc EXCEPT ![t] = "free"]
        BY <1>8, <3>2 DEF AdvanceEpoch, IInv, TypeOK
      <3> QED BY <1>8, <3>1, <3>2 DEF AdvanceEpoch
    <2> QED BY <1>8, <2>1 DEF AdvanceEpoch, ConserveInv, BagInv, clientVars
  <1>9. ASSUME NEW t \in Threads, TagBag(t) PROVE BagInv'
    <2>1. /\ pc[t] = "tag" /\ pc'[t] = "push"
          /\ \A u \in Threads \ {t} : pc'[u] = pc[u]
      BY <1>9 DEF TagBag, IInv, TypeOK
    <2> QED BY <1>9, <2>1 DEF TagBag, ConserveInv, BagInv, clientVars
  <1>10. ASSUME NEW t \in Threads, PushBag(t) PROVE BagInv'
    <2>1. PICK k \in Nat :
            /\ DOMAIN garbage = 1..k
            /\ DOMAIN garbage' = 1..k + 1
            /\ \A i \in 1..k : garbage'[i] = garbage[i]
            /\ garbage'[k + 1] = [epoch |-> tag[t], bag |-> full[t]]
      BY <1>10, PushEntries DEF IInv
    <2>2. \A i \in DOMAIN garbage' :
            \/ i \in DOMAIN garbage /\ garbage'[i] = garbage[i]
            \/ garbage'[i].bag = full[t]
      BY <2>1
    <2>3. /\ full'[t].nodes = {}
          /\ \A u \in Threads \ {t} : pc'[u] = pc[u] /\ full'[u] = full[u]
      BY <1>10 DEF PushBag, IInv, TypeOK, EmptyBag
    <2>4. /\ pc[t] = "push"
          /\ pc'[t] = "drop" \/ (pc'[t] = "work" /\ popped[t].index = 0)
      <3>1. popped[t].index \in Nat
        BY DEF IInv, TypeOK, Bag
      <3> QED BY <1>10, <3>1 DEF PushBag, IInv, TypeOK
    <2>5. \A i \in DOMAIN garbage' :
            garbage'[i].bag.index = 0 => garbage'[i].bag.nodes = {}
      BY <2>2 DEF ConserveInv, BagInv
    <2> QED BY <1>10, <2>3, <2>4, <2>5 DEF PushBag, ConserveInv, BagInv, clientVars
  <1>11. ASSUME NEW t \in Threads, PopExpired(t) PROVE BagInv'
    <2>1. /\ bag[t].index \in Nat
          /\ bag[t].index = 0 => bag[t].nodes = {}
      BY DEF IInv, TypeOK, ConserveInv, BagInv, Bag
    <2>2. /\ bag'[t].index # 0
          /\ full'[t].index = 0 => full'[t].nodes = {}
          /\ pc'[t] = "tag" \/ (pc'[t] = "drop" /\ full'[t].nodes = {})
      <3>1. pc[t] = "free"
        BY <1>11 DEF PopExpired
      <3>2. full[t].nodes = {}
        BY <3>1 DEF ConserveInv, BagInv
      <3>3. \/ full'[t] = bag[t] /\ bag'[t].index = 1 /\ pc'[t] = "tag"
            \/ /\ full'[t] = full[t]
               /\ bag'[t].index = bag[t].index + 1
               /\ pc'[t] = "drop"
        <4>1. AddGarbage(t, {}, "drop") /\ TypeOK /\ "drop" \in Phase
          BY <1>11 DEF PopExpired, IInv, Phase, PinPhase
        <4> QED BY <4>1, AddGarbageMoves
      <3> QED BY <2>1, <3>1, <3>2, <3>3
    <2>3. \A u \in Threads \ {t} :
            /\ pc'[u] = pc[u] /\ full'[u] = full[u] /\ bag'[u] = bag[u]
      BY <1>11, AddGarbageEffect DEF PopExpired, IInv, Phase, PinPhase
    <2>4. \A i \in DOMAIN garbage' :
            i + 1 \in DOMAIN garbage /\ garbage'[i] = garbage[i + 1]
      BY <1>11, PopEntries DEF IInv
    <2>5. /\ 1 \in DOMAIN garbage
          /\ popped'[t] = garbage[1].bag
          /\ \A u \in Threads \ {t} : popped'[u] = popped[u]
      <3>1. 1 \in DOMAIN garbage /\ Head(garbage) = garbage[1]
        BY <1>11, PopEntries DEF IInv
      <3> QED BY <1>11, <3>1 DEF PopExpired, IInv, TypeOK
    <2> QED BY <2>2, <2>3, <2>4, <2>5 DEF ConserveInv, BagInv
  <1>12. ASSUME NEW t \in Threads, DropBag(t) PROVE BagInv'
    <2>1. /\ popped'[t] = EmptyBag
          /\ \A u \in Threads \ {t} : pc'[u] = pc[u] /\ popped'[u] = popped[u]
          /\ pc[t] = "drop" /\ pc'[t] = "free"
      BY <1>12 DEF DropBag, IInv, TypeOK
    <2> QED BY <1>12, <2>1 DEF DropBag, ConserveInv, BagInv, EmptyBag
  <1>13. ASSUME NEW t \in Threads, FreeDone(t) PROVE BagInv'
    <2>1. \A u \in Threads :
            /\ pc'[u] \in {"tag", "push", "drop"} => pc'[u] = pc[u]
            /\ pc[u] \in {"tag", "push", "drop"} => pc'[u] = pc[u]
      BY <1>13 DEF FreeDone, IInv, TypeOK
    <2> QED BY <1>13, <2>1 DEF FreeDone, ConserveInv, BagInv, clientVars
  <1>14. ASSUME NEW t \in Threads, NEW n \in Nodes, Publish(t, n)
         PROVE  BagInv'
    BY <1>14 DEF Publish, IInv, TypeOK, ConserveInv, BagInv, reclaimVars
  <1>15. ASSUME NEW t \in Threads, NEW n \in Nodes, Acquire(t, n)
         PROVE  BagInv'
    BY <1>15 DEF Acquire, IInv, TypeOK, ConserveInv, BagInv, reclaimVars
  <1>16. ASSUME NEW t \in Threads, NEW n \in Nodes, Unlink(t, n) PROVE BagInv'
    <2>1. /\ bag[t].index \in Nat
          /\ bag[t].index = 0 => bag[t].nodes = {}
      BY DEF IInv, TypeOK, ConserveInv, BagInv, Bag
    <2>2. /\ bag'[t].index # 0
          /\ full'[t].index = 0 => full'[t].nodes = {}
          /\ pc[t] = "work"
          /\ pc'[t] = "tag" \/ (pc'[t] = "work" /\ full'[t].nodes = {})
      <3>1. pc[t] = "work"
        BY <1>16 DEF Unlink
      <3>2. full[t].nodes = {}
        BY <3>1 DEF ConserveInv, BagInv
      <3>3. \/ full'[t] = bag[t] /\ bag'[t].index = 1 /\ pc'[t] = "tag"
            \/ /\ full'[t] = full[t]
               /\ bag'[t].index = bag[t].index + 1
               /\ pc'[t] = "work"
        <4>1. AddGarbage(t, {n}, "work") /\ TypeOK /\ "work" \in Phase
          BY <1>16 DEF Unlink, IInv, Phase, PinPhase
        <4> QED BY <4>1, AddGarbageMoves
      <3> QED BY <2>1, <3>1, <3>2, <3>3
    <2>3. \A u \in Threads \ {t} :
            /\ pc'[u] = pc[u] /\ full'[u] = full[u] /\ bag'[u] = bag[u]
      BY <1>16, AddGarbageEffect DEF Unlink, IInv, Phase, PinPhase
    <2> QED BY <1>16, <2>2, <2>3 DEF Unlink, ConserveInv, BagInv
  <1>17. CASE UNCHANGED vars
    BY <1>17 DEF IInv, TypeOK, ConserveInv, BagInv, vars
  <1>18. ASSUME NEW t \in Threads, RemoveMarker(t) PROVE BagInv'
    <2>1. \A u \in Threads :
            /\ pc'[u] \in {"tag", "push", "drop"} => pc'[u] = pc[u]
            /\ pc[u] \in {"tag", "push", "drop"} => pc'[u] = pc[u]
      BY <1>18 DEF RemoveMarker, IInv, TypeOK
    <2> QED BY <1>18, <2>1 DEF RemoveMarker, ConserveInv, BagInv, clientVars
  <1>19. ASSUME NEW t \in Threads, DropLocalBag(t) PROVE BagInv'
    <2>1. /\ bag'[t].nodes = {}
          /\ \A u \in Threads \ {t} : bag'[u] = bag[u]
          /\ \A u \in Threads :
               /\ pc'[u] \in {"tag", "push", "drop"} => pc'[u] = pc[u]
               /\ pc[u] \in {"tag", "push", "drop"} => pc'[u] = pc[u]
      BY <1>19 DEF DropLocalBag, IInv, TypeOK, EmptyBag
    <2> QED BY <1>19, <2>1 DEF DropLocalBag, ConserveInv, BagInv
  <1>20. ASSUME NEW t \in Threads, StartRemoval(t) PROVE BagInv'
    <2>1. \A u \in Threads :
            /\ pc'[u] \in {"tag", "push", "drop"} => pc'[u] = pc[u]
            /\ pc[u] \in {"tag", "push", "drop"} => pc'[u] = pc[u]
      BY <1>20 DEF StartRemoval, IInv, TypeOK
    <2> QED BY <1>20, <2>1 DEF StartRemoval, ConserveInv, BagInv
  <1>21. ASSUME NEW t \in Threads, NEW u \in Threads, ScanFreed(t, u)
         PROVE  BagInv'
    <2>1. \A v \in Threads :
            /\ pc'[v] \in {"tag", "push", "drop"} => pc'[v] = pc[v]
            /\ pc[v] \in {"tag", "push", "drop"} => pc'[v] = pc[v]
      BY <1>21 DEF ScanFreed, IInv, TypeOK
    <2> QED BY <1>21, <2>1 DEF ScanFreed, ConserveInv, BagInv, clientVars
  <1>22. ASSUME NEW t \in Threads, NEW u \in Threads, RemoveFreed(t, u)
         PROVE  BagInv'
    <2>1. \A v \in Threads :
            /\ pc'[v] \in {"tag", "push", "drop"} => pc'[v] = pc[v]
            /\ pc[v] \in {"tag", "push", "drop"} => pc'[v] = pc[v]
      BY <1>22 DEF RemoveFreed, IInv, TypeOK
    <2> QED BY <1>22, <2>1 DEF RemoveFreed, ConserveInv, BagInv, clientVars
  <1> QED
    BY <1>1, <1>2, <1>3, <1>4, <1>5, <1>6, <1>7, <1>8, <1>9, <1>10, <1>11,
       <1>12, <1>13, <1>14, <1>15, <1>16, <1>17, <1>18, <1>19, <1>20, <1>21, <1>22
    DEF NextExit, Next, Reclaimer, Pinning, Advancing, Collecting, Client, Exit
LEMMA SameBags ==
  ASSUME OneBagInv, UNCHANGED <<bag, full, popped, garbage>>,
         \A n \in Nodes : status'[n] = "retired" <=> status[n] = "retired"
  PROVE  OneBagInv'
  BY DEF OneBagInv, ThreadBags, QueueBags, Bagged, InBag

(* No node gets into a second bag, and none gets lost, when bags move. *)
LEMMA OneBagStep == IInv /\ ConserveInv /\ [NextExit]_vars => OneBagInv'
  <1> SUFFICES ASSUME IInv, ConserveInv, [NextExit]_vars PROVE OneBagInv'
    OBVIOUS
  <1>1. ASSUME NEW t \in Threads, PushBag(t) PROVE OneBagInv'
    <2>1. PICK k \in Nat :
            /\ DOMAIN garbage = 1..k
            /\ DOMAIN garbage' = 1..k + 1
            /\ \A i \in 1..k : garbage'[i] = garbage[i]
            /\ garbage'[k + 1] = [epoch |-> tag[t], bag |-> full[t]]
      BY <1>1, PushEntries DEF IInv
    <2>2. /\ full'[t].nodes = {}
          /\ \A u \in Threads \ {t} : full'[u] = full[u]
          /\ UNCHANGED <<bag, popped, status>>
      BY <1>1 DEF PushBag, IInv, TypeOK, EmptyBag, clientVars
    <2>3. /\ k + 1 \in DOMAIN garbage' /\ garbage'[k + 1].bag = full[t]
          /\ \A i \in DOMAIN garbage :
               i # k + 1 /\ i \in DOMAIN garbage' /\ garbage'[i] = garbage[i]
          /\ \A i \in DOMAIN garbage' : i = k + 1 \/ i \in DOMAIN garbage
      BY <2>1
    <2> SUFFICES ASSUME NEW n \in Nodes
                 PROVE  /\ ThreadBags(n)' /\ QueueBags(n)'
                        /\ status'[n] = "retired" <=> Bagged(n)'
      BY DEF OneBagInv
    <2>4. ThreadBags(n) /\ QueueBags(n) /\ (status[n] = "retired" <=> Bagged(n))
      BY DEF ConserveInv, OneBagInv
    <2>5. ThreadBags(n)'
      BY <2>2, <2>4 DEF ThreadBags, InBag
    <2>6. QueueBags(n)'
      BY <2>2, <2>3, <2>4 DEF ThreadBags, QueueBags, InBag
    <2>7. Bagged(n)' <=> Bagged(n)
      BY <2>2, <2>3 DEF Bagged, InBag
    <2> QED BY <2>2, <2>4, <2>5, <2>6, <2>7
  <1>2. ASSUME NEW t \in Threads, PopExpired(t) PROVE OneBagInv'
    <2>1. PICK k \in Nat :
            /\ DOMAIN garbage = 1..k /\ DOMAIN garbage' = 1..k - 1 /\ k > 0
            /\ \A i \in 1..k - 1 : garbage'[i] = garbage[i + 1]
            /\ Head(garbage) = garbage[1]
      BY <1>2, PopEntries DEF IInv
    <2>2. /\ 1 \in DOMAIN garbage
          /\ \A i \in DOMAIN garbage' :
               i + 1 # 1 /\ i + 1 \in DOMAIN garbage /\ garbage'[i] = garbage[i + 1]
          /\ \A i \in DOMAIN garbage :
               i = 1 \/ (i - 1 \in DOMAIN garbage' /\ garbage'[i - 1] = garbage[i])
          /\ \A i, j \in DOMAIN garbage' : i + 1 = j + 1 => i = j
      BY <2>1
    <2>3. /\ popped'[t] = garbage[1].bag
          /\ \A u \in Threads \ {t} : popped'[u] = popped[u]
          /\ UNCHANGED status
      BY <1>2, <2>1 DEF PopExpired, IInv, TypeOK, clientVars
    <2>4. popped[t].nodes = {} /\ full[t].nodes = {}
      BY <1>2 DEF PopExpired, ConserveInv, BagInv
    <2>5. \A u \in Threads \ {t} : full'[u] = full[u] /\ bag'[u] = bag[u]
      BY <1>2, AddGarbageEffect DEF PopExpired, IInv, Phase, PinPhase
    <2>6. \/ full'[t].nodes = bag[t].nodes /\ bag'[t].nodes = {}
          \/ full'[t].nodes = {} /\ bag'[t].nodes = bag[t].nodes
      <3>1. AddGarbage(t, {}, "drop") /\ TypeOK /\ "drop" \in Phase
        BY <1>2 DEF PopExpired, IInv, Phase, PinPhase
      <3>2. bag[t].nodes \cup {} = bag[t].nodes
        OBVIOUS
      <3>3. {} \in SUBSET Nodes
        OBVIOUS
      <3>4. \/ full'[t] = bag[t] /\ bag'[t].nodes = {}
            \/ full'[t] = full[t] /\ bag'[t].nodes = bag[t].nodes \cup {}
        BY <3>1, <3>3, AddGarbageMoves
      <3> QED BY <2>4, <3>2, <3>4
    <2> SUFFICES ASSUME NEW n \in Nodes
                 PROVE  /\ ThreadBags(n)' /\ QueueBags(n)'
                        /\ status'[n] = "retired" <=> Bagged(n)'
      BY DEF OneBagInv
    <2>7. ThreadBags(n) /\ QueueBags(n) /\ (status[n] = "retired" <=> Bagged(n))
      BY DEF ConserveInv, OneBagInv
    <2>8. ThreadBags(n)'
      BY <2>2, <2>3, <2>4, <2>5, <2>6, <2>7 DEF ThreadBags, QueueBags, InBag
    <2>9. QueueBags(n)'
      BY <2>2, <2>3, <2>4, <2>5, <2>6, <2>7 DEF QueueBags, InBag
    <2>10. Bagged(n)' <=> Bagged(n)
      BY <2>2, <2>3, <2>4, <2>5, <2>6 DEF Bagged, InBag
    <2> QED BY <2>3, <2>7, <2>8, <2>9, <2>10
  <1>3. ASSUME NEW t \in Threads, DropBag(t) PROVE OneBagInv'
    <2>1. /\ popped'[t].nodes = {}
          /\ \A u \in Threads \ {t} : popped'[u] = popped[u]
          /\ \A n \in Nodes :
               status'[n] = IF n \in popped[t].nodes THEN "freed" ELSE status[n]
          /\ UNCHANGED <<bag, full, garbage>>
      BY <1>3 DEF DropBag, IInv, TypeOK, EmptyBag
    <2> SUFFICES ASSUME NEW n \in Nodes
                 PROVE  /\ ThreadBags(n)' /\ QueueBags(n)'
                        /\ status'[n] = "retired" <=> Bagged(n)'
      BY DEF OneBagInv
    <2>2. ThreadBags(n) /\ QueueBags(n) /\ (status[n] = "retired" <=> Bagged(n))
      BY DEF ConserveInv, OneBagInv
    <2>3. ThreadBags(n)' /\ QueueBags(n)'
      BY <2>1, <2>2 DEF ThreadBags, QueueBags, Bagged, InBag
    <2>4. CASE n \in popped[t].nodes
      BY <2>1, <2>2, <2>4 DEF ThreadBags, QueueBags, Bagged, InBag
    <2>5. CASE n \notin popped[t].nodes
      BY <2>1, <2>2, <2>3, <2>5 DEF Bagged, InBag
    <2> QED BY <2>3, <2>4, <2>5
  <1>4. ASSUME NEW t \in Threads, NEW n \in Nodes, Unlink(t, n)
        PROVE  OneBagInv'
    <2>1. /\ status[n] = "live" /\ status'[n] = "retired"
          /\ \A m \in Nodes \ {n} : status'[m] = status[m]
          /\ UNCHANGED <<popped, garbage>>
      BY <1>4 DEF Unlink, IInv, TypeOK
    <2>2. \A u \in Threads \ {t} : full'[u] = full[u] /\ bag'[u] = bag[u]
      BY <1>4, AddGarbageEffect DEF Unlink, IInv, Phase, PinPhase
    <2>3. \/ full'[t].nodes = bag[t].nodes /\ bag'[t].nodes = {n}
          \/ full'[t].nodes = {} /\ bag'[t].nodes = bag[t].nodes \cup {n}
      <3>1. AddGarbage(t, {n}, "work") /\ TypeOK /\ "work" \in Phase
        BY <1>4 DEF Unlink, IInv, Phase, PinPhase
      <3>2. full[t].nodes = {}
        BY <1>4 DEF Unlink, ConserveInv, BagInv
      <3>3. \/ full'[t] = bag[t] /\ bag'[t].nodes = {n}
            \/ full'[t] = full[t] /\ bag'[t].nodes = bag[t].nodes \cup {n}
        BY <3>1, AddGarbageMoves
      <3> QED BY <3>2, <3>3
    <2>4. full[t].nodes = {}
      BY <1>4 DEF Unlink, ConserveInv, BagInv
    <2> SUFFICES ASSUME NEW m \in Nodes
                 PROVE  /\ ThreadBags(m)' /\ QueueBags(m)'
                        /\ status'[m] = "retired" <=> Bagged(m)'
      BY DEF OneBagInv
    <2>5. ThreadBags(m) /\ QueueBags(m) /\ (status[m] = "retired" <=> Bagged(m))
      BY DEF ConserveInv, OneBagInv
    <2>6. CASE m = n
      BY <2>1, <2>2, <2>3, <2>4, <2>5, <2>6
        DEF ThreadBags, QueueBags, Bagged, InBag
    <2>7. CASE m # n
      <3>1. ThreadBags(m)' /\ QueueBags(m)'
        BY <2>1, <2>2, <2>3, <2>4, <2>5, <2>7 DEF ThreadBags, QueueBags, InBag
      <3>2. Bagged(m)' <=> Bagged(m)
        BY <2>1, <2>2, <2>3, <2>4, <2>7 DEF Bagged, InBag
      <3> QED BY <2>1, <2>5, <2>7, <3>1, <3>2
    <2> QED BY <2>6, <2>7
  <1>5. ASSUME NEW t \in Threads, NEW n \in Nodes, Publish(t, n)
        PROVE  OneBagInv'
    <2>1. \A m \in Nodes : status'[m] = "retired" <=> status[m] = "retired"
      BY <1>5 DEF Publish, IInv, TypeOK
    <2> QED BY <1>5, <2>1, SameBags DEF Publish, reclaimVars, ConserveInv
  <1>6. ASSUME NEW t \in Threads, Register(t) PROVE OneBagInv'
    BY <1>6, SameBags DEF Register, clientVars, ConserveInv
  <1>7. ASSUME NEW t \in Threads, ReadEpoch(t) PROVE OneBagInv'
    BY <1>7, SameBags DEF ReadEpoch, clientVars, ConserveInv
  <1>8. ASSUME NEW t \in Threads, MarkPinned(t) PROVE OneBagInv'
    BY <1>8, SameBags DEF MarkPinned, clientVars, ConserveInv
  <1>9. ASSUME NEW t \in Threads, Unpin(t) PROVE OneBagInv'
    BY <1>9, SameBags DEF Unpin, ConserveInv
  <1>10. ASSUME NEW t \in Threads, LoadCheckEpoch(t) PROVE OneBagInv'
    BY <1>10, SameBags DEF LoadCheckEpoch, clientVars, ConserveInv
  <1>11. ASSUME NEW t \in Threads, LoadHead(t) PROVE OneBagInv'
    BY <1>11, SameBags DEF LoadHead, clientVars, ConserveInv
  <1>12. ASSUME NEW t \in Threads, AdvanceEpoch(t) PROVE OneBagInv'
    BY <1>12, SameBags DEF AdvanceEpoch, clientVars, ConserveInv
  <1>13. ASSUME NEW t \in Threads, TagBag(t) PROVE OneBagInv'
    BY <1>13, SameBags DEF TagBag, clientVars, ConserveInv
  <1>14. ASSUME NEW t \in Threads, FreeDone(t) PROVE OneBagInv'
    BY <1>14, SameBags DEF FreeDone, clientVars, ConserveInv
  <1>15. ASSUME NEW t \in Threads, NEW u \in Threads, ScanMarker(t, u)
         PROVE  OneBagInv'
    BY <1>15, SameBags DEF ScanMarker, clientVars, ConserveInv
  <1>16. ASSUME NEW t \in Threads, NEW n \in Nodes, Acquire(t, n)
         PROVE  OneBagInv'
    BY <1>16, SameBags DEF Acquire, reclaimVars, ConserveInv
  <1>17. CASE UNCHANGED vars
    BY <1>17, SameBags DEF vars, ConserveInv
  <1>18. ASSUME NEW t \in Threads, RemoveMarker(t) PROVE OneBagInv'
    BY <1>18, SameBags DEF RemoveMarker, clientVars, ConserveInv
  <1>20. ASSUME NEW t \in Threads, StartRemoval(t) PROVE OneBagInv'
    BY <1>20, SameBags DEF StartRemoval, ConserveInv
  <1>21. ASSUME NEW t \in Threads, NEW u \in Threads,
                ScanFreed(t, u) \/ RemoveFreed(t, u)
         PROVE  OneBagInv'
    BY <1>21, SameBags DEF ScanFreed, RemoveFreed, clientVars, ConserveInv
  <1>19. ASSUME NEW t \in Threads, DropLocalBag(t) PROVE OneBagInv'
    <2>1. /\ bag'[t].nodes = {}
          /\ \A u \in Threads \ {t} : bag'[u] = bag[u]
          /\ \A n \in Nodes :
               status'[n] = IF n \in bag[t].nodes THEN "freed" ELSE status[n]
          /\ UNCHANGED <<popped, full, garbage>>
      BY <1>19 DEF DropLocalBag, IInv, TypeOK, EmptyBag
    <2> SUFFICES ASSUME NEW n \in Nodes
                 PROVE  /\ ThreadBags(n)' /\ QueueBags(n)'
                        /\ status'[n] = "retired" <=> Bagged(n)'
      BY DEF OneBagInv
    <2>2. ThreadBags(n) /\ QueueBags(n) /\ (status[n] = "retired" <=> Bagged(n))
      BY DEF ConserveInv, OneBagInv
    <2>3. ThreadBags(n)' /\ QueueBags(n)'
      BY <2>1, <2>2 DEF ThreadBags, QueueBags, Bagged, InBag
    <2>4. CASE n \in bag[t].nodes
      BY <2>1, <2>2, <2>4 DEF ThreadBags, QueueBags, Bagged, InBag
    <2>5. CASE n \notin bag[t].nodes
      BY <2>1, <2>2, <2>3, <2>5 DEF Bagged, InBag
    <2> QED BY <2>3, <2>4, <2>5
  <1> QED
    BY <1>1, <1>2, <1>3, <1>4, <1>5, <1>6, <1>7, <1>8, <1>9, <1>10, <1>11,
       <1>12, <1>13, <1>14, <1>15, <1>16, <1>17, <1>18, <1>19, <1>20, <1>21
    DEF NextExit, Next, Reclaimer, Pinning, Advancing, Collecting, Client, Exit

LEMMA ConserveInit == Init => ConserveInv
  BY
    DEF Init, ConserveInv, BagInv, OneBagInv, ThreadBags, QueueBags, Bagged, InBag, EmptyBag

(* Bags are moved around without losing or doubling a node. *)
THEOREM Conserved == SpecExit => []ConserveInv
  <1>1. IInv /\ ConserveInv /\ [NextExit]_vars => ConserveInv'
    BY BagStep, OneBagStep DEF ConserveInv
  <1> QED BY <1>1, ConserveInit, Inductive, PTL DEF SpecExit

(* Nothing is leaked and nothing is freed twice: a retired node is in one  *)
(* bag, whoever has the bag, and no other node is in any (add_garbage,     *)
(* add_garbage_bag and free_garbage, src/ebr/mod.rs).                      *)
THEOREM NoLeakNoDoubleFree == SpecExit => []GarbageConserved
  <1>1. ASSUME IInv, ConserveInv PROVE GarbageConserved
    <2> SUFFICES ASSUME NEW n \in Nodes
                 PROVE  Cardinality(Places(n)) =
                          IF status[n] = "retired" THEN 1 ELSE 0
      BY DEF GarbageConserved
    <2>1. ThreadBags(n) /\ QueueBags(n) /\ (status[n] = "retired" <=> Bagged(n))
      BY <1>1 DEF ConserveInv, OneBagInv
    <2>2. \A p, q \in Places(n) : p = q
      BY <2>1 DEF Places, ThreadBags, QueueBags, InBag
    <2>3. Places(n) # {} <=> Bagged(n)
      BY DEF Places, Bagged, InBag
    <2>4. CASE status[n] = "retired"
      <3>1. PICK p : p \in Places(n)
        BY <2>1, <2>3, <2>4
      <3>2. Places(n) = {p}
        BY <2>2, <3>1
      <3> QED BY <2>4, <3>2, FS_Singleton
    <2>5. CASE status[n] # "retired"
      <3>1. Places(n) = {}
        BY <2>1, <2>3, <2>5
      <3> QED BY <2>5, <3>1, FS_EmptySet
    <2> QED BY <2>4, <2>5
  <1> QED BY <1>1, Inductive, Conserved, PTL

(* Every step of the scheme is a step of Epochs or leaves it alone. *)
LEMMA SchemeStep ==
  SchemeInv /\ ConserveInv /\ [Next]_vars => [Scheme!Next]_(Scheme!vars)
  <1> DEFINE Goal == [Scheme!Next]_(Scheme!vars)
  <1> SUFFICES ASSUME SchemeInv, ConserveInv, [Next]_vars PROVE Goal
    OBVIOUS
  <1>1. ASSUME NEW t \in Threads, Register(t) PROVE Goal
    <2>1. \A v \in Threads : InPin(v)' <=> InPin(v)
      BY <1>1 DEF Register, SchemeInv, TypeOK, InPin, PinPhase
    <2> QED BY <1>1, <2>1 DEF Register, Scheme!vars, clientVars
  <1>2. ASSUME NEW t \in Threads, ReadEpoch(t) PROVE Goal
    <2>1. \A v \in Threads : InPin(v)' <=> InPin(v)
      BY <1>2 DEF ReadEpoch, SchemeInv, TypeOK, InPin, PinPhase
    <2> QED BY <1>2, <2>1 DEF ReadEpoch, Scheme!vars, clientVars
  <1>3. ASSUME NEW t \in Threads, MarkPinned(t) PROVE Goal
    <2>1. InPin(t)' /\ ~InPin(t) /\ \A v \in Threads \ {t} : InPin(v)' <=> InPin(v)
      BY <1>3 DEF MarkPinned, SchemeInv, TypeOK, InPin, PinPhase
    <2>2. Scheme!Pin(t)
      BY <1>3, <2>1 DEF MarkPinned, Scheme!Pin, clientVars
    <2> QED BY <2>2 DEF Scheme!Next
  <1>4. ASSUME NEW t \in Threads, Unpin(t) PROVE Goal
    <2>1. ~InPin(t)' /\ InPin(t) /\ \A v \in Threads \ {t} : InPin(v)' <=> InPin(v)
      BY <1>4 DEF Unpin, SchemeInv, TypeOK, InPin, PinPhase
    <2>2. Scheme!Unpin(t)
      BY <1>4, <2>1 DEF Unpin, Scheme!Unpin
    <2> QED BY <2>2 DEF Scheme!Next
  <1>5. ASSUME NEW t \in Threads, LoadCheckEpoch(t) PROVE Goal
    <2>1. \A v \in Threads : InPin(v)' <=> InPin(v)
      BY <1>5 DEF LoadCheckEpoch, SchemeInv, TypeOK, InPin, PinPhase
    <2> QED BY <1>5, <2>1 DEF LoadCheckEpoch, Scheme!vars, clientVars
  <1>6. ASSUME NEW t \in Threads, LoadHead(t) PROVE Goal
    <2>1. \A v \in Threads : InPin(v)' <=> InPin(v)
      BY <1>6 DEF LoadHead, SchemeInv, TypeOK, InPin, PinPhase
    <2> QED BY <1>6, <2>1 DEF LoadHead, Scheme!vars, clientVars
  <1>7. ASSUME NEW t \in Threads, NEW u \in Threads, ScanMarker(t, u)
        PROVE  Goal
    <2>1. \A v \in Threads : InPin(v)' <=> InPin(v)
      <3>1. CASE pc' = [pc EXCEPT ![t] = "work"]
        BY <1>7, <3>1 DEF ScanMarker, SchemeInv, TypeOK, InPin, PinPhase
      <3>2. CASE pc' = pc
        BY <3>2 DEF InPin
      <3> QED BY <1>7, <3>1, <3>2 DEF ScanMarker
    <2> QED BY <1>7, <2>1 DEF ScanMarker, Scheme!vars, clientVars
  <1>8. ASSUME NEW t \in Threads, AdvanceEpoch(t) PROVE Goal
    <2>1. \A v \in Threads : InPin(v)' <=> InPin(v)
      <3>1. CASE pc' = [pc EXCEPT ![t] = "work"]
        BY <1>8, <3>1 DEF AdvanceEpoch, SchemeInv, TypeOK, InPin, PinPhase
      <3>2. CASE pc' = [pc EXCEPT ![t] = "free"]
        BY <1>8, <3>2 DEF AdvanceEpoch, SchemeInv, TypeOK, InPin, PinPhase
      <3> QED BY <1>8, <3>1, <3>2 DEF AdvanceEpoch
    <2>2. CASE epoch = localEpoch[t] /\ epoch' = localEpoch[t] + 1
      <3>1. InPin(t)
        BY <1>8 DEF AdvanceEpoch, InPin, PinPhase
      <3>2. \A v \in Threads : InPin(v) => pinAt[v] = epoch
        BY <1>8, <2>2, AdvanceSeen
      <3>3. Scheme!Advance(t)
        BY <1>8, <2>1, <2>2, <3>1, <3>2
        DEF AdvanceEpoch, Scheme!Advance, clientVars
      <3> QED BY <3>3 DEF Scheme!Next
    <2>3. CASE UNCHANGED epoch
      BY <1>8, <2>1, <2>3 DEF AdvanceEpoch, Scheme!vars, clientVars
    <2> QED BY <1>8, <2>2, <2>3 DEF AdvanceEpoch
  <1>9. ASSUME NEW t \in Threads, TagBag(t) PROVE Goal
    <2>1. \A v \in Threads : InPin(v)' <=> InPin(v)
      BY <1>9 DEF TagBag, SchemeInv, TypeOK, InPin, PinPhase
    <2> QED BY <1>9, <2>1 DEF TagBag, Scheme!vars, clientVars
  <1>10. ASSUME NEW t \in Threads, PushBag(t) PROVE Goal
    <2>1. \A v \in Threads : InPin(v)' <=> InPin(v)
      BY <1>10 DEF PushBag, SchemeInv, TypeOK, InPin, PinPhase
    <2> QED BY <1>10, <2>1 DEF PushBag, Scheme!vars, clientVars
  <1>11. ASSUME NEW t \in Threads, PopExpired(t) PROVE Goal
    <2>1. /\ pc'[t] \in {"tag", "drop"} /\ pc[t] = "free"
          /\ \A v \in Threads \ {t} : pc'[v] = pc[v]
      BY <1>11, AddGarbageEffect DEF PopExpired, SchemeInv, Phase, PinPhase
    <2>2. \A v \in Threads : InPin(v)' <=> InPin(v)
      BY <2>1 DEF InPin, PinPhase
    <2> QED BY <1>11, <2>2 DEF PopExpired, Scheme!vars, clientVars
  <1>12. ASSUME NEW t \in Threads, DropBag(t) PROVE Goal
    <2>1. InPin(t) /\ \A v \in Threads : InPin(v)' <=> InPin(v)
      BY <1>12 DEF DropBag, SchemeInv, TypeOK, InPin, PinPhase
    <2> DEFINE S == popped[t].nodes
    <2>2. S \in SUBSET Nodes
      BY DEF SchemeInv, TypeOK, Bag
    <2>3. \A n \in S : retiredAt[n] + 2 <= epoch
      BY <2>2 DEF SchemeInv, AgeInv
    <2>4. {n \in Nodes : status'[n] = "freed"}
            = {n \in Nodes : status[n] = "freed"} \cup S
      BY <1>12, <2>2 DEF DropBag, SchemeInv, TypeOK
    <2>5. {n \in Nodes : status'[n] = "retired"}
            = {n \in Nodes : status[n] = "retired"} \ S
      BY <1>12, <2>2 DEF DropBag, SchemeInv, TypeOK
    <2>6. S \subseteq {n \in Nodes : status[n] = "retired"}
      BY <2>2 DEF ConserveInv, OneBagInv, Bagged, InBag
    <2>7. Scheme!Free(t, S)
      BY <1>12, <2>1, <2>3, <2>4, <2>5, <2>6 DEF DropBag, Scheme!Free
    <2>8. \E old \in SUBSET Nodes : Scheme!Free(t, old)
      BY <2>2, <2>7 DEF Scheme!Free
    <2>9. Scheme!Next
      BY <2>8 DEF Scheme!Next
    <2> QED BY <2>9
  <1>13. ASSUME NEW t \in Threads, FreeDone(t) PROVE Goal
    <2>1. \A v \in Threads : InPin(v)' <=> InPin(v)
      BY <1>13 DEF FreeDone, SchemeInv, TypeOK, InPin, PinPhase
    <2> QED BY <1>13, <2>1 DEF FreeDone, Scheme!vars, clientVars
  <1>14. ASSUME NEW t \in Threads, NEW n \in Nodes, Publish(t, n) PROVE Goal
    <2>1. \A m \in Nodes : /\ status'[m] = "freed" <=> status[m] = "freed"
                           /\ status'[m] = "retired" <=> status[m] = "retired"
      BY <1>14 DEF Publish, SchemeInv, TypeOK
    <2> QED BY <1>14, <2>1 DEF Publish, Scheme!vars, reclaimVars, InPin
  <1>15. ASSUME NEW t \in Threads, NEW n \in Nodes, Acquire(t, n) PROVE Goal
    <2>1. \A m \in Nodes : /\ status'[m] = "freed" <=> status[m] = "freed"
                           /\ status'[m] = "retired" <=> status[m] = "retired"
      BY <1>15 DEF Acquire, SchemeInv, TypeOK
    <2> QED BY <1>15, <2>1 DEF Acquire, Scheme!vars, reclaimVars, InPin
  <1>16. ASSUME NEW t \in Threads, NEW n \in Nodes, Unlink(t, n) PROVE Goal
    <2>1. /\ pc'[t] \in {"tag", "work"} /\ pc[t] = "work"
          /\ \A v \in Threads \ {t} : pc'[v] = pc[v]
      BY <1>16, AddGarbageEffect DEF Unlink, SchemeInv, Phase, PinPhase
    <2>2. InPin(t) /\ \A v \in Threads : InPin(v)' <=> InPin(v)
      BY <2>1 DEF InPin, PinPhase
    <2>3. \A m \in Nodes : status'[m] = "freed" <=> status[m] = "freed"
      BY <1>16 DEF Unlink, SchemeInv, TypeOK
    <2>4. status[n] = "live"
      BY <1>16 DEF Unlink
    <2>5. {m \in Nodes : status'[m] = "retired"}
            = {m \in Nodes : status[m] = "retired"} \cup {n}
      BY <1>16 DEF Unlink, SchemeInv, TypeOK
    <2>6. Scheme!Retire(t, n)
      BY <1>16, <2>2, <2>3, <2>4, <2>5 DEF Unlink, Scheme!Retire
    <2> QED BY <2>6 DEF Scheme!Next
  <1>17. CASE UNCHANGED vars
    BY <1>17 DEF vars, Scheme!vars, InPin
  <1> QED
    BY <1>1, <1>2, <1>3, <1>4, <1>5, <1>6, <1>7, <1>8, <1>9, <1>10, <1>11,
       <1>12, <1>13, <1>14, <1>15, <1>16, <1>17
    DEF Next, Reclaimer, Pinning, Advancing, Collecting, Client

(* Ebr implements Epochs: the walk of can_increment_epoch over the markers *)
(* counts as one look at all pinned threads, and free_garbage only frees   *)
(* what was unlinked two epochs ago (src/ebr/mod.rs).                      *)
THEOREM ImplementsEpochs == Spec => FollowsScheme
  <1>1. Init => Scheme!Init
    BY DEF Init, Scheme!Init, InPin, PinPhase
  <1> QED BY <1>1, NobodyStrays, Conserved, SchemeStep, PTL
             DEF Spec, FollowsScheme, Scheme!Spec

(* Every step keeps the promise of SafeReclaim. *)
LEMMA PromiseStep ==
  SchemeInv /\ ConserveInv /\ [Next]_vars => [Promise!Next]_(Promise!vars)
  <1> DEFINE Goal == [Promise!Next]_(Promise!vars)
  <1> SUFFICES ASSUME SchemeInv, ConserveInv, [Next]_vars PROVE Goal
    OBVIOUS
  <1>1. ASSUME NEW t \in Threads, Register(t) PROVE Goal
    BY <1>1 DEF Register, clientVars, Promise!vars
  <1>2. ASSUME NEW t \in Threads, ReadEpoch(t) PROVE Goal
    BY <1>2 DEF ReadEpoch, clientVars, Promise!vars
  <1>3. ASSUME NEW t \in Threads, MarkPinned(t) PROVE Goal
    BY <1>3 DEF MarkPinned, clientVars, Promise!vars
  <1>4. ASSUME NEW t \in Threads, LoadCheckEpoch(t) PROVE Goal
    BY <1>4 DEF LoadCheckEpoch, clientVars, Promise!vars
  <1>5. ASSUME NEW t \in Threads, LoadHead(t) PROVE Goal
    BY <1>5 DEF LoadHead, clientVars, Promise!vars
  <1>6. ASSUME NEW t \in Threads, AdvanceEpoch(t) PROVE Goal
    BY <1>6 DEF AdvanceEpoch, clientVars, Promise!vars
  <1>7. ASSUME NEW t \in Threads, TagBag(t) PROVE Goal
    BY <1>7 DEF TagBag, clientVars, Promise!vars
  <1>8. ASSUME NEW t \in Threads, PushBag(t) PROVE Goal
    BY <1>8 DEF PushBag, clientVars, Promise!vars
  <1>9. ASSUME NEW t \in Threads, PopExpired(t) PROVE Goal
    BY <1>9 DEF PopExpired, clientVars, Promise!vars
  <1>10. ASSUME NEW t \in Threads, FreeDone(t) PROVE Goal
    BY <1>10 DEF FreeDone, clientVars, Promise!vars
  <1>11. ASSUME NEW t \in Threads, NEW u \in Threads, ScanMarker(t, u)
         PROVE  Goal
    BY <1>11 DEF ScanMarker, clientVars, Promise!vars
  <1>12. ASSUME NEW t \in Threads, Unpin(t) PROVE Goal
    <2>1. Promise!Release(t)
      BY <1>12 DEF Unpin, Promise!Release
    <2> QED BY <2>1 DEF Promise!Next
  <1>13. ASSUME NEW t \in Threads, DropBag(t) PROVE Goal
    <2> DEFINE S == popped[t].nodes
    <2>1. S \in SUBSET Nodes
      BY DEF SchemeInv, TypeOK, Bag
    <2>2. \A n \in S : status[n] = "retired"
      BY <2>1 DEF ConserveInv, OneBagInv, Bagged, InBag
    <2>3. \A u \in Threads : hold[u] \cap S = {}
      BY DEF SchemeInv, HoldInv
    <2>4. Promise!Free(S)
      BY <1>13, <2>2, <2>3 DEF DropBag, Promise!Free
    <2>5. \E old \in SUBSET Nodes : Promise!Free(old)
      BY <2>1, <2>4 DEF Promise!Free
    <2> QED BY <2>5 DEF Promise!Next
  <1>14. ASSUME NEW t \in Threads, NEW n \in Nodes, Publish(t, n) PROVE Goal
    <2>1. Promise!Publish(n)
      BY <1>14 DEF Publish, Promise!Publish
    <2> QED BY <2>1 DEF Promise!Next
  <1>15. ASSUME NEW t \in Threads, NEW n \in Nodes, Acquire(t, n) PROVE Goal
    <2>1. Promise!Acquire(t, n)
      BY <1>15 DEF Acquire, Promise!Acquire
    <2> QED BY <2>1 DEF Promise!Next
  <1>16. ASSUME NEW t \in Threads, NEW n \in Nodes, Unlink(t, n) PROVE Goal
    <2>1. Promise!Retire(n)
      BY <1>16 DEF Unlink, Promise!Retire
    <2> QED BY <2>1 DEF Promise!Next
  <1>17. CASE UNCHANGED vars
    BY <1>17 DEF vars, Promise!vars
  <1> QED
    BY <1>1, <1>2, <1>3, <1>4, <1>5, <1>6, <1>7, <1>8, <1>9, <1>10, <1>11,
       <1>12, <1>13, <1>14, <1>15, <1>16, <1>17
    DEF Next, Reclaimer, Pinning, Advancing, Collecting, Client

(* Ebr implements SafeReclaim: what is freed was retired, is freed once,   *)
(* and nobody holds it at that moment (src/ebr/mod.rs).                    *)
THEOREM ImplementsSafeReclaim == Spec => KeepsPromise
  <1>1. Init => Promise!Init
    BY DEF Init, Promise!Init
  <1> QED
    BY <1>1, NobodyStrays, Conserved, PromiseStep, PTL
    DEF Spec, KeepsPromise, Promise!Spec
=============================================================================
