-------------------------------- MODULE Ebr --------------------------------
(***************************************************************************)
(* Epoch based reclamation, src/ebr/mod.rs.                                *)
(*                                                                         *)
(* Each atomic access to shared memory (the global epoch, the pin markers, *)
(* the list of markers, the global garbage queue) is an action; the work a *)
(* thread does on its own LocalState in between is part of the next or the *)
(* previous action.  The structure that is protected is reduced to what it *)
(* does with memory: nodes become reachable, are read, and are unlinked by *)
(* a thread inside `pin`.                                                  *)
(***************************************************************************)
EXTENDS Integers, Sequences, FiniteSets

CONSTANTS
  Threads,
  Nodes,        \* allocations made by the protected structure
  BagSize,      \* BAG_SIZE, 32 in the code
  PinInterval,  \* a thread tries to advance the epoch every 64th pin
  MaxEpoch      \* bound: no attempt to advance the epoch beyond this value

ASSUME EbrAssumption ==
  /\ BagSize \in Nat \ {0}
  /\ PinInterval \in Nat \ {0}
  /\ MaxEpoch \in Nat

VARIABLES
  epoch,       \* GlobalState.epoch
  pins,        \* GlobalState.pins: the threads whose marker is in the list
  garbage,     \* GlobalState.garbage: queue of bags, each with its epoch
  marker,      \* ThreadPinMarker.epoch of each thread: epoch and pinned bit
  pinCount,    \* LocalState.pin_count, modulo PinInterval
  bag,         \* LocalState.garbage_bag
  pc,          \* where the thread is in `pin`
  localEpoch,  \* `global_epoch` in pin
  checkEpoch,  \* `global_epoch` in can_increment_epoch
  toScan,      \* the markers can_increment_epoch has yet to read
  full,        \* the full bag on its way to the global queue
  tag,         \* the epoch read for that bag
  popped,      \* the bag free_garbage has popped
  status,      \* life of each node
  hold,        \* nodes a thread may dereference until it leaves `pin`
  pinAt,       \* history: the global epoch when the thread set its marker
  retiredAt,   \* history: the global epoch when the node was unlinked
  strayed      \* history: a walk over the markers has read a freed one

reclaimVars == <<epoch, pins, garbage, marker, pinCount, bag, pc, localEpoch,
                 checkEpoch, toScan, full, tag, popped, pinAt, strayed>>
clientVars == <<status, hold, retiredAt>>
vars == <<epoch, pins, garbage, marker, pinCount, bag, pc, localEpoch,
          checkEpoch, toScan, full, tag, popped, status, hold, pinAt,
          retiredAt, strayed>>

(* The nodes in a bag and the index of its first available slot.  The      *)
(* sentinels of the global queue are garbage as well: they take a slot,    *)
(* and are not followed further here.                                      *)
Bag == [nodes : SUBSET Nodes, index : 0..BagSize]
EmptyBag == [nodes |-> {}, index |-> 0]
Entry == [epoch : Nat, bag : Bag]
Life == {"fresh", "live", "retired", "freed"}
PinPhase ==
  {"check", "head", "scan", "work", "tag", "push", "free", "drop"}
Phase ==
  PinPhase \cup {"idle", "pinning", "removing", "exiting", "gone"}

TypeOK ==
  /\ epoch \in Nat
  /\ pins \in SUBSET Threads
  /\ garbage \in Seq(Entry)
  /\ marker \in [Threads -> [epoch : Nat, pinned : BOOLEAN]]
  /\ pinCount \in [Threads -> 0..PinInterval - 1]
  /\ bag \in [Threads -> Bag]
  /\ pc \in [Threads -> Phase]
  /\ localEpoch \in [Threads -> Nat]
  /\ checkEpoch \in [Threads -> Nat]
  /\ toScan \in [Threads -> SUBSET Threads]
  /\ full \in [Threads -> Bag]
  /\ tag \in [Threads -> Nat]
  /\ popped \in [Threads -> Bag]
  /\ status \in [Nodes -> Life]
  /\ hold \in [Threads -> SUBSET Nodes]
  /\ pinAt \in [Threads -> Nat]
  /\ retiredAt \in [Nodes -> Nat]
  /\ strayed \in BOOLEAN

Init ==
  /\ epoch = 0
  /\ pins = {}
  /\ garbage = <<>>
  /\ marker = [t \in Threads |-> [epoch |-> 0, pinned |-> FALSE]]
  /\ pinCount = [t \in Threads |-> 0]
  /\ bag = [t \in Threads |-> EmptyBag]
  /\ pc = [t \in Threads |-> "idle"]
  /\ localEpoch = [t \in Threads |-> 0]
  /\ checkEpoch = [t \in Threads |-> 0]
  /\ toScan = [t \in Threads |-> {}]
  /\ full = [t \in Threads |-> EmptyBag]
  /\ tag = [t \in Threads |-> 0]
  /\ popped = [t \in Threads |-> EmptyBag]
  /\ status = [n \in Nodes |-> "fresh"]
  /\ hold = [t \in Threads |-> {}]
  /\ pinAt = [t \in Threads |-> 0]
  /\ retiredAt = [n \in Nodes |-> 0]
  /\ strayed = FALSE
-----------------------------------------------------------------------------
(* Operators on bags and epochs.                                           *)

(* Mutant: one slot too many. *)
IsFullOneLate(b) == b.index = BagSize + 1
IsFull(b) == b.index = BagSize

(* Bag::try_insert into a bag with room; ns is the node, or {} for a       *)
(* sentinel of the global queue.                                           *)
Inserted(b, ns) == [nodes |-> b.nodes \cup ns, index |-> b.index + 1]

SaturatingSub(a, b) == IF a >= b THEN a - b ELSE 0

(* Mutants: one epoch too early, and whatever there is. *)
ExpiredEarly(now, e) == SaturatingSub(now, e) >= 1
ExpiredAny(now, e) == SaturatingSub(now, e) >= 0
(* The condition free_garbage gives to pop_if. *)
Expired(now, e) == SaturatingSub(now, e) >= 2

(* Mutant: the node that did not fit is forgotten. *)
AddGarbageLossy(t, ns, next) ==
  \/ /\ IsFull(bag[t])
     /\ full' = [full EXCEPT ![t] = bag[t]]
     /\ bag' = [bag EXCEPT ![t] = EmptyBag]
     /\ pc' = [pc EXCEPT ![t] = "tag"]
  \/ /\ ~IsFull(bag[t])
     /\ bag' = [bag EXCEPT ![t] = Inserted(bag[t], ns)]
     /\ pc' = [pc EXCEPT ![t] = next]
     /\ UNCHANGED full

(* LocalState::add_garbage: insert, or start a new bag and carry the full  *)
(* one to the global queue.  `next` is where the thread goes on after it.  *)
AddGarbage(t, ns, next) ==
  \/ /\ IsFull(bag[t])
     /\ full' = [full EXCEPT ![t] = bag[t]]
     /\ bag' = [bag EXCEPT ![t] = Inserted(EmptyBag, ns)]
     /\ pc' = [pc EXCEPT ![t] = "tag"]
  \/ /\ ~IsFull(bag[t])
     /\ bag' = [bag EXCEPT ![t] = Inserted(bag[t], ns)]
     /\ pc' = [pc EXCEPT ![t] = next]
     /\ UNCHANGED full
-----------------------------------------------------------------------------
(* Entering and leaving `pin`.                                             *)

(* The first call makes the marker and inserts it into the global list. *)
Register(t) ==
  /\ pc[t] = "idle"
  /\ t \notin pins
  /\ pins' = pins \cup {t}
  /\ marker' = [marker EXCEPT ![t] = [epoch |-> 0, pinned |-> FALSE]]
  /\ UNCHANGED <<epoch, garbage, pinCount, bag, pc, localEpoch, checkEpoch,
                 toScan, full, tag, popped, clientVars, pinAt, strayed>>

ReadEpoch(t) ==
  /\ pc[t] = "idle"
  /\ t \in pins
  /\ localEpoch' = [localEpoch EXCEPT ![t] = epoch]
  /\ pc' = [pc EXCEPT ![t] = "pinning"]
  /\ UNCHANGED <<epoch, pins, garbage, marker, pinCount, bag, checkEpoch,
                 toScan, full, tag, popped, clientVars, pinAt, strayed>>

(* ThreadPinMarker::pin, then the counter that decides whether this call   *)
(* tries to advance the epoch.                                             *)
MarkPinned(t) ==
  LET count == (pinCount[t] + 1) % PinInterval
  IN  /\ pc[t] = "pinning"
      /\ ~marker[t].pinned
      /\ marker' = [marker EXCEPT ![t] =
                      [epoch |-> localEpoch[t], pinned |-> TRUE]]
      /\ pinAt' = [pinAt EXCEPT ![t] = epoch]
      /\ pinCount' = [pinCount EXCEPT ![t] = count]
      /\ pc' = [pc EXCEPT ![t] =
                  IF count = 0 /\ localEpoch[t] < MaxEpoch
                  THEN "check" ELSE "work"]
      /\ UNCHANGED <<epoch, pins, garbage, bag, localEpoch, checkEpoch,
                     toScan, full, tag, popped, clientVars, strayed>>

(* The closure has returned; ThreadPinMarker::unpin clears the bit and     *)
(* keeps the epoch. *)
Unpin(t) ==
  /\ pc[t] = "work"
  /\ marker' = [marker EXCEPT ![t] = [epoch |-> @.epoch, pinned |-> FALSE]]
  /\ hold' = [hold EXCEPT ![t] = {}]
  /\ pc' = [pc EXCEPT ![t] = "idle"]
  /\ localEpoch' = [localEpoch EXCEPT ![t] = 0]
  /\ pinAt' = [pinAt EXCEPT ![t] = 0]
  /\ UNCHANGED <<epoch, pins, garbage, pinCount, bag, checkEpoch, toScan,
                 full, tag, popped, status, retiredAt, strayed>>
-----------------------------------------------------------------------------
(* can_increment_epoch and increment_epoch.                                *)

LoadCheckEpoch(t) ==
  /\ pc[t] = "check"
  /\ checkEpoch' = [checkEpoch EXCEPT ![t] = epoch]
  /\ pc' = [pc EXCEPT ![t] = "head"]
  /\ UNCHANGED <<epoch, pins, garbage, marker, pinCount, bag, localEpoch,
                 toScan, full, tag, popped, clientVars, pinAt, strayed>>

(* List::all loads the head.  Markers are only ever added in front of it,  *)
(* so what a walk may meet are the markers that are in the list now.       *)
LoadHead(t) ==
  /\ pc[t] = "head"
  /\ toScan' = [toScan EXCEPT ![t] = pins]
  /\ pc' = [pc EXCEPT ![t] = "scan"]
  /\ UNCHANGED <<epoch, pins, garbage, marker, pinCount, bag, localEpoch,
                 checkEpoch, full, tag, popped, clientVars, pinAt, strayed>>

(* Mutants: an older epoch is accepted, and a pinned thread never is. *)
SeenEpochOrOlder(t, u) == marker[u].pinned => marker[u].epoch <= checkEpoch[t]
SeenNobodyPinned(t, u) == ~marker[u].pinned
(* The closure given to List::all. *)
SeenEpoch(t, u) == marker[u].pinned => marker[u].epoch = checkEpoch[t]

(* One marker is read; the order is that of insertion, here any order.  A  *)
(* marker that was unlinked before the walk came to it is not met.         *)
ScanMarker(t, u) ==
  /\ pc[t] = "scan"
  /\ u \in toScan[t]
  /\ \/ /\ u \in pins => SeenEpoch(t, u)
        /\ toScan' = [toScan EXCEPT ![t] = @ \ {u}]
        /\ UNCHANGED <<pc, checkEpoch>>
     \/ /\ u \in pins /\ ~SeenEpoch(t, u)
        /\ toScan' = [toScan EXCEPT ![t] = {}]
        /\ checkEpoch' = [checkEpoch EXCEPT ![t] = 0]
        /\ pc' = [pc EXCEPT ![t] = "work"]
  /\ UNCHANGED <<epoch, pins, garbage, marker, pinCount, bag, localEpoch,
                 full, tag, popped, clientVars, pinAt, strayed>>

(* Mutant: fetch_add instead of compare-and-swap. *)
AdvanceEpochFetchAdd(t) ==
  /\ pc[t] = "scan"
  /\ toScan[t] = {}
  /\ epoch' = epoch + 1
  /\ pc' = [pc EXCEPT ![t] = "free"]
  /\ checkEpoch' = [checkEpoch EXCEPT ![t] = 0]
  /\ UNCHANGED <<pins, garbage, marker, pinCount, bag, localEpoch, toScan,
                 full, tag, popped, clientVars, pinAt, strayed>>

(* All markers passed: compare-and-swap the epoch read at the start of     *)
(* `pin`, and free garbage if it was this thread that moved it.            *)
AdvanceEpoch(t) ==
  /\ pc[t] = "scan"
  /\ toScan[t] = {}
  /\ \/ /\ epoch = localEpoch[t]
        /\ epoch' = localEpoch[t] + 1
        /\ pc' = [pc EXCEPT ![t] = "free"]
     \/ /\ epoch # localEpoch[t]
        /\ pc' = [pc EXCEPT ![t] = "work"]
        /\ UNCHANGED epoch
  /\ checkEpoch' = [checkEpoch EXCEPT ![t] = 0]
  /\ UNCHANGED <<pins, garbage, marker, pinCount, bag, localEpoch, toScan,
                 full, tag, popped, clientVars, pinAt, strayed>>
-----------------------------------------------------------------------------
(* The global garbage queue.                                               *)

(* The thread is in free_garbage. *)
Freeing(t) == \/ pc[t] \in {"free", "drop"}
              \/ pc[t] \in {"tag", "push"} /\ popped[t].index > 0

(* add_garbage_bag reads the epoch for the full bag ... *)
TagBag(t) ==
  /\ pc[t] = "tag"
  /\ tag' = [tag EXCEPT ![t] = epoch]
  /\ pc' = [pc EXCEPT ![t] = "push"]
  /\ UNCHANGED <<epoch, pins, garbage, marker, pinCount, bag, localEpoch,
                 checkEpoch, toScan, full, popped, clientVars, pinAt,
                 strayed>>

(* ... and pushes both.  Inside free_garbage the thread goes on to drop    *)
(* the bag it popped, otherwise back to the closure.                       *)
PushBag(t) ==
  /\ pc[t] = "push"
  /\ garbage' = Append(garbage, [epoch |-> tag[t], bag |-> full[t]])
  /\ full' = [full EXCEPT ![t] = EmptyBag]
  /\ tag' = [tag EXCEPT ![t] = 0]
  /\ pc' = [pc EXCEPT ![t] =
              IF popped[t].index > 0 THEN "drop" ELSE "work"]
  /\ UNCHANGED <<epoch, pins, marker, pinCount, bag, localEpoch, checkEpoch,
                 toScan, popped, clientVars, pinAt, strayed>>

(* Mutant: the epoch is counted one step ahead twice. *)
HeadExpiredAhead(t) ==
  /\ garbage # <<>>
  /\ Expired(localEpoch[t] + 2, Head(garbage).epoch)

HeadExpired(t) ==
  /\ garbage # <<>>
  /\ Expired(localEpoch[t] + 1, Head(garbage).epoch)

(* free_garbage: pop_if takes the head if it is old enough, and retires    *)
(* the sentinel of the queue into the local bag of this thread.            *)
PopExpired(t) ==
  /\ pc[t] = "free"
  /\ HeadExpired(t)
  /\ popped' = [popped EXCEPT ![t] = Head(garbage).bag]
  /\ garbage' = Tail(garbage)
  /\ AddGarbage(t, {}, "drop")
  /\ UNCHANGED <<epoch, pins, marker, pinCount, localEpoch, checkEpoch,
                 toScan, tag, clientVars, pinAt, strayed>>

(* Every piece of garbage in the popped bag is dropped. *)
DropBag(t) ==
  /\ pc[t] = "drop"
  /\ status' = [n \in Nodes |->
                  IF n \in popped[t].nodes THEN "freed" ELSE status[n]]
  /\ popped' = [popped EXCEPT ![t] = EmptyBag]
  /\ pc' = [pc EXCEPT ![t] = "free"]
  /\ UNCHANGED <<epoch, pins, garbage, marker, pinCount, bag, localEpoch,
                 checkEpoch, toScan, full, tag, hold, pinAt, retiredAt,
                 strayed>>

(* The head is young, there is none, or pop_if gives up since another      *)
(* thread pops at the same time.                                           *)
FreeDone(t) ==
  /\ pc[t] = "free"
  /\ HeadExpired(t) => \E u \in Threads \ {t} : Freeing(u)
  /\ pc' = [pc EXCEPT ![t] = "work"]
  /\ UNCHANGED <<epoch, pins, garbage, marker, pinCount, bag, localEpoch,
                 checkEpoch, toScan, full, tag, popped, clientVars, pinAt,
                 strayed>>
-----------------------------------------------------------------------------
(* The closure: operations of a queue or a list on its nodes.              *)

(* A push or an insert makes a node and makes it reachable.  Nodes are     *)
(* named in the order in which they are made.                              *)
Publish(t, n) ==
  /\ pc[t] = "work"
  /\ status[n] = "fresh"
  /\ n = CHOOSE m \in Nodes : status[m] = "fresh"
  /\ status' = [status EXCEPT ![n] = "live"]
  /\ UNCHANGED <<reclaimVars, hold, retiredAt>>

(* The thread loads a pointer to a reachable node. *)
Acquire(t, n) ==
  /\ pc[t] = "work"
  /\ status[n] = "live"
  /\ n \notin hold[t]
  /\ hold' = [hold EXCEPT ![t] = @ \cup {n}]
  /\ UNCHANGED <<reclaimVars, status, retiredAt>>

(* A pop or a remove unlinks a node with a compare-and-swap and hands it   *)
(* to Pin::add_garbage.                                                    *)
Unlink(t, n) ==
  /\ pc[t] = "work"
  /\ n \in hold[t]
  /\ status[n] = "live"
  /\ status' = [status EXCEPT ![n] = "retired"]
  /\ retiredAt' = [retiredAt EXCEPT ![n] = epoch]
  /\ AddGarbage(t, {n}, "work")
  /\ UNCHANGED <<epoch, pins, garbage, marker, pinCount, localEpoch,
                 checkEpoch, toScan, tag, popped, hold, pinAt, strayed>>
-----------------------------------------------------------------------------
(* The end of a thread: LocalState::drop, and then the drop of its fields. *)

(* The thread ends after its last `pin`, or because the closure panicked   *)
(* inside one: `pin` then never reaches unpin.  remove_with looks for the  *)
(* marker, on a walk that may meet those of other threads.                 *)
StartRemoval(t) ==
  /\ pc[t] \in {"idle", "work"}
  /\ t \in pins
  /\ toScan' = [toScan EXCEPT ![t] = pins \ {t}]
  /\ hold' = [hold EXCEPT ![t] = {}]
  /\ pinAt' = [pinAt EXCEPT ![t] = 0]
  /\ localEpoch' = [localEpoch EXCEPT ![t] = 0]
  /\ pc' = [pc EXCEPT ![t] = "removing"]
  /\ UNCHANGED <<epoch, pins, garbage, marker, pinCount, bag, checkEpoch,
                 full, tag, popped, status, retiredAt, strayed>>

(* Mutant: the markers behind the one that is removed go with it. *)
RemoveMarkerAndRest(t) ==
  /\ pc[t] = "removing"
  /\ pins' = {}
  /\ marker' = [marker EXCEPT ![t] = [epoch |-> 0, pinned |-> FALSE]]
  /\ toScan' = [toScan EXCEPT ![t] = {}]
  /\ pc' = [pc EXCEPT ![t] = "exiting"]
  /\ UNCHANGED <<epoch, garbage, pinCount, bag, localEpoch, checkEpoch,
                 full, tag, popped, clientVars, pinAt, strayed>>

(* The marker leaves the list, pinned or not, and the closure given to     *)
(* remove_with frees it there and then; what is in its memory from then on *)
(* is undefined, and no action looks at it here.                           *)
RemoveMarker(t) ==
  /\ pc[t] = "removing"
  /\ pins' = pins \ {t}
  /\ marker' = [marker EXCEPT ![t] = [epoch |-> 0, pinned |-> FALSE]]
  /\ toScan' = [toScan EXCEPT ![t] = {}]
  /\ pc' = [pc EXCEPT ![t] = "exiting"]
  /\ UNCHANGED <<epoch, garbage, pinCount, bag, localEpoch, checkEpoch,
                 full, tag, popped, clientVars, pinAt, strayed>>

(* The field garbage_bag is dropped with whatever is in it. *)
DropLocalBag(t) ==
  /\ pc[t] = "exiting"
  /\ status' = [n \in Nodes |->
                  IF n \in bag[t].nodes THEN "freed" ELSE status[n]]
  /\ bag' = [bag EXCEPT ![t] = EmptyBag]
  /\ pc' = [pc EXCEPT ![t] = "gone"]
  /\ UNCHANGED <<epoch, pins, garbage, marker, pinCount, localEpoch,
                 checkEpoch, toScan, full, tag, popped, hold, pinAt,
                 retiredAt, strayed>>

(* A walk of List::all that stands on a marker when it is freed reads its  *)
(* epoch, its pinned bit and its `next` from freed memory.  The closure    *)
(* may refuse what it is given, or the walk ends, at once or anywhere: the *)
(* answer may be either, whoever is pinned.                                *)
ScanFreed(t, u) ==
  /\ pc[t] = "scan"
  /\ u \in toScan[t] \ pins
  /\ strayed' = TRUE
  /\ toScan' = [toScan EXCEPT ![t] = {}]
  /\ \/ UNCHANGED <<pc, checkEpoch>>
     \/ /\ pc' = [pc EXCEPT ![t] = "work"]
        /\ checkEpoch' = [checkEpoch EXCEPT ![t] = 0]
  /\ UNCHANGED <<epoch, pins, garbage, marker, pinCount, bag, localEpoch,
                 full, tag, popped, clientVars, pinAt>>

(* So may the walk of remove_with, which then misses its own marker, or    *)
(* finds it still.                                                         *)
RemoveFreed(t, u) ==
  /\ pc[t] = "removing"
  /\ u \in toScan[t] \ pins
  /\ strayed' = TRUE
  /\ toScan' = [toScan EXCEPT ![t] = {}]
  /\ pins' \in {pins, pins \ {t}}
  /\ pc' = [pc EXCEPT ![t] = "exiting"]
  /\ UNCHANGED <<epoch, garbage, marker, pinCount, bag, localEpoch,
                 checkEpoch, full, tag, popped, clientVars, pinAt>>
-----------------------------------------------------------------------------
Pinning(t) == Register(t) \/ ReadEpoch(t) \/ MarkPinned(t) \/ Unpin(t)

Advancing(t) ==
  \/ LoadCheckEpoch(t)
  \/ LoadHead(t)
  \/ \E u \in Threads : ScanMarker(t, u)
  \/ AdvanceEpoch(t)

Collecting(t) ==
  TagBag(t) \/ PushBag(t) \/ PopExpired(t) \/ DropBag(t) \/ FreeDone(t)

Reclaimer(t) == Pinning(t) \/ Advancing(t) \/ Collecting(t)

Client(t) == \E n \in Nodes : Publish(t, n) \/ Acquire(t, n) \/ Unlink(t, n)

Exit(t) ==
  \/ StartRemoval(t)
  \/ RemoveMarker(t)
  \/ DropLocalBag(t)
  \/ \E u \in Threads : ScanFreed(t, u) \/ RemoveFreed(t, u)

(* The threads live as long as the system. *)
Next == \E t \in Threads : Reclaimer(t) \/ Client(t)
Spec == Init /\ [][Next]_vars

(* Every thread that can take a step of `pin` eventually takes one: the    *)
(* operating system schedules it, its closure returns, and it pins again.  *)
Fairness == \A t \in Threads : WF_vars(Reclaimer(t))
FairSpec == Spec /\ Fairness

(* Threads may also end, and then walks may read markers that are freed. *)
NextExit == Next \/ \E t \in Threads : Exit(t)
SpecExit == Init /\ [][NextExit]_vars
-----------------------------------------------------------------------------
(* Correctness.                                                            *)

(* No thread that is inside `pin` holds a pointer to a node that was       *)
(* freed: what pin (mod.rs:418-420) and free_garbage exist for.            *)
NoUseAfterFree ==
  \A t \in Threads : \A n \in hold[t] : status[n] # "freed"

InPin(t) == pc[t] \in PinPhase

(* While a thread is pinned the epoch moves at most once past the value it *)
(* had when the marker was set, even if the thread had read an older one:  *)
(* "If one threads local epoch is less than the global epoch, we cannot    *)
(* increment the epoch" (mod.rs:231-232).                                  *)
EpochIsHeld ==
  \A t \in Threads : InPin(t) => epoch <= pinAt[t] + 1

(* The same when threads end, as long as no walk has read a marker after   *)
(* its thread had freed it: that a marker leaves the list, pinned perhaps, *)
(* while can_increment_epoch walks over it does not matter by itself       *)
(* (mod.rs:235-240 and 368-377).                                           *)
PinHoldsEpoch == ~strayed => EpochIsHeld

(* No bag that free_garbage has popped holds what somebody may dereference.*)
NothingHeldIsPopped ==
  \A t, u \in Threads : popped[t].nodes \cap hold[u] = {}

(* Threads that end drop nodes others hold, but free_garbage does not, as  *)
(* long as no walk has read a freed marker (mod.rs:246-281).               *)
FreeGarbageIsSafe == ~strayed => NothingHeldIsPopped

(* At most one thread runs free_garbage. *)
OneFrees ==
  \A t, u \in Threads : Freeing(t) /\ Freeing(u) => t = u

(* Only one thread runs free_garbage at a time, with no lock: until the    *)
(* thread that moved the epoch unpins, nobody can move it again            *)
(* ("critical section", mod.rs:299-301), if threads end in between too,    *)
(* as long as no walk has read a freed marker.                             *)
FreeIsExclusive == ~strayed => OneFrees

(* Each bag in the queue is at most one epoch younger than those behind it.*)
TagsSortedByOne ==
  \A i, j \in DOMAIN garbage :
    i < j => garbage[i].epoch <= garbage[j].epoch + 1

(* Bags enter the queue with an epoch read earlier, so they may be out of  *)
(* order, but by one epoch at most, as long as no walk has read a freed    *)
(* marker: pop_if, which only looks at the head, never leaves garbage that *)
(* is two epochs overdue behind a fresh bag.                               *)
TagsNearlySorted == ~strayed => TagsSortedByOne

(* The bags a node is in. *)
Places(n) ==
  LET has(b) == n \in b.nodes
  IN  {<<"bag", t>> : t \in {u \in Threads : has(bag[u])}}
      \cup {<<"full", t>> : t \in {u \in Threads : has(full[u])}}
      \cup {<<"popped", t>> : t \in {u \in Threads : has(popped[u])}}
      \cup {<<"garbage", i>> : i \in {j \in DOMAIN garbage :
                                        has(garbage[j].bag)}}

(* A retired node is in one bag only, whoever has that bag at the moment,  *)
(* and a freed node is in none: nothing is leaked, nothing freed twice.    *)
GarbageConserved ==
  \A n \in Nodes :
    Cardinality(Places(n)) = IF status[n] = "retired" THEN 1 ELSE 0

(* The scheme keeps the promise of SafeReclaim. *)
Promise == INSTANCE SafeReclaim
KeepsPromise == Promise!Spec

(* Reduced to what a client can rely on, the scheme is the one of Epochs:  *)
(* the walk over the markers looks atomic, and no bag makes a node younger.*)
Scheme == INSTANCE Epochs
            WITH pinned <- {t \in Threads : InPin(t)},
                 retired <- {n \in Nodes : status[n] = "retired"},
                 freed <- {n \in Nodes : status[n] = "freed"}
FollowsScheme == Scheme!Spec

(* The epoch does not get stuck as long as threads keep pinning and their  *)
(* closures return: a thread that pinned with a stale epoch only delays it *)
(* ("which is not so bad", mod.rs:239-240).                                *)
EpochAdvances == <>(epoch >= MaxEpoch)

(* The loop of free_garbage ends although it produces garbage itself, one  *)
(* sentinel for every bag it pops.                                         *)
FreeLoopTerminates ==
  \A t \in Threads : Freeing(t) ~> ~Freeing(t)
=============================================================================
