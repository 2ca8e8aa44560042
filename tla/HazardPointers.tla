-------------------------- MODULE HazardPointers ---------------------------
(***************************************************************************)
(* The hazard pointers of src/hp/mod.rs and src/hp/atomic.rs: the slots    *)
(* of each thread, and how a node is freed with and without the feature    *)
(* hp-wait, the scan one slot at a time.                                   *)
(*                                                                         *)
(* ENTRIES is a fixed sequence here, all threads have their entry and keep *)
(* it.  HAZARD_QUEUE is a sequence: each call on it is one step, its own   *)
(* sentinels are left out, and with them that pop_hp_fn waits until nobody *)
(* has the old one registered, or defers it when it had to start again.    *)
(* The nodes of ENTRIES and HAZARD_QUEUE that free registers on the way    *)
(* are not written to the slots, as nobody frees them here; but there have *)
(* to be empty slots for them.                                             *)
(***************************************************************************)
EXTENDS Naturals, Sequences

CONSTANTS
  Threads,
  Nodes,
  Null,       \* the empty slot
  Entries,    \* the threads in the order of ENTRIES
  NumHp,      \* NUM_HP
  FreeEvery   \* N of free_from_queue: a call in N frees, up to N nodes

(* Assumed by the modules that use this one. *)
HazardConstants ==
  /\ Null \notin Nodes
  /\ Entries \in Seq(Threads) /\ Threads = {Entries[i] : i \in DOMAIN Entries}
  /\ NumHp \in Nat \ {0} /\ FreeEvery \in Nat \ {0}

VARIABLES
  waits,     \* whether the feature hp-wait is on
  slots,     \* ThreadEntry.hazard_pointers
  fpc,       \* where the thread is in HazardPtr::free
  victim,    \* the node it is freeing, or asking about
  at,        \* how many slots its scan has read, plus one
  calls,     \* COUNTER of free_from_queue, modulo FreeEvery
  turns,     \* how many turns of its loop are left
  deferred,  \* HAZARD_QUEUE
  freed      \* the nodes whose memory was given back

freeVars == <<fpc, victim, at, calls, turns, deferred, freed>>
vars == <<waits, slots, freeVars>>

Slots == 1..NumHp
Last == Len(Entries) * NumHp
Slot(i) == slots[Entries[((i - 1) \div NumHp) + 1]][((i - 1) % NumHp) + 1]

TypeOK ==
  /\ waits \in BOOLEAN
  /\ slots \in [Threads -> [Slots -> Nodes \cup {Null}]]
  /\ fpc \in [Threads ->
                {"idle", "start", "defer", "pop", "scan", "spin", "keep",
                 "drop"}]
  /\ victim \in [Threads -> Nodes \cup {Null}]
  /\ at \in [Threads -> 1..Last]
  /\ calls \in [Threads -> 0..FreeEvery - 1]
  /\ turns \in [Threads -> 0..FreeEvery]
  /\ deferred \in Seq(Nodes)
  /\ freed \in SUBSET Nodes

Init ==
  /\ waits \in BOOLEAN
  /\ slots = [t \in Threads |-> [i \in Slots |-> Null]]
  /\ fpc = [t \in Threads |-> "idle"]
  /\ victim = [t \in Threads |-> Null]
  /\ at = [t \in Threads |-> 1]
  /\ calls = [t \in Threads |-> 0]
  /\ turns = [t \in Threads |-> 0]
  /\ deferred = <<>>
  /\ freed = {}
-----------------------------------------------------------------------------
Holds(t, n) == {i \in Slots : slots[t][i] = n}
First(S) == CHOOSE i \in S : \A j \in S : i <= j
SetSlot(t, i, n) == slots' = [slots EXCEPT ![t][i] = n]

(* The first empty slot is taken; without one the caller panics. *)
Register(t, n) ==
  /\ Holds(t, Null) # {}
  /\ SetSlot(t, First(Holds(t, Null)), n)
  /\ UNCHANGED <<waits, freeVars>>

(* What free registers itself: to push takes a slot for the tail,          *)
(* pop_hp_fn two, for the head and the next node, and the iterator over    *)
(* ENTRIES two, for an entry and the next.  Without them the caller panics. *)
HasRoom(t) ==
  /\ fpc[t] \in {"defer", "keep"} => Holds(t, Null) # {}
  /\ fpc[t] \in {"pop", "scan", "spin"} => \E i, j \in Holds(t, Null) : i # j

(* Mutant: the slot is left as it is. *)
DeregisterNot(t, n) == UNCHANGED slots

(* The first slot with the pointer is cleared, if there is one. *)
Deregister(t, n) ==
  \/ Holds(t, n) # {} /\ SetSlot(t, First(Holds(t, n)), Null)
  \/ Holds(t, n) = {} /\ UNCHANGED slots

Goto(t, p) == fpc' = [fpc EXCEPT ![t] = p]
Aim(t, n) == victim' = [victim EXCEPT ![t] = n]
Rewind(t) == at' = [at EXCEPT ![t] = 1]

(* HazardPtr::free is called. *)
Free(t, n) ==
  /\ fpc[t] = "idle"
  /\ Goto(t, "start") /\ Aim(t, n)
  /\ UNCHANGED <<waits, at, calls, turns, deferred, freed>>

(* remove_thread_local has a node to itself, and waits with or without the *)
(* feature.                                                                *)
Reclaim(t, n) ==
  /\ fpc[t] = "idle"
  /\ Goto(t, "spin") /\ Aim(t, n)
  /\ UNCHANGED <<waits, slots, at, calls, turns, deferred, freed>>

(* Mutant: the own pointer stays registered. *)
StartFreeHeld(t) ==
  /\ fpc[t] = "start"
  /\ Goto(t, IF waits THEN "spin" ELSE "defer")
  /\ UNCHANGED <<waits, slots, victim, at, calls, turns, deferred, freed>>

(* The pointer is given up first: wait scans at once, defer_hp does not. *)
StartFree(t) ==
  /\ fpc[t] = "start"
  /\ Deregister(t, victim[t])
  /\ Goto(t, IF waits THEN "spin" ELSE "defer")
  /\ UNCHANGED <<waits, victim, at, calls, turns, deferred, freed>>

(* defer_hp, and the start of free_from_queue. *)
Defer(t) ==
  /\ fpc[t] = "defer" /\ HasRoom(t)
  /\ deferred' = Append(deferred, victim[t])
  /\ calls' = [calls EXCEPT ![t] = (@ + 1) % FreeEvery]
  /\ turns' = [turns EXCEPT ![t] = IF calls'[t] = 0 THEN FreeEvery ELSE 0]
  /\ Goto(t, IF calls'[t] = 0 THEN "pop" ELSE "idle")
  /\ Aim(t, Null)
  /\ UNCHANGED <<waits, slots, at, freed>>

(* A turn of free_from_queue. *)
PopDeferred(t) ==
  /\ fpc[t] = "pop" /\ HasRoom(t)
  /\ \/ /\ deferred = <<>>
        /\ Goto(t, "idle")
        /\ turns' = [turns EXCEPT ![t] = 0]
        /\ UNCHANGED <<victim, deferred>>
     \/ /\ deferred # <<>>
        /\ Aim(t, Head(deferred))
        /\ deferred' = Tail(deferred)
        /\ Goto(t, "scan")
        /\ UNCHANGED turns
  /\ UNCHANGED <<waits, slots, at, calls, freed>>

(* scan_addr reads one slot.  Who waits scans again and again. *)
ScanSlot(t) ==
  /\ fpc[t] \in {"scan", "spin"} /\ HasRoom(t)
  /\ \/ /\ Slot(at[t]) = victim[t]
        /\ Rewind(t)
        /\ Goto(t, IF fpc[t] = "spin" THEN "spin" ELSE "keep")
     \/ /\ Slot(at[t]) # victim[t] /\ at[t] < Last
        /\ at' = [at EXCEPT ![t] = @ + 1]
        /\ UNCHANGED fpc
     \/ /\ Slot(at[t]) # victim[t] /\ at[t] = Last
        /\ Rewind(t)
        /\ Goto(t, "drop")
  /\ UNCHANGED <<waits, slots, victim, calls, turns, deferred, freed>>

EndTurn(t) ==
  /\ turns' = [turns EXCEPT ![t] = IF @ = 0 THEN 0 ELSE @ - 1]
  /\ Goto(t, IF turns[t] > 1 THEN "pop" ELSE "idle")
  /\ Aim(t, Null)

(* Mutant: a node that is in use is forgotten. *)
KeepNot(t) ==
  /\ fpc[t] = "keep"
  /\ EndTurn(t)
  /\ UNCHANGED <<waits, slots, at, calls, deferred, freed>>

(* A node that is in use goes to the end of the queue again. *)
Keep(t) ==
  /\ fpc[t] = "keep" /\ HasRoom(t)
  /\ deferred' = Append(deferred, victim[t])
  /\ EndTurn(t)
  /\ UNCHANGED <<waits, slots, at, calls, freed>>

Drop(t) ==
  /\ fpc[t] = "drop"
  /\ freed' = freed \cup {victim[t]}
  /\ EndTurn(t)
  /\ UNCHANGED <<waits, slots, at, calls, deferred>>

Freeing(t) ==
  StartFree(t) \/ Defer(t) \/ PopDeferred(t) \/ ScanSlot(t) \/ Keep(t) \/ Drop(t)
-----------------------------------------------------------------------------
(* The nodes that are on their way to be freed, and who has them. *)
Deferred == {deferred[i] : i \in DOMAIN deferred}
Victims == {victim[t] : t \in Threads} \ {Null}

(* Nothing is freed twice: a node that is to be freed is with one thread,  *)
(* or once in the queue, and has not been freed.                           *)
FreedOnce ==
  /\ (Deferred \cup Victims) \cap freed = {}
  /\ Deferred \cap Victims = {}
  /\ \A i, j \in DOMAIN deferred : deferred[i] = deferred[j] => i = j
  /\ \A t, u \in Threads : victim[t] = victim[u] /\ victim[t] # Null => t = u
=============================================================================
