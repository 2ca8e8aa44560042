---------------------------- MODULE HpListProofs ---------------------------
(* Theorems about HpList for any number of threads, nodes and slots.       *)
EXTENDS HpList, MarkedListProofs, WellFoundedInduction

(* The nodes that are on their way to be freed, or were. *)
Gone == H!Deferred \cup H!Victims \cup freed

(* Where a thread is, as it knows it from what it has loaded. *)
PlaceInv(t) ==
  /\ pc[t] \notin AtNode => prev[t] = Root
  /\ pc[t] \in AtNode =>
       /\ prev[t] \in Ordered \cup {Root}
       /\ cur[t].to \in Behind(prev[t]) \cup {Null}
       /\ cur[t].to = Null => pc[t] = "visit" /\ ~Removes(t)
       /\ op[t] = "remove_front" => prev[t] = Root
  /\ pc[t] = "mark" => nxt[t].to \in Behind(cur[t].to) \cup {Null}
  /\ pc[t] = "unmark" /\ op[t] = "remove_front" =>
       found[t].to \in Ordered \cup {Null}

(* What goes with what: protection with the place, freeing with the end of *)
(* a removal.                                                              *)
GuardInv(t) ==
  /\ pc[t] \in {"out", "work", "return"} \cup Steps
  /\ pc[t] \in {"out", "work"} <=> op[t] = "none"
  /\ guard[t] \in {"register", "validate"} =>
       /\ pc[t] \in {"ins_cas", "visit", "mark"}
       /\ pc[t] = "mark" => op[t] = "remove_front"
  /\ guard[t] = "shift" => pc[t] = "visit" /\ op[t] \in {"remove", "remove_with"}
  /\ guard[t] = "trim" =>
       \/ pc[t] = "visit" /\ ~Removes(t)
       \/ pc[t] = "return" /\ op[t] = "remove_front" /\ fpc[t] = "start"
  /\ guard[t] = "use" => pc[t] = "visit" /\ op[t] = "walk" /\ prev[t] # Root
  /\ guard[t] = "leave" =>
       /\ pc[t] \in {"ins_load", "ins_cas", "head", "visit", "return"}
       /\ pc[t] = "visit" => op[t] = "remove_front"
  /\ fpc[t] # "idle" =>
       /\ pc[t] \in {"work", "return"}
       /\ pc[t] = "return" => op[t] \in {"remove", "remove_front"}
  /\ victim[t] = Null <=> fpc[t] \in {"idle", "pop"}
  /\ fpc[t] \notin {"scan", "spin"} => at[t] = 1
  /\ op[t] = "remove_with" => global
  /\ op[t] \in {"remove", "remove_front", "contains"} => ~global
  /\ pc[t] # "return" => result[t] = "pending"
  /\ pc[t] = "return" /\ op[t] = "remove_with" => result[t] \in Nodes \cup {Null}

(* The nodes a thread may have in its slots when it has nothing to drop:   *)
(* two at most, and one when it is about to register another.              *)
Wants(t) ==
  CASE guard[t] = "register" ->
         CASE pc[t] = "visit" -> {prev[t]}
           [] pc[t] = "mark" -> {cur[t].to}
           [] OTHER -> {}
    [] guard[t] # "register" /\ pc[t] = "ins_cas" -> {found[t].to}
    [] guard[t] # "register" /\ pc[t] \in AtNode ->
         {cur[t].to} \cup
           (IF op[t] = "remove_front" /\ pc[t] # "visit" THEN {nxt[t].to}
            ELSE IF Removes(t) \/ guard[t] = "validate" THEN {prev[t]} ELSE {})
    [] OTHER -> IF fpc[t] = "start" THEN {victim[t]} ELSE {}

(* A node is in one slot of a thread. *)
Distinct(t) ==
  \A i, j \in H!Slots : slots[t][i] = slots[t][j] /\ slots[t][i] # Null => i = j

SlotInv(t) ==
  /\ Distinct(t)
  /\ guard[t] \in {"none", "register", "validate", "use"} => Held(t) \subseteq Wants(t)
  /\ guard[t] = "shift" => cur[t].to \notin Held(t)
  /\ guard[t] = "validate" => Loaded(t).to \in Held(t) \cup {Null}

(* Slot i of the scan is slot k of thread t. *)
IsSlot(i, t, k) ==
  Entries[((i - 1) \div NumHp) + 1] = t /\ ((i - 1) % NumHp) + 1 = k

(* The slot k of t keeps n: n was not garbage yet when it was put there,   *)
(* so that who is to free it has not read the slot so far.                 *)
Shields(t, k, n) ==
  /\ slots[t][k] = n /\ n \notin freed
  /\ \A u \in Threads : victim[u] = n =>
       /\ fpc[u] # "drop"
       /\ \A i \in 1..H!Last : IsSlot(i, t, k) => i >= at[u]

(* The nodes an operation has validated and not given up.  The iterator    *)
(* gives up the node before.                                               *)
Protected(t) ==
  IF op[t] = "walk" \/ guard[t] = "leave" \/ pc[t] \notin AtNode THEN {}
  ELSE (IF pc[t] = "visit" /\ guard[t] \in {"register", "validate", "shift"}
        THEN {} ELSE {cur[t].to})
       \cup (IF Removes(t) \/ guard[t] \in {"register", "validate"}
             THEN {prev[t]} ELSE {})

KeepInv(t) ==
  \A n \in Protected(t) \cap Nodes : \E k \in H!Slots : Shields(t, k, n)

(* What remove_with is about to remove is still in the list. *)
WithInv(t) ==
  op[t] = "remove_with" /\ pc[t] = "visit" /\ guard[t] = "none" /\ Hit(t) =>
    cur[t].to \notin out

(* Who is to wait for others has only what was inserted after its own node. *)
WaitInv(t) ==
  fpc[t] \in {"start", "spin"} /\ guard[t] # "trim" =>
    \A n \in Held(t) :
      n \in Ordered /\ ((n = victim[t] /\ fpc[t] = "start") \/ victim[t] \in Behind(n))

(* The node that a thread has removed and is still to dispose of. *)
Hand(t) ==
  IF pc[t] = "take" THEN {cur[t].to}
  ELSE IF op[t] = "remove_with" THEN {result[t]} \cap Nodes ELSE {}

(* A removed node is in one hand, or garbage. *)
DisposeInv ==
  /\ H!FreedOnce
  /\ \A t, u \in Threads : t # u => Hand(t) \cap Hand(u) = {}
  /\ \A t \in Threads : Hand(t) \cap Gone = {} /\ Hand(t) \subseteq out
  /\ Gone \subseteq out
  /\ \A n \in out \ Gone : \E t \in Threads : n \in Hand(t)

(* List::drop leaves the tags of the nodes it frees as they are. *)
Dropped == OutTagged \/ \A t \in Threads : pc[t] = "out"

ThreadOK(t) == PlaceInv(t) /\ GuardInv(t) /\ SlotInv(t) /\ WaitInv(t)

IInv ==
  /\ ListInv /\ Dropped /\ TypeOK /\ DisposeInv
  /\ result \in [Threads -> Results]
  /\ \A t \in Threads : ThreadOK(t) /\ KeepInv(t) /\ WithInv(t)
-----------------------------------------------------------------------------
(* Numbers. *)
LEMMA Least ==
  ASSUME NEW S \in SUBSET Nat, S # {}
  PROVE  \E m \in S : \A j \in S : m <= j
  <1>1. IsWellFoundedOn({ss \in Nat \X Nat : ss[1] < ss[2]}, Nat)
    BY NatLessThanWellFounded DEF OpToRel
  <1>2. \E m \in S : \A j \in S : ~(<<j, m>> \in {ss \in Nat \X Nat : ss[1] < ss[2]})
    BY <1>1, WFMin
  <1>3. PICK m \in S : \A j \in S : ~(<<j, m>> \in {ss \in Nat \X Nat : ss[1] < ss[2]})
    BY <1>2
  <1>4. ASSUME NEW j \in S PROVE m <= j
    <2>1. <<j, m>> \in Nat \X Nat /\ <<j, m>>[1] = j /\ <<j, m>>[2] = m
      OBVIOUS
    <2>2. ~(j < m)
      BY <1>3, <2>1
    <2> QED BY <2>2
  <1> QED BY <1>4

LEMMA FirstIsIn ==
  ASSUME NEW S \in SUBSET H!Slots, S # {}
  PROVE  H!First(S) \in S
  <1>1. S \subseteq Nat
    BY HpListAssumption DEF H!Slots, H!HazardConstants
  <1>2. \E i \in S : \A j \in S : i <= j
    BY <1>1, Least
  <1> QED BY <1>2 DEF H!First
-----------------------------------------------------------------------------
(* What a queue of distinct nodes is after an addition, and after a        *)
(* removal.                                                                *)
InQueue(q) == {q[i] : i \in DOMAIN q}
Once(q) == \A i, j \in DOMAIN q : q[i] = q[j] => i = j

LEMMA Appended ==
  ASSUME NEW q \in Seq(Nodes), NEW n \in Nodes
  PROVE  /\ Append(q, n) \in Seq(Nodes)
         /\ InQueue(Append(q, n)) = InQueue(q) \cup {n}
         /\ Once(q) /\ n \notin InQueue(q) => Once(Append(q, n))
  <1>1. PICK l \in Nat : /\ DOMAIN q = 1..l /\ DOMAIN Append(q, n) = 1..l + 1
                         /\ \A i \in 1..l : Append(q, n)[i] = q[i]
                         /\ Append(q, n)[l + 1] = n
    <2>1. Len(q) \in Nat /\ DOMAIN q = 1..Len(q)
      BY LenProperties
    <2>2. /\ DOMAIN Append(q, n) = 1..Len(q) + 1
          /\ \A i \in 1..Len(q) : Append(q, n)[i] = q[i]
          /\ Append(q, n)[Len(q) + 1] = n
      BY AppendProperties, LenProperties
    <2> QED BY <2>1, <2>2
  <1>2. Append(q, n) \in Seq(Nodes)
    BY AppendProperties
  <1>3. InQueue(Append(q, n)) = InQueue(q) \cup {n}
    BY <1>1 DEF InQueue
  <1>4. Once(q) /\ n \notin InQueue(q) => Once(Append(q, n))
    BY <1>1 DEF InQueue, Once
  <1> QED BY <1>2, <1>3, <1>4

LEMMA Removed ==
  ASSUME NEW q \in Seq(Nodes), q # <<>>
  PROVE  /\ Tail(q) \in Seq(Nodes) /\ Head(q) \in Nodes
         /\ InQueue(q) = InQueue(Tail(q)) \cup {Head(q)}
         /\ Once(q) => Once(Tail(q)) /\ Head(q) \notin InQueue(Tail(q))
  <1>1. Tail(q) \in Seq(Nodes) /\ Head(q) \in Nodes
    BY HeadTailProperties
  <1>2. PICK l \in Nat : /\ DOMAIN q = 1..l + 1 /\ DOMAIN Tail(q) = 1..l
                         /\ \A i \in 1..l : Tail(q)[i] = q[i + 1]
                         /\ Head(q) = q[1]
    <2>1. PICK m \in Nat : Len(q) = m + 1
      <3>1. Len(q) \in Nat /\ Len(q) # 0
        BY EmptySeq, LenProperties
      <3>2. Len(q) - 1 \in Nat /\ Len(q) = (Len(q) - 1) + 1
        BY <3>1
      <3> QED BY <3>2
    <2>2. Len(Tail(q)) = m /\ DOMAIN q = 1..m + 1
      BY <2>1, HeadTailProperties, LenProperties
    <2>3. DOMAIN Tail(q) = 1..m /\ Head(q) = q[1]
      BY <1>1, <2>2, HeadTailProperties, LenProperties
    <2>4. \A i \in 1..m : Tail(q)[i] = q[i + 1]
      BY <2>2, HeadTailProperties
    <2> QED BY <2>2, <2>3, <2>4
  <1>3. InQueue(q) = InQueue(Tail(q)) \cup {Head(q)}
    <2>1. ASSUME NEW i \in 1..l + 1 PROVE q[i] \in InQueue(Tail(q)) \cup {Head(q)}
      <3>1. i = 1 \/ (i - 1 \in 1..l /\ (i - 1) + 1 = i)
        BY <2>1
      <3> QED BY <1>2, <3>1 DEF InQueue
    <2>2. ASSUME NEW i \in 1..l PROVE Tail(q)[i] \in InQueue(q)
      <3>1. i + 1 \in 1..l + 1
        BY <2>2
      <3> QED BY <1>2, <3>1 DEF InQueue
    <2>3. Head(q) \in InQueue(q)
      BY <1>2 DEF InQueue
    <2> QED BY <1>2, <2>1, <2>2, <2>3 DEF InQueue
  <1>4. ASSUME Once(q) PROVE Once(Tail(q)) /\ Head(q) \notin InQueue(Tail(q))
    BY <1>2, <1>4 DEF InQueue, Once
  <1> QED BY <1>1, <1>3, <1>4

(* What scan_addr reads, slot by slot, is all slots of all threads.        *)
LEMMA ScanMeets ==
  ASSUME NEW t \in Threads, NEW k \in H!Slots
  PROVE  /\ H!Last \in Nat \ {0}
         /\ \E i \in 1..H!Last : IsSlot(i, t, k)
  <1>1. PICK e \in 1..Len(Entries) : Entries[e] = t
    BY HpListAssumption, LenProperties DEF H!HazardConstants
  <1>2. NumHp \in Nat \ {0} /\ Len(Entries) \in Nat /\ k \in 1..NumHp
    BY HpListAssumption, LenProperties DEF H!HazardConstants, H!Slots
  <1> DEFINE i == (e - 1) * NumHp + k
  <1>3. (e - 1) * NumHp \in Nat /\ i - 1 = (e - 1) * NumHp + (k - 1)
    BY <1>1, <1>2
  <1>4. i \in 1..H!Last
    <2>1. (Len(Entries) - e) * NumHp \in Nat
      BY <1>1, <1>2
    <2>2. H!Last = (e - 1) * NumHp + NumHp + (Len(Entries) - e) * NumHp
      BY <1>1, <1>2 DEF H!Last
    <2> QED BY <1>2, <1>3, <2>1, <2>2
  <1>5. (i - 1) \div NumHp = e - 1 /\ (i - 1) % NumHp = k - 1
    BY <1>1, <1>2, <1>3
  <1>6. IsSlot(i, t, k)
    BY <1>1, <1>2, <1>5 DEF IsSlot
  <1>7. H!Last \in Nat
    BY <1>2 DEF H!Last
  <1>8. H!Last # 0
    BY <1>4, <1>7
  <1> QED BY <1>4, <1>6, <1>7, <1>8

(* The slots of a thread. *)
SlotsType == slots \in [Threads -> [H!Slots -> Nodes \cup {Null}]]

OtherSlots(t) == \A u \in Threads \ {t} : slots'[u] = slots[u]

LEMMA ThreeSlots == 1 \in H!Slots /\ 2 \in H!Slots /\ 3 \in H!Slots
  BY HpListAssumption DEF H!Slots, H!HazardConstants

LEMMA SlotSet ==
  ASSUME SlotsType, NEW t \in Threads, NEW i \in H!Slots,
         NEW n \in Nodes \cup {Null}, H!SetSlot(t, i, n)
  PROVE  /\ SlotsType' /\ OtherSlots(t)
         /\ slots'[t][i] = n
         /\ \A j \in H!Slots \ {i} : slots'[t][j] = slots[t][j]
  BY DEF SlotsType, H!SetSlot, OtherSlots

LEMMA Registers ==
  ASSUME SlotsType, NEW t \in Threads, NEW n \in Nodes, Distinct(t),
         n \notin Held(t), H!Register(t, n)
  PROVE  /\ SlotsType' /\ OtherSlots(t)
         /\ Distinct(t)' /\ Held(t)' = Held(t) \cup {n}
         /\ \A k \in H!Slots : slots[t][k] # Null => slots'[t][k] = slots[t][k]
  <1>1. PICK i \in H!Slots : slots[t][i] = Null /\ H!SetSlot(t, i, n)
    <2>1. H!First(H!Holds(t, Null)) \in H!Holds(t, Null)
      BY FirstIsIn DEF H!Register, H!Holds
    <2> QED BY <2>1 DEF H!Register, H!Holds
  <1>2. /\ SlotsType' /\ OtherSlots(t) /\ slots'[t][i] = n
        /\ \A j \in H!Slots \ {i} : slots'[t][j] = slots[t][j]
    BY <1>1, SlotSet
  <1>3. n # Null
    BY ListAssumption
  <1>4. Held(t)' = Held(t) \cup {n}
    BY <1>1, <1>2, <1>3 DEF Held
  <1>5. Distinct(t)'
    BY <1>2 DEF Distinct, Held
  <1> QED BY <1>1, <1>2, <1>4, <1>5

LEMMA Deregisters ==
  ASSUME SlotsType, NEW t \in Threads, NEW n \in Nodes, Distinct(t),
         H!Deregister(t, n)
  PROVE  /\ SlotsType' /\ OtherSlots(t)
         /\ Distinct(t)' /\ Held(t)' = Held(t) \ {n}
         /\ \A k \in H!Slots : slots[t][k] # n => slots'[t][k] = slots[t][k]
  <1>1. CASE H!Holds(t, n) = {}
    <2>1. slots' = slots /\ n \notin Held(t)
      BY <1>1, ListAssumption DEF H!Deregister, H!Holds, Held
    <2> QED BY <2>1 DEF SlotsType, OtherSlots, Distinct, Held
  <1>2. CASE H!Holds(t, n) # {}
    <2>1. PICK i \in H!Slots : slots[t][i] = n /\ H!SetSlot(t, i, Null)
      <3>1. H!First(H!Holds(t, n)) \in H!Holds(t, n)
        BY <1>2, FirstIsIn DEF H!Holds
      <3> QED BY <1>2, <3>1 DEF H!Deregister, H!Holds
    <2>2. /\ SlotsType' /\ OtherSlots(t) /\ slots'[t][i] = Null
          /\ \A j \in H!Slots \ {i} : slots'[t][j] = slots[t][j]
      BY <2>1, SlotSet
    <2>3. n # Null
      BY ListAssumption
    <2>4. \A j \in H!Slots \ {i} : slots[t][j] # n
      BY <2>1, <2>3 DEF Distinct
    <2>5. Held(t)' = Held(t) \ {n}
      BY <2>1, <2>2, <2>3, <2>4 DEF Held
    <2>6. Distinct(t)'
      BY <2>2 DEF Distinct
    <2> QED BY <2>1, <2>2, <2>5, <2>6
  <1> QED BY <1>1, <1>2

LEMMA EmptySlots ==
  ASSUME SlotsType, NEW t \in Threads, Distinct(t), NEW x, Held(t) \subseteq {x}
  PROVE  /\ H!Holds(t, Null) # {}
         /\ \E i, j \in H!Holds(t, Null) : i # j
  <1>1. \A i, j \in H!Slots : i # j => slots[t][i] = Null \/ slots[t][j] = Null
    BY DEF Distinct, Held
  <1>2. \E i, j \in {1, 2, 3} : i # j /\ slots[t][i] = Null /\ slots[t][j] = Null
    BY <1>1, ThreeSlots
  <1>3. \E i, j \in H!Holds(t, Null) : i # j
    BY <1>2, ThreeSlots DEF H!Holds
  <1> QED BY <1>3
-----------------------------------------------------------------------------
(* What a step of HazardPtr::free does to the thread that takes it. *)
FreeingNow(t) ==
  /\ victim[t] = Null <=> fpc[t] \in {"idle", "pop"}
  /\ fpc[t] \notin {"scan", "spin"} => at[t] = 1

Unfreeing(t) ==
  \A u \in Threads \ {t} :
    fpc'[u] = fpc[u] /\ victim'[u] = victim[u] /\ at'[u] = at[u]

LEMMA FreeingTypes ==
  ASSUME H!TypeOK, NEW t \in Threads, FreeingNow(t), Distinct(t), H!Freeing(t)
  PROVE  /\ H!TypeOK' /\ Unfreeing(t) /\ OtherSlots(t)
         /\ FreeingNow(t)' /\ Distinct(t)'
         /\ fpc[t] # "idle" /\ fpc'[t] # "start"
         /\ fpc[t] = "start" => victim'[t] = victim[t] /\ Held(t)' = Held(t) \ {victim[t]}
         /\ fpc[t] # "start" => slots' = slots
         /\ fpc'[t] = "spin" =>
              fpc[t] \in {"start", "spin"} /\ victim'[t] = victim[t]
  <1>1. FreeEvery \in Nat \ {0} /\ H!Last \in Nat \ {0}
    BY HpListAssumption, ScanMeets, ThreeSlots DEF H!HazardConstants
  <1>2. /\ victim[t] = Null <=> fpc[t] \in {"idle", "pop"}
        /\ fpc[t] \notin {"scan", "spin"} => at[t] = 1
        /\ victim[t] \in Nodes \cup {Null}
    BY DEF H!TypeOK, FreeingNow
  <1>3. ASSUME slots' = slots PROVE OtherSlots(t) /\ Distinct(t)'
    BY <1>3 DEF OtherSlots, Distinct
  <1> USE DEF H!Goto, H!Aim, H!Rewind, H!EndTurn
  <1>4. CASE H!StartFree(t)
    <2>1. /\ fpc' = [fpc EXCEPT ![t] = IF waits THEN "spin" ELSE "defer"]
          /\ UNCHANGED <<waits, victim, at, calls, turns, deferred, freed>>
          /\ fpc[t] = "start" /\ at[t] = 1 /\ victim[t] \in Nodes
      BY <1>2, <1>4 DEF H!StartFree
    <2>2. /\ SlotsType' /\ OtherSlots(t) /\ Distinct(t)'
          /\ Held(t)' = Held(t) \ {victim[t]}
      BY <1>4, <2>1, Deregisters DEF H!StartFree, SlotsType, H!TypeOK
    <2>3. H!TypeOK'
      BY <2>1, <2>2 DEF H!TypeOK, SlotsType
    <2>4. fpc'[t] \in {"spin", "defer"} /\ Unfreeing(t) /\ victim'[t] = victim[t]
      BY <2>1 DEF H!TypeOK, Unfreeing
    <2> QED BY <1>2, <2>1, <2>2, <2>3, <2>4 DEF FreeingNow
  <1>5. CASE H!Defer(t)
    <2>1. victim[t] \in Nodes
      BY <1>2, <1>5 DEF H!Defer
    <2>2. deferred' \in Seq(Nodes)
      BY <1>5, <2>1, Appended DEF H!Defer, H!TypeOK
    <2>3. (calls[t] + 1) % FreeEvery \in 0..FreeEvery - 1
      BY <1>1 DEF H!TypeOK
    <2>4. PICK c \in 0..FreeEvery - 1 :
            /\ fpc[t] = "defer"
            /\ calls' = [calls EXCEPT ![t] = c]
            /\ turns' = [turns EXCEPT ![t] = IF c = 0 THEN FreeEvery ELSE 0]
            /\ fpc' = [fpc EXCEPT ![t] = IF c = 0 THEN "pop" ELSE "idle"]
            /\ victim' = [victim EXCEPT ![t] = Null]
            /\ UNCHANGED <<waits, slots, at, freed>>
      BY <1>5, <2>3 DEF H!Defer, H!TypeOK
    <2>5. H!TypeOK'
      BY <1>1, <2>2, <2>4 DEF H!TypeOK
    <2>6. Unfreeing(t) /\ fpc'[t] \in {"pop", "idle"} /\ victim'[t] = Null
      BY <2>4 DEF H!TypeOK, Unfreeing
    <2> QED BY <1>2, <1>3, <2>4, <2>5, <2>6 DEF FreeingNow
  <1>6. CASE H!PopDeferred(t)
    <2>1. CASE deferred = <<>>
      <3>1. /\ fpc' = [fpc EXCEPT ![t] = "idle"] /\ turns' = [turns EXCEPT ![t] = 0]
            /\ fpc[t] = "pop"
            /\ UNCHANGED <<victim, deferred, waits, slots, at, calls, freed>>
        BY <1>6, <2>1 DEF H!PopDeferred
      <3>2. H!TypeOK'
        BY <1>1, <3>1 DEF H!TypeOK
      <3>3. Unfreeing(t) /\ fpc'[t] = "idle"
        BY <3>1 DEF H!TypeOK, Unfreeing
      <3> QED BY <1>2, <1>3, <3>1, <3>2, <3>3 DEF FreeingNow
    <2>2. CASE deferred # <<>>
      <3>1. /\ fpc' = [fpc EXCEPT ![t] = "scan"] /\ fpc[t] = "pop"
            /\ victim' = [victim EXCEPT ![t] = Head(deferred)]
            /\ deferred' = Tail(deferred)
            /\ UNCHANGED <<turns, waits, slots, at, calls, freed>>
        BY <1>6, <2>2 DEF H!PopDeferred
      <3>2. Head(deferred) \in Nodes /\ Tail(deferred) \in Seq(Nodes)
        BY <2>2, Removed DEF H!TypeOK
      <3>3. H!TypeOK'
        BY <3>1, <3>2 DEF H!TypeOK
      <3>4. Unfreeing(t) /\ fpc'[t] = "scan" /\ victim'[t] \in Nodes
        BY <3>1, <3>2 DEF H!TypeOK, Unfreeing
      <3> QED BY <1>2, <1>3, <3>1, <3>3, <3>4, ListAssumption DEF FreeingNow
    <2> QED BY <2>1, <2>2
  <1>7. CASE H!ScanSlot(t)
    <2>1. /\ fpc[t] \in {"scan", "spin"}
          /\ UNCHANGED <<waits, slots, victim, calls, turns, deferred, freed>>
          /\ \/ /\ at' = [at EXCEPT ![t] = 1]
                /\ \E p \in {"spin", "keep", "drop"} :
                     fpc' = [fpc EXCEPT ![t] = p] /\ (p = "spin" => fpc[t] = "spin")
             \/ at[t] < H!Last /\ at' = [at EXCEPT ![t] = at[t] + 1] /\ UNCHANGED fpc
      BY <1>7 DEF H!ScanSlot, H!TypeOK
    <2>2. at[t] \in 1..H!Last
      BY DEF H!TypeOK
    <2>3. at'[t] \in 1..H!Last /\ at' = [at EXCEPT ![t] = at'[t]]
      BY <1>1, <2>1, <2>2 DEF H!TypeOK
    <2>4. H!TypeOK'
      BY <2>1, <2>3 DEF H!TypeOK
    <2>5. /\ fpc'[t] \in {"scan", "spin", "keep", "drop"}
          /\ fpc'[t] = "spin" => fpc[t] = "spin"
          /\ fpc'[t] \notin {"scan", "spin"} => at'[t] = 1
      BY <2>1 DEF H!TypeOK
    <2>6. Unfreeing(t)
      BY <2>1 DEF H!TypeOK, Unfreeing
    <2> QED BY <1>2, <1>3, <2>1, <2>4, <2>5, <2>6 DEF FreeingNow
  <1>8. CASE H!Keep(t) \/ H!Drop(t)
    <2>1. victim[t] \in Nodes
      BY <1>2, <1>8 DEF H!Keep, H!Drop
    <2>2. deferred' \in Seq(Nodes) /\ freed' \in SUBSET Nodes
      <3>1. CASE H!Keep(t)
        BY <2>1, <3>1, Appended DEF H!Keep, H!TypeOK
      <3>2. CASE H!Drop(t)
        BY <2>1, <3>2 DEF H!Drop, H!TypeOK
      <3> QED BY <1>8, <3>1, <3>2
    <2>3. /\ fpc[t] \in {"keep", "drop"}
          /\ turns' = [turns EXCEPT ![t] = IF turns[t] = 0 THEN 0 ELSE turns[t] - 1]
          /\ fpc' = [fpc EXCEPT ![t] = IF turns[t] > 1 THEN "pop" ELSE "idle"]
          /\ victim' = [victim EXCEPT ![t] = Null]
          /\ UNCHANGED <<waits, slots, at, calls>>
      BY <1>8 DEF H!Keep, H!Drop, H!TypeOK
    <2>4. (IF turns[t] = 0 THEN 0 ELSE turns[t] - 1) \in 0..FreeEvery
      <3>1. turns[t] \in 0..FreeEvery
        BY DEF H!TypeOK
      <3> QED BY <1>1, <3>1
    <2>5. turns' \in [Threads -> 0..FreeEvery]
      BY <2>3, <2>4 DEF H!TypeOK
    <2>6. H!TypeOK'
      BY <2>2, <2>3, <2>5 DEF H!TypeOK
    <2>7. Unfreeing(t) /\ fpc'[t] \in {"pop", "idle"} /\ victim'[t] = Null
      BY <2>3 DEF H!TypeOK, Unfreeing
    <2> QED BY <1>2, <1>3, <2>3, <2>6, <2>7 DEF FreeingNow
  <1> QED BY <1>4, <1>5, <1>6, <1>7, <1>8 DEF H!Freeing

(* HazardPtr::free, or the wait of remove_thread_local, begins. *)
Starts(t, n, p) ==
  /\ fpc[t] = "idle" /\ fpc' = [fpc EXCEPT ![t] = p]
  /\ victim' = [victim EXCEPT ![t] = n]
  /\ UNCHANGED <<waits, slots, at, calls, turns, deferred, freed>>

LEMMA StartTypes ==
  ASSUME H!TypeOK, NEW t \in Threads, FreeingNow(t), Distinct(t),
         NEW n \in Nodes, NEW p \in {"start", "spin"}, Starts(t, n, p)
  PROVE  /\ H!TypeOK' /\ Unfreeing(t) /\ OtherSlots(t)
         /\ FreeingNow(t)' /\ Distinct(t)'
         /\ fpc'[t] = p /\ victim'[t] = n
  <1>1. H!TypeOK'
    BY DEF H!TypeOK, Starts
  <1>2. /\ Unfreeing(t) /\ OtherSlots(t) /\ fpc'[t] = p /\ victim'[t] = n
        /\ slots' = slots /\ at' = at
    BY DEF H!TypeOK, Starts, Unfreeing, OtherSlots
  <1>3. FreeingNow(t)' /\ Distinct(t)'
    BY <1>2, ListAssumption DEF FreeingNow, Distinct, Starts
  <1> QED BY <1>1, <1>2, <1>3
-----------------------------------------------------------------------------
(* A thread has a node to free, and only it, or none. *)
OneVictim ==
  \A t, u \in Threads : victim[t] = victim[u] /\ victim[t] # Null => t = u

LEMMA OnceIs ==
  H!FreedOnce <=>
    /\ (InQueue(deferred) \cup H!Victims) \cap freed = {}
    /\ InQueue(deferred) \cap H!Victims = {}
    /\ Once(deferred)
    /\ OneVictim
  BY DEF H!FreedOnce, H!Deferred, InQueue, Once, OneVictim

LEMMA OnceNext ==
  (H!FreedOnce <=>
    /\ (InQueue(deferred) \cup H!Victims) \cap freed = {}
    /\ InQueue(deferred) \cap H!Victims = {}
    /\ Once(deferred)
    /\ OneVictim)'
  BY OnceIs, PTL

LEMMA GivenUp ==
  ASSUME H!TypeOK, OneVictim, NEW t \in Threads, victim[t] # Null,
         victim' = [victim EXCEPT ![t] = Null]
  PROVE  OneVictim' /\ H!Victims' = H!Victims \ {victim[t]} /\ victim[t] \in H!Victims
  BY DEF H!TypeOK, OneVictim, H!Victims

LEMMA TakenUp ==
  ASSUME H!TypeOK, OneVictim, NEW t \in Threads, victim[t] = Null,
         NEW n \in Nodes, n \notin H!Victims,
         victim' = [victim EXCEPT ![t] = n]
  PROVE  OneVictim' /\ H!Victims' = H!Victims \cup {n}
  <1>1. n # Null /\ \A u \in Threads : victim[u] # n
    BY ListAssumption DEF H!Victims
  <1> QED BY <1>1 DEF H!TypeOK, OneVictim, H!Victims

LEMMA FreeingGone ==
  ASSUME H!TypeOK, H!FreedOnce, NEW t \in Threads, FreeingNow(t), H!Freeing(t)
  PROVE  Gone' = Gone /\ H!FreedOnce'
  <1>0. /\ deferred \in Seq(Nodes)
        /\ victim[t] = Null <=> fpc[t] \in {"idle", "pop"}
        /\ victim[t] # Null => victim[t] \in Nodes
    BY DEF H!TypeOK, FreeingNow
  <1>1. /\ (InQueue(deferred) \cup H!Victims) \cap freed = {}
        /\ InQueue(deferred) \cap H!Victims = {}
        /\ Once(deferred) /\ OneVictim
    BY OnceIs
  <1>a. /\ Gone = InQueue(deferred) \cup H!Victims \cup freed
        /\ Gone' = InQueue(deferred') \cup H!Victims' \cup freed'
    BY DEF Gone, H!Deferred, InQueue
  <1> USE DEF H!Goto, H!Aim, H!Rewind, H!EndTurn
  <1>2. CASE \/ H!StartFree(t) \/ H!ScanSlot(t)
             \/ H!PopDeferred(t) /\ deferred = <<>>
    <2>1. UNCHANGED <<victim, deferred, freed>>
      BY <1>2 DEF H!StartFree, H!ScanSlot, H!PopDeferred
    <2> QED BY <1>1, <1>a, <2>1, OnceNext DEF H!Victims, InQueue, Once, OneVictim
  <1>3. CASE H!Defer(t) \/ H!Keep(t)
    <2>1. /\ deferred' = Append(deferred, victim[t]) /\ freed' = freed
          /\ victim' = [victim EXCEPT ![t] = Null] /\ victim[t] # Null
      BY <1>0, <1>3 DEF H!Defer, H!Keep
    <2>2. /\ OneVictim' /\ H!Victims' = H!Victims \ {victim[t]}
          /\ victim[t] \in H!Victims
      BY <1>1, <2>1, GivenUp
    <2>3. /\ InQueue(deferred') = InQueue(deferred) \cup {victim[t]}
          /\ Once(deferred')
      BY <1>0, <1>1, <2>1, <2>2, Appended
    <2>4. Once(deferred)' /\ InQueue(deferred)' = InQueue(deferred')
      BY <2>3 DEF Once, InQueue
    <2> QED BY <1>1, <1>a, <2>1, <2>2, <2>3, <2>4, OnceNext
  <1>4. CASE H!PopDeferred(t) /\ deferred # <<>>
    <2>1. /\ victim' = [victim EXCEPT ![t] = Head(deferred)] /\ freed' = freed
          /\ deferred' = Tail(deferred) /\ victim[t] = Null
      BY <1>0, <1>4 DEF H!PopDeferred
    <2>2. /\ Head(deferred) \in Nodes
          /\ InQueue(deferred) = InQueue(deferred') \cup {Head(deferred)}
          /\ Once(deferred') /\ Head(deferred) \notin InQueue(deferred')
      BY <1>0, <1>1, <1>4, <2>1, Removed
    <2>3. OneVictim' /\ H!Victims' = H!Victims \cup {Head(deferred)}
      BY <1>1, <2>1, <2>2, TakenUp
    <2>4. Once(deferred)' /\ InQueue(deferred)' = InQueue(deferred')
      BY <2>2 DEF Once, InQueue
    <2> QED BY <1>1, <1>a, <2>1, <2>2, <2>3, <2>4, OnceNext
  <1>5. CASE H!Drop(t)
    <2>1. /\ freed' = freed \cup {victim[t]} /\ deferred' = deferred
          /\ victim' = [victim EXCEPT ![t] = Null] /\ victim[t] # Null
      BY <1>0, <1>5 DEF H!Drop
    <2>2. /\ OneVictim' /\ H!Victims' = H!Victims \ {victim[t]}
          /\ victim[t] \in H!Victims
      BY <1>1, <2>1, GivenUp
    <2> QED BY <1>1, <1>a, <2>1, <2>2, OnceNext DEF Once, InQueue
  <1> QED BY <1>2, <1>3, <1>4, <1>5 DEF H!Freeing

LEMMA StartGone ==
  ASSUME H!TypeOK, H!FreedOnce, NEW t \in Threads, FreeingNow(t),
         NEW n \in Nodes \ Gone, NEW p, Starts(t, n, p)
  PROVE  Gone' = Gone \cup {n} /\ H!FreedOnce'
  <1>1. /\ (InQueue(deferred) \cup H!Victims) \cap freed = {}
        /\ InQueue(deferred) \cap H!Victims = {}
        /\ Once(deferred) /\ OneVictim
    BY OnceIs
  <1>2. /\ Gone = InQueue(deferred) \cup H!Victims \cup freed
        /\ Gone' = InQueue(deferred') \cup H!Victims' \cup freed'
    BY DEF Gone, H!Deferred, InQueue
  <1>3. OneVictim' /\ H!Victims' = H!Victims \cup {n}
    BY <1>1, <1>2, TakenUp DEF Starts, FreeingNow
  <1>4. deferred' = deferred /\ freed' = freed
    BY DEF Starts
  <1> QED BY <1>1, <1>2, <1>3, <1>4, OnceNext DEF Once, InQueue

LEMMA NothingGoes ==
  ASSUME H!FreedOnce, UNCHANGED <<victim, deferred, freed>>
  PROVE  Gone' = Gone /\ H!FreedOnce'
  BY DEF Gone, H!Deferred, H!Victims, H!FreedOnce
-----------------------------------------------------------------------------
(* What a thread may do to what is being freed. *)
FreeStep(u) ==
  \/ UNCHANGED <<fpc, victim, at, freed>>
  \/ H!Freeing(u)
  \/ \E n \in Nodes, p \in {"start", "spin"} : Starts(u, n, p)

(* A node that no thread is to free is shielded by every slot it is in.    *)
LEMMA ShieldsReached ==
  ASSUME NEW n \in Nodes \ Gone, NEW t, NEW k, slots[t][k] = n
  PROVE  Shields(t, k, n)
  BY ListAssumption DEF Gone, H!Victims, Shields

LEMMA ShieldsReachedNext ==
  \A t, k : \A n \in Nodes : n \notin Gone' /\ slots'[t][k] = n => Shields(t, k, n)'
  BY ListAssumption DEF Gone, H!Victims, Shields

(* A node in a slot stays there for the scans of the others: who has read  *)
(* all slots without meeting it would have read this one.                  *)
LEMMA ShieldsOn ==
  ASSUME H!TypeOK, NEW u \in Threads, FreeingNow(u), FreeStep(u),
         NEW t \in Threads, NEW k \in H!Slots, NEW n \in Nodes,
         Shields(t, k, n), slots'[t][k] = n
  PROVE  Shields(t, k, n)'
  <1>0. /\ n # Null /\ H!Last \in Nat \ {0}
        /\ fpc[u] \notin {"scan", "spin"} => at[u] = 1
    BY ListAssumption, ScanMeets DEF FreeingNow
  <1>1. /\ n \notin freed
        /\ \A x \in Threads : victim[x] = n =>
             fpc[x] # "drop" /\ \A i \in 1..H!Last : IsSlot(i, t, k) => i >= at[x]
    BY DEF Shields
  <1>2. CASE UNCHANGED <<fpc, victim, at, freed>>
    BY <1>1, <1>2 DEF Shields
  <1>3. ASSUME n \notin freed',
               \A x \in Threads \ {u} :
                 victim'[x] = victim[x] /\ fpc'[x] = fpc[x] /\ at'[x] = at[x],
               victim'[u] # n \/ (fpc'[u] # "drop" /\ at'[u] = 1)
        PROVE  Shields(t, k, n)'
    BY <1>0, <1>1, <1>3 DEF Shields
  <1>4. ASSUME NEW m \in Nodes, NEW p \in {"start", "spin"}, Starts(u, m, p)
        PROVE  Shields(t, k, n)'
    BY <1>0, <1>1, <1>3, <1>4 DEF H!TypeOK, Starts
  <1> USE DEF H!Goto, H!Aim, H!Rewind, H!EndTurn
  <1>5. CASE H!StartFree(u) \/ H!PopDeferred(u)
    <2>1. /\ UNCHANGED <<at, freed>> /\ fpc[u] \in {"start", "pop"}
          /\ fpc'[u] # "drop"
          /\ \A x \in Threads \ {u} : victim'[x] = victim[x] /\ fpc'[x] = fpc[x]
      BY <1>5 DEF H!StartFree, H!PopDeferred, H!TypeOK
    <2> QED BY <1>0, <1>1, <1>3, <2>1
  <1>6. CASE H!Defer(u) \/ H!Keep(u)
    <2>1. /\ UNCHANGED <<at, freed>> /\ victim'[u] = Null
          /\ \A x \in Threads \ {u} : victim'[x] = victim[x] /\ fpc'[x] = fpc[x]
      BY <1>6 DEF H!Defer, H!Keep, H!TypeOK
    <2> QED BY <1>0, <1>1, <1>3, <2>1
  <1>7. CASE H!Drop(u)
    <2>1. /\ freed' = freed \cup {victim[u]} /\ fpc[u] = "drop" /\ at' = at
          /\ victim'[u] = Null
          /\ \A x \in Threads \ {u} : victim'[x] = victim[x] /\ fpc'[x] = fpc[x]
      BY <1>7 DEF H!Drop, H!TypeOK
    <2> QED BY <1>0, <1>1, <1>3, <2>1
  <1>8. CASE H!ScanSlot(u)
    <2>0. /\ UNCHANGED <<victim, freed>> /\ at[u] \in 1..H!Last
          /\ \A x \in Threads \ {u} : fpc'[x] = fpc[x] /\ at'[x] = at[x]
      BY <1>8 DEF H!ScanSlot, H!TypeOK
    <2>1. CASE victim[u] # n
      BY <1>1, <1>3, <2>0, <2>1
    <2>2. CASE victim[u] = n /\ H!Slot(at[u]) = n
      <3>1. fpc'[u] # "drop" /\ at'[u] = 1
        BY <1>8, <2>2 DEF H!ScanSlot, H!TypeOK
      <3> QED BY <1>1, <1>3, <2>0, <3>1
    <2>3. CASE victim[u] = n /\ H!Slot(at[u]) # n
      <3>1. ~IsSlot(at[u], t, k)
        BY <2>3 DEF IsSlot, H!Slot, Shields
      <3>2. \A i \in 1..H!Last : IsSlot(i, t, k) => i >= at[u] + 1
        <4>1. ASSUME NEW i \in 1..H!Last, IsSlot(i, t, k) PROVE i >= at[u] + 1
          <5>1. i >= at[u] /\ i # at[u]
            BY <1>1, <2>3, <3>1, <4>1
          <5> QED BY <1>0, <2>0, <5>1
        <4> QED BY <4>1
      <3>3. PICK i \in 1..H!Last : IsSlot(i, t, k)
        BY ScanMeets
      <3>4. at[u] # H!Last
        BY <1>0, <2>0, <3>2, <3>3
      <3>5. at' = [at EXCEPT ![u] = at[u] + 1] /\ fpc' = fpc
        BY <1>8, <2>3, <3>4 DEF H!ScanSlot
      <3>6. at'[u] = at[u] + 1
        BY <3>5 DEF H!TypeOK
      <3> QED BY <1>1, <2>0, <3>2, <3>5, <3>6 DEF Shields
    <2> QED BY <2>1, <2>2, <2>3
  <1> QED BY <1>2, <1>4, <1>5, <1>6, <1>7, <1>8 DEF FreeStep, H!Freeing
-----------------------------------------------------------------------------
Guards == {"none", "register", "validate", "shift", "trim", "use", "leave"}
GuardType == guard \in [Threads -> Guards]

LEMMA Known ==
  ASSUME IInv, NEW t \in Threads
  PROVE  /\ ListInv /\ ListTypes /\ OrderInv /\ LinkInv /\ TagInv /\ ApartInv
         /\ H!TypeOK /\ SlotsType /\ GuardType /\ DisposeInv /\ H!FreedOnce
         /\ CallInv(t) /\ HoldInv(t) /\ PlaceInv(t) /\ GuardInv(t) /\ SlotInv(t)
         /\ WaitInv(t) /\ KeepInv(t) /\ WithInv(t) /\ Distinct(t) /\ FreeingNow(t)
         /\ pc[t] # "out" => OutTagged
         /\ result \in [Threads -> Results]
  BY DEF IInv, ListInv, TypeOK, SlotsType, H!TypeOK, GuardType, Guards, DisposeInv,
     ThreadOK, SlotInv, GuardInv, FreeingNow, Dropped

(* What a thread does leaves the others where they are, and what they have. *)
Elsewhere(t) ==
  /\ Others(t) /\ Unfreeing(t) /\ OtherSlots(t)
  /\ \A u \in Threads \ {t} : result'[u] = result[u] /\ guard'[u] = guard[u]

LEMMA BehindKept ==
  ASSUME ListTypes, ListTypes', ChainStep, NEW n \in Ordered \cup {Root}
  PROVE  n \in Ordered' \cup {Root} /\ Behind(n) \subseteq Behind(n)'
  <1>1. Behind(Root) = Ordered
    BY OrderFacts
  <1>2. Behind(Root)' = Ordered'
    BY DEF Behind, Ordered
  <1> QED BY <1>1, <1>2 DEF ChainStep

(* The places of a thread that stays where it is. *)
LEMMA PlaceKept ==
  ASSUME ListTypes, ListTypes', ChainStep, NEW u \in Threads, PlaceInv(u),
         pc'[u] = pc[u], op'[u] = op[u], prev'[u] = prev[u], cur'[u] = cur[u],
         nxt'[u] = nxt[u], found'[u] = found[u]
  PROVE  PlaceInv(u)'
  <1>0. Ordered \subseteq Ordered' /\ \A n : Behind(n) \subseteq Ordered
    BY OrderFacts DEF ChainStep
  <1>1. ASSUME pc[u] \in AtNode
        PROVE  /\ prev[u] \in Ordered' \cup {Root}
               /\ cur[u].to \in Behind(prev[u])' \cup {Null}
    <2>1. prev[u] \in Ordered \cup {Root} /\ cur[u].to \in Behind(prev[u]) \cup {Null}
      BY <1>1 DEF PlaceInv
    <2> QED BY <2>1, BehindKept
  <1>2. ASSUME pc[u] = "mark"
        PROVE  nxt[u].to \in Behind(cur[u].to)' \cup {Null}
    <2>1. cur[u].to \in Ordered /\ nxt[u].to \in Behind(cur[u].to) \cup {Null}
      BY <1>0, <1>2 DEF PlaceInv, AtNode
    <2> QED BY <2>1, BehindKept
  <1>3. Removes(u)' <=> Removes(u)
    BY DEF Removes
  <1> QED BY <1>0, <1>1, <1>2, <1>3 DEF PlaceInv

LEMMA OthersOK ==
  ASSUME IInv, NEW t \in Threads, ListTypes', ChainStep, Elsewhere(t),
         UNCHANGED global, NEW u \in Threads \ {t}
  PROVE  ThreadOK(u)'
  <1>0. /\ ListTypes /\ PlaceInv(u) /\ GuardInv(u) /\ SlotInv(u) /\ WaitInv(u)
    BY Known
  <1>1. /\ pc'[u] = pc[u] /\ op'[u] = op[u] /\ prev'[u] = prev[u] /\ cur'[u] = cur[u]
        /\ nxt'[u] = nxt[u] /\ found'[u] = found[u] /\ result'[u] = result[u]
        /\ guard'[u] = guard[u] /\ slots'[u] = slots[u]
        /\ fpc'[u] = fpc[u] /\ victim'[u] = victim[u] /\ at'[u] = at[u]
    BY DEF Elsewhere, Others, OtherSlots, Unfreeing
  <1>2. PlaceInv(u)'
    BY <1>0, <1>1, PlaceKept
  <1>3. Removes(u)' <=> Removes(u)
    BY <1>1 DEF Removes
  <1>4. GuardInv(u)'
    BY <1>0, <1>1, <1>3 DEF GuardInv
  <1>5. Held(u)' = Held(u) /\ Wants(u)' = Wants(u) /\ Loaded(u)' = Loaded(u)
    BY <1>1, <1>3 DEF Held, Wants, Loaded
  <1>6. SlotInv(u)'
    BY <1>0, <1>1, <1>5 DEF SlotInv, Distinct
  <1>7. WaitInv(u)'
    <2>1. ASSUME NEW n \in Ordered PROVE n \in Ordered' /\ Behind(n)' = Behind(n)
      BY <2>1 DEF ChainStep
    <2> QED BY <1>0, <1>1, <1>5, <2>1 DEF WaitInv
  <1> QED BY <1>2, <1>4, <1>6, <1>7 DEF ThreadOK

(* Of what it has validated a thread keeps what it does not give up. *)
LEMMA KeepsOn ==
  ASSUME IInv, NEW u \in Threads, FreeStep(u), NEW t \in Threads,
         \A n \in Protected(t)' \cap Nodes :
           /\ n \in Protected(t)
           /\ \A k \in H!Slots : slots[t][k] = n => slots'[t][k] = n
  PROVE  KeepInv(t)'
  <1>1. ASSUME NEW n \in Protected(t)' \cap Nodes
        PROVE  \E k \in H!Slots : Shields(t, k, n)'
    <2>1. PICK k \in H!Slots : Shields(t, k, n)
      BY <1>1, Known DEF KeepInv
    <2>2. slots'[t][k] = n
      BY <1>1, <2>1 DEF Shields
    <2> QED BY <2>1, <2>2, Known, ShieldsOn
  <1> QED BY <1>1 DEF KeepInv, H!Slots

LEMMA OthersKeep ==
  ASSUME IInv, NEW t \in Threads, Elsewhere(t), FreeStep(t), NEW u \in Threads \ {t}
  PROVE  KeepInv(u)'
  <1>1. /\ pc'[u] = pc[u] /\ op'[u] = op[u] /\ prev'[u] = prev[u] /\ cur'[u] = cur[u]
        /\ guard'[u] = guard[u] /\ slots'[u] = slots[u]
    BY DEF Elsewhere, Others, OtherSlots
  <1>2. Protected(u)' = Protected(u)
    BY <1>1 DEF Protected, Removes
  <1> QED BY <1>1, <1>2, KeepsOn

LEMMA OthersWith ==
  ASSUME IInv, NEW t \in Threads, Elsewhere(t), NEW u \in Threads \ {t},
         op[u] = "remove_with" /\ pc[u] \in AtNode =>
           \A n \in out' \ out : Data[n] # arg[u]
  PROVE  WithInv(u)'
  <1>1. /\ pc'[u] = pc[u] /\ op'[u] = op[u] /\ arg'[u] = arg[u] /\ cur'[u] = cur[u]
        /\ guard'[u] = guard[u] /\ WithInv(u)
    BY Known DEF Elsewhere, Others
  <1> QED BY <1>1 DEF WithInv, Hit, AtNode

(* A node comes into the hand of the thread that removes it, and goes from *)
(* there to the garbage.                                                   *)
LEMMA Disposed ==
  ASSUME IInv, NEW t \in Threads, Elsewhere(t), H!FreedOnce',
         out \subseteq out', Gone \subseteq Gone', Gone' \subseteq Gone \cup Hand(t),
         Hand(t)' \subseteq Hand(t) \cup (out' \ out), out' \ out \subseteq Hand(t)',
         Hand(t) \subseteq Hand(t)' \cup Gone', Hand(t)' \cap Gone' = {}
  PROVE  DisposeInv'
  <1>1. \A u \in Threads \ {t} : Hand(u)' = Hand(u)
    BY DEF Elsewhere, Others, Hand
  <1>2. /\ \A u, v \in Threads : u # v => Hand(u) \cap Hand(v) = {}
        /\ \A u \in Threads : Hand(u) \cap Gone = {} /\ Hand(u) \subseteq out
        /\ Gone \subseteq out
        /\ \A n \in out \ Gone : \E u \in Threads : n \in Hand(u)
    BY Known DEF DisposeInv
  <1>3. ASSUME NEW u \in Threads \ {t}
        PROVE  Hand(u)' \cap Hand(t)' = {} /\ Hand(u)' \cap Gone' = {}
    BY <1>1, <1>2
  <1>4. \A u \in Threads : Hand(u)' \cap Gone' = {} /\ Hand(u)' \subseteq out'
    BY <1>1, <1>2, <1>3
  <1>5. \A u, v \in Threads : u # v => Hand(u)' \cap Hand(v)' = {}
    BY <1>1, <1>2, <1>3
  <1>6. ASSUME NEW n \in out' \ Gone' PROVE \E u \in Threads : n \in Hand(u)'
    <2>1. CASE n \notin out
      BY <2>1, <1>6
    <2>2. CASE n \in out
      <3>1. PICK u \in Threads : n \in Hand(u)
        BY <1>2, <1>6, <2>2
      <3> QED BY <1>1, <1>6, <3>1
    <2> QED BY <2>1, <2>2
  <1>7. Gone' \subseteq out'
    BY <1>2
  <1> QED BY <1>4, <1>5, <1>6, <1>7 DEF DisposeInv

LEMMA Combined ==
  ASSUME IInv, NEW t \in Threads, UNCHANGED global, ListInv', OutTagged', ChainStep,
         H!TypeOK', GuardType', DisposeInv', Elsewhere(t), FreeStep(t),
         result' \in [Threads -> Results],
         ThreadOK(t)', KeepInv(t)', WithInv(t)',
         \A u \in Threads \ {t} : op[u] = "remove_with" /\ pc[u] \in AtNode =>
           \A n \in out' \ out : Data[n] # arg[u]
  PROVE  IInv'
  <1>1. ListTypes'
    BY DEF ListInv
  <1>2. \A u \in Threads : ThreadOK(u)' /\ KeepInv(u)' /\ WithInv(u)'
    BY <1>1, OthersOK, OthersKeep, OthersWith
  <1>3. global' \in BOOLEAN
    BY DEF IInv, TypeOK
  <1>4. TypeOK'
    BY <1>1, <1>3 DEF TypeOK, ListTypes, GuardType, Guards
  <1> QED BY <1>2, <1>4 DEF IInv, Dropped

LEMMA GuardSet ==
  ASSUME GuardType, NEW t \in Threads, NEW g \in Guards, Guard(t, g)
  PROVE  /\ GuardType' /\ guard'[t] = g
         /\ \A u \in Threads \ {t} : guard'[u] = guard[u]
  BY DEF GuardType, Guard

(* A step that frees nothing. *)
LEMMA Quietly ==
  ASSUME IInv, NEW t \in Threads, NEW g \in Guards, Guard(t, g),
         UNCHANGED <<out, waits, freeVars, global>>, SlotsType', OtherSlots(t),
         Others(t), \A u \in Threads \ {t} : result'[u] = result[u],
         result' \in [Threads -> Results], ListInv', OutTagged', ChainStep,
         Hand(t)' = Hand(t), ThreadOK(t)', KeepInv(t)', WithInv(t)'
  PROVE  IInv'
  <1>0. /\ H!TypeOK /\ H!FreedOnce /\ GuardType /\ DisposeInv
        /\ UNCHANGED <<out, waits, fpc, victim, at, calls, turns, deferred, freed>>
    BY Known DEF freeVars
  <1>1. H!TypeOK'
    BY <1>0 DEF H!TypeOK, SlotsType
  <1>2. GuardType' /\ \A u \in Threads \ {t} : guard'[u] = guard[u]
    BY <1>0, GuardSet
  <1>3. Unfreeing(t) /\ FreeStep(t)
    BY <1>0 DEF Unfreeing, FreeStep
  <1>4. Elsewhere(t)
    BY <1>2, <1>3 DEF Elsewhere
  <1>5. Gone' = Gone /\ H!FreedOnce'
    BY <1>0, NothingGoes
  <1>6. Hand(t) \cap Gone = {}
    BY <1>0 DEF DisposeInv
  <1>7. DisposeInv'
    BY <1>0, <1>4, <1>5, <1>6, Disposed
  <1>8. \A n \in out' \ out : FALSE
    BY <1>0
  <1> QED BY <1>1, <1>2, <1>3, <1>4, <1>7, <1>8, Combined

(* A step that leaves the list, and where the thread is in it, as it is.   *)
LEMMA ListSame ==
  ASSUME IInv, NEW t \in Threads, pc[t] # "out",
         UNCHANGED <<listVars, pc, op, arg, owed>>
  PROVE  /\ ListInv' /\ OutTagged' /\ ChainStep /\ Others(t) /\ PlaceInv(t)'
         /\ UNCHANGED <<link, prev, cur, nxt, found, result, order, out, pc, op, arg>>
         /\ Hand(t)' = Hand(t) /\ result' \in [Threads -> Results]
  <1>1. UNCHANGED <<link, prev, cur, nxt, found, result, order, out, pc, op, arg>>
    BY DEF listVars
  <1>2. ListInv /\ ListTypes /\ OrderInv /\ LinkInv /\ PlaceInv(t) /\ OutTagged
    BY Known
  <1>3. ListInv' /\ OutTagged' /\ ListTypes'
    BY <1>2, ListStutter DEF ListInv
  <1>4. ChainStep
    BY <1>1, <1>2, ChainSame
  <1>5. PlaceInv(t)'
    BY <1>1, <1>2, <1>3, <1>4, PlaceKept
  <1>6. Others(t) /\ Hand(t)' = Hand(t)
    BY <1>1 DEF Others, Hand
  <1> QED BY <1>1, <1>3, <1>4, <1>5, <1>6, Known

(* Only a thread that is between operations, or at the end of one, frees.  *)
LEMMA NotFreeing ==
  ASSUME IInv, NEW t \in Threads, pc[t] \notin {"work", "return"}
  PROVE  fpc[t] = "idle"
  BY Known DEF GuardInv

LEMMA InSlots ==
  ASSUME SlotsType, NEW t \in Threads
  PROVE  /\ Held(t) \subseteq Nodes
         /\ \A n \in Held(t) : \E k \in H!Slots : slots[t][k] = n
  BY DEF SlotsType, Held

(* What a thread loads is not in its slots yet: links lead backwards in    *)
(* the history.                                                            *)
LEMMA NotHeldYet ==
  ASSUME IInv, NEW t \in Threads, guard[t] = "register", Loaded(t).to # Null
  PROVE  Loaded(t).to \in Nodes \ Held(t)
  <1>1. /\ ListTypes /\ OrderInv /\ PlaceInv(t) /\ GuardInv(t) /\ SlotInv(t)
        /\ SlotsType
    BY Known
  <1>2. pc[t] \in {"ins_cas", "visit", "mark"} /\ Held(t) \subseteq Wants(t)
    BY <1>1 DEF GuardInv, SlotInv
  <1>3. Loaded(t) \in Link
    BY <1>1, <1>2 DEF ListTypes, Loaded
  <1>4. Loaded(t).to \in Nodes
    BY <1>3 DEF Link
  <1>5. \A n : n \notin Behind(n)
    BY <1>1, BehindIsOrder
  <1>6. CASE pc[t] = "ins_cas"
    BY <1>2, <1>4, <1>6 DEF Wants
  <1>7. CASE pc[t] = "visit"
    <2>1. Held(t) \subseteq {prev[t]} /\ Loaded(t) = cur[t]
      BY <1>2, <1>7 DEF Wants, Loaded
    <2>2. cur[t].to \in Behind(prev[t])
      BY <1>1, <1>7, <2>1 DEF PlaceInv, AtNode
    <2> QED BY <1>4, <1>5, <2>1, <2>2
  <1>8. CASE pc[t] = "mark"
    <2>1. Held(t) \subseteq {cur[t].to} /\ Loaded(t) = nxt[t]
      BY <1>2, <1>8 DEF Wants, Loaded
    <2>2. nxt[t].to \in Behind(cur[t].to)
      BY <1>1, <1>8, <2>1 DEF PlaceInv
    <2> QED BY <1>4, <1>5, <2>1, <2>2
  <1> QED BY <1>2, <1>6, <1>7, <1>8

LEMMA RegisterStep ==
  ASSUME IInv, NEW t \in Threads, RegisterLoaded(t), UNCHANGED <<owed, global>>
  PROVE  IInv'
  <1>1. /\ GuardInv(t) /\ SlotInv(t) /\ SlotsType /\ GuardType /\ Distinct(t)
        /\ guard[t] = "register" /\ Guard(t, "validate")
        /\ UNCHANGED <<listVars, pc, op, arg>>
    BY Known DEF RegisterLoaded
  <1>2. pc[t] \in {"ins_cas", "visit", "mark"} /\ (pc[t] = "mark" => op[t] = "remove_front")
    BY <1>1 DEF GuardInv
  <1>3. fpc[t] = "idle"
    BY <1>2, NotFreeing
  <1>4. guard'[t] = "validate" /\ "validate" \in Guards
    BY <1>1, GuardSet DEF Guards
  <1>5. /\ ListInv' /\ OutTagged' /\ ChainStep /\ Others(t) /\ PlaceInv(t)'
        /\ UNCHANGED <<link, prev, cur, nxt, found, result, order, out, pc, op, arg>>
        /\ Hand(t)' = Hand(t) /\ result' \in [Threads -> Results]
    BY <1>1, <1>2, ListSame
  <1>6. /\ UNCHANGED <<waits, freeVars>>
        /\ SlotsType' /\ OtherSlots(t) /\ Distinct(t)'
        /\ Held(t)' = Held(t) \cup ({Loaded(t).to} \ {Null})
        /\ \A k \in H!Slots : slots[t][k] # Null => slots'[t][k] = slots[t][k]
    <2>1. CASE Loaded(t).to # Null /\ H!Register(t, Loaded(t).to)
      <3>1. Loaded(t).to \in Nodes \ Held(t)
        BY <1>1, <2>1, NotHeldYet
      <3>2. /\ SlotsType' /\ OtherSlots(t) /\ Distinct(t)'
            /\ Held(t)' = Held(t) \cup {Loaded(t).to}
            /\ \A k \in H!Slots : slots[t][k] # Null => slots'[t][k] = slots[t][k]
        BY <1>1, <2>1, <3>1, Registers
      <3>3. UNCHANGED <<waits, freeVars>>
        BY <2>1 DEF H!Register, H!freeVars, freeVars
      <3> QED BY <2>1, <3>2, <3>3
    <2>2. CASE Loaded(t).to = Null /\ UNCHANGED hazardVars
      BY <1>1, <2>2 DEF hazardVars, OtherSlots, Distinct, Held, SlotsType
    <2> QED BY <2>1, <2>2 DEF RegisterLoaded
  <1>7. fpc' = fpc /\ victim' = victim /\ at' = at /\ freed' = freed /\ global' = global
    BY <1>6 DEF freeVars
  <1>8. Loaded(t)' = Loaded(t)
    BY <1>5 DEF Loaded
  <1>9. SlotInv(t)'
    <2>1. Held(t) \subseteq Wants(t)
      BY <1>1 DEF SlotInv
    <2>2. Wants(t) \cup {Loaded(t).to} \subseteq Wants(t)'
      BY <1>1, <1>2, <1>4, <1>5 DEF Wants, Loaded, AtNode, Removes
    <2>3. Held(t)' \subseteq Wants(t)' /\ Loaded(t)'.to \in Held(t)' \cup {Null}
      BY <1>6, <1>8, <2>1, <2>2
    <2> QED BY <1>4, <1>6, <2>3 DEF SlotInv
  <1>10. GuardInv(t)'
    BY <1>1, <1>2, <1>4, <1>5, <1>7 DEF GuardInv, Removes
  <1>11. WaitInv(t)' /\ WithInv(t)'
    BY <1>3, <1>4, <1>7 DEF WaitInv, WithInv
  <1>12. KeepInv(t)'
    <2>1. Protected(t)' = Protected(t)
      BY <1>1, <1>4, <1>5 DEF Protected, Removes
    <2>2. FreeStep(t)
      BY <1>7 DEF FreeStep
    <2> QED BY <1>6, <2>1, <2>2, KeepsOn, ListAssumption
  <1> QED
    BY <1>1, <1>4, <1>5, <1>6, <1>9, <1>10, <1>11, <1>12, Quietly DEF ThreadOK

(* The caller is through with the reference. *)
LEMMA UseStep ==
  ASSUME IInv, NEW t \in Threads, Use(t), UNCHANGED <<owed, global>>
  PROVE  IInv'
  <1>1. /\ GuardInv(t) /\ SlotInv(t) /\ SlotsType /\ GuardType
        /\ guard[t] = "use" /\ Guard(t, "none")
        /\ UNCHANGED <<listVars, pc, op, arg, waits, slots, freeVars, global>>
    BY Known DEF Use, hazardVars
  <1>2. pc[t] = "visit" /\ op[t] = "walk"
    BY <1>1 DEF GuardInv
  <1>3. fpc[t] = "idle" /\ fpc' = fpc /\ victim' = victim /\ at' = at
    BY <1>1, <1>2, NotFreeing DEF freeVars
  <1>4. guard'[t] = "none" /\ "none" \in Guards
    BY <1>1, GuardSet DEF Guards
  <1>5. /\ ListInv' /\ OutTagged' /\ ChainStep /\ Others(t) /\ PlaceInv(t)'
        /\ UNCHANGED <<link, prev, cur, nxt, found, result, order, out, pc, op, arg>>
        /\ Hand(t)' = Hand(t) /\ result' \in [Threads -> Results]
    BY <1>1, <1>2, ListSame
  <1>6. SlotInv(t)'
    <2>1. Held(t)' = Held(t) /\ Wants(t)' = Wants(t)
      BY <1>1, <1>2, <1>4, <1>5 DEF Held, Wants, AtNode, Removes
    <2> QED BY <1>1, <1>4, <2>1 DEF SlotInv, Distinct
  <1>7. GuardInv(t)' /\ WaitInv(t)' /\ WithInv(t)'
    BY <1>1, <1>2, <1>3, <1>4, <1>5 DEF GuardInv, WaitInv, WithInv, Removes
  <1>8. KeepInv(t)'
    BY <1>2, <1>5 DEF KeepInv, Protected
  <1>9. SlotsType' /\ OtherSlots(t)
    BY <1>1 DEF SlotsType, OtherSlots
  <1> QED BY <1>1, <1>4, <1>5, <1>6, <1>7, <1>8, <1>9, Quietly DEF ThreadOK

(* A thread drops what it does not keep, one by one. *)
LEMMA Drops ==
  ASSUME IInv, NEW t \in Threads, Release(t)
  PROVE  /\ SlotsType' /\ OtherSlots(t) /\ Distinct(t)' /\ Held(t)' \subseteq Held(t)
         /\ \A k \in H!Slots : slots[t][k] \in Keeps(t) => slots'[t][k] = slots[t][k]
         /\ \/ Guard(t, guard[t])
            \/ Guard(t, AfterRelease(t)) /\ Held(t)' \subseteq Keeps(t)
  <1>1. SlotsType /\ Distinct(t) /\ Held(t) \subseteq Nodes
    BY Known, InSlots
  <1>2. CASE Held(t) \subseteq Keeps(t) /\ UNCHANGED slots
    <2>1. Held(t) \ Keeps(t) = {}
      BY <1>2
    <2>2. Cardinality(Held(t) \ Keeps(t)) = 0
      BY <2>1, FS_EmptySet
    <2>3. Guard(t, AfterRelease(t))
      BY <2>2 DEF Release
    <2>4. SlotsType' /\ OtherSlots(t) /\ Distinct(t)' /\ Held(t)' = Held(t)
      BY <1>1, <1>2 DEF SlotsType, OtherSlots, Distinct, Held
    <2> QED BY <1>2, <2>3, <2>4
  <1>3. ASSUME NEW n \in Held(t) \ Keeps(t), H!Deregister(t, n)
        PROVE  /\ SlotsType' /\ OtherSlots(t) /\ Distinct(t)'
               /\ Held(t)' \subseteq Held(t)
               /\ \A k \in H!Slots :
                    slots[t][k] \in Keeps(t) => slots'[t][k] = slots[t][k]
               /\ \/ Guard(t, guard[t])
                  \/ Guard(t, AfterRelease(t)) /\ Held(t)' \subseteq Keeps(t)
    <2>1. /\ SlotsType' /\ OtherSlots(t) /\ Distinct(t)' /\ Held(t)' = Held(t) \ {n}
          /\ \A k \in H!Slots : slots[t][k] # n => slots'[t][k] = slots[t][k]
      BY <1>1, <1>3, Deregisters
    <2>2. ASSUME ~(Cardinality(Held(t) \ Keeps(t)) > 1)
          PROVE  Held(t)' \subseteq Keeps(t)
      <3>1. IsFiniteSet(Held(t) \ Keeps(t))
        <4>1. IsFiniteSet(H!Slots)
          BY HpListAssumption, FS_Interval DEF H!Slots, H!HazardConstants
        <4>2. PICK T : T = {slots[t][i] : i \in H!Slots}
          OBVIOUS
        <4>3. slots[t] \in [H!Slots -> T] /\ \A x \in T : \E i \in H!Slots : slots[t][i] = x
          BY <1>1, <4>2 DEF SlotsType
        <4>4. slots[t] \in Surjection(H!Slots, T)
          BY <4>3, Fun_IsSurj
        <4>5. IsFiniteSet(T)
          BY <4>1, <4>4, FS_Surjection
        <4> QED BY <4>2, <4>5, FS_Subset DEF Held
      <3>2. IsFiniteSet((Held(t) \ Keeps(t)) \ {n})
        BY <3>1, FS_Subset
      <3>3. Cardinality((Held(t) \ Keeps(t)) \ {n}) = Cardinality(Held(t) \ Keeps(t)) - 1
        BY <1>3, <3>1, FS_RemoveElement
      <3>4. Cardinality((Held(t) \ Keeps(t)) \ {n}) = 0
        BY <2>2, <3>1, <3>2, <3>3, FS_CardinalityType
      <3>5. (Held(t) \ Keeps(t)) \ {n} = {}
        BY <3>2, <3>4, FS_EmptySet
      <3> QED BY <2>1, <3>5
    <2>3. Guard(t, guard[t]) \/ (Guard(t, AfterRelease(t)) /\ Held(t)' \subseteq Keeps(t))
      BY <2>2 DEF Release
    <2> QED BY <1>3, <2>1, <2>3
  <1> QED BY <1>2, <1>3 DEF Release

LEMMA ReleaseStep ==
  ASSUME IInv, NEW t \in Threads, Release(t), UNCHANGED <<owed, global>>
  PROVE  IInv'
  <1>1. /\ GuardInv(t) /\ PlaceInv(t) /\ SlotInv(t) /\ WaitInv(t) /\ KeepInv(t)
        /\ SlotsType /\ GuardType /\ H!TypeOK /\ DisposeInv /\ ListTypes /\ OrderInv
        /\ guard[t] \in {"shift", "trim", "leave"}
        /\ guard[t] = "leave" => fpc[t] = "idle"
        /\ UNCHANGED <<listVars, pc, op, arg, waits, freeVars>>
    BY Known DEF Release
  <1>2. /\ SlotsType' /\ OtherSlots(t) /\ Distinct(t)' /\ Held(t)' \subseteq Held(t)
        /\ \A k \in H!Slots : slots[t][k] \in Keeps(t) => slots'[t][k] = slots[t][k]
        /\ \/ Guard(t, guard[t])
           \/ Guard(t, AfterRelease(t)) /\ Held(t)' \subseteq Keeps(t)
    BY Drops
  <1>3. pc[t] # "out" /\ (guard[t] = "leave" => pc[t] # "work")
    BY <1>1 DEF GuardInv
  <1>4. /\ ListInv' /\ OutTagged' /\ ChainStep /\ Others(t) /\ PlaceInv(t)'
        /\ UNCHANGED <<link, prev, cur, nxt, found, result, order, out, pc, op, arg>>
        /\ Hand(t)' = Hand(t) /\ result' \in [Threads -> Results]
    BY <1>1, <1>3, ListSame
  <1>5. fpc' = fpc /\ victim' = victim /\ at' = at /\ freed' = freed
    BY <1>1 DEF freeVars
  <1>6. FreeStep(t)
    BY <1>5 DEF FreeStep
  <1>7. pc[t] = "visit" => fpc[t] = "idle"
    BY NotFreeing
  <1>8. ASSUME NEW g \in Guards, Guard(t, g), SlotInv(t)', GuardInv(t)', WaitInv(t)',
               WithInv(t)', Protected(t)' \cap Nodes \subseteq Protected(t) \cap Keeps(t)
        PROVE  IInv'
    <2>1. KeepInv(t)'
      BY <1>2, <1>6, <1>8, KeepsOn
    <2> QED BY <1>1, <1>2, <1>4, <1>8, <2>1, Quietly DEF ThreadOK
  <1>9. CASE Guard(t, guard[t])
    <2>1. guard[t] \in Guards /\ guard'[t] = guard[t]
      BY <1>1, <1>9 DEF Guards, GuardType, Guard
    <2>2. SlotInv(t)'
      BY <1>1, <1>2, <1>4, <2>1 DEF SlotInv
    <2>3. GuardInv(t)'
      BY <1>1, <1>4, <1>5, <2>1 DEF GuardInv, Removes
    <2>4. WaitInv(t)' /\ WithInv(t)'
      BY <1>1, <1>5, <1>7, <2>1 DEF WaitInv, WithInv, GuardInv
    <2>5. Protected(t)' = Protected(t)
      BY <1>4, <2>1 DEF Protected, Removes
    <2>6. Protected(t) \subseteq Keeps(t)
      BY <1>1, <1>7 DEF Protected, Keeps, GuardInv, AtNode, Removes
    <2> QED BY <1>8, <1>9, <2>1, <2>2, <2>3, <2>4, <2>5, <2>6
  <1>10. CASE Guard(t, AfterRelease(t)) /\ Held(t)' \subseteq Keeps(t)
    <2>1. /\ AfterRelease(t) \in {"register", "use", "none"}
          /\ AfterRelease(t) = "register" <=>
               \/ guard[t] = "shift"
               \/ /\ guard[t] = "leave"
                  /\ pc[t] = "ins_cas" \/ (pc[t] = "visit" /\ cur[t].to # Null)
          /\ AfterRelease(t) = "use" <=>
               guard[t] = "trim" /\ op[t] = "walk" /\ prev[t] # Root
      BY <1>1 DEF AfterRelease
    <2>2. AfterRelease(t) \in Guards /\ guard'[t] = AfterRelease(t)
      BY <1>1, <1>10, <2>1 DEF Guards, GuardType, Guard
    <2>3. GuardInv(t)'
      BY <1>1, <1>4, <1>5, <2>1, <2>2 DEF GuardInv, Removes
    <2>4. Held(t)' \subseteq Wants(t)'
      <3>1. CASE guard[t] = "leave"
        BY <1>10, <3>1 DEF Keeps
      <3>2. CASE guard[t] = "shift"
        <4>1. Held(t)' \subseteq {prev[t]}
          BY <1>1, <1>2, <1>7, <1>10, <3>2 DEF Keeps, GuardInv, SlotInv, Removes
        <4> QED BY <1>1, <1>4, <2>1, <2>2, <3>2, <4>1 DEF GuardInv, Wants
      <3>3. CASE guard[t] = "trim" /\ pc[t] = "visit"
        <4>1. Held(t)' \subseteq {cur[t].to}
          BY <1>1, <1>7, <1>10, <3>3 DEF Keeps, GuardInv
        <4> QED BY <1>4, <2>1, <2>2, <3>3, <4>1 DEF Wants, AtNode
      <3>4. CASE guard[t] = "trim" /\ pc[t] # "visit"
        <4>1. pc[t] = "return" /\ fpc[t] = "start" /\ op[t] = "remove_front"
          BY <1>1, <3>4 DEF GuardInv
        <4>2. Held(t)' \subseteq {victim[t]}
          BY <1>10, <3>4, <4>1 DEF Keeps
        <4> QED BY <1>4, <1>5, <2>1, <2>2, <3>4, <4>1, <4>2 DEF Wants, AtNode
      <3> QED BY <1>1, <3>1, <3>2, <3>3, <3>4
    <2>5. SlotInv(t)'
      BY <1>2, <2>1, <2>2, <2>4 DEF SlotInv
    <2>6. WithInv(t)'
      BY <1>1, <1>4, <2>1, <2>2 DEF WithInv, GuardInv, PlaceInv, AtNode, Removes
    <2>7. WaitInv(t)'
      <3>1. CASE fpc[t] \notin {"start", "spin"} \/ guard[t] # "trim"
        BY <1>1, <1>5, <1>7, <3>1 DEF WaitInv, GuardInv
      <3>2. CASE fpc[t] = "start" /\ guard[t] = "trim"
        <4>1. Held(t)' \subseteq {victim[t]}
          BY <1>10, <3>2 DEF Keeps
        <4>2. victim[t] # Null
          BY <1>1, <3>2 DEF GuardInv
        <4>3. victim[t] \in Gone
          BY <4>2 DEF Gone, H!Victims
        <4>4. victim[t] \in Ordered
          BY <1>1, <4>3 DEF DisposeInv, OrderInv
        <4>5. Ordered' = Ordered
          BY <1>4 DEF Ordered
        <4> QED BY <1>5, <3>2, <4>1, <4>4, <4>5 DEF WaitInv
      <3> QED BY <1>1, <1>7, <3>1, <3>2 DEF GuardInv
    <2>8. Protected(t)' \cap Nodes \subseteq Protected(t) \cap Keeps(t)
      <3>1. CASE pc[t] \notin AtNode \/ op[t] = "walk"
        BY <1>4, <3>1 DEF Protected
      <3>2. CASE pc[t] \in AtNode /\ op[t] # "walk"
        <4>1. pc[t] = "visit" /\ fpc[t] = "idle"
          BY <1>1, <1>7, <3>2 DEF GuardInv, AtNode
        <4>2. CASE guard[t] = "leave"
          <5>1. cur[t].to # Null /\ prev[t] = Root
            BY <1>1, <4>1, <4>2 DEF GuardInv, PlaceInv, AtNode, Removes
          <5> QED BY <1>4, <2>1, <2>2, <4>1, <4>2, <5>1, ListAssumption DEF Protected
        <4>3. CASE guard[t] = "shift"
          BY <1>1, <1>4, <2>1, <2>2, <3>2, <4>1, <4>3
          DEF Protected, Keeps, GuardInv, Removes
        <4>4. CASE guard[t] = "trim"
          BY <1>1, <1>4, <2>1, <2>2, <3>2, <4>1, <4>4
          DEF Protected, Keeps, GuardInv, Removes
        <4> QED BY <1>1, <4>2, <4>3, <4>4
      <3> QED BY <3>1, <3>2
    <2> QED BY <1>8, <1>10, <2>2, <2>3, <2>5, <2>6, <2>7, <2>8
  <1> QED BY <1>2, <1>9, <1>10

(* The operation ends, or starts again, and gives up what it has.          *)
LEMMA Leaves ==
  ASSUME IInv, NEW t \in Threads, pc[t] \in {"ins_cas", "head", "visit", "mark", "unmark"},
         \/ Restart(t)
         \/ \E r \in Results : Finish(t, r) /\ (op[t] = "remove_with" => r = Null),
         Guard(t, "leave"), ListInv', OutTagged', ChainStep,
         UNCHANGED <<op, arg, out, hazardVars, global>>
  PROVE  IInv'
  <1>1. /\ GuardInv(t) /\ PlaceInv(t) /\ SlotInv(t) /\ SlotsType /\ GuardType /\ ListTypes
        /\ result \in [Threads -> Results]
        /\ UNCHANGED <<waits, slots, freeVars>>
    BY Known DEF hazardVars
  <1>2. fpc[t] = "idle" /\ fpc' = fpc /\ victim' = victim /\ at' = at
    BY <1>1, NotFreeing DEF freeVars
  <1>3. guard'[t] = "leave" /\ "leave" \in Guards
    BY <1>1, GuardSet DEF Guards
  <1>4. Ends(t) \/ Rewinds(t)
    BY <1>1, WaysOn
  <1>5. Others(t) /\ pc'[t] \in {"return", "head"} /\ prev'[t] = Root
    BY <1>1, <1>4, Stopping
  <1>6. result[t] = "pending" /\ op[t] # "none"
    BY <1>1 DEF GuardInv
  <1>7. /\ result' \in [Threads -> Results]
        /\ pc'[t] # "return" => result'[t] = "pending"
        /\ pc'[t] = "return" /\ op[t] = "remove_with" => result'[t] = Null
        /\ \A u \in Threads \ {t} : result'[u] = result[u]
    <2>1. CASE Restart(t)
      BY <1>1, <1>6, <2>1 DEF Restart, Goto, ListTypes
    <2>2. ASSUME NEW r \in Results, Finish(t, r), op[t] = "remove_with" => r = Null
          PROVE  /\ result' \in [Threads -> Results] /\ result'[t] = r
                 /\ pc'[t] = "return"
                 /\ \A u \in Threads \ {t} : result'[u] = result[u]
      BY <1>1, <2>2 DEF Finish, Goto, ListTypes
    <2> QED BY <2>1, <2>2
  <1>8. PlaceInv(t)'
    BY <1>5 DEF PlaceInv, AtNode
  <1>9. GuardInv(t)'
    BY <1>1, <1>2, <1>3, <1>5, <1>6, <1>7 DEF GuardInv, Removes, Steps
  <1>10. SlotInv(t)'
    BY <1>1, <1>3 DEF SlotInv, Distinct
  <1>11. WaitInv(t)' /\ WithInv(t)' /\ KeepInv(t)'
    BY <1>2, <1>3 DEF WaitInv, WithInv, KeepInv, Protected
  <1>12. Hand(t) = {} /\ Hand(t)' = {}
    BY <1>5, <1>6, <1>7, ListAssumption DEF Hand
  <1>13. SlotsType' /\ OtherSlots(t)
    BY <1>1 DEF SlotsType, OtherSlots
  <1> QED
    BY <1>1, <1>3, <1>5, <1>7, <1>8, <1>9, <1>10, <1>11, <1>12, <1>13, Quietly
    DEF ThreadOK

LEMMA Stops ==
  ASSUME IInv, NEW t \in Threads, pc[t] \in {"head", "visit", "mark"},
         \/ Again(t)
         \/ \E r \in Results : Answer(t, r) /\ (op[t] = "remove_with" => r = Null),
         UNCHANGED <<link, op, arg, order, out, hazardVars, global>>
  PROVE  IInv'
  <1>1. ListInv /\ OutTagged /\ ListTypes
    BY Known
  <1>2. Ends(t) \/ Rewinds(t)
    BY <1>1, WaysOn DEF Again, Answer
  <1>3. Kept(t)
    BY <1>1, <1>2, StopStep DEF Holding, Steps, Insertion
  <1> QED BY <1>3, Leaves DEF Again, Answer, Kept

(* An operation takes another place in the list: it is at a link that it   *)
(* has loaded, and knows from where.                                       *)
LEMMA MovesTo ==
  ASSUME IInv, NEW t \in Threads, pc[t] \in {"head", "visit"}, Goto(t, "visit"),
         NEW p \in Ordered \cup {Root}, NEW c \in Link, c.tag => op[t] = "walk",
         prev' = [prev EXCEPT ![t] = p], cur' = [cur EXCEPT ![t] = c],
         UNCHANGED <<link, op, arg, nxt, found, result, order, out>>
  PROVE  /\ ListInv' /\ OutTagged' /\ ChainStep /\ Others(t)
         /\ pc'[t] = "visit" /\ prev'[t] = p /\ cur'[t] = c
         /\ Hand(t) = {} /\ Hand(t)' = {} /\ Behind(p)' = Behind(p)
         /\ Ordered' = Ordered
  <1>1. /\ ListInv /\ OutTagged /\ ListTypes /\ CallInv(t) /\ HoldInv(t) /\ ApartInv
        /\ GuardInv(t)
    BY Known
  <1>2. /\ prev' \in [Threads -> Nodes \cup {Root}] /\ cur' \in [Threads -> Link]
        /\ pc' \in [Threads -> Phase] /\ pc'[t] = "visit" /\ prev'[t] = p /\ cur'[t] = c
        /\ Others(t)
    <2>1. p \in Nodes \cup {Root}
      BY <1>1, OrderFacts
    <2> QED BY <1>1, <2>1 DEF ListTypes, Others, Goto, Phase, Steps
  <1>3. ListTypes'
    BY <1>1, <1>2 DEF ListTypes
  <1>4. CallInv(t)' /\ HoldInv(t)'
    BY <1>1, <1>2 DEF CallInv, HoldInv, Insertion, AtNode, Holding, Steps
  <1>5. ListInv' /\ OutTagged' /\ ChainStep
    BY <1>1, <1>2, <1>3, <1>4, LocalChange DEF Insertion, Holding
  <1>6. Hand(t) = {} /\ Hand(t)' = {}
    BY <1>1, <1>2, ListAssumption DEF Hand, GuardInv
  <1>7. Behind(p)' = Behind(p) /\ Ordered' = Ordered
    BY DEF Behind, Ordered
  <1> QED BY <1>2, <1>5, <1>6, <1>7

LEMMA PlaceSame ==
  ASSUME IInv, NEW t \in Threads, guard[t] \in {"register", "validate"}
  PROVE  /\ fpc[t] = "idle" /\ pc[t] \in {"ins_cas", "visit", "mark"}
         /\ pc[t] = "mark" => op[t] = "remove_front"
         /\ pc[t] = "ins_cas" <=> op[t] = "insert"
         /\ op[t] = "walk" => pc[t] = "visit"
  <1>1. GuardInv(t) /\ CallInv(t)
    BY Known
  <1>2. pc[t] \in {"ins_cas", "visit", "mark"} /\ (pc[t] = "mark" => op[t] = "remove_front")
    BY <1>1 DEF GuardInv
  <1>3. fpc[t] = "idle"
    BY <1>2, NotFreeing
  <1> QED BY <1>1, <1>2, <1>3 DEF CallInv, Insertion, Steps

(* A node that its link still leads to when the link is loaded again is in *)
(* the list, and from now on the slot keeps it.                            *)
LEMMA Validated ==
  ASSUME IInv, NEW t \in Threads, guard[t] = "validate", pc[t] = "visit",
         op[t] # "walk", Source(t) = Loaded(t), cur[t].to # Null
  PROVE  /\ cur[t].to \notin out
         /\ \E k \in H!Slots : Shields(t, k, cur[t].to)
  <1>1. /\ ListTypes /\ LinkInv /\ PlaceInv(t) /\ HoldInv(t) /\ OutTagged /\ SlotInv(t)
        /\ DisposeInv /\ SlotsType
    BY Known
  <1>2. link[prev[t]] = cur[t] /\ ~cur[t].tag /\ prev[t] \in Ordered \cup {Root}
    BY <1>1 DEF Source, Loaded, HoldInv, PlaceInv, AtNode
  <1>3. prev[t] \in ItemSet \cup {Root}
    BY <1>1, <1>2 DEF OutTagged, ItemSet
  <1>4. cur[t].to \notin out
    BY <1>1, <1>2, <1>3 DEF LinkInv
  <1>5. cur[t].to \in Held(t)
    BY <1>1 DEF SlotInv, Loaded
  <1>6. cur[t].to \in Nodes \ Gone /\ \E k \in H!Slots : slots[t][k] = cur[t].to
    BY <1>1, <1>4, <1>5, InSlots DEF DisposeInv
  <1> QED BY <1>4, <1>6, ShieldsReached

LEMMA ValidStep ==
  ASSUME IInv, NEW t \in Threads, guard[t] = "validate", Source(t) = Loaded(t),
         Guard(t, IF pc[t] = "visit" /\ ~Removes(t) THEN "trim" ELSE "none"),
         UNCHANGED <<listVars, pc, op, arg, hazardVars, owed, global>>
  PROVE  IInv'
  <1>1. /\ GuardInv(t) /\ PlaceInv(t) /\ SlotInv(t) /\ SlotsType /\ GuardType
        /\ UNCHANGED <<waits, slots, freeVars>>
    BY Known DEF hazardVars
  <1>2. /\ fpc[t] = "idle" /\ pc[t] \in {"ins_cas", "visit", "mark"}
        /\ pc[t] = "mark" => op[t] = "remove_front"
    BY PlaceSame
  <1>3. /\ ListInv' /\ OutTagged' /\ ChainStep /\ Others(t) /\ PlaceInv(t)'
        /\ UNCHANGED <<link, prev, cur, nxt, found, result, order, out, pc, op, arg>>
        /\ Hand(t)' = Hand(t) /\ result' \in [Threads -> Results]
    BY <1>1, <1>2, ListSame
  <1>4. fpc' = fpc /\ victim' = victim /\ at' = at /\ freed' = freed
    BY <1>1 DEF freeVars
  <1> DEFINE g == IF pc[t] = "visit" /\ ~Removes(t) THEN "trim" ELSE "none"
  <1>5. guard'[t] = g /\ g \in Guards
    BY <1>1, GuardSet DEF Guards
  <1>6. GuardInv(t)'
    BY <1>1, <1>3, <1>4, <1>5 DEF GuardInv, Removes
  <1>7. SlotInv(t)'
    <2>1. Distinct(t)' /\ Held(t)' = Held(t)
      BY <1>1 DEF SlotInv, Distinct, Held
    <2>2. g = "none" => Held(t)' \subseteq Wants(t)'
      BY <1>1, <1>2, <1>3, <1>5, <2>1 DEF SlotInv, Wants, Removes, AtNode
    <2> QED BY <1>5, <2>1, <2>2 DEF SlotInv
  <1>8. WaitInv(t)' /\ WithInv(t)'
    <2>1. WaitInv(t)'
      BY <1>2, <1>4 DEF WaitInv
    <2>2. WithInv(t)'
      BY <1>1, <1>3, Validated DEF WithInv, Hit, PlaceInv, AtNode, Removes
    <2> QED BY <2>1, <2>2
  <1>9. KeepInv(t)'
    <2>1. ASSUME NEW n \in Protected(t)' \cap Nodes
          PROVE  n \in Protected(t) \/ (pc[t] = "visit" /\ op[t] # "walk" /\ n = cur[t].to)
      BY <1>1, <1>2, <1>3, <1>5, <2>1 DEF Protected, Removes, AtNode
    <2>2. ASSUME NEW n \in Protected(t)' \cap Nodes
          PROVE  \E k \in H!Slots : Shields(t, k, n)
      <3>1. CASE n \in Protected(t)
        BY <2>2, <3>1, Known DEF KeepInv
      <3>2. CASE pc[t] = "visit" /\ op[t] # "walk" /\ n = cur[t].to
        <4>1. n # Null
          BY <2>2, ListAssumption
        <4> QED BY <3>2, <4>1, Validated
      <3> QED BY <2>1, <2>2, <3>1, <3>2
    <2>3. \A n, k : Shields(t, k, n)' <=> Shields(t, k, n)
      BY <1>1, <1>4 DEF Shields
    <2> QED BY <2>2, <2>3 DEF KeepInv, H!Slots
  <1>10. SlotsType' /\ OtherSlots(t)
    BY <1>1 DEF SlotsType, OtherSlots
  <1> QED
    BY <1>1, <1>3, <1>5, <1>6, <1>7, <1>8, <1>9, <1>10, Quietly DEF ThreadOK

(* insert loads the head again. *)
LEMMA InsertAgain ==
  ASSUME IInv, NEW t \in Threads, guard[t] = "validate", op[t] = "insert",
         Goto(t, "ins_load"), Guard(t, "leave"),
         UNCHANGED <<listVars, op, arg, hazardVars, global>>
  PROVE  IInv'
  <1>1. /\ ListInv /\ ListTypes /\ OutTagged /\ CallInv(t) /\ HoldInv(t) /\ ApartInv
        /\ GuardInv(t) /\ PlaceInv(t) /\ SlotInv(t) /\ SlotsType /\ GuardType
        /\ result \in [Threads -> Results]
        /\ UNCHANGED <<waits, slots, freeVars>>
        /\ UNCHANGED <<link, prev, cur, nxt, found, result, order, out>>
    BY Known, PlaceSame DEF hazardVars, listVars
  <1>2. fpc[t] = "idle" /\ pc[t] = "ins_cas"
    BY PlaceSame
  <1>3. fpc' = fpc /\ victim' = victim /\ at' = at
    BY <1>1 DEF freeVars
  <1>4. guard'[t] = "leave" /\ "leave" \in Guards
    BY <1>1, GuardSet DEF Guards
  <1>5. pc' \in [Threads -> Phase] /\ pc'[t] = "ins_load" /\ Others(t)
    BY <1>1 DEF ListTypes, Others, Goto, Phase, Steps
  <1>6. ListTypes'
    BY <1>1, <1>5 DEF ListTypes
  <1>7. CallInv(t)' /\ HoldInv(t)'
    BY <1>1, <1>2, <1>5 DEF CallInv, HoldInv, Insertion, AtNode, Holding, Steps, Ordered
  <1>8. ListInv' /\ OutTagged' /\ ChainStep
    BY <1>1, <1>2, <1>5, <1>6, <1>7, LocalChange DEF Insertion, Holding, ApartInv
  <1>9. PlaceInv(t)' /\ SlotInv(t)' /\ WaitInv(t)' /\ WithInv(t)' /\ KeepInv(t)'
    BY <1>1, <1>2, <1>3, <1>4, <1>5
    DEF PlaceInv, AtNode, SlotInv, Distinct, WaitInv, WithInv, KeepInv, Protected
  <1>10. GuardInv(t)'
    BY <1>1, <1>2, <1>3, <1>4, <1>5 DEF GuardInv, Removes, Steps
  <1>11. Hand(t)' = Hand(t)
    BY <1>1, <1>2, <1>5 DEF Hand
  <1>12. SlotsType' /\ OtherSlots(t)
    BY <1>1 DEF SlotsType, OtherSlots
  <1> QED
    BY <1>1, <1>4, <1>5, <1>8, <1>9, <1>10, <1>11, <1>12, Quietly DEF ThreadOK

(* The iterator goes on from the link of its node, as it is now. *)
LEMMA WalkAgain ==
  ASSUME IInv, NEW t \in Threads, guard[t] = "validate", op[t] = "walk", prev[t] # Root,
         cur' = [cur EXCEPT ![t] = To(prev[t])], prev' = [prev EXCEPT ![t] = Root],
         Guard(t, "trim"),
         UNCHANGED <<link, pc, op, arg, nxt, found, result, order, out, hazardVars, global>>
  PROVE  IInv'
  <1>1. /\ ListTypes /\ GuardInv(t) /\ PlaceInv(t) /\ SlotInv(t) /\ SlotsType /\ GuardType
        /\ result \in [Threads -> Results]
        /\ UNCHANGED <<waits, slots, freeVars>>
    BY Known DEF hazardVars
  <1>2. fpc[t] = "idle" /\ pc[t] = "visit"
    BY PlaceSame
  <1>3. fpc' = fpc /\ victim' = victim /\ at' = at
    BY <1>1 DEF freeVars
  <1>4. guard'[t] = "trim" /\ "trim" \in Guards
    BY <1>1, GuardSet DEF Guards
  <1>5. PICK p \in Ordered : p = prev[t]
    BY <1>1, <1>2 DEF PlaceInv, AtNode
  <1>6. p \in Nodes /\ p # Null /\ Behind(Root) = Ordered
    BY <1>1, <1>5, OrderFacts
  <1>7. PICK c \in Link : c = To(p) /\ c.to = p /\ ~c.tag
    <2>1. To(p) \in Link /\ To(p).to = p /\ ~To(p).tag
      BY <1>6 DEF To, Link
    <2> QED BY <2>1
  <1>8. Goto(t, "visit")
    BY <1>1, <1>2 DEF Goto, ListTypes
  <1>9. /\ ListInv' /\ OutTagged' /\ ChainStep /\ Others(t)
        /\ pc'[t] = "visit" /\ prev'[t] = Root /\ cur'[t] = c
        /\ Hand(t) = {} /\ Hand(t)' = {} /\ Behind(Root)' = Behind(Root)
        /\ Ordered' = Ordered
    <2>1. /\ pc[t] \in {"head", "visit"} /\ p \in Ordered \cup {Root}
          /\ c.tag => op[t] = "walk"
          /\ prev' = [prev EXCEPT ![t] = Root] /\ cur' = [cur EXCEPT ![t] = c]
          /\ Root \in Ordered \cup {Root}
      BY <1>2, <1>5, <1>7
    <2> QED BY <1>8, <2>1, MovesTo, Zenon
  <1>10. PlaceInv(t)'
    <2>1. cur'[t].to = p
      BY <1>7, <1>9
    <2>2. PICK r : r = Root /\ prev'[t] = r /\ Behind(r)' = Ordered
      BY <1>6, <1>9
    <2>3. Behind(prev[t])' = Ordered
      BY <1>6, <1>9
    <2>4. ~Removes(t)'
      BY DEF Removes
    <2> QED BY <1>5, <1>6, <1>9, <2>1, <2>3, <2>4 DEF PlaceInv, AtNode
  <1>11. GuardInv(t)'
    BY <1>1, <1>2, <1>3, <1>4, <1>9 DEF GuardInv, Removes, Steps
  <1>12. SlotInv(t)' /\ WaitInv(t)' /\ WithInv(t)' /\ KeepInv(t)'
    BY <1>1, <1>2, <1>3, <1>4
    DEF SlotInv, Distinct, WaitInv, WithInv, KeepInv, Protected
  <1>13. SlotsType' /\ OtherSlots(t)
    BY <1>1 DEF SlotsType, OtherSlots
  <1> QED
    BY <1>1, <1>4, <1>9, <1>10, <1>11, <1>12, <1>13, Quietly DEF ThreadOK

LEMMA ValidateStep ==
  ASSUME IInv, NEW t \in Threads, Validate(t), UNCHANGED <<owed, global>>
  PROVE  IInv'
  <1>1. /\ guard[t] = "validate"
        /\ UNCHANGED <<link, op, arg, order, out, hazardVars, global>>
    BY DEF Validate
  <1>2. pc[t] \in {"ins_cas", "visit", "mark"} /\ (pc[t] = "ins_cas" <=> op[t] = "insert")
    BY <1>1, PlaceSame
  <1>3. CASE /\ Source(t) = Loaded(t)
             /\ Guard(t, IF pc[t] = "visit" /\ ~Removes(t) THEN "trim" ELSE "none")
             /\ UNCHANGED <<pc, prev, cur, nxt, found, result>>
    BY <1>1, <1>3, ValidStep DEF listVars
  <1>4. CASE /\ op[t] = "insert" /\ Goto(t, "ins_load") /\ Guard(t, "leave")
             /\ UNCHANGED <<prev, cur, nxt, found, result>>
    BY <1>1, <1>4, InsertAgain DEF listVars
  <1>5. CASE /\ op[t] = "walk" /\ prev[t] # Root
             /\ cur' = [cur EXCEPT ![t] = To(prev[t])]
             /\ prev' = [prev EXCEPT ![t] = Root]
             /\ Guard(t, "trim")
             /\ UNCHANGED <<pc, nxt, found, result>>
    BY <1>1, <1>5, WalkAgain
  <1>6. CASE op[t] # "insert" /\ Again(t)
    BY <1>1, <1>2, <1>6, Stops
  <1> QED BY <1>3, <1>4, <1>5, <1>6 DEF Validate

(* The steps of insert. *)
LEMMA InsertLoads ==
  ASSUME IInv, NEW t \in Threads, guard[t] = "none", InsertLoad(t),
         Guard(t, "register"), UNCHANGED <<hazardVars, global>>
  PROVE  IInv'
  <1>1. /\ ListInv /\ OutTagged /\ ListTypes /\ GuardInv(t) /\ PlaceInv(t)
        /\ SlotInv(t) /\ SlotsType /\ GuardType
        /\ result \in [Threads -> Results]
        /\ UNCHANGED <<waits, slots, freeVars>>
        /\ pc[t] = "ins_load" /\ UNCHANGED <<op, arg, out, result, prev, cur, nxt>>
    BY Known DEF hazardVars, InsertLoad
  <1>2. fpc[t] = "idle" /\ fpc' = fpc /\ victim' = victim /\ at' = at
    BY <1>1, NotFreeing DEF freeVars
  <1>3. guard'[t] = "register" /\ "register" \in Guards
    BY <1>1, GuardSet DEF Guards
  <1>4. Placed(t)
    BY <1>1 DEF PlaceInv, Placed, AtNode
  <1>5. ListInv' /\ OutTagged' /\ ChainStep
    BY <1>1, <1>4, CallStep DEF Kept
  <1>6. pc'[t] = "ins_cas" /\ Others(t)
    BY <1>1 DEF InsertLoad, Goto, ListTypes, Others
  <1>7. Held(t) = {}
    BY <1>1, <1>2 DEF SlotInv, Wants, AtNode
  <1>8. SlotInv(t)'
    <2>1. Held(t)' = {} /\ Distinct(t)'
      BY <1>1, <1>7 DEF Held, SlotInv, Distinct
    <2> QED BY <1>3, <2>1 DEF SlotInv
  <1>9. PlaceInv(t)' /\ WaitInv(t)' /\ WithInv(t)' /\ KeepInv(t)'
    BY <1>1, <1>2, <1>6
    DEF PlaceInv, AtNode, WaitInv, WithInv, KeepInv, Protected
  <1>10. GuardInv(t)'
    BY <1>1, <1>2, <1>3, <1>6 DEF GuardInv, Removes, Steps
  <1>11. Hand(t)' = Hand(t)
    BY <1>1, <1>6 DEF Hand
  <1>12. SlotsType' /\ OtherSlots(t)
    BY <1>1 DEF SlotsType, OtherSlots
  <1> QED
    BY <1>1, <1>3, <1>5, <1>6, <1>8, <1>9, <1>10, <1>11, <1>12, Quietly DEF ThreadOK

LEMMA InsertSwaps ==
  ASSUME IInv, NEW t \in Threads, guard[t] = "none", InsertCas(t),
         Guard(t, "leave"), UNCHANGED <<hazardVars, global>>
  PROVE  IInv'
  <1>1. /\ ListInv /\ OutTagged /\ ListTypes /\ GuardInv(t) /\ PlaceInv(t) /\ CallInv(t)
        /\ SlotInv(t) /\ SlotsType /\ GuardType
        /\ result \in [Threads -> Results]
        /\ UNCHANGED <<waits, slots, freeVars>>
        /\ pc[t] = "ins_cas" /\ UNCHANGED <<op, arg, out>>
    BY Known DEF hazardVars, InsertCas
  <1>2. fpc[t] = "idle" /\ fpc' = fpc /\ victim' = victim /\ at' = at
        /\ op[t] = "insert"
    BY <1>1, NotFreeing DEF freeVars, CallInv, Insertion
  <1>3. Placed(t)
    BY <1>1 DEF PlaceInv, Placed, AtNode
  <1>4. ListInv' /\ OutTagged' /\ ChainStep
    BY <1>1, <1>3, InsertCasStep DEF Kept
  <1>5. CASE Finish(t, "done")
    <2>1. "done" \in Results
      BY DEF Results
    <2> QED BY <1>1, <1>2, <1>4, <1>5, <2>1, Leaves
  <1>6. CASE /\ UNCHANGED <<pc, prev, cur, nxt, result>>
             /\ found' = [found EXCEPT ![t] = link[Root]]
    <2>1. guard'[t] = "leave" /\ "leave" \in Guards
      BY <1>1, GuardSet DEF Guards
    <2>2. Others(t)
      BY <1>1, <1>6 DEF Others, ListTypes
    <2>3. PlaceInv(t)' /\ SlotInv(t)' /\ WaitInv(t)' /\ WithInv(t)' /\ KeepInv(t)'
      BY <1>1, <1>2, <1>6, <2>1
      DEF PlaceInv, AtNode, SlotInv, Distinct, WaitInv, WithInv, KeepInv, Protected
    <2>4. GuardInv(t)'
      BY <1>1, <1>2, <1>6, <2>1 DEF GuardInv, Removes, Steps
    <2>5. Hand(t)' = Hand(t) /\ SlotsType' /\ OtherSlots(t)
      BY <1>1, <1>6 DEF Hand, SlotsType, OtherSlots
    <2> QED
      BY <1>1, <1>4, <1>6, <2>1, <2>2, <2>3, <2>4, <2>5, Quietly DEF ThreadOK
  <1> QED BY <1>5, <1>6 DEF InsertCas

LEMMA InsertStepKeeps ==
  ASSUME IInv, NEW t \in Threads, InsertStep(t), UNCHANGED global
  PROVE  IInv'
  BY InsertLoads, InsertSwaps DEF InsertStep

(* An operation starts at the head. *)
LEMMA BeginStep ==
  ASSUME IInv, NEW t \in Threads, Begin(t), UNCHANGED <<owed, global>>
  PROVE  IInv'
  <1>1. /\ pc[t] = "head" /\ guard[t] = "none" /\ fpc[t] = "idle"
        /\ UNCHANGED <<link, op, arg, order, out, hazardVars, global>>
        /\ UNCHANGED <<waits, slots, freeVars>>
    BY DEF Begin, Ready, hazardVars
  <1>2. CASE Removes(t) /\ Answer(t, Null)
    <2>1. Null \in Results
      BY DEF Results
    <2> QED BY <1>1, <1>2, <2>1, Stops
  <1>3. CASE /\ link[Root].to # Null \/ ~Removes(t)
             /\ cur' = [cur EXCEPT ![t] = link[Root]]
             /\ Goto(t, "visit") /\ Guard(t, "register")
             /\ UNCHANGED <<prev, nxt, found, result>>
    <2>1. /\ ListTypes /\ LinkInv /\ TagInv /\ GuardInv(t) /\ PlaceInv(t) /\ SlotInv(t)
          /\ SlotsType /\ GuardType /\ result \in [Threads -> Results]
      BY Known
    <2>2. fpc' = fpc /\ victim' = victim /\ at' = at
      BY <1>1 DEF freeVars
    <2>3. guard'[t] = "register" /\ "register" \in Guards
      BY <1>3, <2>1, GuardSet DEF Guards
    <2>4. PICK l \in Link : l = link[Root] /\ ~l.tag
      BY <2>1 DEF ListTypes, TagInv
    <2>5. prev[t] = Root /\ prev' = [prev EXCEPT ![t] = Root]
      BY <1>1, <1>3, <2>1 DEF PlaceInv, AtNode, ListTypes
    <2>6. /\ ListInv' /\ OutTagged' /\ ChainStep /\ Others(t)
          /\ pc'[t] = "visit" /\ prev'[t] = Root /\ cur'[t] = l
          /\ Hand(t) = {} /\ Hand(t)' = {} /\ Behind(Root)' = Behind(Root)
          /\ Ordered' = Ordered
      <3>1. /\ pc[t] \in {"head", "visit"} /\ Root \in Ordered \cup {Root}
            /\ l.tag => op[t] = "walk"
            /\ cur' = [cur EXCEPT ![t] = l] /\ Goto(t, "visit")
            /\ UNCHANGED <<link, op, arg, nxt, found, result, order, out>>
        BY <1>1, <1>3, <2>4
      <3> QED BY <2>5, <3>1, MovesTo, Zenon
    <2>7. PlaceInv(t)'
      <3>1. Behind(prev[t])' = Behind(Root)
        BY <2>6
      <3>2. l.to \in Behind(Root) \cup {Null}
        BY <2>1, <2>4 DEF LinkInv
      <3>3. Removes(t)' <=> Removes(t)
        BY <1>1 DEF Removes
      <3> QED BY <1>3, <2>4, <2>6, <3>1, <3>2, <3>3 DEF PlaceInv, AtNode
    <2>8. GuardInv(t)'
      BY <1>1, <1>3, <2>1, <2>2, <2>3, <2>6 DEF GuardInv, Removes, Steps
    <2>9. SlotInv(t)'
      <3>1. Held(t) = {}
        BY <1>1, <2>1 DEF SlotInv, Wants, AtNode
      <3>2. Held(t)' = {} /\ Distinct(t)'
        BY <1>1, <2>1, <3>1 DEF Held, SlotInv, Distinct
      <3> QED BY <2>3, <3>2 DEF SlotInv
    <2>10. WaitInv(t)' /\ WithInv(t)' /\ KeepInv(t)'
      BY <1>1, <2>2, <2>3, <2>6, ListAssumption DEF WaitInv, WithInv, KeepInv, Protected
    <2>11. SlotsType' /\ OtherSlots(t)
      BY <1>1, <2>1 DEF SlotsType, OtherSlots
    <2> QED
      BY <1>1, <1>3, <2>1, <2>3, <2>6, <2>7, <2>8, <2>9, <2>10, <2>11, Quietly
      DEF ThreadOK
  <1> QED BY <1>2, <1>3 DEF Begin

(* It goes on to the next node, from a node it has a slot for. *)
LEMMA AdvanceStep ==
  ASSUME IInv, NEW t \in Threads, pc[t] = "visit", guard[t] = "none",
         fpc[t] = "idle", cur[t].to # Null,
         NEW l \in Link, l.to = link[cur[t].to].to, l.tag => op[t] = "walk",
         Removes(t) => op[t] # "remove_front" /\ l.to # Null, Advance(t, l),
         UNCHANGED <<link, op, arg, order, out, hazardVars, global>>
  PROVE  IInv'
  <1>1. /\ ListTypes /\ OrderInv /\ LinkInv /\ GuardInv(t) /\ PlaceInv(t) /\ SlotInv(t)
        /\ SlotsType /\ GuardType /\ result \in [Threads -> Results]
        /\ UNCHANGED <<waits, slots, freeVars>>
        /\ UNCHANGED <<pc, nxt, found, result>>
    BY Known DEF hazardVars, Advance
  <1>2. fpc' = fpc /\ victim' = victim /\ at' = at
    BY <1>1 DEF freeVars
  <1> DEFINE g == IF Removes(t) THEN "shift" ELSE "register"
  <1>3. guard'[t] = g /\ g \in Guards /\ Guard(t, g)
    BY <1>1, GuardSet DEF Guards, Advance
  <1>4. PICK n \in Ordered : n = cur[t].to
    BY <1>1, OrderFacts DEF PlaceInv, AtNode
  <1>5. /\ n \in Nodes /\ n \in Behind(prev[t]) /\ l.to \in Behind(n) \cup {Null}
        /\ Behind(n) \subseteq Nodes
    BY <1>1, <1>4, OrderFacts DEF PlaceInv, AtNode, LinkInv
  <1>6. Goto(t, "visit")
    BY <1>1 DEF Goto, ListTypes
  <1>7. /\ ListInv' /\ OutTagged' /\ ChainStep /\ Others(t)
        /\ pc'[t] = "visit" /\ prev'[t] = n /\ cur'[t] = l
        /\ Hand(t) = {} /\ Hand(t)' = {} /\ Behind(n)' = Behind(n)
        /\ Ordered' = Ordered
    <2>1. /\ pc[t] \in {"head", "visit"} /\ n \in Ordered \cup {Root}
          /\ prev' = [prev EXCEPT ![t] = n] /\ cur' = [cur EXCEPT ![t] = l]
          /\ UNCHANGED <<link, op, arg, nxt, found, result, order, out>>
      BY <1>1, <1>4 DEF Advance
    <2> QED BY <1>6, <2>1, MovesTo, Zenon
  <1>8. PlaceInv(t)'
    <2>1. Behind(prev[t])' = Behind(n)
      BY <1>7
    <2>2. Removes(t)' <=> Removes(t)
      BY DEF Removes
    <2>3. op[t] # "remove_front"
      BY DEF Removes
    <2> QED BY <1>5, <1>7, <2>1, <2>2, <2>3 DEF PlaceInv, AtNode
  <1>9. GuardInv(t)'
    BY <1>1, <1>2, <1>3, <1>7 DEF GuardInv, Removes, Steps
  <1>10. SlotInv(t)'
    <2>1. Distinct(t)' /\ Held(t)' = Held(t)
      BY <1>1 DEF SlotInv, Distinct, Held
    <2>2. Held(t) \subseteq {n} \cup IF Removes(t) THEN {prev[t]} ELSE {}
      BY <1>1, <1>4 DEF SlotInv, Wants, AtNode, Removes
    <2>3. CASE Removes(t)
      <3>1. l.to \in Behind(n)
        BY <1>5, <2>3
      <3>2. l.to # n /\ l.to # prev[t]
        BY <1>1, <1>5, <3>1, BehindIsOrder
      <3> QED BY <1>3, <1>7, <2>1, <2>2, <2>3, <3>2 DEF SlotInv
    <2>4. CASE ~Removes(t)
      <3>1. Wants(t)' = {n}
        BY <1>3, <1>7, <2>4 DEF Wants
      <3> QED BY <1>3, <2>1, <2>2, <2>4, <3>1 DEF SlotInv
    <2> QED BY <2>3, <2>4
  <1>11. WaitInv(t)' /\ WithInv(t)'
    BY <1>2, <1>3 DEF WaitInv, WithInv
  <1>12. KeepInv(t)'
    <2>1. Protected(t)' \subseteq Protected(t)
      BY <1>3, <1>4, <1>7 DEF Protected, Removes, AtNode
    <2>2. FreeStep(t)
      BY <1>1 DEF FreeStep, freeVars
    <2> QED BY <1>1, <2>1, <2>2, KeepsOn
  <1>13. SlotsType' /\ OtherSlots(t)
    BY <1>1 DEF SlotsType, OtherSlots
  <1> QED
    BY <1>1, <1>3, <1>7, <1>8, <1>9, <1>10, <1>11, <1>12, <1>13, Quietly
    DEF ThreadOK

(* While remove_with_node runs others remove other nodes, in the same way. *)
LEMMA OnlyOwner ==
  ASSUME IInv, NEW t \in Threads, NEW u \in Threads \ {t},
         op[t] = "remove_with", pc[t] \in AtNode,
         op[u] \in Removers, pc[u] \in AtNode
  PROVE  op[u] = "remove_with" /\ arg[u] # arg[t]
  <1>1. GuardInv(t) /\ GuardInv(u) /\ CallInv(t) /\ CallInv(u)
    BY Known
  <1>2. op[u] = "remove_with"
    BY <1>1 DEF GuardInv, Removers
  <1>3. <<"remove_with", arg[t]>> \in May[t] /\ <<"remove_with", arg[u]>> \in May[u]
    BY <1>1, <1>2 DEF CallInv, AtNode, Steps, Insertion
  <1>4. <<"remove_with", arg[t]>> \in Calls
    BY <1>3, ListAssumption
  <1>5. arg[t] \in Values
    BY <1>4 DEF Calls, Inserts, Plain, ByKey
  <1> QED BY <1>2, <1>3, <1>5, HpListAssumption

(* It is at the node that it is to remove. *)
LEMMA Aiming ==
  ASSUME IInv, NEW t \in Threads, pc[t] = "visit", guard[t] = "none",
         fpc[t] = "idle", cur[t].to # Null, Removes(t),
         op[t] # "remove_front" => Data[cur[t].to] = arg[t],
         NEW l \in Link, l.to = link[cur[t].to].to, ~l.tag, Aim(t, l),
         Guard(t, IF op[t] = "remove_front" THEN "register" ELSE "none"),
         UNCHANGED <<link, op, arg, order, out, hazardVars, global>>
  PROVE  IInv'
  <1>1. /\ ListInv /\ OutTagged /\ ListTypes /\ LinkInv /\ GuardInv(t) /\ PlaceInv(t)
        /\ SlotInv(t) /\ SlotsType /\ GuardType /\ result \in [Threads -> Results]
        /\ UNCHANGED <<waits, slots, freeVars>>
        /\ UNCHANGED <<prev, cur, found, result>>
    BY Known DEF hazardVars, Aim
  <1>2. fpc' = fpc /\ victim' = victim /\ at' = at
    BY <1>1 DEF freeVars
  <1> DEFINE g == IF op[t] = "remove_front" THEN "register" ELSE "none"
  <1>3. guard'[t] = g /\ g \in Guards
    BY <1>1, GuardSet DEF Guards
  <1>4. Aims(t, l)
    BY <1>1, WaysOn
  <1>5. ListInv' /\ OutTagged' /\ ChainStep
    BY <1>1, <1>4, AimStep DEF Kept, Removes, Removers
  <1>6. pc'[t] = "mark" /\ nxt'[t] = l /\ Others(t)
    BY <1>1 DEF Aim, Goto, ListTypes, Others
  <1>7. PICK n \in Ordered : n = cur[t].to
    BY <1>1, OrderFacts DEF PlaceInv, AtNode
  <1>8. PlaceInv(t)'
    <2>1. l.to \in Behind(n) \cup {Null}
      BY <1>1, <1>7 DEF LinkInv
    <2>2. \A m : Behind(m)' = Behind(m)
      BY DEF Behind
    <2>3. /\ Behind(prev[t])' = Behind(prev[t])
          /\ Behind(cur[t].to)' = Behind(cur[t].to) /\ Ordered' = Ordered
      BY <1>1, <2>2 DEF Ordered
    <2> QED BY <1>1, <1>6, <1>7, <2>1, <2>3 DEF PlaceInv, AtNode
  <1>9. GuardInv(t)'
    BY <1>1, <1>2, <1>3, <1>6 DEF GuardInv, Removes, Steps
  <1>10. SlotInv(t)'
    <2>1. Distinct(t)' /\ Held(t)' = Held(t)
      BY <1>1 DEF SlotInv, Distinct, Held
    <2>2. Held(t) \subseteq {cur[t].to, prev[t]} \cap Nodes
      BY <1>1, InSlots DEF SlotInv, Wants, AtNode, Removes
    <2>3. op[t] = "remove_front" => prev[t] \notin Nodes
      BY <1>1, ListAssumption DEF PlaceInv, AtNode
    <2>4. Held(t) \subseteq Wants(t)'
      BY <1>1, <1>3, <1>6, <2>2, <2>3 DEF Wants, AtNode, Removes
    <2> QED BY <1>3, <2>1, <2>4 DEF SlotInv
  <1>11. WaitInv(t)' /\ WithInv(t)'
    BY <1>2, <1>6 DEF WaitInv, WithInv
  <1>12. KeepInv(t)'
    <2>1. Protected(t)' \subseteq Protected(t)
      BY <1>1, <1>3, <1>6 DEF Protected, Removes, AtNode
    <2>2. FreeStep(t)
      BY <1>1 DEF FreeStep, freeVars
    <2> QED BY <1>1, <2>1, <2>2, KeepsOn
  <1>13. SlotsType' /\ OtherSlots(t)
    BY <1>1 DEF SlotsType, OtherSlots
  <1>14. Hand(t)' = Hand(t)
    BY <1>1, <1>6 DEF Hand
  <1> QED
    BY <1>1, <1>3, <1>5, <1>6, <1>8, <1>9, <1>10, <1>11, <1>12, <1>13, <1>14, Quietly
    DEF ThreadOK

(* What remove_with is about to remove nobody else is removing. *)
LEMMA WithUntagged ==
  ASSUME IInv, NEW t \in Threads, pc[t] = "visit", guard[t] = "none",
         op[t] = "remove_with", Hit(t), cur[t].to # Null
  PROVE  ~link[cur[t].to].tag
  <1> SUFFICES ASSUME link[cur[t].to].tag PROVE FALSE
    OBVIOUS
  <1>1. /\ TagInv /\ WithInv(t) /\ ListTypes
        /\ \A u \in Threads : CallInv(u)
    BY Known DEF ListInv
  <1>2. cur[t].to \in Nodes \ out
    BY <1>1 DEF WithInv, ListTypes, Link
  <1>3. PICK u \in Threads : pc[u] \in Holding /\ cur[u].to = cur[t].to
    BY <1>1, <1>2 DEF TagInv
  <1>4. /\ u # t /\ op[u] \in Removers
        /\ op[u] # "remove_front" => Data[cur[u].to] = arg[u]
    BY <1>1, <1>3 DEF CallInv, Holding, AtNode
  <1>5. op[u] = "remove_with" /\ arg[u] # arg[t]
    BY <1>3, <1>4, OnlyOwner DEF AtNode, Holding
  <1> QED BY <1>3, <1>4, <1>5 DEF Hit

LEMMA VisitOps ==
  ASSUME IInv, NEW t \in Threads, pc[t] = "visit"
  PROVE  op[t] \in {"remove_front", "remove", "remove_with", "contains", "walk"}
  <1>1. op[t] # "insert" /\ <<op[t], arg[t]>> \in May[t]
    BY Known DEF CallInv, Steps, Insertion
  <1>2. <<op[t], arg[t]>> \in Calls
    BY <1>1, ListAssumption
  <1>3. <<op[t], arg[t]>> # <<"is_empty", Null>>
    BY <1>1, HpListAssumption
  <1> QED BY <1>1, <1>2, <1>3 DEF Calls, Inserts, Plain, ByKey

LEMMA VisitKeeps ==
  ASSUME IInv, NEW t \in Threads, Visit(t), UNCHANGED <<owed, global>>
  PROVE  IInv'
  <1>1. /\ pc[t] = "visit" /\ guard[t] = "none" /\ fpc[t] = "idle"
        /\ UNCHANGED <<link, op, arg, order, out, hazardVars, global>>
    BY DEF Visit, Ready
  <1>2. /\ ListTypes /\ CallInv(t) /\ PlaceInv(t) /\ TagInv
    BY Known
  <1>3. {Null, "done", "found"} \subseteq Results
    BY DEF Results
  <1>4. ASSUME Again(t) PROVE IInv'
    BY <1>1, <1>4, Stops
  <1>5. ASSUME NEW r \in {Null, "done", "found"}, Answer(t, r),
               op[t] = "remove_with" => r = Null
        PROVE  IInv'
    BY <1>1, <1>3, <1>5, Stops
  <1>6. CASE cur[t].to = Null /\ Answer(t, IF op[t] = "walk" THEN "done" ELSE Null)
    BY <1>5, <1>6
  <1>7. CASE cur[t].to # Null
    <2>1. PICK n \in Nodes : n = cur[t].to
      BY <1>2, <1>7 DEF ListTypes, Link
    <2>2. PICK l \in Link : l = link[n]
      BY <1>2 DEF ListTypes
    <2>3. Untagged(l) \in Link /\ Untagged(l).to = l.to /\ ~Untagged(l).tag
      BY DEF Untagged, Link
    <2>4. CASE op[t] = "remove_front" /\ VisitFirst(t, l)
      BY <1>1, <1>4, <1>7, <2>1, <2>2, <2>4, Aiming DEF VisitFirst, Removes
    <2>5. CASE op[t] \in {"remove", "remove_with"} /\ VisitToRemove(t, l)
      <3>1. CASE /\ Hit(t)
                 /\ Aim(t, IF op[t] = "remove" THEN Untagged(l) ELSE l)
                 /\ Guard(t, "none")
        <4>1. op[t] = "remove_with" => ~l.tag
          BY <1>1, <1>7, <2>1, <2>2, <3>1, WithUntagged
        <4>2. PICK m \in Link : /\ m = IF op[t] = "remove" THEN Untagged(l) ELSE l
                                /\ m.to = l.to /\ ~m.tag
          BY <2>3, <2>5, <4>1
        <4> QED
          BY <1>1, <1>7, <2>1, <2>2, <2>5, <3>1, <4>2, Aiming DEF Removes, Hit
      <3>2. CASE l.to # Null /\ Advance(t, Untagged(l))
        BY <1>1, <1>7, <2>1, <2>2, <2>3, <2>5, <3>2, AdvanceStep
      <3> QED BY <1>4, <1>5, <2>5, <3>1, <3>2 DEF VisitToRemove
    <2>6. CASE op[t] = "contains" /\ VisitToFind(t, l)
      BY <1>1, <1>4, <1>5, <1>7, <2>1, <2>2, <2>6, AdvanceStep
      DEF VisitToFind, Removes
    <2>7. CASE op[t] = "walk" /\ Advance(t, l)
      BY <1>1, <1>7, <2>1, <2>2, <2>7, AdvanceStep DEF Removes
    <2>8. op[t] \in {"remove_front", "remove", "remove_with", "contains", "walk"}
      BY <1>1, VisitOps
    <2> QED BY <1>7, <2>1, <2>2, <2>4, <2>5, <2>6, <2>7, <2>8 DEF Visit
  <1> QED BY <1>6, <1>7 DEF Visit

(* The removal proper: what the thread protects does not change. *)
LEMMA SameWants ==
  ASSUME IInv, NEW t \in Threads, pc[t] \in AtNode \ {"visit"},
         pc'[t] \in AtNode \ {"visit"}, guard[t] = "none", guard'[t] = "none",
         UNCHANGED <<op, prev, cur, nxt, result, hazardVars>>
  PROVE  /\ fpc[t] = "idle" /\ SlotInv(t)' /\ WaitInv(t)' /\ WithInv(t)' /\ KeepInv(t)'
         /\ SlotsType' /\ OtherSlots(t)
         /\ UNCHANGED <<waits, slots, fpc, victim, at, calls, turns, deferred, freed>>
  <1>1. SlotInv(t) /\ SlotsType /\ UNCHANGED slots
    BY Known DEF hazardVars
  <1>2. UNCHANGED <<waits, slots, fpc, victim, at, calls, turns, deferred, freed>>
    BY DEF hazardVars, freeVars
  <1>3. fpc[t] = "idle"
    BY NotFreeing DEF AtNode
  <1>4. SlotInv(t)'
    <2>1. Wants(t)' = Wants(t) /\ Held(t)' = Held(t)
      BY <1>1 DEF Wants, Held, Removes, AtNode
    <2> QED BY <1>1, <2>1 DEF SlotInv, Distinct
  <1>5. WaitInv(t)' /\ WithInv(t)'
    BY <1>2, <1>3 DEF WaitInv, WithInv, AtNode
  <1>6. KeepInv(t)'
    <2>1. Protected(t)' = Protected(t)
      BY DEF Protected, Removes, AtNode
    <2>2. FreeStep(t)
      BY <1>2 DEF FreeStep
    <2> QED BY <1>1, <2>1, <2>2, KeepsOn
  <1> QED BY <1>1, <1>2, <1>3, <1>4, <1>5, <1>6 DEF SlotsType, OtherSlots

LEMMA GuardNone ==
  ASSUME IInv, NEW t \in Threads, guard[t] = "none", UNCHANGED guard
  PROVE  Guard(t, "none") /\ "none" \in Guards
  <1>1. GuardType
    BY Known
  <1> QED BY <1>1 DEF GuardType, Guard, Guards

LEMMA TagStep ==
  ASSUME IInv, NEW t \in Threads, Tag(t), UNCHANGED global
  PROVE  IInv'
  <1>1. /\ pc[t] = "mark" /\ guard[t] = "none" /\ fpc[t] = "idle"
        /\ UNCHANGED <<op, arg, order, out, hazardVars, global>>
        /\ UNCHANGED <<waits, slots, freeVars>>
    BY DEF Tag, Ready, hazardVars
  <1>2. CASE Again(t) /\ UNCHANGED link
    BY <1>1, <1>2, Stops
  <1>3. CASE /\ link[cur[t].to] = nxt[t]
             /\ link' = [link EXCEPT ![cur[t].to] = Tagged(nxt[t])]
             /\ Goto(t, "swing")
             /\ UNCHANGED <<prev, cur, nxt, found, result, guard>>
    <2>1. /\ ListInv /\ OutTagged /\ ListTypes /\ GuardInv(t) /\ PlaceInv(t) /\ CallInv(t)
          /\ GuardType /\ result \in [Threads -> Results] /\ OrderInv
      BY <1>1, Known
    <2>2. Mark(t)
      BY <1>1, <1>3 DEF Mark
    <2>3. Placed(t)
      BY <1>1, <2>1, OrderFacts DEF PlaceInv, Placed, AtNode
    <2>4. ListInv' /\ OutTagged' /\ ChainStep
      BY <2>1, <2>2, <2>3, MarkStep DEF Kept
    <2>5. pc'[t] = "swing" /\ Others(t)
      BY <1>1, <1>3, <2>1 DEF Goto, ListTypes, Others
    <2>6. guard'[t] = "none" /\ Guard(t, "none") /\ "none" \in Guards
      BY <1>1, <1>3, GuardNone
    <2>7. PlaceInv(t)'
      <3>1. \A m : Behind(m)' = Behind(m)
        BY <1>1 DEF Behind
      <3>2. Behind(prev[t])' = Behind(prev[t]) /\ Ordered' = Ordered
        BY <1>1, <1>3, <3>1 DEF Ordered
      <3> QED BY <1>1, <1>3, <2>1, <2>5, <3>2 DEF PlaceInv, AtNode, Removes
    <2>8. /\ SlotInv(t)' /\ WaitInv(t)' /\ WithInv(t)' /\ KeepInv(t)'
          /\ SlotsType' /\ OtherSlots(t)
          /\ UNCHANGED <<fpc, victim, at>>
      BY <1>1, <1>3, <2>5, <2>6, SameWants DEF AtNode
    <2>9. GuardInv(t)'
      BY <1>1, <1>3, <2>1, <2>5, <2>6, <2>8 DEF GuardInv, Removes, Steps
    <2>10. Hand(t)' = Hand(t)
      BY <1>1, <1>3, <2>5 DEF Hand
    <2> QED
      BY <1>1, <1>3, <2>1, <2>4, <2>5, <2>6, <2>7, <2>8, <2>9, <2>10, Quietly
      DEF ThreadOK
  <1> QED BY <1>2, <1>3 DEF Tag

LEMMA SwingKeeps ==
  ASSUME IInv, NEW t \in Threads, guard[t] = "none", Swing(t),
         UNCHANGED <<guard, hazardVars, global>>
  PROVE  IInv'
  <1>1. /\ ListInv /\ OutTagged /\ ListTypes /\ LinkInv /\ GuardInv(t) /\ PlaceInv(t)
        /\ CallInv(t) /\ HoldInv(t) /\ H!TypeOK /\ H!FreedOnce /\ DisposeInv
        /\ GuardType /\ result \in [Threads -> Results]
        /\ pc[t] = "swing" /\ UNCHANGED <<op, arg, prev, cur, nxt, result, order>>
    BY Known DEF Swing
  <1>2. /\ cur[t].to \in ItemSet /\ op[t] \in Removers
        /\ op[t] # "remove_front" => Data[cur[t].to] = arg[t]
    BY <1>1 DEF HoldInv, Holding, CallInv, AtNode
  <1>3. ASSUME NEW u \in Threads \ {t}, op[u] = "remove_with", pc[u] \in AtNode
        PROVE  Data[cur[t].to] # arg[u]
    <2>1. op[t] = "remove_with" /\ arg[t] # arg[u]
      BY <1>1, <1>2, <1>3, OnlyOwner DEF AtNode
    <2> QED BY <1>2, <2>1
  <1>4. Placed(t)
    BY <1>1, <1>2 DEF PlaceInv, Placed, AtNode, ItemSet
  <1>5. ListInv' /\ OutTagged' /\ ChainStep /\ ListTypes'
    BY <1>1, <1>3, <1>4, SwingStep DEF Kept, ListInv
  <1>6. /\ pc'[t] \in {"take", "unmark"} /\ Others(t)
        /\ pc'[t] = "take" => out' = out \cup {cur[t].to}
        /\ pc'[t] = "unmark" => out' = out
        /\ pc'[t] = "unmark" /\ op[t] = "remove_front" => found'[t] = link[Root]
    BY <1>1 DEF Swing, Goto, ListTypes, Others
  <1>7. guard'[t] = "none" /\ Guard(t, "none") /\ "none" \in Guards
    BY GuardNone
  <1>8. PlaceInv(t)'
    <2>1. \A m : Behind(m)' = Behind(m)
      BY <1>1 DEF Behind
    <2>2. Behind(prev[t])' = Behind(prev[t]) /\ Ordered' = Ordered
      BY <1>1, <2>1 DEF Ordered
    <2>3. link[Root].to \in Ordered \cup {Null}
      BY <1>1, OrderFacts DEF LinkInv
    <2> QED BY <1>1, <1>6, <2>2, <2>3 DEF PlaceInv, AtNode, Removes
  <1>9. /\ SlotInv(t)' /\ WaitInv(t)' /\ WithInv(t)' /\ KeepInv(t)'
        /\ SlotsType' /\ OtherSlots(t)
        /\ UNCHANGED <<waits, slots, fpc, victim, at, calls, turns, deferred, freed>>
    BY <1>1, <1>6, <1>7, SameWants DEF AtNode
  <1>10. GuardInv(t)'
    BY <1>1, <1>6, <1>7, <1>9 DEF GuardInv, Removes, Steps
  <1>11. Elsewhere(t) /\ FreeStep(t)
    BY <1>1, <1>6, <1>9 DEF Elsewhere, Unfreeing, FreeStep
  <1>12. Hand(t) = {} /\ Hand(t)' = IF pc'[t] = "take" THEN {cur[t].to} ELSE {}
    BY <1>1, <1>6, ListAssumption DEF Hand, GuardInv
  <1>13. Gone' = Gone /\ H!FreedOnce'
    BY <1>1, <1>9, NothingGoes
  <1>14. DisposeInv'
    <2>1. cur[t].to \notin out /\ Gone \subseteq out
      BY <1>1, <1>2 DEF ItemSet, DisposeInv
    <2> QED BY <1>6, <1>11, <1>12, <1>13, <2>1, Disposed
  <1>15. H!TypeOK' /\ GuardType'
    BY <1>1, <1>9 DEF H!TypeOK, GuardType
  <1>16. \A u \in Threads \ {t} : op[u] = "remove_with" /\ pc[u] \in AtNode =>
           \A n \in out' \ out : Data[n] # arg[u]
    BY <1>3, <1>6
  <1> QED
    BY <1>1, <1>5, <1>8, <1>9, <1>10, <1>11, <1>14, <1>15, <1>16, Combined
    DEF ThreadOK

LEMMA UnmarkKeeps ==
  ASSUME IInv, NEW t \in Threads, guard[t] = "none", Unmark(t), Guard(t, "leave"),
         UNCHANGED <<hazardVars, global>>
  PROVE  IInv'
  <1>1. /\ ListInv /\ OutTagged /\ ListTypes /\ GuardInv(t) /\ PlaceInv(t) /\ SlotInv(t)
        /\ SlotsType /\ GuardType /\ result \in [Threads -> Results]
        /\ UNCHANGED <<waits, slots, freeVars>>
        /\ pc[t] = "unmark" /\ UNCHANGED <<op, arg, order, out>>
    BY Known DEF hazardVars, Unmark
  <1>2. ListInv' /\ OutTagged' /\ ChainStep
    BY <1>1, UnmarkStep DEF Kept
  <1>3. CASE Restart(t)
    BY <1>1, <1>2, <1>3, Leaves
  <1>4. CASE op[t] = "remove_front" /\ Finish(t, Null)
    <2>1. Null \in Results
      BY DEF Results
    <2> QED BY <1>1, <1>2, <1>4, <2>1, Leaves
  <1>5. CASE /\ op[t] = "remove_front" /\ found[t].to # Null
             /\ cur' = [cur EXCEPT ![t] = found[t]]
             /\ nxt' = [nxt EXCEPT ![t] = To(Null)]
             /\ found' = [found EXCEPT ![t] = To(Null)]
             /\ Goto(t, "visit")
             /\ UNCHANGED <<prev, result>>
    <2>1. fpc[t] = "idle" /\ fpc' = fpc /\ victim' = victim /\ at' = at
      BY <1>1, NotFreeing DEF freeVars
    <2>2. guard'[t] = "leave" /\ "leave" \in Guards
      BY <1>1, GuardSet DEF Guards
    <2>3. pc'[t] = "visit" /\ cur'[t] = found[t] /\ Others(t)
      BY <1>1, <1>5 DEF Goto, ListTypes, Others
    <2>4. PlaceInv(t)'
      <3>1. \A m : Behind(m)' = Behind(m)
        BY <1>1 DEF Behind
      <3>2. prev[t] = Root /\ found[t].to \in Ordered \cup {Null}
        BY <1>1, <1>5 DEF PlaceInv, AtNode
      <3>3. Behind(prev[t])' = Ordered
        BY <1>1, <1>5, <3>1, <3>2, OrderFacts
      <3> QED BY <1>1, <1>5, <2>3, <3>2, <3>3 DEF PlaceInv, AtNode
    <2>5. GuardInv(t)'
      BY <1>1, <1>5, <2>1, <2>2, <2>3 DEF GuardInv, Removes, Steps
    <2>6. SlotInv(t)' /\ WaitInv(t)' /\ WithInv(t)' /\ KeepInv(t)'
      BY <1>1, <2>1, <2>2
      DEF SlotInv, Distinct, WaitInv, WithInv, KeepInv, Protected
    <2>7. Hand(t)' = Hand(t) /\ SlotsType' /\ OtherSlots(t)
      BY <1>1, <1>5, <2>3 DEF Hand, SlotsType, OtherSlots
    <2> QED
      BY <1>1, <1>2, <1>5, <2>2, <2>3, <2>4, <2>5, <2>6, <2>7, Quietly DEF ThreadOK
  <1> QED BY <1>3, <1>4, <1>5 DEF Unmark

LEMMA UnlinkStep ==
  ASSUME IInv, NEW t \in Threads, Unlink(t), UNCHANGED global
  PROVE  IInv'
  BY SwingKeeps, UnmarkKeeps DEF Unlink

(* The node is given to the caller, or begins to be freed. *)
LEMMA RemoveStep ==
  ASSUME IInv, NEW t \in Threads, Remove(t), UNCHANGED global
  PROVE  IInv'
  <1>1. /\ ListInv /\ OutTagged /\ ListTypes /\ OrderInv /\ GuardInv(t) /\ PlaceInv(t)
        /\ SlotInv(t) /\ CallInv(t) /\ H!TypeOK /\ H!FreedOnce /\ DisposeInv
        /\ FreeingNow(t)
        /\ Distinct(t) /\ SlotsType /\ GuardType /\ result \in [Threads -> Results]
        /\ pc[t] = "take" /\ guard[t] = "none" /\ fpc[t] = "idle"
        /\ Take(t) /\ UNCHANGED <<link, op, arg, order, out, waits, slots>>
    BY Known DEF Remove, Ready, Take
  <1>2. Kept(t)
    BY <1>1, TakeStep
  <1>3. ListInv' /\ OutTagged' /\ ChainStep
    BY <1>2 DEF Kept
  <1>4. PICK n \in Ordered : n = cur[t].to /\ n \in Nodes /\ n \in Behind(prev[t])
    BY <1>1, OrderFacts DEF PlaceInv, AtNode
  <1>5. Ends(t) /\ result' = [result EXCEPT ![t] = n]
    BY <1>1, <1>4, WaysOn DEF Take, Finish
  <1>6. Others(t) /\ pc'[t] = "return" /\ prev'[t] = Root
    BY <1>1, <1>5, Stopping DEF Ends
  <1>7. /\ result' \in [Threads -> Results] /\ result'[t] = n
        /\ \A u \in Threads \ {t} : result'[u] = result[u]
    BY <1>1, <1>4, <1>5 DEF Results
  <1>8. PlaceInv(t)' /\ WithInv(t)' /\ KeepInv(t)'
    BY <1>6 DEF PlaceInv, WithInv, KeepInv, Protected, AtNode
  <1>9. Hand(t) = {n} /\ op[t] \in Removers /\ n \notin Gone
    BY <1>1, <1>4 DEF Hand, CallInv, AtNode, DisposeInv
  <1> DEFINE g == IF op[t] = "remove_front" THEN "trim" ELSE "leave"
  <1>10. guard'[t] = g /\ Guard(t, g) /\ g \in Guards
    BY <1>1, GuardSet DEF Guards, Remove
  <1>11. SlotInv(t)'
    BY <1>1, <1>10 DEF SlotInv, Distinct
  <1>12. CASE op[t] = "remove_with" /\ UNCHANGED freeVars
    <2>1. fpc' = fpc /\ victim' = victim /\ at' = at
      BY <1>12 DEF freeVars
    <2>2. GuardInv(t)'
      BY <1>1, <1>4, <1>6, <1>7, <1>10, <1>12, <2>1 DEF GuardInv, Removes
    <2>3. WaitInv(t)'
      BY <1>1, <2>1 DEF WaitInv
    <2>4. Hand(t)' = Hand(t)
      BY <1>1, <1>4, <1>6, <1>7, <1>9, <1>12 DEF Hand
    <2>5. SlotsType' /\ OtherSlots(t)
      BY <1>1 DEF SlotsType, OtherSlots
    <2> QED
      BY <1>1, <1>3, <1>6, <1>7, <1>8, <1>10, <1>11, <1>12, <2>2, <2>3, <2>4, <2>5,
         Quietly
      DEF ThreadOK
  <1>13. CASE op[t] # "remove_with" /\ H!Free(t, n)
    <2>1. Starts(t, n, "start")
      BY <1>1, <1>13 DEF H!Free, H!Goto, H!Aim, Starts
    <2>2. /\ H!TypeOK' /\ Unfreeing(t) /\ OtherSlots(t) /\ FreeingNow(t)' /\ Distinct(t)'
          /\ fpc'[t] = "start" /\ victim'[t] = n
      BY <1>1, <1>4, <2>1, StartTypes
    <2>3. Gone' = Gone \cup {n} /\ H!FreedOnce'
      BY <1>1, <1>4, <1>9, <2>1, StartGone
    <2>4. GuardInv(t)'
      BY <1>1, <1>4, <1>6, <1>7, <1>9, <1>10, <1>13, <2>2
      DEF GuardInv, Removes, FreeingNow, Removers
    <2>5. WaitInv(t)'
      <3>1. Held(t)' = Held(t) /\ Ordered' = Ordered
        BY <1>1 DEF Held, Ordered
      <3>2. \A m : Behind(m)' = Behind(m)
        BY <1>1 DEF Behind
      <3>3. ASSUME g # "trim", NEW m \in Held(t)
            PROVE  m \in Ordered /\ (m = n \/ n \in Behind(m))
        <4>1. m \in {n, prev[t]} /\ m \in Nodes
          BY <1>1, <1>4, <1>9, <3>3, InSlots DEF SlotInv, Wants, AtNode, Removes, Removers
        <4>2. prev[t] \in Ordered \cup {Root}
          BY <1>1 DEF PlaceInv, AtNode
        <4> QED BY <1>4, <4>1, <4>2, ListAssumption
      <3> QED BY <1>10, <2>2, <3>1, <3>2, <3>3 DEF WaitInv
    <2>6. Hand(t)' = {}
      BY <1>1, <1>6, <1>13 DEF Hand
    <2>7. GuardType' /\ Elsewhere(t)
      BY <1>1, <1>6, <1>7, <1>10, <2>2, GuardSet DEF Elsewhere
    <2>8. FreeStep(t)
      BY <1>4, <2>1 DEF FreeStep
    <2>9. DisposeInv'
      BY <1>1, <1>9, <2>3, <2>6, <2>7, Disposed
    <2>10. out' \ out = {}
      BY <1>1
    <2> QED
      BY <1>3, <1>7, <1>8, <1>11, <2>2, <2>4, <2>5, <2>7, <2>8, <2>9, <2>10, Combined
      DEF ThreadOK
  <1> QED BY <1>4, <1>12, <1>13 DEF Remove

LEMMA FreeingStep ==
  ASSUME IInv, NEW t \in Threads, Freeing(t), UNCHANGED <<owed, global>>
  PROVE  IInv'
  <1>1. /\ GuardInv(t) /\ PlaceInv(t) /\ SlotInv(t) /\ WaitInv(t) /\ H!TypeOK
        /\ H!FreedOnce /\ DisposeInv /\ FreeingNow(t) /\ Distinct(t) /\ GuardType
        /\ guard[t] \in {"none", "leave"} /\ H!Freeing(t)
        /\ UNCHANGED <<listVars, pc, op, arg, guard>>
    BY Known DEF Freeing
  <1>2. /\ H!TypeOK' /\ Unfreeing(t) /\ OtherSlots(t)
        /\ FreeingNow(t)' /\ Distinct(t)'
        /\ fpc[t] # "idle" /\ fpc'[t] # "start"
        /\ fpc[t] = "start" => victim'[t] = victim[t] /\ Held(t)' = Held(t) \ {victim[t]}
        /\ fpc[t] # "start" => slots' = slots
        /\ fpc'[t] = "spin" =>
             fpc[t] \in {"start", "spin"} /\ victim'[t] = victim[t]
    BY <1>1, FreeingTypes
  <1>3. pc[t] \in {"work", "return"}
    BY <1>1, <1>2 DEF GuardInv
  <1>4. /\ ListInv' /\ OutTagged' /\ ChainStep /\ Others(t) /\ PlaceInv(t)'
        /\ UNCHANGED <<link, prev, cur, nxt, found, result, order, out, pc, op, arg>>
        /\ Hand(t)' = Hand(t) /\ result' \in [Threads -> Results]
    BY <1>1, <1>3, ListSame
  <1>5. GuardInv(t)'
    BY <1>1, <1>2, <1>3, <1>4 DEF GuardInv, FreeingNow, Removes
  <1>6. Held(t)' \subseteq Held(t)
    BY <1>2 DEF Held
  <1>7. SlotInv(t)'
    <2>1. ASSUME guard[t] = "none" PROVE Held(t)' = {}
      <3>1. Held(t) \subseteq IF fpc[t] = "start" THEN {victim[t]} ELSE {}
        BY <1>1, <1>3, <2>1 DEF SlotInv, Wants, AtNode
      <3> QED BY <1>2, <1>6, <3>1
    <2> QED BY <1>1, <1>2, <2>1 DEF SlotInv
  <1>8. WaitInv(t)'
    <2>1. ASSUME fpc'[t] = "spin", NEW n \in Held(t)'
          PROVE  n \in Ordered /\ victim'[t] \in Behind(n)
      <3>1. fpc[t] \in {"start", "spin"} /\ victim'[t] = victim[t] /\ n \in Held(t)
        BY <1>2, <1>6, <2>1
      <3>2. n \in Ordered /\ ((n = victim[t] /\ fpc[t] = "start") \/ victim[t] \in Behind(n))
        BY <1>1, <3>1 DEF WaitInv
      <3>3. fpc[t] = "start" => n # victim[t]
        BY <1>2, <2>1
      <3> QED BY <3>1, <3>2, <3>3
    <2>2. Ordered' = Ordered
      BY <1>4 DEF Ordered
    <2>3. \A n : Behind(n)' = Behind(n)
      BY <1>4 DEF Behind
    <2> QED BY <1>2, <2>1, <2>2, <2>3 DEF WaitInv
  <1>9. WithInv(t)' /\ KeepInv(t)'
    BY <1>3, <1>4 DEF WithInv, KeepInv, Protected, AtNode
  <1>10. Gone' = Gone /\ H!FreedOnce'
    BY <1>1, FreeingGone
  <1>11. Elsewhere(t) /\ FreeStep(t) /\ GuardType'
    BY <1>1, <1>2, <1>4 DEF Elsewhere, FreeStep, GuardType
  <1>12. DisposeInv'
    <2>1. Hand(t) \cap Gone = {} /\ out' = out
      BY <1>1, <1>4 DEF DisposeInv
    <2> QED BY <1>4, <1>10, <1>11, <2>1, Disposed
  <1>13. \A n \in out' \ out : FALSE
    BY <1>4
  <1> QED
    BY <1>2, <1>4, <1>5, <1>7, <1>8, <1>9, <1>11, <1>12, <1>13, Combined DEF ThreadOK

(* A call begins or ends. *)
LEMMA CallOrReturn ==
  ASSUME IInv, NEW t \in Threads, Calling(t)
  PROVE  /\ UNCHANGED <<link, prev, cur, nxt, found, order, out>>
         /\ Others(t) /\ result' \in [Threads -> Results]
         /\ \A u \in Threads \ {t} : result'[u] = result[u]
         /\ result'[t] = "pending"
         /\ \/ pc[t] = "work" /\ pc'[t] \in {"ins_load", "head"} /\ op'[t] # "none"
            \/ pc[t] = "return" /\ pc'[t] = "work" /\ op'[t] = "none"
  <1>1. /\ pc \in [Threads -> Phase] /\ op \in [Threads -> Ops] /\ GuardInv(t)
        /\ arg \in [Threads -> Nodes \cup Values \cup {Null}]
        /\ result \in [Threads -> Results]
    BY Known DEF ListTypes
  <1>2. CASE CallInsert(t)
    <2>1. PICK n : arg' = [arg EXCEPT ![t] = n]
      BY <1>2 DEF CallInsert
    <2> QED
      BY <1>1, <1>2, <2>1 DEF CallInsert, Goto, listVars, Others, GuardInv
  <1>3. ASSUME NEW c \in May[t], CallOther(t, c)
        PROVE  /\ UNCHANGED listVars /\ Others(t) /\ pc[t] = "work"
               /\ pc'[t] = "head" /\ op'[t] # "none"
    <2>1. c[1] # "none"
      BY <1>3, ListAssumption, CallShape DEF CallOther
    <2>2. UNCHANGED listVars /\ pc[t] = "work" /\ pc'[t] = "head" /\ op'[t] = c[1]
      BY <1>1, <1>3 DEF CallOther, Goto
    <2>3. Others(t)
      BY <1>1, <1>3 DEF CallOther, Goto, listVars, Others
    <2> QED BY <2>1, <2>2, <2>3
  <1>4. CASE Return(t)
    <2>1. "pending" \in Results
      BY DEF Results
    <2> QED BY <1>1, <1>4, <2>1 DEF Return, Goto, Others
  <1>5. CASE \E c \in May[t] : CallOther(t, c)
    BY <1>1, <1>3, <1>5 DEF listVars, GuardInv
  <1> QED BY <1>2, <1>4, <1>5 DEF Calling

LEMMA CallKeeps ==
  ASSUME IInv, NEW t \in Threads, Call(t), UNCHANGED global
  PROVE  IInv'
  <1>1. /\ ListInv /\ OutTagged /\ GuardInv(t) /\ PlaceInv(t) /\ SlotInv(t) /\ H!TypeOK
        /\ H!FreedOnce /\ DisposeInv /\ FreeingNow(t) /\ Distinct(t) /\ SlotsType
        /\ guard[t] = "none" /\ fpc[t] = "idle" /\ guard' = guard /\ Calling(t)
    <2>1. pc[t] # "out"
      BY CallOrReturn DEF Call
    <2> QED BY <2>1, Known DEF Call
  <1>2. /\ UNCHANGED <<link, prev, cur, nxt, found, order, out>>
        /\ Others(t) /\ result' \in [Threads -> Results]
        /\ \A u \in Threads \ {t} : result'[u] = result[u]
        /\ result'[t] = "pending"
        /\ \/ pc[t] = "work" /\ pc'[t] \in {"ins_load", "head"} /\ op'[t] # "none"
           \/ pc[t] = "return" /\ pc'[t] = "work" /\ op'[t] = "none"
    BY <1>1, CallOrReturn
  <1>3. Placed(t)
    BY <1>1, <1>2 DEF PlaceInv, Placed, AtNode
  <1>4. ListInv' /\ OutTagged' /\ ChainStep
    BY <1>1, <1>3, CallStep DEF Kept
  <1>5. Guard(t, "none") /\ guard'[t] = "none" /\ "none" \in Guards /\ GuardType'
    BY <1>1, GuardNone, Known DEF GuardType
  <1>6. PlaceInv(t)' /\ WithInv(t)' /\ KeepInv(t)'
    BY <1>1, <1>2 DEF PlaceInv, AtNode, WithInv, KeepInv, Protected
  <1>7. Held(t) = {}
    BY <1>1, <1>2 DEF SlotInv, Wants, AtNode
  <1>8. ASSUME slots' = slots
        PROVE  SlotInv(t)' /\ WaitInv(t)' /\ SlotsType' /\ OtherSlots(t)
    <2>1. Held(t)' = {} /\ Distinct(t)'
      BY <1>1, <1>7, <1>8 DEF Held, Distinct
    <2> QED BY <1>1, <1>5, <1>8, <2>1 DEF SlotInv, WaitInv, SlotsType, OtherSlots
  <1>9. op'[t] = "remove_with" => global
    BY <1>1 DEF Call
  <1>10. op'[t] \in {"remove", "remove_front", "contains"} => ~global
    BY DEF Call
  <1>11. Hand(t)' = {}
    BY <1>2, ListAssumption DEF Hand
  <1>12. CASE /\ pc[t] = "return" /\ op[t] = "remove_with" /\ result[t] # Null
              /\ H!Reclaim(t, result[t])
    <2>1. PICK n \in Nodes : n = result[t]
      BY <1>1, <1>12 DEF GuardInv
    <2>2. Hand(t) = {n} /\ n \notin Gone
      BY <1>1, <1>12, <2>1 DEF Hand, DisposeInv
    <2>3. Starts(t, n, "spin")
      BY <1>12, <2>1 DEF H!Reclaim, H!Goto, H!Aim, Starts
    <2>4. /\ H!TypeOK' /\ Unfreeing(t) /\ FreeingNow(t)'
          /\ fpc'[t] = "spin" /\ victim'[t] = n /\ slots' = slots
      BY <1>1, <2>3, StartTypes DEF Starts
    <2>5. Gone' = Gone \cup {n} /\ H!FreedOnce'
      BY <1>1, <2>2, <2>3, StartGone
    <2>6. SlotInv(t)' /\ WaitInv(t)' /\ SlotsType' /\ OtherSlots(t)
      BY <1>8, <2>4
    <2>7. GuardInv(t)'
      BY <1>1, <1>2, <1>5, <1>9, <1>10, <1>12, <2>4 DEF GuardInv, FreeingNow, Removes
    <2>8. Elsewhere(t) /\ FreeStep(t)
      BY <1>1, <1>2, <2>3, <2>4, <2>6 DEF Elsewhere, FreeStep
    <2>9. DisposeInv'
      BY <1>2, <1>11, <2>2, <2>5, <2>8, Disposed
    <2>10. out' \ out = {}
      BY <1>2
    <2> QED
      BY <1>2, <1>4, <1>5, <1>6, <2>4, <2>6, <2>7, <2>8, <2>9, <2>10, Combined
      DEF ThreadOK
  <1>13. CASE /\ ~(pc[t] = "return" /\ op[t] = "remove_with" /\ result[t] # Null)
              /\ UNCHANGED hazardVars
    <2>1. /\ slots' = slots /\ fpc' = fpc /\ victim' = victim /\ at' = at
          /\ UNCHANGED <<waits, freeVars>>
      BY <1>13 DEF hazardVars, freeVars
    <2>2. GuardInv(t)'
      BY <1>1, <1>2, <1>5, <1>9, <1>10, <2>1 DEF GuardInv, Removes, Steps
    <2>3. Hand(t) = {}
      BY <1>1, <1>2, <1>13, ListAssumption DEF Hand, GuardInv
    <2> QED
      BY <1>2, <1>4, <1>5, <1>6, <1>8, <1>11, <2>1, <2>2, <2>3, Quietly DEF ThreadOK
  <1> QED BY <1>12, <1>13 DEF Call

-----------------------------------------------------------------------------
(* The list as it is at first. *)
LEMMA InitHolds == Init => IInv
  <1> SUFFICES ASSUME Init PROVE IInv
    OBVIOUS
  <1>1. /\ ListInit("work", Filled) /\ H!Init /\ global \in BOOLEAN
        /\ guard = [t \in Threads |-> "none"]
    BY DEF Init
  <1>2. /\ ListInv /\ OutTagged /\ out = {}
        /\ \A t \in Threads : pc[t] = "work"
    <2>1. /\ Filled \in Seq(Nodes)
          /\ \A i, j \in DOMAIN Filled : Filled[i] = Filled[j] => i = j
      BY HpListAssumption
    <2> QED BY <1>1, <2>1, ListFilled
  <1>3. \A t \in Threads : /\ op[t] = "none" /\ prev[t] = Root /\ cur[t].to = Null
                           /\ result[t] = "pending"
    BY <1>1 DEF ListInit, To
  <1>4. result \in [Threads -> Results]
    BY <1>1 DEF ListInit, Results
  <1>5. \A t \in Threads : /\ guard[t] = "none" /\ fpc[t] = "idle" /\ at[t] = 1
                           /\ victim[t] = Null
                           /\ \A i \in H!Slots : slots[t][i] = Null
    BY <1>1 DEF H!Init
  <1>6. deferred = <<>> /\ freed = {}
    BY <1>1 DEF H!Init
  <1>7. H!TypeOK
    <2>1. FreeEvery \in Nat \ {0}
      BY HpListAssumption DEF H!HazardConstants
    <2>2. ASSUME NEW t \in Threads PROVE 1 \in 1..H!Last
      <3>1. H!Last \in Nat \ {0}
        BY ThreeSlots, ScanMeets
      <3> QED BY <3>1
    <2>3. /\ slots \in [Threads -> [H!Slots -> Nodes \cup {Null}]]
          /\ fpc \in [Threads -> {"idle", "start", "defer", "pop", "scan", "spin",
                                  "keep", "drop"}]
          /\ victim \in [Threads -> Nodes \cup {Null}]
      BY <1>1 DEF H!Init
    <2>4. at \in [Threads -> 1..H!Last]
      BY <1>1, <2>2 DEF H!Init
    <2>5. calls \in [Threads -> 0..FreeEvery - 1] /\ turns \in [Threads -> 0..FreeEvery]
      BY <1>1, <2>1 DEF H!Init
    <2>6. deferred \in Seq(Nodes) /\ freed \in SUBSET Nodes /\ waits \in BOOLEAN
      BY <1>1, <1>6 DEF H!Init
    <2> QED BY <2>3, <2>4, <2>5, <2>6 DEF H!TypeOK
  <1>8. TypeOK
    BY <1>1, <1>2, <1>7 DEF TypeOK, ListInv, ListTypes
  <1>9. H!Deferred = {} /\ H!Victims = {} /\ Gone = {} /\ H!FreedOnce
    <2>1. DOMAIN deferred = {}
      BY <1>6
    <2> QED BY <1>5, <1>6, <2>1 DEF H!Deferred, H!Victims, Gone, H!FreedOnce
  <1>10. DisposeInv
    BY <1>2, <1>3, <1>9 DEF DisposeInv, Hand
  <1>11. ASSUME NEW t \in Threads PROVE ThreadOK(t) /\ KeepInv(t) /\ WithInv(t)
    <2>1. Held(t) = {} /\ Distinct(t)
      BY <1>5 DEF Held, Distinct
    <2>2. PlaceInv(t) /\ GuardInv(t)
      BY <1>2, <1>3, <1>5 DEF PlaceInv, GuardInv, AtNode, Removes, Steps
    <2>3. SlotInv(t) /\ WaitInv(t)
      BY <1>5, <2>1 DEF SlotInv, WaitInv
    <2>4. KeepInv(t) /\ WithInv(t)
      BY <1>2, <1>3 DEF KeepInv, Protected, AtNode, WithInv
    <2> QED BY <2>2, <2>3, <2>4 DEF ThreadOK
  <1> QED BY <1>2, <1>4, <1>8, <1>10, <1>11 DEF IInv, Dropped

(* With nobody on it every node is in the list or garbage, and List::drop  *)
(* frees the others.                                                       *)
LEMMA DropKeeps ==
  ASSUME IInv, DropList, UNCHANGED global
  PROVE  IInv'
  <1>1. /\ link' = [link EXCEPT ![Root] = To(Null)]
        /\ freed' = freed \cup ItemSet /\ out' = Ordered
        /\ pc' = [t \in Threads |-> "out"]
        /\ UNCHANGED <<op, arg, prev, cur, nxt, found, result, order, waits, slots,
                       fpc, victim, at, calls, turns, deferred, guard>>
    BY DEF DropList
  <1>2. ASSUME NEW t \in Threads
        PROVE  /\ pc[t] = "work" /\ guard[t] = "none" /\ fpc[t] = "idle"
               /\ op[t] = "none" /\ Hand(t) = {} /\ Hand(t)' = {}
    <2>1. pc[t] = "work" /\ guard[t] = "none" /\ fpc[t] = "idle" /\ pc'[t] = "out"
      BY <1>1 DEF DropList, Ready
    <2>2. op[t] = "none" /\ op'[t] = "none"
      BY <1>1, <2>1, Known DEF GuardInv
    <2> QED BY <2>1, <2>2 DEF Hand
  <1>3. ListInv /\ ListTypes /\ OrderInv /\ LinkInv /\ TagInv /\ DisposeInv /\ TypeOK
    BY DEF IInv, ListInv
  <1>4. /\ Ordered' = Ordered /\ ItemSet' = {}
        /\ \A n : Behind(n)' = Behind(n)
    BY <1>1 DEF Ordered, ItemSet, Behind
  <1>5. /\ Ordered \subseteq Nodes /\ Root \notin Nodes /\ Null \notin Ordered
        /\ \A n : Behind(n) \subseteq Ordered
    BY <1>3, OrderFacts, ListAssumption
  <1>6. /\ link' \in [Nodes \cup {Root} -> Link] /\ link'[Root] = To(Null)
        /\ \A n \in Nodes : link'[n] = link[n]
    BY <1>1, <1>3, <1>5 DEF ListTypes, To, Link
  <1>7. ListInv'
    <2>1. ListTypes'
      BY <1>1, <1>3, <1>5, <1>6 DEF ListTypes, Phase, ListInv
    <2>2. OrderInv'
      BY <1>1, <1>3, <1>4 DEF OrderInv
    <2>3. LinkInv'
      <3>1. \A n \in Ordered \cup {Root} : link'[n].to \in Behind(n) \cup {Null}
        BY <1>3, <1>5, <1>6 DEF LinkInv, To
      <3>2. \A n \in Ordered \cup {Root} : Behind(n)' \ out' = {}
        BY <1>1, <1>4, <1>5
      <3>3. link'[Root].to \notin out'
        BY <1>1, <1>5, <1>6 DEF To
      <3> QED BY <1>4, <3>1, <3>2, <3>3 DEF LinkInv
    <2>4. TagInv'
      <3>1. ASSUME NEW n \in Nodes, link'[n].tag PROVE n \in out'
        BY <1>1, <1>2, <1>3, <1>6, <3>1 DEF TagInv, Holding, OrderInv
      <3> QED BY <1>6, <3>1 DEF TagInv, To
    <2>5. ApartInv'
      BY <1>1 DEF ApartInv, Insertion, Holding
    <2>6. \A t \in Threads : CallInv(t)' /\ HoldInv(t)'
      BY <1>1, <1>2, <1>3
      DEF CallInv, HoldInv, Insertion, Steps, AtNode, Holding, ListInv
    <2> QED BY <2>1, <2>2, <2>3, <2>4, <2>5, <2>6 DEF ListInv
  <1>8. TypeOK'
    <2>1. ItemSet \subseteq Nodes
      BY <1>5 DEF ItemSet
    <2> QED BY <1>1, <1>3, <1>6, <2>1 DEF TypeOK, H!TypeOK, H!Slots, H!Last, Phase
  <1>9. /\ H!Deferred' = H!Deferred /\ H!Victims' = H!Victims /\ Gone' = Gone \cup ItemSet
    BY <1>1 DEF H!Deferred, H!Victims, Gone
  <1>10. Gone \subseteq out /\ out = Gone
    BY <1>2, <1>3 DEF DisposeInv
  <1>11. H!FreedOnce'
    <2>1. (H!Deferred \cup H!Victims) \cap ItemSet = {}
      BY <1>10 DEF Gone, ItemSet
    <2> QED BY <1>1, <1>3, <1>9, <2>1 DEF DisposeInv, H!FreedOnce
  <1>12. DisposeInv'
    <2>1. out' = Gone'
      BY <1>1, <1>3, <1>9, <1>10 DEF ItemSet, OrderInv
    <2> QED BY <1>2, <1>11, <2>1 DEF DisposeInv
  <1>13. ASSUME NEW t \in Threads PROVE ThreadOK(t)' /\ KeepInv(t)' /\ WithInv(t)'
    <2>1. /\ PlaceInv(t) /\ GuardInv(t) /\ SlotInv(t)
          /\ pc[t] = "work" /\ pc'[t] = "out" /\ op'[t] = "none"
          /\ guard'[t] = "none" /\ fpc'[t] = "idle"
      BY <1>1, <1>2, Known
    <2>2. PlaceInv(t)' /\ GuardInv(t)'
      BY <1>1, <1>2, <2>1 DEF PlaceInv, GuardInv, AtNode, Removes, Steps
    <2>3. SlotInv(t)'
      <3>1. Held(t) = {}
        BY <1>2, <2>1 DEF SlotInv, Wants, AtNode
      <3>2. Held(t)' = {} /\ Distinct(t)'
        BY <1>1, <2>1, <3>1 DEF Held, SlotInv, Distinct
      <3> QED BY <2>1, <3>2 DEF SlotInv
    <2>4. WaitInv(t)' /\ KeepInv(t)' /\ WithInv(t)'
      BY <2>1 DEF WaitInv, KeepInv, Protected, AtNode, WithInv
    <2> QED BY <2>2, <2>3, <2>4 DEF ThreadOK
  <1>14. Dropped'
    BY <1>1 DEF Dropped
  <1>15. result' \in [Threads -> Results]
    BY <1>1 DEF IInv, Results
  <1> QED BY <1>7, <1>8, <1>12, <1>13, <1>14, <1>15 DEF IInv

(* A step that changes nothing at all. *)
LEMMA NothingChanges ==
  ASSUME IInv, UNCHANGED vars
  PROVE  IInv'
  <1>1. /\ UNCHANGED <<listVars, pc, op, arg, owed, guard, global, slots, freeVars, waits>>
        /\ UNCHANGED <<link, prev, cur, nxt, found, result, order, out>>
        /\ UNCHANGED <<fpc, victim, at, calls, turns, deferred, freed>>
    BY DEF vars, listVars, controlVars, hazardVars, freeVars
  <1>2. ListInv' /\ (OutTagged => OutTagged')
    BY <1>1, ListStutter DEF IInv
  <1>3. Ordered' = Ordered /\ \A n : Behind(n)' = Behind(n)
    BY <1>1 DEF Ordered, Behind
  <1>4. TypeOK'
    BY <1>1 DEF IInv, TypeOK, H!TypeOK, H!Slots, H!Last
  <1>5. H!Deferred' = H!Deferred /\ H!Victims' = H!Victims /\ Gone' = Gone
    BY <1>1 DEF H!Deferred, H!Victims, Gone
  <1>6. \A t \in Threads : Hand(t)' = Hand(t) /\ Held(t)' = Held(t)
    BY <1>1 DEF Hand, Held
  <1>7. DisposeInv'
    <2>1. H!FreedOnce'
      BY <1>1, <1>5 DEF IInv, DisposeInv, H!FreedOnce
    <2> QED BY <1>1, <1>5, <1>6, <2>1 DEF IInv, DisposeInv
  <1>8. ASSUME NEW t \in Threads PROVE ThreadOK(t)' /\ KeepInv(t)' /\ WithInv(t)'
    <2>1. /\ PlaceInv(t) /\ GuardInv(t) /\ SlotInv(t) /\ WaitInv(t)
          /\ KeepInv(t) /\ WithInv(t)
      BY Known
    <2>2. PlaceInv(t)'
      <3>1. PICK c \in Nodes \cup {Null}, p \in Nodes \cup {Root} :
              c = cur[t].to /\ p = prev[t]
        BY DEF IInv, ListInv, ListTypes, Link
      <3>2. Behind(c)' = Behind(c) /\ Behind(p)' = Behind(p)
        BY <1>3
      <3>3. Behind(cur[t].to)' = Behind(c) /\ Behind(prev[t])' = Behind(p)
        BY <1>1, <3>1, <3>2
      <3> QED BY <1>1, <1>3, <2>1, <3>1, <3>3 DEF PlaceInv, Removes
    <2>3. GuardInv(t)'
      BY <1>1, <2>1 DEF GuardInv, Removes
    <2>4. SlotInv(t)'
      <3>1. Wants(t)' = Wants(t) /\ Loaded(t)' = Loaded(t) /\ Distinct(t)' = Distinct(t)
        BY <1>1 DEF Wants, Removes, Loaded, Distinct, H!Slots
      <3> QED BY <1>1, <1>6, <2>1, <3>1 DEF SlotInv
    <2>5. WaitInv(t)'
      BY <1>1, <1>3, <1>6, <2>1 DEF WaitInv
    <2>6. KeepInv(t)' /\ WithInv(t)'
      BY <1>1, <2>1
      DEF KeepInv, Protected, Removes, Shields, IsSlot, WithInv, Hit, H!Last, H!Slots
    <2> QED BY <2>2, <2>3, <2>4, <2>5, <2>6 DEF ThreadOK
  <1>9. Dropped' /\ result' \in [Threads -> Results]
    BY <1>1, <1>2 DEF IInv, Dropped, Results
  <1> QED BY <1>2, <1>4, <1>7, <1>8, <1>9 DEF IInv

(* The invariant holds at first, and whatever step is taken keeps it. *)
THEOREM Inductive == Spec => []IInv
  <1>1. Init => IInv
    BY InitHolds
  <1>2. IInv /\ [Next]_vars => IInv'
    <2> SUFFICES ASSUME IInv, [Next]_vars PROVE IInv'
      OBVIOUS
    <2>1. ASSUME NEW t \in Threads, Call(t) \/ Running(t), UNCHANGED <<saw, owed, global>>
          PROVE  IInv'
      <3>1. UNCHANGED <<owed, global>> /\ UNCHANGED global
        BY <2>1
      <3> USE <3>1
      <3>2. CASE Call(t)
        BY <3>2, CallKeeps
      <3>3. CASE RegisterLoaded(t)
        BY <3>3, RegisterStep
      <3>4. CASE Validate(t)
        BY <3>4, ValidateStep
      <3>5. CASE Release(t)
        BY <3>5, ReleaseStep
      <3>6. CASE InsertStep(t)
        BY <3>6, InsertStepKeeps
      <3>7. CASE Begin(t)
        BY <3>7, BeginStep
      <3>8. CASE Visit(t)
        BY <3>8, VisitKeeps
      <3>9. CASE Use(t)
        BY <3>9, UseStep
      <3>10. CASE Tag(t)
        BY <3>10, TagStep
      <3>11. CASE Unlink(t)
        BY <3>11, UnlinkStep
      <3>12. CASE Remove(t)
        BY <3>12, RemoveStep
      <3>13. CASE Freeing(t)
        BY <3>13, FreeingStep
      <3> QED
        BY <2>1, <3>2, <3>3, <3>4, <3>5, <3>6, <3>7, <3>8, <3>9, <3>10, <3>11,
           <3>12, <3>13 DEF Running
    <2>2. CASE Next
      BY <2>1, <2>2, DropKeeps DEF Next
    <2>3. CASE UNCHANGED vars
      BY <2>3, NothingChanges
    <2> QED BY <2>2, <2>3
  <1> QED BY <1>1, <1>2, PTL DEF Spec

(* Types: the threads are at steps of the code, their slots and the links  *)
(* hold nodes.                                                             *)
THEOREM TypeCorrect == Spec => []TypeOK
  <1>1. IInv => TypeOK
    BY DEF IInv
  <1> QED BY <1>1, Inductive, PTL

(* The tag is a lock: whoever takes it back in remove and remove_front     *)
(* (hp/list.rs:265, 354) finds the link as it has left it.                 *)
THEOREM TagIsLock == Spec => []UntagSucceeds
  <1>1. IInv => UntagSucceeds
    BY DEF IInv, ListInv, HoldInv, Holding, UntagSucceeds
  <1> QED BY <1>1, Inductive, PTL

(* While it frees, a thread has no node registered but the one before,     *)
(* which remove keeps, and at the start the one that is removed.           *)
FewHeld(t) ==
  fpc[t] # "idle" /\ guard[t] = "leave" =>
    \E n \in Nodes \cup {Root} :
      Held(t) \subseteq {n} \cup IF fpc[t] = "start" THEN {victim[t]} ELSE {}

Unguarded(u) ==
  \A t \in Threads \ {u} :
    /\ fpc'[t] = fpc[t] /\ victim'[t] = victim[t]
    /\ slots'[t] = slots[t] /\ guard'[t] = guard[t]

(* Only in Remove and while it frees does this change for a thread.        *)
LEMMA WhoFrees ==
  ASSUME IInv, NEW u \in Threads, Call(u) \/ Running(u)
  PROVE  /\ Unguarded(u)
         /\ Remove(u) \/ Freeing(u) \/ fpc'[u] = "idle" \/ guard'[u] # "leave"
  <1>1. /\ GuardInv(u) /\ Distinct(u) /\ FreeingNow(u) /\ H!TypeOK
        /\ SlotsType /\ GuardType
    BY Known
  <1>2. ASSUME UNCHANGED hazardVars, fpc[u] = "idle",
               NEW g \in Guards, Guard(u, g)
        PROVE  Unguarded(u) /\ fpc'[u] = "idle"
    BY <1>1, <1>2, GuardSet DEF Unguarded, hazardVars, freeVars
  <1>3. Guards = {"none", "register", "validate", "shift", "trim", "use", "leave"}
    BY DEF Guards
  <1>4. CASE Call(u)
    <2>1. guard' = guard /\ guard[u] = "none"
      BY <1>4 DEF Call
    <2>2. CASE UNCHANGED hazardVars
      BY <2>1, <2>2 DEF Unguarded, hazardVars, freeVars
    <2>3. CASE H!Reclaim(u, result[u])
      BY <1>1, <2>1, <2>3 DEF H!Reclaim, H!Goto, H!Aim, H!TypeOK, Unguarded
    <2> QED BY <1>4, <2>1, <2>2, <2>3 DEF Call
  <1>5. CASE RegisterLoaded(u)
    <2>1. fpc[u] = "idle" /\ Guard(u, "validate")
      BY <1>1, <1>5 DEF RegisterLoaded, GuardInv
    <2>2. CASE UNCHANGED hazardVars
      BY <1>2, <1>3, <2>1, <2>2
    <2>3. CASE H!Register(u, Loaded(u).to)
      <3>1. fpc' = fpc /\ victim' = victim
        BY <2>3 DEF H!Register, H!freeVars
      <3>2. \A t \in Threads \ {u} : slots'[t] = slots[t]
        BY <1>1, <2>3 DEF H!Register, H!SetSlot, SlotsType
      <3> QED BY <1>1, <1>3, <2>1, <3>1, <3>2, GuardSet DEF Unguarded
    <2> QED BY <1>5, <2>2, <2>3 DEF RegisterLoaded
  <1>6. CASE Validate(u)
    <2>1. fpc[u] = "idle" /\ UNCHANGED hazardVars
      BY <1>1, <1>6 DEF Validate, GuardInv
    <2>2. \E g \in Guards : Guard(u, g)
      BY <1>3, <1>6 DEF Validate, Again
    <2> QED BY <1>2, <2>1, <2>2
  <1>7. CASE Release(u)
    <2>1. /\ OtherSlots(u) /\ UNCHANGED freeVars /\ guard[u] \in Guards
          /\ guard[u] = "leave" => fpc[u] = "idle"
          /\ AfterRelease(u) \in Guards \ {"leave"} \/ guard[u] = "leave"
          /\ AfterRelease(u) \in Guards
          /\ Guard(u, guard[u]) \/ Guard(u, AfterRelease(u))
      BY <1>1, <1>3, <1>7, Drops DEF Release, AfterRelease, GuardType
    <2> QED
      BY <1>1, <2>1, GuardSet DEF Unguarded, OtherSlots, freeVars
  <1>8. CASE InsertStep(u) \/ Unlink(u)
    <2>1. /\ UNCHANGED hazardVars /\ guard[u] = "none"
          /\ pc[u] \in {"ins_load", "ins_cas", "swing", "unmark"}
          /\ UNCHANGED guard \/ \E g \in Guards : Guard(u, g)
      BY <1>3, <1>8
      DEF InsertStep, Unlink, InsertLoad, InsertCas, Swing, Unmark
    <2>2. fpc[u] = "idle"
      BY <2>1, NotFreeing
    <2>3. CASE UNCHANGED guard
      BY <2>1, <2>2, <2>3 DEF Unguarded, hazardVars, freeVars
    <2> QED BY <1>2, <2>1, <2>2, <2>3
  <1>9. CASE Begin(u) \/ Visit(u) \/ Tag(u)
    <2>1. fpc[u] = "idle" /\ UNCHANGED hazardVars
      BY <1>9 DEF Begin, Visit, Tag, Ready
    <2>2. UNCHANGED guard \/ \E g \in Guards : Guard(u, g)
      <3>1. CASE Begin(u)
        BY <1>3, <3>1 DEF Begin, Answer
      <3>2. CASE Tag(u)
        BY <1>3, <3>2 DEF Tag, Again
      <3>3. CASE Visit(u)
        <4>1. ASSUME NEW l, Advance(u, l) PROVE \E g \in Guards : Guard(u, g)
          BY <1>3, <4>1 DEF Advance
        <4>2. ASSUME NEW r, Answer(u, r) PROVE \E g \in Guards : Guard(u, g)
          BY <1>3, <4>2 DEF Answer
        <4>3. ASSUME NEW l, VisitFirst(u, l) \/ VisitToRemove(u, l) \/ VisitToFind(u, l)
              PROVE  \E g \in Guards : Guard(u, g)
          BY <1>3, <4>1, <4>2, <4>3 DEF VisitFirst, VisitToRemove, VisitToFind, Again
        <4>4. op[u] \in {"remove_front", "remove", "remove_with", "contains", "walk"}
          BY <3>3, VisitOps DEF Visit, Ready
        <4> QED BY <3>3, <4>1, <4>2, <4>3, <4>4 DEF Visit
      <3> QED BY <1>9, <3>1, <3>2, <3>3
    <2>3. CASE UNCHANGED guard
      BY <2>1, <2>3 DEF Unguarded, hazardVars, freeVars
    <2> QED BY <1>2, <2>1, <2>2, <2>3
  <1>10. CASE Use(u)
    <2>1. fpc[u] = "idle" /\ UNCHANGED hazardVars /\ Guard(u, "none")
      BY <1>1, <1>10 DEF Use, GuardInv
    <2> QED BY <1>2, <1>3, <2>1
  <1>11. CASE Remove(u)
    <2>1. slots' = slots /\ \E g \in Guards : Guard(u, g)
      BY <1>3, <1>11 DEF Remove
    <2>2. \A t \in Threads \ {u} : fpc'[t] = fpc[t] /\ victim'[t] = victim[t]
      <3>1. CASE UNCHANGED freeVars
        BY <3>1 DEF freeVars
      <3>2. CASE H!Free(u, cur[u].to)
        BY <1>1, <3>2 DEF H!Free, H!Goto, H!Aim, H!TypeOK
      <3> QED BY <1>11, <3>1, <3>2 DEF Remove
    <2> QED BY <1>1, <1>11, <2>1, <2>2, GuardSet DEF Unguarded
  <1>12. CASE Freeing(u)
    <2>1. Unfreeing(u) /\ OtherSlots(u) /\ guard' = guard
      BY <1>1, <1>12, FreeingTypes DEF Freeing
    <2> QED BY <1>12, <2>1 DEF Unguarded, Unfreeing, OtherSlots
  <1> QED
    BY <1>4, <1>5, <1>6, <1>7, <1>8, <1>9, <1>10, <1>11, <1>12 DEF Running

LEMMA FewStep ==
  ASSUME IInv, [Next]_vars, NEW t \in Threads, FewHeld(t)
  PROVE  FewHeld(t)'
  <1>1. CASE UNCHANGED <<fpc, victim, slots, guard>>
    BY <1>1 DEF FewHeld, Held
  <1>2. ASSUME NEW u \in Threads \ {t}, Call(u) \/ Running(u)
        PROVE  FewHeld(t)'
    BY <1>2, WhoFrees DEF Unguarded, FewHeld, Held
  <1>3. CASE Remove(t)
    <2>1. /\ ListTypes /\ PlaceInv(t) /\ SlotInv(t) /\ H!TypeOK
          /\ pc[t] = "take" /\ guard[t] = "none" /\ fpc[t] = "idle"
          /\ slots' = slots
      BY <1>3, Known DEF Remove, Ready
    <2>2. CASE UNCHANGED freeVars
      BY <2>1, <2>2 DEF FewHeld, freeVars
    <2>3. CASE op[t] = "remove_front"
      <3>1. guard'[t] # "leave"
        BY <1>3, <2>3, Known DEF Remove, Guard, GuardType
      <3> QED BY <3>1 DEF FewHeld
    <2>4. CASE op[t] # "remove_front" /\ H!Free(t, cur[t].to)
      <3>1. victim'[t] = cur[t].to /\ fpc'[t] = "start" /\ Held(t)' = Held(t)
        BY <2>1, <2>4 DEF H!Free, H!Goto, H!Aim, H!TypeOK, Held
      <3>2. Held(t) \subseteq {prev[t]} \cup {cur[t].to}
        BY <2>1, <2>4, InSlots, Known DEF SlotInv, Wants, AtNode, Removes
      <3>3. prev[t] \in Nodes \cup {Root}
        BY <2>1 DEF ListTypes
      <3> QED BY <3>1, <3>2, <3>3 DEF FewHeld
    <2> QED BY <1>3, <2>2, <2>3, <2>4 DEF Remove
  <1>4. CASE Freeing(t)
    <2>1. /\ guard' = guard /\ fpc[t] # "idle" /\ fpc'[t] # "start"
          /\ fpc[t] = "start" => Held(t)' = Held(t) \ {victim[t]}
          /\ fpc[t] # "start" => Held(t)' = Held(t)
      BY <1>4, Known, FreeingTypes DEF Freeing, Held
    <2> QED BY <2>1 DEF FewHeld
  <1>5. CASE fpc'[t] = "idle" \/ guard'[t] # "leave"
    BY <1>5 DEF FewHeld
  <1>6. CASE DropList
    BY <1>1, <1>6 DEF DropList
  <1>7. CASE UNCHANGED vars
    BY <1>1, <1>7 DEF vars, hazardVars, freeVars
  <1>8. ASSUME Call(t) \/ Running(t) PROVE FewHeld(t)'
    BY <1>3, <1>4, <1>5, <1>8, WhoFrees
  <1> QED BY <1>2, <1>6, <1>7, <1>8 DEF Next

(* A thread that registers a pointer finds a slot empty                    *)
(* (hp/atomic.rs:967-978), within free too, and one that is outside of all *)
(* calls has given up all of them.  Three slots are enough, of the five of *)
(* hp/mod.rs:19: remove has one in use when it frees, and free takes two.  *)
THEOREM SlotsAreEnough == Spec => []SlotsSuffice
  <1> DEFINE Few == \A t \in Threads : FewHeld(t)
  <1>1. Init => Few
    BY DEF Init, H!Init, FewHeld
  <1>2. ASSUME IInv, Few, [Next]_vars PROVE Few'
    BY <1>2, FewStep
  <1>3. ASSUME IInv, Few PROVE SlotsSuffice
    <2> SUFFICES ASSUME NEW t \in Threads
                 PROVE  /\ guard[t] = "register" => H!Holds(t, Null) # {}
                        /\ H!HasRoom(t)
                        /\ pc[t] = "work" /\ fpc[t] = "idle" => Held(t) = {}
      BY DEF SlotsSuffice
    <2>1. SlotsType /\ Distinct(t) /\ SlotInv(t) /\ GuardInv(t) /\ GuardType
      BY <1>3, Known
    <2>2. ASSUME guard[t] = "register" PROVE H!Holds(t, Null) # {}
      <3>1. PICK x : Held(t) \subseteq {x}
        BY <2>1, <2>2 DEF SlotInv, Wants
      <3> QED BY <2>1, <3>1, EmptySlots
    <2>3. ASSUME fpc[t] \notin {"idle", "start"} PROVE \E x : Held(t) \subseteq {x}
      <3>1. pc[t] \in {"work", "return"} /\ guard[t] \in {"none", "leave"}
        BY <2>1, <2>3 DEF GuardInv, GuardType, Guards
      <3>2. CASE guard[t] = "none"
        BY <2>1, <2>3, <3>1, <3>2 DEF SlotInv, Wants, AtNode
      <3>3. CASE guard[t] = "leave"
        BY <1>3, <2>3, <3>3 DEF FewHeld
      <3> QED BY <3>1, <3>2, <3>3
    <2>4. H!HasRoom(t)
      <3>1. CASE fpc[t] \in {"idle", "start"}
        BY <3>1 DEF H!HasRoom
      <3>2. CASE fpc[t] \notin {"idle", "start"}
        <4>1. PICK x : Held(t) \subseteq {x}
          BY <2>3, <3>2
        <4>2. /\ H!Holds(t, Null) # {}
              /\ \E i, j \in H!Holds(t, Null) : i # j
          BY <2>1, <4>1, EmptySlots
        <4> QED BY <4>2 DEF H!HasRoom
      <3> QED BY <3>1, <3>2
    <2>5. ASSUME pc[t] = "work", fpc[t] = "idle" PROVE Held(t) = {}
      <3>1. guard[t] = "none"
        BY <1>3, <2>1, <2>5 DEF GuardInv, IInv, TypeOK
      <3> QED BY <2>1, <2>5, <3>1 DEF SlotInv, Wants, AtNode
    <2> QED BY <2>2, <2>4, <2>5
  <1>4. Spec => []Few
    BY <1>1, <1>2, Inductive, PTL DEF Spec
  <1> QED BY <1>3, <1>4, Inductive, PTL

(* No operation but the iterator accesses a node after it was freed: what  *)
(* it follows was registered, and then found where it was loaded from,     *)
(* before anybody could have begun to free it ("it is safe to free",       *)
(* hp/list.rs:135).                                                        *)
THEOREM AccessIsSafe == Spec => []NoUseAfterFree
  <1>1. ASSUME IInv PROVE NoUseAfterFree
    <2> SUFFICES ASSUME NEW t \in Threads, op[t] # "walk", NEW n \in AccessedNow(t)
                 PROVE  n \notin freed
      BY DEF NoUseAfterFree
    <2>1. /\ ListTypes /\ CallInv(t) /\ GuardInv(t) /\ PlaceInv(t) /\ KeepInv(t)
          /\ TypeOK
      BY <1>1, Known DEF IInv
    <2>2. ASSUME n \in Nodes, n \in Protected(t) PROVE n \notin freed
      BY <2>1, <2>2 DEF KeepInv, Shields
    <2>3. freed \subseteq Nodes
      BY <2>1 DEF TypeOK, H!TypeOK
    <2>4. CASE guard[t] = "none" /\ cur[t].to # Null
      <3>1. n \in Accessed(t)
        BY <2>4 DEF AccessedNow
      <3>2. CASE pc[t] \in {"visit", "mark", "unmark", "take"}
        <4>1. n = cur[t].to
          BY <3>1, <3>2 DEF Accessed
        <4>2. n \in Protected(t)
          BY <2>4, <3>2, <4>1 DEF Protected, AtNode
        <4> QED BY <2>2, <2>3, <4>2
      <3>3. CASE pc[t] = "swing"
        <4>1. n = prev[t]
          BY <3>1, <3>3 DEF Accessed
        <4>2. Removes(t)
          BY <2>1, <3>3 DEF CallInv, AtNode, Removers, Removes
        <4>3. n \in Protected(t)
          BY <2>4, <3>3, <4>1, <4>2 DEF Protected, AtNode
        <4> QED BY <2>2, <2>3, <4>3
      <3> QED BY <3>1, <3>2, <3>3 DEF Accessed
    <2>5. CASE guard[t] = "validate" /\ pc[t] = "visit"
      <3>1. n = prev[t]
        BY <2>5 DEF AccessedNow
      <3>2. n \in Protected(t)
        BY <2>5, <3>1 DEF Protected, AtNode
      <3> QED BY <2>2, <2>3, <3>2
    <2>6. CASE guard[t] = "validate" /\ pc[t] = "mark"
      <3>1. n = cur[t].to
        BY <2>6 DEF AccessedNow
      <3>2. n \in Protected(t)
        BY <2>6, <3>1 DEF Protected, AtNode
      <3> QED BY <2>2, <2>3, <3>2
    <2>7. guard[t] # "use"
      BY <2>1 DEF GuardInv
    <2> QED BY <2>4, <2>5, <2>6, <2>7 DEF AccessedNow
  <1>2. IInv => NoUseAfterFree
    BY <1>1
  <1> QED BY <1>2, Inductive, PTL

(* A removed node is with the thread that removed it, waits to be freed,   *)
(* or was freed, and is so once: nothing is lost and nothing is freed      *)
(* twice between remove, remove_with_node, HAZARD_QUEUE and List::drop.    *)
THEOREM EachRemovedOnce == Spec => []RemovedOnce
  <1>1. ASSUME IInv PROVE RemovedOnce
    <2>1. ListInv /\ ListTypes /\ DisposeInv /\ H!FreedOnce
      BY <1>1 DEF IInv, ListInv, DisposeInv
    <2>2. Gone \subseteq out /\ out \subseteq Nodes
      BY <2>1 DEF DisposeInv, ListTypes
    <2>3. ASSUME NEW t \in Threads
          PROVE  Hand(t) = Nodes \cap
                   ((IF pc[t] = "take" THEN {cur[t].to} ELSE {})
                     \cup (IF op[t] = "remove_with" THEN {result[t]} ELSE {}))
      <3>1. GuardInv(t) /\ HoldInv(t)
        BY <1>1, Known
      <3>2. pc[t] = "take" => cur[t].to \in Nodes /\ result[t] \notin Nodes
        BY <2>2, <3>1, ListAssumption DEF GuardInv, HoldInv
      <3> QED BY <3>2 DEF Hand
    <2>4. ASSUME NEW n \in Nodes
          PROVE  n \in InHand <=> \E t \in Threads : n \in Hand(t)
      BY <2>3 DEF InHand
    <2>5. InHand \cap Gone = {}
      BY <2>1, <2>2, <2>4 DEF DisposeInv
    <2>6. out = (InHand \cap Nodes) \cup Gone
      <3>1. ASSUME NEW n \in out PROVE n \in (InHand \cap Nodes) \cup Gone
        BY <2>1, <2>2, <2>4 DEF DisposeInv
      <3>2. ASSUME NEW n \in InHand \cap Nodes PROVE n \in out
        BY <2>1, <2>4 DEF DisposeInv
      <3> QED BY <2>2, <3>1, <3>2
    <2> QED BY <2>1, <2>5, <2>6 DEF RemovedOnce, Gone
  <1>2. IInv => RemovedOnce
    BY <1>1
  <1> QED BY <1>2, Inductive, PTL

(* Among nodes that were inserted there is one that all others are before. *)
LEMMA LastOfAll ==
  ASSUME ListTypes, OrderInv, NEW S \in SUBSET Ordered, S # {}
  PROVE  \E n \in S : S \cap Behind(n) = {}
  <1>1. Len(order) \in Nat /\ DOMAIN order = 1..Len(order) /\ Root \notin Ordered
    BY OrderFacts
  <1> DEFINE D == {d \in 0..Len(order) - 1 : order[Len(order) - d] \in S}
  <1>2. D \in SUBSET Nat /\ D # {}
    <2>1. PICK i \in 1..Len(order) : order[i] \in S
      BY <1>1 DEF Ordered
    <2>2. Len(order) - i \in 0..Len(order) - 1 /\ Len(order) - (Len(order) - i) = i
      BY <1>1, <2>1
    <2>3. Len(order) - i \in D
      BY <2>1, <2>2
    <2>4. D \subseteq 0..Len(order) - 1 /\ 0..Len(order) - 1 \subseteq Nat
      BY <1>1
    <2> HIDE DEF D
    <2> QED BY <2>3, <2>4
  <1>3. PICK d \in D : \A e \in D : d <= e
    BY <1>2, Least
  <1>4. PICK i \in 1..Len(order) : i = Len(order) - d /\ order[i] \in S
    <2>1. Len(order) - d \in 1..Len(order)
      BY <1>1, <1>3
    <2> QED BY <1>3, <2>1
  <1>5. ASSUME NEW j \in 1..Len(order), order[j] \in S PROVE j <= i
    <2>1. Len(order) - j \in 0..Len(order) - 1 /\ Len(order) - (Len(order) - j) = j
      BY <1>1, <1>5
    <2>2. Len(order) - j \in D
      BY <1>5, <2>1
    <2>3. d <= Len(order) - j
      BY <1>3, <2>2
    <2> QED BY <1>1, <1>3, <1>4, <2>3
  <1>6. ASSUME NEW m \in S, m \in Behind(order[i]) PROVE FALSE
    <2>1. order[i] # Root
      BY <1>1, <1>4
    <2>2. PICK j \in 1..Len(order) :
            m = order[j] /\ \E h \in 1..j - 1 : order[h] = order[i]
      BY <1>1, <1>6, <2>1 DEF Behind
    <2>3. PICK h \in 1..Len(order) : h < j /\ order[h] = order[i]
      BY <1>1, <2>2
    <2>4. h = i
      BY <1>1, <2>3 DEF OrderInv
    <2> QED BY <1>1, <1>5, <2>2, <2>3, <2>4
  <1> QED BY <1>4, <1>6

(* Who waits in spin until a node is registered nowhere (hp/atomic.rs:1028)*)
(* does not wait for himself, nor in a circle: he has only nodes before    *)
(* his own, so whoever waits for the last of the nodes waits for nobody    *)
(* who waits.                                                              *)
THEOREM NoCircle == Spec => []NoWaitCycle
  <1>1. ASSUME IInv PROVE NoWaitCycle
    <2> DEFINE Spinning == {t \in Threads : fpc[t] = "spin"}
               Free(t, S) == \A u \in S : H!Holds(u, victim[t]) = {}
    <2> SUFFICES ASSUME NEW S \in SUBSET Spinning, S # {}
                 PROVE  \E t \in S : Free(t, S)
      <3>1. \A S \in (SUBSET Spinning) \ {{}} : \E t \in S : Free(t, S)
        <4> HIDE DEF Free
        <4> QED OBVIOUS
      <3> QED BY <3>1, Zenon DEF NoWaitCycle
    <2>1. ListTypes /\ OrderInv /\ DisposeInv
      BY <1>1 DEF IInv, ListInv
    <2>2. ASSUME NEW t \in S
          PROVE  /\ victim[t] # Null /\ victim[t] \in Ordered
                 /\ \A n \in Held(t) : victim[t] \in Behind(n)
      <3>1. GuardInv(t) /\ WaitInv(t) /\ fpc[t] = "spin"
        BY <1>1, Known
      <3>2. victim[t] # Null /\ guard[t] # "trim"
        BY <3>1 DEF GuardInv
      <3>3. victim[t] \in Ordered
        BY <2>1, <3>2 DEF DisposeInv, Gone, H!Victims, OrderInv
      <3> QED BY <3>1, <3>2, <3>3 DEF WaitInv
    <2>3. PICK t \in S : {victim[u] : u \in S} \cap Behind(victim[t]) = {}
      <3>1. {victim[u] : u \in S} \in SUBSET Ordered /\ {victim[u] : u \in S} # {}
        BY <2>2
      <3>2. PICK n \in {victim[u] : u \in S} : {victim[u] : u \in S} \cap Behind(n) = {}
        BY <2>1, <3>1, LastOfAll
      <3> QED BY <3>2
    <2>4. ASSUME NEW u \in S, H!Holds(u, victim[t]) # {} PROVE FALSE
      <3>1. victim[t] \in Held(u)
        BY <2>2, <2>4 DEF H!Holds, Held
      <3>2. victim[u] \in Behind(victim[t])
        BY <2>2, <3>1
      <3> QED BY <2>3, <3>2
    <2> QED BY <2>4
  <1>2. IInv => NoWaitCycle
    BY <1>1
  <1> QED BY <1>2, Inductive, PTL
=============================================================================
