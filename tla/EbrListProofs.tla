--------------------------- MODULE EbrListProofs ----------------------------
(* Theorems about EbrList, for any number of threads, nodes and epochs,    *)
(* when what remove_with looks for is removed by nobody else, and, at the  *)
(* end, about the words that its links are.                                *)
EXTENDS EbrList, MarkedListProofs, TaggedPtr

(* Between the operations. *)
Idle == {"out", "enter", "free", "work"}

(* Who has entered `pin` holds the epoch to the one it has pinned or the   *)
(* next.                                                                   *)
PinInv ==
  \A t \in Threads :
    /\ t \in pinned <=> pc[t] # "out"
    /\ t \in pinned => pinAt[t] <= epoch /\ epoch <= pinAt[t] + 1

(* A removed node is garbage or is about to be handed over. *)
GoneInv ==
  /\ Gone \subseteq out
  /\ \A n \in out \ Gone : \E t \in Threads : pc[t] = "take" /\ cur[t].to = n
  /\ \A t \in Threads : pc[t] = "take" => cur[t].to \notin Gone

(* Only drop removes nodes without a tag. *)
DropInv ==
  IF dropping THEN \A t \in Threads : pc[t] \in Idle ELSE OutTagged

(* Where a pinned thread may get nothing is freed, and what is garbage     *)
(* became so since it pinned.                                              *)
Safe(t, F) ==
  t \in pinned =>
    \A n \in F : n \notin freed /\ (n \in retired => pinAt[t] <= retiredAt[n])

SearchInv ==
  \A t \in Threads : \E F \in SUBSET Nodes : Within(t, F) /\ Safe(t, F)

(* Only what somebody may remove with remove_with is freed at once. *)
DroppedInv ==
  /\ dropped \in SUBSET Nodes
  /\ \A n \in dropped : \E t \in Threads : <<"remove_with", Data[n]>> \in May[t]

IInv ==
  /\ ListInv /\ R!TypeOK /\ dropping \in BOOLEAN
  /\ owed \in [Threads -> SUBSET Nodes]
  /\ OwedInv /\ PinInv /\ GoneInv /\ DropInv /\ SearchInv /\ DroppedInv
-----------------------------------------------------------------------------
LEMMA NextCases ==
  ASSUME [Next]_vars
  PROVE  \/ \E t \in Threads :
              /\ NoteOwed
              /\ \/ InPin(t) /\ UNCHANGED <<dropped, dropping>>
                 \/ /\ Moving(t) /\ ~Take(t) /\ (~dropping \/ pc[t] \in Steps)
                    /\ UNCHANGED <<epochVars, dropped, dropping>>
                 \/ (RetireTaken(t) \/ DropTaken(t)) /\ UNCHANGED dropping
                 \/ DropFront(t) /\ UNCHANGED dropped
         \/ UNCHANGED vars
  <1>1. ASSUME NEW t \in Threads, Inserting(t) \/ Searching(t) \/ Unlinking(t)
        PROVE  Moving(t) /\ pc[t] \in Steps \ {"take"}
    BY <1>1 DEF Moving, Inserting, Searching, Unlinking, InsertLoad, InsertCas,
       RemovingFront, Removing, RemovingWith, Containing, Walking, LoadHead,
       VisitFront, VisitRemove, VisitRemoveWith, VisitContains, VisitAll, Mark,
       Swing, Unmark, Steps
  <1>2. ASSUME NEW t \in Threads, Calling(t)
        PROVE  Moving(t) /\ pc[t] # "take"
    BY <1>2 DEF Moving, Calling, CallInsert, CallOther, Return
  <1>3. ASSUME NEW t \in Threads, pc[t] # "take" PROVE ~Take(t)
    BY <1>3 DEF Take
  <1> QED BY <1>1, <1>2, <1>3 DEF Next, Step, Running

(* Before and after an operation a thread has no node. *)
LEMMA IdleStep ==
  ASSUME ListInv, NEW t \in Threads, NEW p \in Idle, pc[t] \in Idle,
         Goto(t, p), UNCHANGED <<listVars, op, arg>>
  PROVE  /\ ListInv' /\ ChainStep /\ (OutTagged => OutTagged')
         /\ \A u \in Threads, F \in SUBSET Nodes : Within(u, F) => Within(u, F)'
         /\ pc' \in [Threads -> Phase] /\ pc'[t] = p
         /\ \A u \in Threads \ {t} : pc'[u] = pc[u]
  <1>1. UNCHANGED <<link, order, out, op, arg, prev, cur, nxt, found>>
    BY DEF listVars
  <1>2. ListTypes
    BY DEF ListInv
  <1>3. /\ pc' \in [Threads -> Phase] /\ pc'[t] = p
        /\ \A u \in Threads \ {t} : pc'[u] = pc[u]
    BY <1>2 DEF Goto, ListTypes, Phase, Idle
  <1>4. /\ Ordered' = Ordered /\ ItemSet' = ItemSet
        /\ \A n : Behind(n)' = Behind(n)
    BY <1>1 DEF Ordered, ItemSet, Behind
  <1>5. \A u \in Threads : \/ pc'[u] = pc[u]
                           \/ pc'[u] \in Idle /\ pc[u] \in Idle
    BY <1>3
  <1>6. /\ Idle \cap AtNode = {} /\ Idle \cap Steps = {}
        /\ Insertion \subseteq Steps /\ Holding \subseteq AtNode
        /\ "mark" \in AtNode /\ "take" \in AtNode /\ "visit" \in AtNode
        /\ "swing" \in AtNode /\ "unmark" \in AtNode
        /\ AtNode \subseteq Steps
    BY DEF Idle, AtNode, Steps, Insertion, Holding
  <1>7. ChainStep
    BY <1>1, <1>2, ChainSame DEF ListInv
  <1>8. ListTypes'
    BY <1>1, <1>2, <1>3 DEF ListTypes
  <1>9. \A u \in Threads : CallInv(u)' /\ HoldInv(u)'
    <2> SUFFICES ASSUME NEW u \in Threads PROVE CallInv(u)' /\ HoldInv(u)'
      OBVIOUS
    <2>1. CallInv(u) /\ HoldInv(u)
      BY DEF ListInv
    <2>2. CASE pc'[u] = pc[u]
      BY <1>1, <1>4, <2>1, <2>2 DEF CallInv, HoldInv
    <2>3. CASE pc'[u] \in Idle /\ pc[u] \in Idle
      BY <1>1, <1>6, <2>1, <2>3 DEF CallInv, HoldInv
    <2> QED BY <1>5, <2>2, <2>3
  <1>10. TagInv' /\ ApartInv'
    <2>1. \A u \in Threads : pc'[u] \in AtNode \cup Steps \/ pc[u] \in AtNode \cup Steps
            => pc'[u] = pc[u]
      BY <1>5, <1>6
    <2> QED BY <1>1, <1>6, <2>1 DEF TagInv, ApartInv, ListInv
  <1>11. OutTagged => OutTagged'
    BY <1>1 DEF OutTagged
  <1>12. ASSUME NEW u \in Threads, NEW F \in SUBSET Nodes, Within(u, F)
         PROVE  Within(u, F)'
    <2>1. CASE pc'[u] = pc[u]
      BY <1>1, <1>4, <1>12, <2>1 DEF Within
    <2>2. CASE pc'[u] \in Idle /\ pc[u] \in Idle
      BY <1>1, <1>4, <1>6, <1>12, <2>2 DEF Within
    <2> QED BY <1>5, <2>1, <2>2
  <1> QED BY <1>3, <1>7, <1>8, <1>9, <1>10, <1>11, <1>12 DEF ListInv, ChainStep

LEMMA InPinEffect ==
  ASSUME IInv, NEW t \in Threads, InPin(t), UNCHANGED dropped
  PROVE  /\ UNCHANGED <<listVars, op, arg>> /\ pc[t] \in Idle
         /\ \E p \in Idle : Goto(t, p)
         /\ Gone' = Gone /\ retiredAt' = retiredAt /\ R!TypeOK' /\ PinInv'
  <1>0. pc \in [Threads -> Phase] /\ R!TypeOK /\ PinInv
    BY DEF IInv, ListInv, ListTypes
  <1> USE DEF Idle, Gone, R!TypeOK, PinInv, Goto
  <1>1. CASE Enter(t)
    BY <1>0, <1>1 DEF Enter, R!Pin
  <1>2. CASE MoveEpoch(t)
    BY <1>0, <1>2 DEF MoveEpoch, R!Advance
  <1>3. CASE FreeGarbage(t)
    BY <1>0, <1>3 DEF FreeGarbage, R!Free
  <1>4. CASE Begin(t)
    BY <1>0, <1>4 DEF Begin, epochVars
  <1>5. CASE Leave(t)
    BY <1>0, <1>5 DEF Leave, R!Unpin
  <1> QED BY <1>1, <1>2, <1>3, <1>4, <1>5 DEF InPin

LEMMA OwedTyped ==
  ASSUME ListInv', NoteOwed
  PROVE  owed' \in [Threads -> SUBSET Nodes]
  <1>1. order' \in Seq(Nodes)
    BY DEF ListInv, ListTypes
  <1>2. ItemSet' \subseteq Nodes
    BY <1>1 DEF ItemSet, Ordered
  <1> QED BY <1>2 DEF NoteOwed

LEMMA InPinStep ==
  ASSUME IInv, NEW t \in Threads, InPin(t), NoteOwed,
         UNCHANGED <<dropped, dropping>>
  PROVE  IInv'
  <1>0. /\ ListInv /\ R!TypeOK /\ OwedInv /\ PinInv /\ GoneInv /\ DropInv /\ SearchInv
        /\ AllWithin
    BY DEF IInv, SearchInv, AllWithin
  <1>1. PICK p \in Idle : Goto(t, p)
    BY InPinEffect
  <1>2. /\ UNCHANGED <<listVars, op, arg>> /\ pc[t] \in Idle
        /\ Gone' = Gone /\ retiredAt' = retiredAt /\ R!TypeOK' /\ PinInv'
    BY InPinEffect
  <1>3. /\ ListInv' /\ ChainStep /\ (OutTagged => OutTagged')
        /\ \A u \in Threads, F \in SUBSET Nodes : Within(u, F) => Within(u, F)'
        /\ pc'[t] = p /\ \A u \in Threads \ {t} : pc'[u] = pc[u]
    BY <1>0, <1>1, <1>2, IdleStep
  <1>4. OwedInv'
    <2>1. ASSUME NEW u \in Threads \ {t} PROVE OwedOf(u)'
      <3>1. OwedOf(u) /\ OwedStep(u)
        BY <1>0 DEF OwedInv, OwedOf, NoteOwed, OwedStep
      <3> QED BY <1>0, <1>2, <1>3, <3>1, OwedKept DEF listVars
    <2>2. OwedOf(t)'
      <3>1. owed[t] = {} /\ pc[t] # "head" /\ pc'[t] # "visit"
        BY <1>0, <1>2, <1>3 DEF OwedInv, Idle
      <3> QED BY <3>1 DEF NoteOwed, OwedOf
    <2> QED BY <2>1, <2>2 DEF OwedInv, OwedOf
  <1>5. owed' \in [Threads -> SUBSET Nodes]
    BY <1>3, OwedTyped
  <1>6. GoneInv'
    BY <1>0, <1>2, <1>3 DEF GoneInv, Idle, listVars
  <1>7. DropInv'
    BY <1>0, <1>1, <1>3 DEF DropInv
  <1>8. SearchInv'
    <2>1. ASSUME NEW u \in Threads \ {t}
          PROVE  \E F \in SUBSET Nodes : Within(u, F)' /\ Safe(u, F)'
      <3>1. PICK F \in SUBSET Nodes : Within(u, F) /\ Safe(u, F)
        BY <1>0 DEF SearchInv
      <3>2. Within(u, F)'
        BY <1>3, <3>1
      <3>3. pinAt'[u] = pinAt[u] /\ (u \in pinned' => u \in pinned)
        BY <1>0 DEF InPin, Enter, MoveEpoch, FreeGarbage, Begin, Leave, R!Pin,
           R!Advance, R!Free, R!Unpin, epochVars, R!TypeOK
      <3>4. ASSUME u \in pinned, NEW n \in F
            PROVE  n \notin freed' /\ (n \in retired' => pinAt[u] <= retiredAt[n])
        <4>1. n \notin freed /\ (n \in retired => pinAt[u] <= retiredAt[n]) /\ n \in Nodes
          BY <3>1, <3>4 DEF Safe
        <4>2. CASE FreeGarbage(t)
          <5>1. PICK S : R!Free(t, S)
            BY <4>2 DEF FreeGarbage
          <5>2. S \subseteq retired /\ freed' = freed \cup S /\ retired' = retired \ S
            BY <5>1 DEF R!Free
          <5>3. n \notin S
            <6>1. ASSUME n \in S PROVE FALSE
              <7>1. epoch <= pinAt[u] + 1 /\ epoch \in Nat /\ pinAt[u] \in Nat
                      /\ retiredAt[n] \in Nat
                BY <1>0, <3>4, <4>1 DEF PinInv, R!TypeOK
              <7>2. pinAt[u] <= retiredAt[n] /\ retiredAt[n] + 2 <= epoch
                BY <4>1, <5>1, <5>2, <6>1 DEF R!Free
              <7> QED BY <7>1, <7>2
            <6> QED BY <6>1
          <5> QED BY <4>1, <5>2, <5>3
        <4>3. CASE ~FreeGarbage(t)
          <5>1. freed' = freed /\ retired' = retired
            BY <4>3 DEF InPin, Enter, MoveEpoch, Begin, Leave, R!Pin,
               R!Advance, R!Unpin, epochVars
          <5> QED BY <4>1, <5>1
        <4> QED BY <4>2, <4>3
      <3>5. Safe(u, F)'
        BY <1>2, <3>3, <3>4 DEF Safe
      <3> QED BY <3>2, <3>5
    <2>2. \E F \in SUBSET Nodes : Within(t, F)' /\ Safe(t, F)'
      <3>1. PICK F : F = ItemSet
        OBVIOUS
      <3>2. ItemSet' = ItemSet /\ F \subseteq Nodes
        BY <1>0, <1>2, <3>1, OrderFacts DEF ItemSet, Ordered, listVars, ListInv
      <3>3. Within(t, F)
        <4>1. PICK H \in SUBSET Nodes : Within(t, H)
          BY <1>0 DEF AllWithin
        <4>2. ASSUME NEW n \in ItemSet PROVE link[n].to \in ItemSet \cup {Null}
          BY <1>0, OrderFacts DEF ListInv, LinkInv, ItemSet
        <4> QED BY <1>2, <3>1, <4>1, <4>2 DEF Within, Idle, AtNode, ItemSet
      <3>4. Within(t, F)'
        BY <1>3, <3>2, <3>3
      <3>5. F \cap Gone' = {}
        BY <1>0, <1>2, <3>1 DEF GoneInv, ItemSet
      <3> QED BY <3>2, <3>4, <3>5 DEF Safe, Gone
    <2> QED BY <2>1, <2>2 DEF SearchInv
  <1>9. DroppedInv'
    BY DEF IInv, DroppedInv
  <1> QED
    BY <1>2, <1>3, <1>4, <1>5, <1>6, <1>7, <1>8, <1>9 DEF IInv

(* What a step of an operation adds to the nodes a thread may get to is    *)
(* not garbage.                                                            *)
LEMMA SearchKept ==
  ASSUME SearchInv, ListInv', Gone' \cap ItemSet' = {},
         \A u \in Threads : StaysWithin(u),
         UNCHANGED <<pinned, pinAt>>,
         \A u \in pinned, n \in Nodes :
           n \notin freed /\ (n \in retired => pinAt[u] <= retiredAt[n])
             => n \notin freed' /\ (n \in retired' => pinAt[u] <= retiredAt'[n])
  PROVE  SearchInv'
  <1> SUFFICES ASSUME NEW u \in Threads
               PROVE  \E G \in SUBSET Nodes : Within(u, G)' /\ Safe(u, G)'
    BY DEF SearchInv
  <1>1. PICK F \in SUBSET Nodes : Within(u, F) /\ Safe(u, F)
    BY DEF SearchInv
  <1>2. PICK G \in SUBSET (F \cup ItemSet') : Within(u, G)'
    BY <1>1 DEF StaysWithin
  <1>3. ItemSet' \subseteq Nodes
    <2>1. order' \in Seq(Nodes)
      BY DEF ListInv, ListTypes
    <2> QED BY <2>1 DEF ItemSet, Ordered
  <1>4. Safe(u, G)'
    <2> SUFFICES ASSUME u \in pinned, NEW n \in G
                 PROVE  n \notin freed' /\ (n \in retired' => pinAt[u] <= retiredAt'[n])
      BY DEF Safe
    <2>1. CASE n \in F
      BY <1>1, <2>1 DEF Safe
    <2>2. CASE n \in ItemSet'
      BY <2>2 DEF Gone
    <2> QED BY <1>2, <2>1, <2>2
  <1> QED BY <1>2, <1>3, <1>4

(* Which step removes a node. *)
LEMMA OutMoves ==
  ASSUME ListInv, NEW t \in Threads, Moving(t), ~Take(t)
  PROVE  /\ pc[t] # "take"
         /\ \/ out' = out /\ pc'[t] # "take"
            \/ /\ out' = out \cup {cur[t].to} /\ cur[t].to \in ItemSet
               /\ pc'[t] = "take" /\ cur'[t] = cur[t]
  <1>0. pc \in [Threads -> Phase] /\ HoldInv(t)
    BY DEF ListInv, ListTypes
  <1> USE DEF Goto
  <1>1. CASE Swing(t)
    BY <1>0, <1>1 DEF Swing, HoldInv, Holding
  <1>2. CASE Calling(t) \/ Inserting(t)
    BY <1>0, <1>2 DEF Calling, CallInsert, CallOther, Return, Inserting, InsertLoad,
       InsertCas, Finish, listVars
  <1>3. CASE LoadHead(t)
    BY <1>0, <1>3 DEF LoadHead, Finish
  <1>4. CASE VisitFront(t)
    BY <1>0, <1>4 DEF VisitFront, Restart, Aim
  <1>5. CASE VisitRemove(t)
    BY <1>0, <1>5 DEF VisitRemove, Restart, Aim, Follow, Finish
  <1>6. CASE VisitRemoveWith(t)
    BY <1>0, <1>6 DEF VisitRemoveWith, Aim, Follow, Finish
  <1>7. CASE VisitContains(t)
    BY <1>0, <1>7 DEF VisitContains, Restart, Follow, Finish
  <1>8. CASE VisitAll(t)
    BY <1>0, <1>8 DEF VisitAll, Follow, Finish
  <1>9. CASE Mark(t)
    BY <1>0, <1>9 DEF Mark, Restart
  <1>10. CASE Unmark(t)
    BY <1>0, <1>10 DEF Unmark, Restart, Finish
  <1> QED
    BY <1>1, <1>2, <1>3, <1>4, <1>5, <1>6, <1>7, <1>8, <1>9, <1>10
    DEF Moving, Searching, RemovingFront, Removing, RemovingWith, Containing,
        Walking, Unlinking

LEMMA MoveStep ==
  ASSUME IInv, SoleRemover, NEW t \in Threads, NoteOwed,
         Moving(t), ~Take(t), ~dropping \/ pc[t] \in Steps,
         UNCHANGED <<epochVars, dropped, dropping>>
  PROVE  IInv'
  <1>0. /\ ListInv /\ R!TypeOK /\ OwedInv /\ PinInv /\ GoneInv /\ DropInv /\ SearchInv
        /\ AllWithin /\ Others(t)
    BY MovesAlone DEF IInv, SearchInv, AllWithin, ListInv
  <1>1. ~dropping /\ OutTagged
    BY <1>0 DEF DropInv, Idle, Steps
  <1>2. ListInv' /\ OutTagged' /\ ChainStep /\ \A u \in Threads : StaysWithin(u)
    BY <1>0, <1>1, MovingStep DEF Kept
  <1>3. /\ UNCHANGED <<epoch, pinned, pinAt, retiredAt, retired, freed>>
        /\ Gone' = Gone
    BY DEF epochVars, Gone
  <1>4. OwedInv' /\ owed' \in [Threads -> SUBSET Nodes]
    BY <1>0, <1>2, MovingOwed, OwedTyped
  <1>5. R!TypeOK'
    BY <1>0, <1>3 DEF R!TypeOK
  <1>6. PinInv'
    <2>1. pc[t] # "out" /\ pc'[t] # "out"
      <3>1. pc \in [Threads -> Phase]
        BY <1>0 DEF ListInv, ListTypes
      <3> USE DEF Goto, Finish, Restart, Follow, Aim
      <3>2. CASE Calling(t) \/ Inserting(t)
        BY <3>1, <3>2 DEF Calling, CallInsert, CallOther, Return, Inserting,
           InsertLoad, InsertCas
      <3>3. CASE Searching(t)
        <4>1. pc[t] = "head" \/ pc[t] = "visit"
          BY <3>3 DEF Searching, RemovingFront, Removing, RemovingWith, Containing,
             Walking, LoadHead, VisitFront, VisitRemove, VisitRemoveWith,
             VisitContains, VisitAll
        <4> QED BY <3>1, <3>3, <4>1 DEF Searching, RemovingFront, Removing,
             RemovingWith, Containing, Walking, LoadHead, VisitFront, VisitRemove,
             VisitRemoveWith, VisitContains, VisitAll
      <3>4. CASE Unlinking(t)
        BY <3>1, <3>4 DEF Unlinking, Mark, Swing, Unmark
      <3> QED BY <3>2, <3>3, <3>4 DEF Moving
    <2> QED BY <1>0, <1>3, <2>1 DEF PinInv, Others
  <1>7. GoneInv'
    <2>1. /\ pc[t] # "take"
          /\ \/ out' = out /\ pc'[t] # "take"
             \/ /\ out' = out \cup {cur[t].to} /\ cur[t].to \in ItemSet
                /\ pc'[t] = "take" /\ cur'[t] = cur[t]
      BY <1>0, OutMoves
    <2>2. ASSUME NEW n \in out' \ Gone
          PROVE  \E u \in Threads : pc'[u] = "take" /\ cur'[u].to = n
      <3>1. CASE n \in out
        <4>1. PICK u \in Threads : pc[u] = "take" /\ cur[u].to = n
          BY <1>0, <2>2, <3>1 DEF GoneInv
        <4>2. u # t
          BY <2>1, <4>1
        <4> QED BY <1>0, <4>1, <4>2 DEF Others
      <3>2. CASE n \notin out
        BY <2>1, <2>2, <3>2
      <3> QED BY <3>1, <3>2
    <2>3. ASSUME NEW u \in Threads, pc'[u] = "take" PROVE cur'[u].to \notin Gone
      <3>1. CASE u = t
        BY <1>0, <2>1, <2>3, <3>1 DEF GoneInv, ItemSet
      <3>2. CASE u # t
        BY <1>0, <2>3, <3>2 DEF GoneInv, Others
      <3> QED BY <3>1, <3>2
    <2> QED BY <1>0, <1>3, <2>1, <2>2, <2>3 DEF GoneInv
  <1>8. DropInv'
    BY <1>1, <1>2 DEF DropInv
  <1>9. SearchInv'
    <2>1. Gone' \cap ItemSet' = {}
      BY <1>7 DEF GoneInv, ItemSet
    <2> QED BY <1>0, <1>2, <1>3, <2>1, SearchKept
  <1>10. DroppedInv'
    BY DEF IInv, DroppedInv
  <1> QED
    BY <1>1, <1>2, <1>4, <1>5, <1>6, <1>7, <1>8, <1>9, <1>10 DEF IInv

LEMMA TakenStep ==
  ASSUME IInv, SoleRemover, NEW t \in Threads, NoteOwed,
         RetireTaken(t) \/ DropTaken(t), UNCHANGED dropping
  PROVE  IInv'
  <1>0. /\ ListInv /\ R!TypeOK /\ OwedInv /\ PinInv /\ GoneInv /\ DropInv /\ SearchInv
        /\ AllWithin /\ Take(t) /\ Moving(t) /\ Others(t) /\ pc[t] = "take"
    BY MovesAlone DEF IInv, SearchInv, AllWithin, ListInv, RetireTaken, DropTaken,
       Moving, Take
  <1>1. ~dropping /\ OutTagged
    BY <1>0 DEF DropInv, Idle
  <1>2. ListInv' /\ OutTagged' /\ ChainStep /\ \A u \in Threads : StaysWithin(u)
    BY <1>0, <1>1, MovingStep DEF Kept
  <1>3. PICK c \in out : c = cur[t].to /\ c \in Nodes /\ c \notin Gone
    BY <1>0, AtPlace DEF ListInv, HoldInv, AtNode, GoneInv
  <1>4. /\ UNCHANGED <<epoch, pinned, pinAt, freed, out>>
        /\ Gone' = Gone \cup {c}
        /\ pc' = [pc EXCEPT ![t] = "return"]
    BY <1>0, <1>3 DEF RetireTaken, DropTaken, R!Retire, epochVars, Gone, Take,
       Finish, Goto
  <1>14. /\ retiredAt' \in [Nodes -> Nat] /\ retired' \in SUBSET Nodes
         /\ c \in retired' => retiredAt'[c] = epoch
         /\ \A n \in Nodes \ {c} :
              retiredAt'[n] = retiredAt[n] /\ (n \in retired' => n \in retired)
    BY <1>0, <1>3 DEF RetireTaken, DropTaken, R!Retire, epochVars, R!TypeOK, Gone
  <1>5. OwedInv' /\ owed' \in [Threads -> SUBSET Nodes]
    BY <1>0, <1>2, MovingOwed, OwedTyped
  <1>6. R!TypeOK'
    BY <1>0, <1>4, <1>14 DEF R!TypeOK
  <1>7. pc'[t] = "return" /\ \A u \in Threads \ {t} : pc'[u] = pc[u]
    BY <1>0, <1>4 DEF ListInv, ListTypes
  <1>8. PinInv'
    BY <1>0, <1>4, <1>7 DEF PinInv
  <1>9. GoneInv'
    <2>1. ASSUME NEW n \in out \ Gone'
          PROVE  \E u \in Threads : pc'[u] = "take" /\ cur'[u].to = n
      <3>1. PICK u \in Threads : pc[u] = "take" /\ cur[u].to = n
        BY <1>0, <1>4, <2>1 DEF GoneInv
      <3>2. u # t
        BY <1>3, <1>4, <2>1, <3>1
      <3> QED BY <1>0, <3>1, <3>2 DEF Others
    <2>2. ASSUME NEW u \in Threads, pc'[u] = "take" PROVE cur'[u].to \notin Gone'
      <3>1. u # t /\ pc[u] = "take" /\ cur'[u] = cur[u]
        BY <1>0, <1>7, <2>2 DEF Others
      <3>2. cur[u].to # c
        BY <1>0, <1>3, <3>1 DEF ListInv, ApartInv
      <3> QED BY <1>0, <1>4, <3>1, <3>2 DEF GoneInv
    <2> QED BY <1>0, <1>3, <1>4, <2>1, <2>2 DEF GoneInv
  <1>10. DropInv'
    BY <1>1, <1>2 DEF DropInv
  <1>11. SearchInv'
    <2>1. Gone' \cap ItemSet' = {}
      BY <1>9 DEF GoneInv, ItemSet
    <2>2. ASSUME NEW u \in pinned, NEW n \in Nodes, n \notin freed,
                 n \in retired => pinAt[u] <= retiredAt[n]
          PROVE  n \notin freed' /\ (n \in retired' => pinAt[u] <= retiredAt'[n])
      <3>1. u \in Threads /\ pinAt[u] <= epoch
        BY <1>0 DEF PinInv, R!TypeOK
      <3> QED BY <1>4, <1>14, <2>2, <3>1
    <2> QED BY <1>0, <1>2, <1>4, <2>1, <2>2, SearchKept
  <1>12. DroppedInv'
    <2>1. CASE RetireTaken(t)
      BY <2>1 DEF IInv, DroppedInv, RetireTaken
    <2>2. CASE DropTaken(t)
      <3>1. op[t] = "remove_with" /\ dropped' = dropped \cup {c}
        BY <1>3, <2>2 DEF DropTaken
      <3>2. <<"remove_with", Data[c]>> \in May[t]
        BY <1>0, <1>3, <3>1
        DEF ListInv, CallInv, Steps, Insertion, AtNode, Removers
      <3> QED BY <1>3, <3>1, <3>2 DEF IInv, DroppedInv
    <2> QED BY <2>1, <2>2
  <1> QED
    BY <1>1, <1>2, <1>5, <1>6, <1>8, <1>9, <1>10, <1>11, <1>12 DEF IInv

LEMMA DropStep ==
  ASSUME IInv, NEW t \in Threads, NoteOwed, DropFront(t), UNCHANGED dropped
  PROVE  IInv'
  <1>0. /\ ListInv /\ R!TypeOK /\ OwedInv /\ PinInv /\ GoneInv /\ DropInv /\ SearchInv
        /\ AllWithin /\ ListTypes /\ OrderInv /\ LinkInv /\ TagInv /\ ApartInv
    BY DEF IInv, SearchInv, AllWithin, ListInv
  <1>1. /\ UNCHANGED <<pc, op, arg, prev, cur, nxt, found, order>>
        /\ \A u \in Threads : pc[u] \in {"out", "work"}
        /\ dropping'
    BY DEF DropFront
  <1>2. \A u \in Threads :
          /\ pc[u] \notin Steps /\ pc[u] \notin AtNode /\ pc[u] \notin Insertion
          /\ pc[u] \notin Holding /\ pc[u] # "take" /\ pc[u] \in Idle
          /\ pc[u] \notin {"head", "visit", "mark"}
    BY <1>1 DEF Steps, AtNode, Insertion, Holding, Idle
  <1>3. PICK c \in ItemSet : c = link[Root].to
    <2>1. link[Root].to \in Ordered /\ link[Root].to \notin out
      BY <1>0, OrderFacts DEF DropFront, LinkInv
    <2> QED BY <2>1 DEF ItemSet
  <1>4. PICK l \in Link : l = link[c] /\ ~l.tag
    <2>1. c \in Nodes /\ c \notin out
      BY <1>0, <1>3, OrderFacts DEF ItemSet
    <2>2. ~link[c].tag
      BY <1>0, <1>2, <2>1 DEF TagInv
    <2>3. link[c] \in Link
      BY <1>0, <2>1 DEF ListTypes
    <2> QED BY <2>2, <2>3
  <1>5. /\ link' = [link EXCEPT ![Root] = l] /\ out' = out \cup {c}
        /\ R!Retire(t, c) /\ c \in Nodes /\ c \in Ordered /\ c \notin out
    BY <1>0, <1>3, <1>4, OrderFacts DEF DropFront, ItemSet
  <1>6. ChainStep
    BY <1>0, <1>1, <1>3, <1>4, <1>5, ChainUnlink
  <1>7. /\ link' \in [Nodes \cup {Root} -> Link] /\ link'[Root] = l
        /\ \A n \in Nodes : link'[n] = link[n]
    BY <1>0, <1>4, <1>5, ListAssumption DEF ListTypes
  <1>8. ListInv'
    <2>1. ListTypes'
      BY <1>0, <1>1, <1>5, <1>7 DEF ListTypes
    <2>2. TagInv'
      BY <1>0, <1>2, <1>4, <1>5, <1>7 DEF TagInv
    <2>3. ApartInv'
      BY <1>1, <1>2 DEF ApartInv
    <2>4. ASSUME NEW u \in Threads PROVE CallInv(u)' /\ HoldInv(u)'
      <3>1. CallInv(u) /\ HoldInv(u)
        BY <1>0 DEF ListInv
      <3> QED BY <1>1, <1>2, <3>1 DEF CallInv, HoldInv
    <2> QED BY <1>6, <2>1, <2>2, <2>3, <2>4 DEF ListInv, ChainStep
  <1>9. \A u \in Threads : StaysWithin(u)
    BY <1>0, <1>1, <1>2, <1>8, AtPlace, WithinFresh DEF StaysWithin, AtNode
  <1>10. /\ UNCHANGED <<epoch, pinned, pinAt, freed>>
         /\ retiredAt' = [retiredAt EXCEPT ![c] = epoch]
         /\ retired' = retired \cup {c} /\ Gone' = Gone \cup {c}
    BY <1>5 DEF R!Retire, Gone
  <1>11. OwedInv' /\ owed' \in [Threads -> SUBSET Nodes]
    <2>1. \A u \in Threads : owed[u] = {} /\ pc[u] # "head"
      BY <1>0, <1>2 DEF OwedInv
    <2> QED BY <1>1, <1>2, <1>8, <2>1, OwedTyped DEF NoteOwed, OwedInv
  <1>12. R!TypeOK'
    BY <1>0, <1>5, <1>10 DEF R!TypeOK
  <1>13. PinInv'
    BY <1>0, <1>1, <1>10 DEF PinInv
  <1>14. GoneInv'
    BY <1>0, <1>1, <1>2, <1>5, <1>10 DEF GoneInv
  <1>15. DropInv'
    BY <1>1, <1>2 DEF DropInv
  <1>16. SearchInv'
    <2>1. Gone' \cap ItemSet' = {}
      BY <1>14 DEF GoneInv, ItemSet
    <2>2. ASSUME NEW u \in pinned, NEW n \in Nodes, n \notin freed,
                 n \in retired => pinAt[u] <= retiredAt[n]
          PROVE  n \notin freed' /\ (n \in retired' => pinAt[u] <= retiredAt'[n])
      <3>1. u \in Threads /\ pinAt[u] <= epoch
        BY <1>0 DEF PinInv, R!TypeOK
      <3>2. retiredAt'[c] = epoch /\ (n # c => retiredAt'[n] = retiredAt[n])
        BY <1>0, <1>5, <1>10 DEF R!TypeOK
      <3> QED BY <1>10, <2>2, <3>1, <3>2
    <2> QED BY <1>0, <1>8, <1>9, <1>10, <2>1, <2>2, SearchKept
  <1>17. DroppedInv'
    BY DEF IInv, DroppedInv
  <1> QED
    BY <1>1, <1>8, <1>11, <1>12, <1>13, <1>14, <1>15, <1>16, <1>17 DEF IInv
-----------------------------------------------------------------------------
LEMMA IndInit == Init => IInv
  <1> SUFFICES ASSUME Init PROVE IInv
    OBVIOUS
  <1>1. /\ ListInv /\ OutTagged /\ AllWithin /\ OwedInv
        /\ owed \in [Threads -> SUBSET Nodes]
        /\ \A t \in Threads : pc[t] = "out"
        /\ out = {}
    BY ListStart DEF Init
  <1>2. /\ R!TypeOK /\ pinned = {} /\ Gone = {} /\ ~dropping /\ dropping \in BOOLEAN
        /\ DroppedInv
    BY DEF Init, R!Init, R!TypeOK, Gone, DroppedInv
  <1>3. PinInv /\ GoneInv /\ DropInv
    BY <1>1, <1>2 DEF PinInv, GoneInv, DropInv
  <1>4. SearchInv
    BY <1>1, <1>2 DEF SearchInv, AllWithin, Safe
  <1> QED BY <1>1, <1>2, <1>3, <1>4 DEF IInv

LEMMA IndStep ==
  ASSUME SoleRemover, IInv, [Next]_vars
  PROVE  IInv'
  <1>1. CASE UNCHANGED vars
    <2>1. UNCHANGED <<listVars, pc, op, arg, owed, cur, out>>
      BY <1>1 DEF vars, controlVars, listVars
    <2>2. UNCHANGED <<epoch, pinned, pinAt, retiredAt, retired, freed, dropped,
                      dropping>>
      BY <1>1 DEF vars, epochVars
    <2>3. /\ ListInv' /\ (OutTagged => OutTagged') /\ OwedInv'
          /\ \A u \in Threads : \A F : Within(u, F) => Within(u, F)'
      BY <2>1, ListStutter DEF IInv
    <2>4. R!TypeOK' /\ PinInv' /\ GoneInv' /\ DropInv' /\ DroppedInv'
      BY <2>1, <2>2, <2>3
      DEF IInv, R!TypeOK, PinInv, GoneInv, Gone, DropInv, DroppedInv
    <2>5. SearchInv'
      BY <2>2, <2>3 DEF IInv, SearchInv, Safe
    <2> QED BY <2>1, <2>2, <2>3, <2>4, <2>5 DEF IInv
  <1> QED BY <1>1, NextCases, InPinStep, MoveStep, TakenStep, DropStep

(* What holds in every state of ebr/list.rs under the rule of epochs: the  *)
(* links are what was inserted and not removed, tags belong to those who   *)
(* put them there, and each thread is among nodes that it protects.        *)
THEOREM Inductive ==
  ASSUME SoleRemover
  PROVE  Spec => []IInv
  <1>1. IInv /\ [Next]_vars => IInv'
    BY IndStep
  <1> QED BY <1>1, IndInit, PTL DEF Spec

(* The types of the list and of the epochs are those of the module, and no *)
(* operation follows a null pointer.                                       *)
THEOREM TypeCorrect ==
  ASSUME SoleRemover
  PROVE  Spec => []TypeOK
  <1>1. ASSUME IInv PROVE TypeOK
    <2>1. \A t \in Threads : pc[t] \in AtNode => cur[t].to # Null
      <3>1. AllWithin
        BY <1>1 DEF IInv, SearchInv, AllWithin
      <3> QED BY <1>1, <3>1, AtPlace, OrderFacts DEF IInv, ListInv
    <2> QED BY <1>1, <2>1 DEF IInv, ListInv, ListTypes, TypeOK, ListTypeOK, AtNode,
         DroppedInv
  <1> QED BY <1>1, Inductive, PTL

(* From the head the links of ebr/list.rs lead through the nodes that were *)
(* inserted and not removed, the last one first, and through no other,     *)
(* also while the list is dropped.                                         *)
THEOREM LinksAreHistory ==
  ASSUME SoleRemover
  PROVE  Spec => []ChainInOrder
  <1>1. IInv => ChainInOrder
    BY ChainFollows DEF IInv
  <1> QED BY <1>1, Inductive, PTL

(* No operation of ebr/list.rs accesses a node that the scheme has given   *)
(* back, although walks lead through removed nodes: what a thread can get  *)
(* to was removed since it pinned.  And where nobody may call remove_with, *)
(* whose caller frees nodes at once, none accesses any node after it was   *)
(* freed, so that no behaviour is cut short.                               *)
THEOREM AccessIsSafe ==
  ASSUME SoleRemover
  PROVE  /\ Spec => []NoUseAfterFree
         /\ (\A t \in Threads, v \in Values : <<"remove_with", v>> \notin May[t])
              => (Spec => [](NoUseAfterFree /\ NoUseAfterDrop))
  <1>1. ASSUME IInv PROVE NoUseAfterFree
    <2> SUFFICES ASSUME NEW t \in Threads, NEW n \in Accessed(t)
                 PROVE  n \notin freed
      BY DEF NoUseAfterFree
    <2>1. pc[t] \in AtNode /\ n \in {cur[t].to, prev[t]} \ {Root}
      <3>1. pc[t] \in AtNode
        BY DEF Accessed, AtNode
      <3>2. pc[t] \in AtNode => cur[t].to # Root
        BY <1>1, ListAssumption DEF IInv, ListInv, ListTypes, Link
      <3> QED BY <3>1, <3>2 DEF Accessed, AtNode
    <2>2. PICK F \in SUBSET Nodes : Within(t, F) /\ Safe(t, F)
      BY <1>1 DEF IInv, SearchInv
    <2>3. n \in F
      BY <2>1, <2>2 DEF Within
    <2>4. t \in pinned
      BY <1>1, <2>1 DEF IInv, PinInv, AtNode
    <2> QED BY <2>2, <2>3, <2>4 DEF Safe
  <1>2. ASSUME \A t \in Threads, v \in Values : <<"remove_with", v>> \notin May[t],
               IInv
        PROVE  NoUseAfterDrop
    <2>1. dropped = {}
      BY <1>2 DEF IInv, DroppedInv, Values
    <2> QED BY <2>1 DEF NoUseAfterDrop
  <1>3. Spec => []IInv
    BY Inductive
  <1>4. CASE \A t \in Threads, v \in Values : <<"remove_with", v>> \notin May[t]
    <2>1. IInv => NoUseAfterFree /\ NoUseAfterDrop
      BY <1>1, <1>2, <1>4
    <2> QED BY <1>3, <2>1, PTL
  <1>5. Spec => []NoUseAfterFree
    BY <1>1, <1>3, PTL
  <1> QED BY <1>4, <1>5

(* What remove, remove_front and drop hand to add_garbage, and remove_with *)
(* to its caller, is out of reach from the head, and nobody has handed it  *)
(* over before.                                                            *)
THEOREM RetiresUnreachable ==
  ASSUME SoleRemover
  PROVE  Spec => []GarbageIsUnreachable
  <1>1. IInv => GarbageIsUnreachable
    BY DEF IInv, ListInv, LinkInv, GoneInv, Gone, GarbageIsUnreachable
  <1> QED BY <1>1, Inductive, PTL

(* A walk that never stands on a node the caller of remove_with frees      *)
(* meets every node that is in the list from its beginning to its end,     *)
(* whatever is inserted and removed meanwhile: so far can_increment_epoch  *)
(* (ebr/mod.rs:241) overlooks nobody.                                      *)
THEOREM WalksMeetAll ==
  ASSUME SoleRemover
  PROVE  Spec => []WalkMeetsAll
  <1>1. IInv => WalkMeetsAll
    BY WalksFollow DEF IInv
  <1> QED BY <1>1, Inductive, PTL

(* remove_with does not panic for want of its tag (ebr/list.rs:309-311),   *)
(* where it alone removes what it looks for.                               *)
THEOREM TagTakenBack ==
  ASSUME SoleRemover
  PROVE  Spec => []UntagSucceeds
  <1>1. IInv => UntagSucceeds
    BY DEF IInv, ListInv, HoldInv, Holding, UntagSucceeds
  <1> QED BY <1>1, Inductive, PTL

(* When the list has been dropped every node that was ever inserted was    *)
(* handed over (List::drop).                                               *)
THEOREM LeaksNothing ==
  ASSUME SoleRemover
  PROVE  Spec => []NothingLeaked
  <1>1. ASSUME IInv PROVE NothingLeaked
    <2> SUFFICES ASSUME link[Root].to = Null, \A t \in Threads : pc[t] = "out",
                        NEW n \in Ordered
                 PROVE  n \in Gone
      BY DEF NothingLeaked, Gone
    <2>1. Ordered \ out = {}
      <3>1. Behind(Root) = Ordered /\ Behind(Null) = {} /\ Null \notin Ordered
        BY <1>1, OrderFacts DEF IInv, ListInv
      <3> QED BY <1>1, <3>1 DEF IInv, ListInv, LinkInv
    <2> QED BY <1>1, <2>1 DEF IInv, GoneInv
  <1> QED BY <1>1, Inductive, PTL
-----------------------------------------------------------------------------
LEMMA LowBitsAreBits == LowBits \subseteq Bits
  BY TaggedPtrAssumption, SMT DEF LowBits, Bits

(* Tagging a word (atomic.rs, data_with_tag) changes its tag, to what fits *)
(* of the new one, and nothing else; tagging again forgets the first tag.  *)
THEOREM TagReplaced ==
  ASSUME NEW data \in Words, NEW tag \in Words, NEW other \in Words
  PROVE  /\ DataWithTag(data, tag) \in Words
         /\ TagOf(DataWithTag(data, tag)) = tag \cap LowBits
         /\ AsRaw(DataWithTag(data, tag)) = AsRaw(data)
         /\ DataWithTag(DataWithTag(data, other), tag) = DataWithTag(data, tag)
  BY LowBitsAreBits DEF Words, DataWithTag, TagOf, AsRaw

(* fetch_and, fetch_or and fetch_xor change the tag only, whatever bits the *)
(* caller passes: an atomic that is in use never points elsewhere after.   *)
THEOREM FetchesKeepPointer ==
  ASSUME NEW cell \in Words, NEW val \in Words
  PROVE  /\ AsRaw(FetchAnd(cell, val)) = AsRaw(cell)
         /\ AsRaw(FetchOr(cell, val)) = AsRaw(cell)
         /\ AsRaw(FetchXor(cell, val)) = AsRaw(cell)
         /\ TagOf(FetchAnd(cell, val)) = TagOf(cell) \cap val
         /\ TagOf(FetchOr(cell, val)) = TagOf(cell) \cup TagOf(val)
  BY LowBitsAreBits DEF Words, FetchAnd, FetchOr, FetchXor, AsRaw, TagOf

(* A pointer and a tag can be read off the word they were put in: words    *)
(* that are the same have the same of both.                                *)
THEOREM WordsTellApart ==
  ASSUME NEW p \in Words, NEW q \in Words, Aligned(p), Aligned(q),
         NEW s \in SUBSET LowBits, NEW t \in SUBSET LowBits,
         DataWithTag(p, s) = DataWithTag(q, t)
  PROVE  p = q /\ s = t
  BY DEF DataWithTag, Aligned

(* A pointer registered with its tag on is found by a scan for the pointer *)
(* without (hp/atomic.rs:1044), and for no other.                          *)
THEOREM HazardIgnoresTag ==
  ASSUME NEW p \in Words, NEW q \in Words, Aligned(p), Aligned(q),
         NEW tag \in Words
  PROVE  HazardWord(WithTag(p, tag)) = q <=> p = q
  BY DEF HazardWord, WithTag, DataWithTag, AsRaw, Aligned

(* A compare-and-set on the words of links succeeds exactly when the links *)
(* are the same, pointer and tag, and leaves the word of the new link or   *)
(* of the old: the actions of MarkedList may compare records.              *)
THEOREM ComparesLinks ==
  ASSUME Zeros > 0,
         NEW S, NEW addr \in [S -> Words],
         \A n \in S : Aligned(addr[n]),
         \A m, n \in S : addr[m] = addr[n] => m = n,
         NEW l \in [to : S, tag : BOOLEAN],
         NEW k \in [to : S, tag : BOOLEAN],
         NEW new \in [to : S, tag : BOOLEAN]
  PROVE  CompareAndSet(LinkWord(addr, l), LinkWord(addr, k), LinkWord(addr, new))
           = [cell |-> LinkWord(addr, IF l = k THEN new ELSE l), ok |-> l = k]
  <1> DEFINE tagOf(x) == IF x.tag THEN {0} ELSE {}
  <1>1. \A x \in [to : S, tag : BOOLEAN] : tagOf(x) \in SUBSET LowBits
    BY TaggedPtrAssumption, SMT DEF LowBits
  <1>2. ASSUME LinkWord(addr, l) = LinkWord(addr, k)
        PROVE  l = k
    <2>1. DataWithTag(addr[l.to], tagOf(l)) = DataWithTag(addr[k.to], tagOf(k))
      BY <1>2 DEF LinkWord, WithTag
    <2>2. l.to \in S /\ k.to \in S
      OBVIOUS
    <2>3. addr[l.to] = addr[k.to] /\ tagOf(l) = tagOf(k)
      <3> HIDE DEF tagOf
      <3> QED
        BY <2>1, <2>2, <1>1, WordsTellApart
    <2>4. l.to = k.to
      BY <2>2, <2>3
    <2>5. l.tag = k.tag
      BY <2>3
    <2> QED
      BY <2>4, <2>5
  <1>3. CASE l = k
    BY <1>3 DEF CompareAndSet
  <1>4. CASE l # k
    <2>1. LinkWord(addr, l) # LinkWord(addr, k)
      BY <1>2, <1>4
    <2> QED
      BY <2>1, <1>4 DEF CompareAndSet
  <1> QED
    BY <1>3, <1>4
=============================================================================
