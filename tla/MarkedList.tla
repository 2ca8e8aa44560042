---------------------------- MODULE MarkedList -----------------------------
(***************************************************************************)
(* The list of src/ebr/list.rs and src/nothing/list.rs, one action per     *)
(* access to shared memory.  A node is removed in two steps: its own       *)
(* `next` is tagged, so that nobody takes away or inserts what follows,    *)
(* then the pointer to it is swung past it.  When the swing fails the tag  *)
(* is taken back: it is a lock, and one that others wait for.              *)
(*                                                                         *)
(* What becomes of removed nodes is left to the modules that extend this.  *)
(***************************************************************************)
EXTENDS Naturals, Sequences, FiniteSets

CONSTANTS
  Threads,
  Nodes,
  Null,
  Root,  \* stands for List.head where a node is expected
  Data,  \* the value of each node
  May    \* the pairs of an operation and its argument a thread may call

Values == {Data[n] : n \in Nodes}
Inserts == {<<"insert", v>> : v \in Values}
Plain == {<<o, Null>> : o \in {"remove_front", "is_empty", "walk"}}
ByKey == {"remove", "remove_with", "contains"}
Calls == Inserts \cup Plain \cup ByKey \X Values

ASSUME ListAssumption ==
  /\ Null \notin Nodes /\ Root \notin Nodes /\ Root # Null
  /\ "pending" \notin Nodes \cup {Null}   \* no result of a call
  /\ May \in [Threads -> SUBSET Calls]

VARIABLES
  link,    \* List.head and Node.next: a pointer and its tag
  pc, op, arg,
  prev,    \* the node, or Root, whose link led to the current node
  cur,     \* the current node, as loaded
  nxt,     \* its link, as loaded
  found,   \* the head as returned by a compare-and-swap that failed
  result,
  order,   \* history: the nodes inserted, the last one first
  out,     \* history: the nodes removed
  saw,     \* history: see KeyedList
  owed     \* history: the nodes a walk has still to meet

listVars == <<link, prev, cur, nxt, found, result, order, out>>
controlVars == <<pc, op, arg, saw, owed>>

To(n) == [to |-> n, tag |-> FALSE]
Tagged(l) == [l EXCEPT !.tag = TRUE]
Untagged(l) == [l EXCEPT !.tag = FALSE]
Link == [to : Nodes \cup {Null}, tag : BOOLEAN]

Steps == {"ins_load", "ins_cas", "head", "visit", "mark", "swing", "unmark",
          "take"}
Phase == Steps \cup {"out", "enter", "free", "work", "return"}

(* Types, and that no null pointer is followed. *)
ListTypeOK ==
  /\ link \in [Nodes \cup {Root} -> Link]
  /\ pc \in [Threads -> Phase]
  /\ prev \in [Threads -> Nodes \cup {Root}]
  /\ cur \in [Threads -> Link] /\ nxt \in [Threads -> Link]
  /\ found \in [Threads -> Link]
  /\ order \in Seq(Nodes) /\ out \in SUBSET Nodes
  /\ owed \in [Threads -> SUBSET Nodes]
  /\ \A t \in Threads :
       pc[t] \in {"visit", "mark", "swing", "unmark", "take"} =>
         cur[t].to # Null

(* The list may have been filled before, with the nodes of a sequence.     *)
ListInit(start, filled) ==
  /\ link = [n \in Nodes \cup {Root} |->
               LET next == {i \in DOMAIN filled :
                              IF i = 1 THEN n = Root ELSE n = filled[i - 1]}
               IN  To(IF next = {} THEN Null ELSE filled[CHOOSE i \in next : TRUE])]
  /\ pc = [t \in Threads |-> start]
  /\ op = [t \in Threads |-> "none"]
  /\ arg = [t \in Threads |-> Null]
  /\ prev = [t \in Threads |-> Root]
  /\ cur = [t \in Threads |-> To(Null)]
  /\ nxt = [t \in Threads |-> To(Null)]
  /\ found = [t \in Threads |-> To(Null)]
  /\ result = [t \in Threads |-> "pending"]
  /\ order = filled
  /\ out = {}
  /\ saw = [t \in Threads |-> {}]
  /\ owed = [t \in Threads |-> {}]
-----------------------------------------------------------------------------
Ordered == {order[i] : i \in DOMAIN order}
ItemSet == Ordered \ out
Unused == Nodes \ (Ordered \cup {arg[t] : t \in Threads})

(* The nodes inserted before n, which the links of n may lead to. *)
Behind(n) ==
  {order[j] : j \in {k \in DOMAIN order :
                       n = Root \/ \E i \in 1..k - 1 : order[i] = n}}

(* The contents of the list, each node at its place. *)
Place(n) == Cardinality(ItemSet \ Behind(n))
Items ==
  [i \in 1..Cardinality(ItemSet) |-> CHOOSE n \in ItemSet : Place(n) = i]

Goto(t, p) == pc' = [pc EXCEPT ![t] = p]

(* The operation ends and gives up its local pointers. *)
Finish(t, r) ==
  /\ Goto(t, "return")
  /\ result' = [result EXCEPT ![t] = r]
  /\ prev' = [prev EXCEPT ![t] = Root]
  /\ cur' = [cur EXCEPT ![t] = To(Null)]
  /\ nxt' = [nxt EXCEPT ![t] = To(Null)]
  /\ found' = [found EXCEPT ![t] = To(Null)]

(* Start again at the head. *)
Restart(t) ==
  /\ Goto(t, "head")
  /\ prev' = [prev EXCEPT ![t] = Root]
  /\ cur' = [cur EXCEPT ![t] = To(Null)]
  /\ nxt' = [nxt EXCEPT ![t] = To(Null)]
  /\ found' = [found EXCEPT ![t] = To(Null)]
  /\ UNCHANGED result

CallInsert(t) ==
  /\ pc[t] = "work"
  /\ \E n \in Unused : /\ <<"insert", Data[n]>> \in May[t]
                       /\ arg' = [arg EXCEPT ![t] = n]
  /\ op' = [op EXCEPT ![t] = "insert"]
  /\ Goto(t, "ins_load")
  /\ UNCHANGED listVars

CallOther(t, c) ==
  /\ pc[t] = "work"
  /\ c[1] # "insert"
  /\ op' = [op EXCEPT ![t] = c[1]]
  /\ arg' = [arg EXCEPT ![t] = c[2]]
  /\ Goto(t, "head")
  /\ UNCHANGED listVars

Return(t) ==
  /\ pc[t] = "return"
  /\ op' = [op EXCEPT ![t] = "none"]
  /\ arg' = [arg EXCEPT ![t] = Null]
  /\ result' = [result EXCEPT ![t] = "pending"]
  /\ Goto(t, "work")
  /\ UNCHANGED <<link, prev, cur, nxt, found, order, out>>
-----------------------------------------------------------------------------
(* insert *)

(* In ebr a tag on the head stops the thread with a panic. *)
InsertLoad(t) ==
  /\ pc[t] = "ins_load"
  /\ ~link[Root].tag
  /\ found' = [found EXCEPT ![t] = link[Root]]
  /\ Goto(t, "ins_cas")
  /\ UNCHANGED <<link, op, arg, prev, cur, nxt, result, order, out>>

(* Mutant: the head is stored, not compared and swapped. *)
InsertStore(t) ==
  /\ pc[t] = "ins_cas"
  /\ link' = [link EXCEPT ![arg[t]] = found[t], ![Root] = To(arg[t])]
  /\ order' = <<arg[t]>> \o order
  /\ Finish(t, "done")
  /\ UNCHANGED <<op, arg, out>>

(* The new node is written, nobody else sees it, and then the head.  If    *)
(* the head has changed it is tried again with what was found there.       *)
InsertCas(t) ==
  /\ pc[t] = "ins_cas"
  /\ \/ /\ link[Root] = found[t]
        /\ link' = [link EXCEPT ![arg[t]] = found[t], ![Root] = To(arg[t])]
        /\ order' = <<arg[t]>> \o order
        /\ Finish(t, "done")
     \/ /\ link[Root] # found[t]
        /\ link' = [link EXCEPT ![arg[t]] = found[t]]
        /\ found' = [found EXCEPT ![t] = link[Root]]
        /\ UNCHANGED <<pc, prev, cur, nxt, result, order>>
  /\ UNCHANGED <<op, arg, out>>
-----------------------------------------------------------------------------
(* The walk that all other operations start with. *)

LoadHead(t) ==
  /\ pc[t] = "head"
  /\ \/ /\ link[Root].to = Null
        /\ Finish(t, IF op[t] = "walk" THEN "done" ELSE Null)
     \/ /\ link[Root].to # Null
        /\ cur' = [cur EXCEPT ![t] = link[Root]]
        /\ Goto(t, "visit")
        /\ UNCHANGED <<prev, nxt, found, result>>
  /\ UNCHANGED <<link, op, arg, order, out>>

(* On to the next node; `none` is the answer if there is none. *)
Follow(t, none) ==
  LET l == link[cur[t].to]
  IN  \/ /\ l.to = Null
         /\ Finish(t, none)
      \/ /\ l.to # Null
         /\ prev' = [prev EXCEPT ![t] = cur[t].to]
         /\ cur' = [cur EXCEPT ![t] = To(l.to)]
         /\ UNCHANGED <<pc, nxt, found, result>>

Hit(t) == op[t] \in ByKey /\ Data[cur[t].to] = arg[t]
CurTagged(t) == link[cur[t].to].tag

(* Load the link of the node that is to be removed. *)
Aim(t, l) ==
  /\ nxt' = [nxt EXCEPT ![t] = l]
  /\ Goto(t, "mark")
  /\ UNCHANGED <<prev, cur, found, result>>

VisitFront(t) ==
  /\ pc[t] = "visit" /\ op[t] = "remove_front"
  /\ \/ CurTagged(t) /\ Restart(t)
     \/ ~CurTagged(t) /\ Aim(t, link[cur[t].to])
  /\ UNCHANGED <<link, op, arg, order, out>>

VisitRemove(t) ==
  /\ pc[t] = "visit" /\ op[t] = "remove"
  /\ \/ Hit(t) /\ Aim(t, Untagged(link[cur[t].to]))
     \/ ~Hit(t) /\ CurTagged(t) /\ Restart(t)
     \/ ~Hit(t) /\ ~CurTagged(t) /\ Follow(t, Null)
  /\ UNCHANGED <<link, op, arg, order, out>>

(* remove_with follows tagged links, and keeps the tag of the node it is   *)
(* about to remove.                                                        *)
VisitRemoveWith(t) ==
  /\ pc[t] = "visit" /\ op[t] = "remove_with"
  /\ \/ Hit(t) /\ Aim(t, link[cur[t].to])
     \/ ~Hit(t) /\ Follow(t, Null)
  /\ UNCHANGED <<link, op, arg, order, out>>

VisitContains(t) ==
  /\ pc[t] = "visit" /\ op[t] = "contains"
  /\ \/ Hit(t) /\ Finish(t, "found")
     \/ ~Hit(t) /\ CurTagged(t) /\ Restart(t)
     \/ ~Hit(t) /\ ~CurTagged(t) /\ Follow(t, Null)
  /\ UNCHANGED <<link, op, arg, order, out>>

(* Mutant: a tagged link is taken for the end. *)
VisitAllToTag(t) ==
  /\ pc[t] = "visit" /\ op[t] \in {"walk", "is_empty"}
  /\ \/ CurTagged(t) /\ Finish(t, IF op[t] = "walk" THEN "done" ELSE "found")
     \/ ~CurTagged(t) /\ Follow(t, IF op[t] = "walk" THEN "done" ELSE "found")
  /\ UNCHANGED <<link, op, arg, order, out>>

(* all, the iterator, and is_empty, which walks to the end for nothing,    *)
(* pay no attention to tags.                                               *)
VisitAll(t) ==
  /\ pc[t] = "visit" /\ op[t] \in {"walk", "is_empty"}
  /\ Follow(t, IF op[t] = "walk" THEN "done" ELSE "found")
  /\ UNCHANGED <<link, op, arg, order, out>>
-----------------------------------------------------------------------------
(* The removal of the current node. *)

(* Mutant: the node is not tagged. *)
MarkNot(t) ==
  /\ pc[t] = "mark"
  /\ Goto(t, "swing")
  /\ UNCHANGED <<link, op, arg, prev, cur, nxt, found, result, order, out>>

Mark(t) ==
  /\ pc[t] = "mark"
  /\ \/ /\ link[cur[t].to] = nxt[t]
        /\ link' = [link EXCEPT ![cur[t].to] = Tagged(nxt[t])]
        /\ Goto(t, "swing")
        /\ UNCHANGED <<prev, cur, nxt, found, result>>
     \/ /\ link[cur[t].to] # nxt[t]
        /\ op[t] = "remove_front"
        /\ Goto(t, "visit")
        /\ UNCHANGED <<link, prev, cur, nxt, found, result>>
     \/ /\ link[cur[t].to] # nxt[t]
        /\ op[t] # "remove_front"
        /\ Restart(t)
        /\ UNCHANGED link
  /\ UNCHANGED <<op, arg, order, out>>

Expected(t) == IF op[t] = "remove" THEN Untagged(cur[t]) ELSE cur[t]

(* Mutant: the link is stored, not compared and swapped. *)
SwingStore(t) ==
  /\ pc[t] = "swing"
  /\ link' = [link EXCEPT ![prev[t]] = nxt[t]]
  /\ out' = out \cup {cur[t].to}
  /\ Goto(t, "take")
  /\ UNCHANGED <<op, arg, prev, cur, nxt, found, result, order>>

Swing(t) ==
  /\ pc[t] = "swing"
  /\ \/ /\ link[prev[t]] = Expected(t)
        /\ link' = [link EXCEPT ![prev[t]] = nxt[t]]
        /\ out' = out \cup {cur[t].to}
        /\ Goto(t, "take")
        /\ UNCHANGED found
     \/ /\ link[prev[t]] # Expected(t)
        /\ found' = [found EXCEPT ![t] = IF op[t] = "remove_front"
                                          THEN link[Root] ELSE @]
        /\ Goto(t, "unmark")
        /\ UNCHANGED <<link, out>>
  /\ UNCHANGED <<op, arg, prev, cur, nxt, result, order>>

(* Mutant: the tag stays. *)
UnmarkNot(t) ==
  /\ pc[t] = "unmark"
  /\ op[t] # "remove_front"
  /\ Restart(t)
  /\ UNCHANGED <<link, op, arg, order, out>>

(* The tag is taken back.  If it is not there any more remove_with stops   *)
(* with a panic, the others do not mind.  remove_front goes on with the    *)
(* new head, the others start again.                                       *)
Unmark(t) ==
  /\ pc[t] = "unmark"
  /\ op[t] = "remove_with" => link[cur[t].to] = Tagged(nxt[t])
  /\ link' = IF link[cur[t].to] = Tagged(nxt[t])
             THEN [link EXCEPT ![cur[t].to] = nxt[t]] ELSE link
  /\ \/ op[t] # "remove_front" /\ Restart(t)
     \/ op[t] = "remove_front" /\ found[t].to = Null /\ Finish(t, Null)
     \/ /\ op[t] = "remove_front" /\ found[t].to # Null
        /\ cur' = [cur EXCEPT ![t] = found[t]]
        /\ nxt' = [nxt EXCEPT ![t] = To(Null)]
        /\ found' = [found EXCEPT ![t] = To(Null)]
        /\ Goto(t, "visit")
        /\ UNCHANGED <<prev, result>>
  /\ UNCHANGED <<op, arg, order, out>>

(* Read the data; the node is now this thread's to dispose of. *)
Take(t) ==
  /\ pc[t] = "take"
  /\ Finish(t, cur[t].to)
  /\ UNCHANGED <<link, op, arg, order, out>>
-----------------------------------------------------------------------------
Inserting(t) == InsertLoad(t) \/ InsertCas(t)
RemovingFront(t) == op[t] = "remove_front" /\ (LoadHead(t) \/ VisitFront(t))
Removing(t) == op[t] = "remove" /\ (LoadHead(t) \/ VisitRemove(t))
RemovingWith(t) == op[t] = "remove_with" /\ (LoadHead(t) \/ VisitRemoveWith(t))
Containing(t) == op[t] = "contains" /\ (LoadHead(t) \/ VisitContains(t))
Walking(t) == op[t] \in {"walk", "is_empty"} /\ (LoadHead(t) \/ VisitAll(t))
Unlinking(t) == Mark(t) \/ Swing(t) \/ Unmark(t)

Searching(t) ==
  RemovingFront(t) \/ Removing(t) \/ RemovingWith(t) \/ Containing(t)
    \/ Walking(t)

Calling(t) == CallInsert(t) \/ Return(t) \/ \E c \in May[t] : CallOther(t, c)

(* The histories: what a call that looks for something could have seen,    *)
Matches(t, n) == op[t] \in ByKey => Data[n] = arg[t]
Looking(t) == op[t] \in ByKey \cup {"remove_front", "is_empty"}
                /\ pc[t] \in Steps \ {"take"}
NoteSaw ==
  saw' = [t \in Threads |->
            IF Looking(t)'
            THEN (IF Looking(t) THEN saw[t] ELSE {})
                   \cup {\E n \in ItemSet' : Matches(t, n)'}
            ELSE {}]

(* and what was in the list when a walk began, still is, and has not been  *)
(* met.                                                                    *)
NoteOwed ==
  owed' = [t \in Threads |->
             IF op'[t] # "walk" \/ pc'[t] = "head" THEN {}
             ELSE ((IF pc[t] = "head" THEN ItemSet ELSE owed[t])
                     \ {cur'[t].to}) \cap ItemSet']
-----------------------------------------------------------------------------
(* An insertion counts when the head is swapped, a removal when the        *)
(* pointer is swung.                                                       *)
Outcome ==
  [t \in Threads |-> IF pc[t] = "take" THEN cur[t].to ELSE result[t]]

List == INSTANCE KeyedList WITH items <- Items, result <- Outcome

(* insert, remove_front, remove, contains and is_empty take effect at one  *)
(* moment, and "none" is right but for values that are in the list twice.  *)
IsList == List!Spec

(* From the head, the links lead through the nodes of the list in order    *)
(* and to no other: each leads to the next one that is still there.        *)
ChainInOrder ==
  \A n \in ItemSet \cup {Root} :
    LET rest == Behind(n) \ out
        next == link[n].to
    IN  IF rest = {} THEN next = Null
        ELSE next \in rest /\ rest \ {next} \subseteq Behind(next)

(* Tags belong to removed nodes, for good, and to nodes whose removal is   *)
(* under way; the head has none.                                           *)
TagsAccountedFor ==
  \A n \in Nodes \cup {Root} :
    link[n].tag <=>
      \/ n \in out
      \/ \E t \in Threads : pc[t] \in {"swing", "unmark"} /\ cur[t].to = n

(* The head pointer is never tagged: insert asserts it (ebr/list.rs:39),   *)
(* and remove assumes it (177).                                            *)
HeadNeverTagged == ~link[Root].tag

(* The tag is a lock: whoever takes it back finds it as it left it, and    *)
(* the panics of ebr/list.rs:310 (remove_with) and of hp/list.rs:265 and   *)
(* 354 (remove, remove_with_node) are not reached.                         *)
UntagSucceeds ==
  \A t \in Threads : pc[t] = "unmark" => link[cur[t].to] = Tagged(nxt[t])

(* A walk that comes to its end has met every node that is in the list     *)
(* from its beginning on, also when it leads through nodes that are        *)
(* removed meanwhile, as can_increment_epoch must not overlook a pinned    *)
(* thread (ebr/mod.rs:241).                                                *)
WalkMeetsAll ==
  \A t \in Threads : op[t] = "walk" /\ pc[t] = "return" => owed[t] = {}

(* The nodes whose memory the thread accesses in its next step; where it   *)
(* fails, remove_with looks at the previous node once more.                *)
Accessed(t) ==
  CASE pc[t] = "unmark" /\ op[t] = "remove_with" ->
         {cur[t].to, prev[t]} \ {Root}
    [] pc[t] \in {"visit", "mark", "unmark", "take"} -> {cur[t].to}
    [] pc[t] = "swing" -> {prev[t]} \ {Root}
    [] OTHER -> {}
=============================================================================
