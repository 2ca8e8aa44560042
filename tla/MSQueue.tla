------------------------------ MODULE MSQueue ------------------------------
(***************************************************************************)
(* The Michael-Scott queue of src/ebr/queue.rs, one action per access to   *)
(* shared memory, without the reclamation of the nodes that pop takes out  *)
(* of it: EbrQueue and LeakingQueue say what becomes of those.             *)
(*                                                                         *)
(* A node stands for its data as well: the value pushed with a node is the *)
(* node.  A node is used for one push only, reuse of its memory is a       *)
(* matter of the reclamation.                                              *)
(***************************************************************************)
EXTENDS Naturals, Sequences

CONSTANTS
  Threads,
  Nodes,
  Null,
  Wanted,  \* the values the condition given to pop_if accepts
  May      \* the operations each thread may call

Pushes == {"push", "enqueue"}
Ops == Pushes \cup {"pop", "pop_if", "pop_once", "is_empty"}

ASSUME QueueAssumption ==
  /\ Null \notin Nodes
  /\ "pending" \notin Nodes \cup {Null}   \* no result of a call
  /\ Wanted \subseteq Nodes
  /\ May \in [Threads -> SUBSET Ops]

VARIABLES
  head, tail,  \* Queue.head and Queue.tail
  next,        \* Node.next
  pc,          \* where the thread is
  op,          \* the operation it has called
  node,        \* push: its new node
  ptr,         \* the head or tail it has loaded
  succ,        \* the `next` of that node, as loaded
  result,      \* what the operation returns
  linked,      \* history: all nodes that were linked in, in order
  saw          \* history: the first value at each moment of a call

queueVars == <<head, tail, next, op, node, ptr, succ, result, linked>>

PushSteps ==
  {"push_tail", "push_next", "push_check", "push_help", "push_link",
   "push_swing"}
PopSteps == {"pop_head", "pop_next", "pop_read", "pop_cas", "pop_take"}
Outside == {"out", "enter", "free", "work"}
Phase == PushSteps \cup PopSteps \cup Outside \cup {"return"}
Results == Nodes \cup {Null, "pending", "done", "yes", "no"}
Pointer == Nodes \cup {Null}

(* Types, and that a pointer is not null where it is used. *)
QueueTypeOK ==
  /\ head \in Pointer /\ tail \in Pointer
  /\ next \in [Nodes -> Pointer]
  /\ pc \in [Threads -> Phase]
  /\ op \in [Threads -> Ops \cup {"none"}]
  /\ node \in [Threads -> Pointer]
  /\ ptr \in [Threads -> Pointer] /\ succ \in [Threads -> Pointer]
  /\ result \in [Threads -> Results]
  /\ linked \in Seq(Nodes)
  /\ saw \in [Threads -> SUBSET Pointer]
  /\ \A t \in Threads :
       /\ pc[t] \in PushSteps => node[t] # Null
       /\ pc[t] \in {"push_next", "push_help", "push_link", "push_swing",
                     "pop_next", "pop_read", "pop_cas", "pop_take"} =>
            ptr[t] # Null
       /\ pc[t] \in {"push_help", "pop_read", "pop_cas", "pop_take"} =>
            succ[t] # Null

(* Queue::new: a sentinel with no data. *)
QueueInit(start) ==
  /\ \E s \in Nodes : head = s /\ tail = s /\ linked = <<s>>
  /\ next = [n \in Nodes |-> Null]
  /\ pc = [t \in Threads |-> start]
  /\ op = [t \in Threads |-> "none"]
  /\ node = [t \in Threads |-> Null]
  /\ ptr = [t \in Threads |-> Null]
  /\ succ = [t \in Threads |-> Null]
  /\ result = [t \in Threads |-> "pending"]
  /\ saw = [t \in Threads |-> {}]
-----------------------------------------------------------------------------
Goto(t, p) == pc' = [pc EXCEPT ![t] = p]
Linked == {linked[i] : i \in DOMAIN linked}
Unused == Nodes \ (Linked \cup {node[t] : t \in Threads})

(* The operation ends and gives up its local pointers. *)
Finish(t, r) ==
  /\ Goto(t, "return")
  /\ result' = [result EXCEPT ![t] = r]
  /\ ptr' = [ptr EXCEPT ![t] = Null]
  /\ succ' = [succ EXCEPT ![t] = Null]

CallPush(t, o) ==
  /\ pc[t] = "work" /\ head # Null
  /\ o \in May[t] \cap Pushes
  /\ \E n \in Unused : node' = [node EXCEPT ![t] = n]
  /\ op' = [op EXCEPT ![t] = o]
  /\ Goto(t, "push_tail")
  /\ UNCHANGED <<head, tail, next, ptr, succ, result, linked>>

CallPop(t, o) ==
  /\ pc[t] = "work" /\ head # Null
  /\ o \in May[t] \ Pushes
  /\ op' = [op EXCEPT ![t] = o]
  /\ Goto(t, "pop_head")
  /\ UNCHANGED <<head, tail, next, node, ptr, succ, result, linked>>

(* The caller has the result. *)
Return(t) ==
  /\ pc[t] = "return"
  /\ Goto(t, "work")
  /\ op' = [op EXCEPT ![t] = "none"]
  /\ node' = [node EXCEPT ![t] = Null]
  /\ result' = [result EXCEPT ![t] = "pending"]
  /\ UNCHANGED <<head, tail, next, ptr, succ, linked>>
-----------------------------------------------------------------------------
(* push *)

LoadTail(t) ==
  /\ pc[t] = "push_tail"
  /\ ptr' = [ptr EXCEPT ![t] = tail]
  /\ Goto(t, "push_next")
  /\ UNCHANGED <<head, tail, next, op, node, succ, result, linked>>

LoadTailNext(t) ==
  /\ pc[t] = "push_next"
  /\ succ' = [succ EXCEPT ![t] = next[ptr[t]]]
  /\ \/ next[ptr[t]] = Null /\ Goto(t, "push_link")
     \/ next[ptr[t]] # Null /\ Goto(t, "push_help")
  /\ UNCHANGED <<head, tail, next, op, node, ptr, result, linked>>

(* Mutant: only start again. *)
HelpTailNot(t) ==
  /\ pc[t] = "push_help"
  /\ Goto(t, "push_tail")
  /\ ptr' = [ptr EXCEPT ![t] = Null]
  /\ succ' = [succ EXCEPT ![t] = Null]
  /\ UNCHANGED <<head, tail, next, op, node, result, linked>>

(* The tail was not the last node: move it on, and start again. *)
HelpTail(t) ==
  /\ pc[t] = "push_help"
  /\ tail' = IF tail = ptr[t] THEN succ[t] ELSE tail
  /\ Goto(t, "push_tail")
  /\ ptr' = [ptr EXCEPT ![t] = Null]
  /\ succ' = [succ EXCEPT ![t] = Null]
  /\ UNCHANGED <<head, next, op, node, result, linked>>

(* Mutant: a store where the code has a compare-and-swap. *)
LinkNodeStore(t) ==
  /\ pc[t] = "push_link"
  /\ next' = [next EXCEPT ![ptr[t]] = node[t]]
  /\ linked' = Append(linked, node[t])
  /\ Goto(t, "push_swing")
  /\ UNCHANGED <<head, tail, op, node, ptr, succ, result>>

LinkNode(t) ==
  /\ pc[t] = "push_link"
  /\ \/ /\ next[ptr[t]] = Null
        /\ next' = [next EXCEPT ![ptr[t]] = node[t]]
        /\ linked' = Append(linked, node[t])
        /\ Goto(t, "push_swing")
        /\ UNCHANGED ptr
     \/ /\ next[ptr[t]] # Null
        /\ ptr' = [ptr EXCEPT ![t] = Null]
        /\ Goto(t, "push_tail")
        /\ UNCHANGED <<next, linked>>
  /\ UNCHANGED <<head, tail, op, node, succ, result>>

(* Move the tail to the new node, unless somebody has moved it already. *)
SwingTail(t) ==
  /\ pc[t] = "push_swing"
  /\ tail' = IF tail = ptr[t] THEN node[t] ELSE tail
  /\ Finish(t, "done")
  /\ UNCHANGED <<head, next, op, node, linked>>
-----------------------------------------------------------------------------
(* pop, pop_if and is_empty *)

LoadHead(t) ==
  /\ pc[t] = "pop_head"
  /\ ptr' = [ptr EXCEPT ![t] = head]
  /\ Goto(t, "pop_next")
  /\ UNCHANGED <<head, tail, next, op, node, succ, result, linked>>

LoadHeadNext(t) ==
  LET first == next[ptr[t]]
  IN  /\ pc[t] = "pop_next"
      /\ \/ /\ first = Null
            /\ Finish(t, IF op[t] = "is_empty" THEN "yes" ELSE Null)
         \/ /\ first # Null
            /\ op[t] = "is_empty"
            /\ Finish(t, "no")
         \/ /\ first # Null
            /\ op[t] # "is_empty"
            /\ succ' = [succ EXCEPT ![t] = first]
            /\ Goto(t, IF op[t] = "pop_if" THEN "pop_read" ELSE "pop_cas")
            /\ UNCHANGED <<ptr, result>>
      /\ UNCHANGED <<head, tail, next, op, node, linked>>

(* pop_if shows the data of the first node to its condition. *)
ReadFirst(t) ==
  /\ pc[t] = "pop_read"
  /\ \/ /\ succ[t] \in Wanted
        /\ Goto(t, "pop_cas")
        /\ UNCHANGED <<ptr, succ, result>>
     \/ /\ succ[t] \notin Wanted
        /\ Finish(t, Null)
  /\ UNCHANGED <<head, tail, next, op, node, linked>>

(* Mutant: the head is stored, not compared and swapped. *)
SwingHeadStore(t) ==
  /\ pc[t] = "pop_cas"
  /\ head' = succ[t]
  /\ Goto(t, "pop_take")
  /\ UNCHANGED <<tail, next, op, node, ptr, succ, result, linked>>

(* pop starts again if the head has moved, pop_if gives up. *)
SwingHead(t) ==
  /\ pc[t] = "pop_cas"
  /\ \/ /\ head = ptr[t]
        /\ head' = succ[t]
        /\ Goto(t, "pop_take")
        /\ UNCHANGED <<ptr, succ, result>>
     \/ /\ head # ptr[t]
        /\ op[t] = "pop"
        /\ Goto(t, "pop_head")
        /\ ptr' = [ptr EXCEPT ![t] = Null]
        /\ succ' = [succ EXCEPT ![t] = Null]
        /\ UNCHANGED <<head, result>>
     \/ /\ head # ptr[t]
        /\ op[t] = "pop_if"
        /\ Finish(t, Null)
        /\ UNCHANGED head
  /\ UNCHANGED <<tail, next, op, node, linked>>

(* Read the data; the old sentinel is now this thread's to dispose of. *)
TakeData(t) ==
  /\ pc[t] = "pop_take"
  /\ Finish(t, succ[t])
  /\ UNCHANGED <<head, tail, next, op, node, linked>>
-----------------------------------------------------------------------------
Pushing(t) ==
  LoadTail(t) \/ LoadTailNext(t) \/ HelpTail(t) \/ LinkNode(t) \/ SwingTail(t)

Popping(t) ==
  LoadHead(t) \/ LoadHeadNext(t) \/ ReadFirst(t) \/ SwingHead(t)

Calling(t) == Return(t) \/ \E o \in Ops : CallPush(t, o) \/ CallPop(t, o)

(* The history of what a call could have seen. *)
Looking(t) == pc[t] \in PopSteps \ {"pop_take"}
First == IF head = Null THEN Null ELSE next[head]
Look ==
  saw' = [t \in Threads |->
            IF Looking(t)'
            THEN (IF Looking(t) THEN saw[t] ELSE {}) \cup {First'}
            ELSE {}]
-----------------------------------------------------------------------------
(* The contents of the queue: what was linked behind the current sentinel. *)
Items ==
  IF head = Null THEN <<>>
  ELSE LET i == CHOOSE j \in DOMAIN linked : linked[j] = head
       IN  SubSeq(linked, i + 1, Len(linked))

(* The nodes that can be reached from the head. *)
Reachable ==
  IF head = Null THEN {}
  ELSE {head} \cup {Items[i] : i \in DOMAIN Items}

(* A push counts when its node is linked, a pop when the head moves. *)
Outcome ==
  [t \in Threads |-> CASE pc[t] = "push_swing" -> "done"
                       [] pc[t] = "pop_take" -> succ[t]
                       [] OTHER -> result[t]]

Fifo == INSTANCE FifoQueue WITH Values <- Nodes,
                                TryOps <- {"pop_if", "pop_once"},
                                items <- Items, arg <- node,
                                result <- Outcome

(* All operations are those of a first-in first-out queue, except that     *)
(* pop_if and pop_once may give up when the first value has changed during *)
(* the call.                                                               *)
IsFifo == Fifo!Spec

(* The pointers say what the history says: from the head each node leads   *)
(* to the one pushed after it, and the tail is the last node or lags by    *)
(* one behind it.                                                          *)
ChainInOrder ==
  head # Null =>
    /\ \A i \in DOMAIN linked :
         next[linked[i]] = IF i = Len(linked) THEN Null ELSE linked[i + 1]
    /\ tail \in {linked[i] : i \in {Len(linked), Len(linked) - 1} \ {0}}

(* The nodes whose memory the thread accesses in its next step. *)
Accessed(t) ==
  CASE pc[t] \in {"push_next", "push_link", "pop_next"} -> {ptr[t]}
    [] pc[t] \in {"pop_read", "pop_take"} -> {succ[t]}
    [] OTHER -> {}
=============================================================================
