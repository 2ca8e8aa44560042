----------------------------- MODULE FifoQueue -----------------------------
(***************************************************************************)
(* What the queues of the crate promise: a first-in first-out queue whose  *)
(* operations take effect at one moment between their call and their       *)
(* return.  An operation that only looks (is_empty, or a pop that returns  *)
(* None) must give an answer that was right at some moment of the call.    *)
(***************************************************************************)
EXTENDS Sequences

CONSTANTS
  Threads,
  Values,
  Null,
  Wanted,  \* the values the condition given to pop_if accepts
  TryOps   \* the operations that give up when the first value changes under them

VARIABLES
  items,   \* the queue
  op,      \* the operation a thread has called, or "none"
  arg,     \* the value it pushes
  result,  \* what it will return, "pending" while this is open
  saw      \* for operations that look: the first values since the call

vars == <<items, op, arg, result, saw>>

Pushes == {"push", "enqueue"}
Pops == {"pop", "pop_if", "pop_once"}
Ops == Pushes \cup Pops \cup {"is_empty"}
First(q) == IF q = <<>> THEN Null ELSE Head(q)
Looking(t) == op[t] \in Ops \ Pushes /\ result[t] = "pending"

Init ==
  /\ items = <<>>
  /\ op = [t \in Threads |-> "none"]
  /\ arg = [t \in Threads |-> Null]
  /\ result = [t \in Threads |-> "pending"]
  /\ saw = [t \in Threads |-> {}]

Call(t) ==
  /\ op[t] = "none"
  /\ \/ /\ \E o \in Pushes : op' = [op EXCEPT ![t] = o]
        /\ \E v \in Values : arg' = [arg EXCEPT ![t] = v]
     \/ /\ \E o \in Ops \ Pushes : op' = [op EXCEPT ![t] = o]
        /\ UNCHANGED arg
  /\ UNCHANGED <<items, result>>

Enqueue(t) ==
  /\ op[t] \in Pushes /\ result[t] = "pending"
  /\ items' = Append(items, arg[t])
  /\ result' = [result EXCEPT ![t] = "done"]
  /\ UNCHANGED <<op, arg>>

Take(t) ==
  /\ op[t] \in Pops /\ result[t] = "pending"
  /\ items # <<>>
  /\ op[t] = "pop_if" => Head(items) \in Wanted
  /\ items' = Tail(items)
  /\ result' = [result EXCEPT ![t] = Head(items)]
  /\ UNCHANGED <<op, arg>>

(* None: the queue was empty, its first value was not wanted, or another   *)
(* value has become the first meanwhile and the operation gives up.        *)
None(t) ==
  /\ op[t] \in Pops /\ result[t] = "pending"
  /\ \/ Null \in saw[t]
     \/ op[t] = "pop_if" /\ ~(saw[t] \subseteq Wanted)
     \/ op[t] \in TryOps /\ saw[t] # {First(items)}
  /\ result' = [result EXCEPT ![t] = Null]
  /\ UNCHANGED <<items, op, arg>>

IsEmpty(t) ==
  /\ op[t] = "is_empty" /\ result[t] = "pending"
  /\ \/ Null \in saw[t] /\ result' = [result EXCEPT ![t] = "yes"]
     \/ saw[t] # {Null} /\ result' = [result EXCEPT ![t] = "no"]
  /\ UNCHANGED <<items, op, arg>>

Return(t) ==
  /\ result[t] # "pending"
  /\ op' = [op EXCEPT ![t] = "none"]
  /\ arg' = [arg EXCEPT ![t] = Null]
  /\ result' = [result EXCEPT ![t] = "pending"]
  /\ UNCHANGED items

(* The queue itself is dropped; nobody uses it. *)
Clear ==
  /\ \A t \in Threads : op[t] = "none"
  /\ items' = <<>>
  /\ UNCHANGED <<op, arg, result>>

Look ==
  saw' = [t \in Threads |->
            IF Looking(t)'
            THEN (IF Looking(t) THEN saw[t] ELSE {}) \cup {First(items')}
            ELSE {}]

Next ==
  /\ \/ \E t \in Threads :
          \/ Call(t) \/ Enqueue(t) \/ Take(t) \/ None(t) \/ IsEmpty(t) \/ Return(t)
     \/ Clear
  /\ Look

Spec == Init /\ [][Next]_vars
=============================================================================
