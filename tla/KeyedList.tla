----------------------------- MODULE KeyedList -----------------------------
(***************************************************************************)
(* What the lists of the crate promise: a sequence of nodes, inserted in   *)
(* front and removed from anywhere, whose operations take effect at one    *)
(* moment between call and return.  An answer "there is none" must have    *)
(* been right at some moment of the call, except for a value that is in    *)
(* the list twice: the walk may miss one node before it is inserted and    *)
(* the other after it is removed.                                          *)
(***************************************************************************)
EXTENDS Sequences, Naturals

CONSTANTS
  Threads,
  Nodes,
  Null,
  Data     \* the value of each node

VARIABLES
  items,   \* the list
  op,      \* the operation a thread has called, or "none"
  arg,     \* the node it inserts, or the value it looks for
  result,  \* what it will return, "pending" while this is open
  saw      \* whether what it looks for was there, at each moment of the call

vars == <<items, op, arg, result, saw>>

ByKey == {"remove", "remove_with", "contains"}
AtFront == {"remove_front", "is_empty"}
Ops == {"insert", "walk"} \cup ByKey \cup AtFront
Values == {Data[n] : n \in Nodes}

Without(s, i) == SubSeq(s, 1, i - 1) \o SubSeq(s, i + 1, Len(s))
Matches(t, n) == op[t] \in ByKey => Data[n] = arg[t]
Looking(t) == op[t] \in ByKey \cup AtFront /\ result[t] = "pending"

Init ==
  /\ items = <<>>
  /\ op = [t \in Threads |-> "none"]
  /\ arg = [t \in Threads |-> Null]
  /\ result = [t \in Threads |-> "pending"]
  /\ saw = [t \in Threads |-> {}]

Call(t) ==
  /\ op[t] = "none"
  /\ \E o \in Ops : op' = [op EXCEPT ![t] = o]
  /\ \E v \in Nodes \cup Values \cup {Null} : arg' = [arg EXCEPT ![t] = v]
  /\ UNCHANGED <<items, result>>

Insert(t) ==
  /\ op[t] = "insert" /\ result[t] = "pending"
  /\ items' = <<arg[t]>> \o items
  /\ result' = [result EXCEPT ![t] = "done"]
  /\ UNCHANGED <<op, arg>>

(* A removal by value takes some node with that value. *)
Remove(t, i) ==
  /\ op[t] \in {"remove", "remove_with", "remove_front"}
  /\ result[t] = "pending"
  /\ Matches(t, items[i])
  /\ op[t] = "remove_front" => i = 1
  /\ items' = Without(items, i)
  /\ result' = [result EXCEPT ![t] = items[i]]
  /\ UNCHANGED <<op, arg>>

Found(t) ==
  /\ op[t] \in {"contains", "is_empty"} /\ result[t] = "pending"
  /\ TRUE \in saw[t]
  /\ result' = [result EXCEPT ![t] = "found"]
  /\ UNCHANGED <<items, op, arg>>

Twice(v) == \E m, n \in Nodes : m # n /\ Data[m] = v /\ Data[n] = v

Absent(t) ==
  /\ Looking(t)
  /\ FALSE \in saw[t] \/ (op[t] \in ByKey /\ Twice(arg[t]))
  /\ result' = [result EXCEPT ![t] = Null]
  /\ UNCHANGED <<items, op, arg>>

Walked(t) ==
  /\ op[t] = "walk" /\ result[t] = "pending"
  /\ result' = [result EXCEPT ![t] = "done"]
  /\ UNCHANGED <<items, op, arg>>

Return(t) ==
  /\ result[t] # "pending"
  /\ op' = [op EXCEPT ![t] = "none"]
  /\ arg' = [arg EXCEPT ![t] = Null]
  /\ result' = [result EXCEPT ![t] = "pending"]
  /\ UNCHANGED items

Look ==
  saw' = [t \in Threads |->
            IF Looking(t)'
            THEN (IF Looking(t) THEN saw[t] ELSE {})
                   \cup {\E i \in DOMAIN items' : Matches(t, items[i])'}
            ELSE {}]

Next ==
  /\ \E t \in Threads :
       \/ Call(t) \/ Insert(t) \/ Found(t) \/ Absent(t) \/ Walked(t) \/ Return(t)
       \/ \E i \in DOMAIN items : Remove(t, i)
  /\ Look

Spec == Init /\ [][Next]_vars
=============================================================================
