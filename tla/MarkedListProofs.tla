--------------------------- MODULE MarkedListProofs -------------------------
(* Theorems about the steps of MarkedList and about LeakingList, for any   *)
(* number of threads and nodes: the links are the history in `order` and   *)
(* `out`, the tags belong to those who put them there, and the operations  *)
(* are those of KeyedList.  EbrList has the first two from here.           *)
EXTENDS MarkedList, FiniteSetTheorems, FunctionTheorems, SequenceTheorems, TLAPS

(* What remove_with asks of its callers (ebr/list.rs): nobody else removes *)
(* a node with that value meanwhile.                                       *)
SoleRemover ==
  \A t, u \in Threads, v \in Values :
    t # u /\ <<"remove_with", v>> \in May[t] =>
      May[u] \cap {<<"remove", v>>, <<"remove_with", v>>,
                   <<"remove_front", Null>>} = {}

Ops == {"none", "insert", "remove_front", "is_empty", "walk"} \cup ByKey
Removers == {"remove_front", "remove", "remove_with"}
Insertion == {"ins_load", "ins_cas"}
AtNode == {"visit", "mark", "swing", "unmark", "take"}
Holding == {"swing", "unmark"}   \* the tag of the current node is the thread's

ListTypes ==
  /\ link \in [Nodes \cup {Root} -> Link]
  /\ pc \in [Threads -> Phase] /\ op \in [Threads -> Ops]
  /\ arg \in [Threads -> Nodes \cup Values \cup {Null}]
  /\ prev \in [Threads -> Nodes \cup {Root}]
  /\ cur \in [Threads -> Link] /\ nxt \in [Threads -> Link]
  /\ found \in [Threads -> Link]
  /\ order \in Seq(Nodes) /\ out \in SUBSET Nodes

(* Nodes are inserted once. *)
OrderInv ==
  /\ \A i, j \in DOMAIN order : order[i] = order[j] => i = j
  /\ out \subseteq Ordered

(* The links of every node that was ever inserted pass over none that is   *)
(* in the list, and those of the nodes in the list lead to no other.       *)
LinkInv ==
  /\ \A n \in Ordered \cup {Root} :
       /\ link[n].to \in Behind(n) \cup {Null}
       /\ \A m \in Behind(n) \ out : m = link[n].to \/ m \in Behind(link[n].to)
  /\ \A n \in ItemSet \cup {Root} : link[n].to \notin out

(* What a call is, and where. *)
CallInv(t) ==
  /\ pc[t] \in Insertion => op[t] = "insert" /\ arg[t] \in Nodes \ Ordered
  /\ pc[t] \in Steps \ Insertion =>
       op[t] # "insert" /\ <<op[t], arg[t]>> \in May[t]
  /\ pc[t] \in AtNode \ {"visit"} =>
       op[t] \in Removers /\ (op[t] # "remove_front" => Data[cur[t].to] = arg[t])

(* A tag belongs to a removed node or to one that is being removed. *)
TagInv ==
  /\ ~link[Root].tag
  /\ \A n \in Nodes : link[n].tag =>
       n \in out \/ \E t \in Threads : pc[t] \in Holding /\ cur[t].to = n

(* What a thread knows of the node it is at. *)
HoldInv(t) ==
  /\ cur[t].tag => op[t] = "walk" /\ pc[t] = "visit"
  /\ ~found[t].tag
  /\ pc[t] \in Holding \cup {"mark"} => ~nxt[t].tag
  /\ pc[t] \in Holding =>
       cur[t].to \in ItemSet /\ link[cur[t].to] = Tagged(nxt[t])
  /\ pc[t] = "take" => cur[t].to \in out

(* Two threads have not the same node to insert, to remove or to take. *)
ApartInv ==
  \A t, u \in Threads :
    /\ pc[t] \in Insertion /\ pc[u] \in Insertion /\ arg[t] = arg[u] => t = u
    /\ pc[t] \in Holding /\ pc[u] \in Holding /\ cur[t].to = cur[u].to => t = u
    /\ pc[t] = "take" /\ pc[u] = "take" /\ cur[t].to = cur[u].to => t = u

ListInv ==
  /\ ListTypes /\ OrderInv /\ LinkInv /\ TagInv /\ ApartInv
  /\ \A t \in Threads : CallInv(t) /\ HoldInv(t)

(* A removed node keeps its tag. *)
OutTagged == \A n \in out : link[n].tag

(* The links lead from F to F only, so that the thread stays there. *)
Within(t, F) ==
  /\ ItemSet \subseteq F /\ F \subseteq Ordered
  /\ \A n \in F : link[n].to \in F \cup {Null}
  /\ prev[t] \in IF pc[t] \in AtNode THEN F \cup {Root} ELSE {Root}
  /\ pc[t] \in AtNode => cur[t].to \in F
  /\ pc[t] = "unmark" /\ op[t] = "remove_front" => found[t].to \in F \cup {Null}
  /\ op[t] = "remove_with" /\ pc[t] \in AtNode \ {"take"} =>
       \A n \in F \cap out : Data[n] # arg[t]

(* A walk is before the nodes it has still to meet. *)
OwedInv ==
  \A t \in Threads :
    IF op[t] = "walk" /\ pc[t] = "visit"
    THEN owed[t] \subseteq ItemSet \cap Behind(cur[t].to)
    ELSE owed[t] = {}
-----------------------------------------------------------------------------
(* The order of the insertions. *)

LEMMA OrderFacts ==
  ASSUME ListTypes
  PROVE  /\ Len(order) \in Nat /\ DOMAIN order = 1..Len(order)
         /\ Ordered \subseteq Nodes /\ Root \notin Ordered /\ Null \notin Ordered
         /\ Behind(Root) = Ordered /\ Behind(Null) = {}
         /\ \A n : Behind(n) \subseteq Ordered
  <1>1. order \in Seq(Nodes)
    BY DEF ListTypes
  <1>2. Len(order) \in Nat /\ DOMAIN order = 1..Len(order)
    BY <1>1
  <1>3. Ordered \subseteq Nodes /\ Root \notin Ordered /\ Null \notin Ordered
    BY <1>1, <1>2, ListAssumption DEF Ordered
  <1>4. /\ Behind(Root) = Ordered
        /\ \A n : Behind(n) \subseteq Ordered
    BY DEF Behind, Ordered
  <1>5. Behind(Null) = {}
    <2>1. \A k \in DOMAIN order : \A i \in 1..k - 1 : i \in DOMAIN order
      BY <1>2
    <2> QED BY <1>3, <2>1, ListAssumption DEF Behind, Ordered
  <1> QED BY <1>2, <1>3, <1>4, <1>5

(* Behind is a strict total order, Root comes first. *)
LEMMA BehindIsOrder ==
  ASSUME ListTypes, OrderInv
  PROVE  /\ \A n : n \notin Behind(n)
         /\ \A l, m, n : m \in Behind(n) /\ l \in Behind(m) => l \in Behind(n)
         /\ \A m, n \in Ordered \cup {Root} :
              m = n \/ m \in Behind(n) \/ n \in Behind(m)
  <1>0. /\ Len(order) \in Nat /\ DOMAIN order = 1..Len(order)
        /\ Root \notin Ordered /\ Behind(Root) = Ordered
        /\ \A n : Behind(n) \subseteq Ordered
    BY OrderFacts
  <1>1. \A m, n : n # Root =>
          (m \in Behind(n) <=>
             \E i, k \in 1..Len(order) : i < k /\ order[i] = n /\ order[k] = m)
    <2> SUFFICES ASSUME NEW m, NEW n, n # Root
                 PROVE  m \in Behind(n) <=>
                          \E i, k \in 1..Len(order) :
                            i < k /\ order[i] = n /\ order[k] = m
      OBVIOUS
    <2>1. m \in Behind(n) <=>
            \E k \in DOMAIN order :
              m = order[k] /\ \E i \in 1..k - 1 : order[i] = n
      BY DEF Behind
    <2>2. \A k \in 1..Len(order) : 1..k - 1 = {i \in 1..Len(order) : i < k}
      BY <1>0
    <2> QED BY <1>0, <2>1, <2>2
  <1>2. \A i, j \in 1..Len(order) : order[i] = order[j] => i = j
    BY <1>0 DEF OrderInv
  <1>3. \A n : n \notin Behind(n)
    <2>1. \A n : n # Root => n \notin Behind(n)
      BY <1>1, <1>2
    <2> QED BY <1>0, <2>1
  <1>4. ASSUME NEW l, NEW m, NEW n, m \in Behind(n), l \in Behind(m)
        PROVE  l \in Behind(n)
    <2>1. m # Root /\ l \in Ordered
      BY <1>0, <1>4
    <2>2. CASE n = Root
      BY <1>0, <2>1, <2>2
    <2>3. CASE n # Root
      <3>1. PICK i, k \in 1..Len(order) : i < k /\ order[i] = n /\ order[k] = m
        BY <1>1, <1>4, <2>3
      <3>2. PICK j, h \in 1..Len(order) : j < h /\ order[j] = m /\ order[h] = l
        BY <1>1, <1>4, <2>1
      <3>3. i < h
        BY <1>0, <1>2, <3>1, <3>2
      <3> QED BY <1>1, <2>3, <3>1, <3>2, <3>3
    <2> QED BY <2>2, <2>3
  <1>5. ASSUME NEW m \in Ordered \cup {Root}, NEW n \in Ordered \cup {Root}
        PROVE  m = n \/ m \in Behind(n) \/ n \in Behind(m)
    <2>1. CASE m = Root \/ n = Root
      BY <1>0, <2>1
    <2>2. CASE m # Root /\ n # Root
      <3>1. PICK i, k \in 1..Len(order) : order[i] = n /\ order[k] = m
        BY <1>0, <2>2 DEF Ordered
      <3>2. i < k \/ i = k \/ k < i
        BY <1>0
      <3> QED BY <1>1, <2>2, <3>1, <3>2
    <2> QED BY <2>1, <2>2
  <1> QED BY <1>3, <1>4, <1>5

(* A new node is in front of all others and changes nothing among them. *)
LEMMA BehindInserted ==
  ASSUME ListTypes, OrderInv, NEW a \in Nodes \ Ordered,
         order' = <<a>> \o order
  PROVE  /\ order' \in Seq(Nodes)
         /\ \A i, j \in DOMAIN order' : order'[i] = order'[j] => i = j
         /\ Ordered' = Ordered \cup {a}
         /\ Behind(a)' = Ordered
         /\ Behind(Root)' = Ordered'
         /\ \A n \in Ordered : Behind(n)' = Behind(n)
  <1>0. /\ Len(order) \in Nat /\ DOMAIN order = 1..Len(order)
        /\ Root \notin Ordered /\ Root # a
    BY OrderFacts, ListAssumption
  <1>1. order \in Seq(Nodes)
    BY DEF ListTypes
  <1>2. /\ order' \in Seq(Nodes)
        /\ DOMAIN order' = 1..Len(order) + 1
        /\ order'[1] = a
        /\ \A i \in 1..Len(order) : order'[i + 1] = order[i]
    BY <1>1, <1>0
  <1>3. \A i \in 1..Len(order) + 1 :
          i = 1 \/ \E j \in 1..Len(order) : i = j + 1
    <2> SUFFICES ASSUME NEW i \in 1..Len(order) + 1, i # 1
                 PROVE  \E j \in 1..Len(order) : i = j + 1
      OBVIOUS
    <2>1. i - 1 \in 1..Len(order) /\ i = (i - 1) + 1
      BY <1>0
    <2> QED BY <2>1
  <1>4. \A i \in 1..Len(order) : order[i] \in Ordered /\ order[i] # a
    BY <1>0 DEF Ordered
  <1>5. Ordered' = Ordered \cup {a}
    <2>1. Ordered' = {order'[i] : i \in 1..Len(order) + 1}
      BY <1>2 DEF Ordered
    <2>2. Ordered = {order[i] : i \in 1..Len(order)}
      BY <1>0 DEF Ordered
    <2>3. 1 \in 1..Len(order) + 1
      BY <1>0
    <2>4. \A j \in 1..Len(order) : j + 1 \in 1..Len(order) + 1
      BY <1>0
    <2>5. Ordered' \subseteq Ordered \cup {a}
      BY <1>2, <1>3, <2>1, <2>2
    <2>6. a \in Ordered'
      BY <1>2, <2>1, <2>3
    <2>7. \A j \in 1..Len(order) : order[j] \in Ordered'
      <3>1. ASSUME NEW j \in 1..Len(order) PROVE order[j] \in Ordered'
        <4>1. order[j] = order'[j + 1] /\ j + 1 \in 1..Len(order) + 1
          BY <1>2, <2>4
        <4> QED BY <2>1, <4>1
      <3> QED BY <3>1
    <2>8. Ordered \subseteq Ordered'
      BY <2>2, <2>7
    <2> QED BY <2>5, <2>6, <2>8
  <1>6. \A i, j \in DOMAIN order' : order'[i] = order'[j] => i = j
    BY <1>0, <1>2, <1>3, <1>4 DEF OrderInv
  <1>7. \A n : Behind(n)' =
          {order'[j] : j \in {k \in 1..Len(order) + 1 :
                        n = Root \/ \E i \in 1..k - 1 : order'[i] = n}}
    BY <1>2 DEF Behind
  <1>8. \A n : n # Root => \A m : m \in Behind(n)' <=>
          \E k \in 1..Len(order) :
            order[k] = m /\ (n = a \/ \E i \in 1..k - 1 : order[i] = n)
    <2> SUFFICES ASSUME NEW n, n # Root, NEW m
                 PROVE  m \in Behind(n)' <=>
                          \E k \in 1..Len(order) :
                            order[k] = m
                              /\ (n = a \/ \E i \in 1..k - 1 : order[i] = n)
      OBVIOUS
    <2>1. m \in Behind(n)' <=>
            \E k \in 1..Len(order) + 1 :
              order'[k] = m /\ \E i \in 1..k - 1 : order'[i] = n
      BY <1>7
    <2>2. ~\E i \in 1..1 - 1 : order'[i] = n
      OBVIOUS
    <2>3. \A k \in 1..Len(order) :
            (\E i \in 1..(k + 1) - 1 : order'[i] = n)
              <=> (n = a \/ \E i \in 1..k - 1 : order[i] = n)
      <3> SUFFICES ASSUME NEW k \in 1..Len(order)
                   PROVE  (\E i \in 1..(k + 1) - 1 : order'[i] = n)
                            <=> (n = a \/ \E i \in 1..k - 1 : order[i] = n)
        OBVIOUS
      <3>1. ASSUME NEW i \in 1..(k + 1) - 1, order'[i] = n
            PROVE  n = a \/ \E j \in 1..k - 1 : order[j] = n
        <4>1. i \in 1..Len(order) + 1
          BY <1>0
        <4>2. CASE i = 1
          BY <1>2, <3>1, <4>2
        <4>3. CASE i # 1
          <5>1. PICK j \in 1..Len(order) : i = j + 1
            BY <1>3, <4>1, <4>3
          <5>2. j \in 1..k - 1
            BY <1>0, <5>1
          <5> QED BY <1>2, <3>1, <5>1, <5>2
        <4> QED BY <4>2, <4>3
      <3>2. n = a => \E i \in 1..(k + 1) - 1 : order'[i] = n
        <4>1. 1 \in 1..(k + 1) - 1
          BY <1>0
        <4> QED BY <1>2, <4>1
      <3>3. ASSUME NEW i \in 1..k - 1, order[i] = n
            PROVE  \E j \in 1..(k + 1) - 1 : order'[j] = n
        <4>1. i \in 1..Len(order) /\ i + 1 \in 1..(k + 1) - 1
          BY <1>0
        <4> QED BY <1>2, <3>3, <4>1
      <3> QED BY <3>1, <3>2, <3>3
    <2>4. \A k \in 1..Len(order) : k + 1 \in 1..Len(order) + 1
      BY <1>0
    <2>5. ASSUME NEW k \in 1..Len(order) + 1, order'[k] = m,
                 \E i \in 1..k - 1 : order'[i] = n
          PROVE  \E j \in 1..Len(order) :
                   order[j] = m /\ (n = a \/ \E i \in 1..j - 1 : order[i] = n)
      <3>1. PICK j \in 1..Len(order) : k = j + 1
        BY <1>3, <2>2, <2>5
      <3> QED BY <1>2, <2>3, <2>5, <3>1
    <2>6. ASSUME NEW j \in 1..Len(order), order[j] = m,
                 n = a \/ \E i \in 1..j - 1 : order[i] = n
          PROVE  \E k \in 1..Len(order) + 1 :
                   order'[k] = m /\ \E i \in 1..k - 1 : order'[i] = n
      <3>1. order'[j + 1] = m /\ \E i \in 1..(j + 1) - 1 : order'[i] = n
        BY <1>2, <2>3, <2>6
      <3> QED BY <2>4, <3>1
    <2> QED BY <2>1, <2>5, <2>6
  <1>9. Behind(a)' = Ordered
    <2>1. \A m : m \in Behind(a)' <=> m \in Ordered
      BY <1>0, <1>8 DEF Ordered
    <2> QED BY <2>1
  <1>10. Behind(Root)' = Ordered'
    BY DEF Behind, Ordered
  <1>11. ASSUME NEW n \in Ordered PROVE Behind(n)' = Behind(n)
    <2>1. n # Root /\ n # a
      BY <1>0
    <2>2. \A m : m \in Behind(n) <=>
            \E k \in 1..Len(order) :
              order[k] = m /\ \E i \in 1..k - 1 : order[i] = n
      BY <1>0, <2>1 DEF Behind
    <2>3. \A m : m \in Behind(n)' <=> m \in Behind(n)
      BY <1>8, <2>1, <2>2
    <2> QED BY <2>3
  <1> QED BY <1>2, <1>5, <1>6, <1>9, <1>10, <1>11
-----------------------------------------------------------------------------
(* What the steps do to the chain of links. *)

(* Removed nodes keep their links, nodes their places. *)
ChainStep ==
  /\ OrderInv' /\ LinkInv'
  /\ Ordered \subseteq Ordered' /\ out \subseteq out'
  /\ ItemSet' \cap Ordered \subseteq ItemSet
  /\ \A n \in Ordered : Behind(n)' = Behind(n)
  /\ \A n \in Ordered \cap out' : link'[n].to = link[n].to

LEMMA ChainSame ==
  ASSUME ListTypes, OrderInv, LinkInv, UNCHANGED <<order, out>>,
         \A n \in Ordered \cup {Root} : link'[n].to = link[n].to
  PROVE  ChainStep
  <1>1. /\ Ordered' = Ordered /\ ItemSet' = ItemSet
        /\ \A n : Behind(n)' = Behind(n)
    BY DEF Ordered, ItemSet, Behind
  <1>2. ItemSet \subseteq Ordered
    BY DEF ItemSet
  <1>3. OrderInv'
    BY <1>1 DEF OrderInv
  <1>4. LinkInv'
    BY <1>1, <1>2 DEF LinkInv
  <1> QED BY <1>1, <1>3, <1>4 DEF ChainStep

LEMMA ChainInsert ==
  ASSUME ListTypes, OrderInv, LinkInv, NEW a \in Nodes \ Ordered, NEW l \in Link,
         l.to = link[Root].to,
         link' = [link EXCEPT ![a] = l, ![Root] = To(a)],
         order' = <<a>> \o order, out' = out
  PROVE  ChainStep
  <1>0. /\ Ordered' = Ordered \cup {a} /\ Behind(a)' = Ordered
        /\ Behind(Root)' = Ordered' /\ Behind(Root) = Ordered
        /\ \A n \in Ordered : Behind(n)' = Behind(n)
        /\ \A i, j \in DOMAIN order' : order'[i] = order'[j] => i = j
        /\ Ordered \subseteq Nodes /\ Root \notin Ordered /\ Null \notin Ordered
        /\ Root \notin Nodes /\ Null \notin Nodes
    BY BehindInserted, OrderFacts, ListAssumption
  <1>1. /\ link'[a] = l /\ link'[Root].to = a
        /\ \A n \in Ordered : link'[n] = link[n]
    BY <1>0 DEF ListTypes, To
  <1>2. OrderInv'
    BY <1>0 DEF OrderInv
  <1>3. ItemSet' = ItemSet \cup {a} /\ ItemSet \subseteq Ordered /\ a \notin out
    BY <1>0 DEF ItemSet, OrderInv
  <1>4. ASSUME NEW n \in Ordered' \cup {Root}, NEW x, x = link'[n].to
        PROVE  /\ x \in Behind(n)' \cup {Null}
               /\ \A m \in Behind(n)' \ out : m = x \/ m \in Behind(x)'
    <2>1. CASE n = Root
      <3>1. x = a /\ Behind(n)' = Ordered \cup {a} /\ Behind(x)' = Ordered
        BY <1>0, <1>1, <1>4, <2>1
      <3> QED BY <3>1
    <2>2. ASSUME NEW y \in Ordered \cup {Root}, x = link[y].to,
                 Behind(n)' = Behind(y)
          PROVE  /\ x \in Behind(n)' \cup {Null}
                 /\ \A m \in Behind(n)' \ out : m = x \/ m \in Behind(x)'
      <3>1. /\ x \in Behind(y) \cup {Null}
            /\ \A m \in Behind(y) \ out : m = x \/ m \in Behind(x)
        BY <2>2 DEF LinkInv
      <3>2. CASE x = Null
        BY <2>2, <3>1, <3>2, OrderFacts
      <3>3. CASE x # Null
        <4>1. x \in Ordered
          BY <3>1, <3>3, OrderFacts
        <4>2. Behind(x)' = Behind(x)
          BY <1>0, <4>1
        <4> QED BY <2>2, <3>1, <4>2
      <3> QED BY <3>2, <3>3
    <2>3. CASE n = a
      <3>1. Behind(n)' = Behind(Root) /\ x = link[Root].to
        BY <1>0, <1>1, <1>4, <2>3
      <3> QED BY <2>2, <3>1
    <2>4. CASE n \in Ordered
      <3>1. Behind(n)' = Behind(n) /\ x = link[n].to
        BY <1>0, <1>1, <1>4, <2>4
      <3> QED BY <2>2, <2>4, <3>1
    <2> QED BY <1>0, <2>1, <2>3, <2>4
  <1>5. ASSUME NEW n \in ItemSet' \cup {Root} PROVE link'[n].to \notin out
    <2>1. n = a \/ n = Root \/ n \in ItemSet
      BY <1>3
    <2> QED BY <1>1, <1>3, <2>1 DEF LinkInv
  <1>6. LinkInv'
    BY <1>4, <1>5 DEF LinkInv
  <1> QED BY <1>0, <1>1, <1>2, <1>3, <1>6 DEF ChainStep

(* Only one node of the list leads to another. *)
LEMMA OneLeadsTo ==
  ASSUME ListTypes, OrderInv, LinkInv, NEW c \in ItemSet,
         NEW m \in ItemSet \cup {Root}, NEW n \in ItemSet \cup {Root},
         link[m].to = c, link[n].to = c
  PROVE  m = n
  <1>1. ASSUME NEW x \in ItemSet \cup {Root}, NEW y \in ItemSet \cup {Root},
               link[x].to = c, link[y].to = c, y \in Behind(x)
        PROVE  FALSE
    <2>1. y \in ItemSet /\ x \in Ordered \cup {Root} /\ y \in Ordered \cup {Root}
      BY <1>1, OrderFacts DEF ItemSet
    <2>2. c \in Behind(y)
      <3>1. c # Null
        BY OrderFacts DEF ItemSet
      <3> QED BY <1>1, <2>1, <3>1 DEF LinkInv
    <2>3. y = c \/ y \in Behind(c)
      BY <1>1, <2>1 DEF LinkInv, ItemSet
    <2> QED BY <2>2, <2>3, BehindIsOrder
  <1>2. m = n \/ m \in Behind(n) \/ n \in Behind(m)
    BY BehindIsOrder DEF ItemSet
  <1> QED BY <1>1, <1>2

LEMMA ChainUnlink ==
  ASSUME ListTypes, OrderInv, LinkInv, NEW p \in ItemSet \cup {Root},
         NEW c \in Nodes, link[p].to = c, NEW l \in Link, l.to = link[c].to,
         link' = [link EXCEPT ![p] = l], out' = out \cup {c}, order' = order
  PROVE  ChainStep /\ c \in ItemSet /\ p # c
  <1>0. /\ Ordered' = Ordered /\ \A n : Behind(n)' = Behind(n)
        /\ ItemSet' = ItemSet \ {c} /\ ItemSet \subseteq Ordered
        /\ Ordered \subseteq Nodes /\ Root \notin Ordered
        /\ Root \notin Nodes /\ Null \notin Nodes
        /\ \A n : Behind(n) \subseteq Ordered
    BY OrderFacts, ListAssumption DEF Ordered, Behind, ItemSet
  <1>1. c \in ItemSet /\ c \in Behind(p) /\ p # c
    <2>1. c \in Behind(p) /\ c \notin out
      BY <1>0 DEF LinkInv
    <2> QED BY <1>0, <2>1, BehindIsOrder DEF ItemSet
  <1>2. link'[p] = l /\ \A n \in (Ordered \cup {Root}) \ {p} : link'[n] = link[n]
    BY <1>0 DEF ListTypes
  <1>3. OrderInv'
    BY <1>0, <1>1 DEF OrderInv
  <1>4. ASSUME NEW n \in Ordered \cup {Root}
        PROVE  /\ link'[n].to \in Behind(n) \cup {Null}
               /\ \A m \in Behind(n) \ out' :
                    m = link'[n].to \/ m \in Behind(link'[n].to)
    <2>1. CASE n # p
      BY <1>2, <2>1 DEF LinkInv
    <2>2. CASE n = p
      <3>1. l.to \in Behind(c) \cup {Null}
        BY <1>0, <1>1 DEF LinkInv
      <3>2. l.to \in Behind(p) \cup {Null}
        BY <1>1, <3>1, BehindIsOrder
      <3>3. ASSUME NEW m \in Behind(p) \ out'
            PROVE  m = l.to \/ m \in Behind(l.to)
        <4>1. m \in Behind(p) \ out /\ m # c
          OBVIOUS
        <4>2. m \in Behind(c)
          BY <1>0, <4>1 DEF LinkInv
        <4> QED BY <1>0, <1>1, <4>1, <4>2 DEF LinkInv
      <3> QED BY <1>2, <2>2, <3>2, <3>3
    <2> QED BY <2>1, <2>2
  <1>5. ASSUME NEW n \in ItemSet' \cup {Root} PROVE link'[n].to \notin out'
    <2>1. n \in ItemSet \cup {Root}
      BY <1>0
    <2>2. CASE n # p
      <3>1. link'[n] = link[n] /\ link[n].to # c
        BY <1>0, <1>1, <1>2, <2>1, <2>2, OneLeadsTo
      <3> QED BY <2>1, <3>1 DEF LinkInv
    <2>3. CASE n = p
      <3>1. l.to \notin out
        BY <1>1 DEF LinkInv
      <3>2. l.to # c
        BY <1>0, <1>1, BehindIsOrder DEF LinkInv
      <3> QED BY <1>2, <2>3, <3>1, <3>2
    <2> QED BY <2>2, <2>3
  <1>6. LinkInv'
    BY <1>0, <1>4, <1>5 DEF LinkInv
  <1>7. \A n \in Ordered \cap out' : n # p
    BY <1>0, <1>1 DEF ItemSet
  <1> QED BY <1>0, <1>1, <1>2, <1>3, <1>6, <1>7 DEF ChainStep
-----------------------------------------------------------------------------
(* The steps that all lists have. *)
Moving(t) ==
  Inserting(t) \/ Searching(t) \/ Unlinking(t) \/ Take(t) \/ Calling(t)

(* Where the thread looks and what it has loaded. *)
Places(t, p, c, x, f) ==
  /\ prev' = [prev EXCEPT ![t] = p] /\ cur' = [cur EXCEPT ![t] = c]
  /\ nxt' = [nxt EXCEPT ![t] = x] /\ found' = [found EXCEPT ![t] = f]

(* The ways an operation that looks for a node goes on. *)
Ends(t) ==
  /\ pc' = [pc EXCEPT ![t] = "return"]
  /\ Places(t, Root, To(Null), To(Null), To(Null))
Rewinds(t) ==
  /\ pc' = [pc EXCEPT ![t] = "head"]
  /\ Places(t, Root, To(Null), To(Null), To(Null))
Goes(t) ==
  LET l == link[cur[t].to]
  IN  /\ l.to # Null /\ pc' = pc
      /\ Places(t, cur[t].to, To(l.to), nxt[t], found[t])
Aims(t, l) ==
  /\ pc' = [pc EXCEPT ![t] = "mark"]
  /\ Places(t, prev[t], cur[t], l, found[t])

LEMMA CallShape ==
  ASSUME NEW c \in Calls, c[1] # "insert"
  PROVE  /\ c = <<c[1], c[2]>> /\ c[1] \in Ops \ {"insert", "none"}
         /\ c[2] \in Values \cup {Null}
         /\ c[1] = "remove_front" => c[2] = Null
  BY DEF Calls, Inserts, Plain, ByKey, Ops

LEMMA WaysOn ==
  ASSUME ListTypes, NEW t \in Threads
  PROVE  /\ \A r : Finish(t, r) => Ends(t)
         /\ Restart(t) => Rewinds(t)
         /\ \A r : Follow(t, r) => Ends(t) \/ Goes(t)
         /\ \A l : Aim(t, l) => Aims(t, l)
  <1>1. \A r : Finish(t, r) => Ends(t)
    BY DEF Finish, Ends, Places, Goto
  <1>2. Restart(t) => Rewinds(t)
    BY DEF Restart, Rewinds, Places, Goto
  <1>3. \A r : Follow(t, r) => Ends(t) \/ Goes(t)
    BY <1>1 DEF Follow, Goes, Places, ListTypes
  <1>4. \A l : Aim(t, l) => Aims(t, l)
    BY DEF Aim, Aims, Places, Goto, ListTypes
  <1> QED BY <1>1, <1>2, <1>3, <1>4

(* A step of a walk, whatever it is for. *)
Visiting(t) ==
  /\ pc[t] = "visit" /\ UNCHANGED <<link, op, arg, order, out>>
  /\ \/ Ends(t) \/ Rewinds(t) \/ Goes(t)
     \/ \E l \in Link :
          /\ Aims(t, l) /\ l.to = link[cur[t].to].to
          /\ op[t] \in Removers
          /\ op[t] # "remove_front" => Data[cur[t].to] = arg[t]
          /\ l.tag => op[t] = "remove_with" /\ link[cur[t].to].tag

LEMMA Visits ==
  ASSUME ListTypes, NEW t \in Threads, cur[t].to \in Nodes,
         VisitFront(t) \/ VisitRemove(t) \/ VisitRemoveWith(t)
           \/ VisitContains(t) \/ VisitAll(t)
  PROVE  Visiting(t)
  <1>1. PICK l \in Link : l = link[cur[t].to]
    BY DEF ListTypes
  <1>2. Untagged(l) \in Link /\ Untagged(l).to = l.to /\ ~Untagged(l).tag
    BY DEF Untagged, Link
  <1>3. Hit(t) => Data[cur[t].to] = arg[t]
    BY DEF Hit
  <1>4. CASE VisitFront(t)
    <2>1. Rewinds(t) \/ (~l.tag /\ Aims(t, l))
      BY <1>1, <1>4, WaysOn DEF VisitFront, CurTagged
    <2> QED BY <1>1, <1>4, <2>1 DEF VisitFront, Visiting, Removers
  <1>5. CASE VisitRemove(t)
    <2>1. \/ Hit(t) /\ Aims(t, Untagged(l))
          \/ Ends(t) \/ Rewinds(t) \/ Goes(t)
      BY <1>1, <1>5, WaysOn DEF VisitRemove
    <2> QED BY <1>1, <1>2, <1>3, <1>5, <2>1 DEF VisitRemove, Visiting, Removers
  <1>6. CASE VisitRemoveWith(t)
    <2>1. \/ Hit(t) /\ Aims(t, l)
          \/ Ends(t) \/ Goes(t)
      BY <1>1, <1>6, WaysOn DEF VisitRemoveWith
    <2> QED BY <1>1, <1>3, <1>6, <2>1 DEF VisitRemoveWith, Visiting, Removers
  <1>7. CASE VisitContains(t)
    <2>1. Ends(t) \/ Rewinds(t) \/ Goes(t)
      BY <1>7, WaysOn DEF VisitContains
    <2> QED BY <1>7, <2>1 DEF VisitContains, Visiting
  <1>8. CASE VisitAll(t)
    <2>1. Ends(t) \/ Goes(t)
      BY <1>8, WaysOn DEF VisitAll
    <2> QED BY <1>8, <2>1 DEF VisitAll, Visiting
  <1> QED BY <1>4, <1>5, <1>6, <1>7, <1>8
-----------------------------------------------------------------------------
(* What a thread does leaves the others where they are. *)
Others(t) ==
  \A u \in Threads \ {t} :
    /\ pc'[u] = pc[u] /\ op'[u] = op[u] /\ arg'[u] = arg[u]
    /\ prev'[u] = prev[u] /\ cur'[u] = cur[u]
    /\ nxt'[u] = nxt[u] /\ found'[u] = found[u]

(* The step of one thread, seen by the others: it has not their node.      *)
Respects(t, u) ==
  /\ pc[u] \in Insertion =>
       arg[u] \notin Ordered' /\ (pc'[t] \in Insertion => arg'[t] # arg[u])
  /\ pc[u] \in Holding =>
       /\ cur[u].to \notin out' /\ link'[cur[u].to] = link[cur[u].to]
       /\ pc'[t] \in Holding => cur'[t].to # cur[u].to
  /\ pc[u] = "take" /\ pc'[t] = "take" => cur'[t].to # cur[u].to

LEMMA Assembled ==
  ASSUME ListInv, NEW t \in Threads, Others(t), ListTypes', ChainStep, TagInv',
         CallInv(t)', HoldInv(t)',
         \A u \in Threads \ {t} : Respects(t, u)
  PROVE  ListInv'
  <1>0. /\ OrderInv' /\ LinkInv' /\ Ordered \subseteq Ordered' /\ out \subseteq out'
    BY DEF ChainStep
  <1>1. ASSUME NEW u \in Threads \ {t} PROVE CallInv(u)' /\ HoldInv(u)'
    <2>1. CallInv(u) /\ HoldInv(u) /\ Respects(t, u)
      BY DEF ListInv
    <2>2. CallInv(u)'
      BY <2>1 DEF Others, CallInv, Respects
    <2>a. /\ pc'[u] = pc[u] /\ op'[u] = op[u] /\ cur'[u] = cur[u]
          /\ nxt'[u] = nxt[u] /\ found'[u] = found[u]
      BY DEF Others
    <2>b. Tagged(nxt[u])' = Tagged(nxt[u])
      BY <2>a DEF Tagged
    <2>c. pc[u] \in Holding =>
            /\ cur[u].to \in ItemSet' /\ link'[cur[u].to] = Tagged(nxt[u])
      BY <1>0, <2>1 DEF HoldInv, Respects, ItemSet
    <2>3. HoldInv(u)'
      BY <1>0, <2>1, <2>a, <2>b, <2>c DEF HoldInv
    <2> QED BY <2>2, <2>3
  <1>2. ApartInv'
    BY DEF ListInv, ApartInv, Others, Respects
  <1> QED BY <1>0, <1>1, <1>2 DEF ListInv

(* A set of nodes that links do not lead out of stays one. *)
LEMMA ClosedSet ==
  ASSUME ListInv, ListInv', ChainStep, NEW F \in SUBSET Ordered,
         \A n \in F : link[n].to \in F \cup {Null},
         NEW G, G = F \cup ItemSet'
  PROVE  /\ ItemSet' \subseteq G /\ G \subseteq Ordered'
         /\ \A n \in G : link'[n].to \in G \cup {Null}
  <1>1. ItemSet' \subseteq Ordered' /\ Ordered \subseteq Ordered'
    BY DEF ItemSet, ChainStep
  <1>2. ASSUME NEW n \in ItemSet' PROVE link'[n].to \in ItemSet' \cup {Null}
    <2>1. link'[n].to \notin out' /\ link'[n].to \in Behind(n)' \cup {Null}
      BY DEF ListInv, LinkInv, ItemSet
    <2>2. Behind(n)' \subseteq Ordered'
      BY DEF Behind, Ordered
    <2> QED BY <2>1, <2>2 DEF ItemSet
  <1>3. ASSUME NEW n \in F, n \notin ItemSet' PROVE link'[n].to \in F \cup {Null}
    <2>1. n \in Ordered \cap out'
      BY <1>1, <1>3 DEF ItemSet
    <2> QED BY <2>1 DEF ChainStep
  <1> QED BY <1>1, <1>2, <1>3

LEMMA WithinKept ==
  ASSUME ListInv, ListInv', ChainStep, NEW u \in Threads, NEW F, Within(u, F),
         pc'[u] = pc[u], op'[u] = op[u], arg'[u] = arg[u], prev'[u] = prev[u],
         cur'[u] = cur[u], found'[u] = found[u],
         op[u] = "remove_with" /\ pc[u] \in AtNode \ {"take"} =>
           \A n \in out' \ out : Data[n] # arg[u]
  PROVE  \E G \in SUBSET (F \cup ItemSet') : Within(u, G)'
  <1>1. PICK G : G = F \cup ItemSet'
    OBVIOUS
  <1>2. /\ ItemSet' \subseteq G /\ G \subseteq Ordered'
        /\ \A n \in G : link'[n].to \in G \cup {Null}
    BY <1>1, ClosedSet DEF Within
  <1>3. \A n \in G \cap out' : n \in F
    BY <1>1 DEF ItemSet
  <1>4. Within(u, G)'
    BY <1>1, <1>2, <1>3 DEF Within
  <1> QED BY <1>1, <1>4

(* The same for a thread that stays at its node. *)
LEMMA WithinMoved ==
  ASSUME ListInv, ListInv', ChainStep, NEW t \in Threads, NEW F, Within(t, F),
         pc[t] \in AtNode \ {"take"}, pc'[t] \in AtNode,
         op'[t] = op[t], arg'[t] = arg[t], prev'[t] = prev[t], cur'[t] = cur[t],
         pc'[t] = "unmark" /\ op[t] = "remove_front" =>
           found'[t].to \in ItemSet' \cup {Null},
         pc'[t] = "take" \/ out' = out
  PROVE  \E G \in SUBSET (F \cup ItemSet') : Within(t, G)'
  <1>1. PICK G : G = F \cup ItemSet'
    OBVIOUS
  <1>2. /\ ItemSet' \subseteq G /\ G \subseteq Ordered'
        /\ \A n \in G : link'[n].to \in G \cup {Null}
    BY <1>1, ClosedSet DEF Within
  <1>3. \A n \in G \cap out' : n \in F
    BY <1>1 DEF ItemSet
  <1>4. Within(t, G)'
    BY <1>1, <1>2, <1>3 DEF Within
  <1> QED BY <1>1, <1>4

(* Who starts at the head is among the nodes of the list. *)
LEMMA WithinFresh ==
  ASSUME ListInv', NEW u \in Threads, NEW F, prev'[u] = Root,
         pc'[u] # "unmark",
         pc'[u] \in AtNode => cur'[u].to \in ItemSet'
  PROVE  \E G \in SUBSET (F \cup ItemSet') : Within(u, G)'
  <1>1. PICK G : G = ItemSet'
    OBVIOUS
  <1>2. ASSUME NEW n \in ItemSet' PROVE link'[n].to \in ItemSet' \cup {Null}
    <2>1. link'[n].to \notin out' /\ link'[n].to \in Behind(n)' \cup {Null}
      BY DEF ListInv, LinkInv, ItemSet
    <2>2. Behind(n)' \subseteq Ordered'
      BY DEF Behind, Ordered
    <2> QED BY <2>1, <2>2 DEF ItemSet
  <1>3. Within(u, G)'
    BY <1>1, <1>2 DEF Within, ItemSet
  <1> QED BY <1>1, <1>3
-----------------------------------------------------------------------------
AllWithin == \A t \in Threads : \E F \in SUBSET Nodes : Within(t, F)

(* A step adds to where a thread may get only what is in the list then. *)
StaysWithin(t) ==
  \A F \in SUBSET Nodes :
    Within(t, F) => \E G \in SUBSET (F \cup ItemSet') : Within(t, G)'

(* What every step keeps. *)
Kept(t) == ListInv' /\ OutTagged' /\ ChainStep /\ \A u \in Threads : StaysWithin(u)

LEMMA OthersStay ==
  ASSUME ListInv, ListInv', ChainStep, NEW t \in Threads, Others(t),
         NEW u \in Threads \ {t},
         op[u] = "remove_with" /\ pc[u] \in AtNode \ {"take"} =>
           \A n \in out' \ out : Data[n] # arg[u]
  PROVE  StaysWithin(u)
  BY WithinKept DEF StaysWithin, Others

(* A step that changes no link and no history. *)
LEMMA LocalChange ==
  ASSUME ListInv, OutTagged, NEW t \in Threads, Others(t), ListTypes',
         UNCHANGED <<link, order, out>>, CallInv(t)', HoldInv(t)',
         \A u \in Threads \ {t} :
           pc[u] \in Insertion /\ pc'[t] \in Insertion => arg'[t] # arg[u],
         pc'[t] \in Holding <=> pc[t] \in Holding,
         pc'[t] \in Holding => cur'[t].to = cur[t].to,
         pc'[t] # "take"
  PROVE  ListInv' /\ OutTagged' /\ ChainStep
  <1>1. ChainStep
    BY ChainSame DEF ListInv
  <1>2. Ordered' = Ordered /\ ItemSet' = ItemSet
    BY DEF Ordered, ItemSet
  <1>3. TagInv'
    <2>1. ~link'[Root].tag
      BY DEF ListInv, TagInv
    <2>2. ASSUME NEW n \in Nodes, link'[n].tag, n \notin out'
          PROVE  \E u \in Threads : pc'[u] \in Holding /\ cur'[u].to = n
      <3>1. PICK u \in Threads : pc[u] \in Holding /\ cur[u].to = n
        BY <2>2 DEF ListInv, TagInv
      <3> QED BY <3>1 DEF Others
    <2> QED BY <2>1, <2>2 DEF TagInv
  <1>4. ASSUME NEW u \in Threads \ {t} PROVE Respects(t, u)
    <2>1. CallInv(u) /\ HoldInv(u) /\ ApartInv
      BY DEF ListInv
    <2> QED BY <1>2, <2>1 DEF Respects, CallInv, HoldInv, ApartInv, ItemSet
  <1>5. ListInv'
    BY <1>1, <1>3, <1>4, Assembled
  <1>6. OutTagged'
    BY DEF OutTagged
  <1> QED BY <1>1, <1>5, <1>6

LEMMA LocalStep ==
  ASSUME ListInv, OutTagged, NEW t \in Threads, Others(t), ListTypes',
         UNCHANGED <<link, order, out>>, CallInv(t)', HoldInv(t)',
         \A u \in Threads \ {t} :
           pc[u] \in Insertion /\ pc'[t] \in Insertion => arg'[t] # arg[u],
         pc'[t] \in Holding <=> pc[t] \in Holding,
         pc'[t] \in Holding => cur'[t].to = cur[t].to,
         pc'[t] # "take", ListInv' => StaysWithin(t)
  PROVE  Kept(t)
  <1>1. ListInv' /\ OutTagged' /\ ChainStep
    BY LocalChange
  <1>2. \A u \in Threads \ {t} : StaysWithin(u)
    BY <1>1, OthersStay
  <1> QED BY <1>1, <1>2 DEF Kept

LEMMA PlacesTyped ==
  ASSUME ListTypes, NEW t \in Threads, NEW p \in Nodes \cup {Root},
         NEW c \in Link, NEW x \in Link, NEW f \in Link, Places(t, p, c, x, f)
  PROVE  /\ prev' \in [Threads -> Nodes \cup {Root}]
         /\ cur' \in [Threads -> Link] /\ nxt' \in [Threads -> Link]
         /\ found' \in [Threads -> Link]
         /\ prev'[t] = p /\ cur'[t] = c /\ nxt'[t] = x /\ found'[t] = f
         /\ \A u \in Threads \ {t} :
              /\ prev'[u] = prev[u] /\ cur'[u] = cur[u]
              /\ nxt'[u] = nxt[u] /\ found'[u] = found[u]
  BY DEF Places, ListTypes

(* The operation ends, or starts again at the head. *)
LEMMA Stopping ==
  ASSUME ListTypes, NEW t \in Threads, Ends(t) \/ Rewinds(t),
         UNCHANGED <<op, arg>>
  PROVE  /\ Others(t)
         /\ pc' \in [Threads -> Phase] /\ pc'[t] \in {"return", "head"}
         /\ Rewinds(t) => pc'[t] = "head"
         /\ prev' \in [Threads -> Nodes \cup {Root}]
         /\ cur' \in [Threads -> Link] /\ nxt' \in [Threads -> Link]
         /\ found' \in [Threads -> Link]
         /\ prev'[t] = Root /\ ~cur'[t].tag /\ ~found'[t].tag
  <1>1. To(Null) \in Link /\ ~To(Null).tag
    BY DEF To, Link
  <1>2. Places(t, Root, To(Null), To(Null), To(Null))
    BY DEF Ends, Rewinds
  <1>3. /\ prev' \in [Threads -> Nodes \cup {Root}]
        /\ cur' \in [Threads -> Link] /\ nxt' \in [Threads -> Link]
        /\ found' \in [Threads -> Link]
        /\ prev'[t] = Root /\ cur'[t] = To(Null) /\ found'[t] = To(Null)
        /\ \A u \in Threads \ {t} :
             /\ prev'[u] = prev[u] /\ cur'[u] = cur[u]
             /\ nxt'[u] = nxt[u] /\ found'[u] = found[u]
    BY <1>1, <1>2, PlacesTyped
  <1>4. /\ pc' \in [Threads -> Phase] /\ pc'[t] \in {"return", "head"}
        /\ Rewinds(t) => pc'[t] = "head"
        /\ \A u \in Threads \ {t} : pc'[u] = pc[u]
    BY DEF Ends, Rewinds, ListTypes, Phase, Steps
  <1> QED BY <1>1, <1>3, <1>4 DEF Others

LEMMA StopStep ==
  ASSUME ListInv, OutTagged, NEW t \in Threads, Ends(t) \/ Rewinds(t),
         UNCHANGED <<link, op, arg, order, out>>,
         pc[t] \notin Holding, Rewinds(t) => pc[t] \in Steps \ Insertion
  PROVE  Kept(t)
  <1>1. ListTypes /\ CallInv(t) /\ HoldInv(t)
    BY DEF ListInv
  <1>2. /\ Others(t)
        /\ pc' \in [Threads -> Phase] /\ pc'[t] \in {"return", "head"}
        /\ pc'[t] = "head" => Rewinds(t)
        /\ prev' \in [Threads -> Nodes \cup {Root}]
        /\ cur' \in [Threads -> Link] /\ nxt' \in [Threads -> Link]
        /\ found' \in [Threads -> Link]
        /\ prev'[t] = Root /\ ~cur'[t].tag /\ ~found'[t].tag
    BY <1>1, Stopping DEF Ends, ListTypes
  <1>3. ListTypes'
    BY <1>1, <1>2 DEF ListTypes
  <1>4. CallInv(t)' /\ HoldInv(t)'
    BY <1>1, <1>2 DEF CallInv, HoldInv, Insertion, AtNode, Holding, Steps
  <1>5. ListInv' => StaysWithin(t)
    BY <1>2, WithinFresh DEF StaysWithin, AtNode
  <1> QED BY <1>1, <1>2, <1>3, <1>4, <1>5, LocalStep DEF Holding, Insertion

(* Where a thread is: at a node that was inserted, or at the head. *)
LEMMA AtPlace ==
  ASSUME ListInv, AllWithin, NEW t \in Threads
  PROVE  /\ pc[t] \in AtNode => cur[t].to \in Ordered /\ cur[t].to \in Nodes
         /\ pc[t] \in AtNode => prev[t] \in Ordered \cup {Root}
         /\ pc[t] \notin AtNode => prev[t] = Root
  BY OrderFacts DEF AllWithin, Within, ListInv

(* What the steps need of that: the node itself only when it is removed.   *)
Placed(t) ==
  IF pc[t] \in AtNode
  THEN /\ prev[t] \in Ordered \cup {Root}
       /\ pc[t] # "visit" => cur[t].to \in Ordered
  ELSE prev[t] = Root

LEMMA PlacedWithin ==
  ASSUME ListInv, AllWithin, NEW t \in Threads
  PROVE  Placed(t)
  BY AtPlace DEF Placed

LEMMA LoadHeadStep ==
  ASSUME ListInv, OutTagged, AllWithin, NEW t \in Threads, LoadHead(t)
  PROVE  Kept(t)
  <1>1. ListTypes /\ CallInv(t) /\ HoldInv(t) /\ prev[t] = Root
    BY AtPlace DEF ListInv, LoadHead, AtNode
  <1>2. CASE link[Root].to = Null
    <2>1. Ends(t)
      BY <1>1, <1>2, WaysOn DEF LoadHead
    <2> QED BY <2>1, StopStep DEF LoadHead, Holding, Ends, Rewinds, Steps, Insertion
  <1>3. CASE link[Root].to # Null
    <2>1. PICK l \in Link : l = link[Root]
      BY <1>1 DEF ListTypes
    <2>2. /\ pc' = [pc EXCEPT ![t] = "visit"]
          /\ Places(t, Root, l, nxt[t], found[t])
      BY <1>1, <1>3, <2>1 DEF LoadHead, Goto, Places, ListTypes
    <2>3. /\ prev' \in [Threads -> Nodes \cup {Root}]
          /\ cur' \in [Threads -> Link] /\ nxt' \in [Threads -> Link]
          /\ found' \in [Threads -> Link]
          /\ prev'[t] = Root /\ cur'[t] = l /\ found'[t] = found[t]
          /\ \A u \in Threads \ {t} :
               /\ prev'[u] = prev[u] /\ cur'[u] = cur[u]
               /\ nxt'[u] = nxt[u] /\ found'[u] = found[u]
      <3>1. nxt[t] \in Link /\ found[t] \in Link
        BY <1>1 DEF ListTypes
      <3> QED BY <1>1, <2>2, <3>1 DEF Places, ListTypes
    <2>4. /\ pc' \in [Threads -> Phase] /\ pc'[t] = "visit"
          /\ \A u \in Threads \ {t} : pc'[u] = pc[u]
      BY <1>1, <2>2 DEF ListTypes, Phase, Steps
    <2>5. UNCHANGED <<link, op, arg, order, out>> /\ pc[t] = "head"
      BY DEF LoadHead
    <2>6. ListTypes' /\ Others(t)
      BY <1>1, <2>3, <2>4, <2>5 DEF ListTypes, Others
    <2>7. CallInv(t)' /\ HoldInv(t)'
      <3>1. ~l.tag
        BY <2>1 DEF ListInv, TagInv
      <3> QED
        BY <1>1, <2>3, <2>4, <2>5, <3>1
        DEF CallInv, HoldInv, Insertion, AtNode, Holding, Steps
    <2>8. ListInv' => StaysWithin(t)
      <3>1. l.to \in ItemSet
        BY <1>3, <2>1, OrderFacts DEF ListInv, LinkInv, ItemSet
      <3>2. cur'[t].to \in ItemSet'
        BY <2>3, <2>5, <3>1 DEF ItemSet, Ordered
      <3> QED BY <2>3, <2>4, <3>2, WithinFresh DEF StaysWithin
    <2> QED BY <2>4, <2>5, <2>6, <2>7, <2>8, LocalStep DEF Holding, Insertion
  <1> QED BY <1>2, <1>3

(* remove_with finds no tag on the node it looks for: the one who put it   *)
(* there would remove what the caller removes.                             *)
LEMMA NotTagged ==
  ASSUME ListInv, SoleRemover, NEW t \in Threads, NEW F, Within(t, F),
         pc[t] = "visit", op[t] = "remove_with", Data[cur[t].to] = arg[t]
  PROVE  ~link[cur[t].to].tag
  <1> SUFFICES ASSUME link[cur[t].to].tag PROVE FALSE
    OBVIOUS
  <1>1. PICK n \in Nodes : n = cur[t].to /\ n \in F /\ Data[n] = arg[t]
    BY OrderFacts DEF Within, AtNode, ListInv
  <1>2. n \notin out
    BY <1>1 DEF Within, AtNode
  <1>3. PICK u \in Threads : pc[u] \in Holding /\ cur[u].to = n
    BY <1>1, <1>2 DEF ListInv, TagInv
  <1>4. u # t
    BY <1>3 DEF Holding
  <1>5. /\ op[u] \in Removers /\ <<op[u], arg[u]>> \in May[u]
        /\ op[u] # "remove_front" => arg[u] = Data[n]
    BY <1>3 DEF ListInv, CallInv, Holding, AtNode, Steps, Insertion
  <1>6. op[u] = "remove_front" => arg[u] = Null
    BY <1>5, ListAssumption, CallShape DEF Calls, Inserts, Plain, ByKey
  <1>7. <<"remove_with", Data[n]>> \in May[t] /\ Data[n] \in Values
    BY <1>1 DEF ListInv, CallInv, Steps, Insertion, Values
  <1> QED BY <1>4, <1>5, <1>6, <1>7 DEF SoleRemover, Removers

(* The node it is at is to be removed. *)
LEMMA AimStep ==
  ASSUME ListInv, OutTagged, NEW t \in Threads, NEW l \in Link, Aims(t, l),
         pc[t] = "visit", UNCHANGED <<link, op, arg, order, out>>,
         op[t] \in Removers, ~l.tag,
         op[t] # "remove_front" => Data[cur[t].to] = arg[t]
  PROVE  Kept(t)
  <1>1. ListTypes /\ CallInv(t) /\ HoldInv(t)
    BY DEF ListInv
  <1>2. /\ prev[t] \in Nodes \cup {Root} /\ cur[t] \in Link
        /\ nxt[t] \in Link /\ found[t] \in Link
    BY <1>1 DEF ListTypes
  <1>3. Places(t, prev[t], cur[t], l, found[t]) /\ pc' = [pc EXCEPT ![t] = "mark"]
    BY DEF Aims
  <1>4. /\ prev' \in [Threads -> Nodes \cup {Root}]
        /\ cur' \in [Threads -> Link] /\ nxt' \in [Threads -> Link]
        /\ found' \in [Threads -> Link]
        /\ prev'[t] = prev[t] /\ cur'[t] = cur[t] /\ nxt'[t] = l
        /\ found'[t] = found[t]
        /\ \A u \in Threads \ {t} :
             /\ prev'[u] = prev[u] /\ cur'[u] = cur[u]
             /\ nxt'[u] = nxt[u] /\ found'[u] = found[u]
    BY <1>1, <1>2, <1>3 DEF Places, ListTypes
  <1>5. /\ pc' \in [Threads -> Phase] /\ pc'[t] = "mark"
        /\ \A u \in Threads \ {t} : pc'[u] = pc[u]
    BY <1>1, <1>3 DEF ListTypes, Phase, Steps
  <1>6. ListTypes' /\ Others(t)
    BY <1>1, <1>4, <1>5 DEF ListTypes, Others
  <1>7. CallInv(t)' /\ HoldInv(t)'
    BY <1>1, <1>4, <1>5
    DEF CallInv, HoldInv, Insertion, AtNode, Holding, Steps, Removers
  <1>8. ASSUME ListInv', NEW F, Within(t, F)
        PROVE  \E G \in SUBSET (F \cup ItemSet') : Within(t, G)'
    <2>1. PICK G : G = F \cup ItemSet'
      OBVIOUS
    <2>2. ChainStep
      BY ChainSame DEF ListInv
    <2>3. /\ ItemSet' \subseteq G /\ G \subseteq Ordered'
          /\ \A m \in G : link'[m].to \in G \cup {Null}
      BY <1>8, <2>1, <2>2, ClosedSet DEF Within
    <2>4. \A m \in G \cap out' : m \in F \cap out
      BY <2>1 DEF ItemSet
    <2>5. Within(t, G)'
      BY <1>4, <1>5, <1>8, <2>1, <2>3, <2>4 DEF Within, AtNode
    <2> QED BY <2>1, <2>5
  <1> QED
    BY <1>5, <1>6, <1>7, <1>8, LocalStep DEF Holding, Insertion, StaysWithin

LEMMA VisitStep ==
  ASSUME ListInv, OutTagged, AllWithin, SoleRemover, NEW t \in Threads,
         Visiting(t)
  PROVE  Kept(t)
  <1>1. ListTypes /\ CallInv(t) /\ HoldInv(t)
    BY DEF ListInv
  <1>2. pc[t] = "visit" /\ UNCHANGED <<link, op, arg, order, out>>
    BY DEF Visiting
  <1>3. CASE Ends(t) \/ Rewinds(t)
    BY <1>2, <1>3, StopStep DEF Holding, Steps, Insertion
  <1>a. /\ prev[t] \in Nodes \cup {Root} /\ cur[t] \in Link
        /\ nxt[t] \in Link /\ found[t] \in Link
    BY <1>1 DEF ListTypes
  <1>4. CASE Goes(t)
    <2>1. PICK n \in Nodes : n = cur[t].to
      BY <1>2, AtPlace DEF AtNode
    <2>2. PICK l : l = link[n].to /\ l \in Nodes
      BY <1>1, <1>4, <2>1 DEF Goes, ListTypes, Link
    <2>3. Places(t, n, To(l), nxt[t], found[t]) /\ pc' = pc
      BY <1>4, <2>1, <2>2 DEF Goes
    <2>4. To(l) \in Link /\ To(l).to = l /\ ~To(l).tag
      BY <2>2 DEF To, Link
    <2>5. /\ prev' \in [Threads -> Nodes \cup {Root}]
          /\ cur' \in [Threads -> Link] /\ nxt' \in [Threads -> Link]
          /\ found' \in [Threads -> Link]
          /\ prev'[t] = n /\ cur'[t] = To(l) /\ found'[t] = found[t]
          /\ \A u \in Threads \ {t} :
               /\ prev'[u] = prev[u] /\ cur'[u] = cur[u]
               /\ nxt'[u] = nxt[u] /\ found'[u] = found[u]
      BY <1>1, <1>a, <2>3, <2>4, PlacesTyped
    <2>6. ListTypes' /\ Others(t)
      BY <1>1, <1>2, <2>3, <2>5 DEF ListTypes, Others
    <2>7. CallInv(t)' /\ HoldInv(t)'
      BY <1>1, <1>2, <2>3, <2>4, <2>5
      DEF CallInv, HoldInv, Insertion, AtNode, Holding, Steps
    <2>8. ASSUME ListInv', NEW F, Within(t, F)
          PROVE  \E G \in SUBSET (F \cup ItemSet') : Within(t, G)'
      <3>1. PICK G : G = F \cup ItemSet'
        OBVIOUS
      <3>2. ChainStep
        BY <1>2, ChainSame DEF ListInv
      <3>3. /\ ItemSet' \subseteq G /\ G \subseteq Ordered'
            /\ \A m \in G : link'[m].to \in G \cup {Null}
        BY <2>8, <3>1, <3>2, ClosedSet DEF Within
      <3>4. n \in F /\ l \in F
        <4>1. n \in F /\ l \in F \cup {Null}
          BY <1>2, <2>1, <2>2, <2>8 DEF Within, AtNode
        <4> QED BY <2>2, <4>1, ListAssumption
      <3>5. \A m \in G \cap out' : m \in F \cap out
        BY <1>2, <3>1 DEF ItemSet
      <3>6. Within(t, G)'
        BY <1>2, <2>3, <2>4, <2>5, <2>8, <3>1, <3>3, <3>4, <3>5 DEF Within, AtNode
      <3> QED BY <3>1, <3>6
    <2> QED
      BY <1>2, <2>3, <2>6, <2>7, <2>8, LocalStep DEF Holding, Insertion, StaysWithin
  <1>5. ASSUME NEW l \in Link, Aims(t, l), op[t] \in Removers,
               op[t] # "remove_front" => Data[cur[t].to] = arg[t],
               l.tag => op[t] = "remove_with" /\ link[cur[t].to].tag
        PROVE  Kept(t)
    <2>1. ~l.tag
      BY <1>2, <1>5, NotTagged DEF AllWithin, Removers
    <2> QED BY <1>2, <1>5, <2>1, AimStep
  <1> QED BY <1>3, <1>4, <1>5 DEF Visiting

LEMMA TakeStep ==
  ASSUME ListInv, OutTagged, NEW t \in Threads, Take(t)
  PROVE  Kept(t)
  <1>1. Ends(t) /\ pc[t] = "take"
    BY WaysOn DEF Take, ListInv
  <1> QED BY <1>1, StopStep DEF Take, Holding, Steps, Insertion

(* Before an operation has loaded a link. *)
LEMMA CallStep ==
  ASSUME ListInv, OutTagged, NEW t \in Threads, Placed(t),
         Calling(t) \/ InsertLoad(t)
  PROVE  Kept(t)
  <1>1. ListTypes /\ CallInv(t) /\ HoldInv(t) /\ TagInv /\ ApartInv
    BY DEF ListInv
  <1>2. /\ pc[t] \in {"work", "return", "ins_load"}
        /\ UNCHANGED <<link, prev, cur, nxt, order, out>>
    BY DEF Calling, CallInsert, CallOther, Return, InsertLoad, listVars
  <1>3. prev[t] = Root
    BY <1>2 DEF Placed, AtNode
  <1>4. ASSUME Others(t), ListTypes', CallInv(t)', HoldInv(t)',
               pc'[t] \in {"work", "ins_load", "ins_cas", "head"},
               \A u \in Threads \ {t} :
                 pc[u] \in Insertion /\ pc'[t] \in Insertion => arg'[t] # arg[u]
        PROVE  Kept(t)
    <2>1. StaysWithin(t) \/ ~ListInv'
      BY <1>2, <1>3, <1>4, WithinFresh DEF StaysWithin, AtNode
    <2>2. pc'[t] \notin Holding /\ pc[t] \notin Holding /\ pc'[t] # "take"
      BY <1>2, <1>4 DEF Holding
    <2> QED BY <1>2, <1>4, <2>1, <2>2, LocalStep
  <1>5. CASE InsertLoad(t)
    <2>1. PICK l \in Link : l = link[Root]
      BY <1>1 DEF ListTypes
    <2>2. /\ pc' = [pc EXCEPT ![t] = "ins_cas"]
          /\ found' = [found EXCEPT ![t] = l]
          /\ UNCHANGED <<op, arg>> /\ pc[t] = "ins_load" /\ ~l.tag
      BY <1>1, <1>5, <2>1 DEF InsertLoad, Goto, TagInv
    <2>3. ListTypes' /\ Others(t)
      BY <1>1, <1>2, <2>2 DEF ListTypes, Others, Phase, Steps
    <2>4. CallInv(t)' /\ HoldInv(t)' /\ pc'[t] = "ins_cas"
      BY <1>1, <1>2, <2>2
      DEF ListTypes, CallInv, HoldInv, Insertion, AtNode, Holding, Steps, Ordered
    <2>5. \A u \in Threads \ {t} : pc[u] \in Insertion => arg'[t] # arg[u]
      BY <1>1, <2>2 DEF ApartInv, Insertion
    <2> QED BY <1>4, <2>3, <2>4, <2>5
  <1>6. CASE CallInsert(t)
    <2>1. PICK n \in Unused : arg' = [arg EXCEPT ![t] = n]
      BY <1>6 DEF CallInsert
    <2>2. /\ pc' = [pc EXCEPT ![t] = "ins_load"]
          /\ op' = [op EXCEPT ![t] = "insert"] /\ UNCHANGED found
          /\ pc[t] = "work"
      BY <1>6 DEF CallInsert, Goto, listVars
    <2>3. n \in Nodes \ Ordered /\ \A u \in Threads : arg[u] # n
      BY DEF Unused
    <2>4. ListTypes' /\ Others(t)
      BY <1>1, <1>2, <2>1, <2>2, <2>3 DEF ListTypes, Others, Phase, Steps, Ops
    <2>5. CallInv(t)' /\ HoldInv(t)' /\ pc'[t] = "ins_load"
      BY <1>1, <1>2, <2>1, <2>2, <2>3
      DEF ListTypes, CallInv, HoldInv, Insertion, AtNode, Holding, Steps, Ordered
    <2>6. \A u \in Threads \ {t} : arg'[t] # arg[u]
      BY <1>1, <2>1, <2>3 DEF ListTypes
    <2> QED BY <1>4, <2>4, <2>5, <2>6
  <1>7. ASSUME NEW c \in May[t], CallOther(t, c) PROVE Kept(t)
    <2>1. /\ c = <<c[1], c[2]>> /\ c[1] \in Ops \ {"insert", "none"}
          /\ c[2] \in Values \cup {Null}
      BY <1>7, ListAssumption, CallShape DEF CallOther
    <2>2. /\ pc' = [pc EXCEPT ![t] = "head"] /\ op' = [op EXCEPT ![t] = c[1]]
          /\ arg' = [arg EXCEPT ![t] = c[2]] /\ UNCHANGED found
          /\ pc[t] = "work"
      BY <1>7 DEF CallOther, Goto, listVars
    <2>3. ListTypes' /\ Others(t)
      BY <1>1, <1>2, <2>1, <2>2 DEF ListTypes, Others, Phase, Steps
    <2>4. op'[t] = c[1] /\ arg'[t] = c[2] /\ pc'[t] = "head"
      BY <1>1, <2>2 DEF ListTypes
    <2>5. CallInv(t)' /\ HoldInv(t)'
      BY <1>1, <1>2, <1>7, <2>1, <2>2, <2>4
      DEF CallInv, HoldInv, Insertion, AtNode, Holding, Steps
    <2> QED BY <1>4, <2>3, <2>4, <2>5 DEF Insertion
  <1>8. CASE Return(t)
    <2>1. /\ pc' = [pc EXCEPT ![t] = "work"] /\ op' = [op EXCEPT ![t] = "none"]
          /\ arg' = [arg EXCEPT ![t] = Null] /\ UNCHANGED found
          /\ pc[t] = "return"
      BY <1>8 DEF Return, Goto
    <2>2. ListTypes' /\ Others(t)
      BY <1>1, <1>2, <2>1 DEF ListTypes, Others, Phase, Ops
    <2>3. CallInv(t)' /\ HoldInv(t)' /\ pc'[t] = "work"
      BY <1>1, <1>2, <2>1
      DEF ListTypes, CallInv, HoldInv, Insertion, AtNode, Holding, Steps
    <2> QED BY <1>4, <2>2, <2>3 DEF Insertion
  <1> QED BY <1>5, <1>6, <1>7, <1>8 DEF Calling
-----------------------------------------------------------------------------
LEMMA InsertCasStep ==
  ASSUME ListInv, OutTagged, NEW t \in Threads, Placed(t), InsertCas(t)
  PROVE  Kept(t)
  <1>1. ListTypes /\ CallInv(t) /\ HoldInv(t) /\ OrderInv /\ LinkInv /\ TagInv /\ ApartInv
    BY DEF ListInv
  <1>2. /\ pc[t] = "ins_cas" /\ UNCHANGED <<op, arg, out>>
        /\ op[t] = "insert" /\ arg[t] \in Nodes \ Ordered /\ prev[t] = Root
    BY <1>1 DEF InsertCas, CallInv, Insertion, AtNode, Placed
  <1>3. PICK a \in Nodes \ Ordered, l \in Link : a = arg[t] /\ l = found[t]
    BY <1>1, <1>2 DEF ListTypes
  <1>4. ~l.tag /\ a \notin out /\ a # Root
    BY <1>1, <1>3, ListAssumption DEF HoldInv, OrderInv
  <1>5. \A u \in Threads \ {t} : pc[u] \in Insertion => arg[u] # a
    BY <1>1, <1>2, <1>3 DEF ApartInv, Insertion
  <1>6. \A u \in Threads \ {t} :
          /\ CallInv(u) /\ HoldInv(u)
          /\ pc[u] \in Holding => cur[u].to \in ItemSet
    BY DEF ListInv, HoldInv
  <1>7. Ordered \subseteq Nodes /\ Root \notin Ordered /\ ItemSet \subseteq Ordered
    BY <1>1, OrderFacts DEF ItemSet
  <1>8. ASSUME ListInv', ChainStep, Others(t), prev'[t] = Root,
               pc'[t] \in {"return", "ins_cas"}, OutTagged'
        PROVE  Kept(t)
    <2>1. \A u \in Threads \ {t} : StaysWithin(u)
      BY <1>2, <1>8, OthersStay
    <2>2. StaysWithin(t)
      BY <1>8, WithinFresh DEF StaysWithin, AtNode
    <2> QED BY <1>8, <2>1, <2>2 DEF Kept
  <1>9. ASSUME link[Root] = l, Finish(t, "done"), order' = <<a>> \o order,
               link' = [link EXCEPT ![a] = l, ![Root] = To(a)]
        PROVE  Kept(t)
    <2>1. Ends(t)
      BY <1>1, <1>9, WaysOn
    <2>2. /\ Others(t) /\ pc'[t] = "return" /\ prev'[t] = Root
          /\ pc' \in [Threads -> Phase]
          /\ prev' \in [Threads -> Nodes \cup {Root}]
          /\ cur' \in [Threads -> Link] /\ nxt' \in [Threads -> Link]
          /\ found' \in [Threads -> Link]
          /\ ~cur'[t].tag /\ ~found'[t].tag
      BY <1>1, <1>2, <2>1, Stopping DEF Ends, ListTypes
    <2>3. ChainStep
      BY <1>1, <1>2, <1>9, ChainInsert
    <2>4. Ordered' = Ordered \cup {a} /\ order' \in Seq(Nodes)
      BY <1>1, <1>9, BehindInserted
    <2>5. To(a) \in Link /\ ~To(a).tag
      BY DEF To, Link
    <2>6. /\ link' \in [Nodes \cup {Root} -> Link]
          /\ link'[a] = l /\ link'[Root] = To(a)
          /\ \A n \in Nodes \ {a} : link'[n] = link[n]
      BY <1>1, <1>4, <1>9, <2>5, ListAssumption DEF ListTypes
    <2>7. ListTypes'
      BY <1>1, <1>2, <2>2, <2>4, <2>6 DEF ListTypes
    <2>8. TagInv' /\ OutTagged'
      <3>1. ASSUME NEW n \in Nodes, link'[n].tag, n \notin out
            PROVE  \E u \in Threads : pc'[u] \in Holding /\ cur'[u].to = n
        <4>1. n # a /\ link[n].tag
          BY <1>4, <2>6, <3>1
        <4>2. PICK u \in Threads : pc[u] \in Holding /\ cur[u].to = n
          BY <1>1, <3>1, <4>1 DEF TagInv
        <4>3. u # t
          BY <1>2, <4>2 DEF Holding
        <4> QED BY <2>2, <4>2, <4>3 DEF Others
      <3>2. \A n \in out : link'[n].tag
        BY <1>1, <1>4, <2>6 DEF OutTagged, ListTypes
      <3> QED BY <1>2, <2>5, <2>6, <3>1, <3>2 DEF TagInv, OutTagged
    <2>9. CallInv(t)' /\ HoldInv(t)'
      BY <2>2 DEF CallInv, HoldInv, Insertion, AtNode, Holding, Steps
    <2>10. ASSUME NEW u \in Threads \ {t} PROVE Respects(t, u)
      <3>1. pc[u] \in Insertion => arg[u] \notin Ordered'
        BY <1>5, <1>6, <2>4 DEF CallInv
      <3>2. pc[u] \in Holding =>
              cur[u].to \notin out' /\ link'[cur[u].to] = link[cur[u].to]
        BY <1>2, <1>6, <1>7, <2>6 DEF ItemSet
      <3> QED BY <2>2, <3>1, <3>2 DEF Respects, Insertion, Holding
    <2>11. ListInv'
      BY <2>2, <2>3, <2>7, <2>8, <2>9, <2>10, Assembled
    <2> QED BY <1>8, <2>2, <2>3, <2>8, <2>11
  <1>10. ASSUME found' = [found EXCEPT ![t] = link[Root]],
                UNCHANGED <<pc, prev, cur, nxt, order>>,
                link' = [link EXCEPT ![a] = l]
         PROVE  Kept(t)
    <2>1. /\ link' \in [Nodes \cup {Root} -> Link]
          /\ link'[a] = l /\ \A n \in (Nodes \cup {Root}) \ {a} : link'[n] = link[n]
      BY <1>1, <1>10 DEF ListTypes
    <2>2. Ordered' = Ordered
      BY <1>10 DEF Ordered
    <2>3. ChainStep
      BY <1>1, <1>2, <1>4, <1>7, <1>10, <2>1, ChainSame
    <2>4. PICK h \in Link : h = link[Root] /\ ~h.tag
      BY <1>1 DEF ListTypes, TagInv
    <2>5. ListTypes' /\ Others(t)
      BY <1>1, <1>2, <1>10, <2>1, <2>4 DEF ListTypes, Others
    <2>6. TagInv' /\ OutTagged'
      <3>1. ASSUME NEW n \in Nodes, link'[n].tag, n \notin out
            PROVE  \E u \in Threads : pc'[u] \in Holding /\ cur'[u].to = n
        <4>1. n # a /\ link[n].tag
          BY <1>4, <2>1, <3>1
        <4> QED BY <1>1, <1>10, <3>1, <4>1 DEF TagInv
      <3>2. \A n \in out : link'[n].tag
        BY <1>1, <1>4, <2>1 DEF OutTagged, ListTypes
      <3> QED BY <1>1, <1>2, <1>4, <2>1, <3>1, <3>2 DEF TagInv, OutTagged
    <2>7. CallInv(t)' /\ HoldInv(t)'
      BY <1>1, <1>2, <1>10, <2>2, <2>4
      DEF ListTypes, CallInv, HoldInv, Insertion, AtNode, Holding, Steps
    <2>8. ASSUME NEW u \in Threads \ {t} PROVE Respects(t, u)
      <3>1. pc[u] \in Insertion => arg[u] \notin Ordered' /\ arg'[t] # arg[u]
        BY <1>2, <1>3, <1>5, <1>6, <2>2 DEF CallInv
      <3>2. pc[u] \in Holding =>
              cur[u].to \notin out' /\ link'[cur[u].to] = link[cur[u].to]
        BY <1>2, <1>6, <1>7, <2>1 DEF ItemSet
      <3> QED BY <1>2, <1>10, <3>1, <3>2 DEF Respects, Holding
    <2>9. ListInv'
      BY <2>3, <2>5, <2>6, <2>7, <2>8, Assembled
    <2> QED BY <1>2, <1>8, <1>10, <2>3, <2>5, <2>6, <2>9
  <1> QED BY <1>2, <1>3, <1>9, <1>10 DEF InsertCas

LEMMA MarkStep ==
  ASSUME ListInv, OutTagged, NEW t \in Threads, Placed(t), Mark(t)
  PROVE  Kept(t)
  <1>1. ListTypes /\ CallInv(t) /\ HoldInv(t) /\ OrderInv /\ LinkInv /\ TagInv /\ ApartInv
    BY DEF ListInv
  <1>2. pc[t] = "mark" /\ UNCHANGED <<op, arg, order, out>>
    BY DEF Mark
  <1>3. PICK c \in Ordered, l \in Link : c = cur[t].to /\ l = nxt[t] /\ c \in Nodes
    BY <1>1, <1>2, OrderFacts DEF AtNode, ListTypes, Placed
  <1>4. ~l.tag /\ c # Root /\ c # Null
    BY <1>1, <1>2, <1>3, ListAssumption DEF HoldInv
  <1>5. Ordered' = Ordered /\ ItemSet' = ItemSet /\ ItemSet \subseteq Ordered
    BY <1>2 DEF Ordered, ItemSet
  <1>6. ASSUME link[c] = l, pc' = [pc EXCEPT ![t] = "swing"],
               link' = [link EXCEPT ![c] = Tagged(l)],
               UNCHANGED <<prev, cur, nxt, found>>
        PROVE  Kept(t)
    <2>1. Tagged(l) \in Link /\ Tagged(l).to = l.to /\ Tagged(l).tag
      BY DEF Tagged, Link
    <2>2. /\ link' \in [Nodes \cup {Root} -> Link] /\ link'[c] = Tagged(l)
          /\ \A n \in (Nodes \cup {Root}) \ {c} : link'[n] = link[n]
      BY <1>1, <1>3, <1>6, <2>1 DEF ListTypes
    <2>3. c \in ItemSet
      BY <1>3, <1>4, <1>6 DEF OutTagged, ItemSet
    <2>4. /\ pc' \in [Threads -> Phase] /\ pc'[t] = "swing"
          /\ \A u \in Threads \ {t} : pc'[u] = pc[u]
      BY <1>1, <1>6 DEF ListTypes, Phase, Steps
    <2>5. ListTypes' /\ Others(t)
      BY <1>1, <1>2, <1>6, <2>2, <2>4 DEF ListTypes, Others
    <2>6. ChainStep
      <3>1. Ordered \subseteq Nodes
        BY <1>1, OrderFacts
      <3>2. \A n \in Ordered \cup {Root} : link'[n].to = link[n].to
        BY <1>6, <2>1, <2>2, <3>1
      <3> QED BY <1>1, <1>2, <3>2, ChainSame
    <2>7. TagInv'
      <3>1. ASSUME NEW n \in Nodes, link'[n].tag, n \notin out
            PROVE  \E u \in Threads : pc'[u] \in Holding /\ cur'[u].to = n
        <4>1. CASE n = c
          BY <1>3, <1>6, <2>4, <4>1 DEF Holding
        <4>2. CASE n # c
          <5>1. PICK u \in Threads : pc[u] \in Holding /\ cur[u].to = n
            BY <1>1, <2>2, <3>1, <4>2 DEF TagInv
          <5>2. u # t
            BY <1>2, <5>1 DEF Holding
          <5> QED BY <1>6, <2>4, <5>1, <5>2
        <4> QED BY <4>1, <4>2
      <3> QED BY <1>1, <1>2, <1>4, <2>2, <3>1 DEF TagInv
    <2>8. OutTagged'
      BY <1>1, <1>2, <2>1, <2>2 DEF OutTagged, ListTypes
    <2>9. CallInv(t)' /\ HoldInv(t)'
      <3>1. CallInv(t)'
        BY <1>1, <1>2, <1>6, <2>4 DEF CallInv, Insertion, AtNode, Steps
      <3>2. HoldInv(t)'
        BY <1>1, <1>2, <1>3, <1>4, <1>5, <1>6, <2>2, <2>3, <2>4
        DEF HoldInv, Holding
      <3> QED BY <3>1, <3>2
    <2>10. ASSUME NEW u \in Threads \ {t} PROVE Respects(t, u)
      <3>1. CallInv(u) /\ HoldInv(u)
        BY DEF ListInv
      <3>2. pc[u] \in Holding => cur[u].to \in ItemSet /\ cur[u].to # c
        BY <1>4, <1>6, <2>1, <3>1 DEF HoldInv, Tagged
      <3>3. pc[u] \in Holding =>
              cur[u].to \notin out' /\ link'[cur[u].to] = link[cur[u].to]
        <4>1. ItemSet \subseteq Nodes
          BY <1>1, OrderFacts DEF ItemSet
        <4> QED BY <1>2, <2>2, <3>2, <4>1 DEF ItemSet
      <3> QED
        BY <1>3, <1>5, <1>6, <2>4, <3>1, <3>2, <3>3
        DEF Respects, CallInv, Insertion
    <2>11. ListInv'
      BY <2>5, <2>6, <2>7, <2>9, <2>10, Assembled
    <2>12. StaysWithin(t)
      BY <1>2, <1>6, <2>4, <2>6, <2>11, WithinMoved DEF StaysWithin, AtNode
    <2>13. \A u \in Threads \ {t} : StaysWithin(u)
      BY <1>2, <2>5, <2>6, <2>11, OthersStay
    <2> QED BY <2>6, <2>8, <2>11, <2>12, <2>13 DEF Kept
  <1>7. ASSUME op[t] = "remove_front", pc' = [pc EXCEPT ![t] = "visit"],
               UNCHANGED <<link, prev, cur, nxt, found>>
        PROVE  Kept(t)
    <2>1. /\ pc' \in [Threads -> Phase] /\ pc'[t] = "visit"
          /\ \A u \in Threads \ {t} : pc'[u] = pc[u]
      BY <1>1, <1>7 DEF ListTypes, Phase, Steps
    <2>2. ListTypes' /\ Others(t)
      BY <1>1, <1>2, <1>7, <2>1 DEF ListTypes, Others
    <2>3. CallInv(t)' /\ HoldInv(t)'
      BY <1>1, <1>2, <1>7, <2>1
      DEF CallInv, HoldInv, Holding, Insertion, AtNode, Steps
    <2>4. ChainStep
      BY <1>1, <1>2, <1>7, ChainSame
    <2>5. ListInv' => StaysWithin(t)
      BY <1>2, <1>7, <2>1, <2>4, WithinMoved DEF StaysWithin, AtNode
    <2> QED
      BY <1>2, <1>7, <2>1, <2>2, <2>3, <2>5, LocalStep DEF Insertion, Holding
  <1>8. CASE Restart(t) /\ UNCHANGED link
    <2>1. Rewinds(t)
      BY <1>1, <1>8, WaysOn
    <2> QED BY <1>2, <1>8, <2>1, StopStep DEF Holding, Steps, Insertion
  <1> QED BY <1>3, <1>6, <1>7, <1>8 DEF Mark, Goto

(* What remove_with looks for is removed by no other. *)
LEMMA NobodyElse ==
  ASSUME ListInv, SoleRemover, NEW t \in Threads, NEW u \in Threads \ {t},
         pc[t] \in AtNode \ {"visit"}, cur[t].to \in Nodes,
         op[u] = "remove_with", pc[u] \in AtNode
  PROVE  Data[cur[t].to] # arg[u]
  <1> SUFFICES ASSUME Data[cur[t].to] = arg[u] PROVE FALSE
    OBVIOUS
  <1>1. /\ op[t] \in Removers /\ <<op[t], arg[t]>> \in May[t]
        /\ op[t] # "remove_front" => arg[t] = arg[u]
    BY DEF ListInv, CallInv, AtNode, Steps, Insertion
  <1>2. op[t] = "remove_front" => arg[t] = Null
    BY <1>1, ListAssumption, CallShape DEF Calls, Inserts, Plain, ByKey
  <1>3. <<"remove_with", arg[u]>> \in May[u] /\ arg[u] \in Values
    BY DEF ListInv, CallInv, AtNode, Steps, Insertion, Values
  <1> QED BY <1>1, <1>2, <1>3 DEF SoleRemover, Removers

LEMMA SwingStep ==
  ASSUME ListInv, OutTagged, NEW t \in Threads, Placed(t), Swing(t),
         \A u \in Threads \ {t} :
           op[u] = "remove_with" /\ pc[u] \in AtNode => Data[cur[t].to] # arg[u]
  PROVE  Kept(t)
  <1>1. ListTypes /\ CallInv(t) /\ HoldInv(t) /\ OrderInv /\ LinkInv /\ TagInv /\ ApartInv
    BY DEF ListInv
  <1>2. pc[t] = "swing" /\ UNCHANGED <<op, arg, prev, cur, nxt, result, order>>
    BY DEF Swing
  <1>3. PICK c \in ItemSet, l \in Link : c = cur[t].to /\ l = nxt[t]
    BY <1>1, <1>2 DEF HoldInv, Holding, ListTypes
  <1>4. /\ link[c] = Tagged(l) /\ ~l.tag /\ Tagged(l).to = l.to
        /\ c \in Nodes /\ c \in Ordered /\ c \notin out /\ ItemSet \subseteq Nodes
    BY <1>1, <1>2, <1>3, OrderFacts DEF HoldInv, Holding, Tagged, Link, ItemSet
  <1>5. Ordered' = Ordered
    BY <1>2 DEF Ordered
  <1>6. ASSUME link[prev[t]] = Expected(t),
               link' = [link EXCEPT ![prev[t]] = nxt[t]],
               out' = out \cup {cur[t].to},
               pc' = [pc EXCEPT ![t] = "take"], UNCHANGED found
        PROVE  Kept(t)
    <2>1. PICK p \in Ordered \cup {Root} : p = prev[t]
      BY <1>2 DEF Placed, AtNode
    <2>2. link[p].to = c /\ ~link[p].tag
      BY <1>1, <1>2, <1>3, <1>6, <2>1 DEF Expected, Untagged, HoldInv, ListTypes, Link
    <2>3. p \in ItemSet \cup {Root}
      BY <2>1, <2>2 DEF OutTagged, ItemSet
    <2>4. ChainStep /\ p # c
      BY <1>1, <1>2, <1>3, <1>4, <1>6, <2>1, <2>2, <2>3, ChainUnlink
    <2>5. /\ link' \in [Nodes \cup {Root} -> Link] /\ link'[p] = l
          /\ \A n \in (Nodes \cup {Root}) \ {p} : link'[n] = link[n]
      BY <1>1, <1>3, <1>4, <1>6, <2>1, <2>3 DEF ListTypes
    <2>6. /\ pc' \in [Threads -> Phase] /\ pc'[t] = "take"
          /\ \A u \in Threads \ {t} : pc'[u] = pc[u]
      BY <1>1, <1>6 DEF ListTypes, Phase, Steps
    <2>7. ListTypes' /\ Others(t)
      BY <1>1, <1>2, <1>3, <1>4, <1>6, <2>5, <2>6 DEF ListTypes, Others
    <2>8. TagInv'
      <3>1. ASSUME NEW n \in Nodes, link'[n].tag, n \notin out'
            PROVE  \E u \in Threads : pc'[u] \in Holding /\ cur'[u].to = n
        <4>1. n # p /\ link[n].tag /\ n \notin out /\ n # c
          BY <1>3, <1>4, <1>6, <2>5, <3>1
        <4>2. PICK u \in Threads : pc[u] \in Holding /\ cur[u].to = n
          BY <1>1, <4>1 DEF TagInv
        <4>3. u # t
          BY <1>3, <4>1, <4>2
        <4> QED BY <1>2, <2>6, <4>2, <4>3
      <3>2. ~link'[Root].tag
        BY <1>1, <1>4, <2>5 DEF TagInv
      <3> QED BY <3>1, <3>2 DEF TagInv
    <2>9. OutTagged'
      <3>1. link'[c].tag
        BY <1>4, <2>4, <2>5 DEF Tagged, Link
      <3>2. \A n \in out : n # p /\ n \in Nodes
        BY <1>1, <2>2 DEF OutTagged, ListTypes
      <3>3. \A n \in out : link'[n].tag
        BY <2>5, <3>2 DEF OutTagged
      <3> QED BY <1>3, <1>6, <3>1, <3>3 DEF OutTagged
    <2>10. CallInv(t)' /\ HoldInv(t)'
      BY <1>1, <1>2, <1>3, <1>6, <2>6
      DEF CallInv, HoldInv, Holding, Insertion, AtNode, Steps
    <2>11. ASSUME NEW u \in Threads \ {t} PROVE Respects(t, u)
      <3>1. CallInv(u) /\ HoldInv(u)
        BY DEF ListInv
      <3>2. pc[u] \in Holding => cur[u].to # c
        BY <1>1, <1>2, <1>3 DEF ApartInv, Holding
      <3>3. pc[u] \in Holding => cur[u].to \in ItemSet /\ cur[u].to # p
        BY <1>1, <2>2, <3>1 DEF HoldInv, Tagged, ListTypes, Link
      <3>4. pc[u] \in Holding =>
              cur[u].to \notin out' /\ link'[cur[u].to] = link[cur[u].to]
        BY <1>3, <1>4, <1>6, <2>5, <3>2, <3>3 DEF ItemSet
      <3>5. pc[u] = "take" => cur'[t].to # cur[u].to
        BY <1>2, <1>3, <1>4, <3>1 DEF HoldInv
      <3> QED
        BY <1>5, <2>6, <3>1, <3>4, <3>5 DEF Respects, CallInv, Insertion, Holding
    <2>12. ListInv'
      BY <2>4, <2>7, <2>8, <2>10, <2>11, Assembled
    <2>13. StaysWithin(t)
      BY <1>2, <2>4, <2>6, <2>12, WithinMoved DEF StaysWithin, AtNode
    <2>14. ASSUME NEW u \in Threads \ {t} PROVE StaysWithin(u)
      <3>1. op[u] = "remove_with" /\ pc[u] \in AtNode => Data[c] # arg[u]
        BY <1>3
      <3>2. \A n \in out' \ out : n = c
        BY <1>3, <1>6
      <3> QED BY <2>4, <2>7, <2>12, <3>1, <3>2, OthersStay
    <2> QED BY <2>4, <2>9, <2>12, <2>13, <2>14 DEF Kept
  <1>7. ASSUME found' = [found EXCEPT ![t] = IF op[t] = "remove_front"
                                             THEN link[Root] ELSE @],
               pc' = [pc EXCEPT ![t] = "unmark"], UNCHANGED <<link, out>>
        PROVE  Kept(t)
    <2>1. PICK f \in Link : f = IF op[t] = "remove_front" THEN link[Root] ELSE found[t]
      BY <1>1 DEF ListTypes
    <2>2. found' = [found EXCEPT ![t] = f] /\ ~f.tag
      BY <1>1, <1>7, <2>1 DEF TagInv, HoldInv, ListTypes
    <2>3. /\ pc' \in [Threads -> Phase] /\ pc'[t] = "unmark" /\ found'[t] = f
          /\ \A u \in Threads \ {t} : pc'[u] = pc[u] /\ found'[u] = found[u]
      BY <1>1, <1>7, <2>2 DEF ListTypes, Phase, Steps
    <2>4. ListTypes' /\ Others(t)
      BY <1>1, <1>2, <1>7, <2>2, <2>3 DEF ListTypes, Others
    <2>5. ItemSet' = ItemSet
      BY <1>2, <1>7 DEF ItemSet, Ordered
    <2>6. CallInv(t)' /\ HoldInv(t)'
      <3>1. CallInv(t)'
        BY <1>1, <1>2, <2>3 DEF CallInv, Insertion, AtNode, Steps
      <3>2. HoldInv(t)'
        BY <1>1, <1>2, <1>7, <2>2, <2>3, <2>5 DEF HoldInv, Holding, Tagged
      <3> QED BY <3>1, <3>2
    <2>7. ChainStep
      BY <1>1, <1>2, <1>7, ChainSame
    <2>8. op[t] = "remove_front" => f.to \in ItemSet' \cup {Null}
      BY <1>1, <2>1, <2>5, OrderFacts DEF LinkInv, ItemSet
    <2>9. ListInv' => StaysWithin(t)
      BY <1>2, <1>7, <2>3, <2>7, <2>8, WithinMoved DEF StaysWithin, AtNode
    <2> QED
      BY <1>2, <1>7, <2>3, <2>4, <2>6, <2>9, LocalStep DEF Insertion, Holding
  <1> QED BY <1>6, <1>7 DEF Swing, Goto

LEMMA UnmarkStep ==
  ASSUME ListInv, OutTagged, NEW t \in Threads, Unmark(t)
  PROVE  Kept(t)
  <1>1. ListTypes /\ CallInv(t) /\ HoldInv(t) /\ OrderInv /\ LinkInv /\ TagInv /\ ApartInv
    BY DEF ListInv
  <1>2. pc[t] = "unmark" /\ UNCHANGED <<op, arg, order, out>>
    BY DEF Unmark
  <1>3. PICK c \in ItemSet, l \in Link : c = cur[t].to /\ l = nxt[t]
    BY <1>1, <1>2 DEF HoldInv, Holding, ListTypes
  <1>4. /\ link[c] = Tagged(l) /\ ~l.tag /\ Tagged(l).to = l.to
        /\ c \in Nodes /\ c \in Ordered /\ c \notin out /\ c # Root
        /\ ItemSet \subseteq Nodes
    BY <1>1, <1>2, <1>3, OrderFacts DEF HoldInv, Holding, Tagged, Link, ItemSet
  <1>5. link' = [link EXCEPT ![c] = l]
    BY <1>3, <1>4 DEF Unmark
  <1>6. /\ link' \in [Nodes \cup {Root} -> Link] /\ link'[c] = l
        /\ \A n \in (Nodes \cup {Root}) \ {c} : link'[n] = link[n]
    BY <1>1, <1>4, <1>5 DEF ListTypes
  <1>7. Ordered' = Ordered /\ ItemSet' = ItemSet /\ Ordered \subseteq Nodes
    BY <1>1, <1>2, OrderFacts DEF Ordered, ItemSet
  <1>8. ChainStep
    <2>1. \A n \in Ordered \cup {Root} : link'[n].to = link[n].to
      BY <1>4, <1>6, <1>7
    <2> QED BY <1>1, <1>2, <2>1, ChainSame
  <1>9. OutTagged'
    BY <1>1, <1>2, <1>4, <1>6 DEF OutTagged, ListTypes
  <1>10. ASSUME ListTypes', Others(t), CallInv(t)', HoldInv(t)',
                pc'[t] \notin Holding \cup Insertion \cup {"take"},
                ListInv' => StaysWithin(t)
         PROVE  Kept(t)
    <2>1. TagInv'
      <3>1. ASSUME NEW n \in Nodes, link'[n].tag, n \notin out'
            PROVE  \E u \in Threads : pc'[u] \in Holding /\ cur'[u].to = n
        <4>1. n # c /\ link[n].tag /\ n \notin out
          BY <1>2, <1>4, <1>6, <3>1
        <4>2. PICK u \in Threads : pc[u] \in Holding /\ cur[u].to = n
          BY <1>1, <4>1 DEF TagInv
        <4>3. u # t
          BY <1>3, <4>1, <4>2
        <4> QED BY <1>10, <4>2, <4>3 DEF Others
      <3>2. ~link'[Root].tag
        BY <1>1, <1>4, <1>6 DEF TagInv
      <3> QED BY <3>1, <3>2 DEF TagInv
    <2>2. ASSUME NEW u \in Threads \ {t} PROVE Respects(t, u)
      <3>1. CallInv(u) /\ HoldInv(u)
        BY DEF ListInv
      <3>2. pc[u] \in Holding => cur[u].to # c /\ cur[u].to \in ItemSet
        BY <1>1, <1>2, <1>3, <3>1 DEF ApartInv, HoldInv, Holding
      <3>3. pc[u] \in Holding =>
              cur[u].to \notin out' /\ link'[cur[u].to] = link[cur[u].to]
        BY <1>2, <1>4, <1>6, <3>2 DEF ItemSet
      <3> QED BY <1>7, <1>10, <3>1, <3>3 DEF Respects, CallInv, Insertion
    <2>3. ListInv'
      BY <1>8, <1>10, <2>1, <2>2, Assembled
    <2>4. \A u \in Threads \ {t} : StaysWithin(u)
      BY <1>2, <1>8, <1>10, <2>3, OthersStay
    <2> QED BY <1>8, <1>9, <1>10, <2>3, <2>4 DEF Kept
  <1>11. CASE Restart(t) \/ Finish(t, Null)
    <2>1. Ends(t) \/ Rewinds(t)
      BY <1>1, <1>11, WaysOn
    <2>2. /\ Others(t)
          /\ pc' \in [Threads -> Phase] /\ pc'[t] \in {"return", "head"}
          /\ prev' \in [Threads -> Nodes \cup {Root}]
          /\ cur' \in [Threads -> Link] /\ nxt' \in [Threads -> Link]
          /\ found' \in [Threads -> Link]
          /\ prev'[t] = Root /\ ~cur'[t].tag /\ ~found'[t].tag
      BY <1>1, <1>2, <2>1, Stopping
    <2>3. ListTypes'
      BY <1>1, <1>2, <1>6, <2>2 DEF ListTypes
    <2>4. CallInv(t)' /\ HoldInv(t)'
      BY <1>1, <1>2, <2>2 DEF CallInv, HoldInv, Holding, Insertion, AtNode, Steps
    <2>5. ListInv' => StaysWithin(t)
      BY <2>2, WithinFresh DEF StaysWithin, AtNode
    <2> QED BY <1>10, <2>2, <2>3, <2>4, <2>5 DEF Holding, Insertion
  <1>12. ASSUME op[t] = "remove_front", found[t].to # Null,
                cur' = [cur EXCEPT ![t] = found[t]],
                nxt' = [nxt EXCEPT ![t] = To(Null)],
                found' = [found EXCEPT ![t] = To(Null)],
                pc' = [pc EXCEPT ![t] = "visit"], UNCHANGED prev
         PROVE  Kept(t)
    <2>1. To(Null) \in Link /\ ~To(Null).tag
      BY DEF To, Link
    <2>2. PICK f \in Link : f = found[t] /\ f.to # Null /\ ~f.tag
      BY <1>1, <1>12 DEF HoldInv, ListTypes
    <2>3. /\ pc' \in [Threads -> Phase] /\ pc'[t] = "visit" /\ cur'[t] = f
          /\ found'[t] = To(Null)
          /\ \A u \in Threads \ {t} : /\ pc'[u] = pc[u] /\ found'[u] = found[u]
                                      /\ nxt'[u] = nxt[u] /\ cur'[u] = cur[u]
          /\ cur' \in [Threads -> Link] /\ nxt' \in [Threads -> Link]
          /\ found' \in [Threads -> Link]
      BY <1>1, <1>12, <2>1, <2>2 DEF ListTypes, Phase, Steps
    <2>4. ListTypes' /\ Others(t)
      BY <1>1, <1>2, <1>6, <1>12, <2>3 DEF ListTypes, Others
    <2>5. CallInv(t)' /\ HoldInv(t)'
      BY <1>1, <1>2, <2>1, <2>2, <2>3
      DEF CallInv, HoldInv, Holding, Insertion, AtNode, Steps
    <2>6. ASSUME ListInv', NEW F, Within(t, F)
          PROVE  \E G \in SUBSET (F \cup ItemSet') : Within(t, G)'
      <3>1. PICK G : G = F \cup ItemSet'
        OBVIOUS
      <3>2. /\ ItemSet' \subseteq G /\ G \subseteq Ordered'
            /\ \A n \in G : link'[n].to \in G \cup {Null}
        BY <1>8, <2>6, <3>1, ClosedSet DEF Within
      <3>3. f.to \in F /\ prev'[t] \in F \cup {Root}
        BY <1>2, <1>12, <2>2, <2>6 DEF Within, AtNode
      <3>4. Within(t, G)'
        BY <1>2, <1>12, <2>3, <3>1, <3>2, <3>3 DEF Within, AtNode
      <3> QED BY <3>1, <3>4
    <2> QED
      BY <1>10, <2>3, <2>4, <2>5, <2>6 DEF Holding, Insertion, StaysWithin
  <1> QED BY <1>11, <1>12 DEF Unmark, Goto

(* Every step of the lists keeps the invariant, the tags of removed nodes, *)
(* their links, and threads among nodes they may look at.                  *)
LEMMA MovingStep ==
  ASSUME ListInv, OutTagged, AllWithin, SoleRemover, NEW t \in Threads, Moving(t)
  PROVE  Kept(t)
  <1>0. Placed(t)
    BY PlacedWithin
  <1>1. CASE VisitFront(t) \/ VisitRemove(t) \/ VisitRemoveWith(t)
               \/ VisitContains(t) \/ VisitAll(t)
    <2>1. pc[t] = "visit"
      BY <1>1 DEF VisitFront, VisitRemove, VisitRemoveWith, VisitContains, VisitAll
    <2>2. cur[t].to \in Nodes /\ ListTypes
      BY <2>1, AtPlace DEF AtNode, ListInv
    <2> QED BY <1>1, <2>2, Visits, VisitStep
  <1>2. CASE Inserting(t)
    BY <1>2, <1>0, CallStep, InsertCasStep DEF Inserting
  <1>3. CASE LoadHead(t)
    BY <1>3, LoadHeadStep
  <1>4. CASE Unlinking(t)
    <2>1. CASE Swing(t)
      <3>1. pc[t] \in AtNode \ {"visit"} /\ cur[t].to \in Nodes
        BY <2>1, AtPlace DEF Swing, AtNode
      <3> QED BY <1>0, <2>1, <3>1, NobodyElse, SwingStep
    <2> QED BY <1>0, <1>4, <2>1, MarkStep, UnmarkStep DEF Unlinking
  <1>5. CASE Take(t)
    BY <1>5, TakeStep
  <1>6. CASE Calling(t)
    BY <1>0, <1>6, CallStep
  <1> QED
    BY <1>1, <1>2, <1>3, <1>4, <1>5, <1>6
    DEF Moving, Searching, RemovingFront, Removing, RemovingWith, Containing, Walking

LEMMA WithinStep ==
  ASSUME AllWithin, ListInv', \A u \in Threads : StaysWithin(u)
  PROVE  AllWithin'
  <1> SUFFICES ASSUME NEW u \in Threads
               PROVE  \E G \in SUBSET Nodes : Within(u, G)'
    BY DEF AllWithin
  <1>1. PICK F \in SUBSET Nodes : Within(u, F)
    BY DEF AllWithin
  <1>2. PICK G \in SUBSET (F \cup ItemSet') : Within(u, G)'
    BY <1>1 DEF StaysWithin
  <1>3. ItemSet' \subseteq Nodes
    <2>1. order' \in Seq(Nodes)
      BY DEF ListInv, ListTypes
    <2> QED BY <2>1 DEF ItemSet, Ordered
  <1> QED BY <1>2, <1>3
-----------------------------------------------------------------------------
(* The walks of `all` and the iterator. *)
OwedOf(t) ==
  IF op[t] = "walk" /\ pc[t] = "visit"
  THEN owed[t] \subseteq ItemSet /\ owed[t] \subseteq Behind(cur[t].to)
  ELSE owed[t] = {}

OwedStep(t) ==
  owed'[t] = IF op'[t] # "walk" \/ pc'[t] = "head" THEN {}
             ELSE ((IF pc[t] = "head" THEN ItemSet ELSE owed[t])
                     \ {cur'[t].to}) \cap ItemSet'

(* Nothing that is removed or inserted comes between a walk and what it    *)
(* has still to meet.                                                      *)
LEMMA OwedKept ==
  ASSUME ListInv, AllWithin, ChainStep, NEW u \in Threads, OwedOf(u), OwedStep(u),
         op'[u] = op[u], pc'[u] = pc[u], cur'[u] = cur[u]
  PROVE  OwedOf(u)'
  <1>1. CASE op[u] = "walk" /\ pc[u] = "visit"
    <2>1. PICK c \in Ordered : c = cur[u].to
      BY <1>1, AtPlace DEF AtNode
    <2>2. owed[u] \subseteq Behind(c)
      BY <1>1, <2>1 DEF OwedOf
    <2>3. owed'[u] \subseteq ItemSet' /\ owed'[u] \subseteq owed[u]
      BY <1>1 DEF OwedStep
    <2>4. Behind(c)' = Behind(c) /\ c = cur'[u].to
      BY <2>1 DEF ChainStep
    <2>5. Behind(c)' = Behind(cur[u].to)'
      BY <2>4
    <2> QED BY <1>1, <2>2, <2>3, <2>4, <2>5 DEF OwedOf
  <1>2. CASE ~(op[u] = "walk" /\ pc[u] = "visit")
    BY <1>2 DEF OwedOf, OwedStep
  <1> QED BY <1>1, <1>2

(* The walk itself moves to the next of them. *)
LEMMA OwedMet ==
  ASSUME ListInv, AllWithin, NEW t \in Threads, OwedOf(t), OwedStep(t),
         op[t] = "walk", LoadHead(t) \/ VisitAll(t)
  PROVE  OwedOf(t)'
  <1>1. ListTypes /\ LinkInv /\ Behind(Null) = {} /\ Behind(Root) = Ordered
    BY OrderFacts DEF ListInv
  <1>2. UNCHANGED <<link, op, arg, order, out>> /\ pc[t] \in {"head", "visit"}
    BY DEF LoadHead, VisitAll
  <1>3. ItemSet' = ItemSet /\ \A n : Behind(n)' = Behind(n)
    BY <1>2 DEF ItemSet, Ordered, Behind
  <1>4. PICK n \in Ordered \cup {Root} :
          n = IF pc[t] = "head" THEN Root ELSE cur[t].to
    BY <1>2, AtPlace DEF AtNode
  <1>5. PICK S : /\ S = IF pc[t] = "head" THEN ItemSet ELSE owed[t]
                 /\ S \subseteq ItemSet /\ S \subseteq Behind(n)
    BY <1>1, <1>2, <1>4 DEF OwedOf, ItemSet
  <1>6. \A m \in S : m = link[n].to \/ m \in Behind(link[n].to)
    BY <1>1, <1>5 DEF LinkInv, ItemSet
  <1>7. owed'[t] = IF pc'[t] = "head" THEN {} ELSE (S \ {cur'[t].to}) \cap ItemSet
    BY <1>2, <1>3, <1>5 DEF OwedStep
  <1>8. CASE link[n].to = Null
    <2>1. S \subseteq {Null}
      BY <1>1, <1>6, <1>8
    <2>2. S = {}
      BY <1>5, <2>1, OrderFacts DEF ListInv, ItemSet
    <2> QED BY <1>7, <2>2 DEF OwedOf
  <1>9. CASE link[n].to # Null
    <2>1. cur'[t].to = link[n].to
      <3>1. CASE LoadHead(t)
        <4>1. pc[t] = "head"
          BY <3>1 DEF LoadHead
        <4> QED BY <1>1, <1>4, <1>9, <3>1, <4>1 DEF LoadHead, ListTypes
      <3>2. CASE VisitAll(t)
        <4>1. pc[t] = "visit"
          BY <3>2 DEF VisitAll
        <4> QED BY <1>1, <1>4, <1>9, <3>2, <4>1 DEF VisitAll, Follow, ListTypes, To
      <3> QED BY <3>1, <3>2
    <2>2. pc'[t] = "visit"
      <3>1. CASE LoadHead(t)
        <4>1. pc[t] = "head"
          BY <3>1 DEF LoadHead
        <4> QED BY <1>1, <1>4, <1>9, <3>1, <4>1 DEF LoadHead, ListTypes, Goto
      <3>2. CASE VisitAll(t)
        <4>1. pc[t] = "visit"
          BY <3>2 DEF VisitAll
        <4> QED BY <1>1, <1>4, <1>9, <3>2, <4>1 DEF VisitAll, Follow
      <3> QED BY <3>1, <3>2
    <2>3. PICK x : x = link[n].to /\ Behind(x)' = Behind(x)
      BY <1>3
    <2>4. owed'[t] \subseteq ItemSet' /\ owed'[t] \subseteq Behind(x)
      BY <1>3, <1>5, <1>6, <1>7, <2>1, <2>2, <2>3
    <2>5. Behind(cur[t].to)' = Behind(x)
      BY <2>1, <2>3
    <2> QED BY <1>2, <2>2, <2>4, <2>5 DEF OwedOf
  <1> QED BY <1>8, <1>9

LEMMA MovingOwed ==
  ASSUME ListInv, AllWithin, OwedInv, ChainStep, NEW t \in Threads, Moving(t),
         Others(t), NoteOwed
  PROVE  OwedInv'
  <1>1. \A u \in Threads : OwedOf(u) /\ OwedStep(u)
    BY DEF OwedInv, OwedOf, NoteOwed, OwedStep
  <1>2. \A u \in Threads \ {t} : OwedOf(u)'
    BY <1>1, OwedKept DEF Others
  <1>3. ListTypes /\ CallInv(t) /\ OwedOf(t) /\ OwedStep(t)
    BY <1>1 DEF ListInv
  <1> SUFFICES OwedOf(t)'
    BY <1>2 DEF OwedInv, OwedOf
  <1>4. CASE op'[t] # "walk" \/ pc'[t] = "head"
    BY <1>3, <1>4 DEF OwedStep, OwedOf
  <1>5. CASE op'[t] = "walk" /\ pc'[t] # "head"
    <2>1. CASE Calling(t)
      BY <1>3, <1>5, <2>1 DEF Calling, CallInsert, CallOther, Return, Goto, ListTypes
    <2>2. CASE ~Calling(t)
      <3>1. op[t] = "walk"
        BY <1>5, <2>2 DEF Moving, Inserting, Searching, Unlinking, Take, InsertLoad,
           InsertCas, RemovingFront, Removing, RemovingWith, Containing, Walking,
           LoadHead, VisitFront, VisitRemove, VisitRemoveWith, VisitContains,
           VisitAll, Mark, Swing, Unmark
      <3>2. Walking(t)
        BY <1>3, <2>2, <3>1 DEF Moving, Inserting, Searching, Unlinking, Take,
           InsertLoad, InsertCas, RemovingFront, Removing, RemovingWith, Containing,
           Mark, Swing, Unmark, CallInv, Insertion, AtNode, Removers, ByKey, Steps
      <3> QED BY <1>3, <3>1, <3>2, OwedMet DEF Walking
    <2> QED BY <2>1, <2>2
  <1> QED BY <1>4, <1>5
-----------------------------------------------------------------------------
LEMMA MovesAlone ==
  ASSUME ListTypes, NEW t \in Threads, Moving(t)
  PROVE  Others(t)
  <1> USE DEF Others, ListTypes, Goto, Finish, Restart, Follow, Aim, listVars
  <1>1. CASE Inserting(t)
    BY <1>1 DEF Inserting, InsertLoad, InsertCas
  <1>2. CASE LoadHead(t)
    BY <1>2 DEF LoadHead
  <1>3. CASE VisitFront(t)
    BY <1>3 DEF VisitFront
  <1>4. CASE VisitRemove(t)
    BY <1>4 DEF VisitRemove
  <1>5. CASE VisitRemoveWith(t)
    BY <1>5 DEF VisitRemoveWith
  <1>6. CASE VisitContains(t)
    BY <1>6 DEF VisitContains
  <1>7. CASE VisitAll(t)
    BY <1>7 DEF VisitAll
  <1>8. CASE Mark(t)
    BY <1>8 DEF Mark
  <1>9. CASE Swing(t)
    BY <1>9 DEF Swing
  <1>10. CASE Unmark(t)
    BY <1>10 DEF Unmark
  <1>11. CASE Take(t)
    BY <1>11 DEF Take
  <1>12. CASE Calling(t)
    BY <1>12 DEF Calling, CallInsert, CallOther, Return
  <1> QED
    BY <1>1, <1>2, <1>3, <1>4, <1>5, <1>6, <1>7, <1>8, <1>9, <1>10, <1>11, <1>12
    DEF Moving, Searching, RemovingFront, Removing, RemovingWith, Containing,
        Walking, Unlinking

(* A list that has been filled with different nodes, nobody uses it yet.   *)
LEMMA ListFilled ==
  ASSUME NEW start \in {"out", "work"}, NEW filled \in Seq(Nodes),
         \A i, j \in DOMAIN filled : filled[i] = filled[j] => i = j,
         ListInit(start, filled)
  PROVE  /\ ListInv /\ OutTagged /\ AllWithin /\ OwedInv
         /\ owed \in [Threads -> SUBSET Nodes]
         /\ \A t \in Threads : pc[t] = start
         /\ out = {} /\ order = filled
  <1>1. /\ pc = [t \in Threads |-> start]
        /\ op = [t \in Threads |-> "none"]
        /\ arg = [t \in Threads |-> Null]
        /\ prev = [t \in Threads |-> Root]
        /\ cur = [t \in Threads |-> To(Null)]
        /\ nxt = [t \in Threads |-> To(Null)]
        /\ found = [t \in Threads |-> To(Null)]
        /\ order = filled /\ out = {}
        /\ owed = [t \in Threads |-> {}]
    BY DEF ListInit
  <1>2. PICK k \in Nat : /\ DOMAIN filled = 1..k
                         /\ \A i \in 1..k : filled[i] \in Nodes
    <2>1. /\ Len(filled) \in Nat /\ DOMAIN filled = 1..Len(filled)
          /\ \A i \in 1..Len(filled) : filled[i] \in Nodes
      OBVIOUS
    <2> QED BY ONLY <2>1
  <1>3. \A m : /\ m \in Nodes \cup {Null} => To(m) \in Link
               /\ To(m).to = m /\ ~To(m).tag
    BY DEF To, Link
  <1>4. ASSUME NEW n \in Nodes \cup {Root}
        PROVE  /\ link[n] \in Link /\ ~link[n].tag
               /\ link[n].to = Null \/ \E i \in 1..k : link[n].to = filled[i]
               /\ \A i \in 1..k : (IF i = 1 THEN n = Root ELSE n = filled[i - 1]) =>
                    link[n].to = filled[i]
               /\ \A i \in 1..k : link[n].to = filled[i] =>
                    IF i = 1 THEN n = Root ELSE n = filled[i - 1]
    <2> DEFINE Next(m) ==
                 {i \in DOMAIN filled : IF i = 1 THEN m = Root ELSE m = filled[i - 1]}
    <2>1. link[n] = To(IF Next(n) = {} THEN Null ELSE filled[CHOOSE i \in Next(n) : TRUE])
      BY DEF ListInit
    <2>2. Next(n) = {i \in 1..k : IF i = 1 THEN n = Root ELSE n = filled[i - 1]}
      BY <1>2
    <2>3. \A i, j \in Next(n) : i = j
      <3>1. Root \notin Nodes
        BY ListAssumption
      <3>2. ASSUME NEW i \in Next(n), NEW j \in Next(n) PROVE i = j
        <4>1. i \in 1..k /\ j \in 1..k
          BY <2>2
        <4>2. CASE n = Root
          <5>1. \A h \in 1..k : h = 1 \/ h - 1 \in 1..k
            BY <1>2
          <5> QED BY <1>2, <2>2, <3>1, <4>1, <4>2, <5>1
        <4>3. CASE n # Root
          <5>1. i # 1 /\ j # 1 /\ filled[i - 1] = n /\ filled[j - 1] = n
            BY <2>2, <4>3
          <5>2. i - 1 \in 1..k /\ j - 1 \in 1..k
            BY <4>1, <5>1
          <5>3. i - 1 = j - 1
            BY <1>2, <5>1, <5>2
          <5> QED BY <4>1, <5>3
        <4> QED BY <4>2, <4>3
      <3> QED BY <3>2
    <2>4. CASE Next(n) = {}
      <3>1. link[n] = To(Null)
        BY <2>1, <2>4
      <3>2. \A i \in 1..k : ~(IF i = 1 THEN n = Root ELSE n = filled[i - 1])
        BY <2>2, <2>4
      <3> QED BY <1>2, <1>3, <3>1, <3>2, ListAssumption
    <2>5. ASSUME NEW j \in Next(n)
          PROVE  /\ j \in 1..k /\ (IF j = 1 THEN n = Root ELSE n = filled[j - 1])
                 /\ link[n] = To(filled[j])
      <3>1. (CHOOSE i \in Next(n) : TRUE) \in Next(n)
        BY <2>5
      <3>2. (CHOOSE i \in Next(n) : TRUE) = j
        BY <2>3, <2>5, <3>1
      <3>3. Next(n) # {}
        BY <2>5
      <3>4. link[n] = To(filled[j])
        <4> HIDE DEF Next
        <4> QED BY <2>1, <3>2, <3>3
      <3> QED BY <2>2, <2>5, <3>4
    <2>6. CASE Next(n) # {}
      <3>1. PICK j \in Next(n) : TRUE
        BY <2>6
      <3>2. /\ j \in 1..k /\ (IF j = 1 THEN n = Root ELSE n = filled[j - 1])
            /\ link[n] = To(filled[j])
        BY <2>5, <3>1
      <3>3. \A i \in 1..k : (IF i = 1 THEN n = Root ELSE n = filled[i - 1]) => i = j
        BY <2>2, <2>3, <3>1
      <3>4. filled[j] \in Nodes /\ \A i \in 1..k : filled[i] = filled[j] => i = j
        BY <1>2, <3>2
      <3> HIDE DEF Next
      <3> QED BY <1>3, <3>2, <3>3, <3>4
    <2> QED BY <2>4, <2>6
  <1>5. /\ Ordered = {filled[i] : i \in 1..k} /\ ItemSet = Ordered
        /\ Behind(Root) = Ordered /\ Ordered \subseteq Nodes
        /\ \A i \in 1..k : Behind(filled[i]) = {filled[j] : j \in i + 1..k}
    <2>1. Ordered = {filled[i] : i \in 1..k} /\ ItemSet = Ordered /\ Behind(Root) = Ordered
      BY <1>1, <1>2 DEF Ordered, ItemSet, Behind
    <2>2. ASSUME NEW i \in 1..k PROVE Behind(filled[i]) = {filled[j] : j \in i + 1..k}
      <3>1. filled[i] # Root
        BY <1>2, ListAssumption
      <3>2. Behind(filled[i]) =
              {filled[j] : j \in {h \in 1..k :
                                    \E g \in 1..h - 1 : filled[g] = filled[i]}}
        BY <1>1, <1>2, <3>1 DEF Behind
      <3>3. \A h \in 1..k : h \in i + 1..k <=> \E g \in 1..h - 1 : filled[g] = filled[i]
        <4>1. ASSUME NEW h \in 1..k, NEW g \in 1..h - 1, filled[g] = filled[i]
              PROVE  h \in i + 1..k
          <5>1. g \in 1..k
            BY <4>1
          <5>2. g = i
            BY <1>2, <4>1, <5>1
          <5> QED BY <4>1, <5>2
        <4>2. \A h \in i + 1..k : i \in 1..h - 1
          OBVIOUS
        <4> QED BY <4>1, <4>2
      <3>4. i + 1..k = {h \in 1..k : \E g \in 1..h - 1 : filled[g] = filled[i]}
        BY <3>3
      <3> QED BY <3>2, <3>4
    <2> QED BY <1>2, <2>1, <2>2
  <1>6. ListTypes
    <2> DEFINE Next(m) ==
                 {i \in DOMAIN filled : IF i = 1 THEN m = Root ELSE m = filled[i - 1]}
               First(m) == To(IF Next(m) = {} THEN Null
                              ELSE filled[CHOOSE i \in Next(m) : TRUE])
    <2>0. link = [n \in Nodes \cup {Root} |-> First(n)]
      BY DEF ListInit
    <2>1. DOMAIN link = Nodes \cup {Root} /\ link = [n \in DOMAIN link |-> link[n]]
      <3> HIDE DEF First
      <3> QED BY <2>0
    <2>2. link \in [Nodes \cup {Root} -> Link]
      BY <1>4, <2>1
    <2> QED BY <1>1, <1>3, <2>2 DEF ListTypes, Phase, Ops
  <1>7. OrderInv
    BY <1>1 DEF OrderInv
  <1>8. LinkInv
    <2>1. ASSUME NEW n \in Ordered \cup {Root}
          PROVE  /\ link[n].to \in Behind(n) \cup {Null}
                 /\ \A m \in Behind(n) \ out : m = link[n].to \/ m \in Behind(link[n].to)
      <3>1. n \in Nodes \cup {Root}
        BY <1>5
      <3>2. PICK j \in 0..k : /\ j = 0 => n = Root
                              /\ j # 0 => n = filled[j]
        BY <1>5
      <3>3. Behind(n) = {filled[i] : i \in j + 1..k}
        <4>1. CASE j = 0
          <5>1. n = Root /\ j + 1 = 1
            BY <3>2, <4>1
          <5> QED BY ONLY <1>5, <5>1
        <4>2. CASE j # 0
          <5>1. j \in 1..k /\ n = filled[j]
            BY <1>2, <3>2, <4>2
          <5> QED BY ONLY <1>5, <5>1
        <4> QED BY <4>1, <4>2
      <3>4. \A i \in 1..k : (IF i = 1 THEN n = Root ELSE n = filled[i - 1]) <=> i = j + 1
        <4>1. Root \notin Nodes /\ \A i \in 1..k : i = 1 \/ i - 1 \in 1..k
          BY <1>2, ListAssumption
        <4>2. CASE j = 0
          BY <1>2, <3>2, <4>1, <4>2
        <4>3. CASE j # 0
          <5>1. j \in 1..k /\ n = filled[j] /\ n # Root
            BY <1>2, <3>2, <4>1, <4>3
          <5>2. \A i \in 1..k : i # 1 => (n = filled[i - 1] <=> i - 1 = j)
            BY <1>2, <4>1, <5>1
          <5> QED BY <5>1, <5>2
        <4> QED BY <4>2, <4>3
      <3>5. CASE j = k
        <4>1. \A i \in 1..k : link[n].to # filled[i]
          BY <1>4, <3>1, <3>4, <3>5
        <4>2. link[n].to = Null /\ Behind(n) = {}
          BY <1>4, <3>1, <3>3, <3>5, <4>1
        <4> QED BY <4>2
      <3>6. CASE j # k
        <4>1. j + 1 \in 1..k
          BY <3>6
        <4>2. link[n].to = filled[j + 1]
          BY <1>4, <3>1, <3>4, <4>1
        <4>3. Behind(link[n].to) = {filled[i] : i \in j + 2..k}
          <5>1. PICK h \in 1..k : h = j + 1
            BY <4>1
          <5>2. Behind(filled[h]) = {filled[i] : i \in h + 1..k}
            BY <1>5
          <5>3. h + 1 = j + 2 /\ link[n].to = filled[h]
            BY <4>2, <5>1
          <5> QED BY ONLY <5>2, <5>3
        <4>4. j + 1..k = {j + 1} \cup j + 2..k
          BY <4>1
        <4> QED BY <3>3, <4>2, <4>3, <4>4
      <3> QED BY <3>5, <3>6
    <2> QED BY <1>1, <2>1 DEF LinkInv
  <1>9. TagInv /\ ApartInv
    BY <1>1, <1>4 DEF TagInv, ApartInv, Insertion, Holding
  <1>10. \A t \in Threads : CallInv(t) /\ HoldInv(t)
    BY <1>1, <1>3 DEF CallInv, HoldInv, Insertion, Holding, Steps, AtNode
  <1>11. AllWithin
    <2>1. \A n \in Ordered : link[n].to \in Ordered \cup {Null}
      BY <1>4, <1>5
    <2>2. \A t \in Threads : Within(t, Ordered)
      BY <1>1, <1>5, <2>1 DEF Within, AtNode
    <2> QED BY <1>5, <2>2 DEF AllWithin
  <1>12. OutTagged /\ OwedInv
    BY <1>1 DEF OutTagged, OwedInv
  <1> QED BY <1>1, <1>6, <1>7, <1>8, <1>9, <1>10, <1>11, <1>12 DEF ListInv

(* A list that starts empty. *)
LEMMA ListStart ==
  ASSUME NEW start \in {"out", "work"}, ListInit(start, <<>>)
  PROVE  /\ ListInv /\ OutTagged /\ AllWithin /\ OwedInv
         /\ owed \in [Threads -> SUBSET Nodes]
         /\ \A t \in Threads : pc[t] = start
         /\ out = {} /\ Ordered = {}
  <1>1. <<>> \in Seq(Nodes) /\ DOMAIN <<>> = {}
    OBVIOUS
  <1>2. /\ ListInv /\ OutTagged /\ AllWithin /\ OwedInv
        /\ owed \in [Threads -> SUBSET Nodes]
        /\ \A t \in Threads : pc[t] = start
        /\ out = {} /\ order = <<>>
    BY <1>1, ListFilled
  <1> QED BY <1>1, <1>2 DEF Ordered

(* A step that changes nothing of the list. *)
LEMMA ListStutter ==
  ASSUME ListInv, UNCHANGED <<listVars, pc, op, arg, owed>>
  PROVE  /\ ListInv' /\ (OutTagged => OutTagged') /\ (OwedInv => OwedInv')
         /\ \A u \in Threads : \A F : Within(u, F) => Within(u, F)'
  <1>1. UNCHANGED <<link, order, out, op, arg, prev, cur, nxt, found, pc, owed>>
    BY DEF listVars
  <1>2. /\ Ordered' = Ordered /\ ItemSet' = ItemSet
        /\ \A n : Behind(n)' = Behind(n)
    BY <1>1 DEF Ordered, ItemSet, Behind
  <1>3. ListTypes' /\ OrderInv' /\ TagInv' /\ ApartInv'
    BY <1>1, <1>2 DEF ListInv, ListTypes, OrderInv, TagInv, ApartInv
  <1>4. LinkInv'
    BY <1>1, ChainSame DEF ListInv, ChainStep
  <1>5. \A u \in Threads : CallInv(u)' /\ HoldInv(u)'
    BY <1>1, <1>2 DEF ListInv, CallInv, HoldInv
  <1>6. OutTagged => OutTagged'
    BY <1>1 DEF OutTagged
  <1>7. OwedInv => OwedInv'
    <2> SUFFICES ASSUME OwedInv, NEW u \in Threads PROVE OwedOf(u)'
      BY DEF OwedInv, OwedOf
    <2>1. PICK c : c = cur[u].to /\ Behind(c)' = Behind(c)
      BY <1>2
    <2>2. Behind(cur[u].to)' = Behind(c)
      BY <1>1, <2>1
    <2> QED BY <1>1, <1>2, <2>1, <2>2 DEF OwedInv, OwedOf
  <1>8. \A u \in Threads : \A F : Within(u, F) => Within(u, F)'
    BY <1>1, <1>2 DEF Within
  <1> QED BY <1>3, <1>4, <1>5, <1>6, <1>7, <1>8 DEF ListInv

(* What the invariant says of the chain of links and of the tags. *)
LEMMA ChainFollows == ListInv => ChainInOrder
  <1> SUFFICES ASSUME ListInv, NEW n \in ItemSet \cup {Root}
               PROVE  LET rest == Behind(n) \ out
                          next == link[n].to
                      IN  IF rest = {} THEN next = Null
                          ELSE next \in rest /\ rest \ {next} \subseteq Behind(next)
    BY DEF ChainInOrder
  <1>1. /\ n \in Ordered \cup {Root}
        /\ link[n].to \in Behind(n) \cup {Null} /\ link[n].to \notin out
        /\ \A m \in Behind(n) \ out : m = link[n].to \/ m \in Behind(link[n].to)
    BY DEF ListInv, LinkInv, ItemSet
  <1>2. Behind(Null) = {} /\ Null \notin Behind(n)
    BY OrderFacts DEF ListInv
  <1> QED BY <1>1, <1>2

LEMMA TagsFollow == ListInv /\ OutTagged => TagsAccountedFor
  <1> SUFFICES ASSUME ListInv, OutTagged, NEW n \in Nodes \cup {Root}
               PROVE  link[n].tag <=>
                        \/ n \in out
                        \/ \E t \in Threads :
                             pc[t] \in {"swing", "unmark"} /\ cur[t].to = n
    BY DEF TagsAccountedFor
  <1>1. ListTypes /\ TagInv /\ Root \notin Nodes
    BY ListAssumption DEF ListInv
  <1>2. ASSUME NEW t \in Threads, pc[t] \in Holding, cur[t].to = n
        PROVE  link[n].tag
    <2>1. nxt[t] \in Link /\ link[n] = Tagged(nxt[t])
      BY <1>1, <1>2 DEF ListInv, HoldInv, ListTypes
    <2> QED BY <2>1 DEF Tagged, Link
  <1>3. n \in out => link[n].tag
    BY DEF OutTagged
  <1>4. link[n].tag => n \in out \/ \E t \in Threads : pc[t] \in Holding /\ cur[t].to = n
    BY <1>1 DEF TagInv
  <1> QED BY <1>2, <1>3, <1>4 DEF Holding

LEMMA WalksFollow == OwedInv => WalkMeetsAll
  BY DEF OwedInv, WalkMeetsAll
-----------------------------------------------------------------------------
(* The contents of the list, and what the steps do to them. *)
ItemsInPlace ==
  LET k == Cardinality(ItemSet)
  IN  /\ IsFiniteSet(ItemSet) /\ k \in Nat
      /\ Items \in Seq(ItemSet) /\ Len(Items) = k /\ DOMAIN Items = 1..k
      /\ \A n \in ItemSet : Place(n) \in 1..k /\ Items[Place(n)] = n
      /\ \A i \in 1..k : Items[i] \in ItemSet /\ Place(Items[i]) = i
      /\ \A m, n \in ItemSet : n \in Behind(m) <=> Place(m) < Place(n)

LEMMA ItemsPlaced == ListTypes /\ OrderInv => ItemsInPlace
  <1> SUFFICES ASSUME ListTypes, OrderInv PROVE ItemsInPlace
    OBVIOUS
  <1>1. IsFiniteSet(Ordered)
    <2>1. Len(order) \in Nat /\ DOMAIN order = 1..Len(order)
      BY OrderFacts
    <2>2. IsFiniteSet(1..Len(order))
      BY <2>1, FS_Interval
    <2>3. order \in [1..Len(order) -> Ordered]
      BY <2>1 DEF ListTypes, Ordered
    <2>4. \A n \in Ordered : \E i \in 1..Len(order) : order[i] = n
      BY <2>1 DEF Ordered
    <2>5. order \in Surjection(1..Len(order), Ordered)
      BY <2>3, <2>4, Fun_IsSurj
    <2> QED BY <2>2, <2>5, FS_Surjection
  <1>2. IsFiniteSet(ItemSet)
    BY <1>1, FS_Subset DEF ItemSet
  <1>3. PICK k \in Nat : k = Cardinality(ItemSet)
    BY <1>2, FS_CardinalityType
  <1>4. \A n : /\ IsFiniteSet(ItemSet \ Behind(n)) /\ Place(n) \in Nat
               /\ Place(n) <= k
    <2> SUFFICES ASSUME NEW n, NEW S, S = ItemSet \ Behind(n)
                 PROVE  IsFiniteSet(S) /\ Cardinality(S) \in Nat /\ Cardinality(S) <= k
      BY DEF Place
    <2> QED BY <1>2, <1>3, FS_Subset, FS_CardinalityType
  <1>5. ASSUME NEW n \in ItemSet PROVE Place(n) \in 1..k
    <2>1. n \in ItemSet \ Behind(n)
      BY BehindIsOrder
    <2>2. Place(n) # 0
      BY <1>4, <2>1, FS_EmptySet DEF Place
    <2>3. PICK p \in Nat : p = Place(n) /\ p <= k
      BY <1>4
    <2> QED BY <1>3, <2>2, <2>3
  <1>6. ASSUME NEW m \in ItemSet, NEW n \in ItemSet, n \in Behind(m)
        PROVE  Place(m) < Place(n)
    <2>1. ItemSet \ Behind(m) \subseteq ItemSet \ Behind(n)
      BY <1>6, BehindIsOrder
    <2>2. ItemSet \ Behind(m) # ItemSet \ Behind(n)
      BY <1>6, BehindIsOrder
    <2>3. Place(m) <= Place(n) /\ Place(m) # Place(n)
      BY <1>4, <2>1, <2>2, FS_Subset DEF Place
    <2>4. PICK p \in Nat, q \in Nat : p = Place(m) /\ q = Place(n)
      BY <1>4
    <2> QED BY <2>3, <2>4
  <1>7. ASSUME NEW m \in ItemSet, NEW n \in ItemSet
        PROVE  /\ Place(m) = Place(n) => m = n
               /\ Place(m) < Place(n) => n \in Behind(m)
    <2>1. m = n \/ n \in Behind(m) \/ m \in Behind(n)
      BY BehindIsOrder DEF ItemSet
    <2>2. PICK p \in Nat, q \in Nat : p = Place(m) /\ q = Place(n)
      BY <1>4
    <2>3. /\ n \in Behind(m) => p < q
          /\ m \in Behind(n) => q < p
      BY <1>6, <2>2
    <2> QED BY <2>1, <2>2, <2>3
  <1>8. \A i \in 1..k : \E n \in ItemSet : Place(n) = i
    <2> DEFINE f == [n \in ItemSet |-> Place(n)]
    <2>1. f \in Injection(ItemSet, 1..k)
      <3>1. f \in [ItemSet -> 1..k]
        BY <1>5
      <3>2. \A m, n \in ItemSet : f[m] = f[n] => m = n
        BY <1>7
      <3> HIDE DEF f
      <3> QED BY <3>1, <3>2, Fun_IsInj
    <2>2. IsFiniteSet(1..k) /\ Cardinality(1..k) = k
      BY <1>3, FS_Interval
    <2>3. f \in Surjection(ItemSet, 1..k)
      <3> HIDE DEF f
      <3> QED BY <1>3, <2>1, <2>2, FS_Injection
    <2>4. \A i \in 1..k : \E n \in ItemSet : f[n] = i
      <3> HIDE DEF f
      <3> QED BY <2>3, Fun_SurjectionProperties
    <2> QED BY <2>4
  <1>9. /\ DOMAIN Items = 1..k
        /\ \A i \in 1..k : Items[i] = CHOOSE n \in ItemSet : Place(n) = i
    BY <1>3 DEF Items
  <1>10. \A i \in 1..k : Items[i] \in ItemSet /\ Place(Items[i]) = i
    BY <1>8, <1>9
  <1>11. \A n \in ItemSet : Items[Place(n)] = n
    BY <1>5, <1>7, <1>10
  <1>12. Items \in Seq(ItemSet) /\ Len(Items) = k
    <2>1. Items = [i \in 1..k |-> Items[i]]
      BY <1>3, <1>9 DEF Items
    <2>2. Items \in [1..k -> ItemSet]
      BY <1>10, <2>1
    <2> QED BY <1>3, <2>2
  <1> QED
    BY <1>2, <1>3, <1>5, <1>6, <1>7, <1>9, <1>10, <1>11, <1>12 DEF ItemsInPlace

LEMMA ItemsAfter ==
  ASSUME ListTypes', OrderInv'
  PROVE  ItemsInPlace'
  <1>1. (ListTypes /\ OrderInv => ItemsInPlace)'
    BY ItemsPlaced, PTL
  <1> QED BY <1>1

LEMMA ItemsSame ==
  ASSUME UNCHANGED <<order, out>>
  PROVE  Items' = Items
  BY DEF Items, Place, ItemSet, Ordered, Behind

LEMMA ItemsInsert ==
  ASSUME ListTypes, OrderInv, ListTypes', OrderInv', NEW a \in Nodes \ Ordered,
         order' = <<a>> \o order, out' = out
  PROVE  Items' = <<a>> \o Items
  <1>1. ItemsInPlace /\ ItemsInPlace'
    BY ItemsPlaced, ItemsAfter
  <1>2. /\ Ordered' = Ordered \cup {a} /\ Behind(a)' = Ordered
        /\ \A n \in Ordered : Behind(n)' = Behind(n)
        /\ \A n : Behind(n) \subseteq Ordered
    BY BehindInserted, OrderFacts
  <1>3. ItemSet' = ItemSet \cup {a} /\ a \notin ItemSet
    BY <1>2 DEF ItemSet, OrderInv
  <1>4. PICK k \in Nat : k = Cardinality(ItemSet)
    BY <1>1 DEF ItemsInPlace
  <1>5. Cardinality(ItemSet') = k + 1
    BY <1>1, <1>3, <1>4, FS_AddElement DEF ItemsInPlace
  <1>6. Place(a)' = 1
    <2>1. ItemSet' \ Behind(a)' = {a}
      BY <1>2, <1>3 DEF ItemSet
    <2> QED BY <2>1, FS_Singleton DEF Place
  <1>7. ASSUME NEW n \in ItemSet PROVE Place(n)' = Place(n) + 1
    <2>1. PICK S : S = ItemSet \ Behind(n)
      OBVIOUS
    <2>2. ItemSet' \ Behind(n)' = S \cup {a} /\ a \notin S
      BY <1>2, <1>3, <2>1 DEF ItemSet
    <2>3. IsFiniteSet(S)
      BY <1>1, <2>1, FS_Subset DEF ItemsInPlace
    <2> QED BY <2>1, <2>2, <2>3, FS_AddElement DEF Place
  <1>8. PICK old : old = Items
    OBVIOUS
  <1>9. /\ old \in Seq(ItemSet') /\ Len(old) = k
        /\ \A i \in 1..k : old[i] \in ItemSet /\ Place(old[i])' = i + 1
    BY <1>1, <1>3, <1>4, <1>7, <1>8 DEF ItemsInPlace
  <1>10. PICK new : new = Items'
    OBVIOUS
  <1>11. /\ new \in Seq(ItemSet') /\ Len(new) = k + 1
         /\ \A n \in ItemSet' : new[Place(n)'] = n
    BY <1>1, <1>5, <1>10 DEF ItemsInPlace
  <1>12. PICK s : s = <<a>> \o old
    OBVIOUS
  <1>13. /\ s \in Seq(ItemSet') /\ Len(s) = k + 1 /\ s[1] = a
         /\ \A i \in 1..k : s[i + 1] = old[i]
    BY <1>3, <1>4, <1>9, <1>12
  <1>14. ASSUME NEW i \in 1..k + 1 PROVE new[i] = s[i]
    <2>1. CASE i = 1
      BY <1>3, <1>6, <1>11, <1>13, <2>1
    <2>2. CASE i # 1
      <3>1. PICK j \in 1..k : i = j + 1
        <4>1. i - 1 \in 1..k /\ i = (i - 1) + 1
          BY <1>4, <2>2
        <4> QED BY <4>1
      <3>2. PICK n \in ItemSet : n = old[j]
        BY <1>9
      <3>3. Place(n)' = i
        BY <1>9, <3>1, <3>2
      <3> QED BY <1>3, <1>11, <1>13, <3>1, <3>2, <3>3
    <2> QED BY <2>1, <2>2
  <1>15. new = s
    BY <1>11, <1>13, <1>14, SeqEqual
  <1> QED BY <1>8, <1>10, <1>12, <1>15

LEMMA WithoutIs ==
  ASSUME NEW S, NEW s \in Seq(S), NEW i \in 1..Len(s)
  PROVE  /\ List!Without(s, i) \in Seq(S)
         /\ Len(List!Without(s, i)) = Len(s) - 1
         /\ \A j \in 1..Len(s) - 1 :
              List!Without(s, i)[j] = IF j < i THEN s[j] ELSE s[j + 1]
  <1>1. PICK k \in Nat : k = Len(s)
    OBVIOUS
  <1>2. i \in 1..k /\ k > 0
    BY <1>1
  <1>3. \A j \in 1..k : s[j] \in S
    BY <1>1
  <1>4. PICK u : u = SubSeq(s, 1, i - 1)
    OBVIOUS
  <1>5. PICK v : v = SubSeq(s, i + 1, k)
    OBVIOUS
  <1>6. /\ u \in Seq(S) /\ Len(u) = i - 1
        /\ \A j \in 1..i - 1 : u[j] = s[j]
    <2>1. 1 \in Int /\ i - 1 \in Int /\ \A j \in 1..i - 1 : s[j] \in S
      BY <1>2, <1>3
    <2>2. /\ u \in Seq(S)
          /\ Len(u) = IF 1 <= i - 1 THEN (i - 1) - 1 + 1 ELSE 0
          /\ \A j \in 1..(i - 1) - 1 + 1 : u[j] = s[1 + j - 1]
      BY <1>4, <2>1, SubSeqProperties
    <2> QED BY <1>2, <2>2
  <1>7. /\ v \in Seq(S) /\ Len(v) = k - i
        /\ \A j \in 1..k - i : v[j] = s[i + j]
    <2>1. i + 1 \in Int /\ k \in Int /\ \A j \in i + 1..k : s[j] \in S
      BY <1>2, <1>3
    <2>2. /\ v \in Seq(S)
          /\ Len(v) = IF i + 1 <= k THEN k - (i + 1) + 1 ELSE 0
          /\ \A j \in 1..k - (i + 1) + 1 : v[j] = s[(i + 1) + j - 1]
      BY <1>5, <2>1, SubSeqProperties
    <2>3. \A j \in 1..k - i : (i + 1) + j - 1 = i + j
      BY <1>2
    <2>4. k - (i + 1) + 1 = k - i
      BY <1>2
    <2> QED BY <1>2, <2>2, <2>3, <2>4
  <1>8. List!Without(s, i) = u \o v
    BY <1>1, <1>4, <1>5 DEF List!Without
  <1>9. PICK w : w = u \o v
    OBVIOUS
  <1>10. /\ w \in Seq(S) /\ Len(w) = k - 1
         /\ \A j \in 1..k - 1 : w[j] = IF j <= i - 1 THEN u[j] ELSE v[j - (i - 1)]
    <2>1. Len(u) + Len(v) = k - 1
      BY <1>2, <1>6, <1>7
    <2> QED BY <1>6, <1>7, <1>9, <2>1, ConcatProperties
  <1>11. ASSUME NEW j \in 1..k - 1
         PROVE  w[j] = IF j < i THEN s[j] ELSE s[j + 1]
    <2>1. CASE j < i
      BY <1>2, <1>6, <1>10, <2>1
    <2>2. CASE ~(j < i)
      <3>1. j - (i - 1) \in 1..k - i /\ i + (j - (i - 1)) = j + 1 /\ ~(j <= i - 1)
        BY <1>2, <2>2
      <3> QED BY <1>7, <1>10, <2>2, <3>1
    <2> QED BY <2>1, <2>2
  <1> QED BY <1>1, <1>8, <1>9, <1>10, <1>11

LEMMA ItemsRemove ==
  ASSUME ListTypes, OrderInv, ListTypes', OrderInv', NEW c \in ItemSet,
         order' = order, out' = out \cup {c}
  PROVE  /\ Place(c) \in DOMAIN Items /\ Items[Place(c)] = c
         /\ Items' = List!Without(Items, Place(c))
  <1>1. ItemsInPlace /\ ItemsInPlace'
    BY ItemsPlaced, ItemsAfter
  <1>2. \A n : Behind(n)' = Behind(n)
    BY DEF Behind
  <1>3. ItemSet' = ItemSet \ {c}
    BY DEF ItemSet, Ordered
  <1>4. PICK k \in Nat : k = Cardinality(ItemSet)
    BY <1>1 DEF ItemsInPlace
  <1>5. PICK i \in 1..k : i = Place(c)
    BY <1>1, <1>4 DEF ItemsInPlace
  <1>6. Cardinality(ItemSet') = k - 1
    BY <1>1, <1>3, <1>4, FS_RemoveElement DEF ItemsInPlace
  <1>7. ASSUME NEW n \in ItemSet \ {c}
        PROVE  Place(n)' = IF Place(n) < i THEN Place(n) ELSE Place(n) - 1
    <2>1. PICK S : S = ItemSet \ Behind(n)
      OBVIOUS
    <2>2. ItemSet' \ Behind(n)' = S \ {c}
      BY <1>2, <1>3, <2>1
    <2>3. IsFiniteSet(S)
      BY <1>1, <2>1, FS_Subset DEF ItemsInPlace
    <2>4. c \in S <=> ~(Place(n) < i)
      BY <1>1, <1>5, <2>1 DEF ItemsInPlace
    <2> QED BY <2>1, <2>2, <2>3, <2>4, FS_RemoveElement DEF Place
  <1>8. PICK old : old = Items
    OBVIOUS
  <1>9. /\ old \in Seq(Nodes) /\ Len(old) = k
        /\ \A j \in 1..k : old[j] \in ItemSet /\ Place(old[j]) = j
        /\ old[i] = c /\ \A j \in 1..k : j # i => old[j] # c
    <2>1. ItemSet \subseteq Nodes
      BY OrderFacts DEF ItemSet
    <2> QED BY <1>1, <1>4, <1>5, <1>8, <2>1 DEF ItemsInPlace
  <1>10. PICK new : new = Items'
    OBVIOUS
  <1>11. /\ new \in Seq(Nodes) /\ Len(new) = k - 1
         /\ \A n \in ItemSet' : new[Place(n)'] = n
    <2>1. ItemSet' \subseteq Nodes
      BY <1>3, OrderFacts DEF ItemSet
    <2> QED BY <1>1, <1>6, <1>10, <2>1 DEF ItemsInPlace
  <1>12. PICK w : w = List!Without(old, i)
    OBVIOUS
  <1>13. /\ w \in Seq(Nodes) /\ Len(w) = k - 1
         /\ \A j \in 1..k - 1 : w[j] = IF j < i THEN old[j] ELSE old[j + 1]
    BY <1>5, <1>9, <1>12, WithoutIs
  <1>14. ASSUME NEW j \in 1..k - 1 PROVE new[j] = w[j]
    <2>1. PICK h \in 1..k : /\ h = IF j < i THEN j ELSE j + 1
                            /\ h # i /\ w[j] = old[h]
      <3>1. (IF j < i THEN j ELSE j + 1) \in 1..k \ {i}
        BY <1>4, <1>5
      <3> QED BY <1>13, <3>1
    <2>2. PICK n \in ItemSet \ {c} : n = old[h] /\ Place(n) = h
      BY <1>9, <2>1
    <2>3. Place(n)' = j
      BY <1>5, <1>7, <2>1, <2>2
    <2> QED BY <1>3, <1>11, <2>1, <2>2, <2>3
  <1>15. new = w
    BY <1>11, <1>13, <1>14, SeqEqual
  <1>16. Place(c) \in DOMAIN Items /\ Items[Place(c)] = c
    BY <1>1 DEF ItemsInPlace
  <1> QED BY <1>5, <1>8, <1>10, <1>12, <1>15, <1>16

-----------------------------------------------------------------------------
(* What a call knows of the contents of the list. *)
Results == Nodes \cup {Null, "done", "found", "pending"}
Runs == Steps \ {"take"}
There(t) == \E n \in ItemSet : Matches(t, n)

(* Where the thread is, and what it has called. *)
OpenInv(t) ==
  /\ pc[t] \in Steps \cup {"work", "return"}
  /\ pc[t] # "return" => result[t] = "pending"
  /\ pc[t] = "return" => result[t] # "pending"
  /\ pc[t] = "work" <=> op[t] = "none"
  /\ op[t] = "remove_front" /\ pc[t] \in AtNode => prev[t] = Root
  /\ op[t] = "remove_front" /\ pc[t] = "unmark" => found[t].to # Null

(* What it looks for is noted at every moment, *)
SawInv(t) ==
  /\ Looking(t) => (There(t) \in saw[t])
  /\ ~Looking(t) => saw[t] = {}

(* and has been there if the thread can still get to it. *)
SeenWithin(t, F) ==
  Looking(t) => \A n \in F : Matches(t, n) => TRUE \in saw[t]

(* A node that was there all the time is not behind the thread. *)
Ahead(t) ==
  op[t] \in ByKey /\ pc[t] = "visit" /\ FALSE \notin saw[t]
    /\ ~List!Twice(arg[t]) =>
      \E n \in ItemSet : Data[n] = arg[t] /\ n \in {cur[t].to} \cup Behind(cur[t].to)

KeyedInv ==
  /\ ListInv /\ OutTagged
  /\ result \in [Threads -> Results] /\ saw \in [Threads -> SUBSET BOOLEAN]
  /\ \A t \in Threads :
       /\ OpenInv(t) /\ SawInv(t) /\ Ahead(t)
       /\ \E F \in SUBSET Nodes : Within(t, F) /\ SeenWithin(t, F)

(* The steps, as the promise tells them apart. *)
Inside(t) ==
  pc[t] \in Runs /\ pc'[t] \in Runs /\ UNCHANGED <<order, out, op, arg, result>>

Answers(t, r) ==
  /\ pc[t] \in {"head", "visit"} /\ pc'[t] = "return"
  /\ result' = [result EXCEPT ![t] = r]
  /\ UNCHANGED <<order, out, op, arg>>

Absence(t) ==
  /\ op[t] \in ByKey \cup {"remove_front", "is_empty"}
  /\ FALSE \in saw[t] \/ (op[t] \in ByKey /\ List!Twice(arg[t]))

Answering(t) ==
  \/ Answers(t, Null) /\ Absence(t)
  \/ Answers(t, "found") /\ op[t] \in {"contains", "is_empty"} /\ TRUE \in saw[t]
  \/ Answers(t, "done") /\ op[t] = "walk"

LEMMA LookingAtHead ==
  ASSUME KeyedInv, NEW t \in Threads, pc[t] = "head", link[Root].to = Null,
         op[t] # "walk"
  PROVE  Absence(t)
  <1>1. ItemSet = {}
    <2>1. LinkInv /\ Behind(Root) = Ordered /\ Behind(Null) = {} /\ Null \notin Ordered
      BY OrderFacts DEF KeyedInv, ListInv
    <2> QED BY <2>1 DEF LinkInv, ItemSet
  <1>2. There(t) = FALSE
    BY <1>1 DEF There
  <1>3. op[t] \in ByKey \cup {"remove_front", "is_empty"}
    <2>1. op[t] \in Ops /\ CallInv(t) /\ OpenInv(t)
      BY DEF KeyedInv, ListInv, ListTypes
    <2> QED BY <2>1 DEF CallInv, OpenInv, Steps, Insertion, Ops
  <1>4. Looking(t) /\ SawInv(t)
    BY <1>3 DEF Looking, Steps, KeyedInv
  <1> QED BY <1>2, <1>3, <1>4 DEF SawInv, Absence

LEMMA LookingAtEnd ==
  ASSUME KeyedInv, NEW t \in Threads, pc[t] = "visit", op[t] \in ByKey, ~Hit(t),
         link[cur[t].to].to = Null
  PROVE  Absence(t)
  <1> SUFFICES ASSUME ~Absence(t) PROVE FALSE
    OBVIOUS
  <1>1. PICK n \in ItemSet :
          Data[n] = arg[t] /\ n \in {cur[t].to} \cup Behind(cur[t].to)
    BY DEF Absence, KeyedInv, Ahead
  <1>2. n \in Behind(cur[t].to) /\ n \notin out
    BY <1>1 DEF Hit, ItemSet
  <1>3. cur[t].to \in Ordered
    <2>1. PICK F : Within(t, F)
      BY DEF KeyedInv
    <2> QED BY <2>1 DEF Within, AtNode
  <1>4. LinkInv /\ Behind(Null) = {} /\ n # Null
    BY <1>1, OrderFacts DEF KeyedInv, ListInv, ItemSet
  <1> QED BY <1>2, <1>3, <1>4 DEF LinkInv

LEMMA LookingAtNode ==
  ASSUME KeyedInv, NEW t \in Threads, pc[t] = "visit",
         \/ op[t] = "is_empty"
         \/ op[t] \in ByKey /\ Hit(t)
  PROVE  TRUE \in saw[t]
  <1>1. PICK F : Within(t, F) /\ SeenWithin(t, F)
    BY DEF KeyedInv
  <1>2. cur[t].to \in F /\ Looking(t)
    BY <1>1 DEF Within, AtNode, Looking, Steps
  <1>3. Matches(t, cur[t].to)
    BY DEF Matches, Hit, ByKey
  <1> QED BY <1>1, <1>2, <1>3 DEF SeenWithin

LEMMA Answered ==
  ASSUME KeyedInv, NEW t \in Threads, Searching(t)
  PROVE  Inside(t) \/ Answering(t)
  <1>1. pc \in [Threads -> Phase] /\ result \in [Threads -> Results]
    BY DEF KeyedInv, ListInv, ListTypes
  <1> USE DEF Inside, Goto, Finish, Runs, Steps
  <1>2. CASE LoadHead(t)
    <2>1. CASE link[Root].to # Null
      BY <1>1, <1>2, <2>1 DEF LoadHead
    <2>2. CASE link[Root].to = Null
      <3>1. Answers(t, IF op[t] = "walk" THEN "done" ELSE Null)
        BY <1>1, <1>2, <2>2 DEF LoadHead, Answers
      <3> QED BY <1>2, <2>2, <3>1, LookingAtHead DEF Answering, LoadHead
    <2> QED BY <2>1, <2>2
  <1>3. ASSUME NEW none, Follow(t, none), pc[t] = "visit",
               UNCHANGED <<op, arg, order, out>>
        PROVE  Inside(t) \/ (link[cur[t].to].to = Null /\ Answers(t, none))
    BY <1>1, <1>3 DEF Follow, Answers
  <1>4. ASSUME Restart(t) \/ \E l : Aim(t, l), pc[t] = "visit",
               UNCHANGED <<op, arg, order, out>>
        PROVE  Inside(t)
    BY <1>1, <1>4 DEF Restart, Aim
  <1>5. ASSUME Follow(t, Null), pc[t] = "visit", op[t] \in ByKey, ~Hit(t),
               UNCHANGED <<op, arg, order, out>>
        PROVE  Inside(t) \/ Answering(t)
    BY <1>3, <1>5, LookingAtEnd DEF Answering
  <1>6. CASE VisitFront(t)
    BY <1>4, <1>6 DEF VisitFront
  <1>7. CASE VisitRemove(t)
    BY <1>4, <1>5, <1>7 DEF VisitRemove, ByKey
  <1>8. CASE VisitRemoveWith(t)
    BY <1>4, <1>5, <1>8 DEF VisitRemoveWith, ByKey
  <1>9. CASE VisitContains(t)
    <2>1. CASE Hit(t)
      <3>1. Answers(t, "found")
        BY <1>1, <1>9, <2>1 DEF VisitContains, Answers
      <3> QED BY <1>9, <2>1, <3>1, LookingAtNode DEF Answering, VisitContains, ByKey
    <2> QED BY <1>4, <1>5, <1>9, <2>1 DEF VisitContains, ByKey
  <1>10. CASE VisitAll(t)
    BY <1>3, <1>10, LookingAtNode DEF Answering, VisitAll
  <1> QED
    BY <1>2, <1>6, <1>7, <1>8, <1>9, <1>10
    DEF Searching, RemovingFront, Removing, RemovingWith, Containing, Walking
(* The moment at which a node is taken out. *)
Removal(t, c) ==
  /\ pc[t] = "swing" /\ pc'[t] = "take" /\ c \in ItemSet
  /\ cur[t].to = c /\ cur'[t].to = c
  /\ op[t] \in Removers /\ Matches(t, c)
  /\ op[t] = "remove_front" => link[Root].to = c
  /\ out' = out \cup {c} /\ UNCHANGED <<order, op, arg, result>>

LEMMA Unlinked ==
  ASSUME KeyedInv, NEW t \in Threads, Unlinking(t)
  PROVE  Inside(t) \/ \E c : Removal(t, c)
  <1>1. /\ pc \in [Threads -> Phase] /\ op[t] \in Ops
        /\ CallInv(t) /\ OpenInv(t) /\ HoldInv(t)
    BY DEF KeyedInv, ListInv, ListTypes
  <1>2. CASE Mark(t)
    BY <1>1, <1>2 DEF Mark, Inside, Goto, Restart, Runs, Steps
  <1>3. CASE Swing(t)
    <2>1. CASE link[prev[t]] # Expected(t)
      BY <1>1, <1>3, <2>1 DEF Swing, Inside, Goto, Runs, Steps
    <2>2. CASE link[prev[t]] = Expected(t)
      <3>1. pc[t] = "swing" /\ cur' = cur /\ pc'[t] = "take"
        BY <1>1, <1>3, <2>2 DEF Swing, Goto
      <3>2. cur[t].to \in ItemSet
        BY <1>1, <3>1 DEF HoldInv, Holding
      <3>3. op[t] \in Removers /\ (op[t] # "remove_front" => Data[cur[t].to] = arg[t])
        BY <1>1, <3>1 DEF CallInv, AtNode
      <3>4. Matches(t, cur[t].to)
        BY <3>3 DEF Matches, ByKey
      <3>5. op[t] = "remove_front" => link[Root].to = cur[t].to
        BY <1>1, <2>2, <3>1 DEF OpenInv, AtNode, Expected
      <3>6. out' = out \cup {cur[t].to} /\ UNCHANGED <<order, op, arg, result>>
        BY <1>3, <2>2 DEF Swing
      <3> QED BY <3>1, <3>2, <3>3, <3>4, <3>5, <3>6 DEF Removal
    <2> QED BY <2>1, <2>2
  <1>4. CASE Unmark(t)
    <2>1. op[t] = "remove_front" => found[t].to # Null
      BY <1>1, <1>4 DEF Unmark, OpenInv
    <2> QED BY <1>1, <1>4, <2>1 DEF Unmark, Inside, Goto, Restart, Runs, Steps
  <1> QED BY <1>2, <1>3, <1>4 DEF Unlinking

(* A new node is in the list. *)
Adds(t) ==
  /\ pc[t] = "ins_cas" /\ pc'[t] = "return" /\ op[t] = "insert"
  /\ arg[t] \in Nodes \ Ordered /\ order' = <<arg[t]>> \o order
  /\ result' = [result EXCEPT ![t] = "done"] /\ UNCHANGED <<out, op, arg>>

LEMMA Inserted ==
  ASSUME KeyedInv, NEW t \in Threads, Inserting(t)
  PROVE  Inside(t) \/ Adds(t)
  <1>1. /\ pc \in [Threads -> Phase] /\ result \in [Threads -> Results] /\ CallInv(t)
    BY DEF KeyedInv, ListInv, ListTypes
  <1>2. CASE InsertLoad(t)
    BY <1>1, <1>2 DEF InsertLoad, Inside, Goto, Runs, Steps
  <1>3. CASE InsertCas(t)
    <2>1. CASE link[Root] # found[t]
      BY <1>1, <1>3, <2>1 DEF InsertCas, Inside, Runs, Steps
    <2>2. CASE link[Root] = found[t]
      BY <1>1, <1>3, <2>2 DEF InsertCas, Adds, Finish, Goto, CallInv, Insertion
    <2> QED BY <2>1, <2>2
  <1> QED BY <1>2, <1>3 DEF Inserting

(* Before and after. *)
Called(t) ==
  /\ pc[t] = "work" /\ pc'[t] \in {"ins_load", "head"}
  /\ \E o \in List!Ops : op' = [op EXCEPT ![t] = o]
  /\ \E v \in Nodes \cup Values \cup {Null} : arg' = [arg EXCEPT ![t] = v]
  /\ op'[t] = "insert" <=> pc'[t] = "ins_load"
  /\ UNCHANGED <<order, out, result>>

Returned(t) ==
  /\ pc[t] = "return" /\ pc'[t] = "work"
  /\ op' = [op EXCEPT ![t] = "none"] /\ arg' = [arg EXCEPT ![t] = Null]
  /\ result' = [result EXCEPT ![t] = "pending"]
  /\ UNCHANGED <<order, out>>

Taken(t) ==
  /\ pc[t] = "take" /\ pc'[t] = "return" /\ cur[t].to \in Nodes
  /\ result' = [result EXCEPT ![t] = cur[t].to]
  /\ UNCHANGED <<order, out, op, arg>>

LEMMA CalledOrReturned ==
  ASSUME KeyedInv, NEW t \in Threads, Calling(t) \/ Take(t)
  PROVE  Called(t) \/ Returned(t) \/ Taken(t)
  <1>1. /\ pc \in [Threads -> Phase] /\ op \in [Threads -> Ops]
        /\ result \in [Threads -> Results]
    BY DEF KeyedInv, ListInv, ListTypes
  <1>2. List!Ops = Ops \ {"none"}
    BY DEF List!Ops, List!ByKey, List!AtFront, Ops, ByKey
  <1>3. CASE CallInsert(t)
    <2>1. PICK n \in Nodes : arg' = [arg EXCEPT ![t] = n]
      BY <1>3 DEF CallInsert, Unused
    <2> QED BY <1>1, <1>2, <1>3, <2>1 DEF CallInsert, Called, Goto, listVars, Ops
  <1>4. ASSUME NEW c \in May[t], CallOther(t, c) PROVE Called(t)
    <2>1. c[1] \in Ops \ {"insert", "none"} /\ c[2] \in Values \cup {Null}
      BY <1>4, ListAssumption, CallShape DEF CallOther
    <2> QED BY <1>1, <1>2, <1>4, <2>1 DEF CallOther, Called, Goto, listVars
  <1>5. CASE Return(t)
    BY <1>1, <1>5 DEF Return, Returned, Goto
  <1>6. CASE Take(t)
    <2>1. cur[t].to \in Nodes
      <3>1. pc[t] = "take" /\ AllWithin
        BY <1>6 DEF Take, KeyedInv, AllWithin
      <3> QED BY <3>1, AtPlace DEF AtNode, KeyedInv
    <2> QED BY <1>1, <1>6, <2>1 DEF Take, Taken, Finish, Goto
  <1> QED BY <1>3, <1>4, <1>5, <1>6 DEF Calling

LEMMA Effects ==
  ASSUME KeyedInv, NEW t \in Threads, Moving(t)
  PROVE  \/ Inside(t) \/ Answering(t) \/ Adds(t) \/ \E c : Removal(t, c)
         \/ Called(t) \/ Returned(t) \/ Taken(t)
  BY Answered, Unlinked, Inserted, CalledOrReturned DEF Moving
-----------------------------------------------------------------------------
LEMMA ResultMoves ==
  ASSUME KeyedInv, NEW t \in Threads, Moving(t)
  PROVE  /\ result' \in [Threads -> Results]
         /\ \A u \in Threads \ {t} : result'[u] = result[u]
         /\ pc'[t] \in Steps \cup {"work", "return"}
         /\ pc'[t] # "return" => result'[t] = "pending"
         /\ pc'[t] = "return" => result'[t] # "pending"
         /\ pc'[t] = "work" <=> op'[t] = "none"
  <1>1. /\ result \in [Threads -> Results] /\ OpenInv(t) /\ op[t] \in Ops
        /\ op \in [Threads -> Ops]
    BY DEF KeyedInv, ListInv, ListTypes
  <1> USE DEF Results, OpenInv, Runs, Steps
  <1>2. CASE Inside(t)
    BY <1>1, <1>2 DEF Inside
  <1>3. CASE Answering(t)
    BY <1>1, <1>3, ListAssumption DEF Answering, Answers
  <1>4. CASE Adds(t)
    BY <1>1, <1>4 DEF Adds
  <1>5. ASSUME NEW c, Removal(t, c)
        PROVE  result' = result /\ pc'[t] = "take" /\ op' = op /\ pc[t] = "swing"
    BY <1>5 DEF Removal
  <1>6. CASE Called(t)
    <2>1. op'[t] # "none"
      BY <1>1, <1>6 DEF Called, List!Ops, List!ByKey, List!AtFront
    <2> QED BY <1>1, <1>6, <2>1 DEF Called
  <1>7. CASE Returned(t)
    BY <1>1, <1>7 DEF Returned
  <1>8. CASE Taken(t)
    BY <1>1, <1>8, ListAssumption DEF Taken
  <1> QED BY <1>1, <1>2, <1>3, <1>4, <1>5, <1>6, <1>7, <1>8, Effects

(* Where remove_front is. *)
LEMMA FrontMoves ==
  ASSUME KeyedInv, NEW t \in Threads, Moving(t), op'[t] = "remove_front"
  PROVE  /\ pc'[t] \in AtNode => prev'[t] = Root
         /\ pc'[t] = "unmark" => found'[t].to # Null
  <1>1. /\ pc \in [Threads -> Phase] /\ OpenInv(t) /\ ListTypes /\ CallInv(t)
        /\ HoldInv(t) /\ AllWithin /\ LinkInv
    BY DEF KeyedInv, ListInv, ListTypes, AllWithin
  <1>2. pc[t] \notin AtNode => prev[t] = Root
    BY <1>1, AtPlace DEF KeyedInv
  <1>3. CASE Calling(t) \/ Inserting(t)
    <2>1. pc'[t] \notin AtNode
      BY <1>1, <1>3 DEF Calling, CallInsert, CallOther, Return, Inserting, InsertLoad,
         InsertCas, Goto, Finish, AtNode
    <2> QED BY <2>1 DEF AtNode
  <1>4. CASE op[t] = "remove_front" /\ Searching(t)
    BY <1>1, <1>2, <1>4 DEF Searching, RemovingFront, Removing, RemovingWith,
       Containing, Walking, LoadHead, VisitFront, Restart, Aim, Finish, Goto, OpenInv,
       AtNode, ListTypes
  <1>5. CASE op[t] = "remove_front" /\ Mark(t)
    BY <1>1, <1>5 DEF Mark, Goto, OpenInv, AtNode
  <1>6. CASE op[t] = "remove_front" /\ Swing(t)
    <2>1. link[Root].to # Null
      <3>1. cur[t].to \in ItemSet
        BY <1>1, <1>6 DEF Swing, HoldInv, Holding
      <3>2. Behind(Root) = Ordered /\ Behind(Null) = {} /\ Null \notin Ordered
        BY <1>1, OrderFacts
      <3> QED BY <1>1, <3>1, <3>2 DEF LinkInv, ItemSet
    <2> QED BY <1>1, <1>6, <2>1 DEF Swing, Goto, OpenInv, AtNode, ListTypes
  <1>7. CASE op[t] = "remove_front" /\ Unmark(t)
    BY <1>1, <1>7 DEF Unmark, Restart, Finish, Goto, OpenInv, AtNode
  <1>8. CASE Take(t)
    BY <1>1, <1>8 DEF Take, Finish, Goto, AtNode
  <1>9. op[t] = "remove_front" \/ Calling(t)
    BY DEF Moving, Inserting, Searching, Unlinking, Take, InsertLoad,
       InsertCas, RemovingFront, Removing, RemovingWith, Containing, Walking,
       LoadHead, VisitFront, VisitRemove, VisitRemoveWith, VisitContains,
       VisitAll, Mark, Swing, Unmark
  <1> QED
    BY <1>3, <1>4, <1>5, <1>6, <1>7, <1>8, <1>9 DEF Moving, Unlinking

(* Who looks for something goes on looking for the same. *)
LEMMA LookingStep ==
  ASSUME KeyedInv, NEW t \in Threads, Moving(t), Others(t), NEW u \in Threads
  PROVE  /\ Looking(u) /\ Looking(u)' => op'[u] = op[u] /\ arg'[u] = arg[u]
         /\ ~Looking(u) /\ Looking(u)' => pc'[u] = "head"
  <1>1. CASE u # t
    BY <1>1 DEF Others, Looking
  <1>2. CASE u = t
    <2> USE DEF Looking, Runs, Steps
    <2>1. CASE Inside(t)
      BY <1>2, <2>1 DEF Inside
    <2>2. CASE Answering(t) \/ Adds(t) \/ Taken(t) \/ Returned(t)
      BY <1>2, <2>2 DEF Answering, Answers, Adds, Taken, Returned
    <2>3. ASSUME NEW c, Removal(t, c) PROVE ~Looking(t)'
      BY <2>3 DEF Removal
    <2>4. CASE Called(t)
      <3>1. pc'[t] = "ins_load" => op'[t] = "insert"
        BY <2>4 DEF Called
      <3> QED BY <1>2, <2>4, <3>1 DEF Called, ByKey
    <2> QED BY <1>2, <2>1, <2>2, <2>3, <2>4, Effects
  <1> QED BY <1>1, <1>2

LEMMA SawStep ==
  ASSUME KeyedInv, NoteSaw
  PROVE  /\ saw' \in [Threads -> SUBSET BOOLEAN]
         /\ \A u \in Threads :
              /\ SawInv(u)'
              /\ Looking(u) /\ Looking(u)' =>
                   saw[u] \subseteq saw'[u] /\ saw'[u] \subseteq saw[u] \cup {There(u)'}
  <1>1. ASSUME NEW u \in Threads
        PROVE  saw'[u] = IF Looking(u)'
                         THEN (IF Looking(u) THEN saw[u] ELSE {}) \cup {There(u)'}
                         ELSE {}
    BY DEF NoteSaw, There
  <1>2. saw' = [u \in Threads |-> saw'[u]]
    BY DEF NoteSaw
  <1>3. ASSUME NEW u \in Threads PROVE There(u)' \in BOOLEAN
    BY DEF There
  <1>4. ASSUME NEW u \in Threads PROVE saw'[u] \in SUBSET BOOLEAN
    BY <1>1, <1>3 DEF KeyedInv
  <1>5. ASSUME NEW u \in Threads
        PROVE  /\ SawInv(u)'
               /\ Looking(u) /\ Looking(u)' =>
                    saw[u] \subseteq saw'[u] /\ saw'[u] \subseteq saw[u] \cup {There(u)'}
    BY <1>1 DEF SawInv
  <1> QED BY <1>2, <1>4, <1>5

LEMMA SeenStep ==
  ASSUME KeyedInv, NEW t \in Threads, Moving(t), Others(t), Kept(t), NoteSaw,
         NEW u \in Threads
  PROVE  \E F \in SUBSET Nodes : Within(u, F)' /\ SeenWithin(u, F)'
  <1>1. PICK F \in SUBSET Nodes : Within(u, F) /\ SeenWithin(u, F)
    BY DEF KeyedInv
  <1>2. PICK G \in SUBSET (F \cup ItemSet') : Within(u, G)'
    BY <1>1 DEF Kept, StaysWithin
  <1>3. ListInv' /\ ItemSet' \subseteq Nodes
    <2>1. order' \in Seq(Nodes)
      BY DEF Kept, ListInv, ListTypes
    <2> QED BY <2>1 DEF ItemSet, Ordered, Kept
  <1>4. SawInv(u)' /\ (Looking(u) /\ Looking(u)' => saw[u] \subseteq saw'[u])
    BY SawStep
  <1>5. ASSUME Looking(u)', NEW n \in ItemSet', Matches(u, n)'
        PROVE  TRUE \in saw'[u]
    <2>1. There(u)' = TRUE
      BY <1>5 DEF There
    <2> QED BY <1>4, <1>5, <2>1 DEF SawInv
  <1>6. CASE Looking(u) /\ Looking(u)'
    <2>1. \A n : Matches(u, n)' => Matches(u, n)
      BY <1>6, LookingStep DEF Matches
    <2>2. SeenWithin(u, G)'
      BY <1>1, <1>2, <1>4, <1>5, <1>6, <2>1 DEF SeenWithin
    <2> QED BY <1>2, <1>3, <2>2
  <1>7. CASE ~Looking(u) /\ Looking(u)'
    <2>1. pc'[u] = "head"
      BY <1>7, LookingStep
    <2>2. prev'[u] = Root
      BY <1>2, <2>1 DEF Within, AtNode
    <2>3. PICK H \in SUBSET ({} \cup ItemSet') : Within(u, H)'
      BY <1>3, <2>1, <2>2, WithinFresh DEF AtNode
    <2>4. SeenWithin(u, H)'
      BY <1>5, <2>3 DEF SeenWithin
    <2> QED BY <1>3, <2>3, <2>4
  <1>8. CASE ~Looking(u)'
    BY <1>2, <1>3, <1>8 DEF SeenWithin
  <1> QED BY <1>6, <1>7, <1>8

(* Where a walk that looks for a value goes. *)
LEMMA VisitsNext ==
  ASSUME KeyedInv, NEW t \in Threads, Moving(t), pc'[t] = "visit", op'[t] \in ByKey
  PROVE  /\ UNCHANGED <<link, order, out, op, arg>>
         /\ \/ pc[t] = "head" /\ cur'[t].to = link[Root].to
            \/ pc[t] = "visit" /\ ~Hit(t) /\ cur'[t].to = link[cur[t].to].to
  <1>1. /\ pc \in [Threads -> Phase] /\ cur \in [Threads -> Link]
        /\ op \in [Threads -> Ops]
    BY DEF KeyedInv, ListInv, ListTypes
  <1> USE DEF Goto, Finish, Restart, Aim, Follow, To
  <1>2. ~Calling(t) /\ ~Inserting(t) /\ ~Take(t)
    BY <1>1 DEF Calling, CallInsert, CallOther, Return, Inserting, InsertLoad,
       InsertCas, Take
  <1>3. ~Unlinking(t)
    BY <1>1 DEF Unlinking, Mark, Swing, Unmark, ByKey
  <1>4. CASE LoadHead(t)
    BY <1>1, <1>4 DEF LoadHead
  <1>5. CASE VisitRemove(t)
    BY <1>1, <1>5 DEF VisitRemove
  <1>6. CASE VisitRemoveWith(t)
    BY <1>1, <1>6 DEF VisitRemoveWith
  <1>7. CASE VisitContains(t)
    BY <1>1, <1>7 DEF VisitContains
  <1>8. ~VisitFront(t) /\ ~VisitAll(t)
    BY <1>1 DEF VisitFront, VisitAll, ByKey
  <1> QED
    BY <1>2, <1>3, <1>4, <1>5, <1>6, <1>7, <1>8 DEF Moving, Searching, RemovingFront,
       Removing, RemovingWith, Containing, Walking

LEMMA AheadStep ==
  ASSUME KeyedInv, NEW t \in Threads, Moving(t), Others(t), Kept(t), NoteSaw,
         NEW u \in Threads
  PROVE  Ahead(u)'
  <1> SUFFICES ASSUME op'[u] \in ByKey, pc'[u] = "visit", FALSE \notin saw'[u],
                      ~List!Twice(arg'[u])
               PROVE  \E n \in ItemSet' : Data[n] = arg'[u]
                        /\ n \in {cur'[u].to} \cup Behind(cur[u].to)'
    BY DEF Ahead, List!Twice
  <1>1. Looking(u)' /\ SawInv(u)' /\ SawInv(u) /\ Ahead(u)
    BY SawStep DEF Looking, Steps, KeyedInv
  <1>2. PICK m \in ItemSet' : Data[m] = arg'[u]
    <2>1. There(u)' = TRUE
      BY <1>1 DEF SawInv, There
    <2> QED BY <2>1 DEF There, Matches
  <1>3. ItemSet' \subseteq Nodes /\ ItemSet \subseteq Nodes
    <2>1. order' \in Seq(Nodes) /\ order \in Seq(Nodes)
      BY DEF Kept, KeyedInv, ListInv, ListTypes
    <2> QED BY <2>1 DEF ItemSet, Ordered
  <1>4. \A n \in Nodes : Data[n] = arg'[u] => n = m
    BY <1>2, <1>3 DEF List!Twice
  <1>5. CASE u # t
    <2>1. /\ op'[u] = op[u] /\ arg'[u] = arg[u] /\ pc'[u] = pc[u] /\ cur'[u] = cur[u]
      BY <1>5 DEF Others
    <2>2. Looking(u)
      BY <2>1 DEF Looking, Steps
    <2>3. PICK c \in Ordered : c = cur[u].to
      <3>1. PICK F : Within(u, F)
        BY DEF KeyedInv
      <3> QED BY <2>1, <3>1 DEF Within, AtNode
    <2>4. PICK n \in ItemSet : Data[n] = arg[u] /\ n \in {c} \cup Behind(c)
      BY <1>1, <2>1, <2>2, <2>3, SawStep DEF Ahead
    <2>5. n = m
      BY <1>3, <1>4, <2>1, <2>4
    <2>6. Behind(c)' = Behind(c)
      BY <2>3 DEF Kept, ChainStep
    <2>7. Behind(cur[u].to)' = Behind(c)'
      BY <2>1, <2>3
    <2> QED BY <1>2, <2>1, <2>3, <2>4, <2>5, <2>6, <2>7
  <1>6. CASE u = t
    <2>1. /\ UNCHANGED <<link, order, out, op, arg>>
          /\ \/ pc[t] = "head" /\ cur'[t].to = link[Root].to
             \/ pc[t] = "visit" /\ ~Hit(t) /\ cur'[t].to = link[cur[t].to].to
      BY <1>6, VisitsNext
    <2>2. ItemSet' = ItemSet /\ \A n : Behind(n)' = Behind(n)
      BY <2>1 DEF ItemSet, Ordered, Behind
    <2>3. Looking(t)
      BY <1>6, <2>1 DEF Looking, Steps
    <2>4. PICK p \in Ordered \cup {Root} :
            m \in Behind(p) \ out /\ cur'[t].to = link[p].to
      <3>1. CASE pc[t] = "head"
        <4>1. m \in Behind(Root) \ out
          BY <1>2, <2>2, OrderFacts DEF ItemSet, KeyedInv, ListInv
        <4> QED BY <2>1, <3>1, <4>1
      <3>2. CASE pc[t] = "visit"
        <4>1. PICK n \in ItemSet :
                Data[n] = arg[t] /\ n \in {cur[t].to} \cup Behind(cur[t].to)
          BY <1>1, <1>6, <2>1, <2>3, <3>2, SawStep DEF Ahead
        <4>2. n = m
          BY <1>3, <1>4, <1>6, <2>1, <4>1
        <4>3. m # cur[t].to
          BY <1>2, <1>6, <2>1, <3>2 DEF Hit
        <4>4. cur[t].to \in Ordered
          <5>1. PICK F : Within(t, F)
            BY DEF KeyedInv
          <5> QED BY <3>2, <5>1 DEF Within, AtNode
        <4> QED BY <2>1, <3>2, <4>1, <4>2, <4>3, <4>4 DEF ItemSet
      <3> QED BY <2>1, <3>1, <3>2
    <2>5. PICK c : c = link[p].to /\ (m = c \/ m \in Behind(c))
      BY <2>4 DEF KeyedInv, ListInv, LinkInv
    <2>6. Behind(cur[t].to)' = Behind(c)
      BY <2>2, <2>4, <2>5
    <2> QED BY <1>2, <1>6, <2>4, <2>5, <2>6
  <1> QED BY <1>5, <1>6

LEMMA KeyedStep ==
  ASSUME KeyedInv, SoleRemover, NEW t \in Threads, Moving(t), NoteSaw
  PROVE  KeyedInv'
  <1>1. ListInv /\ OutTagged /\ AllWithin
    BY DEF KeyedInv, AllWithin
  <1>2. Kept(t) /\ Others(t)
    BY <1>1, MovingStep, MovesAlone DEF ListInv
  <1>3. ASSUME NEW u \in Threads PROVE OpenInv(u)'
    <2>1. CASE u = t
      BY <2>1, ResultMoves, FrontMoves DEF OpenInv
    <2>2. CASE u # t
      BY <1>2, <2>2, ResultMoves DEF OpenInv, KeyedInv, Others
    <2> QED BY <2>1, <2>2
  <1> QED BY <1>2, <1>3, ResultMoves, SawStep, SeenStep, AheadStep DEF KeyedInv, Kept
-----------------------------------------------------------------------------
(* The refinement. *)
LEMMA LooksAlike ==
  ASSUME KeyedInv
  PROVE  \A t \in Threads :
           /\ List!Looking(t) <=> Looking(t)
           /\ pc[t] \in Runs => Outcome[t] = "pending"
           /\ Outcome[t] = "pending" => pc[t] \in Runs \cup {"work"}
           /\ There(t) = \E i \in DOMAIN Items : List!Matches(t, Items[i])
  <1> SUFFICES ASSUME NEW t \in Threads
               PROVE  /\ List!Looking(t) <=> Looking(t)
                      /\ pc[t] \in Runs => Outcome[t] = "pending"
                      /\ Outcome[t] = "pending" => pc[t] \in Runs \cup {"work"}
                      /\ There(t) = \E i \in DOMAIN Items : List!Matches(t, Items[i])
    OBVIOUS
  <1>1. OpenInv(t) /\ CallInv(t) /\ AllWithin /\ ListTypes /\ op[t] \in Ops
    BY DEF KeyedInv, ListInv, AllWithin, ListTypes
  <1>2. Outcome[t] = IF pc[t] = "take" THEN cur[t].to ELSE result[t]
    BY DEF Outcome
  <1>3. pc[t] = "take" => Outcome[t] # "pending" /\ Outcome[t] \in Nodes
    BY <1>2, AtPlace, ListAssumption DEF AtNode, KeyedInv, AllWithin
  <1>4. /\ pc[t] \in Runs => Outcome[t] = "pending"
        /\ Outcome[t] = "pending" => pc[t] \in Runs \cup {"work"}
    BY <1>1, <1>2, <1>3 DEF OpenInv, Runs, Steps
  <1>5. List!Looking(t) <=> Looking(t)
    BY <1>1, <1>4 DEF List!Looking, List!ByKey, List!AtFront, Looking, ByKey,
       OpenInv, Runs, Steps
  <1>6. \A n : List!Matches(t, n) <=> Matches(t, n)
    BY DEF List!Matches, List!ByKey, Matches, ByKey
  <1>7. ItemsInPlace
    BY ItemsPlaced DEF KeyedInv, ListInv
  <1>8. There(t) <=> \E i \in DOMAIN Items : List!Matches(t, Items[i])
    <2>1. ASSUME NEW n \in ItemSet, Matches(t, n)
          PROVE  \E i \in DOMAIN Items : List!Matches(t, Items[i])
      <3>1. Place(n) \in DOMAIN Items /\ Items[Place(n)] = n
        BY <1>7 DEF ItemsInPlace
      <3> QED BY <1>6, <2>1, <3>1
    <2>2. ASSUME NEW i \in DOMAIN Items, List!Matches(t, Items[i])
          PROVE  \E n \in ItemSet : Matches(t, n)
      <3>1. Items[i] \in ItemSet
        BY <1>7 DEF ItemsInPlace
      <3> QED BY <1>6, <2>2, <3>1
    <2> QED BY <2>1, <2>2 DEF There
  <1>9. There(t) = \E i \in DOMAIN Items : List!Matches(t, Items[i])
    BY <1>8 DEF There
  <1> QED BY <1>4, <1>5, <1>9

LEMMA LooksAfter ==
  (KeyedInv =>
     \A t \in Threads :
       /\ List!Looking(t) <=> Looking(t)
       /\ pc[t] \in Runs => Outcome[t] = "pending"
       /\ Outcome[t] = "pending" => pc[t] \in Runs \cup {"work"}
       /\ There(t) = \E i \in DOMAIN Items : List!Matches(t, Items[i]))'
  <1>1. KeyedInv =>
          \A t \in Threads :
            /\ List!Looking(t) <=> Looking(t)
            /\ pc[t] \in Runs => Outcome[t] = "pending"
            /\ Outcome[t] = "pending" => pc[t] \in Runs \cup {"work"}
            /\ There(t) = \E i \in DOMAIN Items : List!Matches(t, Items[i])
    BY LooksAlike
  <1> QED BY <1>1, PTL

LEMMA LookMaps ==
  ASSUME KeyedInv, KeyedInv', NoteSaw
  PROVE  List!Look
  <1>1. \A t \in Threads :
          /\ List!Looking(t) <=> Looking(t)
          /\ List!Looking(t)' <=> Looking(t)'
          /\ There(t)' = \E i \in DOMAIN Items' : List!Matches(t, Items[i])'
    BY LooksAlike, LooksAfter
  <1>2. saw' = [t \in Threads |->
                  IF Looking(t)'
                  THEN (IF Looking(t) THEN saw[t] ELSE {}) \cup {There(t)'}
                  ELSE {}]
    BY DEF NoteSaw, There
  <1>3. saw' = [t \in Threads |->
                  IF List!Looking(t)'
                  THEN (IF List!Looking(t) THEN saw[t] ELSE {})
                         \cup {\E i \in DOMAIN Items' : List!Matches(t, Items[i])'}
                  ELSE {}]
    BY <1>1, <1>2
  <1> QED BY <1>3 DEF List!Look

(* The results, when only one changes. *)
LEMMA OutcomeIs ==
  ASSUME NEW t \in Threads, NEW r, Others(t),
         \A u \in Threads \ {t} : result'[u] = result[u],
         Outcome'[t] = r
  PROVE  Outcome' = [Outcome EXCEPT ![t] = r]
  <1>1. \A u \in Threads \ {t} : Outcome'[u] = Outcome[u]
    BY DEF Outcome, Others
  <1>2. Outcome = [u \in Threads |-> Outcome[u]]
        /\ Outcome' = [u \in Threads |-> Outcome'[u]]
    BY DEF Outcome
  <1> QED BY <1>1, <1>2

(* Between two moments in which an operation takes effect. *)
LEMMA Internal ==
  ASSUME KeyedInv, KeyedInv', NoteSaw, UNCHANGED <<order, out, op, arg>>,
         NEW t \in Threads, Others(t), Outcome'[t] = Outcome[t],
         \A u \in Threads \ {t} : result'[u] = result[u]
  PROVE  UNCHANGED List!vars
  <1>1. Outcome' = Outcome
    <2>1. Outcome' = [Outcome EXCEPT ![t] = Outcome[t]]
      BY OutcomeIs
    <2> QED BY <2>1 DEF Outcome
  <1>2. Items' = Items
    BY ItemsSame
  <1>3. ASSUME NEW u \in Threads PROVE saw'[u] = saw[u]
    <2>1. Looking(u)' <=> Looking(u)
      <3>1. List!Looking(u)' <=> List!Looking(u)
        BY <1>1 DEF List!Looking
      <3> QED BY <3>1, LooksAlike, LooksAfter
    <2>2. ItemSet' = ItemSet
      BY DEF ItemSet, Ordered
    <2>3. There(u)' = There(u)
      BY <2>2 DEF There, Matches
    <2>4. SawInv(u) /\ SawInv(u)'
      BY DEF KeyedInv
    <2>5. CASE Looking(u)
      <3>1. saw[u] \subseteq saw'[u] /\ saw'[u] \subseteq saw[u] \cup {There(u)'}
        BY <2>1, <2>5, SawStep
      <3>2. There(u) \in saw[u]
        BY <2>4, <2>5 DEF SawInv
      <3> QED BY <2>3, <3>1, <3>2
    <2>6. CASE ~Looking(u)
      BY <2>1, <2>4, <2>6 DEF SawInv
    <2> QED BY <2>5, <2>6
  <1>4. saw' = saw
    <2>1. saw \in [Threads -> SUBSET BOOLEAN] /\ saw' \in [Threads -> SUBSET BOOLEAN]
      BY DEF KeyedInv
    <2> QED BY <1>3, <2>1
  <1> QED BY <1>1, <1>2, <1>4 DEF List!vars

LEMMA PromiseStep ==
  ASSUME KeyedInv, KeyedInv', SoleRemover, NEW t \in Threads, Moving(t), NoteSaw
  PROVE  [List!Next]_(List!vars)
  <1>0. /\ ListTypes /\ OrderInv /\ ListTypes' /\ OrderInv' /\ OpenInv(t)
        /\ result \in [Threads -> Results] /\ pc \in [Threads -> Phase]
    BY DEF KeyedInv, ListInv, ListTypes
  <1>1. /\ Others(t) /\ \A u \in Threads \ {t} : result'[u] = result[u]
        /\ List!Look
    BY <1>0, MovesAlone, ResultMoves, LookMaps
  <1>2. /\ Outcome[t] = IF pc[t] = "take" THEN cur[t].to ELSE result[t]
        /\ Outcome'[t] = IF pc'[t] = "take" THEN cur'[t].to ELSE result'[t]
    BY DEF Outcome
  <1>3. \A r : Outcome'[t] = r => Outcome' = [Outcome EXCEPT ![t] = r]
    BY <1>1, OutcomeIs
  <1>4. pc[t] \in Runs => Outcome[t] = "pending"
    BY LooksAlike
  <1>5. ASSUME \/ List!Call(t) \/ List!Insert(t) \/ List!Found(t)
               \/ List!Absent(t) \/ List!Walked(t) \/ List!Return(t)
               \/ \E i \in DOMAIN Items : List!Remove(t, i)
        PROVE  List!Next
    BY <1>1, <1>5 DEF List!Next
  <1>6. UNCHANGED <<order, out>> => Items' = Items
    BY ItemsSame
  <1> USE DEF Runs, Steps
  <1>7. CASE Inside(t)
    BY <1>1, <1>2, <1>7, Internal DEF Inside
  <1>8. CASE Taken(t)
    BY <1>0, <1>1, <1>2, <1>8, Internal DEF Taken
  <1>9. ASSUME NEW r, Answers(t, r)
        PROVE  /\ Outcome' = [Outcome EXCEPT ![t] = r] /\ Outcome[t] = "pending"
               /\ Items' = Items /\ UNCHANGED <<op, arg>>
    BY <1>0, <1>2, <1>3, <1>4, <1>6, <1>9 DEF Answers
  <1>10. CASE Answers(t, Null) /\ Absence(t)
    <2>1. List!Looking(t)
      <3>1. Looking(t)
        BY <1>10 DEF Answers, Absence, Looking
      <3> QED BY <3>1, LooksAlike
    <2>2. List!Absent(t)
      BY <1>9, <1>10, <2>1 DEF List!Absent, Absence, List!ByKey, ByKey
    <2> QED BY <1>5, <2>2
  <1>11. CASE Answers(t, "found") /\ op[t] \in {"contains", "is_empty"} /\ TRUE \in saw[t]
    BY <1>5, <1>9, <1>11 DEF List!Found
  <1>12. CASE Answers(t, "done") /\ op[t] = "walk"
    BY <1>5, <1>9, <1>12 DEF List!Walked
  <1>13. CASE Adds(t)
    <2>1. Items' = <<arg[t]>> \o Items
      BY <1>0, <1>13, ItemsInsert DEF Adds
    <2>2. Outcome' = [Outcome EXCEPT ![t] = "done"] /\ Outcome[t] = "pending"
      BY <1>0, <1>2, <1>3, <1>4, <1>13 DEF Adds
    <2> QED BY <1>5, <1>13, <2>1, <2>2 DEF Adds, List!Insert
  <1>14. ASSUME NEW c, Removal(t, c) PROVE List!Next
    <2>1. PICK i \in DOMAIN Items : /\ i = Place(c) /\ Items[i] = c
                                    /\ Items' = List!Without(Items, i)
      BY <1>0, <1>14, ItemsRemove DEF Removal
    <2>2. Outcome' = [Outcome EXCEPT ![t] = c] /\ Outcome[t] = "pending"
      BY <1>2, <1>3, <1>4, <1>14 DEF Removal
    <2>3. op[t] = "remove_front" => i = 1
      <3> SUFFICES ASSUME op[t] = "remove_front" PROVE ItemSet \ Behind(c) = {c}
        BY <2>1, FS_Singleton DEF Place
      <3>1. c \in ItemSet /\ c = link[Root].to
        BY <1>14 DEF Removal
      <3>2. LinkInv /\ Behind(Root) = Ordered /\ c \notin Behind(c)
        BY <1>0, OrderFacts, BehindIsOrder DEF KeyedInv, ListInv
      <3> QED BY <3>1, <3>2 DEF LinkInv, ItemSet
    <2>4. List!Matches(t, c)
      BY <1>14 DEF Removal, Matches, List!Matches, ByKey, List!ByKey
    <2>5. List!Remove(t, i)
      BY <1>14, <2>1, <2>2, <2>3, <2>4 DEF Removal, Removers, List!Remove
    <2> QED BY <1>5, <2>5
  <1>15. CASE Called(t)
    <2>1. op[t] = "none"
      BY <1>0, <1>15 DEF Called, OpenInv
    <2>2. Outcome' = Outcome
      <3>1. Outcome' = [Outcome EXCEPT ![t] = Outcome[t]]
        BY <1>2, <1>3, <1>15 DEF Called
      <3> QED BY <3>1 DEF Outcome
    <2> QED BY <1>5, <1>6, <1>15, <2>1, <2>2 DEF Called, List!Call, List!Values, Values
  <1>16. CASE Returned(t)
    <2>1. Outcome[t] # "pending"
      BY <1>0, <1>2, <1>16 DEF Returned, OpenInv
    <2>2. Outcome' = [Outcome EXCEPT ![t] = "pending"]
      BY <1>0, <1>2, <1>3, <1>16 DEF Returned
    <2> QED BY <1>5, <1>6, <1>16, <2>1, <2>2 DEF Returned, List!Return
  <1> QED
    BY <1>7, <1>8, <1>10, <1>11, <1>12, <1>13, <1>14, <1>15, <1>16, Effects
    DEF Answering

LEMMA KeyedStart ==
  ASSUME ListInit("work", <<>>)
  PROVE  KeyedInv /\ List!Init
  <1>1. /\ ListInv /\ OutTagged /\ AllWithin
        /\ \A t \in Threads : pc[t] = "work"
        /\ out = {} /\ Ordered = {}
    BY ListStart
  <1>2. /\ op = [t \in Threads |-> "none"] /\ arg = [t \in Threads |-> Null]
        /\ result = [t \in Threads |-> "pending"] /\ saw = [t \in Threads |-> {}]
    BY DEF ListInit
  <1>3. \A t \in Threads : ~Looking(t) /\ OpenInv(t) /\ SawInv(t) /\ Ahead(t)
    BY <1>1, <1>2 DEF Looking, Steps, OpenInv, SawInv, Ahead, AtNode
  <1>4. KeyedInv
    BY <1>1, <1>2, <1>3 DEF KeyedInv, Results, AllWithin, SeenWithin
  <1>5. Items = <<>>
    <2>1. ItemsInPlace /\ ItemSet = {}
      BY <1>1, ItemsPlaced DEF ListInv, ItemSet
    <2>2. Items \in Seq(ItemSet) /\ Len(Items) = 0
      BY <2>1, FS_EmptySet DEF ItemsInPlace
    <2> QED BY <2>2
  <1>6. Outcome = [t \in Threads |-> "pending"]
    BY <1>1, <1>2 DEF Outcome
  <1> QED BY <1>2, <1>4, <1>5, <1>6 DEF List!Init
-----------------------------------------------------------------------------
(* The list that frees nothing: its steps are the steps above, and its     *)
(* promise is the one above.                                               *)
Leaking == INSTANCE LeakingList

LEMMA LeakingMoves ==
  ASSUME Leaking!Next
  PROVE  NoteSaw /\ UNCHANGED owed /\ \E t \in Threads : Moving(t)
  <1>1. NoteSaw /\ UNCHANGED owed
    BY DEF Leaking!Next, Leaking!Note, Leaking!NoteSaw, NoteSaw,
       Leaking!Looking, Looking, Leaking!Matches, Matches, Leaking!ItemSet, ItemSet,
       Leaking!Ordered, Ordered, Leaking!Steps, Steps, Leaking!ByKey, ByKey
  <1>2. PICK t \in Threads : Leaking!Calling(t) \/ Leaking!Running(t)
    BY DEF Leaking!Next
  <1> USE DEF Leaking!Goto, Goto, Leaking!Finish, Finish, Leaking!Restart, Restart,
          Leaking!To, To, Leaking!listVars, listVars, Leaking!ByKey, ByKey
  <1>3. Leaking!Calling(t) => Calling(t)
    BY DEF Leaking!Calling, Calling, Leaking!CallInsert, CallInsert,
       Leaking!CallOther, CallOther, Leaking!Return, Return, Leaking!Unused, Unused,
       Leaking!Ordered, Ordered
  <1>4. Leaking!Inserting(t) => Inserting(t)
    BY DEF Leaking!Inserting, Inserting, Leaking!InsertLoad, InsertLoad,
       Leaking!InsertCas, InsertCas
  <1>5. Leaking!Unlinking(t) \/ Leaking!Take(t) => Unlinking(t) \/ Take(t)
    BY DEF Leaking!Unlinking, Unlinking, Leaking!Mark, Mark, Leaking!Swing, Swing,
       Leaking!Unmark, Unmark, Leaking!Take, Take, Leaking!Tagged, Tagged,
       Leaking!Untagged, Untagged, Leaking!Expected, Expected
  <1>6. Leaking!Searching(t) => Searching(t)
    BY DEF Leaking!Searching, Searching, Leaking!LoadHead, LoadHead,
       Leaking!RemovingFront, RemovingFront, Leaking!VisitFront, VisitFront,
       Leaking!Removing, Removing, Leaking!VisitRemove, VisitRemove,
       Leaking!RemovingWith, RemovingWith, Leaking!VisitRemoveWith, VisitRemoveWith,
       Leaking!Containing, Containing, Leaking!VisitContains, VisitContains,
       Leaking!Walking, Walking, Leaking!VisitAll, VisitAll,
       Leaking!CurTagged, CurTagged, Leaking!Aim, Aim, Leaking!Hit, Hit,
       Leaking!Follow, Follow, Leaking!Untagged, Untagged
  <1>7. Moving(t)
    BY <1>2, <1>3, <1>4, <1>5, <1>6 DEF Leaking!Running, Moving
  <1> QED BY <1>1, <1>7

LEMMA LeakingStart == Leaking!Init => ListInit("work", <<>>)
  BY DEF Leaking!Init, Leaking!ListInit, ListInit, Leaking!To, To

LEMMA LeakingStops ==
  ASSUME KeyedInv, UNCHANGED Leaking!vars
  PROVE  KeyedInv' /\ UNCHANGED List!vars
  <1>1. /\ UNCHANGED <<listVars, pc, op, arg, owed>>
        /\ UNCHANGED <<link, prev, cur, nxt, found, result, order, out, pc, op, arg, saw>>
    BY DEF Leaking!vars, Leaking!listVars, Leaking!controlVars, listVars
  <1>2. /\ ListInv' /\ OutTagged'
        /\ \A u \in Threads : \A F : Within(u, F) => Within(u, F)'
    BY <1>1, ListStutter DEF KeyedInv
  <1>3. Items' = Items /\ Outcome' = Outcome
    BY <1>1, ItemsSame DEF Outcome
  <1>4. /\ ItemSet' = ItemSet
        /\ \A n : Behind(n)' = Behind(n)
        /\ \A t, n : Matches(t, n)' <=> Matches(t, n)
        /\ \A t : Looking(t)' <=> Looking(t)
    BY <1>1 DEF ItemSet, Ordered, Behind, Matches, Looking
  <1>5. ASSUME NEW t \in Threads
        PROVE  /\ OpenInv(t)' /\ SawInv(t)' /\ Ahead(t)'
               /\ \E F \in SUBSET Nodes : Within(t, F)' /\ SeenWithin(t, F)'
    <2>1. OpenInv(t)'
      BY <1>1 DEF KeyedInv, OpenInv
    <2>2. There(t)' = There(t)
      BY <1>4 DEF There
    <2>3. SawInv(t)'
      BY <1>1, <1>4, <2>2 DEF KeyedInv, SawInv
    <2>4. Ahead(t)'
      <3>1. PICK c : c = cur[t].to /\ Behind(c)' = Behind(c)
        BY <1>4
      <3>2. cur'[t].to = c /\ Behind(cur[t].to)' = Behind(c)
        BY <1>1, <3>1
      <3>3. Ahead(t)
        BY DEF KeyedInv
      <3>4. pc'[t] = pc[t] /\ op'[t] = op[t] /\ arg'[t] = arg[t] /\ saw'[t] = saw[t]
        BY <1>1
      <3> QED BY <1>4, <3>1, <3>2, <3>3, <3>4 DEF Ahead
    <2>5. PICK F \in SUBSET Nodes : Within(t, F) /\ SeenWithin(t, F)
      BY DEF KeyedInv
    <2>6. SeenWithin(t, F)'
      BY <1>1, <1>4, <2>5 DEF SeenWithin
    <2> QED BY <1>2, <2>1, <2>3, <2>4, <2>5, <2>6
  <1> QED BY <1>1, <1>2, <1>3, <1>5 DEF KeyedInv, List!vars

(* What holds in every state of the list that frees no node,               *)
(* nothing/list.rs and, but for the freeing, ebr/list.rs: the links are    *)
(* what was inserted and not removed, and a thread that looks for a value  *)
(* has seen what it has passed.                                            *)
THEOREM KeyedInductive ==
  ASSUME SoleRemover
  PROVE  Leaking!Spec => []KeyedInv
  <1>1. Leaking!Init => KeyedInv
    BY LeakingStart, KeyedStart
  <1>2. KeyedInv /\ [Leaking!Next]_(Leaking!vars) => KeyedInv'
    BY KeyedStep, LeakingMoves, LeakingStops
  <1> QED BY <1>1, <1>2, PTL DEF Leaking!Spec

(* No operation of nothing/list.rs follows a null pointer, and the         *)
(* variables keep their types.                                             *)
THEOREM LeakingTypeCorrect ==
  ASSUME SoleRemover
  PROVE  Leaking!Spec => []Leaking!TypeOK
  <1> DEFINE Typed == owed \in [Threads -> SUBSET Nodes]
  <1>1. Leaking!Init => Typed
    BY LeakingStart, ListStart DEF ListInit
  <1>2. Typed /\ [Leaking!Next]_(Leaking!vars) => Typed'
    BY LeakingMoves DEF Leaking!vars, Leaking!controlVars
  <1>3. ASSUME KeyedInv, Typed PROVE Leaking!TypeOK
    <2>1. \A t \in Threads : pc[t] \in AtNode => cur[t].to # Null
      <3>1. ListInv /\ AllWithin
        BY <1>3 DEF KeyedInv, AllWithin
      <3> QED BY <3>1, AtPlace, OrderFacts DEF ListInv
    <2> QED
      BY <1>3, <2>1
      DEF KeyedInv, ListInv, ListTypes, Leaking!TypeOK, Leaking!ListTypeOK, AtNode,
          Leaking!Link, Link, Leaking!Phase, Phase, Leaking!Steps, Steps
  <1> QED BY <1>1, <1>2, <1>3, KeyedInductive, PTL DEF Leaking!Spec

(* From the head the links of nothing/list.rs lead through the nodes that  *)
(* were inserted and not removed, the last one first, and through no       *)
(* other.                                                                  *)
THEOREM LeakingLinksAreHistory ==
  ASSUME SoleRemover
  PROVE  Leaking!Spec => []ChainInOrder
  <1>1. KeyedInv => ChainInOrder
    BY ChainFollows DEF KeyedInv
  <1> QED BY <1>1, KeyedInductive, PTL

(* A tagged link means that its node was removed, or that somebody is      *)
(* removing it: no tag is left behind when a removal of nothing/list.rs is *)
(* given up, and no thread takes back the tag of another.                  *)
THEOREM TagsAreOwned ==
  ASSUME SoleRemover
  PROVE  Leaking!Spec => []TagsAccountedFor
  <1>1. KeyedInv => TagsAccountedFor
    BY TagsFollow DEF KeyedInv
  <1> QED BY <1>1, KeyedInductive, PTL

(* insert, remove_front, remove, remove_with, contains and is_empty take   *)
(* effect at one moment between call and return, and when they find        *)
(* nothing there was such a moment, but for values inserted twice.         *)
THEOREM ImplementsKeyedList ==
  ASSUME SoleRemover
  PROVE  Leaking!Spec => IsList
  <1>1. Leaking!Init => List!Init
    BY LeakingStart, KeyedStart
  <1>2. KeyedInv /\ [Leaking!Next]_(Leaking!vars) => [List!Next]_(List!vars)
    <2> SUFFICES ASSUME KeyedInv, [Leaking!Next]_(Leaking!vars)
                 PROVE  [List!Next]_(List!vars)
      OBVIOUS
    <2>1. CASE Leaking!Next
      <3>1. PICK t \in Threads : Moving(t)
        BY <2>1, LeakingMoves
      <3>2. NoteSaw
        BY <2>1, LeakingMoves
      <3>3. KeyedInv'
        BY <3>1, <3>2, KeyedStep
      <3> QED BY <3>1, <3>2, <3>3, PromiseStep
    <2>2. CASE UNCHANGED Leaking!vars
      BY <2>2, LeakingStops
    <2> QED BY <2>1, <2>2
  <1> QED BY <1>1, <1>2, KeyedInductive, PTL DEF Leaking!Spec, IsList, List!Spec
=============================================================================
