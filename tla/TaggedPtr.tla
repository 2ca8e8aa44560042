----------------------------- MODULE TaggedPtr ------------------------------
(***************************************************************************)
(* The words of src/ebr/atomic.rs, src/hp/atomic.rs and                    *)
(* src/nothing/atomic.rs, three copies of the same code: a pointer that is *)
(* aligned has bits to spare, and a tag is kept there.  A word is the set  *)
(* of the positions of its ones.                                           *)
(*                                                                         *)
(* MarkedList has a record where the code has a word with a tag of one     *)
(* bit; the theorems in EbrListProofs say that a compare-and-set, which    *)
(* compares words, cannot tell the two apart.                              *)
(***************************************************************************)
EXTENDS Naturals

CONSTANTS
  Width,   \* bits in a usize
  Zeros    \* align_of::<T>().trailing_zeros()

ASSUME TaggedPtrAssumption == Width \in Nat /\ Zeros \in 0..Width

Bits == 0..Width - 1
Words == SUBSET Bits
LowBits == 0..Zeros - 1   \* low_bits

Aligned(raw) == raw \cap LowBits = {}    \* ensure_aligned

DataWithTag(data, tag) == (data \ LowBits) \cup (tag \cap LowBits)

NullPtr == {}
AsRaw(ptr) == ptr \ LowBits
TagOf(ptr) == ptr \cap LowBits
WithTag(ptr, tag) == DataWithTag(ptr, tag)
IsNull(ptr) == AsRaw(ptr) = {}

(* The word HazardPtr::from_ptr puts into a slot. *)
HazardWord(ptr) == AsRaw(WithTag(ptr, {}))

(* What the compare-and-sets leave in the cell, and whether they succeed.  *)
CompareAndSet(cell, current, new) ==
  IF cell = current THEN [cell |-> new, ok |-> TRUE]
                    ELSE [cell |-> cell, ok |-> FALSE]

FetchAnd(cell, val) == cell \cap (val \cup (Bits \ LowBits))
FetchOr(cell, val) == cell \cup (val \cap LowBits)
FetchXor(cell, val) ==
  LET v == val \cap LowBits IN (cell \ v) \cup (v \ cell)

(* The word of a link of MarkedList, when addr says where the nodes are. *)
LinkWord(addr, l) == WithTag(addr[l.to], IF l.tag THEN {0} ELSE {})
=============================================================================
