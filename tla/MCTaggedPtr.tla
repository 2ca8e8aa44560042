---------------------------- MODULE MCTaggedPtr ----------------------------
(* The operators of TaggedPtr against the numbers and masks of the code.   *)
EXTENDS TaggedPtr, Bitwise, FiniteSetsExt

Number(word) == MapThenSumSet(LAMBDA i : 2^i, word)

low_bits == 2^Zeros - 1
not_low_bits == 2^Width - 1 - low_bits

ASSUME AgreesWithNumbers ==
  \A d, t \in Words :
    LET data == Number(d)
        tag == Number(t)
    IN  /\ Number(DataWithTag(d, t)) = (data & not_low_bits) | (tag & low_bits)
        /\ Number(AsRaw(d)) = (data & not_low_bits)
        /\ Number(TagOf(d)) = (data & low_bits)
        /\ Number(FetchAnd(d, t)) = (data & (tag | not_low_bits))
        /\ Number(FetchOr(d, t)) = (data | (tag & low_bits))
        /\ Number(FetchXor(d, t)) = (data ^^ (tag & low_bits))
=============================================================================
