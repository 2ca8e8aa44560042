------------------------------ MODULE MCHpList -----------------------------
(* Instances of HpList for TLC. *)
EXTENDS HpList, MCTaggedPtr, TLC

CONSTANTS t1, t2, t3, n1, n2, n3, a, b, c

DataOnce == (n1 :> a) @@ (n2 :> b) @@ (n3 :> c)

(* Two neighbours are removed, each by its own thread, while the third     *)
(* takes the first node, or looks for the second, or walks.                *)
MayRemove ==
  (t1 :> {<<"remove", a>>, <<"remove_with", a>>})
  @@ (t2 :> {<<"remove", b>>, <<"remove_with", b>>})
  @@ (t3 :> {<<"remove_front", Null>>, <<"contains", b>>, <<"walk", Null>>,
             <<"insert", a>>})

EntriesInOrder == <<t1, t2, t3>>
FilledOne == <<n2>>
FilledAll == <<n1, n2, n3>>
=============================================================================
