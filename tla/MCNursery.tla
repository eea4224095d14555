----------------------------- MODULE MCNursery -----------------------------
(* Instances of Nursery for TLC: three slots, sizes on both sides of the   *)
(* bounds create_sized checks.                                             *)
EXTENDS Nursery

MCSizes == {0, 1, 3, 4}
FiniteKinds == {"finite"}
=============================================================================
