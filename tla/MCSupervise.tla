---------------------------- MODULE MCSupervise ----------------------------
(* Three slots, sizes on both sides of the bounds create_sized checks,     *)
(* every policy and a number on each side of them.                         *)
EXTENDS Supervise

MCSizes == {0, 1, 3, 4}
AllKinds == {"finite", "poll", "stuck"}
MCPolicies == 0 .. 5
=============================================================================
