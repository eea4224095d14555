--------------------------- MODULE MCGuestSession ---------------------------
(* For the tree: four sessions make a grandchild and a table of two that   *)
(* fills up and loses its first entry; no amounts, so no arena is used.    *)
(* For the budgets: one session, with an arena of five or of three bytes   *)
(* aligned to two, so that blocks are padded and the padding may pass the  *)
(* end; two capabilities share it.                                         *)
EXTENDS GuestSession

MCArenas == {0, 3}
NoAmounts == {}
MCAmounts == {0, 1, 2, 3}
DefaultOnly == {0}
=============================================================================
