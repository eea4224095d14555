--------------------------- MODULE MCJoinDeadline ---------------------------
(* Seconds of three ticks, so that a timeout may carry, may be a whole     *)
(* second and may be zero.  The horizon lets every slot use its budget.    *)
EXTENDS JoinDeadline

MCTimeouts == {0, 1, 2, 3, 4}
=============================================================================
