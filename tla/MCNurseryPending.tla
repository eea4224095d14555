-------------------------- MODULE MCNurseryPending --------------------------
(* Three slots let n grow twice under one call of pending, and a count be  *)
(* torn between a slot read before and one read after a join or a spawn.   *)
EXTENDS NurseryPending

MCSizes == {3}
\* A polling body may end at any time once anybody asked for cancellation, as
\* a finite one does, so the finite kind adds nothing here.
MCKinds == {"poll", "stuck"}
=============================================================================
