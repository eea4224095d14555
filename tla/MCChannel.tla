----------------------------- MODULE MCChannel -----------------------------
(* Instances of Channel for TLC.  Int32 is -2 .. 1 here, so that 2 is a    *)
(* value recv narrows (to -2).                                             *)
EXTENDS Channel

CONSTANTS t1, t2, t3
ThreeThreads == {t1, t2, t3}

MCRequests == {0, 2}
TwoValues == {1, 2}
=============================================================================
