------------------------------ MODULE MCSelect ------------------------------
(* Counters that wrap at 4: 3 stands for UINT32_MAX, which is what the     *)
(* facade's timeout of -1 becomes.                                         *)
EXTENDS Select

ShortTimeouts == {0, 1, 2}
MaxTimeout == {3}
=============================================================================
