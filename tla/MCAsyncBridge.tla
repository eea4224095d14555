--------------------------- MODULE MCAsyncBridge ---------------------------
(* More tasks than the channel has room for, so that senders block.        *)
EXTENDS AsyncBridge

MCVals == {1, 2}
=============================================================================
