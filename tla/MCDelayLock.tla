---------------------------- MODULE MCDelayLock ----------------------------
(* Delays shorter than a block, of one block, of several, and none.        *)
EXTENDS DelayLock

MCDelays == {0, 1, 2, 3, 4, 7}
=============================================================================
