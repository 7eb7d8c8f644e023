----------------------------- MODULE MCFMSmoov -----------------------------
(* The instance of FMSmoov that TLC checks: JACK with the block size the   *)
(* callback supports and one it does not.                                  *)
EXTENDS FMSmoov

MCNFrames == {512, 1024}
=============================================================================
