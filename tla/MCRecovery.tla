----------------------------- MODULE MCRecovery -----------------------------
(* TLC instance of Recovery: one recovery tried several times, with foreign *)
(* jobs, files of others and every death.  Invocations that overlap are the *)
(* business of RecoveryProofs.                                              *)
EXTENDS Recovery
=============================================================================
