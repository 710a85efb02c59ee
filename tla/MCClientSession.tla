-------------------------- MODULE MCClientSession --------------------------
(* TLC instance of ClientSession: two prints, one restart of klippy, and   *)
(* connections before, during and after it.                                *)
EXTENDS ClientSession
=============================================================================
