---------------------------- MODULE MCWalSender ----------------------------
(* TLC instance of WalSender: a one-slot channel and a few calls, so that  *)
(* the channel fills, an outbox of several markers builds up behind it and *)
(* drains, and gaps open and close more than once.                         *)
EXTENDS ExclusionHonesty

CONSTANTS o1
MCExcludedSets == {{}, {o1}}
MCHbSamples == {}
MCMarkerInputs == {"SocketLost"}
=============================================================================
