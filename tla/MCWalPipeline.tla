--------------------------- MODULE MCWalPipeline ---------------------------
(* TLC instance of WalPipeline: one slot of channel and a few calls, so    *)
(* that records are dropped while the thread is in a sync or a rotation,   *)
(* and a heartbeat record can fall between a loss and its gap marker.      *)
(* Lost exclusion changes are MCWalSender's subject.                       *)
EXTENDS WalPipeline

CONSTANTS active
MCExcludedSets == {}
MCHbSamples == {active}
MCMarkerInputs == {"SocketLost"}
=============================================================================
