---------------------------- MODULE MCWalService ----------------------------
(* TLC instance of the WAL thread: WalService, its segments, and           *)
(* HeartbeatFile, the file it beats into.  Segments of two records, so     *)
(* that a session rotates with a record to spare, and two sessions, so     *)
(* that a crash or a power cut in the first is followed by a start over    *)
(* its files; sequence numbers wrap within a few beats.                    *)
EXTENDS WalService, HeartbeatFile

CONSTANTS active, idle
MCHbSamples == {active, idle}
MCActiveSamples == {active}
MCExcludedSets == {}

(* The two share nothing either property is about, so each is followed     *)
(* while the other is still at its initial state: every behaviour of       *)
(* either, and not their product.                                          *)
ThreadInit == Init /\ HeartbeatInit
Segments == HeartbeatInit /\ Next /\ UNCHANGED heartbeatVars
Heartbeats == Init /\ HeartbeatNext /\ UNCHANGED vars

ThreadSpec ==
  /\ ThreadInit /\ [][Segments \/ Heartbeats]_<<vars, heartbeatVars>>
  /\ WF_vars(Work) /\ SF_vars(BatchSync)
=============================================================================
