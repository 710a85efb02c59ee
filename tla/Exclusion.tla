------------------------------ MODULE Exclusion ------------------------------
(***************************************************************************)
(* Which objects of the print were cancelled, as reconstruction reads it   *)
(* from a journal and from the print file (plr-reconstruct/src/exclude.rs):*)
(* the newest observed set, and the reasons to doubt that nothing changed  *)
(* after it.  A journal is a sequence of WalRecords' records; the scan of  *)
(* the file either was not possible or says whether it defines objects.    *)
(*                                                                         *)
(* The torn tail of the log and the freshness of the observation against   *)
(* the end of the stop window are left out: both come after every early    *)
(* return of uncertainty_causes and only add doubts.                       *)
(***************************************************************************)
EXTENDS WalRecords

(* file_scan: not scanned, or what parse_object_definitions found.         *)
Scans == {"unchecked", "objects", "none"}

(* journaled_state: the last context that carries exclude state.           *)
Carriers(j) == {i \in DOMAIN j : j[i].excl # NoExclude}
LastCarrier(j) == CHOOSE i \in Carriers(j) : \A k \in Carriers(j) : k <= i
AtTheEnd(j) == j[Len(j)].at                                     \* mutant
Observed(j) == j[LastCarrier(j)].at

Journaled(j) == Carriers(j) # {}
Excluded(j) == IF Journaled(j) THEN j[LastCarrier(j)].excl ELSE {}

(* definitions, definitions_observed: the newest object list journaled, if *)
(* any was, is an empty one.                                               *)
Defining(j) == {i \in Carriers(j) : j[i].defs # "unchanged"}
SawNoObjects(j) ==
  \E i \in Defining(j) : j[i].defs = "empty" /\ \A k \in Defining(j) : k <= i

(* uncertainty_causes: evidence of a loss that postdates the observation.  *)
DoubtKinds == {"SubscriptionGap", "SocketLost", "Resubscribed", "ExclusionUpdateLost"}
Doubts(j) == {i \in DOMAIN j : j[i].kind \in DoubtKinds /\ j[i].at > Observed(j)}

(* Nothing to cancel: Klipper reported no objects, nothing is excluded,    *)
(* and the file defines none.  It returns before the doubts are read.      *)
NothingToCancel(j, scan) ==
  SawNoObjects(j) /\ Excluded(j) = {} /\ scan = "none"

(* is_conclusive: the operator is not asked.  Without a carrier only a     *)
(* file that defines no objects is conclusive (NoObjectsDefined); the      *)
(* record is lost, or the file was not checked, otherwise.                 *)
IsConclusive(j, scan) ==
  IF Journaled(j) THEN NothingToCancel(j, scan) \/ Doubts(j) = {}
                  ELSE scan = "none"
=============================================================================
