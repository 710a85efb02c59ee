-------------------------- MODULE ExclusionHonesty --------------------------
(***************************************************************************)
(* The drop policy of WalSender against the reader of its journal: what    *)
(* Exclusion concludes from the records the channel accepted, whenever     *)
(* they end, held against the cancellations Klipper reported.              *)
(***************************************************************************)
EXTENDS WalSender, Exclusion

(* What the channel accepted; a command that appends nothing stands as     *)
(* NoRecord.                                                               *)
Journal == [i \in DOMAIN sent |-> IF AppendAt(i) THEN Appended(i) ELSE NoRecord]

(* The journal goes on after the newest set was reported.                  *)
OutlivesTruth(j) == \E i \in DOMAIN j : IsOffered(j[i]) /\ j[i].at > truth.at

(* A print whose file defines no objects has none cancelled: what exclude.rs*)
(* takes as given where it returns before it reads the doubts.             *)
ScanAgrees(scan) == scan = "none" => truth.excl = {}

(* When reconstruction is certain of the cancelled objects and anything    *)
(* was journaled after the newest set Klipper reported, that set is the    *)
(* one it names, whatever the scan of the file said: no loss on the way is *)
(* mistaken for "nothing changed" (exclude.rs is_conclusive).              *)
ConclusiveIsTrue ==
  \A scan \in Scans :
    /\ CarriesExclude(truth) /\ OutlivesTruth(Journal) /\ ScanAgrees(scan)
    /\ IsConclusive(Journal, scan)
    => Excluded(Journal) = truth.excl
=============================================================================
