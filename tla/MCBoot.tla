------------------------------- MODULE MCBoot -------------------------------
(* Two boots of the machine and one print.  DETECT_SEGMENT_LIMIT is 3 in   *)
(* the code and 2 here, so that the log outgrows it; boot_kept keeps 3.    *)
EXTENDS Boot

(* A long log without edges and failures, or a short one with either: one  *)
(* run of both would not finish.                                           *)
LongOrEventful ==
  \/ edges = 0 /\ faults = 0
  \/ LastRecord <= 2 /\ segs <= 2
=============================================================================
