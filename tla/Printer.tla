------------------------------- MODULE Printer -------------------------------
(***************************************************************************)
(* The printer as plrd sees it through Klipper's API: the print state      *)
(* machine of print_stats and virtual_sdcard.  It is external; its steps   *)
(* are those crates/plrd/src/convert.rs ("Clean-shutdown detection") says  *)
(* Klipper takes.                                                          *)
(***************************************************************************)
EXTENDS Naturals

CONSTANTS
  MaxPrints,         \* bound on the prints started
  MaxRestarts        \* bound on the restarts of klippy

ASSUME PrinterAssumption == MaxPrints \in Nat \ {0} /\ MaxRestarts \in Nat

VARIABLES
  instance,          \* klippy restarts so far
  print,             \* the newest print, 0 before the first
  state,             \* print_stats.state
  loaded,            \* virtual_sdcard.file_path is not null
  active,            \* virtual_sdcard.is_active
  atEnd,             \* file_position >= file_size > 0
  fate               \* history: what became of each print

printerVars == <<instance, print, state, loaded, active, atEnd, fate>>

Prints == 1..MaxPrints
States == {"standby", "printing", "paused", "complete", "cancelled", "error"}

(* "read": the file was read to its end.  "failed": stopped by an error and *)
(* still recoverable.  "ended": completed, cancelled or reset.  "killed":   *)
(* klippy restarted under it.                                               *)
Fates == {"none", "running", "read", "failed", "ended", "killed"}

PrinterInit ==
  /\ instance = 0 /\ print = 0 /\ state = "standby"
  /\ loaded = FALSE /\ active = FALSE /\ atEnd = FALSE
  /\ fate = [p \in Prints |-> "none"]

Becomes(s, l, a, e) == state' = s /\ loaded' = l /\ active' = a /\ atEnd' = e

(* Fates with the newest print's set to f. *)
Fate(f) == [p \in Prints |-> IF p = print THEN f ELSE fate[p]]

StartPrint ==
  /\ state \notin {"printing", "paused"}
  /\ print < MaxPrints
  /\ print' = print + 1
  /\ Becomes("printing", TRUE, TRUE, FALSE)
  /\ fate' = [p \in Prints |-> IF p = print + 1 THEN "running"
                              ELSE IF p = print /\ fate[p] = "failed" THEN "ended"
                              ELSE fate[p]]
  /\ UNCHANGED instance

ReadToEnd ==
  /\ state = "printing" /\ ~atEnd
  /\ Becomes("printing", TRUE, TRUE, TRUE)
  /\ fate' = Fate("read")
  /\ UNCHANGED <<instance, print>>

(* Also the first half of a direct cancel: the work timer stops before the *)
(* file is closed.                                                         *)
PausePrint ==
  /\ state = "printing"
  /\ Becomes("paused", TRUE, FALSE, atEnd)
  /\ UNCHANGED <<instance, print, fate>>

ResumePrint ==
  /\ state = "paused"
  /\ Becomes("printing", TRUE, TRUE, atEnd)
  /\ UNCHANGED <<instance, print, fate>>

FailPrint ==
  /\ state = "printing" /\ ~atEnd
  /\ Becomes("error", TRUE, FALSE, FALSE)
  /\ fate' = Fate("failed")
  /\ UNCHANGED <<instance, print>>

(* The file is closed and the state is set in one step of the reactor.     *)
EndPrint(from, s) ==
  /\ state \in from
  /\ Becomes(s, FALSE, FALSE, FALSE)
  /\ fate' = Fate("ended")
  /\ UNCHANGED <<instance, print>>

CompletePrint == atEnd /\ EndPrint({"printing"}, "complete")
CancelPrint == EndPrint({"paused", "error"}, "cancelled")
ResetFile == EndPrint({"paused", "error", "complete", "cancelled"}, "standby")

(* klippy restarts: what it was printing is killed.                        *)
Restart ==
  /\ instance < MaxRestarts
  /\ instance' = instance + 1
  /\ Becomes("standby", FALSE, FALSE, FALSE)
  /\ fate' = [p \in Prints |->
                IF fate[p] \in {"running", "failed"} THEN "killed" ELSE fate[p]]
  /\ UNCHANGED print

PrinterStep ==
  \/ StartPrint \/ ReadToEnd \/ PausePrint \/ ResumePrint
  \/ FailPrint \/ CompletePrint \/ CancelPrint \/ ResetFile

PrinterTypeOK ==
  /\ instance \in 0..MaxRestarts /\ print \in 0..MaxPrints /\ state \in States
  /\ loaded \in BOOLEAN /\ active \in BOOLEAN /\ atEnd \in BOOLEAN
  /\ fate \in [Prints -> Fates]
=============================================================================
