-------------------------------- MODULE Boot --------------------------------
(***************************************************************************)
(* From a stop of plrd to the next start (crates/plrd/src/daemon.rs): the  *)
(* power-fail watcher and its sidecar (powerfail.rs), how a session ends,  *)
(* and boot detection with the pending-recovery file it leaves             *)
(* (detect.rs).  Prints and klippy are external; they go on while the      *)
(* daemon restarts.                                                        *)
(*                                                                         *)
(* A file has a visible and a durable value: a power cut leaves one of     *)
(* the two, and of a plain write also a torn file.                         *)
(***************************************************************************)
EXTENDS BootDetection, Retention

CONSTANTS
  MaxBoots, MaxTick,        \* bounds on the boots and on a boot's uptime
  MaxPrints, MaxSegments,   \* bounds on the prints and the log's segments
  MaxRecords,               \* bound on the log
  MaxEdges,                 \* bound on the power-fail edges
  MaxFaults                 \* bound on unreadable logs and failed writes

ASSUME BootAssumption ==
  /\ {MaxBoots, MaxPrints} \subseteq Nat \ {0}
  /\ {MaxTick, MaxSegments, MaxRecords, MaxEdges, MaxFaults} \subseteq Nat
  /\ SegmentLimit \in 1..3
  /\ NoEdge \notin [boot : Nat, t : Nat] /\ Unreadable \notin Nat

VARIABLES
  boot, now,         \* this boot and its monotonic clock
  print, fate,       \* the newest print; what became of each
  spent,             \* prints whose file has nothing left to extrude
  onDisplay,         \* the print whose file Klipper names, 0 for none
  log, segs,         \* the durable records; the segments opened
  created, present,  \* the clock in their headers; those still there
  phase,             \* the daemon: down, or how far its start is
  verdict,           \* what detection concluded
  watcher,           \* the power-fail watcher's progress
  edgeTime,          \* the edge it confirmed
  sidecar, sidecarDurable,
  pending, pendingDurable,
  faults, edges,
  sawPrint           \* this session journaled the running print's context

worldVars == <<print, fate, spent, onDisplay>>
segVars == <<segs, created, present>>
logVars == <<log, segVars>>
watcherVars == <<watcher, edgeTime, edges>>
daemonVars == <<phase, verdict>>
fileVars == <<sidecar, sidecarDurable, pending, pendingDurable>>
vars == <<boot, now, worldVars, logVars, daemonVars, watcherVars, fileVars,
          faults, sawPrint>>

Prints == 1..MaxPrints
Edges == [boot : 1..MaxBoots, t : 0..MaxTick]
NoOffer == [kind |-> "absent"]
Torn == [kind |-> "torn"]
Offer(p, e) == [kind |-> "offer", print |-> p, edge |-> e]

Running == print # 0 /\ fate[print] = "running"
Recording == phase = "recording"

Init ==
  /\ boot = 1 /\ now = 0
  /\ print = 0 /\ fate = [p \in Prints |-> "none"]
  /\ spent = {} /\ onDisplay = 0
  /\ log = <<>> /\ segs = 0 /\ created = <<>> /\ present = {}
  /\ phase = "down" /\ verdict = NoVerdict
  /\ watcher = "armed" /\ edgeTime = NoEdge
  /\ sidecar = NoEdge /\ sidecarDurable = NoEdge
  /\ pending = NoOffer /\ pendingDurable = NoOffer
  /\ faults = 0 /\ edges = 0 /\ sawPrint = FALSE
-----------------------------------------------------------------------------
(* The world. *)

(* A tick is longer than the watcher takes from the edge to the marker.    *)
Tick ==
  /\ now < MaxTick /\ watcher \in {"armed", "journaled"}
  /\ now' = now + 1
  /\ UNCHANGED <<boot, worldVars, logVars, daemonVars, watcherVars, fileVars,
                 faults, sawPrint>>

(* A print starts once the machine has been up for a while.                *)
StartPrint ==
  /\ now >= 1 /\ ~Running /\ print < MaxPrints
  /\ print' = print + 1
  /\ fate' = [fate EXCEPT ![print + 1] = "running"]
  /\ onDisplay' = print + 1
  /\ sawPrint' = FALSE
  /\ UNCHANGED <<boot, now, spent, logVars, daemonVars, watcherVars, fileVars, faults>>

(* One of the daemon's file operations fails.                              *)
Fails == faults < MaxFaults /\ faults' = faults + 1

Record(kind, p, ended) ==
  [seg |-> segs, t |-> now, kind |-> kind, print |-> p, ended |-> ended]

(* walsvc numbers a new segment past every one on disk.                    *)
NewSegment == segs + 1
OpenSegment ==
  /\ segs' = NewSegment
  /\ created' = Append(created, now)
  /\ present' = present \cup {NewSegment}

LastRecord == Latest(DOMAIN log)
Journal(r) ==
  /\ Cardinality(DOMAIN log) < MaxRecords
  /\ LastRecord # 0 => r # log[LastRecord]
  /\ log' = [i \in DOMAIN log \cup {LastRecord + 1} |-> IF i <= LastRecord THEN log[i] ELSE r]
  /\ UNCHANGED segVars

LastExtrusion ==
  /\ Running /\ print \notin spent
  /\ spent' = spent \cup {print}
  /\ UNCHANGED <<boot, now, print, fate, onDisplay, logVars, daemonVars, watcherVars,
                 fileVars, faults, sawPrint>>

(* The print ends on purpose; a session that saw it run journals a         *)
(* CleanShutdown marker.  The file may stay selected.                      *)
EndPrint ==
  /\ Running
  /\ fate' = [fate EXCEPT ![print] = "ended"]
  /\ onDisplay' \in {0, print}
  /\ sawPrint' = FALSE
  /\ IF Recording /\ sawPrint
     THEN Journal(Record("clean", print, FALSE))
     ELSE UNCHANGED logVars
  /\ UNCHANGED <<boot, now, print, spent, daemonVars, watcherVars, fileVars, faults>>

(* klippy restarts and its print with it, or only the socket is lost.      *)
LoseKlippy ==
  /\ \/ UNCHANGED <<fate, onDisplay>>
     \/ /\ fate' = IF Running THEN [fate EXCEPT ![print] = "dead"] ELSE fate
        /\ onDisplay' = 0
  /\ sawPrint' = FALSE
  /\ IF Recording THEN Journal(Record("lost", 0, FALSE)) ELSE UNCHANGED logVars
  /\ UNCHANGED <<boot, now, print, spent, daemonVars, watcherVars, fileVars, faults>>

(* Power is cut: the newest unsynced records are lost, each file is what   *)
(* was visible, what was durable or, of a plain write, torn, and so is the *)
(* header of a segment that was being created.                             *)
Synced ==
  Latest({i \in DOMAIN log : log[i].t < now \/ log[i].seg < segs
                             \/ log[i].kind \notin {"context", "motion"}})

PowerCut ==
  /\ boot < MaxBoots
  /\ boot' = boot + 1 /\ now' = 0
  /\ fate' = IF Running THEN [fate EXCEPT ![print] = "dead"] ELSE fate
  /\ onDisplay' = 0
  /\ \E n \in Synced..LastRecord : log' = [i \in {k \in DOMAIN log : k <= n} |-> log[i]]
  /\ sidecar' \in {sidecar, sidecarDurable} /\ sidecarDurable' = sidecar'
  /\ pending' \in IF pending = pendingDurable THEN {pending}
                  ELSE {pending, pendingDurable, Torn}
  /\ pendingDurable' = pending'
  /\ phase' = "down" /\ verdict' = NoVerdict
  /\ watcher' = "armed" /\ edgeTime' = NoEdge
  /\ sawPrint' = FALSE
  /\ \/ UNCHANGED segVars
     \/ /\ phase \in {"disposed", "recording"} /\ segs < MaxSegments
        /\ segs' = NewSegment
        /\ created' = Append(created, Unreadable)
        /\ present' = present \cup {NewSegment}
  /\ UNCHANGED <<print, spent, edges, faults>>
-----------------------------------------------------------------------------
(* The recorder. *)

JournalContext ==
  /\ Recording
  /\ Journal(Record("context", onDisplay, onDisplay # 0 /\ fate[onDisplay] = "ended"))
  /\ sawPrint' = (Running /\ onDisplay = print)
  /\ UNCHANGED <<boot, now, worldVars, daemonVars, watcherVars, fileVars, faults>>

(* The toolhead moves: for the print, or by hand.                          *)
JournalMotion ==
  /\ Recording
  /\ Journal(Record("motion", IF Running /\ sawPrint THEN print ELSE 0, FALSE))
  /\ UNCHANGED <<boot, now, worldVars, daemonVars, watcherVars, fileVars, faults,
                 sawPrint>>

Rotate ==
  /\ Recording /\ segs < MaxSegments
  /\ OpenSegment
  /\ UNCHANGED <<boot, now, worldVars, log, daemonVars, watcherVars, fileVars,
                 faults, sawPrint>>
-----------------------------------------------------------------------------
(* The power-fail watcher: sidecar, then marker, then the clean exit.      *)

Confirm ==
  /\ Recording /\ watcher = "armed" /\ edges < MaxEdges
  /\ watcher' = "confirmed" /\ edges' = edges + 1
  /\ edgeTime' = [boot |-> boot, t |-> now]
  /\ UNCHANGED <<boot, now, worldVars, logVars, daemonVars, fileVars, faults,
                 sawPrint>>

(* Synced, renamed and the directory synced; a failure, before the rename  *)
(* or after it, is logged.                                                 *)
WriteSidecar ==
  /\ watcher = "confirmed"
  /\ watcher' = "sidecar"
  /\ \/ sidecar' = edgeTime /\ sidecarDurable' = edgeTime /\ UNCHANGED faults
     \/ /\ Fails
        /\ sidecar' \in {sidecar, edgeTime}
        /\ UNCHANGED sidecarDurable
  /\ UNCHANGED <<boot, now, worldVars, logVars, daemonVars, edgeTime, edges,
                 pending, pendingDurable, sawPrint>>

JournalEdge ==
  /\ watcher = "sidecar"
  /\ watcher' = "journaled"
  /\ Journal([Record("edge", 0, FALSE) EXCEPT !.t = edgeTime.t])
  /\ UNCHANGED <<boot, now, worldVars, daemonVars, edgeTime, edges, fileVars, faults,
                 sawPrint>>
-----------------------------------------------------------------------------
(* How a session ends. *)

Stops ==
  /\ phase' = "down" /\ verdict' = NoVerdict
  /\ watcher' = "armed" /\ edgeTime' = NoEdge
  /\ sawPrint' = FALSE
  /\ UNCHANGED <<boot, now, worldVars, edges, fileVars, faults>>

(* SIGTERM or SIGINT; of two ready branches select! takes the one it polls *)
(* first.                                                                  *)
StopOnSignal ==
  /\ Recording
  /\ Journal(Record("stopped", 0, FALSE))
  /\ Stops

StopOnPowerFail ==
  /\ Recording /\ watcher = "journaled"
  /\ UNCHANGED logVars
  /\ Stops

Die ==
  /\ phase # "down"
  /\ UNCHANGED logVars
  /\ Stops
-----------------------------------------------------------------------------
(* The next start. *)

(* The completion gate may lack the evidence to prove that a print is      *)
(* complete.                                                               *)
Detect ==
  /\ phase = "down"
  /\ phase' = "decided"
  /\ \/ \E complete \in {{}, spent} :
           verdict' = Verdict(Window(log, present), sidecar, complete)
        /\ UNCHANGED faults
     \/ Fails /\ verdict' = Saying("unread")
  /\ UNCHANGED <<boot, now, worldVars, logVars, watcherVars, fileVars,
                 sawPrint>>

ClearsAlways(kind) == kind # "pending"                          \* mutant
Settles(kind) == kind \in {"clean", "complete", "settled"}

(* write_pending or clear_pending; the file before may have been written   *)
(* back meanwhile.  A failed write is noticed, a failed removal is not.    *)
Apply ==
  /\ phase = "decided"
  /\ pendingDurable' \in {pending, pendingDurable}
  /\ \/ /\ phase' = "applied"
        /\ pending' = IF verdict.kind = "pending" THEN Offer(verdict.print, verdict.edge)
                      ELSE IF Settles(verdict.kind) THEN NoOffer
                      ELSE pending
        /\ UNCHANGED faults
     \/ /\ Fails
        /\ verdict.kind = "pending"
        /\ phase' = "failed"
        /\ pending' \in {pending, Torn}
     \/ /\ Fails
        /\ Settles(verdict.kind)
        /\ phase' = "applied"
        /\ UNCHANGED pending
  /\ UNCHANGED <<boot, now, worldVars, logVars, verdict, watcherVars, sidecar,
                 sidecarDurable, sawPrint>>

(* preserve_power_fail_sidecar, negated.                                   *)
EvenIfNotWritten == verdict.kind = "pending" \/ Settles(verdict.kind)   \* mutant
EdgeConsumed ==
  (verdict.kind = "pending" /\ phase = "applied") \/ Settles(verdict.kind)

(* dispose_power_fail_sidecar.                                             *)
Dispose ==
  /\ phase \in {"applied", "failed"}
  /\ \/ sidecar' = (IF EdgeConsumed THEN NoEdge ELSE sidecar) /\ UNCHANGED faults
     \/ Fails /\ EdgeConsumed /\ UNCHANGED sidecar
  /\ phase' = "disposed" /\ verdict' = NoVerdict
  /\ UNCHANGED <<boot, now, worldVars, logVars, watcherVars, sidecarDurable,
                 pending, pendingDurable, sawPrint>>

(* run_pruning, then the WAL thread opens its segment.  An unlink may fail. *)
Metas ==
  [s \in present |->
     [created |-> created[s],
      size |-> 1 + Cardinality({k \in DOMAIN log : log[k].seg = s})]]

Naming ==
  {s \in present : \E k \in DOMAIN log :
     log[k].seg = s /\ NamesFile(log[k])
       /\ pending.kind = "offer" /\ log[k].print = pending.print}

Prune ==
  /\ phase = "disposed" /\ segs < MaxSegments
  /\ \E frame \in {"absent", "present", "torn"} :
       \E gone \in SUBSET Pruned(Metas, pending.kind, frame, Naming) :
         /\ log' = [i \in {k \in DOMAIN log : log[k].seg \notin gone} |-> log[i]]
         /\ present' = (present \ gone) \cup {NewSegment}
  /\ segs' = NewSegment
  /\ created' = Append(created, now)
  /\ phase' = "recording"
  /\ UNCHANGED <<boot, now, worldVars, verdict, watcherVars, fileVars, faults, sawPrint>>

World == Tick \/ StartPrint \/ LastExtrusion \/ EndPrint \/ LoseKlippy \/ PowerCut
Recorder == JournalContext \/ JournalMotion \/ Rotate
Watcher == Confirm \/ WriteSidecar \/ JournalEdge
Daemon == StopOnSignal \/ StopOnPowerFail \/ Die \/ Detect \/ Apply \/ Dispose \/ Prune

Next == World \/ Recorder \/ Watcher \/ Daemon

Spec == Init /\ [][Next]_vars
-----------------------------------------------------------------------------
Verdicts == {"none", "unread", "unknown", "clean", "settled", "stopped", "complete", "pending"}
Offers == {Offer(p, e) : p \in Prints, e \in Edges \cup {NoEdge}} \cup {NoOffer, Torn}

TypeOK ==
  /\ boot \in 1..MaxBoots /\ now \in 0..MaxTick /\ print \in 0..MaxPrints
  /\ fate \in [Prints -> {"none", "running", "dead", "ended"}]
  /\ onDisplay \in 0..print /\ spent \subseteq 1..print
  /\ \A i \in DOMAIN log : log[i].kind \in RecordKinds /\ log[i].seg \in 1..segs
  /\ phase \in {"down", "decided", "applied", "failed", "disposed", "recording"}
  /\ verdict.kind \in Verdicts
  /\ watcher \in {"armed", "confirmed", "sidecar", "journaled"}
  /\ {sidecar, sidecarDurable, edgeTime} \subseteq Edges \cup {NoEdge}
  /\ pending \in Offers /\ pendingDurable \in Offers

Offered(p) == pending.kind = "offer" /\ pending.print = p
Recoverable(p) == p # 0 /\ fate[p] \in {"running", "dead"} /\ p \notin spent

(* The log that boot detection reads, and where it shows that p moved: a   *)
(* motion of p with its file named before it in the same segment.          *)
Found == Window(log, present)
Moved(w, p) ==
  {j \in DOMAIN w :
     /\ w[j].kind = "motion" /\ w[j].print = p
     /\ \E i \in DOMAIN w :
          i < j /\ NamesFile(w[i]) /\ w[i].print = p /\ w[i].seg = w[j].seg}

(* A print that died after it moved is offered, unless plrd was stopped    *)
(* since, whatever idle sessions, restarts and klippy sessions came after  *)
(* it (epoch.rs "What is selected").                                       *)
CrashIsOffered ==
  (/\ phase = "decided" /\ Recoverable(print) /\ fate[print] = "dead"
   /\ \E j \in Moved(Found, print) :
        \A k \in DOMAIN Found : k > j => Found[k].kind # "stopped")
  => verdict.kind = "unread" \/ (verdict.kind = "pending" /\ verdict.print = print)

(* The offer of a print that can still be recovered is given up only for   *)
(* a newer print's, or torn by its own rewriting: no restart and no        *)
(* unreadable log retracts it, and neither does a log that shows it moved  *)
(* or has rotated past what any print did (detect.rs                       *)
(* NoOffer::preserve_pending).                                             *)
OfferIsNotRetracted ==
  [][\A p \in Prints :
       (/\ Offered(p) /\ p = print /\ Recoverable(p)
        /\ \/ Moved(Found, p) # {}
           \/ \A i \in DOMAIN Found : Found[i].kind \notin {"context", "clean"})
       => Offered(p)' \/ pending' = Torn \/ boot' # boot]_vars

(* A print whose end was journaled, with no motion in that session since,  *)
(* is not offered at a later start (detect.rs "the print ended on          *)
(* purpose").                                                              *)
EndIsRemembered ==
  phase = "decided" /\ verdict.kind = "pending" =>
    \A s \in Epochs(log) : \A i \in Epoch(log, s) :
      log[i].kind = "clean" /\ log[i].print = verdict.print =>
        \E j \in Epoch(log, s) : j > i /\ log[j].kind = "motion"

(* The sidecar of a print that died and is seen to have moved is deleted   *)
(* only once the pending file carries its edge (daemon.rs:405-420).        *)
EdgeIsConsumedFirst ==
  [][(/\ sidecar # NoEdge /\ sidecar' = NoEdge /\ boot' = boot
      /\ Recoverable(print) /\ Moved(Found, print) # {}
      /\ Admits(Found, CrashEpoch(Found), sidecar))
     => pending.kind = "offer" /\ pending.edge = sidecar]_vars

(* What boot detection persisted of a crash, a later `plrd recover` still  *)
(* has (daemon.rs:88-92).                                                  *)
EdgeIsKept ==
  [][\A p \in Prints :
       Offered(p) /\ pending.edge # NoEdge /\ Offered(p)' /\ boot' = boot =>
         pending'.edge # NoEdge]_vars

(* While a print is offered no start deletes a record of it, and while the *)
(* offer is torn none deletes anything (retention.rs resolve_pins).        *)
EvidenceIsKept ==
  [][boot' = boot =>
       /\ pending = Torn => present \subseteq present'
       /\ \A i \in DOMAIN log : Offered(log[i].print) => log[i].seg \in present']_vars
=============================================================================
