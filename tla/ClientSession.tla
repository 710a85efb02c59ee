---------------------------- MODULE ClientSession ----------------------------
(***************************************************************************)
(* plrd's connection to Klipper (crates/plrd/src/client.rs) and what its   *)
(* Recorder decides to journal about it (crates/plrd/src/convert.rs): the  *)
(* lifecycle markers, the heartbeat sample and its regime.                 *)
(*                                                                         *)
(* Klipper samples its status and sends what changed since the last        *)
(* sample, so a message may describe a printer that has moved on.  The     *)
(* sender is the one of WalSender: markers are never dropped, a heartbeat  *)
(* sample is when the channel is full.                                     *)
(***************************************************************************)
EXTENDS Printer, Sequences, FiniteSets

CONSTANTS
  NoSample,          \* est_sample = None; HeartbeatData = None
  MaxInbox,          \* bound on the messages in flight
  MaxConns,          \* bound on the connections made
  MaxLost,           \* bound on the messages lost or not understood
  MaxDrops,          \* bound on the heartbeat samples a full channel drops
  MaxSetupFailures   \* bound on the setups that fail after the subscription

ASSUME SessionAssumption ==
  /\ NoSample \notin Nat /\ NoSample \notin [est : Nat, active : BOOLEAN]
  /\ {MaxInbox, MaxConns, MaxLost, MaxDrops, MaxSetupFailures} \subseteq Nat

VARIABLES
  stats,             \* print_stats reaches the daemon
  phase,             \* where run_client is
  lostBefore,        \* lost_after_subscribe
  conn,              \* connections made so far
  open,              \* the socket still reaches a running klippy
  lastSent,          \* what the subscription last reported
  inbox,             \* messages on their way
  gate,              \* print_in_progress
  known,             \* merged file_path, is_active and file position
  recent,            \* motion arrived within IDLE_AFTER_MOTION_NS
  recActive,         \* recording_active
  evaluated,         \* regime_evaluated
  est,               \* est_sample: the klippy instance it is from
  beats,             \* the HeartbeatData the WAL thread holds
  lost, drops, setupFailures,
  closed,            \* history: prints a CleanShutdown marker was journaled for
  seen,              \* history: newest print seen in progress since the last reset
  missed,            \* history: a message was lost since then
  explained,         \* history: RecordingQuiescent since the last active sample
  sources,           \* history: connections with records since the last SocketLost
  tailLost           \* history: the log ends in SocketLost, no Resubscribed or motion after

clientVars == <<stats, phase, lostBefore, conn>>
linkVars == <<open, lastSent, inbox>>
recorderVars == <<gate, known, recent, recActive, evaluated, est>>
journalVars == <<beats, closed, seen, missed, explained, sources, tailLost>>
countVars == <<lost, drops, setupFailures>>
vars == <<printerVars, clientVars, linkVars, recorderVars, journalVars, countVars>>

Snapshot == [state |-> state, loaded |-> loaded, active |-> active, atEnd |-> atEnd]
FileKeys == {"loaded", "active", "atEnd"}
Keys == {"state"} \cup FileKeys
Nothing == [state |-> "standby", loaded |-> FALSE, active |-> FALSE, atEnd |-> FALSE]

(* A status carries the keys that changed, and the clock of its klippy;    *)
(* `print` only names the print.                                           *)
Status(keys) == [type |-> "status", keys |-> keys, now |-> Snapshot,
                 clock |-> instance, print |-> print]
Motion == [type |-> "motion", keys |-> {}, now |-> Nothing,
           clock |-> instance, print |-> 0]

Init ==
  /\ PrinterInit
  /\ stats \in BOOLEAN /\ phase = "down" /\ lostBefore = FALSE /\ conn = 0
  /\ open = FALSE /\ lastSent = Nothing /\ inbox = <<>>
  /\ gate = FALSE /\ known = [k \in FileKeys |-> FALSE] /\ recent = FALSE
  /\ recActive = FALSE /\ evaluated = FALSE /\ est = NoSample
  /\ beats = NoSample /\ lost = 0 /\ drops = 0 /\ setupFailures = 0
  /\ closed = {} /\ seen = 0 /\ missed = FALSE /\ explained = FALSE /\ sources = {}
  /\ tailLost = FALSE
-----------------------------------------------------------------------------
(* The printer and its side of the socket. *)

PrinterMoves ==
  PrinterStep /\ UNCHANGED <<clientVars, linkVars, recorderVars, journalVars, countVars>>

(* A restart closes the socket; what was sent may still be read.           *)
KlippyRestarts ==
  /\ Restart
  /\ open' = FALSE
  /\ UNCHANGED <<lastSent, inbox, clientVars, recorderVars, journalVars, countVars>>

SendMessage(m) ==
  /\ open /\ phase \in {"subscribed", "dumps", "live"}
  /\ Len(inbox) < MaxInbox
  /\ inbox' = Append(inbox, m)
  /\ UNCHANGED <<printerVars, open, clientVars, recorderVars, journalVars, countVars>>

Sample ==
  /\ SendMessage(Status({k \in Keys : Snapshot[k] # lastSent[k]}))
  /\ lastSent' = Snapshot

Move == SendMessage(Motion) /\ UNCHANGED lastSent
-----------------------------------------------------------------------------
(* The recorder.  Each operator takes the message it merges.               *)

InProgress(s) == s \in {"printing", "paused"}
ErrorFinishes(s) == ~InProgress(s)                              \* mutant
Finished(s) == s \in {"standby", "complete", "cancelled"}

StateIn(m) == stats /\ "state" \in m.keys
Merged(m) == [k \in FileKeys |-> IF k \in m.keys THEN m.now[k] ELSE known[k]]

(* Signal 1: print_stats left an in-progress state for a finished one.     *)
Opens(m) == StateIn(m) /\ InProgress(m.now.state)
Signal1(m) == gate /\ StateIn(m) /\ Finished(m.now.state)
Gate1(m) == (gate \/ Opens(m)) /\ ~Signal1(m)

(* Signal 2: the file was closed while a print was in progress.            *)
FileCloses(m) == "loaded" \in m.keys /\ known.loaded /\ ~m.now.loaded
NoSignal2(m) == FALSE                                           \* mutant
Signal2(m) == Gate1(m) /\ FileCloses(m)

(* Signal 3: is_active fell at the end of the file or with none loaded.    *)
Activates(m) == "active" \in m.keys /\ m.now.active
Signal3(m) ==
  /\ known.active /\ "active" \in m.keys /\ ~m.now.active
  /\ Merged(m).atEnd \/ ~Merged(m).loaded

GateAfter(m) == (Gate1(m) /\ ~Signal2(m)) \/ Activates(m)
CleanShutdown(m) == Signal1(m) \/ Signal2(m) \/ Signal3(m)

(* note_regime: idle now, and newly so. *)
TurnsQuiet(isActive) == ~isActive /\ (recActive \/ ~evaluated)

(* forward: the regime marker goes before the sample it explains, the      *)
(* CleanShutdown marker last; a full channel drops the sample.             *)
Forward(m, isActive) ==
  LET data == [est |-> est', active |-> isActive]
      quiet == explained \/ TurnsQuiet(isActive)
  IN  /\ \/ /\ est' # NoSample
            /\ beats' = data
            /\ explained' = (quiet /\ ~isActive)
            /\ UNCHANGED drops
         \/ /\ est' # NoSample /\ drops < MaxDrops
            /\ drops' = drops + 1
            /\ explained' = quiet
            /\ UNCHANGED beats
         \/ est' = NoSample /\ explained' = quiet /\ UNCHANGED <<beats, drops>>
      /\ seen' = IF Opens(m) \/ Activates(m) THEN m.print ELSE seen
      /\ closed' = IF CleanShutdown(m) THEN closed \cup {seen'} ELSE closed
      /\ sources' = IF m.type = "motion" \/ m.keys # {} THEN sources \cup {conn} ELSE sources
      /\ tailLost' = (tailLost /\ m.type # "motion")

(* on_status, on_trapq, on_stepper, and forward. *)
Handle(m) ==
  /\ gate' = GateAfter(m)
  /\ known' = Merged(m)
  /\ recent' = (recent \/ m.type = "motion")
  /\ est' = IF m.type = "status" THEN m.clock ELSE est
  /\ LET isActive == gate' \/ recent'
     IN  /\ recActive' = isActive
         /\ evaluated' = TRUE
         /\ Forward(m, isActive)

(* The window of recent motion passes.                                     *)
MotionAges ==
  /\ recent
  /\ recent' = FALSE
  /\ UNCHANGED <<printerVars, clientVars, linkVars, gate, known, recActive,
                 evaluated, est, journalVars, countVars>>

(* reset_session: what belongs to the klippy instance that died.           *)
KeepsGate == gate                                               \* mutant
GateAfterLoss == FALSE
KeepsSample == est                                              \* mutant
SampleAfterLoss == NoSample

ResetSession ==
  /\ gate' = GateAfterLoss
  /\ known' = [known EXCEPT !.active = FALSE]
  /\ recent' = FALSE /\ recActive' = FALSE /\ evaluated' = FALSE
  /\ est' = SampleAfterLoss
  /\ seen' = 0 /\ missed' = FALSE
-----------------------------------------------------------------------------
(* The client. *)

Connect ==
  /\ phase = "down" /\ conn < MaxConns
  /\ phase' = "setup"
  /\ conn' = conn + 1
  /\ open' = TRUE /\ inbox' = <<>>
  /\ UNCHANGED <<printerVars, stats, lostBefore, lastSent, recorderVars,
                 journalVars, countVars>>

(* objects/subscribe: the response is the full status.                     *)
Subscribe ==
  /\ phase = "setup" /\ open
  /\ phase' = "subscribed"
  /\ inbox' = <<Status(Keys)>>
  /\ lastSent' = Snapshot
  /\ UNCHANGED <<printerVars, open, stats, lostBefore, conn, recorderVars,
                 journalVars, countVars>>

AfterMessage == IF phase = "subscribed" THEN "dumps" ELSE phase

Receive ==
  /\ inbox # <<>>
  /\ inbox' = Tail(inbox)
  /\ phase' = AfterMessage
  /\ UNCHANGED <<printerVars, open, lastSent, stats, lostBefore, conn, setupFailures, missed>>
  /\ Handle(Head(inbox)) /\ UNCHANGED lost

(* An oversized frame or a payload that does not parse is skipped.         *)
SkipMessage ==
  /\ inbox # <<>> /\ lost < MaxLost
  /\ inbox' = Tail(inbox)
  /\ lost' = lost + 1
  /\ missed' = TRUE
  /\ phase' = AfterMessage
  /\ UNCHANGED <<printerVars, open, lastSent, stats, lostBefore, conn, recorderVars,
                 beats, closed, seen, explained, sources, tailLost, drops, setupFailures>>

(* The dumps are accepted; a subscription after a loss says so.            *)
SetupDone ==
  /\ phase = "dumps" /\ open
  /\ phase' = "live"
  /\ tailLost' = (tailLost /\ ~lostBefore)
  /\ UNCHANGED <<printerVars, stats, lostBefore, conn, linkVars, recorderVars,
                 beats, closed, seen, missed, explained, sources, countVars>>

RemembersLoss == TRUE

PausedBeats == NoSample

LosesSilently == sources                                        \* mutant
SourcesAfterLoss == {}

CloseLink == open' = FALSE /\ inbox' = <<>> /\ lastSent' = Nothing

(* The socket fails in the read loop: SocketLost, no more heartbeats, and  *)
(* the recorder forgets the session.  The pause is a sample like any other.*)
LoseSession ==
  /\ phase = "live"
  /\ phase' = "down"
  /\ CloseLink
  /\ lostBefore' = RemembersLoss
  /\ tailLost' = TRUE
  /\ sources' = SourcesAfterLoss
  /\ \/ beats' = PausedBeats /\ UNCHANGED drops
     \/ drops < MaxDrops /\ drops' = drops + 1 /\ UNCHANGED beats
  /\ ResetSession
  /\ UNCHANGED <<printerVars, stats, conn, closed,
                 explained, lost, setupFailures>>

(* The socket fails, or a request is rejected, before setup is done:       *)
(* nothing is journaled and nothing is reset.                              *)
FailSetup ==
  /\ phase \in {"setup", "subscribed", "dumps"}
  /\ phase = "dumps" => setupFailures < MaxSetupFailures
  /\ setupFailures' = IF phase = "dumps" THEN setupFailures + 1 ELSE setupFailures
  /\ phase' = "down"
  /\ CloseLink
  /\ UNCHANGED <<printerVars, stats, lostBefore, conn, recorderVars,
                 journalVars, lost, drops>>

Client ==
  \/ Connect \/ Subscribe \/ Receive \/ SkipMessage \/ SetupDone
  \/ LoseSession \/ FailSetup \/ MotionAges

Next == PrinterMoves \/ KlippyRestarts \/ Sample \/ Move \/ Client

Spec == Init /\ [][Next]_vars
-----------------------------------------------------------------------------
Sampled == [est : 0..MaxRestarts, active : BOOLEAN]
Snapshots == [state : States, loaded : BOOLEAN, active : BOOLEAN, atEnd : BOOLEAN]
Messages == [type : {"status", "motion"}, keys : SUBSET Keys, now : Snapshots,
             clock : 0..MaxRestarts, print : 0..MaxPrints]

TypeOK ==
  /\ PrinterTypeOK
  /\ phase \in {"down", "setup", "subscribed", "dumps", "live"}
  /\ stats \in BOOLEAN /\ lostBefore \in BOOLEAN /\ conn \in 0..MaxConns
  /\ open \in BOOLEAN /\ lastSent \in Snapshots /\ inbox \in Seq(Messages)
  /\ {gate, recent, recActive, evaluated} \subseteq BOOLEAN
  /\ known \in [FileKeys -> BOOLEAN]
  /\ est \in 0..MaxRestarts \cup {NoSample}
  /\ beats \in Sampled \cup {NoSample}
  /\ closed \subseteq Prints /\ seen \in 0..MaxPrints
  /\ {missed, explained, tailLost} \subseteq BOOLEAN
  /\ sources \subseteq 0..MaxConns
  /\ lost \in Nat /\ drops \in Nat /\ setupFailures \in Nat

CaughtUp ==
  phase = "live" /\ open /\ inbox = <<>> /\ lastSent = Snapshot /\ ~missed

(* A CleanShutdown marker is journaled only for a print that ended on      *)
(* purpose or was read to its end: never for one that an error stopped or  *)
(* a restart of klippy killed (convert.rs "Why signal 2 needs a session    *)
(* gate").                                                                 *)
OnlyEndsAreClosed ==
  \A p \in closed : p \in Prints /\ fate[p] \in {"read", "ended"}

(* So it is while setup is not interrupted after the subscription and each *)
(* status is understood, whatever the printer does between two samples and *)
(* in whatever order losses and restarts fall.                             *)
CleanShutdownIsHonest == setupFailures = 0 /\ lost = 0 => OnlyEndsAreClosed

(* A print the session saw running and that ended on purpose is journaled  *)
(* as ended once the session has caught up, whichever signals reach it     *)
(* (convert.rs "Why signal 3 alone was not enough").                       *)
EndIsJournaled ==
  CaughtUp /\ seen # 0 /\ seen = print /\ fate[seen] = "ended" => seen \in closed

(* While a print the session saw can still be recovered, dwelling, paused  *)
(* or failed, heartbeats keep the full cadence, whatever is in flight or   *)
(* was lost (convert.rs regime_active).                                    *)
LivePrintKeepsCadence ==
  seen # 0 /\ fate[seen] \in {"running", "failed"} => gate /\ recActive

(* Records of two connections are never adjacent in the log: the outage    *)
(* between them is marked, unless setup was interrupted (client.rs         *)
(* "Session lifecycle"), and the log of a live session is never read as    *)
(* one whose socket is lost (timeline.rs: a SocketLost with no later       *)
(* Resubscribed or motion).                                                *)
OutageIsMarked ==
  /\ setupFailures = 0 => Cardinality(sources) <= 1
  /\ phase = "live" => ~tailLost

(* A sample the thread is given belongs to the klippy the session talks    *)
(* to, also when its first status was not understood; and it beats         *)
(* sparsely only after a RecordingQuiescent marker explained it, whichever *)
(* samples the channel dropped.                                            *)
BeatsAreHonest ==
  [][beats' # NoSample =>
       /\ setupFailures = 0 /\ beats' # beats /\ open => beats'.est = instance
       /\ ~beats'.active => explained']_vars
=============================================================================
