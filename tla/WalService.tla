----------------------------- MODULE WalService -----------------------------
(***************************************************************************)
(* plrd's WAL thread (crates/plrd/src/walsvc.rs): it takes commands,       *)
(* appends records to the current segment, makes them durable by their     *)
(* policy, rotates segments and beats the heartbeat; and what a process    *)
(* exit or a power cut leaves of its files.                                *)
(*                                                                         *)
(* One step is one system call that matters for durability.  A record is   *)
(* identified by its place in its session's stream: a segment holds the    *)
(* records lo+1..hi of the session that wrote it, of which those up to     *)
(* `synced` are on the medium; `named` says its directory entry is.  The   *)
(* slots of the heartbeat file are HeartbeatFile's subject; a beat is one  *)
(* step here.  Commands come from any source; WalPipeline connects the     *)
(* channel.                                                                *)
(***************************************************************************)
EXTENDS WalRecords

CONSTANTS
  RotateAt,      \* rotate_bytes, in records
  QuietEvery,    \* wal_heartbeat_quiet_every, in beats
  ActiveSamples, \* the samples whose HeartbeatData.active is true
  NoBeatYet,     \* last_wal_hb_seq = None
  MaxSessions,   \* bound on daemon starts
  MaxAppends,    \* bound on the records of one session
  MaxBeats       \* bound on the periodic beats

ASSUME ServiceAssumption ==
  /\ RotateAt \in Nat \ {0} /\ QuietEvery \in Nat \ {0}
  /\ ActiveSamples \subseteq HbSamples
  /\ NoBeatYet \notin Nat
  /\ MaxSessions \in Nat \ {0} /\ MaxAppends \in Nat /\ MaxBeats \in Nat

VARIABLES
  svc,           \* where the thread is
  session,       \* number of daemon starts so far
  segs,          \* the segment files, in index order
  dirty,         \* the current segment has unsynced appends
  batchArmed,    \* batch_deadline is set
  hbData,        \* the sample heartbeats are built from
  hbSeq,         \* hb_seq: beats written so far
  lastWalHb,     \* last_wal_hb_seq
  pfAppend,      \* the append in progress is the PowerFailing marker
  pfSeen,        \* power_failing_seen
  appended,      \* history: records each session appended
  promised,      \* history: of these, how many a sync has covered
  pfBeats        \* history: beats since this session journaled PowerFailing

fileVars == <<segs, appended, promised>>
beatVars == <<hbData, hbSeq, lastWalHb>>
powerVars == <<pfAppend, pfSeen, pfBeats>>
vars == <<svc, session, fileVars, dirty, batchArmed, beatVars, powerVars>>

Sessions == 1..MaxSessions

Segment == [session : Sessions, lo : Nat, hi : Nat, synced : Nat, named : BOOLEAN]
NewSegment(n, from) ==
  [session |-> n, lo |-> from, hi |-> from, synced |-> from, named |-> FALSE]
Current == Len(segs)

Init ==
  /\ svc = "down" /\ session = 0 /\ segs = <<>>
  /\ dirty = FALSE /\ batchArmed = FALSE
  /\ hbData = NoData /\ hbSeq = 0 /\ lastWalHb = NoBeatYet
  /\ pfAppend = FALSE /\ pfSeen = FALSE /\ pfBeats = 0
  /\ appended = [n \in Sessions |-> 0]
  /\ promised = [n \in Sessions |-> 0]
-----------------------------------------------------------------------------
(* Service::init: every start creates a fresh segment, one past the last.  *)
Boot ==
  /\ svc = "down"
  /\ session < MaxSessions
  /\ session' = session + 1
  /\ segs' = Append(segs, NewSegment(session + 1, 0))
  /\ svc' = "init"
  /\ dirty' = FALSE /\ batchArmed' = FALSE
  /\ hbData' = NoData /\ lastWalHb' = NoBeatYet
  /\ pfAppend' = FALSE /\ pfSeen' = FALSE /\ pfBeats' = 0
  /\ UNCHANGED <<hbSeq, appended, promised>>

(* fsync of the directory makes every name in it durable.                  *)
NameSegments == segs' = [i \in 1..Len(segs) |-> [segs[i] EXCEPT !.named = TRUE]]

BootDirSync ==
  /\ svc = "init"
  /\ svc' = "run"
  /\ NameSegments
  /\ UNCHANGED <<session, appended, promised, dirty, batchArmed, beatVars, powerVars>>

NeverArms(policy) == FALSE                                      \* mutant
ArmsBatch(policy) == policy = "Batched"

NeverSyncsNow(policy) == "check"                                \* mutant
AfterWrite(policy) == IF policy = "Immediate" THEN "sync" ELSE "check"

(* append: the record reaches the page cache; what follows is by policy.   *)
WriteRecord(policy) ==
  /\ segs' = [segs EXCEPT ![Current].hi = @ + 1]
  /\ appended' = [appended EXCEPT ![session] = @ + 1]
  /\ dirty' = TRUE
  /\ batchArmed' = (batchArmed \/ ArmsBatch(policy))
  /\ svc' = AfterWrite(policy)
  /\ UNCHANGED <<session, promised>>

RoomToAppend == appended[session] < MaxAppends

IsPowerFailing(cmd) == cmd.rec.kind = "PowerFailing"

HandleAppend(cmd) ==
  /\ svc = "run" /\ cmd.op = "Append"
  /\ RoomToAppend
  /\ pfAppend' = IsPowerFailing(cmd)
  /\ WriteRecord(cmd.sync)
  /\ UNCHANGED <<beatVars, pfSeen, pfBeats>>

(* A data-shaped rejection (an oversized context): the record is skipped   *)
(* and the log stays intact.  A marker is never oversized.                 *)
SkipAppend(cmd) ==
  /\ svc = "run" /\ cmd.op = "Append" /\ ~IsMarker(cmd.rec)
  /\ UNCHANGED vars

HandleHeartbeat(cmd) ==
  /\ svc = "run" /\ cmd.op = "Heartbeat"
  /\ hbData' = cmd.data
  /\ UNCHANGED <<svc, session, fileVars, dirty, batchArmed, hbSeq, lastWalHb, powerVars>>

(* The receive-seq sidecar is a file of its own, written and synced.       *)
HandleReceiveSeq(cmd) ==
  /\ svc = "run" /\ cmd.op = "ReceiveSeq"
  /\ UNCHANGED vars

HandleShutdown(cmd) ==
  /\ svc = "run" /\ cmd.op = "Shutdown"
  /\ svc' = "closing"
  /\ UNCHANGED <<session, fileVars, dirty, batchArmed, beatVars, powerVars>>

Handle(cmd) ==
  \/ HandleAppend(cmd) \/ SkipAppend(cmd) \/ HandleHeartbeat(cmd)
  \/ HandleReceiveSeq(cmd) \/ HandleShutdown(cmd)

(* sync_segment: nothing to do when clean.                                 *)
SyncSegment ==
  /\ segs' = IF dirty THEN [segs EXCEPT ![Current].synced = segs[Current].hi] ELSE segs
  /\ promised' = [promised EXCEPT ![session] = appended[session]]
  /\ dirty' = FALSE
  /\ batchArmed' = FALSE
  /\ UNCHANGED <<session, appended, beatVars, powerVars>>

SyncNow     == svc = "sync" /\ SyncSegment /\ svc' = "check"
BatchSync   == svc = "run" /\ batchArmed /\ SyncSegment /\ UNCHANGED svc

CloseUnsynced ==                                                \* mutant
  /\ svc = "closing" /\ svc' = "down"
  /\ UNCHANGED <<session, fileVars, dirty, batchArmed, beatVars, powerVars>>

(* The final sync of a clean exit.                                         *)
CloseDown   == svc = "closing" /\ SyncSegment /\ svc' = "down"

AfterAppend == IF pfAppend THEN "force" ELSE "run"

StartsUnsynced == "rotCreate"                                   \* mutant
RotationStart == "rotSync"

CheckRotate ==
  /\ svc = "check"
  /\ svc' = IF segs[Current].hi - segs[Current].lo >= RotateAt
              THEN RotationStart ELSE AfterAppend
  /\ UNCHANGED <<session, fileVars, dirty, batchArmed, beatVars, powerVars>>

(* rotate: 1. the finished segment is durable, ...                         *)
RotateSync  == svc = "rotSync" /\ SyncSegment /\ svc' = "rotCreate"

SkipsDirSync == AfterAppend                                     \* mutant
AfterCreate == "rotDirSync"

(* ... 2. the next one is created with a durable header, ...               *)
RotateCreate ==
  /\ svc = "rotCreate"
  /\ segs' = Append(segs, NewSegment(session, appended[session]))
  /\ svc' = AfterCreate
  /\ UNCHANGED <<session, appended, promised, dirty, batchArmed, beatVars, powerVars>>

(* ... 3. its name is durable, and only then is it the current segment.    *)
RotateDirSync ==
  /\ svc = "rotDirSync"
  /\ NameSegments
  /\ svc' = AfterAppend
  /\ UNCHANGED <<session, appended, promised, dirty, batchArmed, beatVars, powerVars>>

(* write_heartbeat_slot: no sample, no beat.                               *)
WriteBeat ==
  /\ hbSeq' = IF hbData = NoData THEN hbSeq ELSE hbSeq + 1
  /\ pfBeats' = IF hbData # NoData /\ (pfSeen \/ pfAppend) THEN pfBeats + 1 ELSE pfBeats
  /\ UNCHANGED <<session, fileVars, dirty, batchArmed, hbData>>

(* force_heartbeat_sync: the one final beat at the edge, file only; from   *)
(* here on beats are suppressed.                                           *)
ForceBeat ==
  /\ svc = "force"
  /\ WriteBeat
  /\ pfSeen' = TRUE
  /\ pfAppend' = FALSE
  /\ svc' = "run"
  /\ UNCHANGED lastWalHb

(* heartbeat_tick: the slot is durable first, then a heartbeat record when *)
(* the cadence of the regime says one is due.                              *)
Divisor == IF hbData \in ActiveSamples THEN 1 ELSE QuietEvery
RecordDue == lastWalHb = NoBeatYet \/ hbSeq - lastWalHb >= Divisor

MayBeat == ~pfSeen

Tick ==
  /\ svc = "run"
  /\ MayBeat
  /\ hbData # NoData
  /\ hbSeq < MaxBeats /\ RoomToAppend
  /\ WriteBeat
  /\ svc' = IF RecordDue THEN "beat" ELSE "run"
  /\ UNCHANGED <<lastWalHb, pfAppend, pfSeen>>

BeatWritten == hbSeq - 1

RecordBeat ==
  /\ svc = "beat"
  /\ WriteRecord("Batched")
  /\ lastWalHb' = BeatWritten
  /\ UNCHANGED <<hbData, hbSeq, powerVars>>

(* A fatal I/O error, or the process is killed: the page cache survives.   *)
ThreadExit ==
  /\ svc # "down"
  /\ svc' = "down"
  /\ UNCHANGED <<session, fileVars, dirty, batchArmed, beatVars, powerVars>>

(* A power cut: of each segment the synced records survive and some of the *)
(* rest, in order; the newest may be gone while its name was not durable.  *)
Survivor(s, upto) == [s EXCEPT !.hi = upto, !.synced = upto, !.named = TRUE]
Images ==
  LET keeps == {k \in [1..Len(segs) -> 0..MaxAppends] :
                  \A i \in 1..Len(segs) : k[i] \in segs[i].synced..segs[i].hi}
      lasts == {n \in 0..Len(segs) : \A i \in (n + 1)..Len(segs) : ~segs[i].named}
  IN  {[i \in 1..n |-> Survivor(segs[i], k[i])] : n \in lasts, k \in keeps}

PowerCut ==
  /\ segs' \in Images
  /\ svc' = "down"
  /\ UNCHANGED <<session, appended, promised, dirty, batchArmed, beatVars, powerVars>>

(* Commands of the socket side, and the marker of the power-fail watcher,  *)
(* which fires once in a process.                                          *)
Inputs ==
  {AppendCmd(Motion(0), "Batched"), MarkerCmd(Marker("SocketLost", 0)),
   ShutdownCmd, ReceiveSeqCmd(0)}
    \cup {HeartbeatCmd(d) : d \in HbSamples \cup {NoData}}
    \cup (IF pfSeen THEN {} ELSE {MarkerCmd(Marker("PowerFailing", 0))})

Work ==
  \/ BootDirSync \/ SyncNow \/ CloseDown \/ CheckRotate
  \/ RotateSync \/ RotateCreate \/ RotateDirSync
  \/ ForceBeat \/ RecordBeat

Next ==
  \/ Boot
  \/ \E cmd \in Inputs : Handle(cmd)
  \/ Work \/ BatchSync \/ Tick
  \/ ThreadExit \/ PowerCut

Spec == Init /\ [][Next]_vars

(* The thread is a loop over recv_timeout: it finishes what it is doing,   *)
(* and looks at the batch deadline after every command.                    *)
FairSpec == Spec /\ WF_vars(Work) /\ SF_vars(BatchSync)
-----------------------------------------------------------------------------
Control == {"down", "init", "run", "sync", "check", "closing", "rotSync",
            "rotCreate", "rotDirSync", "force", "beat"}

TypeOK ==
  /\ svc \in Control
  /\ session \in 0..MaxSessions
  /\ segs \in Seq(Segment)
  /\ dirty \in BOOLEAN /\ batchArmed \in BOOLEAN
  /\ hbData \in HbSamples \cup {NoData}
  /\ hbSeq \in Nat /\ lastWalHb \in Nat \cup {NoBeatYet}
  /\ pfAppend \in BOOLEAN /\ pfSeen \in BOOLEAN /\ pfBeats \in Nat
  /\ appended \in [Sessions -> Nat] /\ promised \in [Sessions -> Nat]

InFiles(n, r) ==
  \E i \in 1..Len(segs) : segs[i].session = n /\ segs[i].lo < r /\ r <= segs[i].hi

(* A record a sync has covered is in the files, whatever crashes and power *)
(* cuts follow, at any point of an append or a rotation.                   *)
PromisedSurvives == \A n \in Sessions : \A r \in 1..promised[n] : InFiles(n, r)

(* What the files hold of a session is a prefix of its stream: no crash    *)
(* surfaces a later segment over the lost tail of an earlier one.          *)
SurvivorsArePrefix ==
  \A n \in Sessions : \A r \in 1..appended[n] :
    InFiles(n, r) => \A q \in 1..r : InFiles(n, q)

(* No beat contradicts a journaled PowerFailing: one is forced at the edge *)
(* and none follows it, and it comes after its marker is durable, also     *)
(* when the marker's append rotates the segment.                           *)
MarkerDurableBeforeForcedBeat ==
  [][pfBeats' > pfBeats =>
       /\ pfBeats = 0
       /\ promised[session] = appended[session]
       /\ \A r \in 1..appended[session] : InFiles(session, r)
       /\ segs[Current].named]_vars

(* A batched record becomes durable unless the thread exits first.         *)
BatchedBecomesDurable ==
  (svc = "run" /\ dirty) ~> (svc = "down" \/ promised[session] = appended[session])
=============================================================================
