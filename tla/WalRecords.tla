----------------------------- MODULE WalRecords -----------------------------
(***************************************************************************)
(* The records of the write-ahead log (crates/plr-wal/src/record.rs) and   *)
(* the commands that cross from plrd's async socket side to its sync WAL   *)
(* thread (crates/plrd/src/sender.rs).                                     *)
(*                                                                         *)
(* A record carries the host-monotonic time it was offered at, a           *)
(* SubscriptionGap also the start of the interval it covers, and a context *)
(* record the excluded-object set it carries; everything else a record     *)
(* holds is abstracted away.                                               *)
(***************************************************************************)
EXTENDS Naturals, Sequences

CONSTANTS
  ExcludedSets,      \* the excluded-object name sets a context can carry
  NoExclude,         \* a context record without exclude state, or none yet
  HbSamples,         \* the correlation samples heartbeats are built from
  NoData             \* HeartbeatData = None: heartbeats are paused

ASSUME RecordAssumption ==
  /\ NoExclude \notin ExcludedSets
  /\ NoData \notin HbSamples

LifecycleKinds ==
  {"CleanShutdown", "SocketLost", "Resubscribed", "RecordingQuiescent",
   "RecorderStopped"}
MarkerKinds ==
  LifecycleKinds \cup {"SubscriptionGap", "ExclusionUpdateLost", "PowerFailing"}

(* The object list a context carries: none, as it did not change since the *)
(* last context, or Klipper's list, which may be empty.                    *)
Definitions == {"unchanged", "empty", "some"}

Record == [kind : {"motion", "context", "heartbeat"} \cup MarkerKinds,
           at   : Nat,                          \* mono_ns
           from : Nat,                          \* SubscriptionGap.start_mono_ns
           excl : ExcludedSets \cup {NoExclude},\* Context.exclude.excluded
           defs : Definitions]                  \* Context.exclude.definitions

Motion(t)          == [kind |-> "motion",  at |-> t, from |-> t,
                       excl |-> NoExclude, defs |-> "unchanged"]
Context(t, e, d)   == [kind |-> "context", at |-> t, from |-> t,
                       excl |-> e, defs |-> d]
HeartbeatRecord(t) == [kind |-> "heartbeat", at |-> t, from |-> t,
                       excl |-> NoExclude, defs |-> "unchanged"]
Marker(k, t)       == [kind |-> k, at |-> t, from |-> t,
                       excl |-> NoExclude, defs |-> "unchanged"]
GapMarker(s, t)    == [kind |-> "SubscriptionGap", at |-> t, from |-> s,
                       excl |-> NoExclude, defs |-> "unchanged"]

SyncPolicy == {"Batched", "Immediate"}

(* WalCmd: one shape, the fields an operation does not use at a fixed value *)
Command == [op : {"Append", "Heartbeat", "ReceiveSeq", "Shutdown"},
            rec : Record, sync : SyncPolicy,
            data : HbSamples \cup {NoData}]

NoRecord == Motion(0)
AppendCmd(r, s)   == [op |-> "Append", rec |-> r, sync |-> s, data |-> NoData]
HeartbeatCmd(d)   == [op |-> "Heartbeat", rec |-> NoRecord, sync |-> "Batched", data |-> d]
ReceiveSeqCmd(t)  == [op |-> "ReceiveSeq", rec |-> Motion(t), sync |-> "Immediate",
                      data |-> NoData]
ShutdownCmd       == [op |-> "Shutdown", rec |-> NoRecord, sync |-> "Batched",
                      data |-> NoData]

(* A marker is always journaled Immediate (sender.rs send_marker). *)
MarkerCmd(m) == AppendCmd(m, "Immediate")

IsMarker(r) == r.kind \in MarkerKinds
IsOffered(r) == r.kind \in {"motion", "context"}
=============================================================================
