------------------------------ MODULE WalSender ------------------------------
(***************************************************************************)
(* plrd's WalSender (crates/plrd/src/sender.rs): the drop policy in front  *)
(* of the bounded channel.  The socket reader offers records, lifecycle    *)
(* markers and droppable samples; nothing may block it, so on a full       *)
(* channel a record is dropped and the loss is remembered as an open       *)
(* observation gap, while a marker waits in the outbox.                    *)
(*                                                                         *)
(* One step is one try_send: the WAL thread takes commands concurrently,   *)
(* so the channel may gain room between two try_sends of one call.  `pc`   *)
(* names the next try_send and `cur` the call's argument.                  *)
(***************************************************************************)
EXTENDS WalChannel, FiniteSets

CONSTANTS
  MarkerInputs,      \* lifecycle markers the daemon offers
  NoGap,             \* gap_start = None
  MaxOffers          \* bound on the calls the socket side makes

ASSUME SenderAssumption ==
  /\ MarkerInputs \subseteq LifecycleKinds
  /\ NoGap \notin Nat
  /\ MaxOffers \in Nat

VARIABLES
  pc,                \* the try_send the current call makes next
  cur,               \* the record or marker of the current call
  changes,           \* changes_exclusion of the current call
  policy,            \* the sync policy of the current call
  gapStart,          \* gap_start
  outbox,            \* markers waiting for channel space
  lastExcluded,      \* last_excluded
  lossPending,       \* exclusion_loss_pending
  now,               \* host-monotonic clock of the socket side
  offers,            \* history: number of calls made
  dropped,           \* history: times of the records dropped
  offered,           \* history: records and markers not dropped, in call order
  truth              \* history: the last exclude-bearing context offered

senderVars == <<pc, cur, changes, policy, gapStart, outbox, lastExcluded,
                lossPending, now, offers, dropped, offered, truth>>
vars == <<chanVars, senderVars>>

SenderInit ==
  /\ pc = "idle" /\ cur = NoRecord /\ changes = FALSE /\ policy = "Batched"
  /\ gapStart = NoGap /\ outbox = <<>>
  /\ lastExcluded = NoExclude /\ lossPending = FALSE
  /\ now = 0 /\ offers = 0
  /\ dropped = {} /\ offered = <<>> /\ truth = NoRecord

Init == ChannelInit /\ SenderInit

CarriesExclude(r) == r.excl # NoExclude

(* exclude_fingerprint, compared with what was last handed over.           *)
ChangesExclusion(r) ==
  CarriesExclude(r) /\ (r.defs # "unchanged" \/ r.excl # lastExcluded)

(* Messages arrive with a non-decreasing mono_ns: the records of one       *)
(* message share it.                                                       *)
BeginCall(t) == /\ pc = "idle"
                /\ rxAlive
                /\ offers < MaxOffers
                /\ offers' = offers + 1
                /\ now' = t
                /\ pc' = "flush"

BeginRecord(t, r, s) ==
  /\ BeginCall(t)
  /\ cur' = r
  /\ policy' = s
  /\ changes' = ChangesExclusion(r)
  /\ truth' = IF CarriesExclude(r) THEN r ELSE truth
  /\ UNCHANGED <<chanVars, gapStart, outbox, lastExcluded, lossPending,
                 dropped, offered>>

BeginMarker(t, k) ==
  /\ BeginCall(t)
  /\ cur' = Marker(k, t)
  /\ policy' = "Immediate"
  /\ changes' = FALSE
  /\ UNCHANGED <<chanVars, gapStart, outbox, lastExcluded, lossPending,
                 dropped, offered, truth>>

Idle == pc' = "idle"

(* note_drop: the gap starts at the first record lost.                     *)
GapRestarted == cur.at                                          \* mutant
GapOpened == IF gapStart = NoGap THEN cur.at ELSE gapStart

(* A lost exclusion change is evidenced once per episode.                  *)
MarksLoss == changes /\ ~lossPending

(* drop_record: open or extend the gap, and queue the evidence.            *)
DropRecord ==
  /\ dropped' = dropped \cup {cur.at}
  /\ gapStart' = GapOpened
  /\ IF MarksLoss
       THEN /\ lossPending' = TRUE
            /\ outbox' = Append(outbox, Marker("ExclusionUpdateLost", cur.at))
            /\ pc' = "lossFlush"
       ELSE Idle /\ UNCHANGED <<outbox, lossPending>>
  /\ UNCHANGED <<chanVars, lastExcluded, offered>>

QueueMarker ==
  /\ outbox' = Append(outbox, cur)
  /\ offered' = Append(offered, cur)
  /\ Idle
  /\ UNCHANGED <<chanVars, gapStart, lastExcluded, lossPending, dropped>>

Reject == IF IsMarker(cur) THEN QueueMarker ELSE DropRecord

callVars == <<cur, changes, policy, now, offers, truth>>

(* flush_outbox, one marker at a time *)
FlushOne ==
  /\ pc \in {"flush", "lossFlush"}
  /\ rxAlive /\ ~Full
  /\ outbox # <<>>
  /\ Send(MarkerCmd(Head(outbox)))
  /\ outbox' = Tail(outbox)
  /\ UNCHANGED <<callVars, pc, gapStart, lastExcluded, lossPending, dropped, offered>>

FlushIsOver == outbox = <<>> \/ Full

(* Markers still queued make the channel count as full.                    *)
Overtakes == FALSE                                              \* mutant
Backlog == outbox # <<>>

(* An accepted record closes the gap before it.                            *)
SendsAtOnce == "send"                                           \* mutant
AfterFlush == IF IsOffered(cur) /\ gapStart # NoGap THEN "gap" ELSE "send"

FlushEnd ==
  /\ pc = "flush"
  /\ rxAlive
  /\ FlushIsOver
  /\ IF Backlog
       THEN Reject
       ELSE /\ pc' = AfterFlush
            /\ UNCHANGED <<chanVars, gapStart, outbox, lastExcluded,
                           lossPending, dropped, offered>>
  /\ UNCHANGED callVars

LossFlushEnd ==
  /\ pc = "lossFlush"
  /\ rxAlive
  /\ FlushIsOver
  /\ Idle
  /\ UNCHANGED <<chanVars, callVars, gapStart, outbox, lastExcluded,
                 lossPending, dropped, offered>>

GapLeftOpen == gapStart                                         \* mutant
GapClosed == NoGap

(* close_gap: no room for the gap marker means none for the record.        *)
CloseGap ==
  /\ pc = "gap"
  /\ rxAlive
  /\ IF Full
       THEN DropRecord
       ELSE /\ Send(MarkerCmd(GapMarker(gapStart, cur.at)))
            /\ gapStart' = GapClosed
            /\ pc' = "send"
            /\ UNCHANGED <<outbox, lastExcluded, lossPending, dropped, offered>>
  /\ UNCHANGED callVars

(* The loss episode ends with the next exclude-bearing record handed over. *)
LossStillPending == lossPending /\ ~CarriesExclude(cur)

(* The try_send of the call's own record or marker.                        *)
Offer ==
  /\ pc = "send"
  /\ rxAlive
  /\ IF Full
       THEN Reject
       ELSE /\ Send(AppendCmd(cur, policy))
            /\ offered' = Append(offered, cur)
            /\ lastExcluded' = IF CarriesExclude(cur) THEN cur.excl ELSE lastExcluded
            /\ lossPending' = LossStillPending
            /\ Idle
            /\ UNCHANGED <<gapStart, outbox, dropped>>
  /\ UNCHANGED callVars

(* heartbeat_data and receive_seq: droppable, and not behind the outbox.   *)
OfferSample(cmd) ==
  /\ pc = "idle"
  /\ rxAlive
  /\ offers < MaxOffers
  /\ offers' = offers + 1
  /\ IF Full THEN UNCHANGED chanVars ELSE Send(cmd)
  /\ UNCHANGED <<pc, cur, changes, policy, gapStart, outbox, lastExcluded,
                 lossPending, now, dropped, offered, truth>>

(* shutdown(self): the one blocking send; the sender, its outbox and its   *)
(* open gap are dropped with it.                                           *)
Shutdown ==
  /\ pc = "idle"
  /\ rxAlive /\ ~Full
  /\ Send(ShutdownCmd)
  /\ pc' = "stopped"
  /\ UNCHANGED <<callVars, gapStart, outbox, lastExcluded, lossPending,
                 dropped, offered>>

(* Err(WalGone): the WAL thread hung up, and the daemon stops.             *)
HangUp ==
  /\ pc \notin {"stopped", "gone"}
  /\ ~rxAlive
  /\ pc' = "gone"
  /\ UNCHANGED <<chanVars, callVars, gapStart, outbox, lastExcluded,
                 lossPending, dropped, offered>>

Times == {now, now + 1}
(* A message makes one context at most (convert.rs on_status).             *)
FirstOfMessage(t) == CarriesExclude(truth) => truth.at < t
Calls ==
  \E t \in Times :
    \/ BeginRecord(t, Motion(t), "Batched")
    \/ /\ FirstOfMessage(t)
       /\ \E e \in ExcludedSets, d \in Definitions :
            BeginRecord(t, Context(t, e, d), "Immediate")
    \/ \E k \in MarkerInputs : BeginMarker(t, k)
Samples ==
  \/ \E d \in HbSamples \cup {NoData} : OfferSample(HeartbeatCmd(d))
  \/ OfferSample(ReceiveSeqCmd(now))

(* The steps of a call in progress: none of them waits for the WAL thread. *)
Progress == FlushOne \/ FlushEnd \/ LossFlushEnd \/ CloseGap \/ Offer

SenderNext == Calls \/ Samples \/ Progress \/ Shutdown \/ HangUp
-----------------------------------------------------------------------------
(* The WAL thread as the sender sees it: it takes the next command, or     *)
(* hangs up, after Shutdown or on a fatal I/O error.  WalService is the    *)
(* detailed one, and WalPipeline shows that it does no more.               *)
Take ==
  /\ rxAlive /\ ~Empty
  /\ taken' = taken + 1
  /\ UNCHANGED <<sent, rxAlive, senderVars>>

ThreadDies ==
  /\ rxAlive
  /\ rxAlive' = FALSE
  /\ UNCHANGED <<sent, taken, senderVars>>

(* The power-fail watcher's thread holds a sender of its own and sends its *)
(* one marker past the drop policy (powerfail.rs mandatory).               *)
Watch ==
  /\ rxAlive /\ ~Full
  /\ \A i \in 1..Len(sent) : sent[i].rec.kind # "PowerFailing"
  /\ Send(MarkerCmd(Marker("PowerFailing", now)))
  /\ UNCHANGED senderVars

Next == SenderNext \/ Take \/ ThreadDies \/ Watch

Spec == Init /\ [][Next]_vars

-----------------------------------------------------------------------------
TypeOK ==
  /\ ChannelTypeOK
  /\ pc \in {"idle", "flush", "lossFlush", "gap", "send", "stopped", "gone"}
  /\ cur \in Record /\ changes \in BOOLEAN /\ policy \in SyncPolicy
  /\ gapStart \in Nat \cup {NoGap}
  /\ outbox \in Seq(Record)
  /\ lastExcluded \in ExcludedSets \cup {NoExclude}
  /\ lossPending \in BOOLEAN
  /\ now \in Nat /\ offers \in Nat
  /\ dropped \subseteq Nat
  /\ offered \in Seq(Record)
  /\ truth \in Record

Appended(i) == sent[i].rec     \* meaningful where AppendAt(i)
IsGap(i) == AppendAt(i) /\ Appended(i).kind = "SubscriptionGap"

(* Every dropped record is accounted for: it lies in the open gap or in a  *)
(* SubscriptionGap that was handed to the WAL thread.                      *)
GapHonesty ==
  \A t \in dropped :
    \/ gapStart # NoGap /\ gapStart <= t
    \/ \E i \in 1..Len(sent) : IsGap(i) /\ Appended(i).from <= t /\ t <= Appended(i).at

(* A gap marker claims no interval in which a record was journaled: what   *)
(* precedes it is no later than its start, what follows no earlier than    *)
(* its end.                                                                *)
GapClaimsOnlyTheLoss ==
  \A i, j \in 1..Len(sent) :
    IsGap(i) /\ AppendAt(j) /\ IsOffered(Appended(j)) =>
      IF j < i THEN Appended(j).at <= Appended(i).from
               ELSE Appended(i).at <= Appended(j).at

(* No record is journaled while the gap before it is still open: the gap   *)
(* marker comes first.                                                     *)
NoRecordInsideOpenGap ==
  gapStart # NoGap =>
    \A i \in 1..Len(sent) :
      AppendAt(i) /\ IsOffered(Appended(i)) => Appended(i).at <= gapStart

(* Accepted records and markers reach the WAL thread in the order the      *)
(* daemon offered them, and a marker that found no room is still queued:   *)
(* sent, then outbox, is the offer order.                                  *)
NotOffered == {"SubscriptionGap", "ExclusionUpdateLost", "PowerFailing"}
OwnAppends == {i \in 1..Len(sent) : AppendAt(i) /\ Appended(i).kind \notin NotOffered}
Waiting == {i \in 1..Len(outbox) : outbox[i].kind # "ExclusionUpdateLost"}
Place(S, i) == Cardinality({j \in S : j <= i})
MarkersSurviveInOrder ==
  /\ Len(offered) = Cardinality(OwnAppends) + Cardinality(Waiting)
  /\ \A i \in OwnAppends : offered[Place(OwnAppends, i)] = Appended(i)
  /\ \A i \in Waiting :
       offered[Cardinality(OwnAppends) + Place(Waiting, i)] = outbox[i]
=============================================================================
