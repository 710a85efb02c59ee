--------------------------- MODULE WalSenderProofs ---------------------------
(***************************************************************************)
(* Proofs about WalSender, for every channel capacity, every bound on the  *)
(* calls and every set of exclusions and markers: the drop policy never    *)
(* loses a record silently, a gap marker never claims more than was lost,  *)
(* no marker is lost or overtaken, and what reconstruction later is        *)
(* certain of about cancelled objects is true.                             *)
(***************************************************************************)
EXTENDS ExclusionHonesty, FunctionTheorems, FiniteSetTheorems, SequenceTheorems, TLAPS

InCall == pc \in {"flush", "lossFlush", "gap", "send"}

(* The call's own item carries the clock of the call.                      *)
CallInv ==
  /\ InCall => cur.at = now
  /\ IsMarker(cur) => cur.kind \in LifecycleKinds
  /\ pc = "gap" => gapStart # NoGap /\ IsOffered(cur)
  /\ pc = "send" /\ IsOffered(cur) => gapStart = NoGap
  /\ pc = "lossFlush" => gapStart # NoGap

(* Nothing recorded is later than the clock.                               *)
ClockInv ==
  /\ \A t \in dropped : t <= now
  /\ gapStart # NoGap => gapStart <= now
  /\ \A i \in 1..Len(sent) :
       IsGap(i) \/ (AppendAt(i) /\ IsOffered(Appended(i))) => Appended(i).at <= now

(* The outbox holds markers only, and never a gap: close_gap does not      *)
(* queue.                                                                  *)
OutboxInv ==
  \A i \in 1..Len(outbox) : outbox[i].kind \in LifecycleKinds \cup {"ExclusionUpdateLost"}

IInv == /\ TypeOK
        /\ CallInv
        /\ ClockInv
        /\ OutboxInv
        /\ GapHonesty
        /\ NoRecordInsideOpenGap
        /\ GapClaimsOnlyTheLoss

-----------------------------------------------------------------------------
LEMMA RecordTypes ==
  /\ NoRecord \in Record
  /\ \A t \in Nat : Motion(t) \in Record
  /\ \A t \in Nat, e \in ExcludedSets \cup {NoExclude}, d \in Definitions :
       Context(t, e, d) \in Record
  /\ \A t \in Nat, k \in MarkerKinds : Marker(k, t) \in Record
  /\ \A s, t \in Nat : GapMarker(s, t) \in Record
BY DEF Record, NoRecord, Motion, Context, Marker, GapMarker, MarkerKinds, LifecycleKinds, Definitions

LEMMA CommandTypes ==
  /\ \A r \in Record, s \in SyncPolicy : AppendCmd(r, s) \in Command
  /\ \A r \in Record : MarkerCmd(r) \in Command
  /\ \A d \in HbSamples \cup {NoData} : HeartbeatCmd(d) \in Command
  /\ \A t \in Nat : ReceiveSeqCmd(t) \in Command
  /\ ShutdownCmd \in Command
BY RecordTypes DEF Command, AppendCmd, MarkerCmd, HeartbeatCmd, ReceiveSeqCmd, ShutdownCmd, SyncPolicy

LEMMA AppendedSeq ==
  ASSUME NEW S, NEW s \in Seq(S), NEW x \in S
  PROVE  /\ Append(s, x) \in Seq(S)
         /\ Len(Append(s, x)) = Len(s) + 1
         /\ \A i \in 1..Len(s) : Append(s, x)[i] = s[i]
         /\ Append(s, x)[Len(s) + 1] = x
OBVIOUS

LEMMA TailSeq ==
  ASSUME NEW S, NEW s \in Seq(S), s # <<>>
  PROVE  /\ Head(s) \in S
         /\ Head(s) = s[1]
         /\ Len(s) \in Nat /\ 1 \in 1..Len(s)
         /\ Tail(s) \in Seq(S)
         /\ Len(Tail(s)) = Len(s) - 1
         /\ \A i \in 1..Len(Tail(s)) : Tail(s)[i] = s[i + 1] /\ i + 1 \in 1..Len(s)
<1>1. Len(s) \in Nat \ {0}
  BY EmptySeq
<1>. QED
  BY <1>1, HeadTailProperties
-----------------------------------------------------------------------------
(* The type invariant is inductive.                                        *)
LEMMA TypeInit == Init => TypeOK
<1> SUFFICES ASSUME Init PROVE TypeOK
  OBVIOUS
<1>1. ChannelTypeOK
  BY DEF Init, ChannelInit, ChannelTypeOK
<1>2. changes \in BOOLEAN /\ lossPending \in BOOLEAN
  BY Zenon DEF Init, SenderInit
<1>3. outbox \in Seq(Record) /\ offered \in Seq(Record)
  BY DEF Init, SenderInit
<1>4. cur \in Record /\ truth \in Record /\ policy \in SyncPolicy
  BY RecordTypes DEF Init, SenderInit, SyncPolicy
<1>. QED
  BY <1>1, <1>2, <1>3, <1>4 DEF Init, SenderInit, TypeOK

LEMMA DropType ==
  ASSUME TypeOK, SenderAssumption, DropRecord
  PROVE  /\ dropped' \subseteq Nat
         /\ gapStart' \in Nat \cup {NoGap}
         /\ outbox' \in Seq(Record)
         /\ lossPending' \in BOOLEAN
         /\ pc' \in {"idle", "lossFlush"}
         /\ UNCHANGED <<sent, taken, rxAlive, lastExcluded, offered>>
<1>1. cur.at \in Nat
  BY DEF TypeOK, Record
<1>2. Marker("ExclusionUpdateLost", cur.at) \in Record
  BY <1>1, RecordTypes DEF MarkerKinds
<1>3. Append(outbox, Marker("ExclusionUpdateLost", cur.at)) \in Seq(Record)
  BY <1>2 DEF TypeOK
<1>. QED
  BY <1>1, <1>3 DEF DropRecord, GapOpened, MarksLoss, TypeOK, Idle, chanVars

LEMMA RejectType ==
  ASSUME TypeOK, SenderAssumption, Reject
  PROVE  /\ dropped' \subseteq Nat
         /\ gapStart' \in Nat \cup {NoGap}
         /\ outbox' \in Seq(Record)
         /\ lossPending' \in BOOLEAN
         /\ pc' \in {"idle", "lossFlush"}
         /\ offered' \in Seq(Record)
         /\ UNCHANGED <<sent, taken, rxAlive, lastExcluded>>
<1>1. CASE IsMarker(cur)
  <2>1. Append(outbox, cur) \in Seq(Record) /\ Append(offered, cur) \in Seq(Record)
    BY DEF TypeOK
  <2>. QED
    BY <1>1, <2>1 DEF Reject, QueueMarker, Idle, TypeOK, chanVars
<1>2. CASE ~IsMarker(cur)
  BY <1>2, DropType DEF Reject, TypeOK
<1>. QED
  BY <1>1, <1>2

LEMMA SendType ==
  ASSUME TypeOK, NEW cmd \in Command, Send(cmd)
  PROVE  ChannelTypeOK'
<1>1. Append(sent, cmd) \in Seq(Command)
  BY DEF TypeOK, ChannelTypeOK
<1>. QED
  BY <1>1 DEF Send, TypeOK, ChannelTypeOK

(* close_gap returns early when no gap is open; here that is CallInv.      *)
LEMMA TypeStep ==
  SenderAssumption /\ TypeOK /\ CallInv /\ [Next]_vars => TypeOK'
<1> SUFFICES ASSUME SenderAssumption, TypeOK, CallInv, [Next]_vars
             PROVE  TypeOK'
  OBVIOUS
<1> USE DEF callVars, chanVars
<1>1. CASE Calls
  <2>1. PICK t \in Times, r \in Record, s \in SyncPolicy :
          \/ BeginRecord(t, r, s)
          \/ \E k \in MarkerInputs : BeginMarker(t, k)
    BY <1>1, RecordTypes DEF Calls, Times, TypeOK, SyncPolicy
  <2>2. t \in Nat
    BY DEF Times, TypeOK
  <2>3. \A k \in MarkerInputs : Marker(k, t) \in Record
    BY <2>2, RecordTypes DEF SenderAssumption, MarkerKinds
  <2>4. changes' \in BOOLEAN
    BY <2>1, Zenon DEF BeginRecord, BeginMarker, ChangesExclusion
  <2>5. /\ cur' \in Record /\ policy' \in SyncPolicy /\ pc' = "flush"
        /\ now' \in Nat /\ offers' \in Nat /\ truth' \in Record
        /\ UNCHANGED <<sent, taken, rxAlive, gapStart, outbox, lastExcluded,
                       lossPending, dropped, offered>>
    <3>1. CASE BeginRecord(t, r, s)
      BY <2>2, <3>1 DEF BeginRecord, BeginCall, TypeOK, Times
    <3>2. CASE \E k \in MarkerInputs : BeginMarker(t, k)
      BY <2>2, <2>3, <3>2 DEF BeginMarker, BeginCall, TypeOK, Times, SyncPolicy
    <3>. QED
      BY <2>1, <3>1, <3>2
  <2>. QED
    BY <2>4, <2>5 DEF TypeOK, ChannelTypeOK
<1>2. CASE Samples
  <2>1. PICK cmd \in Command : OfferSample(cmd)
    BY <1>2, CommandTypes DEF Samples, TypeOK
  <2>2. ChannelTypeOK'
    <3>1. CASE Full
      BY <2>1, <3>1 DEF OfferSample, TypeOK, ChannelTypeOK
    <3>2. CASE ~Full
      BY <2>1, <3>2, SendType DEF OfferSample
    <3>. QED
      BY <3>1, <3>2
  <2>. QED
    BY <2>1, <2>2 DEF OfferSample, TypeOK
<1>3. CASE FlushOne
  <2>1. Head(outbox) \in Record /\ Tail(outbox) \in Seq(Record)
    BY <1>3, TailSeq DEF FlushOne, TypeOK
  <2>2. ChannelTypeOK'
    BY <1>3, <2>1, SendType, CommandTypes DEF FlushOne
  <2>. QED
    BY <1>3, <2>1, <2>2 DEF FlushOne, TypeOK
<1>4. CASE FlushEnd
  <2>1. CASE outbox # <<>>
    BY <1>4, <2>1, RejectType DEF FlushEnd, FlushIsOver, Backlog, AfterFlush, TypeOK, ChannelTypeOK
  <2>2. CASE outbox = <<>>
    BY <1>4, <2>2 DEF FlushEnd, FlushIsOver, Backlog, AfterFlush, TypeOK, ChannelTypeOK
  <2>. QED
    BY <2>1, <2>2
<1>5. CASE LossFlushEnd
  BY <1>5 DEF LossFlushEnd, FlushIsOver, Idle, TypeOK, ChannelTypeOK
<1>6. CASE CloseGap
  <2>1. CASE Full
    BY <1>6, <2>1, DropType DEF CloseGap, GapClosed, TypeOK, ChannelTypeOK
  <2>2. CASE ~Full
    <3>1. gapStart \in Nat /\ cur.at \in Nat
      BY <1>6 DEF CloseGap, GapClosed, CallInv, TypeOK, Record
    <3>2. ChannelTypeOK'
      BY <1>6, <2>2, <3>1, SendType, CommandTypes, RecordTypes DEF CloseGap, GapClosed
    <3>. QED
      BY <1>6, <2>2, <3>2 DEF CloseGap, GapClosed, TypeOK
  <2>. QED
    BY <2>1, <2>2
<1>7. CASE Offer
  <2>1. CASE Full
    BY <1>7, <2>1, RejectType DEF Offer, LossStillPending, TypeOK, ChannelTypeOK
  <2>2. CASE ~Full
    <3>1. ChannelTypeOK'
      BY <1>7, <2>2, SendType, CommandTypes DEF Offer, LossStillPending, TypeOK
    <3>2. Append(offered, cur) \in Seq(Record)
      BY DEF TypeOK
    <3>3. cur.excl \in ExcludedSets \cup {NoExclude}
      BY DEF TypeOK, Record
    <3>. QED
      BY <1>7, <2>2, <3>1, <3>2, <3>3 DEF Offer, LossStillPending, Idle, TypeOK
  <2>. QED
    BY <2>1, <2>2
<1>8. CASE Shutdown
  BY <1>8, SendType, CommandTypes DEF Shutdown, TypeOK
<1>9. CASE HangUp
  BY <1>9 DEF HangUp, TypeOK, ChannelTypeOK
<1>10. CASE Take \/ ThreadDies
  <2>1. rxAlive' \in BOOLEAN
    BY <1>10, Zenon DEF Take, ThreadDies
  <2>2. taken' \in Nat /\ UNCHANGED <<sent, senderVars>>
    BY <1>10 DEF Take, ThreadDies, TypeOK, ChannelTypeOK
  <2>. QED
    BY <2>1, <2>2 DEF senderVars, TypeOK, ChannelTypeOK
<1>11. CASE UNCHANGED vars
  BY <1>11 DEF vars, senderVars, TypeOK, ChannelTypeOK
<1>12. CASE Watch
  <2>1. Marker("PowerFailing", now) \in Record
    BY RecordTypes DEF TypeOK, MarkerKinds
  <2>2. ChannelTypeOK'
    BY <1>12, <2>1, SendType, CommandTypes DEF Watch
  <2>. QED
    BY <1>12, <2>2 DEF Watch, senderVars, TypeOK
<1>. QED
  BY <1>1, <1>2, <1>3, <1>4, <1>5, <1>6, <1>7, <1>8, <1>9, <1>10, <1>11, <1>12
  DEF Next, SenderNext, Progress
-----------------------------------------------------------------------------
(* The journal invariants, by what a step appends.                         *)
JournalInv == ClockInv /\ GapHonesty /\ NoRecordInsideOpenGap /\ GapClaimsOnlyTheLoss

LEMMA SendEffect ==
  ASSUME TypeOK, NEW cmd \in Command, Send(cmd)
  PROVE  /\ Len(sent) \in Nat
         /\ Len(sent') = Len(sent) + 1
         /\ \A i \in 1..Len(sent) : sent'[i] = sent[i]
         /\ sent'[Len(sent) + 1] = cmd
BY AppendedSeq DEF Send, TypeOK, ChannelTypeOK

LEMMA CommandTimes ==
  ASSUME TypeOK, NEW i \in 1..Len(sent)
  PROVE  sent[i].rec.at \in Nat /\ sent[i].rec.from \in Nat
<1>1. sent[i] \in Command
  BY ElementOfSeq DEF TypeOK, ChannelTypeOK
<1>. QED
  BY <1>1 DEF Command, Record

(* The journal invariants as facts about any sequence of commands, so that *)
(* a step can be argued on the sequence it leaves behind.                  *)
GapIn(s, i) == s[i].op = "Append" /\ s[i].rec.kind = "SubscriptionGap"
RecIn(s, i) == s[i].op = "Append" /\ s[i].rec.kind \in {"motion", "context"}
At(s, i)    == s[i].rec.at
From(s, i)  == s[i].rec.from

Clocked(s, D, g, t) ==
  /\ \A d \in D : d <= t
  /\ g # NoGap => g <= t
  /\ \A i \in 1..Len(s) : GapIn(s, i) \/ RecIn(s, i) => At(s, i) <= t
Honest(s, D, g) ==
  \A d \in D : \/ g # NoGap /\ g <= d
               \/ \E i \in 1..Len(s) : GapIn(s, i) /\ From(s, i) <= d /\ d <= At(s, i)
OutsideOpenGap(s, g) ==
  g # NoGap => \A i \in 1..Len(s) : RecIn(s, i) => At(s, i) <= g
ClaimsOnly(s) ==
  \A i, j \in 1..Len(s) :
    GapIn(s, i) /\ RecIn(s, j) =>
      IF j < i THEN At(s, j) <= From(s, i) ELSE At(s, i) <= At(s, j)

JInv(s, D, g, t) ==
  Clocked(s, D, g, t) /\ Honest(s, D, g) /\ OutsideOpenGap(s, g) /\ ClaimsOnly(s)

LEMMA JInvIsJournalInv == JournalInv <=> JInv(sent, dropped, gapStart, now)
BY DEF JournalInv, ClockInv, GapHonesty, NoRecordInsideOpenGap, GapClaimsOnlyTheLoss,
       JInv, Clocked, Honest, OutsideOpenGap, ClaimsOnly, GapIn, RecIn, At, From,
       IsGap, AppendAt, Appended, IsOffered

LEMMA JInvIsJournalInvNext == JournalInv' <=> JInv(sent', dropped', gapStart', now')
BY DEF JournalInv, ClockInv, GapHonesty, NoRecordInsideOpenGap, GapClaimsOnlyTheLoss,
       JInv, Clocked, Honest, OutsideOpenGap, ClaimsOnly, GapIn, RecIn, At, From,
       IsGap, AppendAt, Appended, IsOffered

(* What appending one command leaves of the sequence.                      *)
LEMMA Extended ==
  ASSUME NEW s \in Seq(Command), NEW c \in Command
  PROVE  LET e == Append(s, c) IN
         /\ e \in Seq(Command)
         /\ Len(s) \in Nat /\ Len(e) = Len(s) + 1
         /\ \A i \in 1..Len(e) : i \in 1..Len(s) \/ i = Len(s) + 1
         /\ \A i \in 1..Len(s) :
              /\ i \in 1..Len(e)
              /\ GapIn(e, i) <=> GapIn(s, i)
              /\ RecIn(e, i) <=> RecIn(s, i)
              /\ At(e, i) = At(s, i) /\ From(e, i) = From(s, i)
              /\ At(s, i) \in Nat /\ From(s, i) \in Nat
         /\ Len(s) + 1 \in 1..Len(e)
         /\ GapIn(e, Len(s) + 1) <=> (c.op = "Append" /\ c.rec.kind = "SubscriptionGap")
         /\ RecIn(e, Len(s) + 1) <=> (c.op = "Append" /\ c.rec.kind \in {"motion", "context"})
         /\ At(e, Len(s) + 1) = c.rec.at /\ From(e, Len(s) + 1) = c.rec.from
<1> DEFINE e == Append(s, c)
<1>1. /\ e \in Seq(Command) /\ Len(s) \in Nat /\ Len(e) = Len(s) + 1
      /\ \A i \in 1..Len(s) : e[i] = s[i]
      /\ e[Len(s) + 1] = c
  BY AppendedSeq
<1>2. \A i \in 1..Len(s) : s[i].rec.at \in Nat /\ s[i].rec.from \in Nat
  <2> SUFFICES ASSUME NEW i \in 1..Len(s)
               PROVE  s[i].rec.at \in Nat /\ s[i].rec.from \in Nat
    OBVIOUS
  <2>1. s[i] \in Command
    BY ElementOfSeq
  <2>. QED
    BY <2>1 DEF Command, Record
<1> HIDE DEF e
<1>. QED
  BY <1>1, <1>2 DEF GapIn, RecIn, At, From, e

(* Accounted-for records stay accounted for while the gap stays open.      *)
LEMMA HonestExtended ==
  ASSUME NEW s \in Seq(Command), NEW D \in SUBSET Nat, NEW g, NEW c \in Command,
         Honest(s, D, g)
  PROVE  Honest(Append(s, c), D, g)
<1> DEFINE e == Append(s, c)
<1>1. SUFFICES ASSUME NEW d \in D, ~(g # NoGap /\ g <= d)
               PROVE  \E i \in 1..Len(e) : GapIn(e, i) /\ From(e, i) <= d /\ d <= At(e, i)
  BY DEF Honest
<1>2. PICK i \in 1..Len(s) : GapIn(s, i) /\ From(s, i) <= d /\ d <= At(s, i)
  BY <1>1 DEF Honest
<1>3. i \in 1..Len(e) /\ GapIn(e, i) /\ From(e, i) = From(s, i) /\ At(e, i) = At(s, i)
  BY <1>2, Extended
<1>. QED
  BY <1>2, <1>3

(* A sample, a shutdown or a marker that closes no gap.                    *)
LEMMA QuietSend ==
  ASSUME NEW s \in Seq(Command), NEW D \in SUBSET Nat, NEW g, NEW t \in Nat,
         NEW c \in Command, JInv(s, D, g, t),
         c.op = "Append" => c.rec.kind \notin {"SubscriptionGap", "motion", "context"}
  PROVE  JInv(Append(s, c), D, g, t)
<1> DEFINE e == Append(s, c)
<1>0. /\ Len(s) \in Nat /\ Len(e) = Len(s) + 1 /\ Len(s) + 1 \in 1..Len(e)
      /\ \A i \in 1..Len(e) : i \in 1..Len(s) \/ i = Len(s) + 1
      /\ \A i \in 1..Len(s) :
           /\ i \in 1..Len(e)
           /\ GapIn(e, i) <=> GapIn(s, i)
           /\ RecIn(e, i) <=> RecIn(s, i)
           /\ At(e, i) = At(s, i) /\ From(e, i) = From(s, i)
           /\ At(s, i) \in Nat /\ From(s, i) \in Nat
  BY Extended
<1>1. ~GapIn(e, Len(s) + 1) /\ ~RecIn(e, Len(s) + 1)
  BY Extended
<1>3. Honest(e, D, g)
  BY HonestExtended DEF JInv
<1> HIDE DEF e
<1>2. Clocked(e, D, g, t)
  BY <1>0, <1>1 DEF JInv, Clocked
<1>4. OutsideOpenGap(e, g)
  BY <1>0, <1>1 DEF JInv, OutsideOpenGap
<1>5. ClaimsOnly(e)
  BY <1>0, <1>1 DEF JInv, ClaimsOnly
<1>. QED
  BY <1>2, <1>3, <1>4, <1>5 DEF JInv, e

(* close_gap: the marker spans from the first drop to now, so it covers    *)
(* every record dropped since, and nothing was journaled after its start.  *)
LEMMA GapSend ==
  ASSUME NEW s \in Seq(Command), NEW D \in SUBSET Nat, NEW g \in Nat, NEW t \in Nat,
         NoGap \notin Nat, JInv(s, D, g, t)
  PROVE  JInv(Append(s, MarkerCmd(GapMarker(g, t))), D, NoGap, t)
<1> DEFINE c == MarkerCmd(GapMarker(g, t))
           e == Append(s, c)
<1>c. c \in Command
  BY RecordTypes, CommandTypes
<1>d. /\ c.op = "Append" /\ c.rec.kind = "SubscriptionGap"
      /\ c.rec.at = t /\ c.rec.from = g
  BY DEF MarkerCmd, AppendCmd, GapMarker
<1> HIDE DEF c
<1>0. /\ Len(s) \in Nat /\ Len(e) = Len(s) + 1 /\ Len(s) + 1 \in 1..Len(e)
      /\ \A i \in 1..Len(e) : i \in 1..Len(s) \/ i = Len(s) + 1
      /\ \A i \in 1..Len(s) :
           /\ i \in 1..Len(e)
           /\ GapIn(e, i) <=> GapIn(s, i)
           /\ RecIn(e, i) <=> RecIn(s, i)
           /\ At(e, i) = At(s, i) /\ From(e, i) = From(s, i)
           /\ At(s, i) \in Nat /\ From(s, i) \in Nat
  BY <1>c, Extended
<1>1. /\ GapIn(e, Len(s) + 1) /\ ~RecIn(e, Len(s) + 1)
      /\ From(e, Len(s) + 1) = g /\ At(e, Len(s) + 1) = t
  BY <1>c, <1>d, Extended
<1> HIDE DEF e
<1>2. g # NoGap /\ g <= t /\ \A d \in D : d <= t
  BY DEF JInv, Clocked
<1>3. Clocked(e, D, NoGap, t)
  BY <1>0, <1>1, <1>2 DEF JInv, Clocked
<1>4. Honest(e, D, NoGap)
  <2> SUFFICES ASSUME NEW d \in D
               PROVE  \E i \in 1..Len(e) : GapIn(e, i) /\ From(e, i) <= d /\ d <= At(e, i)
    BY DEF Honest
  <2>1. CASE g <= d
    BY <1>0, <1>1, <1>2, <2>1
  <2>2. CASE ~(g <= d)
    <3>1. PICK i \in 1..Len(s) : GapIn(s, i) /\ From(s, i) <= d /\ d <= At(s, i)
      BY <2>2 DEF JInv, Honest
    <3>. QED
      BY <1>0, <3>1
  <2>. QED
    BY <2>1, <2>2
<1>5. OutsideOpenGap(e, NoGap)
  BY DEF OutsideOpenGap
<1>6. ClaimsOnly(e)
  <2> SUFFICES ASSUME NEW i \in 1..Len(e), NEW j \in 1..Len(e), GapIn(e, i), RecIn(e, j)
               PROVE  IF j < i THEN At(e, j) <= From(e, i) ELSE At(e, i) <= At(e, j)
    BY DEF ClaimsOnly
  <2>1. j \in 1..Len(s)
    BY <1>0, <1>1
  <2>2. CASE i \in 1..Len(s)
    BY <1>0, <2>1, <2>2 DEF JInv, ClaimsOnly
  <2>3. CASE i = Len(s) + 1
    BY <1>0, <1>1, <1>2, <2>1, <2>3 DEF JInv, OutsideOpenGap
  <2>. QED
    BY <1>0, <2>2, <2>3
<1>. QED
  BY <1>3, <1>4, <1>5, <1>6 DEF JInv, e, c

(* A record is handed over only while no gap is open, at the latest time.  *)
LEMMA RecordSend ==
  ASSUME NEW s \in Seq(Command), NEW D \in SUBSET Nat, NEW t \in Nat,
         NEW c \in Command, c.op = "Append", c.rec.at = t,
         c.rec.kind \in {"motion", "context"}, JInv(s, D, NoGap, t)
  PROVE  JInv(Append(s, c), D, NoGap, t)
<1> DEFINE e == Append(s, c)
<1>0. /\ Len(s) \in Nat /\ Len(e) = Len(s) + 1 /\ Len(s) + 1 \in 1..Len(e)
      /\ \A i \in 1..Len(e) : i \in 1..Len(s) \/ i = Len(s) + 1
      /\ \A i \in 1..Len(s) :
           /\ i \in 1..Len(e)
           /\ GapIn(e, i) <=> GapIn(s, i)
           /\ RecIn(e, i) <=> RecIn(s, i)
           /\ At(e, i) = At(s, i) /\ From(e, i) = From(s, i)
           /\ At(s, i) \in Nat /\ From(s, i) \in Nat
  BY Extended
<1>1. ~GapIn(e, Len(s) + 1) /\ At(e, Len(s) + 1) = t
  BY Extended
<1>2. Honest(e, D, NoGap)
  BY HonestExtended DEF JInv
<1> HIDE DEF e
<1>3. Clocked(e, D, NoGap, t)
  BY <1>0, <1>1 DEF JInv, Clocked
<1>4. ClaimsOnly(e)
  <2> SUFFICES ASSUME NEW i \in 1..Len(e), NEW j \in 1..Len(e), GapIn(e, i), RecIn(e, j)
               PROVE  IF j < i THEN At(e, j) <= From(e, i) ELSE At(e, i) <= At(e, j)
    BY DEF ClaimsOnly
  <2>1. i \in 1..Len(s)
    BY <1>0, <1>1
  <2>2. CASE j \in 1..Len(s)
    BY <1>0, <2>1, <2>2 DEF JInv, ClaimsOnly
  <2>3. CASE j = Len(s) + 1
    BY <1>0, <1>1, <2>1, <2>3 DEF JInv, Clocked
  <2>. QED
    BY <1>0, <2>2, <2>3
<1>. QED
  BY <1>2, <1>3, <1>4 DEF JInv, OutsideOpenGap, e

(* A dropped record opens the gap or falls into the open one.              *)
LEMMA RecordDrop ==
  ASSUME NEW s \in Seq(Command), NEW D \in SUBSET Nat, NEW t \in Nat,
         NEW g \in Nat \cup {NoGap}, NoGap \notin Nat, JInv(s, D, g, t)
  PROVE  JInv(s, D \cup {t}, IF g = NoGap THEN t ELSE g, t)
<1> DEFINE h == IF g = NoGap THEN t ELSE g
<1>1. Clocked(s, D \cup {t}, h, t)
  BY DEF JInv, Clocked
<1>2. Honest(s, D \cup {t}, h)
  BY DEF JInv, Honest, Clocked
<1>3. OutsideOpenGap(s, h)
  BY DEF JInv, OutsideOpenGap, Clocked
<1>. QED
  BY <1>1, <1>2, <1>3 DEF JInv
-----------------------------------------------------------------------------
(* IInv, step by step.                                                     *)
LEMMA StrongInit == SenderAssumption /\ Init => IInv
<1> SUFFICES ASSUME SenderAssumption, Init PROVE IInv
  OBVIOUS
<1>1. TypeOK
  BY TypeInit
<1>2. pc = "idle" /\ sent = <<>> /\ outbox = <<>> /\ dropped = {} /\ gapStart = NoGap
  BY DEF Init, ChannelInit, SenderInit
<1>3. cur.kind = "motion"
  BY DEF Init, SenderInit, NoRecord, Motion
<1>4. CallInv
  BY <1>2, <1>3 DEF CallInv, InCall, IsMarker, MarkerKinds, LifecycleKinds
<1>5. JInv(sent, dropped, gapStart, now)
  BY <1>2 DEF JInv, Clocked, Honest, OutsideOpenGap, ClaimsOnly
<1>. QED
  BY <1>1, <1>2, <1>4, <1>5, JInvIsJournalInv DEF IInv, OutboxInv, JournalInv

QueuedKinds == LifecycleKinds \cup {"ExclusionUpdateLost"}

LEMMA QueuedKindsAreQuiet ==
  QueuedKinds \cap {"SubscriptionGap", "motion", "context"} = {}
BY DEF QueuedKinds, LifecycleKinds

LEMMA OutboxAppend ==
  ASSUME OutboxInv, outbox \in Seq(Record), NEW m \in Record, m.kind \in QueuedKinds,
         outbox' = Append(outbox, m)
  PROVE  OutboxInv'
<1>1. /\ Len(outbox) \in Nat /\ Len(outbox') = Len(outbox) + 1
      /\ \A i \in 1..Len(outbox) : outbox'[i] = outbox[i]
      /\ outbox'[Len(outbox) + 1] = m
  BY AppendedSeq
<1>. QED
  BY <1>1 DEF OutboxInv, QueuedKinds

(* A rejected item: the marker queues, the record is dropped.              *)
LEMMA DropInv ==
  ASSUME SenderAssumption, IInv, InCall, DropRecord, UNCHANGED callVars
  PROVE  JournalInv' /\ OutboxInv' /\ CallInv'
<1>1. cur.at = now /\ now \in Nat /\ cur \in Record
  BY DEF IInv, CallInv, TypeOK
<1>2. JournalInv'
  <2>1. JInv(sent, dropped \cup {now}, IF gapStart = NoGap THEN now ELSE gapStart, now)
    <3>1. JInv(sent, dropped, gapStart, now)
      BY JInvIsJournalInv DEF IInv, JournalInv
    <3>. QED
      BY <1>1, <3>1, RecordDrop DEF IInv, TypeOK, ChannelTypeOK, SenderAssumption
  <2>. QED
    BY <1>1, <2>1, JInvIsJournalInvNext DEF DropRecord, GapOpened, MarksLoss, callVars, chanVars
<1>3. OutboxInv'
  <2>1. CASE changes /\ ~lossPending
    <3>1. outbox' = Append(outbox, Marker("ExclusionUpdateLost", cur.at))
      BY <2>1 DEF DropRecord, GapOpened, MarksLoss
    <3>2. /\ Marker("ExclusionUpdateLost", cur.at) \in Record
          /\ Marker("ExclusionUpdateLost", cur.at).kind \in QueuedKinds
      BY <1>1, RecordTypes DEF MarkerKinds, Marker, QueuedKinds
    <3>. QED
      BY <3>1, <3>2, OutboxAppend DEF IInv, TypeOK
  <2>2. CASE ~(changes /\ ~lossPending)
    BY <2>2 DEF DropRecord, GapOpened, MarksLoss, IInv, OutboxInv
  <2>. QED
    BY <2>1, <2>2
<1>4. gapStart' # NoGap
  BY <1>1 DEF DropRecord, GapOpened, MarksLoss, SenderAssumption
<1>5. pc' \in {"idle", "lossFlush"}
  BY DEF DropRecord, GapOpened, MarksLoss, Idle
<1>6. cur' = cur /\ now' = now
  BY DEF callVars
<1>7. CallInv'
  BY <1>1, <1>4, <1>5, <1>6 DEF CallInv, InCall, IInv
<1>. QED
  BY <1>2, <1>3, <1>7

LEMMA RejectInv ==
  ASSUME SenderAssumption, IInv, InCall, Reject, UNCHANGED callVars
  PROVE  JournalInv' /\ OutboxInv' /\ CallInv'
<1>1. CASE IsMarker(cur)
  <2>1. QueueMarker
    BY <1>1 DEF Reject
  <2>2. JournalInv'
    BY <2>1, JInvIsJournalInv, JInvIsJournalInvNext DEF QueueMarker, IInv, JournalInv, callVars, chanVars
  <2>3. OutboxInv'
    BY <1>1, <2>1, OutboxAppend DEF QueueMarker, IInv, TypeOK, CallInv, QueuedKinds
  <2>4. CallInv'
    BY <2>1 DEF QueueMarker, Idle, callVars, CallInv, InCall, IInv
  <2>. QED
    BY <2>2, <2>3, <2>4
<1>2. CASE ~IsMarker(cur)
  BY <1>2, DropInv DEF Reject
<1>. QED
  BY <1>1, <1>2

LEMMA StrongStep == SenderAssumption /\ IInv /\ [Next]_vars => IInv'
<1> SUFFICES ASSUME SenderAssumption, IInv, [Next]_vars
             PROVE  IInv'
  OBVIOUS
<1>0. TypeOK'
  BY TypeStep DEF IInv
<1>t. /\ JInv(sent, dropped, gapStart, now)
      /\ sent \in Seq(Command) /\ dropped \in SUBSET Nat /\ now \in Nat
      /\ cur \in Record /\ gapStart \in Nat \cup {NoGap} /\ NoGap \notin Nat
      /\ outbox \in Seq(Record) /\ policy \in SyncPolicy
  BY JInvIsJournalInv DEF IInv, JournalInv, TypeOK, ChannelTypeOK, SenderAssumption
<1>s. ASSUME JournalInv', OutboxInv', CallInv'
      PROVE  IInv'
  BY <1>0, <1>s DEF IInv, JournalInv
<1>1. CASE Calls
  <2>1. PICK t \in Times, r \in Record :
          /\ BeginCall(t) /\ cur' = r /\ r.at = t
          /\ IsMarker(r) => r.kind \in LifecycleKinds
          /\ UNCHANGED <<sent, gapStart, outbox, dropped>>
    <3>1. PICK t \in Times, r \in Record :
            /\ BeginCall(t) /\ cur' = r /\ r.at = t
            /\ r.kind \in {"motion", "context"} \cup MarkerInputs
            /\ UNCHANGED <<sent, gapStart, outbox, dropped>>
      <4>1. \A t \in Times : t \in Nat
        BY <1>t DEF Times
      <4>2. PICK t \in Times :
              \/ BeginRecord(t, Motion(t), "Batched")
              \/ \E e \in ExcludedSets, d \in Definitions : BeginRecord(t, Context(t, e, d), "Immediate")
              \/ \E k \in MarkerInputs : BeginMarker(t, k)
        BY <1>1 DEF Calls
      <4>3. CASE BeginRecord(t, Motion(t), "Batched")
        <5>1. Motion(t) \in Record /\ Motion(t).at = t /\ Motion(t).kind = "motion"
          BY <4>1, RecordTypes DEF Motion
        <5>. QED
          BY <4>3, <5>1 DEF BeginRecord, chanVars
      <4>4. CASE \E e \in ExcludedSets, d \in Definitions : BeginRecord(t, Context(t, e, d), "Immediate")
        <5>1. PICK e \in ExcludedSets, d \in Definitions : BeginRecord(t, Context(t, e, d), "Immediate")
          BY <4>4
        <5>2. Context(t, e, d) \in Record /\ Context(t, e, d).at = t /\ Context(t, e, d).kind = "context"
          BY <4>1, RecordTypes DEF Context
        <5>. QED
          BY <5>1, <5>2 DEF BeginRecord, chanVars
      <4>5. CASE \E k \in MarkerInputs : BeginMarker(t, k)
        <5>1. PICK k \in MarkerInputs : BeginMarker(t, k)
          BY <4>5
        <5>2. Marker(k, t) \in Record /\ Marker(k, t).at = t /\ Marker(k, t).kind = k
          BY <4>1, RecordTypes DEF Marker, SenderAssumption, MarkerKinds
        <5>. QED
          BY <5>1, <5>2 DEF BeginMarker, chanVars
      <4>. QED
        BY <4>2, <4>3, <4>4, <4>5
    <3>. QED
      BY <3>1 DEF IsMarker, MarkerKinds, SenderAssumption, LifecycleKinds
  <2>2. now' = t /\ t \in Nat /\ now <= t /\ pc' = "flush"
    BY <1>t, <2>1 DEF BeginCall, Times
  <2>3. JInv(sent, dropped, gapStart, t)
    <3>1. \A i \in 1..Len(sent) : At(sent, i) \in Nat
      BY <1>t, CommandTimes DEF IInv, At
    <3>. QED
      BY <1>t, <2>2, <3>1 DEF JInv, Clocked
  <2>4. JournalInv'
    BY <2>1, <2>2, <2>3, JInvIsJournalInvNext
  <2>5. OutboxInv' /\ CallInv'
    BY <2>1, <2>2 DEF OutboxInv, CallInv, InCall, IInv
  <2>. QED
    BY <1>s, <2>4, <2>5
<1>2. CASE Samples
  <2>1. PICK cmd \in Command : OfferSample(cmd) /\ cmd.op # "Append"
    BY <1>2, <1>t, CommandTypes DEF Samples, HeartbeatCmd, ReceiveSeqCmd
  <2>2. JournalInv'
    <3>1. CASE Full
      BY <1>t, <2>1, <3>1, JInvIsJournalInvNext DEF OfferSample, chanVars
    <3>2. CASE ~Full
      BY <1>t, <2>1, <3>2, QuietSend, JInvIsJournalInvNext DEF OfferSample, Send
    <3>. QED
      BY <3>1, <3>2
  <2>3. OutboxInv' /\ CallInv'
    BY <2>1 DEF OfferSample, OutboxInv, CallInv, InCall, IInv
  <2>. QED
    BY <1>s, <2>2, <2>3
<1>3. CASE FlushOne
  <2>1. /\ Head(outbox) \in Record /\ Head(outbox) = outbox[1] /\ 1 \in 1..Len(outbox)
        /\ \A i \in 1..Len(Tail(outbox)) : Tail(outbox)[i] = outbox[i + 1] /\ i + 1 \in 1..Len(outbox)
    BY <1>3, <1>t, TailSeq DEF FlushOne
  <2>2. MarkerCmd(Head(outbox)) \in Command /\ MarkerCmd(Head(outbox)).rec = Head(outbox)
    BY <2>1, CommandTypes DEF MarkerCmd, AppendCmd
  <2>3. Head(outbox).kind \notin {"SubscriptionGap", "motion", "context"}
    BY <2>1, QueuedKindsAreQuiet DEF IInv, OutboxInv, QueuedKinds
  <2>4. JournalInv'
    BY <1>3, <1>t, <2>2, <2>3, QuietSend, JInvIsJournalInvNext DEF FlushOne, Send, callVars
  <2>5. OutboxInv'
    BY <1>3, <2>1 DEF FlushOne, IInv, OutboxInv
  <2>6. CallInv'
    BY <1>3 DEF FlushOne, callVars, IInv, CallInv, InCall
  <2>. QED
    BY <1>s, <2>4, <2>5, <2>6
<1>4. CASE FlushEnd
  <2>1. CASE outbox # <<>>
    BY <1>4, <1>s, <2>1, RejectInv DEF FlushEnd, FlushIsOver, Backlog, AfterFlush, InCall
  <2>2. CASE outbox = <<>>
    <3>1. /\ UNCHANGED <<sent, dropped, gapStart, now, outbox, cur>> /\ InCall
          /\ pc' = IF IsOffered(cur) /\ gapStart # NoGap THEN "gap" ELSE "send"
      BY <1>4, <2>2 DEF FlushEnd, FlushIsOver, Backlog, AfterFlush, callVars, chanVars, InCall
    <3>2. JournalInv'
      BY <1>t, <3>1, JInvIsJournalInvNext
    <3>3. OutboxInv' /\ CallInv'
      BY <3>1 DEF OutboxInv, CallInv, InCall, IInv, IsOffered
    <3>. QED
      BY <1>s, <3>2, <3>3
  <2>. QED
    BY <2>1, <2>2
<1>5. CASE LossFlushEnd \/ HangUp \/ Take \/ ThreadDies \/ UNCHANGED vars
  <2>1. /\ UNCHANGED <<sent, dropped, gapStart, now, outbox, cur>>
        /\ pc' \in {pc, "idle", "gone"}
    BY <1>5 DEF LossFlushEnd, FlushIsOver, HangUp, Take, ThreadDies, Idle, vars, senderVars, callVars, chanVars
  <2>2. JournalInv'
    BY <1>t, <2>1, JInvIsJournalInvNext
  <2>3. OutboxInv' /\ CallInv'
    BY <2>1 DEF OutboxInv, CallInv, InCall, IInv
  <2>. QED
    BY <1>s, <2>2, <2>3
<1>6. CASE CloseGap
  <2>1. CASE Full
    BY <1>6, <1>s, <2>1, DropInv DEF CloseGap, GapClosed, InCall
  <2>2. CASE ~Full
    <3>1. gapStart \in Nat /\ cur.at = now
      BY <1>6, <1>t DEF CloseGap, GapClosed, IInv, CallInv, InCall
    <3>2. /\ sent' = Append(sent, MarkerCmd(GapMarker(gapStart, now))) /\ gapStart' = NoGap
          /\ pc' = "send" /\ UNCHANGED <<dropped, now, outbox, cur>>
      BY <1>6, <2>2, <3>1 DEF CloseGap, GapClosed, Send, callVars
    <3>3. JournalInv'
      BY <1>t, <3>1, <3>2, GapSend, JInvIsJournalInvNext
    <3>4. OutboxInv' /\ CallInv'
      BY <3>1, <3>2 DEF OutboxInv, CallInv, InCall, IInv
    <3>. QED
      BY <1>s, <3>3, <3>4
  <2>. QED
    BY <2>1, <2>2
<1>7. CASE Offer
  <2>1. CASE Full
    BY <1>7, <1>s, <2>1, RejectInv DEF Offer, LossStillPending, InCall
  <2>2. CASE ~Full
    <3>1. /\ sent' = Append(sent, AppendCmd(cur, policy)) /\ pc' = "idle"
          /\ UNCHANGED <<dropped, now, outbox, cur, gapStart>>
      BY <1>7, <2>2 DEF Offer, LossStillPending, Send, Idle, callVars
    <3>2. /\ AppendCmd(cur, policy) \in Command /\ AppendCmd(cur, policy).op = "Append"
          /\ AppendCmd(cur, policy).rec = cur /\ cur.at = now
      BY <1>7, <1>t, CommandTypes DEF AppendCmd, Offer, LossStillPending, IInv, CallInv, InCall
    <3>3. JournalInv'
      <4>1. CASE IsOffered(cur)
        <5>1. gapStart = NoGap
          BY <1>7, <4>1 DEF Offer, LossStillPending, IInv, CallInv
        <5>. QED
          BY <1>t, <3>1, <3>2, <4>1, <5>1, RecordSend, JInvIsJournalInvNext DEF IsOffered
      <4>2. CASE ~IsOffered(cur)
        <5>1. cur.kind \notin {"SubscriptionGap", "motion", "context"}
          BY <4>2 DEF IsOffered, IInv, CallInv, IsMarker, MarkerKinds, LifecycleKinds
        <5>. QED
          BY <1>t, <3>1, <3>2, <5>1, QuietSend, JInvIsJournalInvNext
      <4>. QED
        BY <4>1, <4>2
    <3>4. OutboxInv' /\ CallInv'
      BY <3>1 DEF OutboxInv, CallInv, InCall, IInv
    <3>. QED
      BY <1>s, <3>3, <3>4
  <2>. QED
    BY <2>1, <2>2
<1>8. CASE Shutdown
  <2>1. ShutdownCmd \in Command /\ ShutdownCmd.op # "Append"
    BY CommandTypes DEF ShutdownCmd
  <2>2. JournalInv'
    BY <1>8, <1>t, <2>1, QuietSend, JInvIsJournalInvNext DEF Shutdown, Send, callVars
  <2>3. OutboxInv' /\ CallInv'
    BY <1>8 DEF Shutdown, callVars, OutboxInv, CallInv, InCall, IInv
  <2>. QED
    BY <1>s, <2>2, <2>3
<1>9. CASE Watch
  <2>. DEFINE m == Marker("PowerFailing", now)
  <2>1. m \in Record /\ m.kind = "PowerFailing"
    BY <1>t, RecordTypes DEF MarkerKinds, Marker
  <2>2. MarkerCmd(m) \in Command /\ MarkerCmd(m).rec = m
    BY <2>1, CommandTypes DEF MarkerCmd, AppendCmd
  <2>3. sent' = Append(sent, MarkerCmd(m)) /\ UNCHANGED senderVars
    BY <1>9 DEF Watch, Send
  <2>. HIDE DEF m
  <2>4. JournalInv'
    BY <1>t, <2>1, <2>2, <2>3, QuietSend, JInvIsJournalInvNext DEF senderVars
  <2>5. OutboxInv' /\ CallInv'
    BY <2>3 DEF senderVars, OutboxInv, CallInv, InCall, IInv
  <2>. QED
    BY <1>s, <2>4, <2>5
<1>. QED
  BY <1>1, <1>2, <1>3, <1>4, <1>5, <1>6, <1>7, <1>8, <1>9 DEF Next, SenderNext, Progress

LEMMA StrongInvariant == Spec => []IInv
<1>1. Init => IInv
  BY StrongInit, SenderAssumption
<1>2. IInv /\ [Next]_vars => IInv'
  BY StrongStep, SenderAssumption
<1>. QED
  BY <1>1, <1>2, PTL DEF Spec

(* Type correctness of the drop policy's state (sender.rs:119).            *)
THEOREM TypeCorrect == Spec => []TypeOK
<1>1. IInv => TypeOK
  BY DEF IInv
<1>. QED
  BY <1>1, StrongInvariant, PTL

(* Every dropped record lies in the open gap or in a journaled             *)
(* SubscriptionGap: reconstruction "sees an honest observation gap instead *)
(* of silently missing motion" (sender.rs:8-13).                           *)
THEOREM DropsAreJournaled == Spec => []GapHonesty
<1>1. IInv => GapHonesty
  BY DEF IInv
<1>. QED
  BY <1>1, StrongInvariant, PTL

(* A journaled gap brackets the loss and nothing else: no record that was  *)
(* journaled falls strictly inside it (close_gap, sender.rs:272).          *)
THEOREM GapsBracketTheLoss == Spec => []GapClaimsOnlyTheLoss
<1>1. IInv => GapClaimsOnlyTheLoss
  BY DEF IInv
<1>. QED
  BY <1>1, StrongInvariant, PTL

(* While a gap is open no record from after its start reaches the channel: *)
(* the marker goes first (send_data, sender.rs:222).                       *)
THEOREM NothingPassesAnOpenGap == Spec => []NoRecordInsideOpenGap
<1>1. IInv => NoRecordInsideOpenGap
  BY DEF IInv
<1>. QED
  BY <1>1, StrongInvariant, PTL

-----------------------------------------------------------------------------
(***************************************************************************)
(* What reconstruction is certain of about cancelled objects is true       *)
(* (ExclusionHonesty).                                                     *)
(*                                                                         *)
(* The argument: the newest set Klipper reported, `truth`, is journaled,   *)
(* or dropped, or still in a call.  Journaled, it is the last of its kind. *)
(* In a call, nothing later is journaled.  Dropped, it lies in the open    *)
(* gap, and then nothing later is journaled either, or in a journaled gap  *)
(* that ends after the set journaled last: a doubt.                        *)
(***************************************************************************)
Carrier(s, i) == s[i].op = "Append" /\ CarriesExclude(s[i].rec)

(* What the sets journaled in s have to do with the newest one, tr: they   *)
(* are older, or tr itself, which then is the last and no longer on its    *)
(* way (`busy`).                                                           *)
IsLast(s, i) == Carrier(s, i) /\ \A k \in 1..Len(s) : Carrier(s, k) => k <= i

Told(s, tr, busy) ==
  \A i \in 1..Len(s) : Carrier(s, i) =>
    /\ CarriesExclude(tr)
    /\ s[i].rec.at < tr.at \/ (s[i].rec = tr /\ ~busy /\ IsLast(s, i))
    /\ \E l \in 1..Len(s) : IsLast(s, l)

Holds(s, tr) == \E i \in 1..Len(s) : Carrier(s, i) /\ s[i].rec = tr

Calling == pc \in {"flush", "gap", "send"}
Untold == (Calling /\ cur = truth) \/ (pc = "gone" /\ truth.at = now)

(* Only a context carries a set, and the call that carries one has the     *)
(* newest.                                                                 *)
CarrierInv ==
  /\ CarriesExclude(cur) => IsOffered(cur)
  /\ Calling /\ CarriesExclude(cur) => cur = truth
  /\ CarriesExclude(truth) => truth.at <= now
  /\ \A m \in 1..Len(outbox) : ~CarriesExclude(outbox[m])

TruthInv ==
  /\ Told(sent, truth, Calling /\ cur = truth)
  /\ CarriesExclude(truth) => truth.at \in dropped \/ Untold \/ Holds(sent, truth)

XInv == CarrierInv /\ TruthInv

-----------------------------------------------------------------------------
(* Journals that grow by one command.                                      *)

LEMMA ToldQuiet ==
  ASSUME NEW s \in Seq(Command), NEW c \in Command,
         ~(c.op = "Append" /\ CarriesExclude(c.rec)),
         NEW tr, NEW busy, Told(s, tr, busy)
  PROVE  Told(Append(s, c), tr, busy)
<1>1. /\ Len(Append(s, c)) = Len(s) + 1 /\ Len(s) \in Nat
      /\ \A i \in 1..Len(s) : Append(s, c)[i] = s[i]
      /\ Append(s, c)[Len(s) + 1] = c
  BY AppendedSeq
<1>2. ~Carrier(Append(s, c), Len(s) + 1)
  BY <1>1 DEF Carrier
<1>3. \A i \in 1..Len(s) : Carrier(Append(s, c), i) <=> Carrier(s, i)
  BY <1>1 DEF Carrier
<1>4. \A i \in 1..Len(s) : IsLast(s, i) => IsLast(Append(s, c), i)
  BY <1>1, <1>2, <1>3 DEF IsLast
<1>. QED
  BY <1>1, <1>2, <1>3, <1>4 DEF Told

LEMMA ToldSend ==
  ASSUME NEW s \in Seq(Command), NEW c \in Command, NEW tr,
         c.op = "Append", c.rec = tr, CarriesExclude(tr), Told(s, tr, TRUE)
  PROVE  Told(Append(s, c), tr, FALSE) /\ Holds(Append(s, c), tr)
<1>1. /\ Len(Append(s, c)) = Len(s) + 1 /\ Len(s) \in Nat
      /\ \A i \in 1..Len(s) : Append(s, c)[i] = s[i]
      /\ Append(s, c)[Len(s) + 1] = c
  BY AppendedSeq
<1>2. \A i \in 1..Len(s) : Carrier(Append(s, c), i) => Append(s, c)[i].rec.at < tr.at
  BY <1>1 DEF Carrier, Told
<1>3. IsLast(Append(s, c), Len(s) + 1)
  BY <1>1 DEF IsLast, Carrier
<1>. QED
  BY <1>1, <1>2, <1>3 DEF Told, IsLast, Holds, Carrier

LEMMA HoldsMore ==
  ASSUME NEW s \in Seq(Command), NEW c \in Command, NEW tr, Holds(s, tr)
  PROVE  Holds(Append(s, c), tr)
<1>1. PICK i \in 1..Len(s) : Carrier(s, i) /\ s[i].rec = tr
  BY DEF Holds
<1>2. /\ Len(Append(s, c)) = Len(s) + 1 /\ Len(s) \in Nat
      /\ Append(s, c)[i] = s[i]
  BY AppendedSeq
<1>3. i \in 1..Len(Append(s, c))
  BY <1>2
<1>. QED
  BY <1>1, <1>2, <1>3 DEF Holds, Carrier

LEMMA NoCarriers ==
  /\ \A t \in Nat : ~CarriesExclude(Motion(t))
  /\ \A k \in MarkerKinds, t \in Nat : ~CarriesExclude(Marker(k, t))
  /\ \A a, b \in Nat : ~CarriesExclude(GapMarker(a, b))
BY DEF CarriesExclude, Motion, Marker, GapMarker

LEMMA OutboxGrows ==
  ASSUME outbox \in Seq(Record), NEW r \in Record, ~CarriesExclude(r),
         \A m \in 1..Len(outbox) : ~CarriesExclude(outbox[m]),
         outbox' = Append(outbox, r)
  PROVE  \A m \in 1..Len(outbox') : ~CarriesExclude(outbox'[m])
<1>1. /\ Len(outbox') = Len(outbox) + 1 /\ Len(outbox) \in Nat
      /\ \A i \in 1..Len(outbox) : outbox'[i] = outbox[i]
      /\ outbox'[Len(outbox) + 1] = r
  BY AppendedSeq
<1>. QED
  BY <1>1

-----------------------------------------------------------------------------
LEMMA XInit == SenderAssumption /\ Init => XInv
<1> SUFFICES ASSUME Init PROVE XInv
  OBVIOUS
<1>1. /\ sent = <<>> /\ outbox = <<>> /\ Len(sent) = 0 /\ Len(outbox) = 0
      /\ cur = NoRecord /\ truth = NoRecord
  BY DEF Init, ChannelInit, SenderInit
<1>2. ~CarriesExclude(NoRecord)
  BY NoCarriers DEF NoRecord
<1>. QED
  BY <1>1, <1>2 DEF XInv, CarrierInv, TruthInv, Told

(* A record that is dropped is told of by its gap.                         *)
LEMMA DropX ==
  ASSUME SenderAssumption, IInv, XInv, Calling, DropRecord, UNCHANGED callVars
  PROVE  XInv'
<1>1. /\ UNCHANGED <<sent, cur, truth, now>>
      /\ dropped' = dropped \cup {cur.at}
      /\ pc' \in {"idle", "lossFlush"}
  BY DEF DropRecord, callVars, chanVars, Idle
<1>2. \A m \in 1..Len(outbox') : ~CarriesExclude(outbox'[m])
  <2>1. CASE MarksLoss
    <3>1. cur.at \in Nat /\ outbox \in Seq(Record)
      BY DEF IInv, TypeOK, Record
    <3>2. /\ Marker("ExclusionUpdateLost", cur.at) \in Record
          /\ ~CarriesExclude(Marker("ExclusionUpdateLost", cur.at))
      BY <3>1, RecordTypes, NoCarriers DEF MarkerKinds
    <3>3. outbox' = Append(outbox, Marker("ExclusionUpdateLost", cur.at))
      BY <2>1 DEF DropRecord
    <3>. QED
      BY <3>1, <3>2, <3>3, OutboxGrows DEF XInv, CarrierInv
  <2>2. CASE ~MarksLoss
    BY <2>2 DEF DropRecord, XInv, CarrierInv
  <2>. QED
    BY <2>1, <2>2
<1>3. CarrierInv'
  BY <1>1, <1>2 DEF XInv, CarrierInv, Calling
<1>4. TruthInv'
  <2>1. Told(sent, truth, FALSE)
    BY DEF XInv, TruthInv, Told
  <2>2. CarriesExclude(truth) => truth.at \in dropped' \/ Holds(sent, truth)
    BY <1>1 DEF XInv, TruthInv, Untold, Calling
  <2>. QED
    BY <1>1, <2>1, <2>2 DEF TruthInv, Calling, Told, IsLast, Holds, Carrier
<1>. QED
  BY <1>3, <1>4 DEF XInv

LEMMA RejectX ==
  ASSUME SenderAssumption, IInv, XInv, Calling, Reject, UNCHANGED callVars
  PROVE  XInv'
<1>1. CASE IsMarker(cur)
  <2>1. /\ UNCHANGED <<sent, cur, truth, now, dropped>>
        /\ outbox' = Append(outbox, cur) /\ pc' = "idle"
    BY <1>1 DEF Reject, QueueMarker, callVars, chanVars, Idle
  <2>2. ~CarriesExclude(cur)
    BY <1>1 DEF XInv, CarrierInv, IsMarker, IsOffered, MarkerKinds, LifecycleKinds
  <2>3. \A m \in 1..Len(outbox') : ~CarriesExclude(outbox'[m])
    BY <2>1, <2>2, OutboxGrows DEF XInv, CarrierInv, IInv, TypeOK
  <2>4. CarrierInv'
    BY <2>1, <2>3 DEF XInv, CarrierInv, Calling
  <2>5. TruthInv'
    <3>1. Told(sent, truth, FALSE)
      BY DEF XInv, TruthInv, Told
    <3>2. CarriesExclude(truth) => truth.at \in dropped \/ Holds(sent, truth)
      BY <2>2 DEF XInv, TruthInv, Untold, Calling
    <3>. QED
      BY <2>1, <3>1, <3>2 DEF TruthInv, Calling, Told, IsLast, Holds, Carrier
  <2>. QED
    BY <2>4, <2>5 DEF XInv
<1>2. CASE ~IsMarker(cur)
  BY <1>2, DropX DEF Reject
<1>. QED
  BY <1>1, <1>2

(* A step that sends at most one command without a set, and neither begins *)
(* nor ends a call's claim to the newest set.                              *)
LEMMA QuietX ==
  ASSUME IInv, XInv, NEW c \in Command, ~(c.op = "Append" /\ CarriesExclude(c.rec)),
         sent' = sent \/ sent' = Append(sent, c),
         UNCHANGED <<cur, truth, now, dropped>>, Untold => Untold',
         Calling' => Calling \/ ~CarriesExclude(cur),
         \A m \in 1..Len(outbox') : ~CarriesExclude(outbox'[m])
  PROVE  XInv'
<1>1. sent \in Seq(Command)
  BY DEF IInv, TypeOK, ChannelTypeOK
<1>2. CarrierInv'
  BY DEF XInv, CarrierInv
<1>3. Told(sent, truth, (Calling /\ cur = truth)')
  BY DEF XInv, TruthInv, Told, CarrierInv
<1>4. Told(sent', truth', (Calling /\ cur = truth)')
  BY <1>1, <1>3, ToldQuiet
<1>5. Holds(sent, truth) => Holds(sent', truth')
  BY <1>1, HoldsMore
<1>. QED
  BY <1>2, <1>4, <1>5 DEF XInv, TruthInv

LEMMA BeginX ==
  ASSUME SenderAssumption, IInv, XInv, Calls
  PROVE  XInv'
<1>1. PICK t \in Times :
        \/ BeginRecord(t, Motion(t), "Batched")
        \/ FirstOfMessage(t) /\ \E e \in ExcludedSets, d \in Definitions :
                                  BeginRecord(t, Context(t, e, d), "Immediate")
        \/ \E k \in MarkerInputs : BeginMarker(t, k)
  BY DEF Calls
<1>2. t \in Nat /\ now \in Nat /\ now <= t
  BY DEF Times, IInv, TypeOK
<1>3. /\ BeginCall(t) /\ UNCHANGED <<sent, dropped, outbox>>
      /\ pc = "idle" /\ pc' = "flush" /\ now' = t
  BY <1>1 DEF BeginRecord, BeginMarker, BeginCall, chanVars
<1>4. /\ Told(sent, truth, FALSE)
      /\ CarriesExclude(truth) => truth.at \in dropped \/ Holds(sent, truth)
  BY <1>3 DEF XInv, TruthInv, Untold, Calling, Told
<1>5. CarriesExclude(truth) => truth.at \in Nat /\ truth.at <= now
  BY DEF XInv, CarrierInv, IInv, TypeOK, Record
<1>6. CASE ~CarriesExclude(cur') /\ truth' = truth
  <2>1. CarrierInv'
    BY <1>2, <1>3, <1>5, <1>6 DEF XInv, CarrierInv
  <2>2. Told(sent, truth, (Calling /\ cur = truth)')
    BY <1>4, <1>6 DEF Told
  <2>. QED
    BY <1>3, <1>4, <1>6, <2>1, <2>2 DEF XInv, TruthInv, Told, IsLast, Holds, Carrier
<1>7. CASE FirstOfMessage(t) /\ \E e \in ExcludedSets, d \in Definitions :
                                  BeginRecord(t, Context(t, e, d), "Immediate")
  <2>1. PICK e \in ExcludedSets, d \in Definitions : BeginRecord(t, Context(t, e, d), "Immediate")
    BY <1>7
  <2>2. CarriesExclude(Context(t, e, d)) /\ Context(t, e, d).at = t /\ IsOffered(Context(t, e, d))
    BY RecordAssumption DEF CarriesExclude, Context, IsOffered
  <2>3. cur' = Context(t, e, d) /\ truth' = Context(t, e, d)
    BY <2>1, <2>2 DEF BeginRecord
  <2>4. CarriesExclude(cur') /\ cur'.at = t /\ truth' = cur' /\ IsOffered(cur')
    BY <2>2, <2>3
  <2>5. CarrierInv'
    BY <1>2, <1>3, <2>4 DEF XInv, CarrierInv
  <2>6. \A i \in 1..Len(sent) : Carrier(sent, i) => sent[i].rec.at < t
    <3>1. SUFFICES ASSUME NEW i \in 1..Len(sent), Carrier(sent, i) PROVE sent[i].rec.at < t
      OBVIOUS
    <3>2. sent[i].rec.at \in Nat
      BY CommandTimes DEF IInv
    <3>3. CarriesExclude(truth) /\ (sent[i].rec.at < truth.at \/ sent[i].rec = truth)
      BY <1>4, <3>1 DEF Told
    <3>4. truth.at < t
      BY <1>7, <3>3 DEF FirstOfMessage
    <3>. QED
      BY <1>2, <1>5, <3>2, <3>3, <3>4
  <2>7. Told(sent', truth', (Calling /\ cur = truth)')
    <3>1. \A i \in 1..Len(sent) : Carrier(sent, i) => \E l \in 1..Len(sent) : IsLast(sent, l)
      BY <1>4 DEF Told
    <3>2. Told(sent, truth', FALSE) /\ Told(sent, truth', TRUE)
      BY <2>4, <2>6, <3>1 DEF Told
    <3>. QED
      BY <1>3, <3>2 DEF Told, IsLast, Carrier
  <2>8. Untold'
    BY <1>3, <2>4 DEF Untold, Calling
  <2>. QED
    BY <2>5, <2>7, <2>8 DEF XInv, TruthInv
<1>8. CASE BeginRecord(t, Motion(t), "Batched")
  BY <1>2, <1>6, <1>8, NoCarriers DEF BeginRecord
<1>9. CASE \E k \in MarkerInputs : BeginMarker(t, k)
  BY <1>2, <1>6, <1>9, NoCarriers DEF BeginMarker, SenderAssumption, MarkerKinds
<1>. QED
  BY <1>1, <1>7, <1>8, <1>9

LEMMA OfferX ==
  ASSUME SenderAssumption, IInv, XInv, Offer
  PROVE  XInv'
<1>1. CASE Full
  BY <1>1, RejectX DEF Offer, Calling
<1>2. CASE ~Full
  <2>1. /\ sent' = Append(sent, AppendCmd(cur, policy)) /\ pc = "send" /\ pc' = "idle"
        /\ UNCHANGED <<cur, truth, now, dropped, outbox>>
    BY <1>2 DEF Offer, Send, Idle, callVars
  <2>2. /\ AppendCmd(cur, policy) \in Command /\ AppendCmd(cur, policy).op = "Append"
        /\ AppendCmd(cur, policy).rec = cur /\ sent \in Seq(Command)
    BY CommandTypes DEF AppendCmd, IInv, TypeOK, ChannelTypeOK
  <2>3. CASE CarriesExclude(cur)
    <3>1. cur = truth /\ Told(sent, truth, TRUE)
      BY <2>1, <2>3 DEF XInv, CarrierInv, TruthInv, Calling, Told
    <3>2. Told(sent', truth, FALSE) /\ Holds(sent', truth)
      BY <2>1, <2>2, <2>3, <3>1, ToldSend
    <3>. QED
      BY <2>1, <3>2 DEF XInv, CarrierInv, TruthInv, Calling, Told, IsLast, Holds, Carrier
  <2>4. CASE ~CarriesExclude(cur)
    <3>1. Told(sent, truth, FALSE)
      BY DEF XInv, TruthInv, Told
    <3>2. CarriesExclude(truth) => truth.at \in dropped \/ Holds(sent, truth)
      BY <2>1, <2>4 DEF XInv, TruthInv, Untold, Calling
    <3>3. Told(sent', truth, FALSE) /\ (Holds(sent, truth) => Holds(sent', truth))
      BY <2>1, <2>2, <2>4, <3>1, ToldQuiet, HoldsMore
    <3>. QED
      BY <2>1, <3>2, <3>3 DEF XInv, CarrierInv, TruthInv, Calling, Told, IsLast, Holds, Carrier
  <2>. QED
    BY <2>3, <2>4
<1>. QED
  BY <1>1, <1>2

LEMMA XStep == SenderAssumption /\ IInv /\ XInv /\ [Next]_vars => XInv'
<1> SUFFICES ASSUME SenderAssumption, IInv, XInv, [Next]_vars
             PROVE  XInv'
  OBVIOUS
<1>t. /\ outbox \in Seq(Record) /\ cur \in Record /\ now \in Nat
      /\ \A m \in 1..Len(outbox) : ~CarriesExclude(outbox[m])
  BY DEF IInv, TypeOK, XInv, CarrierInv
<1>1. CASE Calls
  BY <1>1, BeginX
<1>2. CASE Samples
  <2>1. PICK c \in Command : OfferSample(c) /\ c.op # "Append"
    <3>1. ReceiveSeqCmd(now) \in Command /\ ReceiveSeqCmd(now).op # "Append"
      BY <1>t, CommandTypes DEF ReceiveSeqCmd
    <3>2. \A d \in HbSamples \cup {NoData} :
            HeartbeatCmd(d) \in Command /\ HeartbeatCmd(d).op # "Append"
      BY CommandTypes DEF HeartbeatCmd
    <3>. QED
      BY <1>2, <3>1, <3>2 DEF Samples
  <2>2. /\ sent' = sent \/ sent' = Append(sent, c)
        /\ UNCHANGED <<cur, truth, now, dropped, pc, outbox>>
    BY <2>1 DEF OfferSample, Send, chanVars
  <2>. QED
    BY <1>t, <2>1, <2>2, QuietX DEF Untold, Calling
<1>3. CASE FlushOne
  <2>1. /\ sent' = Append(sent, MarkerCmd(Head(outbox))) /\ outbox' = Tail(outbox)
        /\ UNCHANGED <<cur, truth, now, dropped, pc>> /\ outbox # <<>>
    BY <1>3 DEF FlushOne, Send, callVars
  <2>2. /\ Head(outbox) \in Record /\ ~CarriesExclude(Head(outbox))
        /\ \A m \in 1..Len(outbox') : ~CarriesExclude(outbox'[m])
    BY <1>t, <2>1, TailSeq
  <2>3. MarkerCmd(Head(outbox)) \in Command /\ MarkerCmd(Head(outbox)).rec = Head(outbox)
    BY <2>2, CommandTypes DEF MarkerCmd, AppendCmd
  <2>. QED
    BY <2>1, <2>2, <2>3, QuietX DEF Untold, Calling
<1>4. CASE FlushEnd
  <2>1. CASE Backlog
    BY <1>4, <2>1, RejectX DEF FlushEnd, Calling
  <2>2. CASE ~Backlog
    <3>1. /\ UNCHANGED <<sent, cur, truth, now, dropped, outbox>>
          /\ pc = "flush" /\ pc' \in {"gap", "send"}
      BY <1>4, <2>2 DEF FlushEnd, AfterFlush, callVars, chanVars
    <3>2. ShutdownCmd \in Command /\ ShutdownCmd.op # "Append"
      BY CommandTypes DEF ShutdownCmd
    <3>. QED
      BY <1>t, <3>1, <3>2, QuietX DEF Untold, Calling
  <2>. QED
    BY <2>1, <2>2
<1>5. CASE LossFlushEnd \/ HangUp \/ Take \/ ThreadDies \/ UNCHANGED vars
  <2>1. /\ UNCHANGED <<sent, cur, truth, now, dropped, outbox>>
        /\ \/ pc = "lossFlush" /\ pc' = "idle"
           \/ pc \notin {"stopped", "gone"} /\ pc' = "gone"
           \/ pc' = pc
    BY <1>5 DEF LossFlushEnd, HangUp, Take, ThreadDies, Idle, vars, senderVars, callVars, chanVars
  <2>2. ShutdownCmd \in Command /\ ShutdownCmd.op # "Append"
    BY CommandTypes DEF ShutdownCmd
  <2>3. Calling => cur.at = now
    BY DEF Calling, IInv, CallInv, InCall
  <2>. QED
    BY <1>t, <2>1, <2>2, <2>3, QuietX DEF Untold, Calling
<1>6. CASE CloseGap
  <2>1. CASE Full
    BY <1>6, <2>1, DropX DEF CloseGap, Calling
  <2>2. CASE ~Full
    <3>1. gapStart \in Nat /\ cur.at = now
      BY <1>6 DEF CloseGap, IInv, CallInv, InCall, TypeOK
    <3>2. /\ sent' = Append(sent, MarkerCmd(GapMarker(gapStart, now)))
          /\ pc = "gap" /\ pc' = "send" /\ UNCHANGED <<dropped, now, outbox, cur, truth>>
      BY <1>6, <2>2, <3>1 DEF CloseGap, Send, callVars
    <3>3. GapMarker(gapStart, now) \in Record /\ ~CarriesExclude(GapMarker(gapStart, now))
      BY <1>t, <3>1, RecordTypes, NoCarriers
    <3>4. /\ MarkerCmd(GapMarker(gapStart, now)) \in Command
          /\ MarkerCmd(GapMarker(gapStart, now)).rec = GapMarker(gapStart, now)
      BY <3>3, CommandTypes DEF MarkerCmd, AppendCmd
    <3>. QED
      BY <1>t, <3>2, <3>3, <3>4, QuietX DEF Untold, Calling
  <2>. QED
    BY <2>1, <2>2
<1>7. CASE Offer
  BY <1>7, OfferX
<1>8. CASE Shutdown
  <2>1. /\ ShutdownCmd \in Command /\ ShutdownCmd.op # "Append"
        /\ sent' = Append(sent, ShutdownCmd) /\ pc = "idle" /\ pc' = "stopped"
        /\ UNCHANGED <<cur, truth, now, dropped, outbox>>
    BY <1>8, CommandTypes DEF ShutdownCmd, Shutdown, Send, callVars
  <2>. QED
    BY <1>t, <2>1, QuietX DEF Untold, Calling
<1>9. CASE Watch
  <2>. DEFINE m == Marker("PowerFailing", now)
  <2>1. m \in Record /\ ~CarriesExclude(m)
    BY <1>t, RecordTypes, NoCarriers DEF MarkerKinds
  <2>2. MarkerCmd(m) \in Command /\ MarkerCmd(m).rec = m
    BY <2>1, CommandTypes DEF MarkerCmd, AppendCmd
  <2>3. sent' = Append(sent, MarkerCmd(m)) /\ UNCHANGED senderVars
    BY <1>9 DEF Watch, Send
  <2>. HIDE DEF m
  <2>. QED
    BY <1>t, <2>1, <2>2, <2>3, QuietX DEF Untold, Calling, senderVars
<1>. QED
  BY <1>1, <1>2, <1>3, <1>4, <1>5, <1>6, <1>7, <1>8, <1>9 DEF Next, SenderNext, Progress

-----------------------------------------------------------------------------
(* What the invariant says of the journal as it is read.                   *)
LEMMA TruthIsLast ==
  ASSUME IInv, XInv, CarriesExclude(truth), OutlivesTruth(Journal), Journaled(Journal),
         Doubts(Journal) = {}
  PROVE  Excluded(Journal) = truth.excl
<1>. DEFINE L == LastCarrier(Journal)
<1>1. /\ sent \in Seq(Command) /\ Len(sent) \in Nat /\ DOMAIN sent = 1..Len(sent)
      /\ truth.at \in Nat /\ now \in Nat
  BY DEF IInv, TypeOK, ChannelTypeOK, Record
<1>2. /\ DOMAIN Journal = 1..Len(sent)
      /\ \A i \in 1..Len(sent) :
           Journal[i] = IF AppendAt(i) THEN Appended(i) ELSE NoRecord
  BY <1>1 DEF Journal
<1>3. ~CarriesExclude(NoRecord) /\ NoRecord.at = 0 /\ NoRecord.kind = "motion"
  BY NoCarriers DEF NoRecord, Motion
<1>4. Carriers(Journal) = {i \in 1..Len(sent) : Carrier(sent, i)}
  BY <1>2, <1>3 DEF Carriers, Carrier, AppendAt, Appended, CarriesExclude
<1>5. \A i \in Carriers(Journal) :
        /\ i \in 1..Len(sent) /\ Journal[i] = sent[i].rec /\ sent[i].rec.at \in Nat
        /\ sent[i].rec.at < truth.at
             \/ (sent[i].rec = truth /\ \A k \in Carriers(Journal) : k <= i)
  <2>. SUFFICES ASSUME NEW i \in 1..Len(sent), Carrier(sent, i)
                PROVE  /\ Journal[i] = sent[i].rec /\ sent[i].rec.at \in Nat
                       /\ sent[i].rec.at < truth.at
                            \/ (sent[i].rec = truth /\ \A k \in Carriers(Journal) : k <= i)
    BY <1>4
  <2>1. Journal[i] = sent[i].rec
    BY <1>2 DEF Carrier, AppendAt, Appended
  <2>2. sent[i].rec.at \in Nat
    BY CommandTimes DEF IInv
  <2>3. sent[i].rec.at < truth.at \/ (sent[i].rec = truth /\ IsLast(sent, i))
    BY DEF XInv, TruthInv, Told
  <2>4. IsLast(sent, i) => \A k \in Carriers(Journal) : k <= i
    BY <1>4 DEF IsLast
  <2>. QED
    BY <2>1, <2>2, <2>3, <2>4
<1>6. L \in Carriers(Journal) /\ \A k \in Carriers(Journal) : k <= L
  <2>1. PICK i \in 1..Len(sent) : Carrier(sent, i)
    BY <1>4 DEF Journaled
  <2>2. PICK l \in 1..Len(sent) : IsLast(sent, l)
    BY <2>1 DEF XInv, TruthInv, Told
  <2>3. l \in Carriers(Journal) /\ \A k \in Carriers(Journal) : k <= l
    BY <1>4, <2>2 DEF IsLast
  <2>. QED
    BY <2>3 DEF LastCarrier
<1>7. PICK i \in 1..Len(sent) : AppendAt(i) /\ IsOffered(Appended(i)) /\ Appended(i).at > truth.at
  BY <1>1, <1>2, <1>3 DEF OutlivesTruth, IsOffered
<1>8. Appended(i).at \in Nat /\ Appended(i).at <= now
  BY <1>7, CommandTimes DEF IInv, ClockInv, Appended
<1>9. ~Untold
  BY <1>1, <1>7, <1>8 DEF Untold, Calling, IInv, CallInv, InCall
<1>10. CASE Holds(sent, truth)
  <2>1. PICK k \in Carriers(Journal) : sent[k].rec = truth
    BY <1>4, <1>10 DEF Holds
  <2>2. k = L
    BY <1>1, <1>5, <1>6, <2>1
  <2>. QED
    BY <1>5, <2>1, <2>2 DEF Excluded
<1>11. CASE truth.at \in dropped
  <2>1. CASE gapStart # NoGap /\ gapStart <= truth.at
    <3>1. gapStart \in Nat
      BY <2>1 DEF IInv, TypeOK
    <3>2. Appended(i).at <= gapStart
      BY <1>7, <2>1 DEF IInv, NoRecordInsideOpenGap
    <3>. QED
      BY <1>1, <1>7, <1>8, <2>1, <3>1, <3>2
  <2>2. CASE \E g \in 1..Len(sent) : IsGap(g) /\ truth.at <= Appended(g).at
    <3>1. PICK g \in 1..Len(sent) : IsGap(g) /\ truth.at <= Appended(g).at
      BY <2>2
    <3>2. Appended(g).at \in Nat /\ Journal[g] = Appended(g) /\ g \in DOMAIN Journal
      BY <1>2, <3>1, CommandTimes DEF IInv, Appended, IsGap
    <3>3. Journal[g].kind \in DoubtKinds
      BY <3>1, <3>2 DEF DoubtKinds, IsGap
    <3>4. ~(Journal[g].at > Observed(Journal))
      BY <3>2, <3>3 DEF Doubts
    <3>5. Observed(Journal) = sent[L].rec.at /\ sent[L].rec.at \in Nat
      BY <1>5, <1>6 DEF Observed
    <3>6. sent[L].rec = truth
      BY <1>1, <1>5, <1>6, <3>1, <3>2, <3>4, <3>5
    <3>. QED
      BY <1>5, <1>6, <3>6 DEF Excluded
  <2>3. \/ gapStart # NoGap /\ gapStart <= truth.at
        \/ \E g \in 1..Len(sent) : IsGap(g) /\ truth.at <= Appended(g).at
    BY <1>11 DEF IInv, GapHonesty
  <2>. QED
    BY <2>1, <2>2, <2>3
<1>. QED
  BY <1>9, <1>10, <1>11 DEF XInv, TruthInv

(* When reconstruction is certain of the cancelled objects, and anything   *)
(* was journaled after the newest set Klipper reported, it names that set, *)
(* also where the file defines no objects and the doubts are not read      *)
(* (exclude.rs is_conclusive over the journal that sender.rs leaves).      *)
THEOREM CertaintyIsTrue == Spec => []ConclusiveIsTrue
<1>1. Init => XInv
  BY XInit, SenderAssumption
<1>2. IInv /\ XInv /\ [Next]_vars => XInv'
  BY XStep, SenderAssumption
<1>3. IInv /\ XInv => ConclusiveIsTrue
  <2>. SUFFICES ASSUME IInv, XInv, NEW scan \in Scans, CarriesExclude(truth),
                       OutlivesTruth(Journal), ScanAgrees(scan), IsConclusive(Journal, scan)
                PROVE  Excluded(Journal) = truth.excl
    BY DEF ConclusiveIsTrue
  <2>1. CASE scan = "none" /\ Excluded(Journal) = {}
    BY <2>1 DEF ScanAgrees
  <2>2. CASE Journaled(Journal) /\ Doubts(Journal) = {}
    BY <2>2, TruthIsLast
  <2>. QED
    BY <2>1, <2>2 DEF IsConclusive, NothingToCancel, Excluded
<1>. QED
  BY <1>1, <1>2, <1>3, StrongInvariant, PTL DEF Spec
-----------------------------------------------------------------------------
(* The order of what is offered.  The property as a fact about any         *)
(* sequences s of commands sent, o of markers waiting and f of what was    *)
(* offered.                                                                *)
IsOwn(c) == c.op = "Append" /\ c.rec.kind \notin NotOffered
OwnIn(s) == {i \in 1..Len(s) : IsOwn(s[i])}
IsWaiting(m) == m.kind # "ExclusionUpdateLost"
WaitingIn(o) == {i \in 1..Len(o) : IsWaiting(o[i])}

InOrder(s, o, f) ==
  /\ Len(f) = Cardinality(OwnIn(s)) + Cardinality(WaitingIn(o))
  /\ \A i \in OwnIn(s) : f[Place(OwnIn(s), i)] = s[i].rec
  /\ \A i \in WaitingIn(o) : f[Cardinality(OwnIn(s)) + Place(WaitingIn(o), i)] = o[i]

LEMMA OrderIsInOrder == MarkersSurviveInOrder <=> InOrder(sent, outbox, offered)
BY DEF MarkersSurviveInOrder, OwnAppends, Waiting, InOrder, OwnIn, IsOwn, WaitingIn,
       IsWaiting, AppendAt, Appended

LEMMA OrderIsInOrderNext == MarkersSurviveInOrder' <=> InOrder(sent', outbox', offered')
BY DEF MarkersSurviveInOrder, OwnAppends, Waiting, InOrder, OwnIn, IsOwn, WaitingIn,
       IsWaiting, AppendAt, Appended

(* Places in a set of numbers.                                             *)
LEMMA PlaceRange ==
  ASSUME NEW n \in Nat, NEW S \in SUBSET (1..n)
  PROVE  /\ IsFiniteSet(S) /\ Cardinality(S) \in Nat
         /\ \A i \in S : Place(S, i) \in 1..Cardinality(S)
<1>1. IsFiniteSet(S)
  <2>1. 1 \in Int /\ n \in Int
    OBVIOUS
  <2>2. IsFiniteSet(1..n)
    BY <2>1, FS_Interval
  <2>. QED
    BY <2>2, FS_Subset
<1>2. Cardinality(S) \in Nat
  BY <1>1, FS_CardinalityType
<1>3. ASSUME NEW i \in S PROVE Place(S, i) \in 1..Cardinality(S)
  <2>. DEFINE P == {j \in S : j <= i}
  <2>1. IsFiniteSet(P) /\ Cardinality(P) <= Cardinality(S)
    BY <1>1, FS_Subset
  <2>2. Cardinality(P) \in Nat
    BY <2>1, FS_CardinalityType
  <2>3. i \in P
    OBVIOUS
  <2>4. Cardinality(P) # 0
    BY <2>1, <2>3, FS_EmptySet
  <2>. QED
    BY <1>2, <2>1, <2>2, <2>4 DEF Place
<1>. QED
  BY <1>1, <1>2, <1>3

LEMMA PlaceAppend ==
  ASSUME NEW n \in Nat, NEW S \in SUBSET (1..n)
  PROVE  LET T == S \cup {n + 1}
         IN  /\ Cardinality(T) = Cardinality(S) + 1
             /\ Place(T, n + 1) = Cardinality(T)
             /\ \A i \in S : Place(T, i) = Place(S, i)
<1>. DEFINE T == S \cup {n + 1}
<1>0. n + 1 \notin S /\ \A j \in S : j \in Nat /\ j <= n
  <2>1. \A j \in S : j \in 1..n
    OBVIOUS
  <2>. QED
    BY <2>1
<1>1. IsFiniteSet(S) /\ n + 1 \notin S
  BY <1>0, PlaceRange
<1>2. Cardinality(T) = Cardinality(S) + 1
  BY <1>1, FS_AddElement
<1>3. {j \in T : j <= n + 1} = T
  <2>1. \A j \in T : j <= n + 1
    BY <1>0
  <2>. QED
    BY <2>1
<1>4. \A i \in S : {j \in T : j <= i} = {j \in S : j <= i}
  BY <1>0
<1>. QED
  BY <1>2, <1>3, <1>4 DEF Place

(* T without its first place, each of the others one place down.           *)
Down(n, T) == {i \in 1..n : i + 1 \in T}

LEMMA ShiftedCardinality ==
  ASSUME NEW n \in Nat, NEW T \in SUBSET (2..n), NEW S,
         S = {i \in 1..n : i + 1 \in T}
  PROVE  Cardinality(S) = Cardinality(T)
<1>. DEFINE f == [i \in S |-> i + 1]
<1>1. f \in [S -> T] /\ \A i \in S : f[i] = i + 1 /\ i \in Nat
  OBVIOUS
<1>2. \A j \in T : j - 1 \in S /\ f[j - 1] = j
  <2>. SUFFICES ASSUME NEW j \in T PROVE j - 1 \in S /\ f[j - 1] = j
    OBVIOUS
  <2>1. j \in 2..n /\ j - 1 \in 1..n /\ (j - 1) + 1 = j
    OBVIOUS
  <2>. QED
    BY <2>1
<1>3. ExistsBijection(S, T)
  <2>1. f \in Bijection(S, T)
    <3>1. \A a, b \in S : f[a] = f[b] => a = b
      BY <1>1
    <3>2. f \in Surjection(S, T)
      BY <1>1, <1>2, Fun_IsSurj
    <3>3. f \in Injection(S, T)
      BY <1>1, <3>1, Fun_IsInj
    <3>. QED
      BY <3>2, <3>3 DEF Bijection
  <2>. QED
    BY <2>1 DEF ExistsBijection
<1>4. S \in SUBSET (1..n)
  OBVIOUS
<1>5. IsFiniteSet(S)
  BY <1>4, PlaceRange
<1>. QED
  BY <1>3, <1>5, FS_Bijection

LEMMA PlaceShift ==
  ASSUME NEW n \in Nat, NEW T \in SUBSET (1..n), NEW S, S = Down(n, T)
  PROVE  /\ 1 \notin T => /\ Cardinality(S) = Cardinality(T)
                          /\ \A i \in S : Place(S, i) = Place(T, i + 1)
         /\ 1 \in T => /\ Place(T, 1) = 1
                       /\ Cardinality(T) = Cardinality(S) + 1
                       /\ \A i \in S : Place(T, i + 1) = Place(S, i) + 1
<1>. DEFINE U == T \ {1}
            Up(i) == {j \in U : j <= i + 1}
            Below(i) == {j \in S : j <= i}
<1>1. U \in SUBSET (2..n) /\ S = {i \in 1..n : i + 1 \in U}
  BY DEF Down
<1>2. Cardinality(S) = Cardinality(U)
  BY <1>1, ShiftedCardinality
<1>3. \A i \in S : Cardinality(Below(i)) = Cardinality(Up(i))
  <2>. SUFFICES ASSUME NEW i \in S PROVE Cardinality(Below(i)) = Cardinality(Up(i))
    OBVIOUS
  <2>1. i \in 1..n /\ Up(i) \in SUBSET (2..n)
    BY <1>1
  <2>2. Below(i) = {j \in 1..n : j + 1 \in Up(i)}
    BY <1>1, <2>1
  <2>. QED
    BY <2>1, <2>2, ShiftedCardinality
<1>4. CASE 1 \notin T
  <2>1. U = T /\ \A i \in S : Up(i) = {j \in T : j <= i + 1}
    BY <1>4
  <2>. QED
    BY <1>2, <1>3, <1>4, <2>1 DEF Place
<1>5. CASE 1 \in T
  <2>1. /\ IsFiniteSet(U) /\ IsFiniteSet(S)
        /\ \A i \in S : IsFiniteSet(Up(i)) /\ Cardinality(Up(i)) \in Nat
    <3>1. U \in SUBSET (1..n) /\ S \in SUBSET (1..n) /\ \A i \in S : Up(i) \in SUBSET (1..n)
      BY DEF Down
    <3>. QED
      BY <3>1, PlaceRange
  <2>2. Cardinality(T) = Cardinality(U) + 1
    <3>1. 1 \notin U /\ U \cup {1} = T
      BY <1>5, Zenon
    <3>2. Cardinality(U \cup {1}) = Cardinality(U) + 1
      BY <2>1, <3>1, FS_AddElement
    <3>. QED
      BY <3>1, <3>2
  <2>3. {j \in T : j <= 1} = {1}
    <3>1. \A j \in T : j \in Nat /\ 1 <= j
      OBVIOUS
    <3>2. \A j \in T : j <= 1 <=> j = 1
      BY <3>1
    <3>. QED
      BY <1>5, <3>2
  <2>4. Cardinality({1}) = 1
    BY FS_Singleton
  <2>5. ASSUME NEW i \in S
        PROVE  Place(T, i + 1) = Place(S, i) + 1
    <3>1. i \in 1..n
      BY DEF Down
    <3>2. Up(i) \cup {1} = {j \in T : j <= i + 1}
      BY <1>5, <3>1
    <3>3. Cardinality(Up(i) \cup {1}) = Cardinality(Up(i)) + 1
      BY <2>1, FS_AddElement
    <3>. QED
      BY <1>3, <3>2, <3>3 DEF Place
  <2>. QED
    BY <1>2, <1>5, <2>2, <2>3, <2>4, <2>5 DEF Place
<1>. QED
  BY <1>4, <1>5

(* What a step does to the sequences keeps the order.                      *)
LEMMA OwnGrows ==
  ASSUME NEW s \in Seq(Command), NEW c \in Command
  PROVE  /\ OwnIn(s) \in SUBSET (1..Len(s)) /\ Len(s) \in Nat
         /\ \A i \in OwnIn(s) : Append(s, c)[i] = s[i]
         /\ Append(s, c)[Len(s) + 1] = c
         /\ ~IsOwn(c) => OwnIn(Append(s, c)) = OwnIn(s)
         /\ IsOwn(c) => OwnIn(Append(s, c)) = OwnIn(s) \cup {Len(s) + 1}
<1>1. /\ Len(s) \in Nat /\ Len(Append(s, c)) = Len(s) + 1
      /\ \A i \in 1..Len(s) : Append(s, c)[i] = s[i]
      /\ Append(s, c)[Len(s) + 1] = c
  BY AppendedSeq
<1>2. 1..(Len(s) + 1) = (1..Len(s)) \cup {Len(s) + 1}
  BY <1>1
<1>. QED
  BY <1>1, <1>2 DEF OwnIn

LEMMA WaitingGrows ==
  ASSUME NEW o \in Seq(Record), NEW m \in Record
  PROVE  /\ WaitingIn(o) \in SUBSET (1..Len(o)) /\ Len(o) \in Nat
         /\ \A i \in WaitingIn(o) : Append(o, m)[i] = o[i]
         /\ Append(o, m)[Len(o) + 1] = m
         /\ ~IsWaiting(m) => WaitingIn(Append(o, m)) = WaitingIn(o)
         /\ IsWaiting(m) => WaitingIn(Append(o, m)) = WaitingIn(o) \cup {Len(o) + 1}
<1>1. /\ Len(o) \in Nat /\ Len(Append(o, m)) = Len(o) + 1
      /\ \A i \in 1..Len(o) : Append(o, m)[i] = o[i]
      /\ Append(o, m)[Len(o) + 1] = m
  BY AppendedSeq
<1>2. 1..(Len(o) + 1) = (1..Len(o)) \cup {Len(o) + 1}
  BY <1>1
<1>. QED
  BY <1>1, <1>2 DEF WaitingIn

LEMMA WaitingShrinks ==
  ASSUME NEW o \in Seq(Record), o # <<>>
  PROVE  /\ WaitingIn(o) \in SUBSET (1..Len(o)) /\ Len(o) \in Nat
         /\ WaitingIn(Tail(o)) = Down(Len(o), WaitingIn(o))
         /\ \A i \in WaitingIn(Tail(o)) : Tail(o)[i] = o[i + 1]
         /\ 1 \in WaitingIn(o) <=> IsWaiting(Head(o))
<1>1. /\ Head(o) = o[1] /\ Len(o) \in Nat /\ 1 \in 1..Len(o)
      /\ Len(Tail(o)) = Len(o) - 1
      /\ \A i \in 1..Len(Tail(o)) : Tail(o)[i] = o[i + 1] /\ i + 1 \in 1..Len(o)
  BY TailSeq
<1>2. \A i \in 1..Len(o) : i + 1 \in 1..Len(o) <=> i \in 1..Len(Tail(o))
  BY <1>1
<1>3. WaitingIn(Tail(o)) = {i \in 1..Len(o) : i + 1 \in WaitingIn(o)}
  <2>1. \A i \in WaitingIn(Tail(o)) : i \in 1..Len(o) /\ i + 1 \in WaitingIn(o)
    <3>1. \A i \in 1..Len(Tail(o)) : i \in 1..Len(o)
      BY <1>1
    <3>. QED
      BY <1>1, <3>1 DEF WaitingIn
  <2>2. \A i \in 1..Len(o) : i + 1 \in WaitingIn(o) => i \in WaitingIn(Tail(o))
    BY <1>1, <1>2 DEF WaitingIn
  <2>. QED
    BY <2>1, <2>2
<1>. QED
  BY <1>1, <1>3 DEF WaitingIn, Down

LEMMA OrderQuiet ==
  ASSUME NEW s \in Seq(Command), NEW o \in Seq(Record), NEW f \in Seq(Record),
         InOrder(s, o, f), NEW c \in Command, ~IsOwn(c)
  PROVE  InOrder(Append(s, c), o, f)
BY OwnGrows DEF InOrder

LEMMA OrderOwn ==
  ASSUME NEW s \in Seq(Command), NEW f \in Seq(Record), InOrder(s, <<>>, f),
         NEW c \in Command, IsOwn(c)
  PROVE  InOrder(Append(s, c), <<>>, Append(f, c.rec))
<1>. DEFINE S == OwnIn(s)
            n == Len(s)
            T == S \cup {n + 1}
<1>1. /\ S \in SUBSET (1..n) /\ n \in Nat /\ OwnIn(Append(s, c)) = T
      /\ \A i \in S : Append(s, c)[i] = s[i]
      /\ Append(s, c)[n + 1] = c
  BY OwnGrows
<1>2. WaitingIn(<<>>) = {} /\ Cardinality({}) = 0
  BY FS_EmptySet DEF WaitingIn
<1>3. /\ Cardinality(S) \in Nat /\ Cardinality(T) = Cardinality(S) + 1
      /\ Place(T, n + 1) = Cardinality(T)
      /\ \A i \in S : Place(T, i) = Place(S, i) /\ Place(S, i) \in 1..Cardinality(S)
  BY <1>1, PlaceAppend, PlaceRange
<1>4. c.rec \in Record
  BY DEF Command
<1>5. /\ Len(f) = Cardinality(S) /\ Len(Append(f, c.rec)) = Len(f) + 1
      /\ \A k \in 1..Len(f) : Append(f, c.rec)[k] = f[k]
      /\ Append(f, c.rec)[Len(f) + 1] = c.rec
  <2>1. Len(f) = Cardinality(S) + 0
    BY <1>2 DEF InOrder
  <2>2. Len(f) = Cardinality(S)
    BY <1>3, <2>1
  <2>3. f \in Seq(Record)
    OBVIOUS
  <2>. HIDE DEF S
  <2>. QED
    BY <1>4, <2>2, <2>3, AppendedSeq
<1>6. \A i \in S : f[Place(S, i)] = s[i].rec
  BY DEF InOrder
<1>7. \A i \in T : Append(f, c.rec)[Place(T, i)] = Append(s, c)[i].rec
  <2>1. ASSUME NEW i \in S PROVE Append(f, c.rec)[Place(T, i)] = Append(s, c)[i].rec
    BY <1>1, <1>3, <1>5, <1>6
  <2>2. Append(f, c.rec)[Place(T, n + 1)] = Append(s, c)[n + 1].rec
    BY <1>1, <1>3, <1>5
  <2>. QED
    BY <2>1, <2>2
<1>8. Len(Append(f, c.rec)) = Cardinality(T) + Cardinality(WaitingIn(<<>>))
  <2>1. Cardinality(T) = Cardinality(T) + 0 /\ Len(Append(f, c.rec)) = Cardinality(T)
    <3>. HIDE DEF S, T
    <3>. QED
      BY <1>3, <1>5
  <2>. QED
    BY <1>2, <2>1
<1>. HIDE DEF S, T, n
<1>. QED
  BY <1>1, <1>2, <1>7, <1>8 DEF InOrder

LEMMA OrderEvidence ==
  ASSUME NEW s \in Seq(Command), NEW o \in Seq(Record), NEW f \in Seq(Record),
         InOrder(s, o, f), NEW m \in Record, ~IsWaiting(m)
  PROVE  InOrder(s, Append(o, m), f)
BY WaitingGrows DEF InOrder

LEMMA OrderQueue ==
  ASSUME NEW s \in Seq(Command), NEW o \in Seq(Record), NEW f \in Seq(Record),
         InOrder(s, o, f), NEW m \in Record, IsWaiting(m)
  PROVE  InOrder(s, Append(o, m), Append(f, m))
<1>. DEFINE S == OwnIn(s)
            A == Cardinality(S)
            W == WaitingIn(o)
            n == Len(o)
            T == W \cup {n + 1}
<1>1. /\ W \in SUBSET (1..n) /\ n \in Nat /\ WaitingIn(Append(o, m)) = T
      /\ \A i \in W : Append(o, m)[i] = o[i]
      /\ Append(o, m)[n + 1] = m
  BY WaitingGrows
<1>2. A \in Nat /\ \A i \in S : Place(S, i) \in 1..A
  <2>1. S \in SUBSET (1..Len(s)) /\ Len(s) \in Nat
    BY DEF OwnIn
  <2>. QED
    BY <2>1, PlaceRange
<1>3. /\ Cardinality(W) \in Nat /\ Cardinality(T) = Cardinality(W) + 1
      /\ Place(T, n + 1) = Cardinality(T)
      /\ \A i \in W : Place(T, i) = Place(W, i) /\ Place(W, i) \in 1..Cardinality(W)
  BY <1>1, PlaceAppend, PlaceRange
<1>4. /\ Len(f) = A + Cardinality(W) /\ Len(Append(f, m)) = Len(f) + 1
      /\ \A k \in 1..Len(f) : Append(f, m)[k] = f[k]
      /\ Append(f, m)[Len(f) + 1] = m
  <2>1. Len(f) = A + Cardinality(W)
    BY DEF InOrder
  <2>. QED
    BY <2>1, AppendedSeq
<1>5. \A i \in S : f[Place(S, i)] = s[i].rec
  BY DEF InOrder
<1>6. \A i \in W : f[A + Place(W, i)] = o[i]
  BY DEF InOrder
<1>. HIDE DEF S, A, W, n, T
<1>7. \A i \in S : Append(f, m)[Place(S, i)] = s[i].rec
  BY <1>2, <1>3, <1>4, <1>5
<1>8. \A i \in T : Append(f, m)[A + Place(T, i)] = Append(o, m)[i]
  <2>1. ASSUME NEW i \in W PROVE Append(f, m)[A + Place(T, i)] = Append(o, m)[i]
    <3>1. A + Place(W, i) \in 1..Len(f)
      BY <1>2, <1>3, <1>4
    <3>. QED
      BY <1>1, <1>3, <1>4, <1>6, <3>1
  <2>2. Append(f, m)[A + Place(T, n + 1)] = Append(o, m)[n + 1]
    BY <1>1, <1>2, <1>3, <1>4
  <2>. QED
    BY <2>1, <2>2 DEF T
<1>9. Len(Append(f, m)) = A + Cardinality(T)
  BY <1>2, <1>3, <1>4
<1>. QED
  BY <1>1, <1>7, <1>8, <1>9 DEF InOrder, S, A

(* The head of the outbox is sent: a marker of the daemon's, or evidence.  *)
LEMMA OrderFlush ==
  ASSUME NEW s \in Seq(Command), NEW o \in Seq(Record), NEW f \in Seq(Record),
         o # <<>>, InOrder(s, o, f), NEW c \in Command, c.rec = Head(o),
         IsWaiting(Head(o)) <=> IsOwn(c)
  PROVE  InOrder(Append(s, c), Tail(o), f)
<1>. DEFINE S == OwnIn(s)
            A == Cardinality(S)
            n == Len(s)
            W == WaitingIn(o)
            V == WaitingIn(Tail(o))
<1>1. /\ S \in SUBSET (1..n) /\ n \in Nat
      /\ \A i \in S : Append(s, c)[i] = s[i]
      /\ Append(s, c)[n + 1] = c
      /\ ~IsOwn(c) => OwnIn(Append(s, c)) = S
      /\ IsOwn(c) => OwnIn(Append(s, c)) = S \cup {n + 1}
  BY OwnGrows
<1>2. /\ W \in SUBSET (1..Len(o)) /\ Len(o) \in Nat
      /\ V = Down(Len(o), W)
      /\ \A i \in V : Tail(o)[i] = o[i + 1] /\ i + 1 \in W
      /\ 1 \in W <=> IsWaiting(Head(o))
  BY WaitingShrinks DEF Down
<1>3. V \in SUBSET (1..Len(o)) /\ A \in Nat /\ Cardinality(V) \in Nat
  BY <1>1, <1>2, PlaceRange DEF Down
<1>4. \A i \in V : Place(V, i) \in Nat
  <2>1. \A i \in V : Place(V, i) \in 1..Cardinality(V)
    <3>. HIDE DEF V
    <3>. QED
      BY <1>2, <1>3, PlaceRange
  <2>. QED
    BY <2>1
<1>5. Head(o) = o[1]
  BY TailSeq
<1>6. /\ Len(f) = A + Cardinality(W)
      /\ \A i \in S : f[Place(S, i)] = s[i].rec
      /\ \A i \in W : f[A + Place(W, i)] = o[i]
  BY DEF InOrder
<1>7. CASE ~IsOwn(c)
  <2>1. /\ Cardinality(V) = Cardinality(W)
        /\ \A i \in V : Place(V, i) = Place(W, i + 1)
    <3>1. 1 \notin W
      BY <1>2, <1>7
    <3>. HIDE DEF V, W
    <3>. QED
      BY <1>2, <3>1, PlaceShift
  <2>. QED
    BY <1>1, <1>2, <1>6, <1>7, <2>1 DEF InOrder
<1>8. CASE IsOwn(c)
  <2>. DEFINE T == S \cup {n + 1}
  <2>1. /\ Place(W, 1) = 1 /\ 1 \in W
        /\ Cardinality(W) = Cardinality(V) + 1
        /\ \A i \in V : Place(W, i + 1) = Place(V, i) + 1
    <3>1. 1 \in W
      BY <1>2, <1>8
    <3>. HIDE DEF V, W
    <3>. QED
      BY <1>2, <3>1, PlaceShift
  <2>2. /\ Cardinality(T) = A + 1 /\ Place(T, n + 1) = A + 1
        /\ \A i \in S : Place(T, i) = Place(S, i)
    BY <1>1, PlaceAppend
  <2>3. OwnIn(Append(s, c)) = T
    BY <1>1, <1>8
  <2>. HIDE DEF T, S, A, W, V, n
  <2>4. Len(f) = Cardinality(T) + Cardinality(V)
    BY <1>3, <1>6, <2>1, <2>2
  <2>5. \A i \in T : f[Place(T, i)] = Append(s, c)[i].rec
    <3>1. ASSUME NEW i \in S PROVE f[Place(T, i)] = Append(s, c)[i].rec
      BY <1>1, <1>6, <2>2
    <3>2. f[Place(T, n + 1)] = Append(s, c)[n + 1].rec
      BY <1>1, <1>5, <1>6, <2>1, <2>2
    <3>. QED
      BY <3>1, <3>2 DEF T
  <2>6. \A i \in V : f[Cardinality(T) + Place(V, i)] = Tail(o)[i]
    <3>. SUFFICES ASSUME NEW i \in V PROVE f[Cardinality(T) + Place(V, i)] = Tail(o)[i]
      OBVIOUS
    <3>1. Cardinality(T) + Place(V, i) = A + Place(W, i + 1)
      BY <1>3, <1>4, <2>1, <2>2
    <3>. QED
      BY <1>2, <1>6, <3>1
  <2>. QED
    BY <2>3, <2>4, <2>5, <2>6 DEF InOrder, V
<1>. QED
  BY <1>7, <1>8

-----------------------------------------------------------------------------
(* A call that flushed the outbox to its end has nothing left to overtake. *)
OrderInv ==
  /\ InOrder(sent, outbox, offered)
  /\ pc \in {"gap", "send"} => outbox = <<>>

LEMMA OrderInit == Init => OrderInv
<1>. SUFFICES ASSUME Init PROVE OrderInv
  OBVIOUS
<1>1. sent = <<>> /\ outbox = <<>> /\ offered = <<>> /\ pc = "idle"
  BY DEF Init, ChannelInit, SenderInit
<1>2. OwnIn(<<>>) = {} /\ WaitingIn(<<>>) = {} /\ Len(<<>>) = 0
  BY DEF OwnIn, WaitingIn
<1>3. Cardinality(OwnIn(<<>>)) = 0 /\ Cardinality(WaitingIn(<<>>)) = 0
  BY <1>2, FS_EmptySet
<1>4. InOrder(<<>>, <<>>, <<>>)
  <2>1. Len(<<>>) = Cardinality(OwnIn(<<>>)) + Cardinality(WaitingIn(<<>>))
    BY <1>2, <1>3
  <2>. QED
    BY <1>2, <2>1 DEF InOrder
<1>. QED
  BY <1>1, <1>4 DEF OrderInv

(* A rejected marker queues behind those that wait; a dropped record       *)
(* leaves at most its evidence there.                                      *)
LEMMA OrderReject ==
  ASSUME IInv, OrderInv, Reject
  PROVE  OrderInv'
<1>1. /\ InOrder(sent, outbox, offered) /\ cur \in Record
      /\ sent \in Seq(Command) /\ outbox \in Seq(Record) /\ offered \in Seq(Record)
  BY DEF OrderInv, IInv, TypeOK, ChannelTypeOK
<1>2. CASE IsMarker(cur)
  <2>1. /\ outbox' = Append(outbox, cur) /\ offered' = Append(offered, cur)
        /\ pc' = "idle" /\ sent' = sent
    BY <1>2 DEF Reject, QueueMarker, Idle, chanVars
  <2>2. IsWaiting(cur)
    BY <1>2 DEF IInv, CallInv, LifecycleKinds, IsWaiting
  <2>3. InOrder(sent, Append(outbox, cur), Append(offered, cur))
    BY <1>1, <2>2, OrderQueue
  <2>. QED
    BY <2>1, <2>3 DEF OrderInv
<1>3. CASE ~IsMarker(cur)
  <2>1. DropRecord
    BY <1>3 DEF Reject
  <2>2. sent' = sent /\ offered' = offered /\ pc' \notin {"gap", "send"}
    BY <2>1 DEF DropRecord, chanVars, Idle
  <2>3. CASE outbox' = outbox
    BY <1>1, <2>2, <2>3 DEF OrderInv
  <2>4. CASE outbox' # outbox
    <3>. DEFINE m == Marker("ExclusionUpdateLost", cur.at)
    <3>1. outbox' = Append(outbox, m)
      BY <2>1, <2>4 DEF DropRecord
    <3>2. m \in Record
      <4>1. cur.at \in Nat
        BY <1>1 DEF Record
      <4>. QED
        BY <4>1, RecordTypes DEF MarkerKinds
    <3>3. ~IsWaiting(m)
      BY DEF Marker, IsWaiting
    <3>4. InOrder(sent, Append(outbox, m), offered)
      BY <1>1, <3>2, <3>3, OrderEvidence
    <3>. QED
      BY <2>2, <3>1, <3>4 DEF OrderInv
  <2>. QED
    BY <2>3, <2>4
<1>. QED
  BY <1>2, <1>3

(* A command that is not the daemon's own goes anywhere in between.        *)
LEMMA OrderQuietStep ==
  ASSUME IInv, OrderInv, NEW c \in Command, ~IsOwn(c), sent' = Append(sent, c),
         UNCHANGED <<outbox, offered>>, pc' \in {"gap", "send"} => pc \in {"gap", "send"}
  PROVE  OrderInv'
<1>1. /\ InOrder(sent, outbox, offered)
      /\ sent \in Seq(Command) /\ outbox \in Seq(Record) /\ offered \in Seq(Record)
  BY DEF OrderInv, IInv, TypeOK, ChannelTypeOK
<1>2. InOrder(Append(sent, c), outbox, offered)
  BY <1>1, OrderQuiet
<1>. QED
  BY <1>2 DEF OrderInv

LEMMA OrderStep == SenderAssumption /\ IInv /\ OrderInv /\ [Next]_vars => OrderInv'
<1>. SUFFICES ASSUME SenderAssumption, IInv, OrderInv, [Next]_vars
              PROVE  OrderInv'
  OBVIOUS
<1>t. /\ InOrder(sent, outbox, offered) /\ cur \in Record /\ policy \in SyncPolicy
      /\ sent \in Seq(Command) /\ outbox \in Seq(Record) /\ offered \in Seq(Record)
      /\ now \in Nat
  BY DEF OrderInv, IInv, TypeOK, ChannelTypeOK
<1>1. CASE Calls
  <2>1. UNCHANGED <<sent, outbox, offered>> /\ pc' = "flush"
    BY <1>1 DEF Calls, BeginRecord, BeginMarker, BeginCall, chanVars
  <2>. QED
    BY <1>t, <2>1 DEF OrderInv
<1>2. CASE Samples
  <2>1. PICK cmd \in Command : OfferSample(cmd) /\ cmd.op # "Append"
    BY <1>2, <1>t, CommandTypes DEF Samples, HeartbeatCmd, ReceiveSeqCmd
  <2>2. UNCHANGED <<outbox, offered, pc>>
    BY <2>1 DEF OfferSample
  <2>3. CASE Full
    BY <1>t, <2>1, <2>2, <2>3 DEF OfferSample, OrderInv, chanVars
  <2>4. CASE ~Full
    <3>1. sent' = Append(sent, cmd)
      BY <2>1, <2>4 DEF OfferSample, Send
    <3>2. ~IsOwn(cmd)
      BY <2>1 DEF IsOwn
    <3>. QED
      BY <2>2, <3>1, <3>2, OrderQuietStep
  <2>. QED
    BY <2>3, <2>4
<1>3. CASE FlushOne
  <2>1. /\ outbox # <<>> /\ outbox' = Tail(outbox) /\ offered' = offered /\ pc' = pc
        /\ pc \in {"flush", "lossFlush"} /\ sent' = Append(sent, MarkerCmd(Head(outbox)))
    BY <1>3 DEF FlushOne, Send
  <2>2. /\ Head(outbox) \in Record
        /\ Head(outbox).kind \in LifecycleKinds \cup {"ExclusionUpdateLost"}
    <3>1. Head(outbox) \in Record /\ Head(outbox) = outbox[1] /\ 1 \in 1..Len(outbox)
      BY <1>t, <2>1, TailSeq
    <3>. QED
      BY <3>1 DEF IInv, OutboxInv
  <2>3. /\ MarkerCmd(Head(outbox)) \in Command
        /\ MarkerCmd(Head(outbox)).rec = Head(outbox)
        /\ MarkerCmd(Head(outbox)).op = "Append"
    BY <2>2, CommandTypes DEF MarkerCmd, AppendCmd
  <2>4. IsWaiting(Head(outbox)) <=> IsOwn(MarkerCmd(Head(outbox)))
    BY <2>2, <2>3 DEF IsWaiting, IsOwn, LifecycleKinds, NotOffered
  <2>5. InOrder(Append(sent, MarkerCmd(Head(outbox))), Tail(outbox), offered)
    BY <1>t, <2>1, <2>3, <2>4, OrderFlush
  <2>. QED
    BY <2>1, <2>5 DEF OrderInv
<1>4. CASE FlushEnd
  <2>1. CASE outbox # <<>>
    BY <1>4, <2>1, OrderReject DEF FlushEnd, Backlog
  <2>2. CASE outbox = <<>>
    BY <1>4, <1>t, <2>2 DEF FlushEnd, Backlog, chanVars, OrderInv
  <2>. QED
    BY <2>1, <2>2
<1>5. CASE LossFlushEnd \/ HangUp \/ Take \/ ThreadDies \/ UNCHANGED vars
  <2>1. UNCHANGED <<sent, outbox, offered>> /\ pc' \in {pc, "idle", "gone"}
    BY <1>5 DEF LossFlushEnd, HangUp, Take, ThreadDies, Idle, vars, senderVars, chanVars
  <2>. QED
    BY <1>t, <2>1 DEF OrderInv
<1>6. CASE CloseGap
  <2>1. CASE Full
    <3>1. DropRecord /\ pc = "gap"
      BY <1>6, <2>1 DEF CloseGap
    <3>2. ~IsMarker(cur)
      BY <3>1 DEF IInv, CallInv, IsOffered, IsMarker, MarkerKinds, LifecycleKinds
    <3>. QED
      BY <3>1, <3>2, OrderReject DEF Reject
  <2>2. CASE ~Full
    <3>. DEFINE m == GapMarker(gapStart, cur.at)
    <3>1. /\ sent' = Append(sent, MarkerCmd(m)) /\ pc = "gap"
          /\ UNCHANGED <<outbox, offered>>
      BY <1>6, <2>2 DEF CloseGap, Send
    <3>2. gapStart \in Nat /\ cur.at \in Nat
      BY <1>t, <3>1 DEF IInv, CallInv, TypeOK, Record
    <3>3. m \in Record /\ m.kind = "SubscriptionGap"
      BY <3>2, RecordTypes DEF GapMarker
    <3>4. MarkerCmd(m) \in Command /\ MarkerCmd(m).rec = m
      BY <3>3, CommandTypes DEF MarkerCmd, AppendCmd
    <3>. HIDE DEF m
    <3>5. ~IsOwn(MarkerCmd(m))
      BY <3>3, <3>4 DEF IsOwn, NotOffered
    <3>. QED
      BY <3>1, <3>4, <3>5, OrderQuietStep
  <2>. QED
    BY <2>1, <2>2
<1>7. CASE Offer
  <2>1. CASE Full
    BY <1>7, <2>1, OrderReject DEF Offer
  <2>2. CASE ~Full
    <3>. DEFINE c == AppendCmd(cur, policy)
    <3>1. /\ sent' = Append(sent, c) /\ offered' = Append(offered, cur)
          /\ pc' = "idle" /\ outbox' = outbox /\ pc = "send"
      BY <1>7, <2>2 DEF Offer, Send, Idle
    <3>2. c \in Command /\ c.op = "Append" /\ c.rec = cur
      BY <1>t, CommandTypes DEF AppendCmd
    <3>3. IsOwn(c)
      <4>1. cur.kind \notin NotOffered
        BY <1>t DEF IInv, CallInv, IsMarker, MarkerKinds, LifecycleKinds, NotOffered, Record
      <4>. QED
        BY <3>2, <4>1 DEF IsOwn
    <3>4. outbox = <<>>
      BY <3>1 DEF OrderInv
    <3>. HIDE DEF c
    <3>5. InOrder(Append(sent, c), <<>>, Append(offered, c.rec))
      BY <1>t, <3>2, <3>3, <3>4, OrderOwn
    <3>. QED
      BY <3>1, <3>2, <3>4, <3>5 DEF OrderInv
  <2>. QED
    BY <2>1, <2>2
<1>8. CASE Shutdown
  <2>1. ShutdownCmd \in Command /\ ~IsOwn(ShutdownCmd)
    BY CommandTypes DEF ShutdownCmd, IsOwn
  <2>2. /\ sent' = Append(sent, ShutdownCmd) /\ pc' = "stopped"
        /\ UNCHANGED <<outbox, offered>>
    BY <1>8 DEF Shutdown, Send
  <2>. QED
    BY <2>1, <2>2, OrderQuietStep
<1>9. CASE Watch
  <2>. DEFINE m == Marker("PowerFailing", now)
  <2>1. m \in Record /\ m.kind = "PowerFailing"
    BY <1>t, RecordTypes DEF MarkerKinds, Marker
  <2>2. MarkerCmd(m) \in Command /\ MarkerCmd(m).rec = m
    BY <2>1, CommandTypes DEF MarkerCmd, AppendCmd
  <2>3. sent' = Append(sent, MarkerCmd(m)) /\ UNCHANGED <<outbox, offered, pc>>
    BY <1>9 DEF Watch, Send, senderVars
  <2>. HIDE DEF m
  <2>4. ~IsOwn(MarkerCmd(m))
    BY <2>1, <2>2 DEF IsOwn, NotOffered
  <2>. QED
    BY <2>2, <2>3, <2>4, OrderQuietStep
<1>. QED
  BY <1>1, <1>2, <1>3, <1>4, <1>5, <1>6, <1>7, <1>8, <1>9 DEF Next, SenderNext, Progress

(* Accepted records and lifecycle markers leave in the order the daemon    *)
(* offered them, and a marker that found no room is still queued behind    *)
(* them (sender.rs flush_outbox, send_marker): none is lost or overtaken.  *)
THEOREM MarkersAreKept == Spec => []MarkersSurviveInOrder
<1>1. Init => OrderInv
  BY OrderInit
<1>2. IInv /\ OrderInv /\ [Next]_vars => OrderInv'
  BY OrderStep, SenderAssumption
<1>3. OrderInv => MarkersSurviveInOrder
  BY OrderIsInOrder DEF OrderInv
<1>. QED
  BY <1>1, <1>2, <1>3, StrongInvariant, PTL DEF Spec
=============================================================================
