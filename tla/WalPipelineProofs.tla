-------------------------- MODULE WalPipelineProofs --------------------------
(***************************************************************************)
(* Proofs about WalPipeline, for every channel capacity, rotation size and *)
(* number of calls: the composition does nothing its two sides do not, and *)
(* what WalSenderProofs shows of the channel carries over to the records   *)
(* the thread appends, wherever power is lost.                             *)
(***************************************************************************)
EXTENDS WalPipeline, SequenceTheorems, TLAPS

SP == INSTANCE WalSenderProofs

-----------------------------------------------------------------------------
(* The thread runs once, and while it has not returned the channel is up.  *)
RunInv ==
  /\ svc # "down" => session = 1 /\ result = "running"
  /\ svc = "down" /\ result = "running" => session = 0
  /\ result = "running" => rxAlive

LEMMA RunInit == Init => RunInv
BY DEF Init, RunInv, S!Init, S!ChannelInit, W!Init

LEMMA TakeRuns ==
  ASSUME Take PROVE svc = "run" /\ svc' # "down" /\ UNCHANGED session
BY DEF Take, W!Handle, W!HandleAppend, W!SkipAppend, W!HandleHeartbeat,
   W!HandleReceiveSeq, W!HandleShutdown, W!WriteRecord, W!AfterWrite, W!vars

LEMMA WorkSession ==
  ASSUME W!Boot \/ W!Work \/ W!BatchSync \/ W!Tick
  PROVE  IF svc = "down" THEN session' = session + 1 /\ svc' = "init"
         ELSE UNCHANGED session
BY DEF W!Boot, W!Work, W!BatchSync, W!Tick, W!BootDirSync, W!SyncNow, W!CloseDown,
   W!CheckRotate, W!RotateSync, W!RotateCreate, W!RotateDirSync, W!ForceBeat,
   W!RecordBeat, W!SyncSegment, W!WriteBeat, W!WriteRecord

LEMMA RunStep == ASSUME RunInv, [Next]_vars PROVE RunInv'
<1>1. CASE SocketSide \/ Watch
  <2>1. rxAlive' = rxAlive /\ svc' = svc /\ session' = session /\ result' = result
    BY <1>1 DEF SocketSide, Watch, serviceVars, threadVars, S!SenderNext, S!Calls,
       S!Samples, S!Progress, S!BeginRecord, S!BeginMarker, S!FlushOne, S!FlushEnd,
       S!LossFlushEnd, S!CloseGap, S!Offer, S!OfferSample, S!Shutdown, S!HangUp,
       S!Reject, S!QueueMarker, S!DropRecord, S!Watch, S!Send, S!chanVars
  <2>. QED
    BY Zenon, <2>1 DEF RunInv
<1>2. CASE Take
  BY <1>2, TakeRuns DEF Take, RunInv
<1>3. CASE Work
  <2>1. rxAlive' <=> svc' # "down"
    BY <1>3, Zenon DEF Work, Returns, HoldsReceiver
  <2>2. result = "running" /\ result' = IF svc' = "down" THEN "ok" ELSE "running"
    BY <1>3 DEF Work, Returns
  <2>3. session' = 1
    BY <1>3, <2>2, WorkSession DEF Work, RunInv
  <2>. QED
    BY <2>1, <2>2, <2>3 DEF RunInv
<1>4. CASE FatalError
  BY <1>4 DEF FatalError, RunInv, Returns, HoldsReceiver, W!ThreadExit
<1>5. CASE UNCHANGED vars
  BY <1>5 DEF vars, chanVars, serviceVars, threadVars, RunInv
<1>. QED
  BY <1>1, <1>2, <1>3, <1>4, <1>5 DEF Next

LEMMA RunInvariant == Spec => []RunInv
BY RunInit, RunStep, PTL DEF Spec

-----------------------------------------------------------------------------
(* To the sender, the thread takes commands and hangs up.                  *)
LEMMA SenderSideStep == ASSUME RunInv, [Next]_vars PROVE [S!Next]_(S!vars)
<1>1. CASE SocketSide
  BY <1>1 DEF SocketSide, S!Next
<1>2. CASE Watch
  BY <1>2 DEF Watch, S!Next
<1>3. CASE Take
  <2>1. rxAlive
    BY <1>3, TakeRuns DEF RunInv
  <2>2. S!Take
    BY <1>3, <2>1 DEF Take, S!Take, S!Empty, Empty, socketVars, S!senderVars
  <2>. QED
    BY <2>2 DEF S!Next
<1>4. CASE Work
  <2>1. CASE rxAlive'
    BY <1>4, <2>1 DEF Work, RunInv, Returns, HoldsReceiver, socketVars, S!vars,
       S!senderVars, S!chanVars
  <2>2. CASE ~rxAlive'
    <3>1. S!ThreadDies
      BY <1>4, <2>2 DEF Work, RunInv, Returns, HoldsReceiver, socketVars,
         S!senderVars, S!ThreadDies
    <3>. QED
      BY <3>1 DEF S!Next
  <2>. QED
    BY <2>1, <2>2
<1>5. CASE FatalError
  <2>1. S!ThreadDies
    BY <1>5 DEF FatalError, RunInv, Returns, HoldsReceiver, W!ThreadExit, socketVars,
       S!senderVars, S!ThreadDies
  <2>. QED
    BY <2>1 DEF S!Next
<1>6. CASE UNCHANGED vars
  BY <1>6 DEF vars, chanVars, socketVars, S!vars, S!senderVars, S!chanVars
<1>. QED
  BY <1>1, <1>2, <1>3, <1>4, <1>5, <1>6 DEF Next

LEMMA ImplementsSender == Spec => S!Spec
<1>1. Init => S!Init
  BY DEF Init
<1>. QED
  BY <1>1, SenderSideStep, RunInvariant, PTL DEF Spec, S!Spec

(* WalSenderProofs speaks of the same sender.                              *)
LEMMA SenderAssumptions ==
  SP!RecordAssumption /\ SP!ChannelAssumption /\ SP!SenderAssumption
BY RecordAssumption, ChannelAssumption, PipelineAssumption
   DEF SP!RecordAssumption, SP!ChannelAssumption, SP!SenderAssumption,
       SP!LifecycleKinds, LifecycleKinds

LEMMA SameInit == S!Init => SP!Init
BY DEF S!Init, S!ChannelInit, S!SenderInit, S!NoRecord, S!Motion,
         SP!Init, SP!ChannelInit, SP!SenderInit, SP!NoRecord, SP!Motion

LEMMA SameNext == S!Next => SP!Next
BY Zenon
   DEF S!Definitions, SP!Definitions, S!LifecycleKinds, S!MarkerKinds, S!Motion, S!Context, S!Marker,
         S!GapMarker, S!NoRecord, S!AppendCmd, S!HeartbeatCmd,
         S!ReceiveSeqCmd, S!ShutdownCmd, S!MarkerCmd, S!IsMarker,
         S!IsOffered, S!chanVars, S!Full, S!Empty, S!Send, S!AppendAt,
         S!senderVars, S!CarriesExclude, S!ChangesExclusion,
         S!BeginCall, S!BeginRecord, S!BeginMarker, S!Idle, S!GapOpened,
         S!MarksLoss, S!DropRecord, S!QueueMarker, S!Reject, S!callVars,
         S!FlushOne, S!FlushIsOver, S!Backlog, S!AfterFlush, S!FlushEnd,
         S!LossFlushEnd, S!GapClosed, S!CloseGap, S!LossStillPending,
         S!Offer, S!OfferSample, S!Shutdown, S!HangUp, S!Times,
         S!FirstOfMessage, S!Calls, S!Samples, S!Progress, S!SenderNext,
         S!Take, S!ThreadDies, S!Watch, S!Next, SP!LifecycleKinds,
         SP!MarkerKinds, SP!Motion, SP!Context, SP!Marker, SP!GapMarker,
         SP!NoRecord, SP!AppendCmd, SP!HeartbeatCmd, SP!ReceiveSeqCmd,
         SP!ShutdownCmd, SP!MarkerCmd, SP!IsMarker, SP!IsOffered,
         SP!chanVars, SP!Full, SP!Empty, SP!Send, SP!AppendAt,
         SP!senderVars, SP!CarriesExclude, SP!ChangesExclusion,
         SP!BeginCall, SP!BeginRecord, SP!BeginMarker, SP!Idle,
         SP!GapOpened, SP!MarksLoss, SP!DropRecord, SP!QueueMarker,
         SP!Reject, SP!callVars, SP!FlushOne, SP!FlushIsOver,
         SP!Backlog, SP!AfterFlush, SP!FlushEnd, SP!LossFlushEnd,
         SP!GapClosed, SP!CloseGap, SP!LossStillPending, SP!Offer,
         SP!OfferSample, SP!Shutdown, SP!HangUp, SP!Times,
         SP!FirstOfMessage, SP!Calls, SP!Samples, SP!Progress,
         SP!SenderNext, SP!Take, SP!ThreadDies, SP!Watch, SP!Next

LEMMA SameSender == S!Spec => SP!Spec
<1>1. [S!Next]_(S!vars) => [SP!Next]_(SP!vars)
  <2>1. UNCHANGED S!vars => UNCHANGED SP!vars
    BY DEF S!vars, SP!vars, S!chanVars, SP!chanVars, S!senderVars, SP!senderVars
  <2>. QED
    BY <2>1, SameNext
<1>. QED
  BY <1>1, SameInit, PTL DEF S!Spec, SP!Spec

-----------------------------------------------------------------------------
(* What is known of the sender: its call and outbox hold no PowerFailing,  *)
(* and what WalSenderProofs shows of the channel.                          *)
OutboxKinds == LifecycleKinds \cup {"ExclusionUpdateLost"}
GapAt(i) == AppendAt(i) /\ sent[i].rec.kind = "SubscriptionGap"
RecordAt(i) == AppendAt(i) /\ IsOffered(sent[i].rec)
SenderFacts ==
  /\ sent \in Seq(Command) /\ taken \in Nat /\ now \in Nat
  /\ cur.kind # "PowerFailing"
  /\ outbox \in Seq(Record)
  /\ \A i \in 1..Len(outbox) : outbox[i].kind \in OutboxKinds
  /\ \A t \in dropped :
       \/ gapStart # NoGap /\ gapStart <= t
       \/ \E i \in 1..Len(sent) : GapAt(i) /\ sent[i].rec.from <= t /\ t <= sent[i].rec.at
  /\ \A i, j \in 1..Len(sent) :
       GapAt(i) /\ RecordAt(j) =>
         IF j < i THEN sent[j].rec.at <= sent[i].rec.from
                  ELSE sent[i].rec.at <= sent[j].rec.at
  /\ gapStart # NoGap =>
       \A i \in 1..Len(sent) : RecordAt(i) => sent[i].rec.at <= gapStart
  /\ dropped \subseteq Nat /\ gapStart \in Nat \cup {NoGap}

LEMMA SenderKnows == Spec => []SenderFacts
<1>1. SP!IInv => SenderFacts
  <2> SUFFICES ASSUME SP!IInv PROVE SenderFacts
    OBVIOUS
  <2>1. SP!Record = Record /\ SP!Command = Command
    BY DEF SP!Record, Record, SP!Command, Command, SP!MarkerKinds, MarkerKinds,
       SP!LifecycleKinds, LifecycleKinds, SP!SyncPolicy, SyncPolicy,
       SP!Definitions, Definitions
  <2>2. /\ sent \in Seq(Command) /\ taken \in Nat /\ now \in Nat /\ outbox \in Seq(Record)
        /\ dropped \subseteq Nat /\ gapStart \in Nat \cup {NoGap}
    BY <2>1 DEF SP!IInv, SP!TypeOK, SP!ChannelTypeOK
  <2>3. cur.kind # "PowerFailing"
    BY DEF SP!IInv, SP!CallInv, SP!IsMarker, SP!MarkerKinds, SP!LifecycleKinds
  <2>4. \A i \in 1..Len(outbox) : outbox[i].kind \in OutboxKinds
    BY DEF SP!IInv, SP!OutboxInv, SP!LifecycleKinds, LifecycleKinds, OutboxKinds
  <2>5. \A i : (SP!AppendAt(i) <=> AppendAt(i)) /\ SP!Appended(i) = sent[i].rec
               /\ (SP!IsGap(i) <=> GapAt(i))
    BY DEF SP!AppendAt, AppendAt, SP!Appended, SP!IsGap, GapAt
  <2>6. \A i : SP!AppendAt(i) /\ SP!IsOffered(SP!Appended(i)) <=> RecordAt(i)
    BY <2>5 DEF RecordAt, SP!IsOffered, IsOffered
  <2>7. \A t \in dropped :
       \/ gapStart # NoGap /\ gapStart <= t
       \/ \E i \in 1..Len(sent) : GapAt(i) /\ sent[i].rec.from <= t /\ t <= sent[i].rec.at
    BY <2>5 DEF SP!IInv, SP!GapHonesty
  <2>8. \A i, j \in 1..Len(sent) :
       GapAt(i) /\ RecordAt(j) =>
         IF j < i THEN sent[j].rec.at <= sent[i].rec.from
                  ELSE sent[i].rec.at <= sent[j].rec.at
    BY <2>5, <2>6 DEF SP!IInv, SP!GapClaimsOnlyTheLoss
  <2>9. gapStart # NoGap =>
       \A i \in 1..Len(sent) : RecordAt(i) => sent[i].rec.at <= gapStart
    BY <2>5, <2>6 DEF SP!IInv, SP!NoRecordInsideOpenGap
  <2>. QED
    BY <2>2, <2>3, <2>4, <2>7, <2>8, <2>9 DEF SenderFacts
<1>2. SP!Spec => []SP!IInv
  BY SP!StrongInvariant, SenderAssumptions
<1>. QED
  BY <1>1, <1>2, ImplementsSender, SameSender, PTL

-----------------------------------------------------------------------------
(* The channel: one PowerFailing at most, and nothing else behind the      *)
(* sender's Shutdown.                                                      *)
Fails(i) == sent[i].rec.kind = "PowerFailing"
ChannelInv ==
  /\ taken <= Len(sent)
  /\ \A i, j \in 1..Len(sent) : Fails(i) /\ Fails(j) => i = j
  /\ \A i \in 1..Len(sent) : Fails(i) => sent[i].op = "Append" /\ sent[i].sync = "Immediate"
  /\ \A i, j \in 1..Len(sent) : i < j /\ sent[i].op = "Shutdown" => Fails(j)
  /\ \A i \in 1..Len(sent) : sent[i].op = "Shutdown" => pc = "stopped"

Sends(cmd) == sent' = Append(sent, cmd) /\ taken' = taken

LEMMA SenderSends ==
  ASSUME SenderFacts, S!SenderNext
  PROVE  \/ sent' = sent /\ taken' = taken /\ (pc = "stopped" => pc' = "stopped")
         \/ \E cmd : /\ Sends(cmd) /\ cmd.rec.kind # "PowerFailing"
                     /\ pc # "stopped" /\ (cmd.op = "Shutdown" => pc' = "stopped")
<1>1. CASE S!Calls
  BY <1>1 DEF S!Calls, S!BeginRecord, S!BeginMarker, S!BeginCall, S!chanVars
<1>2. CASE S!Samples
  <2>1. PICK cmd : S!OfferSample(cmd) /\ cmd.rec.kind = "motion" /\ cmd.op # "Shutdown"
    <3>1. \A d : S!HeartbeatCmd(d).rec.kind = "motion" /\ S!HeartbeatCmd(d).op # "Shutdown"
      BY DEF S!HeartbeatCmd, S!NoRecord, S!Motion
    <3>2. \A t : S!ReceiveSeqCmd(t).rec.kind = "motion" /\ S!ReceiveSeqCmd(t).op # "Shutdown"
      BY DEF S!ReceiveSeqCmd, S!Motion
    <3>. QED
      BY <1>2, <3>1, <3>2, Zenon DEF S!Samples
  <2>2. CASE S!Full
    BY <2>1, <2>2 DEF S!OfferSample, S!chanVars
  <2>3. CASE ~S!Full
    <3>1. Sends(cmd) /\ pc # "stopped"
      BY <2>1, <2>3 DEF S!OfferSample, S!Send, Sends
    <3>. QED
      BY <2>1, <3>1
  <2>. QED
    BY <2>2, <2>3
<1>3. CASE S!FlushOne
  <2>1. Head(outbox).kind # "PowerFailing"
    <3>1. outbox # <<>> /\ outbox \in Seq(Record)
      BY <1>3 DEF S!FlushOne, SenderFacts
    <3>2. 1 \in 1..Len(outbox) /\ Head(outbox) = outbox[1]
      BY <3>1
    <3>. QED
      BY <3>2 DEF SenderFacts, OutboxKinds, LifecycleKinds
  <2>2. LET cmd == S!MarkerCmd(Head(outbox)) IN
        Sends(cmd) /\ cmd.rec = Head(outbox) /\ cmd.op = "Append" /\ pc # "stopped"
    BY <1>3 DEF S!FlushOne, S!Send, S!MarkerCmd, S!AppendCmd, Sends
  <2>. QED
    BY <2>1, <2>2
<1>4. CASE S!FlushEnd
  BY <1>4 DEF S!FlushEnd, S!Reject, S!QueueMarker, S!DropRecord, S!chanVars
<1>5. CASE S!LossFlushEnd
  BY <1>5 DEF S!LossFlushEnd, S!chanVars
<1>6. CASE S!CloseGap
  <2>1. CASE S!Full
    BY <1>6, <2>1 DEF S!CloseGap, S!DropRecord, S!chanVars
  <2>2. CASE ~S!Full
    <3>1. LET cmd == S!MarkerCmd(S!GapMarker(gapStart, cur.at)) IN
          /\ Sends(cmd) /\ cmd.rec.kind = "SubscriptionGap" /\ cmd.op = "Append"
          /\ pc # "stopped"
      BY <1>6, <2>2 DEF S!CloseGap, S!Send, S!MarkerCmd, S!AppendCmd, S!GapMarker, Sends
    <3>. QED
      BY <3>1, Zenon
  <2>. QED
    BY <2>1, <2>2
<1>7. CASE S!Offer
  <2>1. CASE S!Full
    BY <1>7, <2>1 DEF S!Offer, S!Reject, S!QueueMarker, S!DropRecord, S!chanVars
  <2>2. CASE ~S!Full
    <3>1. LET cmd == S!AppendCmd(cur, policy) IN
          Sends(cmd) /\ cmd.rec = cur /\ cmd.op = "Append" /\ pc # "stopped"
      BY <1>7, <2>2 DEF S!Offer, S!Send, S!AppendCmd, Sends
    <3>. QED
      BY <3>1 DEF SenderFacts
  <2>. QED
    BY <2>1, <2>2
<1>8. CASE S!Shutdown
  <2>1. LET cmd == S!ShutdownCmd IN
        Sends(cmd) /\ cmd.rec.kind = "motion" /\ pc # "stopped" /\ pc' = "stopped"
    BY <1>8 DEF S!Shutdown, S!Send, S!ShutdownCmd, S!NoRecord, S!Motion, Sends
  <2>. QED
    BY <2>1
<1>9. CASE S!HangUp
  BY <1>9 DEF S!HangUp, S!chanVars
<1>. QED
  BY <1>1, <1>2, <1>3, <1>4, <1>5, <1>6, <1>7, <1>8, <1>9 DEF S!SenderNext, S!Progress

LEMMA WatcherSends ==
  ASSUME S!Watch
  PROVE  /\ Sends(MarkerCmd(Marker("PowerFailing", now)))
         /\ \A i \in 1..Len(sent) : ~Fails(i)
         /\ pc' = pc
BY DEF S!Watch, S!Send, Sends, S!MarkerCmd, S!AppendCmd, S!Marker, MarkerCmd, AppendCmd,
   Marker, Fails, S!senderVars

(* What the channel holds after one more command.                          *)
LEMMA OneMore ==
  ASSUME SenderFacts, NEW cmd, Sends(cmd), SenderFacts'
  PROVE  /\ Len(sent') = Len(sent) + 1
         /\ sent'[Len(sent) + 1] = cmd
         /\ \A i \in 1..Len(sent) : sent'[i] = sent[i]
         /\ \A i \in 1..Len(sent') : i \in 1..Len(sent) \/ i = Len(sent) + 1
         /\ Len(sent) \in Nat /\ taken' = taken
BY DEF SenderFacts, Sends

LEMMA ChannelStep ==
  ASSUME SenderFacts, SenderFacts', ChannelInv, [Next]_vars PROVE ChannelInv'
<1>1. CASE SocketSide
  <2>1. CASE sent' = sent /\ taken' = taken /\ (pc = "stopped" => pc' = "stopped")
    BY <2>1 DEF ChannelInv, Fails
  <2>2. CASE \E cmd : /\ Sends(cmd) /\ cmd.rec.kind # "PowerFailing"
                      /\ pc # "stopped" /\ (cmd.op = "Shutdown" => pc' = "stopped")
    <3>1. PICK cmd : /\ Sends(cmd) /\ cmd.rec.kind # "PowerFailing"
                     /\ pc # "stopped" /\ (cmd.op = "Shutdown" => pc' = "stopped")
      BY <2>2
    <3>2. \A i \in 1..Len(sent') : Fails(i)' => i \in 1..Len(sent) /\ Fails(i)
      BY <3>1, OneMore DEF Fails
    <3>3. \A i \in 1..Len(sent) : sent[i].op # "Shutdown"
      BY <3>1 DEF ChannelInv
    <3>4. taken' <= Len(sent')
      <4>1. taken' = taken /\ Len(sent') = Len(sent) + 1 /\ Len(sent) \in Nat
        BY <3>1, OneMore
      <4>2. taken <= Len(sent) /\ taken \in Nat
        BY DEF ChannelInv, SenderFacts
      <4>. QED
        BY <4>1, <4>2
    <3>5. \A i, j \in 1..Len(sent') : i < j => sent'[i].op # "Shutdown"
      BY <3>1, <3>3, OneMore
    <3>6. \A i \in 1..Len(sent') : sent'[i].op = "Shutdown" => pc' = "stopped"
      BY <3>1, <3>3, OneMore
    <3>7. \A i \in 1..Len(sent) : sent'[i] = sent[i]
      BY <3>1, OneMore
    <3>. QED
      BY <3>2, <3>4, <3>5, <3>6, <3>7 DEF ChannelInv
  <2>. QED
    BY <1>1, <2>1, <2>2, SenderSends DEF SocketSide
<1>2. CASE Watch
  <2>. DEFINE cmd == MarkerCmd(Marker("PowerFailing", now))
  <2>1. /\ Sends(cmd) /\ (\A i \in 1..Len(sent) : ~Fails(i)) /\ pc' = pc
    BY <1>2, WatcherSends DEF Watch
  <2>2. cmd.rec.kind = "PowerFailing" /\ cmd.op = "Append" /\ cmd.sync = "Immediate"
    BY DEF MarkerCmd, AppendCmd, Marker
  <2>. HIDE DEF cmd
  <2>3. \A i \in 1..Len(sent') : Fails(i)' <=> i = Len(sent) + 1
    BY <2>1, <2>2, OneMore DEF Fails
  <2>4. taken' <= Len(sent')
    <3>1. taken' = taken /\ Len(sent') = Len(sent) + 1 /\ Len(sent) \in Nat
      BY <2>1, OneMore
    <3>2. taken <= Len(sent) /\ taken \in Nat
      BY DEF ChannelInv, SenderFacts
    <3>. QED
      BY <3>1, <3>2
  <2>5. \A i, j \in 1..Len(sent') : i < j /\ sent'[i].op = "Shutdown" => Fails(j)'
    <3>. SUFFICES ASSUME NEW i \in 1..Len(sent'), NEW j \in 1..Len(sent'),
                         i < j, sent'[i].op = "Shutdown"
                  PROVE  j = Len(sent) + 1
      BY <2>3
    <3>1. Len(sent') = Len(sent) + 1 /\ Len(sent) \in Nat
      BY <2>1, OneMore
    <3>2. i \in 1..Len(sent) /\ sent[i].op = "Shutdown"
      <4>1. i \in 1..Len(sent)
        BY <3>1
      <4>. QED
        BY <4>1, <2>1, OneMore
    <3>3. ASSUME j \in 1..Len(sent) PROVE FALSE
      <4>1. Fails(j)
        BY <3>2, <3>3 DEF ChannelInv
      <4>. QED
        BY <4>1, <3>3, <2>1
    <3>. QED
      BY <3>1, <3>3
  <2>6. \A i \in 1..Len(sent') : sent'[i].op = "Shutdown" => pc' = "stopped"
    BY <2>1, <2>2, OneMore DEF ChannelInv
  <2>7. \A i \in 1..Len(sent') :
          Fails(i)' => sent'[i].op = "Append" /\ sent'[i].sync = "Immediate"
    BY <2>1, <2>2, <2>3, OneMore
  <2>. QED
    BY <2>3, <2>4, <2>5, <2>6, <2>7 DEF ChannelInv
<1>3. CASE Take
  <2>1. sent' = sent /\ pc' = pc /\ taken' = taken + 1 /\ taken # Len(sent)
    BY <1>3 DEF Take, socketVars, Empty
  <2>. QED
    BY <2>1 DEF ChannelInv, Fails, SenderFacts
<1>4. CASE Work \/ FatalError \/ UNCHANGED vars
  <2>1. sent' = sent /\ pc' = pc /\ taken' = taken
    BY <1>4 DEF Work, FatalError, vars, chanVars, socketVars
  <2>. QED
    BY <2>1 DEF ChannelInv, Fails
<1>. QED
  BY <1>1, <1>2, <1>3, <1>4 DEF Next

-----------------------------------------------------------------------------
(* The thread: its stream is what it appended, a beat is forced only for a *)
(* PowerFailing it took, and it ends well only after the sender's Shutdown.*)
Counts == [1..MaxSessions -> Nat]
ThreadInv ==
  /\ appended \in Counts /\ promised \in Counts
  /\ stream \in Seq(Record) /\ appended[1] = Len(stream)
  /\ pfAppend = TRUE \/ pfSeen = TRUE \/ svc = "force" => \E i \in 1..taken : Fails(i)
  /\ svc = "closing" \/ result = "ok" => \E i \in 1..taken : sent[i].op = "Shutdown"
  /\ result = "ok" => promised[1] = appended[1]

(* What passed the channel: every marker taken is in the stream, and a     *)
(* record of the stream was taken behind the markers before it.            *)
MarkerAt(i) == AppendAt(i) /\ IsMarker(sent[i].rec)
InStream(i, upto) == \E m \in 1..upto : stream[m] = sent[i].rec
StreamInv ==
  /\ \A j \in 1..taken : MarkerAt(j) => InStream(j, Len(stream))
  /\ \A i \in 1..Len(stream) : IsOffered(stream[i]) =>
       \E k \in 1..taken : /\ RecordAt(k) /\ sent[k].rec = stream[i]
                           /\ \A j \in 1..k : MarkerAt(j) => InStream(j, i)

Grown == appended' = [appended EXCEPT ![1] = @ + 1] /\ UNCHANGED promised

LEMMA FirstSession == 1 \in 1..MaxSessions
BY PipelineAssumption

LEMMA SentGrows ==
  ASSUME SenderFacts, SenderFacts', ChannelInv, SocketSide \/ Watch
  PROVE  /\ UNCHANGED <<taken, stream>> /\ Len(sent) <= Len(sent')
         /\ \A i \in 1..Len(sent) : sent'[i] = sent[i]
         /\ svc' = svc /\ result' = result /\ appended' = appended
         /\ promised' = promised /\ pfAppend' = pfAppend /\ pfSeen' = pfSeen
<1>1. (sent' = sent /\ taken' = taken) \/ \E cmd : Sends(cmd)
  BY SenderSends, WatcherSends DEF SocketSide, Watch
<1>2. Len(sent) <= Len(sent') /\ (\A i \in 1..Len(sent) : sent'[i] = sent[i]) /\ taken' = taken
  <2>1. CASE sent' = sent /\ taken' = taken
    BY <2>1 DEF SenderFacts
  <2>2. CASE \E cmd : Sends(cmd)
    BY <2>2, OneMore
  <2>. QED
    BY <1>1, <2>1, <2>2
<1>. QED
  BY <1>2 DEF SocketSide, Watch, serviceVars, threadVars

LEMMA TakeEffect ==
  ASSUME SenderFacts, RunInv, ThreadInv, ChannelInv, Take
  PROVE  LET cmd == sent[taken + 1] IN
         /\ taken + 1 \in 1..Len(sent) /\ cmd \in Command /\ cmd.rec \in Record
         /\ svc' # "force" /\ pfSeen' = pfSeen /\ promised' = promised
         /\ pfAppend' = TRUE => pfAppend = TRUE \/ Fails(taken + 1)
         /\ svc' = "closing" => cmd.op = "Shutdown"
         /\ \/ AppendAt(taken + 1) /\ Grown /\ stream' = Append(stream, cmd.rec)
            \/ ~MarkerAt(taken + 1) /\ UNCHANGED <<appended, stream>>
<1>. DEFINE cmd == sent[taken + 1]
<1>1. taken + 1 \in 1..Len(sent) /\ cmd \in Command
  BY DEF Take, Empty, SenderFacts, ChannelInv
<1>2. cmd.rec \in Record
  BY <1>1 DEF Command
<1>3. /\ W!Handle(cmd) /\ svc = "run" /\ session = 1
      /\ stream' = IF appended' # appended THEN Append(stream, cmd.rec) ELSE stream
  BY TakeRuns DEF Take, RunInv
<1>. HIDE DEF cmd
<1>4. CASE W!HandleAppend(cmd)
  <2>1. Grown /\ svc' \in {"sync", "check"} /\ pfSeen' = pfSeen /\ cmd.op = "Append"
    BY <1>3, <1>4 DEF W!HandleAppend, W!WriteRecord, W!AfterWrite, Grown
  <2>2. pfAppend' = W!IsPowerFailing(cmd)
    BY <1>4 DEF W!HandleAppend
  <2>3. pfAppend' = TRUE => Fails(taken + 1)
    BY <2>2 DEF W!IsPowerFailing, Fails, cmd
  <2>4. appended' # appended
    BY <2>1, FirstSession DEF Grown, ThreadInv, Counts
  <2>. QED
    BY <1>1, <1>2, <1>3, <2>1, <2>3, <2>4 DEF cmd, AppendAt, Grown
<1>5. CASE W!SkipAppend(cmd) \/ W!HandleHeartbeat(cmd) \/ W!HandleReceiveSeq(cmd)
  <2>1. /\ svc' = svc /\ appended' = appended /\ promised' = promised
        /\ pfAppend' = pfAppend /\ pfSeen' = pfSeen
    BY <1>5 DEF W!SkipAppend, W!HandleHeartbeat, W!HandleReceiveSeq, W!vars,
       W!fileVars, W!powerVars
  <2>2. ~(cmd.op = "Append" /\ IsMarker(cmd.rec))
    BY <1>5 DEF W!SkipAppend, W!HandleHeartbeat, W!HandleReceiveSeq, W!IsMarker,
       W!MarkerKinds, W!LifecycleKinds, IsMarker, MarkerKinds, LifecycleKinds
  <2>. QED
    BY <1>1, <1>2, <1>3, <2>1, <2>2 DEF cmd, MarkerAt, AppendAt
<1>6. CASE W!HandleShutdown(cmd)
  <2>1. /\ svc' = "closing" /\ appended' = appended /\ promised' = promised
        /\ pfAppend' = pfAppend /\ pfSeen' = pfSeen /\ cmd.op = "Shutdown"
    BY <1>6 DEF W!HandleShutdown, W!fileVars, W!powerVars
  <2>. QED
    BY <1>1, <1>2, <1>3, <2>1 DEF cmd, MarkerAt, AppendAt
<1>. QED
  BY <1>3, <1>4, <1>5, <1>6 DEF W!Handle

LEMMA WorkEffect ==
  ASSUME RunInv, ThreadInv, Work
  PROVE  /\ pfAppend' = TRUE => pfAppend = TRUE
         /\ pfSeen' = TRUE => pfSeen = TRUE \/ svc = "force"
         /\ svc' = "force" => pfAppend = TRUE
         /\ svc' # "closing"
         /\ promised' \in Counts
         /\ svc' = "down" => svc = "closing" /\ promised'[1] = appended'[1]
         /\ \/ UNCHANGED <<appended, stream>>
            \/ Grown /\ stream' = Append(stream, HeartbeatRecord(now))
<1>1. stream' = IF appended' # appended THEN Append(stream, HeartbeatRecord(now)) ELSE stream
  BY DEF Work
<1>2. CASE W!Boot
  BY <1>1, <1>2 DEF W!Boot, ThreadInv
<1>3. CASE W!SyncNow \/ W!CloseDown \/ W!RotateSync \/ W!BatchSync
  <2>1. /\ appended' = appended /\ pfAppend' = pfAppend /\ pfSeen' = pfSeen
        /\ promised' = [promised EXCEPT ![session] = appended[session]]
        /\ svc # "down"
        /\ svc' \in {"check", "down", "rotCreate", "run"}
        /\ svc' = "down" => svc = "closing"
    BY <1>3 DEF W!SyncNow, W!CloseDown, W!RotateSync, W!BatchSync, W!SyncSegment, W!powerVars
  <2>2. promised' \in Counts /\ promised'[1] = appended[1]
    BY <2>1, FirstSession DEF RunInv, ThreadInv, Counts
  <2>. QED
    BY <1>1, <2>1, <2>2
<1>4. CASE W!BootDirSync \/ W!CheckRotate \/ W!RotateCreate \/ W!RotateDirSync
  <2>1. /\ appended' = appended /\ promised' = promised
        /\ pfAppend' = pfAppend /\ pfSeen' = pfSeen
        /\ svc' \in {"run", "rotSync", "rotDirSync", W!AfterAppend}
    BY <1>4 DEF W!BootDirSync, W!CheckRotate, W!RotateCreate, W!RotateDirSync,
       W!RotationStart, W!AfterCreate, W!fileVars, W!powerVars
  <2>2. W!AfterAppend \in {"force", "run"} /\ (W!AfterAppend = "force" => pfAppend = TRUE)
    BY Zenon DEF W!AfterAppend
  <2>. QED
    BY <1>1, <2>1, <2>2 DEF ThreadInv
<1>5. CASE W!ForceBeat \/ W!Tick
  <2>1. /\ appended' = appended /\ promised' = promised
        /\ svc' \in {"run", "beat"}
        /\ (pfAppend' = FALSE /\ svc = "force") \/ (pfAppend' = pfAppend /\ pfSeen' = pfSeen)
    BY <1>5 DEF W!ForceBeat, W!Tick, W!WriteBeat, W!fileVars
  <2>. QED
    BY <1>1, <2>1 DEF ThreadInv
<1>6. CASE W!RecordBeat
  <2>1. /\ svc = "beat" /\ svc' = "check" /\ pfAppend' = pfAppend /\ pfSeen' = pfSeen
        /\ appended' = [appended EXCEPT ![session] = @ + 1] /\ promised' = promised
    BY <1>6 DEF W!RecordBeat, W!WriteRecord, W!AfterWrite, W!powerVars
  <2>2. Grown
    BY <2>1 DEF Grown, RunInv
  <2>3. appended' # appended
    BY <2>2, FirstSession DEF Grown, ThreadInv, Counts
  <2>. QED
    BY <1>1, <2>1, <2>2, <2>3 DEF ThreadInv
<1>. QED
  BY <1>2, <1>3, <1>4, <1>5, <1>6 DEF Work, W!Work

-----------------------------------------------------------------------------
(* What was taken stays where it is.                                       *)
LEMMA StaysTaken ==
  ASSUME SenderFacts, ChannelInv, NEW i \in 1..taken, taken' \in Nat, taken <= taken',
         \A k \in 1..Len(sent) : sent'[k] = sent[k]
  PROVE  i \in 1..taken' /\ i \in 1..Len(sent) /\ sent'[i] = sent[i]
BY DEF SenderFacts, ChannelInv

LEMMA StreamGrows ==
  ASSUME ThreadInv, NEW r \in Record,
         UNCHANGED <<appended, stream>> \/ (Grown /\ stream' = Append(stream, r))
  PROVE  /\ appended' \in Counts /\ stream' \in Seq(Record) /\ appended'[1] = Len(stream')
         /\ Len(stream) <= Len(stream')
         /\ \A m \in 1..Len(stream) : stream'[m] = stream[m]
<1>1. CASE UNCHANGED <<appended, stream>>
  BY <1>1 DEF ThreadInv
<1>2. CASE Grown /\ stream' = Append(stream, r)
  <2>1. appended[1] \in Nat /\ appended' \in Counts /\ appended'[1] = appended[1] + 1
    BY <1>2, FirstSession DEF ThreadInv, Grown, Counts
  <2>2. stream' \in Seq(Record) /\ Len(stream') = Len(stream) + 1 /\ Len(stream) \in Nat
        /\ \A m \in 1..Len(stream) : stream'[m] = stream[m]
    BY <1>2 DEF ThreadInv
  <2>. QED
    BY <2>1, <2>2 DEF ThreadInv
<1>. QED
  BY <1>1, <1>2

LEMMA ThreadStep ==
  ASSUME SenderFacts, SenderFacts', RunInv, ChannelInv, ThreadInv, [Next]_vars
  PROVE  ThreadInv'
<1>1. CASE SocketSide \/ Watch
  <2>1. /\ appended' = appended /\ promised' = promised /\ stream' = stream
        /\ pfAppend' = pfAppend /\ pfSeen' = pfSeen /\ svc' = svc /\ result' = result
        /\ taken' = taken /\ \A i \in 1..Len(sent) : sent'[i] = sent[i]
    BY <1>1, SentGrows
  <2>2. \A i \in 1..taken : sent'[i] = sent[i]
    BY <2>1 DEF SenderFacts, ChannelInv
  <2>. QED
    BY <2>1, <2>2 DEF ThreadInv, Fails
<1>2. CASE Take
  <2>. DEFINE cmd == sent[taken + 1]
  <2>1. sent' = sent /\ taken' = taken + 1 /\ result' = result /\ result = "running"
    BY <1>2, TakeRuns DEF Take, RunInv
  <2>2. /\ cmd.rec \in Record
        /\ svc' # "force" /\ pfSeen' = pfSeen /\ promised' = promised
        /\ pfAppend' = TRUE => pfAppend = TRUE \/ Fails(taken + 1)
        /\ svc' = "closing" => cmd.op = "Shutdown"
        /\ \/ Grown /\ stream' = Append(stream, cmd.rec)
           \/ UNCHANGED <<appended, stream>>
    BY <1>2, TakeEffect
  <2>3. taken + 1 \in 1..taken' /\ 1..taken \subseteq 1..taken'
    BY <2>1 DEF SenderFacts
  <2>. HIDE DEF cmd
  <2>4. appended' \in Counts /\ stream' \in Seq(Record) /\ appended'[1] = Len(stream')
    BY <2>2, StreamGrows
  <2>5. pfAppend' = TRUE \/ pfSeen' = TRUE \/ svc' = "force" =>
          \E i \in 1..taken' : sent'[i].rec.kind = "PowerFailing"
    BY <2>1, <2>2, <2>3 DEF ThreadInv, Fails
  <2>6. svc' = "closing" => \E i \in 1..taken' : sent'[i].op = "Shutdown"
    BY <2>1, <2>2, <2>3 DEF cmd
  <2>. QED
    BY <2>1, <2>2, <2>4, <2>5, <2>6 DEF ThreadInv, Fails
<1>3. CASE Work
  <2>1. /\ sent' = sent /\ taken' = taken /\ result = "running"
        /\ result' = IF svc' = "down" THEN "ok" ELSE "running"
    BY <1>3 DEF Work, Returns
  <2>2. /\ pfAppend' = TRUE => pfAppend = TRUE
        /\ pfSeen' = TRUE => pfSeen = TRUE \/ svc = "force"
        /\ svc' = "force" => pfAppend = TRUE
        /\ svc' # "closing"
        /\ promised' \in Counts
        /\ svc' = "down" => svc = "closing" /\ promised'[1] = appended'[1]
        /\ \/ UNCHANGED <<appended, stream>>
           \/ Grown /\ stream' = Append(stream, HeartbeatRecord(now))
    BY <1>3, WorkEffect
  <2>3. HeartbeatRecord(now) \in Record
    BY DEF HeartbeatRecord, Record, Definitions, SenderFacts
  <2>4. appended' \in Counts /\ stream' \in Seq(Record) /\ appended'[1] = Len(stream')
    BY <2>2, <2>3, StreamGrows
  <2>5. pfAppend' = TRUE \/ pfSeen' = TRUE \/ svc' = "force" =>
          \E i \in 1..taken' : sent'[i].rec.kind = "PowerFailing"
    BY <2>1, <2>2 DEF ThreadInv, Fails
  <2>. QED
    BY <2>1, <2>2, <2>4, <2>5 DEF ThreadInv, Fails
<1>4. CASE FatalError
  <2>1. /\ sent' = sent /\ taken' = taken /\ result' = "error" /\ svc' = "down"
        /\ stream' = stream /\ appended' = appended /\ promised' = promised
        /\ pfAppend' = pfAppend /\ pfSeen' = pfSeen
    BY <1>4 DEF FatalError, Returns, W!ThreadExit, W!fileVars, W!powerVars
  <2>. QED
    BY <2>1 DEF ThreadInv, Fails
<1>5. CASE UNCHANGED vars
  <2>1. /\ sent' = sent /\ taken' = taken /\ result' = result /\ svc' = svc
        /\ stream' = stream /\ appended' = appended /\ promised' = promised
        /\ pfAppend' = pfAppend /\ pfSeen' = pfSeen
    BY <1>5 DEF vars, chanVars, serviceVars, threadVars
  <2>. QED
    BY <2>1 DEF ThreadInv, Fails
<1>. QED
  BY <1>1, <1>2, <1>3, <1>4, <1>5 DEF Next

(* The stream grows by a record that is not offered, while nothing is      *)
(* taken, or by the record taken.                                          *)
LEMMA StreamKept ==
  ASSUME SenderFacts, ChannelInv, ThreadInv, StreamInv,
         taken' \in Nat, taken <= taken', \A k \in 1..Len(sent) : sent'[k] = sent[k],
         stream' \in Seq(Record), Len(stream) <= Len(stream'),
         \A m \in 1..Len(stream) : stream'[m] = stream[m]
  PROVE  /\ \A j \in 1..taken : MarkerAt(j)' => InStream(j, Len(stream))'
         /\ \A i \in 1..Len(stream) : IsOffered(stream'[i]) =>
              \E k \in 1..taken' : /\ RecordAt(k)' /\ sent'[k].rec = stream'[i]
                                   /\ \A j \in 1..k : MarkerAt(j)' => InStream(j, i)'
<1>1. Len(stream) \in Nat /\ Len(stream') \in Nat
  BY DEF ThreadInv
<1>2. \A i \in 1..taken : i \in 1..taken' /\ sent'[i] = sent[i]
  BY StaysTaken
<1>3. \A i \in 1..taken : (MarkerAt(i)' <=> MarkerAt(i)) /\ (RecordAt(i)' <=> RecordAt(i))
  BY <1>2 DEF MarkerAt, RecordAt, AppendAt
<1>4. \A j \in 1..taken, n \in 1..Len(stream) : InStream(j, n) => InStream(j, n)'
  BY <1>1, <1>2 DEF InStream
<1>5. ASSUME NEW j \in 1..taken, MarkerAt(j)' PROVE InStream(j, Len(stream))'
  <2>1. InStream(j, Len(stream))
    BY <1>3, <1>5 DEF StreamInv
  <2>. QED
    BY <1>1, <1>2, <2>1 DEF InStream
<1>6. ASSUME NEW i \in 1..Len(stream), IsOffered(stream'[i])
      PROVE  \E k \in 1..taken' : /\ RecordAt(k)' /\ sent'[k].rec = stream'[i]
                                  /\ \A j \in 1..k : MarkerAt(j)' => InStream(j, i)'
  <2>1. PICK k \in 1..taken : /\ RecordAt(k) /\ sent[k].rec = stream[i]
                              /\ \A j \in 1..k : MarkerAt(j) => InStream(j, i)
    BY <1>6 DEF StreamInv
  <2>2. \A j \in 1..k : j \in 1..taken
    BY <2>1 DEF SenderFacts
  <2>. QED
    BY <1>2, <1>3, <1>4, <2>1, <2>2
<1>. QED
  BY <1>5, <1>6

LEMMA StreamStep ==
  ASSUME SenderFacts, SenderFacts', RunInv, ChannelInv, ThreadInv, ThreadInv', StreamInv,
         [Next]_vars
  PROVE  StreamInv'
<1>1. CASE SocketSide \/ Watch
  <2>1. stream' = stream /\ taken' = taken /\ \A i \in 1..Len(sent) : sent'[i] = sent[i]
    BY <1>1, SentGrows
  <2>2. taken \in Nat /\ stream \in Seq(Record) /\ Len(stream) \in Nat
    BY DEF SenderFacts, ThreadInv
  <2>3. /\ \A j \in 1..taken : MarkerAt(j)' => InStream(j, Len(stream))'
        /\ \A i \in 1..Len(stream) : IsOffered(stream'[i]) =>
             \E k \in 1..taken' : /\ RecordAt(k)' /\ sent'[k].rec = stream'[i]
                                  /\ \A j \in 1..k : MarkerAt(j)' => InStream(j, i)'
    BY <2>1, <2>2, StreamKept
  <2>. QED
    BY <2>1, <2>3 DEF StreamInv
<1>2. CASE Take
  <2>. DEFINE r == sent[taken + 1].rec
  <2>1. sent' = sent /\ taken' = taken + 1 /\ taken \in Nat
    BY <1>2 DEF Take, SenderFacts
  <2>2. /\ r \in Record
        /\ \/ AppendAt(taken + 1) /\ Grown /\ stream' = Append(stream, r)
           \/ ~MarkerAt(taken + 1) /\ UNCHANGED <<appended, stream>>
    BY <1>2, TakeEffect
  <2>. HIDE DEF r
  <2>3. /\ Len(stream) <= Len(stream') /\ stream' \in Seq(Record)
        /\ \A m \in 1..Len(stream) : stream'[m] = stream[m]
    BY <2>2, StreamGrows
  <2>4. /\ \A j \in 1..taken : MarkerAt(j)' => InStream(j, Len(stream))'
        /\ \A i \in 1..Len(stream) : IsOffered(stream'[i]) =>
             \E k \in 1..taken' : /\ RecordAt(k)' /\ sent'[k].rec = stream'[i]
                                  /\ \A j \in 1..k : MarkerAt(j)' => InStream(j, i)'
    BY <2>1, <2>3, StreamKept
  <2>5. \A j \in 1..taken' : j \in 1..taken \/ j = taken + 1
    BY <2>1
  <2>6. CASE ~MarkerAt(taken + 1) /\ UNCHANGED <<appended, stream>>
    <3>1. \A j : j = taken + 1 => ~MarkerAt(j)'
      BY <2>1, <2>6 DEF MarkerAt, AppendAt
    <3>2. \A j \in 1..taken' : MarkerAt(j)' => InStream(j, Len(stream))'
      BY <2>4, <2>5, <3>1
    <3>. QED
      BY <2>4, <2>6, <3>2 DEF StreamInv
  <2>7. CASE AppendAt(taken + 1) /\ stream' = Append(stream, r)
    <3>1. /\ Len(stream') = Len(stream) + 1 /\ Len(stream) \in Nat
          /\ stream'[Len(stream')] = r
      BY <2>2, <2>7 DEF ThreadInv
    <3>2. \A j : j = taken + 1 => InStream(j, Len(stream))'
      BY <2>1, <3>1 DEF InStream, r
    <3>4. \A j \in 1..taken' : MarkerAt(j)' => InStream(j, Len(stream))'
      BY <2>4, <2>5, <3>2
    <3>5. ASSUME NEW i \in 1..Len(stream'), IsOffered(stream'[i])
          PROVE  \E k \in 1..taken' : /\ RecordAt(k)' /\ sent'[k].rec = stream'[i]
                                      /\ \A j \in 1..k : MarkerAt(j)' => InStream(j, i)'
      <4>1. CASE i \in 1..Len(stream)
        BY <2>4, <3>5, <4>1
      <4>2. CASE i = Len(stream')
        <5>1. PICK k \in 1..taken' : k = taken + 1
          BY <2>1
        <5>2. RecordAt(k)' /\ sent'[k].rec = stream'[i]
          BY <2>1, <2>7, <3>1, <3>5, <4>2, <5>1 DEF RecordAt, AppendAt, r
        <5>3. \A j \in 1..k : MarkerAt(j)' => InStream(j, i)'
          BY <2>1, <3>4, <4>2, <5>1 DEF InStream
        <5>. QED
          BY <5>1, <5>2, <5>3
      <4>. QED
        BY <3>1, <4>1, <4>2
    <3>. QED
      BY <3>4, <3>5 DEF StreamInv
  <2>. QED
    BY <2>2, <2>6, <2>7
<1>3. CASE Work
  <2>. DEFINE r == HeartbeatRecord(now)
  <2>1. sent' = sent /\ taken' = taken /\ taken \in Nat
    BY <1>3 DEF Work, SenderFacts
  <2>2. r \in Record /\ ~IsOffered(r)
    BY DEF HeartbeatRecord, Record, Definitions, SenderFacts, IsOffered
  <2>3. UNCHANGED <<appended, stream>> \/ (Grown /\ stream' = Append(stream, r))
    BY <1>3, WorkEffect
  <2>. HIDE DEF r
  <2>4. /\ Len(stream) <= Len(stream') /\ stream' \in Seq(Record)
        /\ \A m \in 1..Len(stream) : stream'[m] = stream[m]
    BY <2>2, <2>3, StreamGrows
  <2>5. /\ \A j \in 1..taken : MarkerAt(j)' => InStream(j, Len(stream))'
        /\ \A i \in 1..Len(stream) : IsOffered(stream'[i]) =>
             \E k \in 1..taken' : /\ RecordAt(k)' /\ sent'[k].rec = stream'[i]
                                  /\ \A j \in 1..k : MarkerAt(j)' => InStream(j, i)'
    BY <2>1, <2>4, StreamKept
  <2>7. \A i \in 1..Len(stream') : IsOffered(stream'[i]) => i \in 1..Len(stream)
    BY <2>2, <2>3 DEF ThreadInv
  <2>. QED
    BY <2>1, <2>5, <2>7 DEF StreamInv
<1>4. CASE FatalError \/ UNCHANGED vars
  <2>1. sent' = sent /\ stream' = stream /\ taken' = taken
    BY <1>4 DEF FatalError, vars, chanVars, threadVars
  <2>. QED
    BY <2>1 DEF StreamInv, RecordAt, MarkerAt, AppendAt, InStream
<1>. QED
  BY <1>1, <1>2, <1>3, <1>4 DEF Next

-----------------------------------------------------------------------------
PipeInv == ChannelInv /\ ThreadInv /\ StreamInv

LEMMA PipeInit == Init => PipeInv
<1> SUFFICES ASSUME Init PROVE PipeInv
  OBVIOUS
<1>1. /\ sent = <<>> /\ taken = 0 /\ stream = <<>> /\ result = "running"
      /\ svc = "down" /\ pfAppend = FALSE /\ pfSeen = FALSE
      /\ appended = [n \in 1..MaxSessions |-> 0] /\ promised = [n \in 1..MaxSessions |-> 0]
  BY DEF Init, S!Init, S!ChannelInit, W!Init, W!Sessions
<1>2. ChannelInv
  BY <1>1 DEF ChannelInv
<1>3. ThreadInv
  BY <1>1, FirstSession DEF ThreadInv, Counts
<1>4. StreamInv
  BY <1>1 DEF StreamInv
<1>. QED
  BY <1>2, <1>3, <1>4 DEF PipeInv

LEMMA PipeInvariant == Spec => []PipeInv
<1>1. /\ SenderFacts /\ SenderFacts' /\ RunInv /\ PipeInv /\ [Next]_vars => PipeInv'
  BY ChannelStep, ThreadStep, StreamStep DEF PipeInv
<1>. QED
  BY <1>1, PipeInit, SenderKnows, RunInvariant, PTL DEF Spec

-----------------------------------------------------------------------------
(* To the thread, the channel is a source of commands: each one it takes   *)
(* does what one of WalService's inputs does.                              *)
Failing == W!MarkerCmd(W!Marker("PowerFailing", 0))

LEMMA InputsAre ==
  /\ W!AppendCmd(W!Motion(0), "Batched") \in W!Inputs
  /\ W!MarkerCmd(W!Marker("SocketLost", 0)) \in W!Inputs
  /\ W!ShutdownCmd \in W!Inputs
  /\ \A d \in HbSamples \cup {NoData} : W!HeartbeatCmd(d) \in W!Inputs
  /\ pfSeen # TRUE => Failing \in W!Inputs
BY DEF W!Inputs, Failing

LEMMA AppendsAlike ==
  ASSUME NEW c, NEW d, c.op = d.op, c.sync = d.sync,
         (c.rec.kind = "PowerFailing") <=> (d.rec.kind = "PowerFailing"),
         W!HandleAppend(c)
  PROVE  W!HandleAppend(d)
<1>1. W!IsPowerFailing(c) = W!IsPowerFailing(d)
  BY DEF W!IsPowerFailing
<1>. QED
  BY <1>1 DEF W!HandleAppend

LEMMA InputsCover ==
  ASSUME SenderFacts, RunInv, ChannelInv, ThreadInv, Take
  PROVE  (\E c \in W!Inputs : W!Handle(c)) \/ UNCHANGED W!vars
<1>. DEFINE cmd == sent[taken + 1]
<1>1. taken + 1 \in 1..Len(sent) /\ cmd \in Command
  BY TakeEffect
<1>2. W!Handle(cmd)
  BY DEF Take
<1>3. cmd.rec.kind = "PowerFailing" => cmd.sync = "Immediate" /\ pfSeen # TRUE
  <2>1. \A i \in 1..taken : i \in 1..Len(sent) /\ i # taken + 1
    BY <1>1 DEF SenderFacts
  <2>. QED
    BY <1>1, <2>1 DEF ChannelInv, ThreadInv, Fails
<1>. HIDE DEF cmd
<1>4. CASE W!HandleAppend(cmd)
  <2>1. cmd.op = "Append" /\ cmd.sync \in {"Batched", "Immediate"}
    BY <1>1, <1>4 DEF W!HandleAppend, Command, SyncPolicy
  <2>2. CASE cmd.rec.kind = "PowerFailing"
    <3>1. W!HandleAppend(Failing)
      BY <1>3, <1>4, <2>1, <2>2, AppendsAlike
         DEF Failing, W!MarkerCmd, W!AppendCmd, W!Marker
    <3>. QED
      BY <1>3, <2>2, <3>1, InputsAre DEF W!Handle
  <2>3. CASE cmd.rec.kind # "PowerFailing" /\ cmd.sync = "Batched"
    <3>1. W!HandleAppend(W!AppendCmd(W!Motion(0), "Batched"))
      BY <1>4, <2>1, <2>3, AppendsAlike DEF W!AppendCmd, W!Motion
    <3>. QED
      BY <3>1, InputsAre DEF W!Handle
  <2>4. CASE cmd.rec.kind # "PowerFailing" /\ cmd.sync = "Immediate"
    <3>1. W!HandleAppend(W!MarkerCmd(W!Marker("SocketLost", 0)))
      BY <1>4, <2>1, <2>4, AppendsAlike DEF W!MarkerCmd, W!AppendCmd, W!Marker
    <3>. QED
      BY <3>1, InputsAre DEF W!Handle
  <2>. QED
    BY <2>1, <2>2, <2>3, <2>4
<1>5. CASE W!SkipAppend(cmd) \/ W!HandleReceiveSeq(cmd)
  BY <1>5 DEF W!SkipAppend, W!HandleReceiveSeq
<1>6. CASE W!HandleHeartbeat(cmd)
  <2>1. W!HandleHeartbeat(W!HeartbeatCmd(cmd.data))
    BY <1>6 DEF W!HandleHeartbeat, W!HeartbeatCmd
  <2>2. W!HeartbeatCmd(cmd.data) \in W!Inputs
    BY <1>1, InputsAre DEF Command
  <2>. QED
    BY <2>1, <2>2 DEF W!Handle
<1>7. CASE W!HandleShutdown(cmd)
  <2>1. W!HandleShutdown(W!ShutdownCmd)
    BY <1>7 DEF W!HandleShutdown, W!ShutdownCmd
  <2>. QED
    BY <2>1, InputsAre DEF W!Handle
<1>. QED
  BY <1>2, <1>4, <1>5, <1>6, <1>7 DEF W!Handle

LEMMA ServiceSideStep ==
  ASSUME SenderFacts, RunInv, ChannelInv, ThreadInv, [Next]_vars
  PROVE  [W!Next]_(W!vars)
<1>1. CASE SocketSide \/ Watch \/ UNCHANGED vars
  BY <1>1 DEF SocketSide, Watch, vars, serviceVars, W!vars, W!fileVars, W!beatVars,
     W!powerVars
<1>2. CASE Take
  BY <1>2, InputsCover DEF W!Next
<1>3. CASE Work
  BY <1>3 DEF Work, W!Next
<1>4. CASE FatalError
  BY <1>4 DEF FatalError, W!Next
<1>. QED
  BY <1>1, <1>2, <1>3, <1>4 DEF Next

(* The composition does nothing its two sides do not: what is proved of    *)
(* the sender under any thread, and of the thread under any commands,      *)
(* power cuts and restarts, holds of the daemon (daemon.rs run,            *)
(* walsvc.rs run).                                                         *)
THEOREM ComposesBothSides == Spec => ImplementsBothSides
<1>1. Init => W!Init
  BY DEF Init
<1>2. SenderFacts /\ RunInv /\ PipeInv /\ [Next]_vars => [W!Next]_(W!vars)
  BY ServiceSideStep DEF PipeInv
<1>3. Spec => W!Spec
  BY <1>1, <1>2, SenderKnows, RunInvariant, PipeInvariant, PTL DEF Spec, W!Spec
<1>. QED
  BY <1>3, ImplementsSender DEF ImplementsBothSides

LEMMA SentTimes ==
  ASSUME SenderFacts, NEW i \in 1..Len(sent)
  PROVE  sent[i].rec.at \in Nat /\ sent[i].rec.from \in Nat
<1>1. sent[i] \in Command
  BY DEF SenderFacts
<1>2. sent[i].rec \in Record
  BY <1>1 DEF Command
<1>. QED
  BY <1>2 DEF Record

(* Wherever a power cut ends the stream, motion dropped before a record    *)
(* that survived is covered by a gap marker that survived (sender.rs:8-13).*)
THEOREM HonestWherePowerIsLost == Spec => []HonestAtEveryCut
<1>1. SenderFacts /\ PipeInv => HonestAtEveryCut
  <2> SUFFICES ASSUME SenderFacts, PipeInv, NEW k \in Lasts, NEW t \in dropped,
                      NEW i \in 1..k, IsOffered(stream[i]), stream[i].at > t
               PROVE  \E j \in 1..k : /\ stream[j].kind = "SubscriptionGap"
                                      /\ stream[j].from <= t /\ t <= stream[j].at
    BY DEF HonestAtEveryCut
  <2>1. promised[1] \in Nat /\ Len(stream) \in Nat /\ t \in Nat
    BY FirstSession DEF PipeInv, ThreadInv, Counts, SenderFacts
  <2>2. k \in Int /\ k <= Len(stream) /\ i \in 1..Len(stream) /\ i <= k
    BY <2>1 DEF Lasts, Synced
  <2>3. PICK n \in 1..taken : /\ RecordAt(n) /\ sent[n].rec = stream[i]
                              /\ \A j \in 1..n : MarkerAt(j) => InStream(j, i)
    BY <2>2 DEF PipeInv, StreamInv
  <2>4. n \in 1..Len(sent) /\ sent[n].rec.at \in Nat /\ sent[n].rec.at > t
    <3>1. n \in 1..Len(sent)
      BY <2>3 DEF PipeInv, ChannelInv, SenderFacts
    <3>. QED
      BY <2>3, <3>1, SentTimes
  <2>5. PICK g \in 1..Len(sent) :
          GapAt(g) /\ sent[g].rec.from <= t /\ t <= sent[g].rec.at
    <3>1. CASE gapStart # NoGap /\ gapStart <= t
      <4>1. sent[n].rec.at <= gapStart /\ gapStart \in Nat
        BY <2>3, <2>4, <3>1 DEF SenderFacts
      <4>. QED
        BY <2>1, <2>4, <3>1, <4>1
    <3>. QED
      BY <3>1 DEF SenderFacts
  <2>6. sent[g].rec.from \in Nat /\ sent[g].rec.at \in Nat
    BY <2>5, SentTimes
  <2>7. g < n
    <3>1. ~(n < g)
      BY SMTT(30), <2>1, <2>3, <2>4, <2>5, <2>6 DEF SenderFacts
    <3>2. g # n
      BY <2>3, <2>5 DEF GapAt, RecordAt, IsOffered
    <3>. QED
      BY <2>4, <3>1, <3>2
  <2>8. MarkerAt(g)
    BY <2>5 DEF GapAt, MarkerAt, IsMarker, MarkerKinds
  <2>9. InStream(g, i)
    BY <2>3, <2>7, <2>8
  <2>. QED
    BY <2>2, <2>5, <2>9 DEF InStream, GapAt
<1>. QED
  BY <1>1, SenderKnows, PipeInvariant, PTL

(* A run that ends well: the thread took all the sender handed over before *)
(* its Shutdown, every marker of it is in the stream, and the stream is    *)
(* durable (walsvc.rs run, the final sync).                                *)
THEOREM OrderlyStopLosesNothing == Spec => []OrderlyStopIsComplete
<1>1. SenderFacts /\ PipeInv => OrderlyStopIsComplete
  <2> SUFFICES ASSUME SenderFacts, PipeInv, result = "ok"
               PROVE  /\ Synced = Len(stream)
                      /\ \A i \in 1..Len(sent) :
                           AppendAt(i) /\ IsMarker(sent[i].rec) =>
                             \/ \E j \in 1..Len(stream) : stream[j] = sent[i].rec
                             \/ sent[i].rec.kind = "PowerFailing" /\ i > taken
    BY DEF OrderlyStopIsComplete
  <2>1. Synced = Len(stream)
    BY DEF PipeInv, ThreadInv, Synced
  <2>2. PICK s \in 1..taken : sent[s].op = "Shutdown"
    BY DEF PipeInv, ThreadInv
  <2>3. ASSUME NEW i \in 1..Len(sent), AppendAt(i), IsMarker(sent[i].rec)
        PROVE  \/ \E j \in 1..Len(stream) : stream[j] = sent[i].rec
               \/ sent[i].rec.kind = "PowerFailing" /\ i > taken
    <3>1. CASE i <= taken
      BY <2>3, <3>1 DEF PipeInv, StreamInv, MarkerAt, InStream, SenderFacts
    <3>2. CASE i > taken
      BY <2>2, <3>2 DEF PipeInv, ChannelInv, SenderFacts, Fails
    <3>. QED
      BY <3>1, <3>2 DEF SenderFacts
  <2>. QED
    BY <2>1, <2>3
<1>. QED
  BY <1>1, SenderKnows, PipeInvariant, PTL
=============================================================================
