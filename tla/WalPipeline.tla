----------------------------- MODULE WalPipeline -----------------------------
(***************************************************************************)
(* One daemon run from the socket side to the medium: WalSender in front   *)
(* of the channel, WalService behind it (crates/plrd/src/daemon.rs run,    *)
(* sender.rs, walsvc.rs).  The thread takes from the channel what the      *)
(* sender put into it and beats between two commands, and the channel      *)
(* hangs up when the thread returns.                                       *)
(*                                                                         *)
(* `stream` is what the thread appended, in order.  WalServiceProofs shows *)
(* that a power cut leaves a prefix of it that holds at least the records  *)
(* a sync covered, so the properties speak of every such prefix.           *)
(***************************************************************************)
EXTENDS WalChannel

CONSTANTS
  MarkerInputs, NoGap, MaxOffers,                      \* WalSender
  RotateAt, QuietEvery, ActiveSamples, NoBeatYet,      \* WalService
  MaxSessions, MaxAppends, MaxBeats

ASSUME PipelineAssumption ==
  /\ MarkerInputs \subseteq LifecycleKinds /\ NoGap \notin Nat /\ MaxOffers \in Nat
  /\ RotateAt \in Nat \ {0} /\ QuietEvery \in Nat \ {0}
  /\ ActiveSamples \subseteq HbSamples /\ NoBeatYet \notin Nat
  /\ MaxSessions \in Nat \ {0} /\ MaxAppends \in Nat /\ MaxBeats \in Nat

VARIABLES
  pc, cur, changes, policy, gapStart, outbox, lastExcluded, lossPending,
  now, offers, dropped, offered, truth,
  svc, session, segs, dirty, batchArmed, hbData, hbSeq, lastWalHb,
  pfAppend, pfSeen, appended, promised, pfBeats,
  result,        \* what the thread's JoinHandle returns: Ok or Err
  stream         \* history: the records appended in this run

S == INSTANCE WalSender
W == INSTANCE WalService

threadVars == <<result, stream>>
socketVars == <<pc, cur, changes, policy, gapStart, outbox, lastExcluded,
                lossPending, now, offers, dropped, offered, truth>>
serviceVars == <<svc, session, segs, dirty, batchArmed, hbData, hbSeq,
                 lastWalHb, pfAppend, pfSeen, appended, promised, pfBeats>>
vars == <<chanVars, socketVars, serviceVars, threadVars>>

(* The channel exists before the thread has run Service::init.             *)
Init == S!Init /\ W!Init /\ result = "running" /\ stream = <<>>

SocketSide == S!SenderNext /\ UNCHANGED <<serviceVars, threadVars>>

HoldsItWhileWaiting == svc' = "run"                             \* mutant
HoldsReceiver == svc' # "down"

(* When the thread function returns, its Receiver is dropped with it.      *)
Returns(how) ==
  /\ rxAlive' = HoldsReceiver
  /\ result' = IF svc' = "down" THEN how ELSE "running"

Watch == S!Watch /\ UNCHANGED <<serviceVars, threadVars>>

(* recv_timeout returns a command and `handle` runs it.                    *)
Take ==
  /\ ~Empty
  /\ LET cmd == sent[taken + 1]
     IN  /\ W!Handle(cmd)
         /\ stream' = IF appended' # appended THEN Append(stream, cmd.rec) ELSE stream
  /\ taken' = taken + 1
  /\ UNCHANGED <<sent, rxAlive, result, socketVars>>

(* The thread's own steps; a heartbeat record carries the time of the beat.*)
Work ==
  /\ result = "running"
  /\ W!Boot \/ W!Work \/ W!BatchSync \/ W!Tick
  /\ stream' = IF appended' # appended THEN Append(stream, HeartbeatRecord(now)) ELSE stream
  /\ Returns("ok")
  /\ UNCHANGED <<sent, taken, socketVars>>

(* A fatal I/O error of the thread.                                        *)
FatalError ==
  /\ W!ThreadExit
  /\ Returns("error")
  /\ UNCHANGED <<sent, taken, socketVars, stream>>

Next == SocketSide \/ Watch \/ Take \/ Work \/ FatalError

Spec == Init /\ [][Next]_vars

-----------------------------------------------------------------------------
(* Refinement: to the sender the thread only takes commands and hangs up,  *)
(* and the thread does nothing WalService does not, so that what           *)
(* WalSenderProofs and WalServiceProofs prove holds of the pipeline.       *)
ImplementsBothSides == S!Spec /\ W!Spec

Synced == promised[1]
Lasts == Synced..Len(stream)       \* the records a power cut may leave

(* The journal is honest wherever the power cut falls: motion that was     *)
(* dropped is covered by a gap marker as soon as any later offered record  *)
(* is in the files.                                                        *)
HonestAtEveryCut ==
  \A k \in Lasts : \A t \in dropped :
    (\E i \in 1..k : IsOffered(stream[i]) /\ stream[i].at > t) =>
      \E j \in 1..k : /\ stream[j].kind = "SubscriptionGap"
                      /\ stream[j].from <= t /\ t <= stream[j].at

(* A run that ends well loses nothing the socket side handed over: every   *)
(* marker the channel accepted from it is durable.                         *)
OrderlyStopIsComplete ==
  result = "ok" =>
    /\ Synced = Len(stream)
    /\ \A i \in 1..Len(sent) :
         AppendAt(i) /\ IsMarker(sent[i].rec) =>
           \/ \E j \in 1..Len(stream) : stream[j] = sent[i].rec
           \/ sent[i].rec.kind = "PowerFailing" /\ i > taken
=============================================================================
