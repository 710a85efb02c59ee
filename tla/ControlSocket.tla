--------------------------- MODULE ControlSocket ---------------------------
(***************************************************************************)
(* The recovery commands of plrd's control socket (plrd/ctrlsock.rs).      *)
(*                                                                         *)
(* Every connection is a task of a current-thread runtime and carries one  *)
(* request, so a handler runs without interruption from one wait to the    *)
(* next.  `recover_execute` takes the session lock, plans on another       *)
(* thread, spawns the execution as a task of its own and drives it: waits  *)
(* for its next question or for its end.  A question is reported, put in   *)
(* the slot, and the lock is let go; `recover_confirm` takes the question  *)
(* out of the slot, sends the answer and drives on.  A mirror, written by  *)
(* the execution itself, is what `recover_state` reads.                    *)
(*                                                                         *)
(* A request that is refused changes nothing and is a stuttering step: any *)
(* request while the lock is held, an execution while one is under way, an *)
(* answer to another question or in another vocabulary (the question is    *)
(* put back).  Who sends a request does not matter to any of them.         *)
(***************************************************************************)
EXTENDS Integers, FiniteSets

CONSTANTS
  Execs,     \* executions that may be started
  Tokens,    \* questions that may be asked: the daemon's start, and its count
  MaxBoots,  \* restarts of the daemon
  NoExec,    \* an empty slot
  NoToken    \* no question

ASSUME BoundsAssumption == Tokens \subseteq Nat \X Nat /\ MaxBoots \in Nat
ASSUME SentinelAssumption == NoExec \notin Execs /\ NoToken \notin Tokens

VARIABLES
  session,      \* what the holder of the session lock does: "free", "pipeline", "driving"
  slot,         \* the execution in the slot, or NoExec
  pending,      \* the question in the channel from the execution, or NoToken
  outstanding,  \* the question reported and not yet answered, or NoToken
  stage,        \* per execution, how far it is
  asked,        \* per execution, the question it waits on, or NoToken
  kind,         \* per question: "unasked", "binary" or "preview"
  given,        \* per question: the answer sent down its one-shot, or "nothing"
  closed,       \* questions whose one-shot nobody listens to any more
  lapsed,       \* questions whose deadline has passed
  mirror,       \* what recover_state reads: `executing`, `pause`
  boots,        \* starts of the daemon so far: the wall clock in a token
  seq           \* the process's token counter

talk == <<asked, kind, given, closed, lapsed>>
vars == <<session, slot, pending, outstanding, stage, talk, mirror, boots, seq>>

BinaryVerbs == {"continue", "abort"}
PreviewVerbs == {"choose", "abort"}   \* accept, next, prev, nudge
Verbs == BinaryVerbs \cup PreviewVerbs
Kinds == {"binary", "preview"}
Vocabulary(k) == IF k = "preview" THEN PreviewVerbs ELSE BinaryVerbs

Stages == {"none", "pipeline", "running", "asking", "aborting", "done"}
Underway == {"pipeline", "running", "asking", "aborting"}
Live == {e \in Execs : stage[e] \in Underway}

NoMirror == [executing |-> FALSE, pause |-> NoToken]
Begun == [executing |-> TRUE, pause |-> NoToken]
Published(t) == IF mirror.executing THEN [mirror EXCEPT !.pause = t] ELSE mirror

\* What recover_state answers: a question whose deadline has passed is gone.
AwaitingAsPublished == mirror.executing /\ mirror.pause # NoToken    \* mutant
Awaiting ==
  mirror.executing /\ mirror.pause # NoToken /\ mirror.pause \notin lapsed

Init ==
  /\ session = "free"
  /\ slot = NoExec
  /\ pending = NoToken
  /\ outstanding = NoToken
  /\ stage = [e \in Execs |-> "none"]
  /\ asked = [e \in Execs |-> NoToken]
  /\ kind = [t \in Tokens |-> "unasked"]
  /\ given = [t \in Tokens |-> "nothing"]
  /\ closed = {}
  /\ lapsed = {}
  /\ mirror = NoMirror
  /\ boots = 0
  /\ seq = 0

Move(e, to) == stage' = [stage EXCEPT ![e] = to]

-----------------------------------------------------------------------------
(* Requests *)

\* try_lock, then the slot: an execution that ended and was never collected is
\* reaped; one that has not ended is busy.
ReapAnything == TRUE                                                 \* mutant
SlotIsFree == slot # NoExec => stage[slot] = "done"

Execute(e) ==
  /\ session = "free"
  /\ SlotIsFree
  /\ stage[e] = "none"
  /\ session' = "pipeline"
  /\ slot' = NoExec
  /\ pending' = NoToken
  /\ outstanding' = NoToken
  /\ Move(e, "pipeline")
  /\ mirror' = Begun
  /\ UNCHANGED <<talk, boots, seq>>

\* The plan failed, or is not a plan: the lease and the lock are dropped.
PlanRefused(e) ==
  /\ session = "pipeline"
  /\ stage[e] = "pipeline"
  /\ session' = "free"
  /\ Move(e, "done")
  /\ mirror' = NoMirror
  /\ UNCHANGED <<slot, pending, outstanding, talk, boots, seq>>

SpawnAndDrive(e) ==
  /\ session = "pipeline"
  /\ stage[e] = "pipeline"
  /\ session' = "driving"
  /\ slot' = e
  /\ Move(e, "running")
  /\ UNCHANGED <<pending, outstanding, talk, mirror, boots, seq>>

ConsumeBeforeChecking(t, v) ==                                       \* mutant
  /\ session = "free"
  /\ slot # NoExec
  /\ outstanding # NoToken
  /\ outstanding' = NoToken
  /\ IF outstanding = t /\ v \in Vocabulary(kind[t]) /\ t \notin closed
     THEN /\ given' = [given EXCEPT ![t] = v]
          /\ session' = "driving"
     ELSE UNCHANGED <<given, session>>
  /\ UNCHANGED <<slot, pending, stage, asked, kind, closed, lapsed, mirror, boots, seq>>

\* The answer to the outstanding question; a sender whose listener is gone
\* loses the question and reports it as expired.
Confirm(t, v) ==
  /\ session = "free"
  /\ slot # NoExec
  /\ outstanding = t
  /\ v \in Vocabulary(kind[t])
  /\ outstanding' = NoToken
  /\ IF t \in closed
     THEN UNCHANGED <<given, session>>
     ELSE /\ given' = [given EXCEPT ![t] = v]
          /\ session' = "driving"
  /\ UNCHANGED <<slot, pending, stage, asked, kind, closed, lapsed, mirror, boots, seq>>

\* drive_session, biased: a question that is already there comes first.
ReportPause ==
  /\ session = "driving"
  /\ pending # NoToken
  /\ outstanding' = pending
  /\ pending' = NoToken
  /\ session' = "free"
  /\ UNCHANGED <<slot, stage, talk, mirror, boots, seq>>

Collect ==
  /\ session = "driving"
  /\ pending = NoToken
  /\ stage[slot] = "done"
  /\ slot' = NoExec
  /\ outstanding' = NoToken
  /\ session' = "free"
  /\ UNCHANGED <<pending, stage, talk, mirror, boots, seq>>

-----------------------------------------------------------------------------
(* The execution's task *)

TokenOf(b, n) == <<b, n>>

\* SocketConfirmer: publish in the mirror, send the question, wait.
Raise(e, k) ==
  LET t == TokenOf(boots, seq) IN
  /\ stage[e] = "running"
  /\ t \in Tokens
  /\ pending = NoToken
  /\ seq' = seq + 1
  /\ asked' = [asked EXCEPT ![e] = t]
  /\ kind' = [kind EXCEPT ![t] = k]
  /\ mirror' = Published(t)
  /\ pending' = t
  /\ Move(e, "asking")
  /\ UNCHANGED <<session, slot, outstanding, given, closed, lapsed, boots>>

\* The answer arrives; the timer polls the question before itself, so an answer
\* that was sent is heard even past the deadline.
Hear(e) ==
  /\ stage[e] = "asking"
  /\ given[asked[e]] # "nothing"
  /\ Move(e, IF given[asked[e]] = "abort" THEN "aborting" ELSE "running")
  /\ asked' = [asked EXCEPT ![e] = NoToken]
  /\ closed' = closed \cup {asked[e]}
  /\ mirror' = Published(NoToken)
  /\ UNCHANGED <<session, slot, pending, outstanding, kind, given, lapsed, boots, seq>>

\* The deadline of a question passes.
Lapse(e) ==
  /\ stage[e] = "asking"
  /\ asked[e] \notin lapsed
  /\ lapsed' = lapsed \cup {asked[e]}
  /\ UNCHANGED <<session, slot, pending, outstanding, stage, asked, kind, given,
                 closed, mirror, boots, seq>>

TimerFirst(e) == asked[e] \in lapsed                                 \* mutant
NoTimer(e) == FALSE                                                  \* mutant
Unanswered(e) == asked[e] \in lapsed /\ given[asked[e]] = "nothing"

\* The timer drops the question with its listener; the mirror keeps it.
TimeOut(e) ==
  /\ stage[e] = "asking"
  /\ Unanswered(e)
  /\ Move(e, "aborting")
  /\ asked' = [asked EXCEPT ![e] = NoToken]
  /\ closed' = closed \cup {asked[e]}
  /\ UNCHANGED <<session, slot, pending, outstanding, kind, given, lapsed, mirror,
                 boots, seq>>

\* The task returns; its lease ends the mirror in the same poll.
Finish(e) ==
  /\ stage[e] \in {"running", "aborting"}
  /\ Move(e, "done")
  /\ mirror' = NoMirror
  /\ UNCHANGED <<session, slot, pending, outstanding, talk, boots, seq>>

\* The daemon is killed and started again: nothing of a session survives.
Restart ==
  /\ boots < MaxBoots
  /\ boots' = boots + 1
  /\ seq' = 0
  /\ session' = "free"
  /\ slot' = NoExec
  /\ pending' = NoToken
  /\ outstanding' = NoToken
  /\ stage' = [e \in Execs |-> IF stage[e] = "none" THEN "none" ELSE "done"]
  /\ asked' = [e \in Execs |-> NoToken]
  /\ closed' = (closed \cup {asked[e] : e \in Live}) \ {NoToken}
  /\ mirror' = NoMirror
  /\ UNCHANGED <<kind, given, lapsed>>

Work(e) == Finish(e) \/ \E k \in Kinds : Raise(e, k)
Drive == ReportPause \/ Collect
Plan(e) == PlanRefused(e) \/ SpawnAndDrive(e)

Next ==
  \/ \E e \in Execs :
       Execute(e) \/ Plan(e) \/ Work(e) \/ Hear(e) \/ Lapse(e) \/ TimeOut(e)
  \/ \E t \in Tokens, v \in Verbs : Confirm(t, v)
  \/ Drive
  \/ Restart

\* The runtime polls what is ready, the planning thread returns, an execution
\* has finitely many steps, and time passes.  Nothing is assumed of a client.
Fairness ==
  /\ WF_vars(Drive)
  /\ \A e \in Execs :
       /\ WF_vars(Plan(e))
       /\ WF_vars(Work(e))
       /\ WF_vars(Hear(e) \/ TimeOut(e))
       /\ WF_vars(Lapse(e))

Spec == Init /\ [][Next]_vars
FairSpec == Spec /\ Fairness

-----------------------------------------------------------------------------
TypeOK ==
  /\ session \in {"free", "pipeline", "driving"}
  /\ slot \in Execs \cup {NoExec}
  /\ pending \in Tokens \cup {NoToken}
  /\ outstanding \in Tokens \cup {NoToken}
  /\ stage \in [Execs -> Stages]
  /\ asked \in [Execs -> Tokens \cup {NoToken}]
  /\ kind \in [Tokens -> Kinds \cup {"unasked"}]
  /\ given \in [Tokens -> Verbs \cup {"nothing"}]
  /\ closed \subseteq Tokens
  /\ lapsed \subseteq Tokens
  /\ mirror \in [executing : BOOLEAN, pause : Tokens \cup {NoToken}]
  /\ boots \in 0..MaxBoots
  /\ seq \in Nat

\* At most one recovery is under way: a request never reaps one that is still
\* moving the machine.  (cmd_recover_execute: try_lock, then is_finished.)
OneRecovery == \A e, f \in Live : e = f

\* recover_state says "in flight" exactly while a recovery is, and "waiting for
\* an answer" only while one waits for that answer; in particular not after the
\* deadline took the question away.  (Observed, ExecutionLease, snapshot_at.)
MirrorIsTruthful ==
  /\ mirror.executing <=> Live # {}
  /\ Awaiting => \E e \in Live : stage[e] = "asking" /\ asked[e] = mirror.pause

\* A question that still waits can still be answered: it is on its way to
\* somebody who waits for it, or in the slot with the lock free.  A refused
\* request never makes one unanswerable.  (drive_session, recover_confirm.)
QuestionIsAnswerable ==
  \A e \in Execs : stage[e] = "asking" /\ given[asked[e]] = "nothing" =>
    /\ slot = e
    /\ \/ session = "driving" /\ pending = asked[e]
       \/ session = "free" /\ outstanding = asked[e]

\* Whatever clients do or leave undone, no recovery stays under way and the
\* socket is free to start one, again and again.  (The deadline of a
\* confirm-point, and the lock given up while one is outstanding.)
AcceptsAgain == []<>(session = "free" /\ Live = {})

At(stages) == \E e \in Execs : stage[e] \in stages
Phase ==
  CASE At({"pipeline", "running"}) -> "working"
    [] At({"asking"}) -> "waiting"
    [] At({"aborting"}) -> "ending"
    [] OTHER -> "idle"
Question ==
  IF At({"asking"}) THEN asked[CHOOSE e \in Execs : stage[e] = "asking"] ELSE NoToken

\* The conversation is the promised one: one recovery, each question new, one
\* answer to each, and the answer taken is the answer followed.
Session == INSTANCE RecoverySession WITH
  Questions <- Tokens, NoQuestion <- NoToken, phase <- Phase, question <- Question,
  kind <- kind, given <- given
ImplementsSession == Session!Spec
=============================================================================
