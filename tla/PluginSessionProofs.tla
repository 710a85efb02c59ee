------------------------- MODULE PluginSessionProofs -------------------------
(***************************************************************************)
(* Proofs about the control socket (ControlSocket) and about the plugin    *)
(* and the socket together (PluginSession), for every set of executions    *)
(* and every bound on questions and restarts.                              *)
(*                                                                         *)
(* Of the socket: one recovery at a time, a question that waits can be     *)
(* answered, the mirror tells the truth and the conversation is the one    *)
(* RecoverySession promises.  What the lock's holder does and what the     *)
(* slot holds determine how far the one recovery is (OwnerInv); a token is *)
(* new when it is drawn (FreshInv); and a token in the channel or in the   *)
(* slot is that of the question being waited on, or of one that nobody     *)
(* listens to any more (TokenInv).                                         *)
(*                                                                         *)
(* Every step of the composition is a step of ControlSocket or leaves it   *)
(* alone, so what is proved of the socket holds there, its invariant IInv  *)
(* included.  What the plugin publishes is true because of three ties: a   *)
(* request that plrd serves is about this session's own execution          *)
(* (ServedInv), a token in the plugin's hands is asked by no other         *)
(* (OwnInv), and a question reported to the plugin can only be given up    *)
(* while it waits to be answered (TalkInv).  That nobody is left waiting   *)
(* rests on a fourth: short of a failed call, the execution moves only     *)
(* while the plugin's request is served (WorkInv).  All of it holds until  *)
(* another client answers a question of this session's execution.  An      *)
(* answer can be rejected only by a daemon other than the one that asked,  *)
(* so nothing lives that it was about (BootInv).                           *)
(***************************************************************************)
EXTENDS PluginSession, TLAPS

Spawned == {"running", "asking", "aborting"}

OwnerInv ==
  /\ \A e \in Execs :
       /\ stage[e] = "pipeline" => session = "pipeline"
       /\ stage[e] \in Spawned => slot = e
       /\ stage[e] = "running" => session = "driving"
  /\ session = "pipeline" => slot = NoExec /\ \E e \in Execs : stage[e] = "pipeline"
  /\ session = "driving" => slot # NoExec
  /\ slot # NoExec => stage[slot] \in Spawned \cup {"done"}
  /\ slot = NoExec => outstanding = NoToken
  /\ pending # NoToken => session = "driving"

OnePlan == \A e, f \in Execs : stage[e] = "pipeline" /\ stage[f] = "pipeline" => e = f

\* A token of this boot that was not drawn yet, or of a later one.
Undrawn(t) == t[1] > boots \/ (t[1] = boots /\ t[2] >= seq)

FreshInv ==
  \A t \in Tokens : Undrawn(t) =>
    kind[t] = "unasked" /\ given[t] = "nothing" /\ t \notin closed /\ t \notin lapsed

\* t is what the execution in the slot waits on, unanswered.
WaitedOn(t) ==
  slot # NoExec /\ stage[slot] = "asking" /\ asked[slot] = t /\ given[t] = "nothing"

TokenInv ==
  /\ \A e \in Execs : asked[e] # NoToken => stage[e] = "asking"
  /\ \A e \in Execs : stage[e] = "asking" =>
       /\ asked[e] \in Tokens \ closed
       /\ kind[asked[e]] \in Kinds
       /\ given[asked[e]] # "nothing" => session = "driving" /\ pending = NoToken
                                                            /\ outstanding = NoToken
  /\ outstanding # NoToken => outstanding \in closed \/ WaitedOn(outstanding)
  /\ pending # NoToken =>
       (pending \in closed /\ stage[slot] # "running") \/ WaitedOn(pending)

IInv ==
  /\ TypeOK /\ OwnerInv /\ OnePlan /\ FreshInv /\ TokenInv
  /\ MirrorIsTruthful /\ QuestionIsAnswerable

-----------------------------------------------------------------------------
(* At most one recovery is under way: a request never reaps one that is    *)
(* still moving the machine.                                               *)
LEMMA OwnerIsOne == TypeOK /\ OwnerInv /\ OnePlan => OneRecovery
<1> SUFFICES ASSUME TypeOK, OwnerInv, OnePlan, NEW e \in Live, NEW f \in Live
             PROVE  e = f
  BY DEF OneRecovery
<1>1. /\ e \in Execs /\ stage[e] \in Spawned \cup {"pipeline"}
      /\ f \in Execs /\ stage[f] \in Spawned \cup {"pipeline"}
  BY DEF Live, Underway, Spawned
<1>. QED
  BY <1>1, SentinelAssumption DEF OwnerInv, OnePlan

LEMMA TokenTypes ==
  /\ \A b \in Nat, n \in Nat : TokenOf(b, n)[1] = b /\ TokenOf(b, n)[2] = n
  /\ \A t \in Tokens : t[1] \in Int /\ t[2] \in Int /\ t # NoToken
BY SentinelAssumption, BoundsAssumption DEF TokenOf

LEMMA TypeStep == TypeOK /\ TokenInv /\ [Next]_vars => TypeOK'
<1> SUFFICES ASSUME TypeOK, TokenInv, [Next]_vars PROVE TypeOK'
  OBVIOUS
<1>a. \A e \in Execs : stage[e] = "asking" => asked[e] \in Tokens
  BY DEF TokenInv
<1>. USE DEF TypeOK, Stages, Kinds, NoMirror, Begun
<1>1. CASE UNCHANGED vars
  BY <1>1 DEF vars, talk
<1>2. CASE \E e \in Execs : Execute(e)
  BY <1>2 DEF Execute, Move, talk
<1>3. CASE \E e \in Execs : PlanRefused(e)
  BY <1>3 DEF PlanRefused, Move, talk
<1>12. CASE \E e \in Execs : SpawnAndDrive(e)
  <2>1. PICK e \in Execs : SpawnAndDrive(e)
    BY <1>12
  <2>. QED
    BY <2>1 DEF SpawnAndDrive, Move, talk
<1>4. CASE \E e \in Execs : Finish(e)
  BY <1>4 DEF Finish, Move, talk
<1>5. CASE \E e \in Execs, k \in Kinds : Raise(e, k)
  <2>1. PICK e \in Execs, k \in Kinds : Raise(e, k)
    BY <1>5
  <2>2. TokenOf(boots, seq) \in Tokens
    BY <2>1, TokenTypes, BoundsAssumption DEF Raise
  <2>3. mirror' \in [executing : BOOLEAN, pause : Tokens \cup {NoToken}]
    BY <2>1, <2>2 DEF Raise, Published
  <2>4. seq' \in Nat
    BY <2>1, BoundsAssumption DEF Raise
  <2>. QED
    BY <2>1, <2>2, <2>3, <2>4 DEF Raise, Move
<1>6. CASE \E e \in Execs : Hear(e)
  <2>1. PICK e \in Execs : Hear(e)
    BY <1>6
  <2>2. asked[e] \in Tokens
    BY <1>a, <2>1 DEF Hear
  <2>. QED
    BY <2>1, <2>2 DEF Hear, Move, Published
<1>7. CASE \E e \in Execs : Lapse(e)
  BY <1>a, <1>7 DEF Lapse
<1>8. CASE \E e \in Execs : TimeOut(e)
  BY <1>a, <1>8 DEF TimeOut, Move
<1>9. CASE \E t \in Tokens, v \in Verbs : Confirm(t, v)
  BY <1>9 DEF Confirm
<1>10. CASE Drive
  BY <1>10 DEF Drive, ReportPause, Collect, talk
<1>11. CASE Restart
  <2>1. stage' \in [Execs -> Stages] /\ asked' \in [Execs -> Tokens \cup {NoToken}]
    BY <1>11 DEF Restart
  <2>2. closed' \subseteq Tokens
    BY <1>11 DEF Restart, Live
  <2>3. boots' \in 0..MaxBoots /\ seq' \in Nat
    BY <1>11, BoundsAssumption DEF Restart
  <2>. QED
    BY <1>11, <2>1, <2>2, <2>3 DEF Restart
<1>. QED
  BY <1>1, <1>2, <1>3, <1>4, <1>5, <1>6, <1>7, <1>8, <1>9, <1>10, <1>11, <1>12
     DEF Next, Work, Plan

-----------------------------------------------------------------------------
(* The invariant is inductive. *)
LEMMA ExecuteStep ==
  ASSUME IInv, TypeOK', NEW e \in Execs, Execute(e)
  PROVE  IInv'
<1>1. \A f \in Execs : stage[f] \in {"none", "done"}
  BY SentinelAssumption DEF Execute, SlotIsFree, IInv, TypeOK, OwnerInv, Spawned, Stages
<1>2. \A f \in Execs : stage'[f] = IF f = e THEN "pipeline" ELSE stage[f]
  BY DEF Execute, Move, IInv, TypeOK
<1>. USE SentinelAssumption DEF IInv, TypeOK, Execute, talk, Begun, Stages
<1>3. OwnerInv'
  BY <1>1, <1>2 DEF OwnerInv, Spawned
<1>4. OnePlan'
  BY <1>1, <1>2 DEF OnePlan
<1>5. FreshInv'
  BY <1>1, <1>2 DEF FreshInv, Undrawn
<1>6. TokenInv'
  BY <1>1, <1>2 DEF TokenInv, WaitedOn
<1>7. MirrorIsTruthful'
  BY <1>1, <1>2 DEF MirrorIsTruthful, Live, Underway, Awaiting
<1>8. QuestionIsAnswerable'
  BY <1>1, <1>2 DEF QuestionIsAnswerable
<1>. QED
  BY <1>3, <1>4, <1>5, <1>6, <1>7, <1>8

LEMMA PlanRefusedStep ==
  ASSUME IInv, TypeOK', NEW e \in Execs, PlanRefused(e)
  PROVE  IInv'
<1>1. \A f \in Execs : f # e => stage[f] \in {"none", "done"}
  BY SentinelAssumption DEF PlanRefused, IInv, TypeOK, OwnerInv, OnePlan, Spawned, Stages
<1>2. \A f \in Execs : stage'[f] = IF f = e THEN "done" ELSE stage[f]
  BY DEF PlanRefused, Move, IInv, TypeOK
<1>3. outstanding = NoToken /\ pending = NoToken
  BY DEF PlanRefused, IInv, OwnerInv
<1>. USE SentinelAssumption DEF IInv, TypeOK, PlanRefused, talk, NoMirror
<1>4. OwnerInv'
  BY <1>1, <1>2, <1>3 DEF OwnerInv, Spawned
<1>5. OnePlan'
  BY <1>1, <1>2, <1>3 DEF OnePlan
<1>6. FreshInv'
  BY <1>1, <1>2, <1>3 DEF FreshInv, Undrawn
<1>7. TokenInv'
  BY <1>1, <1>2, <1>3 DEF TokenInv, WaitedOn
<1>8. MirrorIsTruthful'
  BY <1>1, <1>2, <1>3 DEF MirrorIsTruthful, Live, Underway, Awaiting
<1>9. QuestionIsAnswerable'
  BY <1>1, <1>2, <1>3 DEF QuestionIsAnswerable
<1>. QED
  BY <1>4, <1>5, <1>6, <1>7, <1>8, <1>9

LEMMA SpawnStep ==
  ASSUME IInv, TypeOK', NEW e \in Execs, SpawnAndDrive(e)
  PROVE  IInv'
<1>1. \A f \in Execs : f # e => stage[f] \in {"none", "done"}
  BY SentinelAssumption DEF SpawnAndDrive, IInv, TypeOK, OwnerInv, OnePlan, Spawned, Stages
<1>2. \A f \in Execs : stage'[f] = IF f = e THEN "running" ELSE stage[f]
  BY DEF SpawnAndDrive, Move, IInv, TypeOK
<1>3. outstanding = NoToken /\ pending = NoToken
  BY DEF SpawnAndDrive, IInv, OwnerInv
<1>. USE SentinelAssumption DEF IInv, TypeOK, SpawnAndDrive, talk
<1>4. OwnerInv'
  BY <1>1, <1>2, <1>3 DEF OwnerInv, Spawned
<1>5. OnePlan'
  BY <1>1, <1>2, <1>3 DEF OnePlan
<1>6. FreshInv'
  BY <1>1, <1>2, <1>3 DEF FreshInv, Undrawn
<1>7. TokenInv'
  BY <1>1, <1>2, <1>3 DEF TokenInv, WaitedOn
<1>8. MirrorIsTruthful'
  BY <1>1, <1>2, <1>3 DEF MirrorIsTruthful, Live, Underway, Awaiting
<1>9. QuestionIsAnswerable'
  BY <1>1, <1>2, <1>3 DEF QuestionIsAnswerable
<1>. QED
  BY <1>4, <1>5, <1>6, <1>7, <1>8, <1>9

LEMMA FinishStep ==
  ASSUME IInv, TypeOK', NEW e \in Execs, Finish(e)
  PROVE  IInv'
<1>1. slot = e /\ \A f \in Execs : f # e => stage[f] \in {"none", "done"}
  BY SentinelAssumption DEF Finish, IInv, TypeOK, OwnerInv, OnePlan, Spawned, Stages
<1>2. \A f \in Execs : stage'[f] = IF f = e THEN "done" ELSE stage[f]
  BY DEF Finish, Move, IInv, TypeOK
<1>. USE SentinelAssumption DEF IInv, TypeOK, Finish, talk, NoMirror
<1>3. OwnerInv'
  BY <1>1, <1>2 DEF OwnerInv, Spawned
<1>4. OnePlan'
  BY <1>1, <1>2 DEF OnePlan
<1>5. FreshInv'
  BY <1>1, <1>2 DEF FreshInv, Undrawn
<1>6. TokenInv'
  BY <1>1, <1>2 DEF TokenInv, WaitedOn
<1>7. MirrorIsTruthful'
  BY <1>1, <1>2 DEF MirrorIsTruthful, Live, Underway, Awaiting
<1>8. QuestionIsAnswerable'
  BY <1>1, <1>2 DEF QuestionIsAnswerable
<1>. QED
  BY <1>3, <1>4, <1>5, <1>6, <1>7, <1>8

LEMMA ReportStep ==
  ASSUME IInv, TypeOK', ReportPause
  PROVE  IInv'
<1>1. slot # NoExec /\ stage[slot] # "running"
  BY DEF ReportPause, IInv, OwnerInv, TokenInv, WaitedOn
<1>. USE SentinelAssumption DEF IInv, TypeOK, ReportPause, talk
<1>2. OwnerInv'
  BY <1>1 DEF OwnerInv, Spawned
<1>3. OnePlan'
  BY <1>1 DEF OnePlan
<1>4. FreshInv'
  BY <1>1 DEF FreshInv, Undrawn
<1>5. TokenInv'
  BY <1>1 DEF TokenInv, WaitedOn
<1>6. MirrorIsTruthful'
  BY <1>1 DEF MirrorIsTruthful, Live, Underway, Awaiting
<1>7. QuestionIsAnswerable'
  BY <1>1 DEF QuestionIsAnswerable
<1>. QED
  BY <1>2, <1>3, <1>4, <1>5, <1>6, <1>7

LEMMA CollectStep ==
  ASSUME IInv, TypeOK', Collect
  PROVE  IInv'
<1>1. \A f \in Execs : stage[f] \notin Spawned
  BY DEF Collect, IInv, OwnerInv, Spawned
<1>2. UNCHANGED <<stage, asked, kind, given, closed>> /\ outstanding' = NoToken /\ pending' = NoToken
  BY DEF Collect, talk
<1>. USE SentinelAssumption DEF IInv, TypeOK, Collect, talk, Spawned
<1>3. OwnerInv'
  BY <1>1, <1>2 DEF OwnerInv, Spawned
<1>4. OnePlan'
  BY <1>1, <1>2 DEF OnePlan
<1>5. FreshInv'
  BY <1>1, <1>2 DEF FreshInv, Undrawn
<1>6. TokenInv'
  BY <1>1, <1>2 DEF TokenInv, WaitedOn
<1>7. MirrorIsTruthful'
  BY <1>1, <1>2 DEF MirrorIsTruthful, Live, Underway, Awaiting
<1>8. QuestionIsAnswerable'
  BY <1>1, <1>2 DEF QuestionIsAnswerable
<1>. QED
  BY <1>3, <1>4, <1>5, <1>6, <1>7, <1>8

LEMMA RaiseStep ==
  ASSUME IInv, TypeOK', NEW e \in Execs, NEW k \in Kinds, Raise(e, k)
  PROVE  IInv'
<1>1. slot = e /\ \A f \in Execs : f # e => stage[f] \in {"none", "done"}
  BY SentinelAssumption DEF Raise, IInv, TypeOK, OwnerInv, OnePlan, Spawned, Stages
<1>2. \A f \in Execs : stage'[f] = IF f = e THEN "asking" ELSE stage[f]
  BY DEF Raise, Move, IInv, TypeOK
<1>3. /\ TokenOf(boots, seq) \in Tokens /\ Undrawn(TokenOf(boots, seq))
      /\ \A t \in Tokens : Undrawn(t)' => Undrawn(t) /\ t # TokenOf(boots, seq)
  BY TokenTypes, BoundsAssumption DEF Raise, IInv, TypeOK, Undrawn
<1>4. \A f \in Execs : asked'[f] = IF f = e THEN TokenOf(boots, seq) ELSE asked[f]
  BY DEF Raise, IInv, TypeOK
<1>5. /\ TokenOf(boots, seq) # NoToken /\ TokenOf(boots, seq) \notin closed
      /\ kind[TokenOf(boots, seq)] = "unasked" /\ given[TokenOf(boots, seq)] = "nothing"
  BY <1>3, SentinelAssumption DEF IInv, FreshInv
<1>6. \A t \in Tokens : kind'[t] = IF t = TokenOf(boots, seq) THEN k ELSE kind[t]
  BY DEF Raise, IInv, TypeOK
<1>7. /\ session = "driving" /\ UNCHANGED <<session, slot, outstanding, given, closed>>
      /\ pending' = TokenOf(boots, seq)
      /\ outstanding # NoToken => outstanding \in closed
  BY <1>1 DEF Raise, IInv, OwnerInv, TokenInv, WaitedOn
<1>. USE SentinelAssumption DEF IInv, TypeOK, Raise, Published, Kinds
<1>8. OwnerInv'
  BY <1>1, <1>2, <1>3, <1>4, <1>5, <1>6, <1>7 DEF OwnerInv, Spawned
<1>9. OnePlan'
  BY <1>1, <1>2, <1>3, <1>4, <1>5, <1>6, <1>7 DEF OnePlan
<1>10. FreshInv'
  BY <1>1, <1>2, <1>3, <1>4, <1>5, <1>6, <1>7 DEF FreshInv, Undrawn
<1>11. TokenInv'
  BY <1>1, <1>2, <1>4, <1>3, <1>5, <1>6, <1>7, SentinelAssumption DEF IInv, TokenInv, WaitedOn
<1>12. MirrorIsTruthful'
  BY <1>1, <1>2, <1>3, <1>4, <1>5, <1>6, <1>7 DEF MirrorIsTruthful, Live, Underway, Awaiting
<1>13. QuestionIsAnswerable'
  BY <1>1, <1>2, <1>4, <1>3, <1>5, <1>7 DEF QuestionIsAnswerable
<1>. QED
  BY <1>8, <1>9, <1>10, <1>11, <1>12, <1>13

LEMMA HearStep ==
  ASSUME IInv, TypeOK', NEW e \in Execs, Hear(e)
  PROVE  IInv'
<1>1. slot = e /\ \A f \in Execs : f # e => stage[f] \in {"none", "done"}
  BY SentinelAssumption DEF Hear, IInv, TypeOK, OwnerInv, OnePlan, Spawned, Stages
<1>2. \A f \in Execs :
        stage'[f] = IF f # e THEN stage[f]
                    ELSE IF given[asked[e]] = "abort" THEN "aborting" ELSE "running"
  BY DEF Hear, Move, IInv, TypeOK
<1>3. \A f \in Execs : asked'[f] = IF f = e THEN NoToken ELSE asked[f]
  BY DEF Hear, IInv, TypeOK
<1>4. asked[e] \in Tokens /\ ~Undrawn(asked[e])
  BY DEF Hear, IInv, TokenInv, FreshInv, Kinds
<1>5. session = "driving" /\ pending = NoToken /\ outstanding = NoToken /\ asked[e] \in Tokens
  BY DEF Hear, IInv, TokenInv
<1>. USE SentinelAssumption DEF IInv, TypeOK, Hear, Published
<1>6. OwnerInv'
  BY <1>1, <1>2, <1>3, <1>4, <1>5 DEF OwnerInv, Spawned
<1>7. OnePlan'
  BY <1>1, <1>2, <1>3, <1>4, <1>5 DEF OnePlan
<1>8. FreshInv'
  BY <1>1, <1>2, <1>3, <1>4, <1>5 DEF FreshInv, Undrawn
<1>9. TokenInv'
  BY <1>1, <1>2, <1>3, <1>4, <1>5 DEF TokenInv, WaitedOn
<1>10. MirrorIsTruthful'
  BY <1>1, <1>2, <1>3, <1>4, <1>5 DEF MirrorIsTruthful, Live, Underway, Awaiting
<1>11. QuestionIsAnswerable'
  BY <1>1, <1>2, <1>3, <1>4, <1>5 DEF QuestionIsAnswerable
<1>. QED
  BY <1>6, <1>7, <1>8, <1>9, <1>10, <1>11

LEMMA LapseStep ==
  ASSUME IInv, TypeOK', NEW e \in Execs, Lapse(e)
  PROVE  IInv'
<1>1. slot = e /\ \A f \in Execs : f # e => stage[f] \in {"none", "done"}
  BY SentinelAssumption DEF Lapse, IInv, TypeOK, OwnerInv, OnePlan, Spawned, Stages
<1>2. asked[e] \in Tokens /\ ~Undrawn(asked[e])
  BY DEF Lapse, IInv, TokenInv, FreshInv, Kinds
<1>. USE SentinelAssumption DEF IInv, TypeOK, Lapse
<1>3. OwnerInv'
  BY <1>1, <1>2 DEF OwnerInv, Spawned
<1>4. OnePlan'
  BY <1>1, <1>2 DEF OnePlan
<1>5. FreshInv'
  BY <1>1, <1>2 DEF FreshInv, Undrawn
<1>6. TokenInv'
  BY <1>1, <1>2 DEF TokenInv, WaitedOn
<1>7. MirrorIsTruthful'
  BY <1>1, <1>2 DEF MirrorIsTruthful, Live, Underway, Awaiting
<1>8. QuestionIsAnswerable'
  BY <1>1, <1>2 DEF QuestionIsAnswerable
<1>. QED
  BY <1>3, <1>4, <1>5, <1>6, <1>7, <1>8

LEMMA TimeOutStep ==
  ASSUME IInv, TypeOK', NEW e \in Execs, TimeOut(e)
  PROVE  IInv'
<1>1. slot = e /\ \A f \in Execs : f # e => stage[f] \in {"none", "done"}
  BY SentinelAssumption DEF TimeOut, IInv, TypeOK, OwnerInv, OnePlan, Spawned, Stages
<1>2. \A f \in Execs : stage'[f] = IF f = e THEN "aborting" ELSE stage[f]
  BY DEF TimeOut, Move, IInv, TypeOK
<1>3. \A f \in Execs : asked'[f] = IF f = e THEN NoToken ELSE asked[f]
  BY DEF TimeOut, IInv, TypeOK
<1>4. asked[e] \in Tokens /\ ~Undrawn(asked[e])
  BY DEF TimeOut, IInv, TokenInv, FreshInv, Kinds
<1>. USE SentinelAssumption DEF IInv, TypeOK, TimeOut, Unanswered
<1>5. OwnerInv'
  BY <1>1, <1>2, <1>3, <1>4 DEF OwnerInv, Spawned
<1>6. OnePlan'
  BY <1>1, <1>2, <1>3, <1>4 DEF OnePlan
<1>7. FreshInv'
  BY <1>1, <1>2, <1>3, <1>4 DEF FreshInv, Undrawn
<1>8. TokenInv'
  BY <1>1, <1>2, <1>3, <1>4 DEF TokenInv, WaitedOn
<1>9. MirrorIsTruthful'
  BY <1>1, <1>2, <1>3, <1>4 DEF MirrorIsTruthful, Live, Underway, Awaiting
<1>10. QuestionIsAnswerable'
  BY <1>1, <1>2, <1>3, <1>4 DEF QuestionIsAnswerable
<1>. QED
  BY <1>5, <1>6, <1>7, <1>8, <1>9, <1>10

LEMMA ConfirmStep ==
  ASSUME IInv, TypeOK', NEW t \in Tokens, NEW v \in Verbs, Confirm(t, v)
  PROVE  IInv'
<1>1. /\ slot \in Execs /\ session = "free" /\ pending = NoToken /\ t # NoToken
      /\ UNCHANGED <<slot, pending, stage, asked, kind, closed, lapsed, mirror, boots, seq>>
      /\ outstanding' = NoToken
  BY SentinelAssumption DEF Confirm, IInv, TypeOK, OwnerInv
<1>2. \A f \in Execs : stage[f] = "asking" => given[asked[f]] = "nothing" /\ slot = f /\ asked[f] = t
  BY <1>1, SentinelAssumption DEF Confirm, IInv, TokenInv, QuestionIsAnswerable
<1>3. t \notin closed => stage[slot] = "asking" /\ ~Undrawn(t)
  BY <1>1 DEF Confirm, IInv, TokenInv, WaitedOn, FreshInv, Kinds
<1>4. IF t \in closed THEN UNCHANGED <<given, session>>
      ELSE session' = "driving" /\ \A u \in Tokens : given'[u] = IF u = t THEN v ELSE given[u]
  BY DEF Confirm, IInv, TypeOK
<1>5. v # "nothing"
  BY DEF Verbs, BinaryVerbs, PreviewVerbs
<1>. USE SentinelAssumption DEF IInv, TypeOK, Confirm
<1>6. OwnerInv'
  BY <1>1, <1>3, <1>4, SentinelAssumption DEF IInv, TypeOK, OwnerInv, Spawned
<1>7. OnePlan'
  BY <1>1, <1>2, <1>3, <1>4, <1>5 DEF OnePlan
<1>8. FreshInv'
  BY <1>1, <1>3, <1>4 DEF IInv, FreshInv, Undrawn
<1>9. TokenInv'
  BY <1>1, <1>2, <1>3, <1>4 DEF IInv, TokenInv, WaitedOn
<1>10. MirrorIsTruthful'
  BY <1>1, <1>2, <1>3, <1>4, <1>5 DEF MirrorIsTruthful, Live, Underway, Awaiting
<1>11. QuestionIsAnswerable'
  BY <1>1, <1>2, <1>3, <1>4, <1>5 DEF IInv, TokenInv, QuestionIsAnswerable
<1>. QED
  BY <1>6, <1>7, <1>8, <1>9, <1>10, <1>11

LEMMA RestartStep ==
  ASSUME IInv, TypeOK', Restart
  PROVE  IInv'
<1>1. \A f \in Execs : stage'[f] \in {"none", "done"}
  BY DEF Restart
<1>2. \A t \in Tokens : Undrawn(t)' => Undrawn(t)
  BY TokenTypes DEF Restart, Undrawn, IInv, TypeOK
<1>3. \A f \in Live : asked[f] # NoToken => asked[f] \in Tokens /\ ~Undrawn(asked[f])
  BY DEF Live, IInv, TokenInv, FreshInv, Kinds
<1>. USE SentinelAssumption DEF IInv, TypeOK, Restart, Live, Underway, NoMirror
<1>4. OwnerInv'
  BY <1>1, <1>2, <1>3 DEF OwnerInv, Spawned
<1>5. OnePlan'
  BY <1>1, <1>2, <1>3 DEF OnePlan
<1>6. FreshInv'
  BY <1>1, <1>2, <1>3 DEF FreshInv, Undrawn
<1>7. TokenInv'
  BY <1>1, <1>2, <1>3 DEF TokenInv, WaitedOn
<1>8. MirrorIsTruthful'
  BY <1>1, <1>2, <1>3 DEF MirrorIsTruthful, Live, Underway, Awaiting
<1>9. QuestionIsAnswerable'
  BY <1>1, <1>2, <1>3 DEF QuestionIsAnswerable
<1>. QED
  BY <1>4, <1>5, <1>6, <1>7, <1>8, <1>9
-----------------------------------------------------------------------------
LEMMA InitInv == Init => IInv
<1> SUFFICES ASSUME Init PROVE IInv
  OBVIOUS
<1>1. TypeOK
  BY BoundsAssumption DEF Init, TypeOK, Stages, NoMirror
<1>2. OwnerInv /\ OnePlan /\ FreshInv /\ TokenInv
  BY DEF Init, OwnerInv, Spawned, OnePlan, FreshInv, TokenInv
<1>3. MirrorIsTruthful /\ QuestionIsAnswerable
  BY DEF Init, MirrorIsTruthful, QuestionIsAnswerable, Awaiting, NoMirror, Live, Underway
<1>. QED
  BY <1>1, <1>2, <1>3 DEF IInv

LEMMA NextInv == IInv /\ [Next]_vars => IInv'
<1> SUFFICES ASSUME IInv, [Next]_vars PROVE IInv'
  OBVIOUS
<1>1. TypeOK'
  BY TypeStep DEF IInv
<1>2. CASE UNCHANGED vars
  BY <1>2 DEF vars, talk, IInv, TypeOK, OwnerInv, Spawned, OnePlan, FreshInv, Undrawn,
              TokenInv, WaitedOn, MirrorIsTruthful, Awaiting, Live, QuestionIsAnswerable
<1>3. CASE Next
  BY <1>1, <1>3, ExecuteStep, PlanRefusedStep, SpawnStep, FinishStep, ReportStep,
     CollectStep, RaiseStep, HearStep, LapseStep, TimeOutStep, ConfirmStep, RestartStep
     DEF Next, Plan, Work, Drive
<1>. QED
  BY <1>2, <1>3

LEMMA StrongInvariant == Spec => []IInv
<1>. QED
  BY InitInv, NextInv, PTL DEF Spec

(* At most one recovery is under way: a request never reaps one that is    *)
(* still moving the machine (cmd_recover_execute).                         *)
THEOREM OneRecoveryAtATime == Spec => []OneRecovery
<1>1. IInv => OneRecovery
  BY OwnerIsOne DEF IInv
<1>. QED
  BY <1>1, StrongInvariant, PTL

(* recover_state says "in flight" exactly while a recovery is, and         *)
(* "waiting" only while one waits for that answer (snapshot_at).           *)
THEOREM MirrorTellsTheTruth == Spec => []MirrorIsTruthful
<1>1. IInv => MirrorIsTruthful
  BY DEF IInv
<1>. QED
  BY <1>1, StrongInvariant, PTL

(* A question that still waits can still be answered (drive_session,       *)
(* recover_confirm).                                                       *)
THEOREM WaitingQuestionIsAnswerable == Spec => []QuestionIsAnswerable
<1>1. IInv => QuestionIsAnswerable
  BY DEF IInv
<1>. QED
  BY <1>1, StrongInvariant, PTL

-----------------------------------------------------------------------------
(* The refinement: the phase and the question as the one recovery has them.*)

PhaseOf(s) ==
  CASE s \in {"pipeline", "running"} -> "working"
    [] s = "asking" -> "waiting"
    [] OTHER -> "ending"

PhaseIn(st) ==
  LET Is(stages) == \E e \in Execs : st[e] \in stages
  IN  CASE Is({"pipeline", "running"}) -> "working"
        [] Is({"asking"}) -> "waiting"
        [] Is({"aborting"}) -> "ending"
        [] OTHER -> "idle"
QuestionIn(st, as) ==
  IF \E e \in Execs : st[e] = "asking"
  THEN as[CHOOSE e \in Execs : st[e] = "asking"] ELSE NoToken

LEMMA PhaseOfTheOne ==
  ASSUME NEW st, NEW as,
         \A e, f \in Execs : st[e] \in Underway /\ st[f] \in Underway => e = f
  PROVE  /\ (\A e \in Execs : st[e] \notin Underway) =>
              PhaseIn(st) = "idle" /\ QuestionIn(st, as) = NoToken
         /\ \A e \in Execs : st[e] \in Underway =>
              /\ PhaseIn(st) = PhaseOf(st[e])
              /\ QuestionIn(st, as) = IF st[e] = "asking" THEN as[e] ELSE NoToken
<1>. DEFINE Is(stages) == \E e \in Execs : st[e] \in stages
<1>1. ASSUME \A e \in Execs : st[e] \notin Underway
      PROVE  PhaseIn(st) = "idle" /\ QuestionIn(st, as) = NoToken
  <2>1. ~Is({"pipeline", "running"}) /\ ~Is({"asking"}) /\ ~Is({"aborting"})
    BY <1>1 DEF Underway
  <2>. QED
    BY <1>1, <2>1 DEF PhaseIn, QuestionIn, Underway
<1>2. ASSUME NEW e \in Execs, st[e] \in Underway
      PROVE  /\ PhaseIn(st) = PhaseOf(st[e])
             /\ QuestionIn(st, as) = IF st[e] = "asking" THEN as[e] ELSE NoToken
  <2>1. \A f \in Execs : st[f] \in Underway => f = e
    BY <1>2
  <2>2. \A S \in SUBSET Underway : Is(S) <=> st[e] \in S
    BY <1>2, <2>1
  <2>3. /\ Is({"pipeline", "running"}) <=> st[e] \in {"pipeline", "running"}
        /\ Is({"asking"}) <=> st[e] = "asking"
        /\ Is({"aborting"}) <=> st[e] = "aborting"
    BY <2>2 DEF Underway
  <2>4. st[e] = "asking" => (CHOOSE f \in Execs : st[f] = "asking") = e
    BY <2>1 DEF Underway
  <2>5. PhaseIn(st) = PhaseOf(st[e])
    BY <1>2, <2>3 DEF PhaseIn, PhaseOf, Underway
  <2>. QED
    BY <1>2, <2>1, <2>4, <2>5 DEF QuestionIn, Underway
<1>. QED
  BY <1>1, <1>2

LEMMA MapNow ==
  ASSUME IInv
  PROVE  /\ Live = {} => Phase = "idle" /\ Question = NoToken
         /\ \A e \in Live : /\ Phase = PhaseOf(stage[e])
                            /\ Question = IF stage[e] = "asking" THEN asked[e] ELSE NoToken
<1>1. \A e, f \in Execs : stage[e] \in Underway /\ stage[f] \in Underway => e = f
  BY OwnerIsOne DEF IInv, OneRecovery, Live
<1>2. Phase = PhaseIn(stage) /\ Question = QuestionIn(stage, asked)
  BY DEF Phase, Question, At, PhaseIn, QuestionIn
<1>. QED
  BY <1>1, <1>2, PhaseOfTheOne DEF Live

LEMMA MapThen ==
  ASSUME IInv'
  PROVE  /\ Live' = {} => Phase' = "idle" /\ Question' = NoToken
         /\ \A e \in Live' : /\ Phase' = PhaseOf(stage'[e])
                             /\ Question' = IF stage'[e] = "asking" THEN asked'[e] ELSE NoToken
<1>1. \A e, f \in Execs : stage'[e] \in Underway /\ stage'[f] \in Underway => e = f
  <2>1. OneRecovery'
    BY OwnerIsOne, PTL DEF IInv
  <2>. QED
    BY <2>1 DEF OneRecovery, Live
<1>2. Phase' = PhaseIn(stage') /\ Question' = QuestionIn(stage', asked')
  BY DEF Phase, Question, At, PhaseIn, QuestionIn
<1>. QED
  BY <1>1, <1>2, PhaseOfTheOne DEF Live

(* Steps that move neither the phase, nor the question, nor an answer.     *)
LEMMA Unseen ==
  ASSUME IInv, IInv', UNCHANGED <<kind, given, asked>>,
         Live' = Live, \A e \in Live : PhaseOf(stage'[e]) = PhaseOf(stage[e]),
         \A e \in Live : stage'[e] = "asking" <=> stage[e] = "asking"
  PROVE  UNCHANGED Session!vars
<1>1. Phase' = Phase /\ Question' = Question
  BY MapNow, MapThen
<1>. QED
  BY <1>1 DEF Session!vars

LEMMA RefineInit == Init => Session!Init
<1> SUFFICES ASSUME Init PROVE Session!Init
  OBVIOUS
<1>1. Live = {} /\ IInv
  BY InitInv DEF Init, Live, Underway
<1>. QED
  BY <1>1, MapNow DEF Init, Session!Init

LEMMA RefineStep ==
  ASSUME IInv, IInv', Next
  PROVE  Session!Next \/ UNCHANGED Session!vars
<1>. USE DEF PhaseOf
<1>0. OneRecovery /\ OneRecovery'
  BY OwnerIsOne, PTL DEF IInv
<1>1. CASE \E e \in Execs : Execute(e)
  <2>1. PICK e \in Execs : Execute(e)
    BY <1>1
  <2>2. Live = {} /\ stage'[e] = "pipeline" /\ e \in Live'
    BY <2>1, SentinelAssumption
       DEF Execute, SlotIsFree, Move, IInv, TypeOK, OwnerInv, Spawned, Live, Underway
  <2>3. Phase = "idle" /\ Question = NoToken /\ Phase' = "working" /\ Question' = NoToken
    BY <2>2, MapNow, MapThen
  <2>. QED
    BY <2>1, <2>3 DEF Session!Next, Session!Start, Execute, talk
<1>2. CASE \E e \in Execs : PlanRefused(e) \/ Finish(e)
  <2>1. PICK e \in Execs : PlanRefused(e) \/ Finish(e)
    BY <1>2
  <2>2. e \in Live /\ stage[e] \in {"pipeline", "running", "aborting"}
    BY <2>1 DEF PlanRefused, Finish, Live, Underway
  <2>3. Live' = {}
    BY <1>0, <2>1, <2>2 DEF PlanRefused, Finish, Move, OneRecovery, Live, Underway, IInv, TypeOK
  <2>4. /\ Phase \in {"working", "ending"} /\ Question = NoToken
        /\ Phase' = "idle" /\ Question' = NoToken
    BY <2>2, <2>3, MapNow, MapThen
  <2>. QED
    BY <2>1, <2>4 DEF Session!Next, Session!End, PlanRefused, Finish, talk
<1>3. CASE \E e \in Execs : SpawnAndDrive(e)
  <2>1. PICK e \in Execs : SpawnAndDrive(e)
    BY <1>3
  <2>2. \A f \in Execs : stage'[f] = IF f = e THEN "running" ELSE stage[f]
    BY <2>1 DEF SpawnAndDrive, Move, IInv, TypeOK
  <2>3. Live' = Live /\ \A f \in Live : PhaseOf(stage'[f]) = PhaseOf(stage[f])
                        /\ (stage'[f] = "asking" <=> stage[f] = "asking")
    BY <2>1, <2>2 DEF SpawnAndDrive, Live, Underway
  <2>. QED
    BY <2>1, <2>3, Unseen DEF SpawnAndDrive, talk
<1>4. CASE Drive \/ \E e \in Execs : Lapse(e)
  <2>1. UNCHANGED <<stage, kind, given, asked>>
    BY <1>4 DEF Drive, ReportPause, Collect, Lapse, talk
  <2>. QED
    BY <2>1, Unseen DEF Live
<1>5. CASE \E e \in Execs, k \in Kinds : Raise(e, k)
  <2>1. PICK e \in Execs, k \in Kinds : Raise(e, k)
    BY <1>5
  <2>2. e \in Live /\ stage[e] = "running" /\ e \in Live' /\ stage'[e] = "asking"
        /\ asked'[e] = TokenOf(boots, seq)
    BY <2>1 DEF Raise, Move, Live, Underway, IInv, TypeOK
  <2>3. TokenOf(boots, seq) \in Tokens /\ kind[TokenOf(boots, seq)] = "unasked"
    BY <2>1, TokenTypes, BoundsAssumption DEF Raise, IInv, TypeOK, FreshInv, Undrawn
  <2>4. Phase = "working" /\ Phase' = "waiting" /\ Question' = TokenOf(boots, seq)
    BY <2>2, MapNow, MapThen
  <2>5. /\ kind' = [kind EXCEPT ![TokenOf(boots, seq)] = k]
        /\ given' = given /\ k \in Session!Kinds
    BY <2>1 DEF Raise, Kinds, Session!Kinds
  <2>. QED
    BY <2>3, <2>4, <2>5 DEF Session!Next, Session!Ask
<1>6. CASE \E e \in Execs : Hear(e)
  <2>1. PICK e \in Execs : Hear(e)
    BY <1>6
  <2>2. /\ e \in Live /\ stage[e] = "asking" /\ given[asked[e]] # "nothing" /\ e \in Live'
        /\ stage'[e] = IF given[asked[e]] = "abort" THEN "aborting" ELSE "running"
    BY <2>1 DEF Hear, Move, Live, Underway, IInv, TypeOK
  <2>3. /\ Phase = "waiting" /\ Question = asked[e] /\ Question' = NoToken
        /\ Phase' = IF given[asked[e]] = "abort" THEN "ending" ELSE "working"
    BY <2>2, MapNow, MapThen
  <2>. QED
    BY <2>1, <2>2, <2>3 DEF Session!Next, Session!Hear, Hear
<1>7. CASE \E e \in Execs : TimeOut(e)
  <2>1. PICK e \in Execs : TimeOut(e)
    BY <1>7
  <2>2. /\ e \in Live /\ stage[e] = "asking" /\ given[asked[e]] = "nothing"
        /\ e \in Live' /\ stage'[e] = "aborting"
    BY <2>1 DEF TimeOut, Unanswered, Move, Live, Underway, IInv, TypeOK
  <2>3. /\ Phase = "waiting" /\ Question = asked[e]
        /\ Phase' = "ending" /\ Question' = NoToken
    BY <2>2, MapNow, MapThen
  <2>. QED
    BY <2>1, <2>2, <2>3 DEF Session!Next, Session!Lapse, TimeOut
<1>8. CASE \E t \in Tokens, v \in Verbs : Confirm(t, v)
  <2>1. PICK t \in Tokens, v \in Verbs : Confirm(t, v)
    BY <1>8
  <2>2. CASE t \in closed
    <3>1. UNCHANGED <<stage, kind, given, asked>>
      BY <2>1, <2>2 DEF Confirm
    <3>. QED
      BY <3>1, Unseen DEF Live
  <2>3. CASE t \notin closed
    <3>1. WaitedOn(t)
      BY <2>1, <2>3, SentinelAssumption DEF Confirm, IInv, TokenInv
    <3>2. slot \in Live /\ Live' = Live /\ UNCHANGED <<stage, asked, kind>>
      BY <2>1, <3>1 DEF WaitedOn, Confirm, IInv, TypeOK, Live, Underway
    <3>3. /\ Phase = "waiting" /\ Question = t
          /\ Phase' = "waiting" /\ Question' = t
      BY <3>1, <3>2, MapNow, MapThen DEF WaitedOn
    <3>4. given[t] = "nothing" /\ given' = [given EXCEPT ![t] = v]
          /\ v \in Session!Vocabulary(kind[t])
      BY <2>1, <2>3, <3>1 DEF WaitedOn, Confirm, Vocabulary, Session!Vocabulary,
         BinaryVerbs, PreviewVerbs, Session!BinaryVerbs, Session!PreviewVerbs
    <3>. QED
      BY <3>2, <3>3, <3>4 DEF Session!Next, Session!Give
  <2>. QED
    BY <2>2, <2>3
<1>9. CASE Restart
  <2>1. Live' = {}
    BY <1>9 DEF Restart, Live, Underway
  <2>2. Phase' = "idle" /\ Question' = NoToken
    BY <2>1, MapThen
  <2>. QED
    BY <1>9, <2>2 DEF Session!Next, Session!Killed, Restart
<1>. QED
  BY <1>1, <1>2, <1>3, <1>4, <1>5, <1>6, <1>7, <1>8, <1>9 DEF Next, Work, Plan

(* The conversation over the socket is the one RecoverySession promises:   *)
(* one recovery, each question new, one answer to each in its vocabulary,  *)
(* and the answer taken is the answer followed (ctrlsock.rs, executor.rs   *)
(* SocketConfirmer).                                                       *)
THEOREM KeepsTheSession == Spec => ImplementsSession
<1>1. IInv /\ IInv' /\ [Next]_vars => [Session!Next]_(Session!vars)
  <2> SUFFICES ASSUME IInv, IInv', [Next]_vars
               PROVE  Session!Next \/ UNCHANGED Session!vars
    OBVIOUS
  <2>1. CASE UNCHANGED vars
    <3>1. UNCHANGED <<stage, kind, given, asked>>
      BY <2>1 DEF vars, talk
    <3>. QED
      BY <3>1, Unseen DEF Live
  <2>. QED
    BY <2>1, RefineStep
<1>. QED
  BY <1>1, RefineInit, StrongInvariant, PTL DEF Spec, ImplementsSession, Session!Spec
-----------------------------------------------------------------------------
(* The plugin and the socket together. *)

\* Nothing is known to run: at most an abort that is still cleaning up, or what
\* another client has taken over.
Tired == OursIsLive => gaveUp /\ (stage[ours] = "aborting" \/ usurped)

CallInv ==
  /\ call.at = "none" => call.what = "nothing" /\ call.token = NoToken
  /\ call.at # "none" => ui = "running" /\ held = NoToken
  /\ ui = "awaiting" /\ held = NoToken => ~OursIsLive
  /\ call.at = "sent" => call.what \in Verbs \cup {"execute"}
  /\ call.at = "sent" => (call.what = "execute" <=> call.token = NoToken)
  /\ call.what = "execute" => call.prior \in {"idle", "plrd_busy", "unknown"}
  /\ call.what = "rejected" => call.prior \in {"idle", "plrd_busy", "unknown"} \/ ~OursIsLive
  /\ call.at = "replied" => call.what \in Replies \ {"malformed"}
  /\ call.at \in {"none", "sent", "served"} => call.what \notin Replies
  /\ call.what = "pause" => call.token # NoToken
  /\ call.what \in Replies \ {"pause", "busy", "malformed"} => call.token = NoToken
  /\ call.what = "terminal" => ~OursIsLive

\* A request that is served is about the execution of this session, which has
\* been started.
ServedInv ==
  /\ ours # NoExec => stage[ours] # "none"
  /\ call.at = "served" =>
       \/ session = "pipeline" /\ ours # NoExec /\ stage[ours] = "pipeline"
       \/ session = "driving" /\ slot = ours

\* A token in the plugin's hands is not new, and no other waits on it.
Mine(t) == ~Undrawn(t) /\ \A e \in Execs : asked[e] = t => e = ours
OwnInv ==
  /\ held # NoToken => Mine(held)
  /\ call.token # NoToken => Mine(call.token)

Sentlike == call.at \in {"sent", "replied"} /\ call.what \in {"execute", "rejected"}
IdleInv == ui = "idle" \/ (Sentlike /\ call.prior = "idle") => Tired

\* t is what our execution waits on, unless it is being aborted, or answered
\* by another client.
Talks(t) ==
  OursIsLive =>
    \/ usurped \/ stage[ours] = "aborting"
    \/ stage[ours] = "asking" /\ asked[ours] = t /\ given[t] \in {"nothing", "abort"}
TalkInv ==
  /\ held # NoToken /\ ui \in {"awaiting", "unknown"} => Talks(held)
  /\ call.what = "pause" => Talks(call.token)

\* Short of a failed call and of another client, our execution moves only while
\* a request is served.
WorkInv ==
  OursIsLive /\ ~forsaken /\ ~usurped /\ call.at # "served" =>
    /\ stage[ours] \notin {"pipeline", "running"}
    /\ stage[ours] = "asking" => given[asked[ours]] \in {"nothing", "abort"}
    /\ session = "driving" /\ slot = ours =>
         \/ stage[ours] = "aborting"
         \/ stage[ours] = "asking" /\ given[asked[ours]] = "abort"

\* A question on its way was asked by the daemon that runs; so was one of our
\* execution, while that lives.
BootInv ==
  /\ pending # NoToken => pending[1] = boots
  /\ OursIsLive =>
       /\ held # NoToken => held[1] = boots
       /\ call.token # NoToken => call.token[1] = boots

CallType ==
  [at : {"none", "sent", "served", "replied"},
   what : Replies \cup Verbs \cup {"nothing", "execute"},
   token : Tokens \cup {NoToken},
   prior : UiStates]

Ties ==
  /\ PluginTypeOK
  /\ CallInv /\ ServedInv /\ OwnInv /\ IdleInv /\ TalkInv /\ WorkInv
  /\ NobodyIsLeftWaiting

-----------------------------------------------------------------------------
(* The fields of a request. *)
LEMMA Fields ==
  /\ Quiet.at = "none" /\ Quiet.what = "nothing" /\ Quiet.token = NoToken
  /\ Quiet.prior = "idle"
  /\ \A what, t : LET r == Request(what, t) IN
       r.at = "sent" /\ r.what = what /\ r.token = t /\ r.prior = ui
BY DEF Quiet, Request

LEMMA ReplyFields ==
  /\ \A what, t : LET r == Reply(what, t) IN
       /\ r.at = "replied" /\ r.what = what /\ r.token = t
       /\ what = "rejected" => r.prior = call.prior
  /\ Served.at = "served" /\ Served.what = "nothing" /\ Served.token = NoToken
BY DEF Reply, Served, Quiet

(* What the socket's invariant says of the execution of this session.      *)
LEMMA OursInSocket ==
  ASSUME IInv, PluginTypeOK, OursIsLive
  PROVE  /\ ours \in Execs /\ ours # NoExec
         /\ \A e \in Execs : stage[e] \in Underway => e = ours
         /\ stage[ours] = "pipeline" => session = "pipeline" /\ slot = NoExec
         /\ stage[ours] \in {"running", "asking", "aborting"} => slot = ours
         /\ stage[ours] = "running" => session = "driving"
         /\ stage[ours] = "asking" =>
              /\ asked[ours] \in Tokens \ closed /\ asked[ours] # NoToken
              /\ given[asked[ours]] = "nothing" =>
                   \/ session = "driving" /\ pending = asked[ours]
                   \/ session = "free" /\ outstanding = asked[ours]
              /\ given[asked[ours]] # "nothing" =>
                   session = "driving" /\ pending = NoToken /\ outstanding = NoToken
<1>1. ours \in Execs /\ ours # NoExec /\ stage[ours] \in Underway
  BY SentinelAssumption DEF OursIsLive, Live
<1>2. \A e \in Execs : stage[e] \in Underway => e = ours
  BY <1>1, OwnerIsOne DEF IInv, OneRecovery, Live
<1>3. /\ stage[ours] = "pipeline" => session = "pipeline" /\ slot = NoExec
      /\ stage[ours] \in {"running", "asking", "aborting"} => slot = ours
      /\ stage[ours] = "running" => session = "driving"
  BY <1>1 DEF IInv, OwnerInv, Spawned
<1>4. stage[ours] = "asking" => asked[ours] \in Tokens \ closed /\ asked[ours] # NoToken
  BY <1>1, SentinelAssumption DEF IInv, TokenInv
<1>5. stage[ours] = "asking" /\ given[asked[ours]] = "nothing" =>
        \/ session = "driving" /\ pending = asked[ours]
        \/ session = "free" /\ outstanding = asked[ours]
  BY <1>1 DEF IInv, QuestionIsAnswerable
<1>6. stage[ours] = "asking" /\ given[asked[ours]] # "nothing" =>
        session = "driving" /\ pending = NoToken /\ outstanding = NoToken
  BY <1>1 DEF IInv, TokenInv
<1>. QED
  BY <1>1, <1>2, <1>3, <1>4, <1>5, <1>6

-----------------------------------------------------------------------------
(* The composition refines the socket.                                     *)
LEMMA SocketStep ==
  ASSUME PluginTypeOK, CallInv, [PluginNext]_everything
  PROVE  [Next]_vars
<1>1. CASE UNCHANGED everything \/ Operator \/ Reactor \/ Klippy
  BY <1>1 DEF everything, Operator, Start, Answer, Reactor, Deliver, ClaimExpires,
      WaitExpires, Klippy, Shutdown, Teardown
<1>2. CASE \E e \in Execs : StartIsServed(e)
  BY <1>2 DEF StartIsServed, Next
<1>3. CASE StartIsRefused \/ AnswerIsRefused \/ CallFails
  BY <1>3 DEF StartIsRefused, AnswerIsRefused, CallFails
<1>4. CASE AnswerIsServed
  <2>1. call.token \in Tokens
    BY <1>4 DEF AnswerIsServed, CallInv, PluginTypeOK, Verbs, BinaryVerbs, PreviewVerbs
  <2>. QED
    BY <1>4, <2>1 DEF AnswerIsServed, Next
<1>5. CASE \E t \in aborts : AbortArrives(t) \/ AbortIsLost(t)
  <2>1. aborts \subseteq Tokens /\ "abort" \in Verbs
    BY DEF PluginTypeOK, Verbs, BinaryVerbs
  <2>. QED
    BY <1>5, <2>1 DEF AbortArrives, AbortIsLost, Next
<1>6. CASE Daemon
  BY <1>6 DEF Daemon, Planning, Driving, Restarts, Alone, Concluding, Next, Plan, Drive
<1>7. CASE OtherClients
  BY <1>7 DEF OtherClients, OtherStarts, OtherAnswers, Alone, Next
<1>. QED
  BY <1>1, <1>2, <1>3, <1>4, <1>5, <1>6, <1>7 DEF PluginNext, Socket

-----------------------------------------------------------------------------
(* Steps of the plugin alone *)

(* A question that was kept is aborted.                                    *)
LEMMA StartStep ==
  ASSUME IInv, IInv', Ties, PluginTypeOK',
         Start
  PROVE  Ties'
<1>1. UNCHANGED <<session, slot, pending, outstanding, stage, asked, kind, given, closed,
          boots, seq>>
  BY DEF Start, vars, talk
<1>2. /\ call'.at = "sent"
      /\ call'.what = "execute"
      /\ call'.token = NoToken
      /\ call'.prior = ui
      /\ ui' = "running"
      /\ held' = NoToken
      /\ aborts' = aborts \cup ({held} \ {NoToken})
      /\ UNCHANGED <<ours, forsaken, gaveUp, usurped>>
      /\ call.at = "none"
      /\ call.token = NoToken
      /\ ui \in {"idle", "plrd_busy", "unknown"}
  BY Fields DEF Start, Abandon, MayStartNew, history
<1>3. OursIsLive' <=> OursIsLive
  BY <1>1, <1>2 DEF OursIsLive, Live
<1>4. CallInv'
  BY <1>2, <1>3 DEF Ties, CallInv, Replies
<1>5. ServedInv'
  BY <1>1, <1>2 DEF Ties, ServedInv
<1>6. OwnInv'
  BY <1>2 DEF Ties, OwnInv, Mine, Undrawn
<1>7. IdleInv'
  BY <1>1, <1>2, <1>3 DEF Ties, IdleInv, Tired, Sentlike
<1>8. TalkInv'
  BY <1>2 DEF Ties, TalkInv, Talks
<1>9. WorkInv'
  BY <1>1, <1>2, <1>3 DEF Ties, WorkInv
<1>10. NobodyIsLeftWaiting'
  BY <1>1, <1>2, <1>3 DEF Ties, NobodyIsLeftWaiting
<1>. QED
  BY <1>4, <1>5, <1>6, <1>7, <1>8, <1>9, <1>10 DEF Ties

(* The question goes into the request.                                     *)
LEMMA AnswerStep ==
  ASSUME IInv, IInv', Ties, PluginTypeOK',
         NEW v \in Verbs, Answer(v)
  PROVE  Ties'
<1>1. UNCHANGED <<session, slot, pending, outstanding, stage, asked, kind, given, closed,
          boots, seq>>
  BY DEF Answer, vars, talk
<1>2. /\ call'.at = "sent"
      /\ call'.what = v
      /\ call'.token = held
      /\ held # NoToken
      /\ ui' = "running"
      /\ held' = NoToken
      /\ UNCHANGED aborts
      /\ UNCHANGED <<ours, forsaken, gaveUp, usurped>>
      /\ call.at = "none"
      /\ call.token = NoToken
  BY Fields DEF Answer, history
<1>3. v \notin Replies \cup {"execute", "rejected", "pause", "terminal"}
  BY DEF Verbs, BinaryVerbs, PreviewVerbs, Replies
<1>4. OursIsLive' <=> OursIsLive
  BY <1>1, <1>2 DEF OursIsLive, Live
<1>5. CallInv'
  BY <1>2, <1>3, <1>4 DEF Ties, CallInv, Replies
<1>6. ServedInv'
  BY <1>1, <1>2 DEF Ties, ServedInv
<1>7. OwnInv'
  BY <1>1, <1>2 DEF Ties, OwnInv, Mine, Undrawn
<1>8. IdleInv'
  BY <1>2, <1>3 DEF Ties, IdleInv, Tired, Sentlike
<1>9. TalkInv'
  BY <1>2, <1>3 DEF Ties, TalkInv, Talks
<1>10. WorkInv'
  BY <1>1, <1>2, <1>4 DEF Ties, WorkInv
<1>11. NobodyIsLeftWaiting'
  BY <1>1, <1>2, <1>4 DEF Ties, NobodyIsLeftWaiting
<1>. QED
  BY <1>5, <1>6, <1>7, <1>8, <1>9, <1>10, <1>11 DEF Ties

(* Each reading of a reply.                                                *)
LEMMA DeliverStep ==
  ASSUME IInv, IInv', Ties, PluginTypeOK',
         Deliver
  PROVE  Ties'
<1>1. UNCHANGED <<session, slot, pending, outstanding, stage, asked, kind, given, closed,
          boots, seq>>
  BY DEF Deliver, vars, talk
<1>2. /\ call.at = "replied"
      /\ call'.at = "none"
      /\ call'.what = "nothing"
      /\ call'.token = NoToken
      /\ UNCHANGED <<ours, forsaken, gaveUp, usurped>>
  BY Fields DEF Deliver, Deliverable, history
<1>3. IF PauseInShutdown
      THEN ui' = "unknown" /\ held' = NoToken /\ aborts' = aborts \cup {call.token}
      ELSE /\ ui' = StateAfter(call.what) /\ held' = HeldAfter(call.what)
           /\ UNCHANGED aborts
  BY DEF Deliver
<1>4. /\ call.what \in {"terminal", "rejected", "busy", "pause", "stale", "unclassifiable",
           "lost"}
      /\ held = NoToken
      /\ call.what = "terminal" => ~OursIsLive
      /\ call.what \notin {"pause", "busy"} => call.token = NoToken
  BY <1>2 DEF Ties, CallInv, Replies
<1>5. OursIsLive /\ stage[ours] = "asking" => asked[ours] # NoToken
  BY OursInSocket DEF Ties
<1>6. ~PauseInShutdown =>
        held' = IF call.what \in {"pause", "busy"} THEN call.token ELSE NoToken
  BY <1>3, <1>4 DEF HeldAfter
<1>7. /\ ~PauseInShutdown /\ call.what = "terminal" => ui' = "idle"
      /\ ~PauseInShutdown /\ call.what = "rejected" => ui' = call.prior
      /\ ~PauseInShutdown /\ call.what = "busy" => ui' = "plrd_busy"
      /\ ~PauseInShutdown /\ call.what = "pause" => ui' = "awaiting"
      /\ ~PauseInShutdown /\ call.what \in {"stale", "unclassifiable",
           "lost"} => ui' = "unknown"
  BY <1>3 DEF StateAfter
<1>8. PauseInShutdown => call.what = "pause"
  BY DEF PauseInShutdown
<1>9. /\ PauseInShutdown => ui' = "unknown" /\ held' = NoToken
      /\ PauseInShutdown => call.token \in aborts'
      /\ aborts \subseteq aborts'
  BY <1>3
<1>10. OursIsLive' <=> OursIsLive
  BY <1>1, <1>2 DEF OursIsLive, Live
<1>11. CallInv'
  BY <1>2, <1>3, <1>6, <1>7, <1>10 DEF Ties, CallInv, Replies
<1>12. ServedInv'
  BY <1>1, <1>2 DEF Ties, ServedInv
<1>13. OwnInv'
  BY <1>1, <1>2, <1>3, <1>6 DEF Ties, OwnInv, Mine, Undrawn
<1>14. IdleInv'
  BY <1>1, <1>2, <1>3, <1>4, <1>7, <1>10 DEF Ties, IdleInv, Tired, Sentlike
<1>15. TalkInv'
  BY <1>1, <1>2, <1>3, <1>6, <1>7, <1>10 DEF Ties, TalkInv, Talks
<1>16. WorkInv'
  BY <1>1, <1>2, <1>10 DEF Ties, WorkInv
<1>17. NobodyIsLeftWaiting'
  BY <1>1, <1>2, <1>3, <1>4, <1>6, <1>10 DEF Ties, NobodyIsLeftWaiting
<1>. QED
  BY <1>11, <1>12, <1>13, <1>14, <1>15, <1>16, <1>17 DEF Ties

(* The claim is withdrawn.                                                 *)
LEMMA ClaimStep ==
  ASSUME IInv, IInv', Ties, PluginTypeOK',
         ClaimExpires
  PROVE  Ties'
<1>1. UNCHANGED <<session, slot, pending, outstanding, stage, asked, kind, given, closed,
          boots, seq>>
  BY DEF ClaimExpires, vars, talk
<1>2. /\ ui = "awaiting"
      /\ ui' = "unknown"
      /\ UNCHANGED <<held, call, aborts>>
      /\ UNCHANGED <<ours, forsaken, gaveUp, usurped>>
  BY DEF ClaimExpires, history
<1>3. OursIsLive' <=> OursIsLive
  BY <1>1, <1>2 DEF OursIsLive, Live
<1>4. CallInv'
  BY <1>2, <1>3 DEF Ties, CallInv, Replies
<1>5. ServedInv'
  BY <1>1, <1>2 DEF Ties, ServedInv
<1>6. OwnInv'
  BY <1>1, <1>2 DEF Ties, OwnInv, Mine, Undrawn
<1>7. IdleInv'
  BY <1>1, <1>2, <1>3 DEF Ties, IdleInv, Tired, Sentlike
<1>8. TalkInv'
  BY <1>1, <1>2, <1>3 DEF Ties, TalkInv, Talks
<1>9. WorkInv'
  BY <1>1, <1>2, <1>3 DEF Ties, WorkInv
<1>10. NobodyIsLeftWaiting'
  BY <1>1, <1>2, <1>3 DEF Ties, NobodyIsLeftWaiting
<1>. QED
  BY <1>4, <1>5, <1>6, <1>7, <1>8, <1>9, <1>10 DEF Ties

(* The wait ends: our execution is being aborted, or gone.                 *)
LEMMA WaitStep ==
  ASSUME IInv, IInv', Ties, PluginTypeOK',
         WaitExpires
  PROVE  Ties'
<1>1. UNCHANGED <<session, slot, pending, outstanding, stage, asked, kind, given, closed,
          boots, seq>>
  BY DEF WaitExpires, vars, talk
<1>2. /\ held # NoToken
      /\ ui \in {"awaiting", "unknown"}
      /\ ui' = "idle"
      /\ held' = NoToken
      /\ gaveUp' = TRUE
      /\ UNCHANGED <<call, aborts, ours, forsaken, usurped>>
  BY DEF WaitExpires
<1>3. \A e \in Execs : asked[e] # held
  BY DEF WaitExpires, Overdue
<1>4. OursIsLive => usurped \/ stage[ours] = "aborting"
  BY <1>2, <1>3, OursInSocket DEF Ties, TalkInv, Talks
<1>5. OursIsLive' <=> OursIsLive
  BY <1>1, <1>2 DEF OursIsLive, Live
<1>6. CallInv'
  BY <1>2, <1>5 DEF Ties, CallInv, Replies
<1>7. ServedInv'
  BY <1>1, <1>2 DEF Ties, ServedInv
<1>8. OwnInv'
  BY <1>1, <1>2 DEF Ties, OwnInv, Mine, Undrawn
<1>9. IdleInv'
  BY <1>1, <1>2, <1>4, <1>5 DEF Ties, IdleInv, Tired, Sentlike
<1>10. TalkInv'
  BY <1>1, <1>2, <1>5 DEF Ties, TalkInv, Talks
<1>11. WorkInv'
  BY <1>1, <1>2, <1>5 DEF Ties, WorkInv
<1>12. NobodyIsLeftWaiting'
  BY <1>1, <1>2, <1>4, <1>5 DEF Ties, NobodyIsLeftWaiting
<1>. QED
  BY <1>6, <1>7, <1>8, <1>9, <1>10, <1>11, <1>12 DEF Ties

(* A question that was kept is aborted.                                    *)
LEMMA ShutdownStep ==
  ASSUME IInv, IInv', Ties, PluginTypeOK',
         Shutdown
  PROVE  Ties'
<1>1. UNCHANGED <<session, slot, pending, outstanding, stage, asked, kind, given, closed,
          boots, seq>>
  BY DEF Shutdown, vars, talk
<1>2. /\ held' = NoToken
      /\ aborts' = aborts \cup ({held} \ {NoToken})
      /\ ui' = IF held = NoToken THEN ui ELSE "unknown"
      /\ UNCHANGED call
      /\ UNCHANGED <<ours, forsaken, gaveUp, usurped>>
  BY DEF Shutdown, Abandon, history
<1>3. OursIsLive' <=> OursIsLive
  BY <1>1, <1>2 DEF OursIsLive, Live
<1>4. CallInv'
  BY <1>2, <1>3 DEF Ties, CallInv, Replies
<1>5. ServedInv'
  BY <1>1, <1>2 DEF Ties, ServedInv
<1>6. OwnInv'
  BY <1>1, <1>2 DEF Ties, OwnInv, Mine, Undrawn
<1>7. IdleInv'
  BY <1>1, <1>2, <1>3 DEF Ties, IdleInv, Tired, Sentlike
<1>8. TalkInv'
  BY <1>1, <1>2, <1>3 DEF Ties, TalkInv, Talks
<1>9. WorkInv'
  BY <1>1, <1>2, <1>3 DEF Ties, WorkInv
<1>10. NobodyIsLeftWaiting'
  BY <1>1, <1>2, <1>3 DEF Ties, NobodyIsLeftWaiting
<1>. QED
  BY <1>4, <1>5, <1>6, <1>7, <1>8, <1>9, <1>10 DEF Ties

(* The next session has no execution.                                      *)
LEMMA TeardownStep ==
  ASSUME IInv, IInv', Ties, PluginTypeOK',
         Teardown
  PROVE  Ties'
<1>1. UNCHANGED <<session, slot, pending, outstanding, stage, asked, kind, given, closed,
          boots, seq>>
  BY DEF Teardown, vars, talk
<1>2. /\ ui' = "idle"
      /\ held' = NoToken
      /\ call'.at = "none"
      /\ call'.what = "nothing"
      /\ call'.token = NoToken
      /\ ours' = NoExec
  BY Fields DEF Teardown
<1>3. ~OursIsLive'
  BY <1>2, SentinelAssumption DEF OursIsLive, Live
<1>4. CallInv'
  BY <1>2, <1>3 DEF Ties, CallInv, Replies
<1>5. ServedInv'
  BY <1>2 DEF Ties, ServedInv
<1>6. OwnInv'
  BY <1>2 DEF Ties, OwnInv, Mine, Undrawn
<1>7. IdleInv'
  BY <1>3 DEF Ties, IdleInv, Tired, Sentlike
<1>8. TalkInv'
  BY <1>2 DEF Ties, TalkInv, Talks
<1>9. WorkInv'
  BY <1>3 DEF Ties, WorkInv
<1>10. NobodyIsLeftWaiting'
  BY <1>3 DEF Ties, NobodyIsLeftWaiting
<1>. QED
  BY <1>4, <1>5, <1>6, <1>7, <1>8, <1>9, <1>10 DEF Ties

-----------------------------------------------------------------------------
(* Requests at the socket that leave it alone *)

(* Nothing was dispatched.                                                 *)
LEMMA StartRefusedStep ==
  ASSUME IInv, IInv', Ties, PluginTypeOK',
         StartIsRefused
  PROVE  Ties'
<1>1. UNCHANGED <<session, slot, pending, outstanding, stage, asked, kind, given, closed,
          boots, seq>>
  BY DEF StartIsRefused, vars, talk
<1>2. /\ call.at = "sent"
      /\ call.what = "execute"
      /\ call'.at = "replied"
      /\ call'.what \in {"busy", "rejected"}
      /\ call'.token = NoToken
      /\ call'.what = "rejected" => call'.prior = call.prior
      /\ UNCHANGED <<ui, held, aborts>>
      /\ UNCHANGED <<ours, forsaken, gaveUp, usurped>>
  BY ReplyFields DEF Ties, StartIsRefused, Tell, Shown, history
<1>3. call.token = NoToken
  BY <1>2 DEF Ties, CallInv
<1>4. OursIsLive' <=> OursIsLive
  BY <1>1, <1>2 DEF OursIsLive, Live
<1>5. CallInv'
  BY <1>2, <1>4 DEF Ties, CallInv, Replies
<1>6. ServedInv'
  BY <1>1, <1>2 DEF Ties, ServedInv
<1>7. OwnInv'
  BY <1>1, <1>2 DEF Ties, OwnInv, Mine, Undrawn
<1>8. IdleInv'
  BY <1>1, <1>2, <1>4 DEF Ties, IdleInv, Tired, Sentlike
<1>9. TalkInv'
  BY <1>1, <1>2, <1>4 DEF Ties, TalkInv, Talks
<1>10. WorkInv'
  BY <1>1, <1>2, <1>4 DEF Ties, WorkInv
<1>11. NobodyIsLeftWaiting'
  BY <1>1, <1>2, <1>3, <1>4 DEF Ties, NobodyIsLeftWaiting
<1>. QED
  BY <1>5, <1>6, <1>7, <1>8, <1>9, <1>10, <1>11 DEF Ties

(* busy keeps the question; a stale one is not ours to answer, and one     *)
(* that is rejected was asked by a daemon that is gone.                    *)
LEMMA AnswerRefusedStep ==
  ASSUME IInv, IInv', Ties, BootInv, PluginTypeOK',
         AnswerIsRefused
  PROVE  Ties'
<1>1. UNCHANGED <<session, slot, pending, outstanding, stage, asked, kind, given, closed,
          boots, seq>>
  BY DEF AnswerIsRefused, vars, talk
<1>2. /\ call.at = "sent"
      /\ call.what \in Verbs
      /\ call'.at = "replied"
      /\ \/ call'.what = "busy" /\ call'.token = call.token
         \/ /\ call'.what = "stale" /\ call'.token = NoToken
            /\ session = "free" /\ outstanding # call.token
         \/ call'.what = "rejected" /\ call'.token = NoToken /\ ~OursIsLive
      /\ UNCHANGED <<ui, held, aborts>>
      /\ UNCHANGED <<ours, forsaken, gaveUp, usurped>>
  <2>1. /\ call.at = "sent" /\ call.what \in Verbs
        /\ UNCHANGED <<ui, held, aborts, ours, forsaken, gaveUp, usurped>>
    BY DEF AnswerIsRefused, Shown, history
  <2>2. call.token # NoToken
    BY <2>1 DEF Ties, CallInv, Verbs, BinaryVerbs, PreviewVerbs
  <2>3. AskedBefore(call.token) => ~OursIsLive
    BY <2>2 DEF BootInv, AskedBefore
  <2>4. /\ call'.at = "replied"
        /\ \/ call'.what = "busy" /\ call'.token = call.token
           \/ /\ call'.what = "stale" /\ call'.token = NoToken
              /\ session = "free" /\ outstanding # call.token
           \/ call'.what = "rejected" /\ call'.token = NoToken /\ AskedBefore(call.token)
    BY ReplyFields DEF AnswerIsRefused, Tell
  <2>. QED
    BY <2>1, <2>3, <2>4
<1>3. call.what # "execute"
  BY <1>2 DEF Verbs, BinaryVerbs, PreviewVerbs
<1>4. /\ OursIsLive /\ stage[ours] = "asking" /\ given[asked[ours]] = "nothing"
      /\ session = "free"
      => outstanding = asked[ours]
  BY OursInSocket DEF Ties
<1>5. OursIsLive' <=> OursIsLive
  BY <1>1, <1>2 DEF OursIsLive, Live
<1>6. CallInv'
  BY <1>2, <1>5 DEF Ties, CallInv, Replies
<1>7. ServedInv'
  BY <1>1, <1>2 DEF Ties, ServedInv
<1>8. OwnInv'
  BY <1>1, <1>2 DEF Ties, OwnInv, Mine, Undrawn
<1>9. IdleInv'
  BY <1>1, <1>2, <1>5 DEF Ties, IdleInv, Tired, Sentlike
<1>10. TalkInv'
  BY <1>1, <1>2, <1>5 DEF Ties, TalkInv, Talks
<1>11. WorkInv'
  BY <1>1, <1>2, <1>5 DEF Ties, WorkInv
<1>12. NobodyIsLeftWaiting'
  BY <1>1, <1>2, <1>4, <1>5 DEF Ties, NobodyIsLeftWaiting
<1>. QED
  BY <1>6, <1>7, <1>8, <1>9, <1>10, <1>11, <1>12 DEF Ties

(* The execution is forsaken.                                              *)
LEMMA CallFailsStep ==
  ASSUME IInv, IInv', Ties, PluginTypeOK',
         CallFails
  PROVE  Ties'
<1>1. UNCHANGED <<session, slot, pending, outstanding, stage, asked, kind, given, closed,
          boots, seq>>
  BY DEF CallFails, vars, talk
<1>2. /\ call'.at = "replied"
      /\ call'.what = "lost"
      /\ call'.token = NoToken
      /\ forsaken' = TRUE
      /\ call.at \in {"sent", "served"}
      /\ UNCHANGED <<ui, held, aborts, ours, gaveUp, usurped>>
  BY ReplyFields DEF Ties, CallFails, InFlight, Tell, Shown
<1>3. OursIsLive' <=> OursIsLive
  BY <1>1, <1>2 DEF OursIsLive, Live
<1>4. CallInv'
  BY <1>2, <1>3 DEF Ties, CallInv, Replies
<1>5. ServedInv'
  BY <1>1, <1>2 DEF Ties, ServedInv
<1>6. OwnInv'
  BY <1>1, <1>2 DEF Ties, OwnInv, Mine, Undrawn
<1>7. IdleInv'
  BY <1>1, <1>2, <1>3 DEF Ties, IdleInv, Tired, Sentlike
<1>8. TalkInv'
  BY <1>1, <1>2, <1>3 DEF Ties, TalkInv, Talks
<1>9. WorkInv'
  BY <1>2 DEF Ties, WorkInv
<1>10. NobodyIsLeftWaiting'
  BY <1>2 DEF Ties, NobodyIsLeftWaiting
<1>. QED
  BY <1>4, <1>5, <1>6, <1>7, <1>8, <1>9, <1>10 DEF Ties

(* The execution is forsaken.                                              *)
LEMMA AbortLostStep ==
  ASSUME IInv, IInv', Ties, PluginTypeOK',
         NEW t \in aborts, AbortIsLost(t)
  PROVE  Ties'
<1>1. UNCHANGED <<session, slot, pending, outstanding, stage, asked, kind, given, closed,
          boots, seq>>
  BY DEF AbortIsLost, vars, talk
<1>2. /\ forsaken' = TRUE
      /\ UNCHANGED <<ui, held, call, ours, gaveUp, usurped>>
  BY DEF AbortIsLost
<1>3. OursIsLive' <=> OursIsLive
  BY <1>1, <1>2 DEF OursIsLive, Live
<1>4. CallInv'
  BY <1>2, <1>3 DEF Ties, CallInv, Replies
<1>5. ServedInv'
  BY <1>1, <1>2 DEF Ties, ServedInv
<1>6. OwnInv'
  BY <1>1, <1>2 DEF Ties, OwnInv, Mine, Undrawn
<1>7. IdleInv'
  BY <1>1, <1>2, <1>3 DEF Ties, IdleInv, Tired, Sentlike
<1>8. TalkInv'
  BY <1>1, <1>2, <1>3 DEF Ties, TalkInv, Talks
<1>9. WorkInv'
  BY <1>2 DEF Ties, WorkInv
<1>10. NobodyIsLeftWaiting'
  BY <1>2 DEF Ties, NobodyIsLeftWaiting
<1>. QED
  BY <1>4, <1>5, <1>6, <1>7, <1>8, <1>9, <1>10 DEF Ties

-----------------------------------------------------------------------------
(* Steps of the daemon that the plugin takes no part in *)

(* A plan that is driven is that of the request that is served.            *)
LEMMA AloneSpawn ==
  ASSUME IInv, IInv', Ties, PluginTypeOK',
         NEW e \in Execs, Alone(SpawnAndDrive(e))
  PROVE  Ties'
<1>1. /\ UNCHANGED <<ui, held, call, aborts, ours, forsaken, gaveUp, usurped>>
      /\ UNCHANGED <<pending, outstanding, asked, kind, given, closed, boots, seq>>
      /\ session = "pipeline"
      /\ stage[e] = "pipeline"
      /\ session' = "driving"
      /\ slot' = e
  BY DEF SpawnAndDrive, Alone, plugin, history, talk
<1>2. \A f \in Execs : stage'[f] = IF f = e THEN "running" ELSE stage[f]
  BY DEF SpawnAndDrive, Alone, Move, IInv, TypeOK
<1>3. OursIsLive' <=> OursIsLive
  BY <1>1, <1>2, SentinelAssumption DEF OursIsLive, Live, Underway
<1>4. OursIsLive => ours = e
  BY <1>1, OursInSocket DEF Ties, Underway
<1>5. call.at = "served" => ours = e
  BY <1>1 DEF Ties, ServedInv, IInv, OnePlan, PluginTypeOK
<1>6. OursIsLive /\ stage[ours] = "asking" => asked[ours] # NoToken /\ asked[ours] \in Tokens
  BY OursInSocket DEF Ties
<1>7. ours # NoExec => ours \in Execs
  BY DEF Ties, PluginTypeOK
<1>8. CallInv'
  BY <1>1, <1>3 DEF Ties, CallInv, Replies
<1>9. ServedInv'
  BY <1>1, <1>2, <1>5, <1>7 DEF Ties, ServedInv
<1>10. OwnInv'
  BY <1>1 DEF Ties, OwnInv, Mine, Undrawn
<1>11. IdleInv'
  BY <1>1, <1>3, <1>4 DEF Ties, IdleInv, Tired, Sentlike
<1>12. TalkInv'
  BY <1>1, <1>3, <1>4 DEF Ties, TalkInv, Talks
<1>13. WorkInv'
  BY <1>1, <1>3, <1>4 DEF Ties, WorkInv
<1>14. NobodyIsLeftWaiting'
  BY <1>1, <1>2, <1>3, <1>4 DEF Ties, NobodyIsLeftWaiting
<1>. QED
  BY <1>8, <1>9, <1>10, <1>11, <1>12, <1>13, <1>14 DEF Ties

(* It ends.                                                                *)
LEMMA AloneFinish ==
  ASSUME IInv, IInv', Ties, PluginTypeOK',
         NEW e \in Execs, Alone(Finish(e))
  PROVE  Ties'
<1>1. /\ UNCHANGED <<ui, held, call, aborts, ours, forsaken, gaveUp, usurped>>
      /\ UNCHANGED <<session, slot, pending, outstanding, asked, kind, given, closed, boots,
             seq>>
      /\ stage[e] \in {"running", "aborting"}
  BY DEF Finish, Alone, plugin, history, talk
<1>2. \A f \in Execs : stage'[f] = IF f = e THEN "done" ELSE stage[f]
  BY DEF Finish, Alone, Move, IInv, TypeOK
<1>3. OursIsLive' => OursIsLive /\ ours # e
  BY <1>1, <1>2, SentinelAssumption DEF OursIsLive, Live, Underway
<1>4. OursIsLive => ours = e
  BY <1>1, OursInSocket DEF Ties, Underway
<1>5. session # "pipeline"
  BY <1>1, SentinelAssumption DEF IInv, OwnerInv, Spawned
<1>6. OursIsLive /\ stage[ours] = "asking" => asked[ours] # NoToken /\ asked[ours] \in Tokens
  BY OursInSocket DEF Ties
<1>7. ours # NoExec => ours \in Execs
  BY DEF Ties, PluginTypeOK
<1>8. CallInv'
  BY <1>1, <1>3 DEF Ties, CallInv, Replies
<1>9. ServedInv'
  BY <1>1, <1>2, <1>7 DEF Ties, ServedInv
<1>10. OwnInv'
  BY <1>1 DEF Ties, OwnInv, Mine, Undrawn
<1>11. IdleInv'
  BY <1>3, <1>4 DEF Ties, IdleInv, Tired, Sentlike
<1>12. TalkInv'
  BY <1>3, <1>4 DEF Ties, TalkInv, Talks
<1>13. WorkInv'
  BY <1>3, <1>4 DEF Ties, WorkInv
<1>14. NobodyIsLeftWaiting'
  BY <1>3, <1>4 DEF Ties, NobodyIsLeftWaiting
<1>. QED
  BY <1>8, <1>9, <1>10, <1>11, <1>12, <1>13, <1>14 DEF Ties

(* The answer taken is the one that was given.                             *)
LEMMA AloneHear ==
  ASSUME IInv, IInv', Ties, PluginTypeOK',
         NEW e \in Execs, Alone(Hear(e))
  PROVE  Ties'
<1>1. /\ UNCHANGED <<ui, held, call, aborts, ours, forsaken, gaveUp, usurped>>
      /\ UNCHANGED <<session, slot, pending, outstanding, kind, given, boots, seq>>
      /\ stage[e] = "asking"
      /\ given[asked[e]] # "nothing"
  BY DEF Hear, Alone, plugin, history, talk
<1>2. \A f \in Execs :
        /\ f # e => stage'[f] = stage[f] /\ asked'[f] = asked[f]
        /\ stage'[e] = IF given[asked[e]] = "abort" THEN "aborting" ELSE "running"
        /\ asked'[e] = NoToken
  BY DEF Hear, Alone, Move, IInv, TypeOK
<1>3. OursIsLive' <=> OursIsLive
  BY <1>1, <1>2, SentinelAssumption DEF OursIsLive, Live, Underway
<1>4. OursIsLive => ours = e
  BY <1>1, OursInSocket DEF Ties, Underway
<1>5. session # "pipeline"
  BY <1>1, SentinelAssumption DEF IInv, OwnerInv, Spawned
<1>6. OursIsLive /\ stage[ours] = "asking" => asked[ours] # NoToken /\ asked[ours] \in Tokens
  BY OursInSocket DEF Ties
<1>7. ours # NoExec => ours \in Execs
  BY DEF Ties, PluginTypeOK
<1>8. CallInv'
  BY <1>1, <1>3 DEF Ties, CallInv, Replies
<1>9. ServedInv'
  BY <1>1, <1>2, <1>7 DEF Ties, ServedInv
<1>10. OwnInv'
  BY <1>1, <1>2 DEF Ties, OwnInv, Mine, Undrawn
<1>11. IdleInv'
  BY <1>1, <1>3, <1>4 DEF Ties, IdleInv, Tired, Sentlike
<1>12. TalkInv'
  BY <1>1, <1>2, <1>3, <1>4 DEF Ties, TalkInv, Talks
<1>13. WorkInv'
  BY <1>1, <1>2, <1>3, <1>4 DEF Ties, WorkInv
<1>14. NobodyIsLeftWaiting'
  BY <1>1, <1>2, <1>3, <1>4 DEF Ties, NobodyIsLeftWaiting
<1>. QED
  BY <1>8, <1>9, <1>10, <1>11, <1>12, <1>13, <1>14 DEF Ties

(* A deadline changes nothing yet.                                         *)
LEMMA AloneLapse ==
  ASSUME IInv, IInv', Ties, PluginTypeOK',
         NEW e \in Execs, Alone(Lapse(e))
  PROVE  Ties'
<1>1. /\ UNCHANGED <<ui, held, call, aborts, ours, forsaken, gaveUp, usurped>>
      /\ UNCHANGED <<session, slot, pending, outstanding, stage, asked, kind, given, closed,
             boots, seq>>
  BY DEF Lapse, Alone, plugin, history, talk
<1>2. OursIsLive' <=> OursIsLive
  BY <1>1 DEF OursIsLive, Live
<1>3. OursIsLive /\ stage[ours] = "asking" => asked[ours] # NoToken /\ asked[ours] \in Tokens
  BY OursInSocket DEF Ties
<1>4. ours # NoExec => ours \in Execs
  BY DEF Ties, PluginTypeOK
<1>5. CallInv'
  BY <1>1, <1>2 DEF Ties, CallInv, Replies
<1>6. ServedInv'
  BY <1>1 DEF Ties, ServedInv
<1>7. OwnInv'
  BY <1>1 DEF Ties, OwnInv, Mine, Undrawn
<1>8. IdleInv'
  BY <1>1, <1>2 DEF Ties, IdleInv, Tired, Sentlike
<1>9. TalkInv'
  BY <1>1, <1>2 DEF Ties, TalkInv, Talks
<1>10. WorkInv'
  BY <1>1, <1>2 DEF Ties, WorkInv
<1>11. NobodyIsLeftWaiting'
  BY <1>1, <1>2 DEF Ties, NobodyIsLeftWaiting
<1>. QED
  BY <1>5, <1>6, <1>7, <1>8, <1>9, <1>10, <1>11 DEF Ties

(* The question is dropped for an abort.                                   *)
LEMMA AloneTimeOut ==
  ASSUME IInv, IInv', Ties, PluginTypeOK',
         NEW e \in Execs, Alone(TimeOut(e))
  PROVE  Ties'
<1>1. /\ UNCHANGED <<ui, held, call, aborts, ours, forsaken, gaveUp, usurped>>
      /\ UNCHANGED <<session, slot, pending, outstanding, kind, given, boots, seq>>
      /\ stage[e] = "asking"
  BY DEF TimeOut, Alone, plugin, history, talk
<1>2. \A f \in Execs :
        /\ stage'[f] = IF f = e THEN "aborting" ELSE stage[f]
        /\ asked'[f] = IF f = e THEN NoToken ELSE asked[f]
  BY DEF TimeOut, Alone, Move, IInv, TypeOK
<1>3. OursIsLive' <=> OursIsLive
  BY <1>1, <1>2, SentinelAssumption DEF OursIsLive, Live, Underway
<1>4. OursIsLive => ours = e
  BY <1>1, OursInSocket DEF Ties, Underway
<1>5. session # "pipeline"
  BY <1>1, SentinelAssumption DEF IInv, OwnerInv, Spawned
<1>6. OursIsLive /\ stage[ours] = "asking" => asked[ours] # NoToken /\ asked[ours] \in Tokens
  BY OursInSocket DEF Ties
<1>7. ours # NoExec => ours \in Execs
  BY DEF Ties, PluginTypeOK
<1>8. CallInv'
  BY <1>1, <1>3 DEF Ties, CallInv, Replies
<1>9. ServedInv'
  BY <1>1, <1>2, <1>7 DEF Ties, ServedInv
<1>10. OwnInv'
  BY <1>1, <1>2 DEF Ties, OwnInv, Mine, Undrawn
<1>11. IdleInv'
  BY <1>1, <1>3, <1>4 DEF Ties, IdleInv, Tired, Sentlike
<1>12. TalkInv'
  BY <1>1, <1>2, <1>3, <1>4 DEF Ties, TalkInv, Talks
<1>13. WorkInv'
  BY <1>1, <1>2, <1>3, <1>4 DEF Ties, WorkInv
<1>14. NobodyIsLeftWaiting'
  BY <1>1, <1>2, <1>3, <1>4 DEF Ties, NobodyIsLeftWaiting
<1>. QED
  BY <1>8, <1>9, <1>10, <1>11, <1>12, <1>13, <1>14 DEF Ties

(* A new question is in nobody's hands yet.                                *)
LEMMA AloneRaise ==
  ASSUME IInv, IInv', Ties, PluginTypeOK',
         NEW e \in Execs, NEW k \in Kinds, Alone(Raise(e, k))
  PROVE  Ties'
<1>1. /\ UNCHANGED <<ui, held, call, aborts, ours, forsaken, gaveUp, usurped>>
      /\ UNCHANGED <<session, slot, outstanding, given, closed>>
      /\ stage[e] = "running"
      /\ TokenOf(boots, seq) \in Tokens
      /\ pending' = TokenOf(boots, seq)
  BY DEF Raise, Alone, plugin, history, talk
<1>2. \A f \in Execs :
        /\ stage'[f] = IF f = e THEN "asking" ELSE stage[f]
        /\ asked'[f] = IF f = e THEN TokenOf(boots, seq) ELSE asked[f]
  BY DEF Raise, Alone, Move, IInv, TypeOK
<1>3. OursIsLive' <=> OursIsLive
  BY <1>1, <1>2, SentinelAssumption DEF OursIsLive, Live, Underway
<1>4. OursIsLive => ours = e
  BY <1>1, OursInSocket DEF Ties, Underway
<1>5. session = "driving" /\ slot = e
  BY <1>1 DEF IInv, OwnerInv, Spawned
<1>6. Undrawn(TokenOf(boots, seq))
  BY <1>1, TokenTypes, BoundsAssumption DEF IInv, TypeOK, Undrawn
<1>7. \A t \in Tokens : Undrawn(t)' => Undrawn(t)
  BY TokenTypes, BoundsAssumption DEF Alone, Raise, IInv, TypeOK, Undrawn
<1>8. /\ TokenOf(boots, seq) # NoToken
      /\ held # NoToken => held \in Tokens
      /\ call.token # NoToken => call.token \in Tokens
  BY <1>1, SentinelAssumption DEF Ties, PluginTypeOK
<1>9. OursIsLive => call.at = "served" \/ forsaken \/ usurped
  BY <1>1, <1>4 DEF Ties, WorkInv
<1>10. OursIsLive /\ stage[ours] = "asking" => asked[ours] # NoToken /\ asked[ours] \in Tokens
  BY OursInSocket DEF Ties
<1>11. ours # NoExec => ours \in Execs
  BY DEF Ties, PluginTypeOK
<1>12. CallInv'
  BY <1>1, <1>3 DEF Ties, CallInv, Replies
<1>13. ServedInv'
  BY <1>1, <1>2, <1>11 DEF Ties, ServedInv
<1>14. OwnInv'
  BY <1>1, <1>2, <1>6, <1>7, <1>8 DEF Ties, OwnInv, Mine
<1>15. IdleInv'
  BY <1>1, <1>3, <1>4 DEF Ties, IdleInv, Tired, Sentlike
<1>16. TalkInv'
  BY <1>1, <1>3, <1>4 DEF Ties, TalkInv, Talks
<1>17. WorkInv'
  BY <1>1, <1>3, <1>4 DEF Ties, WorkInv
<1>18. NobodyIsLeftWaiting'
  BY <1>1, <1>3, <1>9 DEF Ties, NobodyIsLeftWaiting
<1>. QED
  BY <1>12, <1>13, <1>14, <1>15, <1>16, <1>17, <1>18 DEF Ties

(* Another client starts: our execution has ended.                         *)
LEMMA AloneExecute ==
  ASSUME IInv, IInv', Ties, PluginTypeOK',
         NEW e \in Execs, Alone(Execute(e))
  PROVE  Ties'
<1>1. /\ UNCHANGED <<ui, held, call, aborts, ours, forsaken, gaveUp, usurped>>
      /\ UNCHANGED <<asked, kind, given, closed, boots, seq>>
      /\ session = "free"
      /\ stage[e] = "none"
      /\ session' = "pipeline"
      /\ slot' = NoExec
  BY DEF Execute, Alone, plugin, history, talk
<1>2. \A f \in Execs : stage'[f] = IF f = e THEN "pipeline" ELSE stage[f]
  BY DEF Execute, Alone, Move, IInv, TypeOK
<1>3. \A f \in Execs : stage[f] \in {"none", "done"}
  BY SentinelAssumption DEF Alone, Execute, SlotIsFree, IInv, TypeOK, OwnerInv, Spawned,
      Stages
<1>4. ours # e
  BY <1>1, SentinelAssumption DEF Ties, ServedInv
<1>5. ~OursIsLive /\ ~OursIsLive'
  BY <1>1, <1>2, <1>3, <1>4 DEF OursIsLive, Live, Underway
<1>6. OursIsLive /\ stage[ours] = "asking" => asked[ours] # NoToken /\ asked[ours] \in Tokens
  BY OursInSocket DEF Ties
<1>7. ours # NoExec => ours \in Execs
  BY DEF Ties, PluginTypeOK
<1>8. CallInv'
  BY <1>1, <1>5 DEF Ties, CallInv, Replies
<1>9. ServedInv'
  BY <1>1, <1>2, <1>7 DEF Ties, ServedInv
<1>10. OwnInv'
  BY <1>1 DEF Ties, OwnInv, Mine, Undrawn
<1>11. IdleInv'
  BY <1>5 DEF Ties, IdleInv, Tired, Sentlike
<1>12. TalkInv'
  BY <1>5 DEF Ties, TalkInv, Talks
<1>13. WorkInv'
  BY <1>5 DEF Ties, WorkInv
<1>14. NobodyIsLeftWaiting'
  BY <1>5 DEF Ties, NobodyIsLeftWaiting
<1>. QED
  BY <1>8, <1>9, <1>10, <1>11, <1>12, <1>13, <1>14 DEF Ties

(* An answer of another client: ours is not in the slot, or it is taken    *)
(* over.                                                                   *)
LEMMA OtherAnswersStep ==
  ASSUME IInv, IInv', Ties, PluginTypeOK',
         NEW t \in Tokens, NEW v \in Verbs, OtherAnswers(t, v)
  PROVE  Ties'
<1>1. /\ UNCHANGED <<ui, held, call, aborts, ours, forsaken, gaveUp>>
      /\ UNCHANGED <<slot, pending, stage, asked, kind, closed, boots, seq>>
      /\ session = "free"
      /\ outstanding = t
      /\ usurped => usurped'
      /\ slot = ours => usurped'
  BY DEF Confirm, OtherAnswers, Shown, talk
<1>2. \A u \in Tokens : u # t => given'[u] = given[u]
  BY DEF Confirm, OtherAnswers, IInv, TypeOK
<1>3. OursIsLive' <=> OursIsLive
  BY <1>1 DEF OursIsLive, Live
<1>4. OursIsLive /\ stage[ours] \in {"running", "asking", "aborting"} => usurped'
  BY <1>1, OursInSocket DEF Ties
<1>5. OursIsLive => stage[ours] \in {"pipeline", "running", "asking", "aborting"}
  BY DEF OursIsLive, Live, Underway
<1>6. OursIsLive /\ stage[ours] = "pipeline" => session # "free"
  BY OursInSocket DEF Ties
<1>7. OursIsLive => usurped'
  BY <1>1, <1>4, <1>5, <1>6
<1>8. CallInv'
  BY <1>1, <1>3 DEF Ties, CallInv, Replies
<1>9. ServedInv'
  BY <1>1 DEF Ties, ServedInv
<1>10. OwnInv'
  BY <1>1 DEF Ties, OwnInv, Mine, Undrawn
<1>11. IdleInv'
  BY <1>1, <1>3 DEF Ties, IdleInv, Tired, Sentlike
<1>12. TalkInv'
  BY <1>1, <1>3, <1>7 DEF Ties, TalkInv, Talks
<1>13. WorkInv'
  BY <1>3, <1>7 DEF WorkInv
<1>14. NobodyIsLeftWaiting'
  BY <1>3, <1>7 DEF NobodyIsLeftWaiting
<1>. QED
  BY <1>8, <1>9, <1>10, <1>11, <1>12, <1>13, <1>14 DEF Ties

-----------------------------------------------------------------------------
(* Steps that end, or begin, a request that is served *)

(* The plan fails: nothing runs.                                           *)
LEMMA PlanRefusedTold ==
  ASSUME IInv, IInv', Ties, PluginTypeOK',
         NEW e \in Execs, NEW k \in Ends, Concluding(PlanRefused(e), k, NoToken)
  PROVE  Ties'
<1>1. /\ UNCHANGED <<ui, held, aborts, ours, forsaken, gaveUp, usurped>>
      /\ UNCHANGED <<slot, pending, outstanding, asked, kind, given, closed, boots, seq>>
      /\ session = "pipeline"
      /\ session' = "free"
      /\ stage[e] = "pipeline"
  BY DEF PlanRefused, Concluding, Shown, history, talk
<1>2. \A f \in Execs : stage'[f] = IF f = e THEN "done" ELSE stage[f]
  BY DEF PlanRefused, Concluding, Move, IInv, TypeOK
<1>3. IF call.at = "served"
      THEN /\ call'.at = "replied" /\ call'.what = k /\ call'.token = NoToken
      ELSE UNCHANGED call
  BY ReplyFields DEF Ties, Concluding, Tell
<1>4. k \in {"terminal", "unclassifiable"}
  BY DEF Ends
<1>5. OursIsLive => ours = e
  BY <1>1, OursInSocket DEF Ties, Underway
<1>6. ~OursIsLive'
  BY <1>1, <1>2, <1>5 DEF OursIsLive, Live, Underway
<1>7. OursIsLive /\ stage[ours] = "asking" =>
        asked[ours] # NoToken /\ asked[ours] \in Tokens \ closed
  BY OursInSocket DEF Ties
<1>8. ours # NoExec => ours \in Execs
  BY DEF Ties, PluginTypeOK
<1>9. CallInv'
  BY <1>1, <1>3, <1>4, <1>6 DEF Ties, CallInv, Replies
<1>10. ServedInv'
  BY <1>1, <1>2, <1>3, <1>8 DEF Ties, ServedInv
<1>11. OwnInv'
  BY <1>1, <1>3 DEF Ties, OwnInv, Mine, Undrawn
<1>12. IdleInv'
  BY <1>6 DEF Ties, IdleInv, Tired, Sentlike
<1>13. TalkInv'
  BY <1>6 DEF Ties, TalkInv, Talks
<1>14. WorkInv'
  BY <1>6 DEF Ties, WorkInv
<1>15. NobodyIsLeftWaiting'
  BY <1>6 DEF Ties, NobodyIsLeftWaiting
<1>. QED
  BY <1>9, <1>10, <1>11, <1>12, <1>13, <1>14, <1>15 DEF Ties

(* The question is put to the plugin that waits.                           *)
LEMMA PauseTold ==
  ASSUME IInv, IInv', Ties, PluginTypeOK',
         Concluding(ReportPause, "pause", pending)
  PROVE  Ties'
<1>1. /\ UNCHANGED <<ui, held, aborts, ours, forsaken, gaveUp, usurped>>
      /\ UNCHANGED <<slot, stage, asked, kind, given, closed, boots, seq>>
      /\ session = "driving"
      /\ session' = "free"
      /\ pending # NoToken
  BY DEF ReportPause, Concluding, Shown, history, talk
<1>2. IF call.at = "served"
      THEN /\ call'.at = "replied" /\ call'.what = "pause" /\ call'.token = pending
      ELSE UNCHANGED call
  BY ReplyFields DEF Ties, Concluding, Tell
<1>3. OursIsLive' <=> OursIsLive
  BY <1>1 DEF OursIsLive, Live
<1>4. call.at = "served" => slot = ours
  BY <1>1 DEF Ties, ServedInv
<1>5. /\ stage[slot] # "running"
      /\ OursIsLive => stage[ours] \in {"pipeline", "running", "asking", "aborting"}
  BY <1>1 DEF IInv, TokenInv, WaitedOn, OursIsLive, Live, Underway
<1>6. OursIsLive /\ slot = ours => stage[ours] \in {"asking", "aborting"}
  BY <1>1, <1>5, OursInSocket DEF Ties
<1>7. OursIsLive /\ stage[ours] = "asking" =>
        asked[ours] = pending /\ given[pending] = "nothing"
  BY <1>1, OursInSocket DEF Ties
<1>8. pending \in Tokens /\ (pending \in closed \/ WaitedOn(pending))
  BY <1>1 DEF IInv, TypeOK, TokenInv
<1>9. ~Undrawn(pending)
  BY <1>8 DEF IInv, FreshInv, TokenInv, WaitedOn, Kinds, TypeOK
<1>10. \A e \in Execs : asked[e] = pending => e = slot
  BY <1>1 DEF IInv, TokenInv, OwnerInv, Spawned
<1>11. OursIsLive /\ stage[ours] = "asking" =>
         asked[ours] # NoToken /\ asked[ours] \in Tokens \ closed
  BY OursInSocket DEF Ties
<1>12. ours # NoExec => ours \in Execs
  BY DEF Ties, PluginTypeOK
<1>13. CallInv'
  BY <1>1, <1>2, <1>3 DEF Ties, CallInv, Replies
<1>14. ServedInv'
  BY <1>1, <1>2 DEF Ties, ServedInv
<1>15. OwnInv'
  BY <1>1, <1>2, <1>4, <1>9, <1>10 DEF Ties, OwnInv, Mine, Undrawn
<1>16. IdleInv'
  BY <1>1, <1>2, <1>3 DEF Ties, IdleInv, Tired, Sentlike
<1>17. TalkInv'
  BY <1>1, <1>2, <1>3, <1>4, <1>6, <1>7 DEF Ties, TalkInv, Talks
<1>18. WorkInv'
  BY <1>1, <1>3, <1>4, <1>6, <1>7 DEF Ties, WorkInv
<1>19. NobodyIsLeftWaiting'
  BY <1>1, <1>2, <1>3, <1>7 DEF Ties, NobodyIsLeftWaiting
<1>. QED
  BY <1>13, <1>14, <1>15, <1>16, <1>17, <1>18, <1>19 DEF Ties

(* The end is reported: nothing runs.                                      *)
LEMMA EndTold ==
  ASSUME IInv, IInv', Ties, PluginTypeOK',
         NEW k \in Ends, Concluding(Collect, k, NoToken)
  PROVE  Ties'
<1>1. /\ UNCHANGED <<ui, held, aborts, ours, forsaken, gaveUp, usurped>>
      /\ UNCHANGED <<pending, stage, asked, kind, given, closed, boots, seq>>
      /\ session = "driving"
      /\ session' = "free"
      /\ stage[slot] = "done"
      /\ slot' = NoExec
  BY DEF Collect, Concluding, Shown, history, talk
<1>2. IF call.at = "served"
      THEN /\ call'.at = "replied" /\ call'.what = k /\ call'.token = NoToken
      ELSE UNCHANGED call
  BY ReplyFields DEF Ties, Concluding, Tell
<1>3. k \in {"terminal", "unclassifiable"}
  BY DEF Ends
<1>4. OursIsLive' <=> OursIsLive
  BY <1>1 DEF OursIsLive, Live
<1>5. call.at = "served" => slot = ours
  BY <1>1 DEF Ties, ServedInv
<1>6. OursIsLive => ours # slot /\ ours # NoExec
  BY <1>1, SentinelAssumption DEF OursIsLive, Live, Underway
<1>7. OursIsLive /\ stage[ours] = "asking" =>
        asked[ours] # NoToken /\ asked[ours] \in Tokens \ closed
  BY OursInSocket DEF Ties
<1>8. ours # NoExec => ours \in Execs
  BY DEF Ties, PluginTypeOK
<1>9. CallInv'
  BY <1>1, <1>2, <1>3, <1>4, <1>5, <1>6 DEF Ties, CallInv, Replies
<1>10. ServedInv'
  BY <1>1, <1>2 DEF Ties, ServedInv
<1>11. OwnInv'
  BY <1>1, <1>2 DEF Ties, OwnInv, Mine, Undrawn
<1>12. IdleInv'
  BY <1>1, <1>2, <1>3, <1>4 DEF Ties, IdleInv, Tired, Sentlike
<1>13. TalkInv'
  BY <1>1, <1>2, <1>3, <1>4 DEF Ties, TalkInv, Talks
<1>14. WorkInv'
  BY <1>1, <1>4, <1>5 DEF Ties, WorkInv
<1>15. NobodyIsLeftWaiting'
  BY <1>1, <1>2, <1>4, <1>5 DEF Ties, NobodyIsLeftWaiting
<1>. QED
  BY <1>9, <1>10, <1>11, <1>12, <1>13, <1>14, <1>15 DEF Ties

(* Nothing survives the daemon.                                            *)
LEMMA RestartTold ==
  ASSUME IInv, IInv', Ties, PluginTypeOK',
         Restarts
  PROVE  Ties'
<1>1. /\ UNCHANGED <<ui, held, aborts, ours, forsaken, gaveUp, usurped>>
      /\ UNCHANGED <<kind, given>>
  BY DEF Restart, Restarts, InFlight, Shown, history, talk
<1>2. /\ \A f \in Execs :
           /\ stage'[f] = IF stage[f] = "none" THEN "none" ELSE "done"
           /\ asked'[f] = NoToken
      /\ session' = "free"
  BY DEF Restart, Restarts, InFlight, Move, IInv, TypeOK
<1>3. IF call.at \in {"sent", "served"}
      THEN /\ call'.at = "replied" /\ call'.what = "lost" /\ call'.token = NoToken
      ELSE UNCHANGED call
  BY ReplyFields DEF Ties, Restarts, InFlight, Tell
<1>4. ~OursIsLive'
  BY <1>2, SentinelAssumption DEF OursIsLive, Live, Underway
<1>5. \A t \in Tokens : Undrawn(t)' => Undrawn(t)
  BY TokenTypes DEF Restarts, Restart, Undrawn, IInv, TypeOK
<1>6. /\ held # NoToken => held \in Tokens
      /\ call.token # NoToken => call.token \in Tokens
  BY DEF Ties, PluginTypeOK
<1>7. OursIsLive /\ stage[ours] = "asking" =>
        asked[ours] # NoToken /\ asked[ours] \in Tokens \ closed
  BY OursInSocket DEF Ties
<1>8. ours # NoExec => ours \in Execs
  BY DEF Ties, PluginTypeOK
<1>9. CallInv'
  BY <1>1, <1>3, <1>4 DEF Ties, CallInv, Replies
<1>10. ServedInv'
  BY <1>1, <1>2, <1>3, <1>8 DEF Ties, ServedInv
<1>11. OwnInv'
  BY <1>1, <1>2, <1>3, <1>5, <1>6 DEF Ties, OwnInv, Mine
<1>12. IdleInv'
  BY <1>4 DEF Ties, IdleInv, Tired, Sentlike
<1>13. TalkInv'
  BY <1>4 DEF Ties, TalkInv, Talks
<1>14. WorkInv'
  BY <1>4 DEF Ties, WorkInv
<1>15. NobodyIsLeftWaiting'
  BY <1>4 DEF Ties, NobodyIsLeftWaiting
<1>. QED
  BY <1>9, <1>10, <1>11, <1>12, <1>13, <1>14, <1>15 DEF Ties

(* The execution of this session from here on.                             *)
LEMMA StartServedStep ==
  ASSUME IInv, IInv', Ties, PluginTypeOK',
         NEW e \in Execs, StartIsServed(e)
  PROVE  Ties'
<1>1. /\ UNCHANGED <<ui, held, aborts>>
      /\ UNCHANGED <<asked, kind, given, closed, boots, seq>>
      /\ session' = "pipeline"
      /\ ours' = e
      /\ forsaken' = FALSE
      /\ call.at = "sent"
      /\ call.what = "execute"
  BY DEF StartIsServed, Execute, StartIsServed, Shown, history, talk
<1>2. \A f \in Execs : stage'[f] = IF f = e THEN "pipeline" ELSE stage[f]
  BY DEF StartIsServed, Execute, StartIsServed, Move, IInv, TypeOK
<1>3. /\ call'.at = "served"
      /\ call'.what = "nothing"
      /\ call'.token = NoToken
  BY ReplyFields DEF Ties, StartIsServed, Tell
<1>4. /\ ui = "running"
      /\ held = NoToken
      /\ call.token = NoToken
      /\ e # NoExec
  BY <1>1, SentinelAssumption DEF Ties, CallInv
<1>5. OursIsLive /\ stage[ours] = "asking" =>
        asked[ours] # NoToken /\ asked[ours] \in Tokens \ closed
  BY OursInSocket DEF Ties
<1>6. ours # NoExec => ours \in Execs
  BY DEF Ties, PluginTypeOK
<1>7. CallInv'
  BY <1>1, <1>3 DEF Ties, CallInv, Replies
<1>8. ServedInv'
  BY <1>1, <1>2, <1>4 DEF Ties, ServedInv
<1>9. OwnInv'
  BY <1>1, <1>3, <1>4 DEF Ties, OwnInv, Mine, Undrawn
<1>10. IdleInv'
  BY <1>1, <1>3, <1>4 DEF Ties, IdleInv, Tired, Sentlike
<1>11. TalkInv'
  BY <1>1, <1>3, <1>4 DEF Ties, TalkInv, Talks
<1>12. WorkInv'
  BY <1>3 DEF Ties, WorkInv
<1>13. NobodyIsLeftWaiting'
  BY <1>1, <1>2 DEF Ties, NobodyIsLeftWaiting
<1>. QED
  BY <1>7, <1>8, <1>9, <1>10, <1>11, <1>12, <1>13 DEF Ties

(* plrd follows the answer, or nobody listens any more.                    *)
LEMMA AnswerServedStep ==
  ASSUME IInv, IInv', Ties, PluginTypeOK',
         AnswerIsServed
  PROVE  Ties'
<1>1. /\ UNCHANGED <<ui, held, aborts, ours, forsaken, gaveUp, usurped>>
      /\ UNCHANGED <<slot, pending, stage, asked, kind, closed, boots, seq>>
      /\ session = "free"
      /\ slot # NoExec
      /\ outstanding = call.token
      /\ call.at = "sent"
      /\ call.what \in Verbs
  BY DEF AnswerIsServed, Confirm, AnswerIsServed, Shown, history, talk
<1>2. IF call.token \in closed
      THEN /\ call'.at = "replied" /\ call'.what = "stale" /\ call'.token = NoToken
      ELSE call'.at = "served" /\ call'.what = "nothing" /\ call'.token = NoToken
  BY ReplyFields DEF Ties, AnswerIsServed, Tell
<1>3. /\ call.token \in Tokens
      /\ call.token # NoToken
      /\ call.what \notin Replies \cup {"execute", "rejected", "pause", "terminal"}
      /\ ui = "running"
      /\ held = NoToken
  BY <1>1 DEF Ties, CallInv, PluginTypeOK, Verbs, BinaryVerbs, PreviewVerbs, Replies
<1>4. IF call.token \in closed
      THEN UNCHANGED <<given, session>>
      ELSE session' = "driving" /\ \A u \in Tokens : u # call.token => given'[u] = given[u]
  BY DEF AnswerIsServed, Confirm, IInv, TypeOK
<1>5. call.token \notin closed => slot = ours
  BY <1>1, <1>3 DEF Ties, OwnInv, Mine, IInv, TypeOK, TokenInv, WaitedOn
<1>6. OursIsLive' <=> OursIsLive
  BY <1>1 DEF OursIsLive, Live
<1>7. OursIsLive /\ stage[ours] = "asking" =>
        asked[ours] # NoToken /\ asked[ours] \in Tokens \ closed
  BY OursInSocket DEF Ties
<1>8. ours # NoExec => ours \in Execs
  BY DEF Ties, PluginTypeOK
<1>9. CallInv'
  BY <1>1, <1>2, <1>6 DEF Ties, CallInv, Replies
<1>10. ServedInv'
  BY <1>1, <1>2, <1>4, <1>5 DEF Ties, ServedInv
<1>11. OwnInv'
  BY <1>1, <1>2 DEF Ties, OwnInv, Mine, Undrawn
<1>12. IdleInv'
  BY <1>1, <1>2, <1>3 DEF Ties, IdleInv, Tired, Sentlike
<1>13. TalkInv'
  BY <1>1, <1>2, <1>3 DEF Ties, TalkInv, Talks
<1>14. WorkInv'
  BY <1>1, <1>2, <1>4, <1>6 DEF Ties, WorkInv
<1>15. NobodyIsLeftWaiting'
  BY <1>1, <1>2, <1>4, <1>6, <1>7 DEF Ties, NobodyIsLeftWaiting
<1>. QED
  BY <1>9, <1>10, <1>11, <1>12, <1>13, <1>14, <1>15 DEF Ties

(* An abort of a question that nobody waits on.                            *)
LEMMA AbortIgnored ==
  ASSUME IInv, IInv', Ties, PluginTypeOK',
         NEW t \in aborts, AbortArrives(t),
         ~(session = "free" /\ slot # NoExec /\ outstanding = t)
  PROVE  Ties'
<1>1. /\ UNCHANGED <<ui, held, call, ours, forsaken, gaveUp, usurped>>
      /\ UNCHANGED <<session, slot, pending, outstanding, stage, asked, kind, given, closed,
             boots, seq>>
      /\ aborts' = aborts \ {t}
  BY DEF AbortArrives, AbortArrives, vars, Shown, history, talk
<1>2. OursIsLive' <=> OursIsLive
  BY <1>1 DEF OursIsLive, Live
<1>3. /\ OursIsLive /\ ~forsaken /\ ~usurped /\ call.at # "served"
      /\ stage[ours] = "asking" /\ given[asked[ours]] = "nothing"
      => asked[ours] # t
  BY OursInSocket DEF Ties, WorkInv
<1>4. OursIsLive /\ stage[ours] = "asking" =>
        asked[ours] # NoToken /\ asked[ours] \in Tokens \ closed
  BY OursInSocket DEF Ties
<1>5. ours # NoExec => ours \in Execs
  BY DEF Ties, PluginTypeOK
<1>6. CallInv'
  BY <1>1, <1>2 DEF Ties, CallInv, Replies
<1>7. ServedInv'
  BY <1>1 DEF Ties, ServedInv
<1>8. OwnInv'
  BY <1>1 DEF Ties, OwnInv, Mine, Undrawn
<1>9. IdleInv'
  BY <1>1, <1>2 DEF Ties, IdleInv, Tired, Sentlike
<1>10. TalkInv'
  BY <1>1, <1>2 DEF Ties, TalkInv, Talks
<1>11. WorkInv'
  BY <1>1, <1>2 DEF Ties, WorkInv
<1>12. NobodyIsLeftWaiting'
  BY <1>1, <1>2, <1>3 DEF Ties, NobodyIsLeftWaiting
<1>. QED
  BY <1>6, <1>7, <1>8, <1>9, <1>10, <1>11, <1>12 DEF Ties

(* The question is answered with an abort.                                 *)
LEMMA AbortTaken ==
  ASSUME IInv, IInv', Ties, PluginTypeOK',
         NEW t \in aborts, AbortArrives(t), session = "free" /\ slot # NoExec /\ outstanding = t
  PROVE  Ties'
<1>1. /\ UNCHANGED <<ui, held, call, ours, forsaken, gaveUp, usurped>>
      /\ UNCHANGED <<slot, pending, stage, asked, kind, closed, boots, seq>>
      /\ t \in Tokens
  BY DEF Ties, PluginTypeOK, AbortArrives, Confirm, Shown, history, talk
<1>2. IF t \in closed
      THEN UNCHANGED <<given, session>>
      ELSE /\ session' = "driving"
           /\ \A u \in Tokens : given'[u] = IF u = t THEN "abort" ELSE given[u]
  BY DEF AbortArrives, Confirm, IInv, TypeOK
<1>3. OursIsLive' <=> OursIsLive
  BY <1>1 DEF OursIsLive, Live
<1>4. OursIsLive /\ stage[ours] = "asking" => asked[ours] = t
  BY OursInSocket DEF Ties
<1>5. OursIsLive => stage[ours] \in {"pipeline", "running", "asking", "aborting"}
  BY DEF OursIsLive, Live, Underway
<1>6. /\ held # NoToken => held \in Tokens
      /\ call.token # NoToken => call.token \in Tokens
  BY DEF Ties, PluginTypeOK
<1>7. OursIsLive /\ stage[ours] = "asking" =>
        asked[ours] # NoToken /\ asked[ours] \in Tokens \ closed
  BY OursInSocket DEF Ties
<1>8. ours # NoExec => ours \in Execs
  BY DEF Ties, PluginTypeOK
<1>9. CallInv'
  BY <1>1, <1>3 DEF Ties, CallInv, Replies
<1>10. ServedInv'
  BY <1>1 DEF Ties, ServedInv
<1>11. OwnInv'
  BY <1>1 DEF Ties, OwnInv, Mine, Undrawn
<1>12. IdleInv'
  BY <1>1, <1>3 DEF Ties, IdleInv, Tired, Sentlike
<1>13. TalkInv'
  BY <1>1, <1>2, <1>3, <1>4 DEF Ties, TalkInv, Talks
<1>14. WorkInv'
  BY <1>1, <1>2, <1>3, <1>4, <1>5 DEF Ties, WorkInv
<1>15. NobodyIsLeftWaiting'
  BY <1>1, <1>2, <1>3, <1>4, <1>7 DEF Ties, NobodyIsLeftWaiting
<1>. QED
  BY <1>9, <1>10, <1>11, <1>12, <1>13, <1>14, <1>15 DEF Ties

-----------------------------------------------------------------------------
LEMMA RequestTypes ==
  ASSUME PluginTypeOK,
         NEW what \in Replies \cup Verbs \cup {"nothing", "execute"},
         NEW t \in Tokens \cup {NoToken}
  PROVE  /\ (Tell(what, t) => call' \in CallType) /\ Request(what, t) \in CallType
         /\ Quiet \in CallType /\ Served \in CallType
BY DEF PluginTypeOK, CallType, Tell, Reply, Request, Quiet, Served, UiStates

LEMMA PluginTypeStep ==
  ASSUME IInv, Ties, PluginNext
  PROVE  PluginTypeOK'
<1>. USE DEF Ties, Shown, history
<1>0. Verbs = {"continue", "choose", "abort"} /\ Ends \subseteq Replies
  BY DEF Verbs, BinaryVerbs, PreviewVerbs, Ends, Replies
<1>1. CASE Start \/ \E v \in Verbs : Answer(v)
  <2>1. call' \in CallType
    BY <1>1, RequestTypes DEF Start, Answer, PluginTypeOK
  <2>. QED
    BY <1>1, <2>1 DEF Start, Answer, PluginTypeOK, CallType, Abandon, UiStates
<1>2. CASE Deliver
  <2>1. call' \in CallType
    BY <1>2, RequestTypes DEF Deliver
  <2>2. call.token \in Tokens \cup {NoToken} /\ call.prior \in UiStates
    BY DEF PluginTypeOK
  <2>3. ui' \in UiStates /\ held' \in Tokens \cup {NoToken}
    BY <1>2, <2>2 DEF Deliver, StateAfter, HeldAfter, UiStates
  <2>4. PauseInShutdown => call.token \in Tokens
    BY <2>2 DEF PauseInShutdown, CallInv
  <2>5. aborts' \subseteq Tokens
    BY <1>2, <2>4 DEF Deliver, PluginTypeOK
  <2>. QED
    BY <1>2, <2>1, <2>3, <2>5 DEF Deliver, PluginTypeOK, CallType
<1>3. CASE ClaimExpires \/ WaitExpires \/ Shutdown \/ Teardown
  <2>1. call' \in CallType
    BY <1>3, RequestTypes DEF ClaimExpires, WaitExpires, Shutdown, Teardown, PluginTypeOK,
        CallType
  <2>. QED
    BY <1>3, <2>1 DEF ClaimExpires, WaitExpires, Shutdown, Teardown, Abandon, PluginTypeOK,
        CallType, UiStates
<1>4. CASE StartIsRefused \/ AnswerIsRefused \/ CallFails \/ Restarts
  <2>1. /\ {"busy", "rejected", "stale", "lost"} \subseteq Replies
        /\ call.token \in Tokens \cup {NoToken}
    BY DEF Replies, PluginTypeOK
  <2>2. call' \in CallType
    BY <1>4, <2>1, RequestTypes DEF StartIsRefused, AnswerIsRefused, CallFails, Restarts,
        PluginTypeOK, CallType
  <2>. QED
    BY <1>4, <2>2 DEF StartIsRefused, AnswerIsRefused, CallFails, Restarts, PluginTypeOK,
        CallType
<1>5. CASE AnswerIsServed \/ \E e \in Execs : StartIsServed(e)
  <2>1. "stale" \in Replies
    BY DEF Replies
  <2>2. call' \in CallType
    BY <1>5, <2>1, RequestTypes DEF AnswerIsServed, StartIsServed, PluginTypeOK, CallType
  <2>. QED
    BY <1>5, <2>2 DEF AnswerIsServed, StartIsServed, PluginTypeOK, CallType
<1>6. CASE \E t \in aborts : AbortArrives(t) \/ AbortIsLost(t)
  BY <1>6 DEF AbortArrives, AbortIsLost, PluginTypeOK
<1>7. CASE OtherClients \/ \E e \in Execs :
             Alone(SpawnAndDrive(e)) \/ Alone(Work(e)) \/ Alone(Hear(e)) \/ Alone(Lapse(e))
             \/ Alone(TimeOut(e))
  BY <1>7 DEF OtherClients, OtherStarts, OtherAnswers, Alone, plugin, Shown, PluginTypeOK
<1>8. CASE \E e \in Execs : \E k \in Ends : Concluding(PlanRefused(e), k, NoToken)
  <2>1. call' \in CallType
    BY <1>0, <1>8, RequestTypes DEF Concluding, PluginTypeOK, CallType
  <2>. QED
    BY <1>8, <2>1 DEF Concluding, PluginTypeOK, CallType
<1>9. CASE Driving
  <2>1. pending \in Tokens \cup {NoToken} /\ "pause" \in Replies
    BY DEF IInv, TypeOK, Replies
  <2>2. call' \in CallType
    BY <1>0, <1>9, <2>1, RequestTypes DEF Driving, Concluding, PluginTypeOK, CallType
  <2>. QED
    BY <1>9, <2>2 DEF Driving, Concluding, PluginTypeOK, CallType
<1>. QED
  BY <1>1, <1>2, <1>3, <1>4, <1>5, <1>6, <1>7, <1>8, <1>9 DEF PluginNext, Operator, Reactor,
      Klippy, Socket, Daemon, Planning

LEMMA InitTies == PluginInit => Ties
<1> SUFFICES ASSUME PluginInit PROVE Ties
  OBVIOUS
<1>1. ui = "idle" /\ held = NoToken /\ call.at = "none" /\ call.what = "nothing"
      /\ call.token = NoToken /\ ours = NoExec
  BY Fields DEF PluginInit
<1>2. ~OursIsLive
  BY <1>1, SentinelAssumption DEF OursIsLive, Live
<1>3. PluginTypeOK
  BY RequestTypes DEF PluginInit, PluginTypeOK, UiStates, Quiet
<1>4. CallInv /\ ServedInv /\ OwnInv /\ IdleInv /\ TalkInv /\ WorkInv /\ NobodyIsLeftWaiting
  BY <1>1, <1>2 DEF CallInv, Replies, ServedInv, OwnInv, IdleInv, Tired, TalkInv, WorkInv,
      NobodyIsLeftWaiting
<1>. QED
  BY <1>3, <1>4 DEF Ties

LEMMA UntouchedTies ==
  ASSUME Ties, UNCHANGED everything
  PROVE  Ties'
<1>1. UNCHANGED <<session, slot, stage, asked, kind, given, boots, seq, ui, held, call, aborts,
                  shut, ours, forsaken, gaveUp, usurped>>
  BY DEF everything, vars, talk, plugin, history
<1>. QED
  BY <1>1 DEF Ties, PluginTypeOK, CallInv, ServedInv, OwnInv, Mine, Undrawn, IdleInv,
      Sentlike, Tired, TalkInv, Talks, WorkInv, NobodyIsLeftWaiting, OursIsLive, Live

LEMMA DaemonTies ==
  ASSUME IInv, IInv', Ties, PluginTypeOK', Daemon
  PROVE  Ties'
<1>1. CASE \E e \in Execs : Planning(e)
  BY <1>1, AloneSpawn, PlanRefusedTold DEF Planning
<1>2. CASE \E e \in Execs : Alone(Work(e))
  <2>1. PICK e \in Execs : Alone(Finish(e)) \/ \E k \in Kinds : Alone(Raise(e, k))
    BY <1>2 DEF Alone, Work
  <2>. QED
    BY <2>1, AloneFinish, AloneRaise
<1>3. CASE \E e \in Execs : Alone(Hear(e)) \/ Alone(Lapse(e)) \/ Alone(TimeOut(e))
  BY <1>3, AloneHear, AloneLapse, AloneTimeOut
<1>4. CASE Driving \/ Restarts
  BY <1>4, PauseTold, EndTold, RestartTold DEF Driving
<1>. QED
  BY <1>1, <1>2, <1>3, <1>4 DEF Daemon

LEMMA NextTies ==
  ASSUME IInv, IInv', Ties, BootInv, [PluginNext]_everything
  PROVE  Ties'
<1>1. CASE UNCHANGED everything
  BY <1>1, UntouchedTies
<1>2. CASE PluginNext
  <2>1. PluginTypeOK'
    BY <1>2, PluginTypeStep
  <2>2. CASE Operator \/ Reactor \/ Klippy
    BY <2>1, <2>2, StartStep, AnswerStep, DeliverStep, ClaimStep, WaitStep, ShutdownStep,
        TeardownStep DEF Operator, Reactor, Klippy
  <2>3. CASE Socket
    <3>1. CASE \E t \in aborts : AbortArrives(t) \/ AbortIsLost(t)
      BY <2>1, <3>1, AbortIgnored, AbortTaken, AbortLostStep
    <3>2. CASE AnswerIsServed \/ \E e \in Execs : StartIsServed(e)
      BY <2>1, <3>2, StartServedStep, AnswerServedStep
    <3>. QED
      BY <2>1, <2>3, <3>1, <3>2, StartRefusedStep, AnswerRefusedStep,
          CallFailsStep DEF Socket
  <2>4. CASE Daemon
    BY <2>1, <2>4, DaemonTies
  <2>5. CASE OtherClients
    BY <2>1, <2>5, AloneExecute, OtherAnswersStep DEF OtherClients, OtherStarts
  <2>. QED
    BY <1>2, <2>2, <2>3, <2>4, <2>5 DEF PluginNext
<1>. QED
  BY <1>1, <1>2

(* An execution that has been started comes to life never again.           *)
LEMMA LiveBefore ==
  ASSUME IInv, [Next]_vars, NEW f \in Execs, stage[f] # "none", stage'[f] \in Underway
  PROVE  stage[f] \in Underway
<1>. USE DEF IInv, TypeOK, Move, Underway
<1>1. CASE \E e \in Execs : Execute(e) \/ Plan(e)
  BY <1>1 DEF Execute, Plan, PlanRefused, SpawnAndDrive
<1>2. CASE \E e \in Execs : Work(e)
  BY <1>2 DEF Work, Finish, Raise
<1>3. CASE \E e \in Execs : Hear(e) \/ Lapse(e) \/ TimeOut(e)
  BY <1>3 DEF Hear, Lapse, TimeOut
<1>4. CASE Restart
  BY <1>4 DEF Restart
<1>5. CASE UNCHANGED stage
  BY <1>5
<1>6. CASE Drive \/ UNCHANGED vars \/ \E t \in Tokens, v \in Verbs : Confirm(t, v)
  BY <1>5, <1>6 DEF Drive, ReportPause, Collect, vars, Confirm
<1>. QED
  BY <1>1, <1>2, <1>3, <1>4, <1>6 DEF Next

(* Where the tokens in the plugin's hands come from.                       *)
LEMMA HandsStep ==
  ASSUME Ties, [PluginNext]_everything
  PROVE  /\ held' \in {held, NoToken, call.token}
         /\ call'.token \in {call.token, NoToken, held, pending}
         /\ \/ UNCHANGED ours
            \/ ours' = NoExec
            \/ held' = NoToken /\ call'.token = NoToken
<1>. USE Fields, ReplyFields DEF Shown, history, Tell
<1>1. CASE UNCHANGED everything
  BY <1>1 DEF everything, plugin
<1>2. CASE Operator
  BY <1>2 DEF Operator, Start, Answer
<1>3. CASE Reactor \/ Klippy
  BY <1>3 DEF Reactor, Deliver, HeldAfter, ClaimExpires, WaitExpires, Klippy, Shutdown,
      Teardown
<1>4. CASE \E e \in Execs : StartIsServed(e)
  BY <1>4 DEF StartIsServed, Ties, CallInv
<1>5. CASE StartIsRefused \/ AnswerIsServed \/ AnswerIsRefused \/ CallFails
  BY <1>5 DEF StartIsRefused, AnswerIsServed, AnswerIsRefused, CallFails
<1>6. CASE \E t \in aborts : AbortArrives(t) \/ AbortIsLost(t)
  BY <1>6 DEF AbortArrives, AbortIsLost
<1>7. CASE Daemon
  BY <1>7 DEF Daemon, Planning, Driving, Restarts, Alone, plugin, Concluding
<1>8. CASE OtherClients
  BY <1>8 DEF OtherClients, OtherStarts, OtherAnswers, Alone, plugin
<1>. QED
  BY <1>1, <1>2, <1>3, <1>4, <1>5, <1>6, <1>7, <1>8 DEF PluginNext, Socket

(* A token changes hands from the channel to a request and to the plugin.  *)
LEMMA BootStep ==
  ASSUME IInv, Ties, BootInv, [PluginNext]_everything
  PROVE  BootInv'
<1>1. [Next]_vars
  BY SocketStep DEF Ties
<1>2. \/ UNCHANGED boots /\ \/ pending' \in {pending, NoToken}
                             \/ pending' = TokenOf(boots, seq)
      \/ Restart
  BY <1>1 DEF Next, vars, talk, Execute, Plan, PlanRefused, SpawnAndDrive, Work, Finish,
      Raise, Hear, Lapse, TimeOut, Confirm, Drive, ReportPause, Collect
<1>3. CASE Restart
  BY <1>3, SentinelAssumption DEF Restart, BootInv, OursIsLive, Live, Underway
<1>4. CASE UNCHANGED boots /\ pending' \in {pending, NoToken, TokenOf(boots, seq)}
  <2>1. pending' # NoToken => pending'[1] = boots'
    BY <1>4, TokenTypes DEF BootInv, IInv, TypeOK
  <2>2. OursIsLive' => OursIsLive \/ (held' = NoToken /\ call'.token = NoToken)
    <3> SUFFICES ASSUME OursIsLive', held' # NoToken \/ call'.token # NoToken
                 PROVE  OursIsLive
      OBVIOUS
    <3>1. UNCHANGED ours /\ ours \in Execs /\ stage'[ours] \in Underway
      BY HandsStep, SentinelAssumption DEF OursIsLive, Live
    <3>2. stage[ours] # "none"
      BY <3>1, SentinelAssumption DEF Ties, ServedInv
    <3>. QED
      BY <1>1, <3>1, <3>2, LiveBefore DEF OursIsLive, Live
  <2>3. OursIsLive' =>
          /\ held' # NoToken => held'[1] = boots
          /\ call'.token # NoToken => call'.token[1] = boots
    BY <2>2, HandsStep DEF BootInv
  <2>. QED
    BY <1>4, <2>1, <2>3 DEF BootInv
<1>. QED
  BY <1>2, <1>3, <1>4

LEMMA PluginInvariant == PluginSpec => [](IInv /\ Ties /\ BootInv)
<1>1. PluginInit => IInv /\ Ties /\ BootInv
  <2>1. PluginInit => IInv /\ Ties
    BY InitInv, InitTies DEF PluginInit
  <2>2. PluginInit => BootInv
    BY SentinelAssumption DEF PluginInit, Init, BootInv, OursIsLive, Live
  <2>. QED
    BY <2>1, <2>2
<1>2. IInv /\ Ties /\ BootInv /\ [PluginNext]_everything => IInv' /\ Ties' /\ BootInv'
  <2>1. IInv /\ Ties /\ [PluginNext]_everything => IInv'
    BY SocketStep, NextInv DEF Ties
  <2>. QED
    BY <2>1, NextTies, BootStep
<1>. QED
  BY <1>1, <1>2, PTL DEF PluginSpec

(* Every behaviour of the composition is one of the control socket: the    *)
(* plugin, its failures and klippy's restarts are clients like any other   *)
(* (daemon_worker.py call, ctrlsock.rs).                                   *)
THEOREM PluginIsAClient == PluginSpec => Spec
<1>1. PluginInit => Init
  BY DEF PluginInit
<1>2. IInv /\ Ties /\ [PluginNext]_everything => [Next]_vars
  BY SocketStep DEF Ties
<1>. QED
  BY <1>1, <1>2, PluginInvariant, PTL DEF PluginSpec, Spec

(* What the operator reads is true of the recovery this session started:   *)
(* idle only when nothing of it runs but an abort it gave up on, waiting   *)
(* only when it waits for that answer.  Not once another client answered a *)
(* question of it: then it may be called waiting while it runs, and idle   *)
(* after the wait for the answer was given up                              *)
(* (recovery.py: classify, _transition, _on_expiry).                       *)
THEOREM PublishedStateIsTrue == PluginSpec => []PublishedIsTrue
<1>1. Ties => PublishedIsTrue
  BY DEF Ties, PublishedIsTrue, IdleInv, Tired, TalkInv, Talks, CallInv
<1>. QED
  BY <1>1, PluginInvariant, PTL

(* Short of a failed call, or of another client that answers in between,   *)
(* plrd never waits for an answer that nobody can or will give: a          *)
(* shutdown, a second start and a refused answer included                  *)
(* (recovery.py: start, _pause, _plrd_busy, _handle_shutdown).             *)
THEOREM NoQuestionIsForgotten == PluginSpec => []NobodyIsLeftWaiting
<1>1. Ties => NobodyIsLeftWaiting
  BY DEF Ties
<1>. QED
  BY <1>1, PluginInvariant, PTL

=============================================================================
