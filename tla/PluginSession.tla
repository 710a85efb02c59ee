--------------------------- MODULE PluginSession ---------------------------
(***************************************************************************)
(* The Klipper plugin's side of a recovery (klippy_plugin/plr/recovery.py, *)
(* daemon_worker.py) against the control socket it talks to.               *)
(*                                                                         *)
(* Klipper's reactor is one thread: a command handler and a callback run   *)
(* without interruption.  A request to plrd is made by a worker thread, at *)
(* most one at a time, and its answer comes back as a callback.  What the  *)
(* plugin publishes (`ui`) is all an operator beside the machine has to go *)
(* by, so the file orders the states by alarm and demands evidence for     *)
(* each calmer one.                                                        *)
(*                                                                         *)
(* A command that is refused, and one whose worker thread could not be     *)
(* started, changes nothing.  The report of a detached abort may only      *)
(* raise the alarm of the conversation it belongs to, which is "unknown"   *)
(* already when the abort is sent; it is left out.  Other clients start    *)
(* recoveries, and answer any question: recover_state tells everybody the  *)
(* token of the one that is open.                                          *)
(***************************************************************************)
EXTENDS ControlSocket

VARIABLES
  ui,        \* the state the plugin publishes
  held,      \* the question an answer can be given to (`_token`), or NoToken
  call,      \* the request in flight, what it found published, and its answer
  aborts,    \* aborts sent by a detached thread and not yet arrived
  shut,      \* klippy is shut down
  ours,      \* the execution this klippy session started last, or NoExec
  forsaken,  \* it was lost by a failed call, or by an abort that never arrived
  gaveUp,    \* the wait for an answer to it ended
  usurped    \* another client answered a question of it

history == <<ours, forsaken, gaveUp, usurped>>
plugin == <<ui, held, call, aborts, shut, history>>
everything == <<vars, plugin>>

UiStates == {"idle", "running", "awaiting", "plrd_busy", "unknown"}
Replies ==
  {"pause", "busy", "malformed", "stale", "rejected", "terminal", "unclassifiable", "lost"}

\* A question no execution waits on any more.
Overdue(t) == \A e \in Execs : asked[e] # t

Quiet == [at |-> "none", what |-> "nothing", token |-> NoToken, prior |-> "idle"]
Request(what, t) == [at |-> "sent", what |-> what, token |-> t, prior |-> ui]
\* What was asked does not matter once plrd has taken it up, nor what was
\* published before, unless plrd rejects the request.
Served == [Quiet EXCEPT !.at = "served"]
Reply(what, t) == [at |-> "replied", what |-> what, token |-> t,
                   prior |-> IF what = "rejected" THEN call.prior ELSE "idle"]
InFlight == call.at \in {"sent", "served"}

OursIsLive == ours \in Live

PluginInit ==
  /\ Init
  /\ ui = "idle"
  /\ held = NoToken
  /\ call = Quiet
  /\ aborts = {}
  /\ shut = FALSE
  /\ ours = NoExec
  /\ forsaken = FALSE
  /\ gaveUp = FALSE
  /\ usurped = FALSE

-----------------------------------------------------------------------------
(* Commands of the operator *)

MayStartNew == ui \in {"idle", "plrd_busy", "unknown"}

AbandonSilently == aborts                                            \* mutant
\* A question that was kept is given up with an abort of its own.
Abandon == aborts \cup ({held} \ {NoToken})

Start ==
  /\ ~shut
  /\ MayStartNew
  /\ call = Quiet
  /\ call' = Request("execute", NoToken)
  /\ ui' = "running"
  /\ held' = NoToken
  /\ aborts' = Abandon
  /\ UNCHANGED <<vars, shut, history>>

\* On a shut-down printer nothing but an abort; a verb of the wrong vocabulary
\* is refused before the token is spent.
Answer(v) ==
  /\ held # NoToken
  /\ v # "abort" => ~shut
  /\ v \in Vocabulary(kind[held])
  /\ call = Quiet
  /\ call' = Request(v, held)
  /\ ui' = "running"
  /\ held' = NoToken
  /\ UNCHANGED <<vars, aborts, shut, history>>

-----------------------------------------------------------------------------
(* What comes back *)

BusyIsAnEnd(k) ==                                                    \* mutant
  CASE k \in {"terminal", "busy"} -> "idle"
    [] k = "rejected" -> call.prior
    [] k = "pause" -> "awaiting"
    [] OTHER -> "unknown"
\* classify, and what each reading publishes: only an outcome that proves
\* nothing is left running is calm; a request that was rejected before anything
\* was dispatched says nothing about the machine.
StateAfter(k) ==
  CASE k = "terminal" -> "idle"
    [] k = "rejected" -> call.prior
    [] k = "busy" -> "plrd_busy"
    [] k = "pause" -> "awaiting"
    [] OTHER -> "unknown"

\* plrd refused the answer and kept the question: so does the plugin.
HeldAfter(k) == IF k \in {"pause", "busy", "malformed"} THEN call.token ELSE NoToken

\* A question that arrives on a shut-down printer is aborted at once.
PauseInShutdown == call.what = "pause" /\ shut

DropWhenShut == call.at = "replied" /\ ~shut                         \* mutant
\* The worker's slot frees with the delivery; a shutdown does not close it.
Deliverable == call.at = "replied"

Deliver ==
  /\ Deliverable
  /\ call' = Quiet
  /\ IF PauseInShutdown
     THEN /\ ui' = "unknown"
          /\ held' = NoToken
          /\ aborts' = aborts \cup {call.token}
     ELSE /\ ui' = StateAfter(call.what)
          /\ held' = HeldAfter(call.what)
          /\ UNCHANGED aborts
  /\ UNCHANGED <<vars, shut, history>>

\* Only when `confirm_timeout_s` is not set: plrd's default deadline has passed,
\* so the question can no longer be vouched for; an answer may still be tried.
\* The timers of a question that was dropped are disarmed.
ClaimExpires ==
  /\ ui = "awaiting" /\ held # NoToken
  /\ Overdue(held)
  /\ ui' = "unknown"
  /\ UNCHANGED <<vars, held, call, aborts, shut, history>>

\* The wait outlasts every deadline plrd may be using.
WaitExpires ==
  /\ held # NoToken
  /\ ui \in {"awaiting", "unknown"}
  /\ Overdue(held)
  /\ ui' = "idle"
  /\ held' = NoToken
  /\ gaveUp' = TRUE
  /\ UNCHANGED <<vars, call, aborts, shut, ours, forsaken, usurped>>

\* klippy:shutdown.  A call in flight stays in flight and is still reported.
Shutdown ==
  /\ ~shut
  /\ shut' = TRUE
  /\ held' = NoToken
  /\ aborts' = Abandon
  /\ ui' = IF held = NoToken THEN ui ELSE "unknown"
  /\ UNCHANGED <<vars, call, history>>

\* klippy:disconnect and the session of the klippy after it.  A request that is
\* still on its way belongs to nobody: it arrives as somebody else's, if at all.
Teardown ==
  /\ ui' = "idle"
  /\ held' = NoToken
  /\ call' = Quiet
  /\ aborts' = Abandon
  /\ shut' = FALSE
  /\ ours' = NoExec
  /\ forsaken' = FALSE
  /\ gaveUp' = FALSE
  /\ usurped' = FALSE
  /\ UNCHANGED vars

-----------------------------------------------------------------------------
(* The request at the socket *)

Tell(what, t) == call' = Reply(what, t)
Shown == <<ui, held, aborts, shut>>

StartIsServed(e) ==
  /\ call.at = "sent" /\ call.what = "execute"
  /\ Execute(e)
  /\ call' = Served
  /\ ours' = e
  /\ forsaken' = FALSE
  /\ gaveUp' = FALSE
  /\ usurped' = FALSE
  /\ UNCHANGED Shown

\* busy; or a daemon of another version does not know the request.
StartIsRefused ==
  /\ call.at = "sent" /\ call.what = "execute"
  /\ \/ session # "free" /\ Tell("busy", NoToken)
     \/ ~SlotIsFree /\ Tell("busy", NoToken)
     \/ Tell("rejected", NoToken)
  /\ UNCHANGED <<vars, Shown, history>>

AnswerIsServed ==
  /\ call.at = "sent" /\ call.what \in Verbs
  /\ Confirm(call.token, call.what)
  /\ IF call.token \in closed THEN Tell("stale", NoToken) ELSE call' = Served
  /\ UNCHANGED <<Shown, history>>

\* The daemon that asked is gone: its successor may be of another version, too
\* old to know the request.
AskedBefore(t) == t[1] # boots

AnswerIsRefused ==
  /\ call.at = "sent" /\ call.what \in Verbs
  /\ \/ session # "free" /\ Tell("busy", call.token)
     \/ session = "free" /\ outstanding # call.token /\ Tell("stale", NoToken)
     \/ AskedBefore(call.token) /\ Tell("rejected", NoToken)
  /\ UNCHANGED <<vars, Shown, history>>

\* EXECUTE_TIMEOUT, or the connection breaks: the daemon goes on.
CallFails ==
  /\ InFlight
  /\ Tell("lost", NoToken)
  /\ forsaken' = TRUE
  /\ UNCHANGED <<vars, Shown, ours, gaveUp, usurped>>

AbortArrives(t) ==
  /\ t \in aborts
  /\ aborts' = aborts \ {t}
  /\ IF session = "free" /\ slot # NoExec /\ outstanding = t
     THEN Confirm(t, "abort")
     ELSE UNCHANGED vars
  /\ UNCHANGED <<ui, held, call, shut, history>>

AbortIsLost(t) ==
  /\ t \in aborts
  /\ aborts' = aborts \ {t}
  /\ forsaken' = TRUE
  /\ UNCHANGED <<vars, ui, held, call, shut, ours, gaveUp, usurped>>

-----------------------------------------------------------------------------
(* The daemon, and its other clients *)

Alone(A) == A /\ UNCHANGED plugin

\* The handler's last word goes to the plugin if it serves the plugin's request.
Concluding(A, what, t) ==
  /\ A
  /\ IF call.at = "served" THEN Tell(what, t) ELSE UNCHANGED call
  /\ UNCHANGED <<Shown, history>>

\* The report of an end; or of a failure in a tag that proves nothing.
Ends == {"terminal", "unclassifiable"}
Planning(e) ==
  \/ Alone(SpawnAndDrive(e))
  \/ \E k \in Ends : Concluding(PlanRefused(e), k, NoToken)
Driving ==
  \/ Concluding(ReportPause, "pause", pending)
  \/ \E k \in Ends : Concluding(Collect, k, NoToken)

Restarts ==
  /\ Restart
  /\ IF InFlight THEN Tell("lost", NoToken) ELSE UNCHANGED call
  /\ UNCHANGED <<Shown, history>>

OtherStarts(e) == Alone(Execute(e))
OtherAnswers(t, v) ==
  /\ Confirm(t, v)
  /\ usurped' = (usurped \/ slot = ours)
  /\ UNCHANGED <<Shown, call, ours, forsaken, gaveUp>>

Operator == Start \/ \E v \in Verbs : Answer(v)
Reactor == Deliver \/ ClaimExpires \/ WaitExpires
Klippy == Shutdown \/ Teardown
Socket ==
  \/ \E e \in Execs : StartIsServed(e)
  \/ StartIsRefused \/ AnswerIsServed \/ AnswerIsRefused \/ CallFails
  \/ \E t \in aborts : AbortArrives(t) \/ AbortIsLost(t)
Daemon ==
  \/ \E e \in Execs :
       Planning(e) \/ Alone(Work(e)) \/ Alone(Hear(e)) \/ Alone(Lapse(e)) \/ Alone(TimeOut(e))
  \/ Driving
  \/ Restarts
OtherClients ==
  \/ \E e \in Execs : OtherStarts(e)
  \/ \E t \in Tokens, v \in Verbs : OtherAnswers(t, v)

PluginNext == Operator \/ Reactor \/ Klippy \/ Socket \/ Daemon \/ OtherClients

\* A call has a deadline for the whole of it, the reactor runs its callbacks
\* and timers, and the daemon is as fair as ControlSocket has it.
PluginFairness ==
  /\ WF_everything(CallFails)
  /\ WF_everything(Deliver)
  /\ WF_everything(WaitExpires)
  /\ WF_everything(Driving)
  /\ \A e \in Execs :
       /\ WF_everything(Planning(e))
       /\ WF_everything(Alone(Work(e)))
       /\ WF_everything(Alone(Hear(e) \/ TimeOut(e)))
       /\ WF_everything(Alone(Lapse(e)))

PluginSpec == PluginInit /\ [][PluginNext]_everything
FairPluginSpec == PluginSpec /\ PluginFairness

-----------------------------------------------------------------------------
PluginTypeOK ==
  /\ ui \in UiStates
  /\ held \in Tokens \cup {NoToken}
  /\ call \in [at : {"none", "sent", "served", "replied"},
               what : Replies \cup Verbs \cup {"nothing", "execute"},
               token : Tokens \cup {NoToken},
               prior : UiStates]
  /\ aborts \subseteq Tokens
  /\ shut \in BOOLEAN
  /\ ours \in Execs \cup {NoExec}
  /\ forsaken \in BOOLEAN
  /\ gaveUp \in BOOLEAN
  /\ usurped \in BOOLEAN

\* What the operator reads is true of the recovery this session started: it is
\* never called idle while plrd is at work on it, nor waiting for an answer
\* while the machine moves.  Two exceptions the code accepts: the wait for an
\* answer may end before plrd's own abort has cleaned up, which the headroom
\* makes unlikely; and once another client has answered a question of it, the
\* plugin is not told, and waits, then gives up (ctrlsock.rs, "On exposing the
\* token").  (recovery.py: _transition, classify, _on_expiry.)
PublishedIsTrue ==
  OursIsLive =>
    /\ ui = "idle" => gaveUp /\ (stage[ours] = "aborting" \/ usurped)
    /\ ui = "awaiting" => stage[ours] = "aborting" \/ asked[ours] = held \/ usurped

\* Short of a failed call, or of another client that answered in between, a
\* question plrd waits on is on its way to the operator, in the operator's
\* hands, being answered, or being aborted: a shutdown, a second start or a
\* refused answer never leaves plrd waiting with the machine held.
\* (_handle_shutdown, _pause, start, _plrd_busy.)
NobodyIsLeftWaiting ==
  /\ OursIsLive /\ ~forsaken /\ ~usurped
  /\ stage[ours] = "asking" /\ given[asked[ours]] = "nothing"
  => \/ call.at = "served"
     \/ asked[ours] \in {call.token, held} \cup aborts

\* A request in flight ends, and a question that can be answered does not stay
\* open for ever: neither command is refused for the rest of the klippy
\* session.  It does not extend to a question whose answer a later daemon
\* rejected: _close_out_request publishes "awaiting" again without its token,
\* and nothing but a restart of klippy ends that.
WaitsEnd ==
  /\ ui = "running" ~> ui # "running"
  /\ ui = "awaiting" /\ held # NoToken ~> ui # "awaiting" \/ held = NoToken
=============================================================================
