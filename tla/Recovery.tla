------------------------------ MODULE Recovery ------------------------------
(***************************************************************************)
(* plrd recover: the gates before a plan (crates/plrd/src/recover.rs), its *)
(* execution step by step (executor.rs), the frame-invalid interlock that  *)
(* outlives it (detect.rs) and the recovery file it starts.                *)
(*                                                                         *)
(* An execution is an invocation of the command line or of the control     *)
(* socket; invocations may overlap, since only the socket serializes its   *)
(* own.  Other g-code sources start jobs, somebody may put a file on the   *)
(* sdcard, a process may die at any step and the power may fail.           *)
(***************************************************************************)
EXTENDS Naturals, Sequences, FiniteSets

CONSTANTS
  Runs,          \* invocations that may overlap
  Names,         \* names a recovery file may get
  NoFile, Other, \* no such file; a file somebody else put there
  MaxStarts,     \* bound on the executions
  MaxForeign     \* bound on the jobs of others

ASSUME RecoveryAssumption ==
  /\ Runs # {} /\ IsFiniteSet(Runs)
  /\ Names # {} /\ {"idle", "foreign"} \cap Names = {}
  /\ NoFile \notin Runs /\ Other \notin Runs /\ Other # NoFile
  /\ {MaxStarts, MaxForeign} \subseteq Nat

VARIABLES
  job,            \* what the printer runs: nothing, a foreign job, a file
  accel,          \* toolhead.max_accel: whose value is in force
  marker, markerDurable,     \* the frame-invalid marker
  pending,        \* the pending-recovery file exists
  files,          \* who created each recovery file
  pc, at, plan, name,        \* per execution: stage, step, plan, file name
  slots,          \* the recorded accelerations (AccelSlots)
  cleanups,       \* the registered abort cleanups
  unarmed,        \* the abort is the refusal to arm
  starts, foreigns,
  exposure,       \* history: per execution, what it armed the marker for and
                  \* nobody reviewed since
  resumed,        \* history: a declared recovery started its file
  leftover,       \* history: a dead or failed execution left its accel
  strays          \* history: steps sent into the foreign job

printerVars == <<job, accel>>
fileVars == <<marker, markerDurable, pending, files>>
runVars == <<pc, at, plan, name, slots, cleanups, unarmed>>
boundVars == <<starts, foreigns>>
historyVars == <<exposure, resumed, leftover, strays>>
vars == <<printerVars, fileVars, runVars, boundVars, historyVars>>

(* The phases that matter here, in the order of build_steps.               *)
OneIf(p, kind) == IF p THEN <<kind>> ELSE <<>>
Steps(overrides, touch, look) ==
  <<"prepare">> \o OneIf(overrides, "recoveryAccel") \o <<"shifted">>
    \o OneIf(touch, "accelClamp") \o <<"probe">> \o OneIf(touch, "accelRestore")
    \o <<"trueZ">> \o OneIf(look # "none", look)
    \o OneIf(overrides, "machineAccel") \o <<"select">>
Plans == {Steps(o, t, l) : o, t \in BOOLEAN, l \in {"none", "preview", "zConfirm"}}
Kinds == {"prepare", "recoveryAccel", "shifted", "accelClamp", "probe", "accelRestore",
          "trueZ", "preview", "zConfirm", "machineAccel", "select"}

Accels == {"machine", "recovery", "touch"}
NoAccel == "unrecorded"
NoSlots == [phase |-> NoAccel, machine |-> NoAccel]
Stages == {"off", "planned", "admitted", "filed", "pause", "recheck", "arm", "run",
           "send", "ask", "hover", "reposition", "asked", "cleanup", "complete", "clear"}

Step(r) == plan[r][at[r]]
HasPreview(r) == \E i \in DOMAIN plan[r] : plan[r][i] = "preview"
InDanger(r) == \E i \in 1..at[r] : i \in DOMAIN plan[r] /\ plan[r][i] = "shifted"
Idle == job \notin {"foreign"} \cup Names

Init ==
  /\ job = "idle" /\ accel = "machine"
  /\ marker = "none" /\ markerDurable = "none" /\ pending = TRUE
  /\ files = [n \in Names |-> NoFile]
  /\ pc = [r \in Runs |-> "off"] /\ at = [r \in Runs |-> 1]
  /\ plan = [r \in Runs |-> <<>>] /\ name \in [Runs -> Names]
  /\ slots = [r \in Runs |-> NoSlots] /\ cleanups = [r \in Runs |-> <<>>]
  /\ unarmed = [r \in Runs |-> FALSE]
  /\ starts = 0 /\ foreigns = 0
  /\ exposure = [r \in Runs |-> "none"] /\ resumed = FALSE /\ leftover = FALSE /\ strays = 0

(* A completion or a dry run answers for every declare so far, and for the *)
(* one that a marker already armed announces.                              *)
Reviewed == [r \in Runs |-> "none"]

Goto(r, stage) == pc' = [pc EXCEPT ![r] = stage]
Advance(r) ==
  IF at[r] = Len(plan[r])
  THEN Goto(r, "complete") /\ UNCHANGED at
  ELSE Goto(r, "pause") /\ at' = [at EXCEPT ![r] = @ + 1]
-----------------------------------------------------------------------------
(* Before the first step. *)

(* run_pipeline: the plan, and a name nobody has taken yet.                *)
MakePlan(r) ==
  /\ pc[r] = "off" /\ starts < MaxStarts
  /\ starts' = starts + 1
  /\ \E p \in Plans, n \in Names :
       /\ files[n] = NoFile
       /\ plan' = [plan EXCEPT ![r] = p] /\ name' = [name EXCEPT ![r] = n]
  /\ Goto(r, "planned")
  /\ at' = [at EXCEPT ![r] = 1]
  /\ slots' = [slots EXCEPT ![r] = NoSlots]
  /\ cleanups' = [cleanups EXCEPT ![r] = <<>>]
  /\ unarmed' = [unarmed EXCEPT ![r] = FALSE]
  /\ UNCHANGED <<printerVars, fileVars, foreigns, historyVars>>

(* Consent, then the first gate of execute_with_gates.  A marker that      *)
(* cannot be read or parsed counts as none (read_frame_invalid).           *)
FrameGate(r) ==
  /\ pc[r] = "planned"
  /\ \/ \E read \in {marker, "none"} : read = "none" /\ Goto(r, "admitted")
     \/ Goto(r, "off")
  /\ UNCHANGED <<printerVars, fileVars, at, plan, name, slots, cleanups, unarmed,
                 boundVars, historyVars>>

(* write_recovery_file: deferred for a preview; else created exclusively,  *)
(* under another name, with M23 repointed, when the planned one is taken.  *)
KeepTarget(r, n) == name' = name                                \* mutant
Retarget(r, n) == name' = [name EXCEPT ![r] = n]

WriteFile(r) ==
  /\ pc[r] = "admitted"
  /\ \/ HasPreview(r) /\ Goto(r, "filed") /\ UNCHANGED <<name, files>>
     \/ /\ ~HasPreview(r)
        /\ \E n \in Names :
             /\ files[n] = NoFile
             /\ files[name[r]] = NoFile => n = name[r]
             /\ files' = [files EXCEPT ![n] = r]
             /\ Retarget(r, n)
        /\ Goto(r, "filed")
     \/ Goto(r, "off") /\ UNCHANGED <<name, files>>
  /\ UNCHANGED <<printerVars, marker, markerDurable, pending, at, plan, slots,
                 cleanups, unarmed, boundVars, historyVars>>

(* idle_and_exclusive, then the diagnoses put to the operator before step  *)
(* 1.  A refusal removes the file under the plan's name.                   *)
PrinterGate(r) ==
  /\ pc[r] = "filed"
  /\ \/ Idle /\ Goto(r, "pause") /\ UNCHANGED files
     \/ Goto(r, "off") /\ files' = [files EXCEPT ![name[r]] = NoFile]
  /\ UNCHANGED <<printerVars, marker, markerDurable, pending, at, plan, name, slots,
                 cleanups, unarmed, boundVars, historyVars>>
-----------------------------------------------------------------------------
(* One step of the plan. *)

Abort(r, refused) ==
  Goto(r, "cleanup") /\ unarmed' = [unarmed EXCEPT ![r] = refused]

(* Whatever waits for a human before the step: the diagnoses before step   *)
(* 1, the --step prompt, the step-debug pause.  No answer is an abort.     *)
Pause(r) ==
  /\ pc[r] = "pause"
  /\ \/ Goto(r, "recheck") /\ UNCHANGED unarmed
     \/ Abort(r, FALSE)
  /\ UNCHANGED <<printerVars, fileVars, at, plan, name, slots, cleanups, boundVars,
                 historyVars>>

Trust(r) == TRUE                                                \* mutant
Exclusive(r) == Idle

(* reassert_exclusivity: the barrier may always fail.                      *)
Recheck(r) ==
  /\ pc[r] \in {"recheck", "hover"}
  /\ \/ /\ Exclusive(r)
        /\ Goto(r, CASE pc[r] = "hover" -> "reposition"
                     [] Step(r) = "shifted" -> "arm"
                     [] OTHER -> "run")
        /\ UNCHANGED unarmed
     \/ Abort(r, FALSE)
  /\ UNCHANGED <<printerVars, fileVars, at, plan, name, slots, cleanups, boundVars,
                 historyVars>>

(* MarkerFrameGuard::arm.  write_frame_invalid fails before the rename, or *)
(* after it, with the directory not synced.                                *)
ToDeclare(r) == exposure' = [exposure EXCEPT ![r] = IF @ = "none" THEN "armed" ELSE @]

ArmBlindly(r) ==                                                \* mutant
  /\ pc[r] = "arm"
  /\ Goto(r, "run") /\ ToDeclare(r)
  /\ \/ marker' = "armed" /\ markerDurable' = "armed"
     \/ UNCHANGED <<marker, markerDurable>>
  /\ UNCHANGED <<printerVars, pending, files, at, plan, name, slots, cleanups, unarmed,
                 boundVars, resumed, leftover, strays>>

Arm(r) ==
  /\ pc[r] = "arm"
  /\ \/ /\ marker' = "armed" /\ markerDurable' = "armed" /\ ToDeclare(r)
        /\ Goto(r, "run") /\ UNCHANGED unarmed
     \/ /\ marker' \in {marker, "armed"} /\ UNCHANGED <<markerDurable, exposure>>
        /\ Abort(r, TRUE)
  /\ UNCHANGED <<printerVars, pending, files, at, plan, name, slots, cleanups, boundVars,
                 resumed, leftover, strays>>

(* run_step up to its commands: the pre-verifications, the value the step  *)
(* records, and its cleanup registered before anything is sent.            *)
Compute(r) ==
  /\ pc[r] = "run"
  /\ \/ /\ Goto(r, "send") /\ UNCHANGED unarmed
        /\ CASE Step(r) = "recoveryAccel" ->
                  /\ slots' = [slots EXCEPT ![r].machine = accel]
                  /\ cleanups' = [cleanups EXCEPT ![r] = Append(@, "machine")]
             [] Step(r) = "accelClamp" ->
                  /\ slots' = [slots EXCEPT ![r].phase = accel]
                  /\ cleanups' = [cleanups EXCEPT ![r] = Append(@, "phase")]
             [] OTHER -> UNCHANGED <<slots, cleanups>>
     \/ Abort(r, FALSE) /\ UNCHANGED <<slots, cleanups>>
  /\ UNCHANGED <<printerVars, fileVars, at, plan, name, boundVars, historyVars>>

(* What the commands of the step do when they take effect.                 *)
AccelAfter(r) ==
  CASE Step(r) = "recoveryAccel" -> "recovery"
    [] Step(r) = "accelClamp" -> "touch"
    [] Step(r) = "accelRestore" -> slots[r].phase
    [] Step(r) = "machineAccel" -> slots[r].machine
    [] OTHER -> accel

Effect(r) ==
  /\ accel' = AccelAfter(r)
  /\ exposure' = [exposure EXCEPT ![r] =
                     IF Step(r) = "shifted" /\ @ = "armed" THEN "declared" ELSE @]
  /\ IF Step(r) = "select"
     THEN /\ Idle /\ files[name[r]] # NoFile
          /\ job' = name[r] /\ resumed' = (exposure[r] = "declared")
     ELSE UNCHANGED <<job, resumed>>

(* The commands, and the verification after them: one that fails may have  *)
(* taken effect all the same.                                              *)
Send(r) ==
  /\ pc[r] = "send"
  /\ strays' = IF job = "foreign" THEN strays + 1 ELSE strays
  /\ \/ /\ Effect(r)
        /\ \/ /\ CASE Step(r) = "zConfirm" -> Goto(r, "ask") /\ UNCHANGED at
                   [] Step(r) = "preview" -> Goto(r, "hover") /\ UNCHANGED at
                   [] OTHER -> Advance(r)
              /\ UNCHANGED unarmed
           \/ Abort(r, FALSE) /\ UNCHANGED at
     \/ /\ Abort(r, FALSE)
        /\ UNCHANGED <<printerVars, at, exposure, resumed>>
  /\ UNCHANGED <<fileVars, plan, name, slots, cleanups, boundVars, leftover>>

(* confirm_z_before_resume, after the standoff.                            *)
ConfirmZ(r) ==
  /\ pc[r] = "ask"
  /\ \/ Advance(r) /\ UNCHANGED unarmed
     \/ Abort(r, FALSE) /\ UNCHANGED at
  /\ UNCHANGED <<printerVars, fileVars, plan, name, slots, cleanups, boundVars,
                 historyVars>>

(* run_preview_loop: each reposition follows a recheck of its own.         *)
Reposition(r) ==
  /\ pc[r] = "reposition"
  /\ strays' = IF job = "foreign" THEN strays + 1 ELSE strays
  /\ \/ Goto(r, "asked") /\ UNCHANGED unarmed
     \/ Abort(r, FALSE)
  /\ UNCHANGED <<printerVars, fileVars, at, plan, name, slots, cleanups, boundVars,
                 exposure, resumed, leftover>>

(* The answer: another stop, abort or no answer, or accept, which creates  *)
(* the file, never over an existing one.                                   *)
AskPreview(r) ==
  /\ pc[r] = "asked"
  /\ \/ Goto(r, "hover") /\ UNCHANGED <<at, unarmed, files>>
     \/ Abort(r, FALSE) /\ UNCHANGED <<at, files>>
     \/ /\ files[name[r]] = NoFile
        /\ files' = [files EXCEPT ![name[r]] = r]
        /\ Advance(r) /\ UNCHANGED unarmed
  /\ UNCHANGED <<printerVars, marker, markerDurable, pending, plan, name, slots,
                 cleanups, boundVars, historyVars>>
-----------------------------------------------------------------------------
(* How an execution ends. *)

(* finish_abort: the cleanups, newest first; a failure is logged.          *)
OldestCleanup(r) == 1                                           \* mutant
NextCleanup(r) == Len(cleanups[r])

Cleanup(r) ==
  /\ pc[r] = "cleanup" /\ cleanups[r] # <<>>
  /\ LET i == NextCleanup(r) IN
       /\ cleanups' = [cleanups EXCEPT ![r] =
                         [j \in 1..Len(@) - 1 |-> @[IF j < i THEN j ELSE j + 1]]]
       /\ \/ accel' = slots[r][cleanups[r][i]] /\ UNCHANGED leftover
          \/ UNCHANGED accel /\ leftover' = TRUE
  /\ UNCHANGED <<job, fileVars, pc, at, plan, name, slots, unarmed, boundVars, exposure,
                 resumed, strays>>

(* abort and record_frame_invalid: at or after the shifted frame the       *)
(* marker is written again, unless arming it was what failed.              *)
FinishAbort(r) ==
  /\ pc[r] = "cleanup" /\ cleanups[r] = <<>>
  /\ Goto(r, "off")
  /\ IF InDanger(r) /\ ~unarmed[r]
     THEN \/ marker' = "aborted" /\ markerDurable' \in {"aborted", markerDurable}
          \/ UNCHANGED <<marker, markerDurable>>
     ELSE UNCHANGED <<marker, markerDurable>>
  /\ UNCHANGED <<printerVars, pending, files, at, plan, name, slots, cleanups, unarmed,
                 boundVars, historyVars>>

(* After the last step: the pending file goes, then the marker.  Neither   *)
(* removal is synced, and one that fails is ignored: the offer then stays, *)
(* and is no longer counted as that of a started recovery.                 *)
DropMarkerFirst(r) ==                                           \* mutant
  /\ pc[r] = "complete"
  /\ marker' = "none" /\ exposure' = Reviewed
  /\ Goto(r, "clear")
  /\ UNCHANGED <<printerVars, markerDurable, pending, files, at, plan, name, slots,
                 cleanups, unarmed, boundVars, resumed, leftover, strays>>

DropPending(r) ==
  /\ pc[r] = "complete"
  /\ \/ pending' = FALSE /\ UNCHANGED resumed
     \/ pending /\ UNCHANGED pending /\ resumed' = FALSE
  /\ Goto(r, "clear")
  /\ UNCHANGED <<printerVars, marker, markerDurable, files, at, plan, name, slots,
                 cleanups, unarmed, boundVars, exposure, leftover, strays>>

ClearMarker(r) ==
  /\ pc[r] = "clear"
  /\ marker' \in {"none", marker} /\ exposure' = Reviewed
  /\ Goto(r, "off")
  /\ UNCHANGED <<printerVars, markerDurable, pending, files, at, plan, name, slots,
                 cleanups, unarmed, boundVars, resumed, leftover, strays>>

(* The process dies: plrd is stopped or killed, or the CLI interrupted.    *)
Die(r) ==
  /\ pc[r] # "off"
  /\ Goto(r, "off")
  /\ leftover' = (leftover \/ accel # "machine")
  /\ UNCHANGED <<printerVars, fileVars, at, plan, name, slots, cleanups, unarmed,
                 boundVars, exposure, resumed, strays>>
-----------------------------------------------------------------------------
(* The rest of the world. *)

(* A dry run that reaches a plan clears a marker it finds (drive).  It     *)
(* takes no lock, so it may fall anywhere into an execution.               *)
DryRun ==
  /\ marker # "none"
  /\ marker' = "none" /\ exposure' = Reviewed /\ resumed' = FALSE
  /\ UNCHANGED <<printerVars, markerDurable, pending, files, runVars, boundVars, leftover,
                 strays>>

StartForeignJob ==
  /\ job = "idle" /\ foreigns < MaxForeign
  /\ job' = "foreign" /\ foreigns' = foreigns + 1 /\ strays' = 0
  /\ UNCHANGED <<accel, fileVars, runVars, starts, exposure, resumed, leftover>>

EndJob ==
  /\ job # "idle" /\ job' = "idle"
  /\ UNCHANGED <<accel, fileVars, runVars, boundVars, historyVars>>

Upload(n) ==
  /\ files[n] = NoFile
  /\ files' = [files EXCEPT ![n] = Other]
  /\ UNCHANGED <<printerVars, marker, markerDurable, pending, runVars, boundVars,
                 historyVars>>

RestartKlippy ==
  /\ job' = "idle" /\ accel' = "machine"
  /\ leftover' = (leftover /\ \E r \in Runs : pc[r] # "off")
  /\ UNCHANGED <<fileVars, runVars, boundVars, exposure, resumed, strays>>

(* Everything restarts; detection writes the pending file afresh.          *)
PowerCut ==
  /\ job' = "idle" /\ accel' = "machine" /\ leftover' = FALSE
  /\ pc' = [r \in Runs |-> "off"]
  /\ marker' \in {marker, markerDurable} /\ markerDurable' = marker'
  /\ pending' \in BOOLEAN /\ resumed' = FALSE
  /\ UNCHANGED <<files, at, plan, name, slots, cleanups, unarmed, boundVars, exposure,
                 strays>>

Execution(r) ==
  \/ WriteFile(r) \/ PrinterGate(r)
  \/ Pause(r) \/ Recheck(r) \/ Arm(r) \/ Compute(r) \/ Send(r)
  \/ ConfirmZ(r) \/ Reposition(r) \/ AskPreview(r)
  \/ Cleanup(r) \/ FinishAbort(r) \/ DropPending(r) \/ ClearMarker(r)

Next ==
  \/ \E r \in Runs : MakePlan(r) \/ FrameGate(r) \/ Execution(r) \/ Die(r)
  \/ \E n \in Names : Upload(n)
  \/ DryRun \/ StartForeignJob \/ EndJob \/ RestartKlippy \/ PowerCut

Spec == Init /\ [][Next]_vars
-----------------------------------------------------------------------------
TypeOK ==
  /\ job \in {"idle", "foreign"} \cup Names /\ accel \in Accels
  /\ {marker, markerDurable} \subseteq {"none", "armed", "aborted"}
  /\ {pending, resumed, leftover} \subseteq BOOLEAN
  /\ files \in [Names -> Runs \cup {NoFile, Other}]
  /\ pc \in [Runs -> Stages] /\ name \in [Runs -> Names]
  /\ plan \in [Runs -> Plans \cup {<<>>}]
  /\ \A r \in Runs : at[r] \in 1..Len(plan[r]) \/ at[r] = 1
  /\ slots \in [Runs -> [{"phase", "machine"} -> Accels \cup {NoAccel}]]
  /\ cleanups \in [Runs -> Seq({"phase", "machine"})]
  /\ unarmed \in [Runs -> BOOLEAN]
  /\ {starts, foreigns, strays} \subseteq Nat
  /\ exposure \in [Runs -> {"none", "armed", "declared"}]

(* Once a shifted frame was declared the marker armed for it stands,       *)
(* whatever dies and wherever power is lost, unless a recovery completed   *)
(* or a dry run was made since it was armed (FrameGuard).                  *)
InterlockStands == (\E r \in Runs : exposure[r] = "declared") => marker # "none"

(* What FrameGuard says of the marker: it is written on entry to the       *)
(* danger zone and persists until a successful completion.  So it stands   *)
(* as long as an execution past its declare goes on with its plan.  Run    *)
(* recovery_dry refutes it: a dry run meanwhile removes the marker.        *)
UnderWay(r) ==
  /\ pc[r] \in {"pause", "recheck", "run", "send", "ask", "hover", "reposition", "asked"}
  /\ \E i \in 1..at[r] - 1 : plan[r][i] = "shifted"
GuardedWhileUnderWay == \A r \in Runs : UnderWay(r) => marker # "none"

(* A pending file whose recovery was already started is never offered      *)
(* without the marker that refuses its execution, unless its removal       *)
(* itself failed.                                                          *)
NoStaleOffer == resumed /\ pending => marker # "none"

(* Whatever way an execution ends, the printer has its own acceleration    *)
(* back, unless the process died or a cleanup failed.                      *)
AccelIsPutBack == (\A r \in Runs : pc[r] = "off") /\ ~leftover => accel = "machine"

(* A foreign job suffers one step or one reposition of an execution at     *)
(* most: the recheck refuses the next (Exclusivity).                       *)
StraysAreBounded == strays <= Cardinality(Runs)

(* The file that is started is one a recovery created, never one that took *)
(* its name meanwhile (create_new, retarget_recovery_file).                *)
StartsARecoveryFile == [][job' \in Names /\ job # job' => files[job'] \in Runs]_vars
=============================================================================
