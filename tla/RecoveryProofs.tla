--------------------------- MODULE RecoveryProofs ---------------------------
(***************************************************************************)
(* What Recovery promises, proved.  For any number of overlapping          *)
(* executions, recovery file names and foreign jobs: the frame-invalid     *)
(* interlock stands, and a foreign job suffers one step of each at most.   *)
(* While invocations do not overlap (OneRun): a started recovery is not    *)
(* offered again unguarded, the file that is started is a recovery's own,  *)
(* and the printer's acceleration is put back.                             *)
(*                                                                         *)
(* For the interlock the marker alone is not inductive: a power cut falls  *)
(* back to what is on the medium, and the declare is issued steps after    *)
(* the marker was armed.  The invariant therefore speaks of both copies    *)
(* (Armed), from the arming on (ExposedArmed).                             *)
(***************************************************************************)
EXTENDS Recovery, FiniteSetTheorems, SequenceTheorems, TLAPS

Shape ==
  /\ pc \in [Runs -> Stages] /\ exposure \in [Runs -> {"none", "armed", "declared"}]
  /\ at \in [Runs -> Nat] /\ plan \in [Runs -> Plans \cup {<<>>}]
  /\ {marker, markerDurable} \subseteq {"none", "armed", "aborted"}

Armed == marker # "none" /\ markerDurable # "none"

ExposedArmed == \A r \in Runs : exposure[r] # "none" => Armed

IInv == Shape /\ ExposedArmed

-----------------------------------------------------------------------------
LEMMA InitIInv == Init => IInv
BY SMT DEF Init, IInv, Shape, ExposedArmed, Stages

(* A step that keeps the marker keeps the invariant if what is exposed     *)
(* after it was exposed before.                                            *)
LEMMA Carried ==
  ASSUME IInv, Shape', Armed => Armed',
         \A r \in Runs : exposure'[r] # "none" => exposure[r] # "none"
  PROVE  IInv'
BY DEF IInv, ExposedArmed

(* Moves of one execution, on to the next step perhaps, which may write    *)
(* the marker.                                                             *)
LEMMA Leaves ==
  ASSUME IInv, NEW r \in Runs, NEW stage \in Stages, Goto(r, stage),
         at' = at \/ at' = [at EXCEPT ![r] = @ + 1], UNCHANGED <<plan, exposure>>,
         marker' \in {marker, "armed", "aborted"}, markerDurable' \in {markerDurable, "aborted"}
  PROVE  IInv'
<1>1. Shape'
  BY SMT DEF IInv, Shape, Goto
<1>. QED
  BY <1>1, Carried DEF Armed

(* A review answers for every declare: nothing is exposed after it.        *)
LEMMA Reviews ==
  ASSUME IInv, UNCHANGED <<at, plan>>, pc' \in [Runs -> Stages],
         exposure' = Reviewed, marker' \in {"none", marker}, UNCHANGED markerDurable
  PROVE  IInv'
<1>1. Shape'
  BY SMT DEF IInv, Shape, Reviewed
<1>2. \A r \in Runs : exposure'[r] = "none"
  BY DEF Reviewed
<1>. QED
  BY <1>1, <1>2 DEF IInv, ExposedArmed
-----------------------------------------------------------------------------
LEMMA PlanStep ==
  ASSUME IInv, NEW r \in Runs, MakePlan(r) \/ FrameGate(r) PROVE IInv'
<1>1. CASE MakePlan(r)
  <2>. PICK p \in Plans : plan' = [plan EXCEPT ![r] = p]
    BY <1>1 DEF MakePlan
  <2>1. Shape'
    BY <1>1, SMT DEF IInv, Shape, MakePlan, Goto, Stages, fileVars, historyVars
  <2>. QED
    BY <1>1, <2>1, Carried DEF MakePlan, fileVars, historyVars, Armed
<1>2. CASE FrameGate(r)
  <2>1. Goto(r, "admitted") \/ Goto(r, "off")
    BY <1>2 DEF FrameGate
  <2>. QED
    BY <1>2, <2>1, Leaves DEF FrameGate, fileVars, historyVars, Stages
<1>. QED
  BY <1>1, <1>2

LEMMA AdvanceStage ==
  ASSUME NEW r \in Runs, Advance(r)
  PROVE  /\ Goto(r, "pause") \/ Goto(r, "complete")
         /\ at' = at \/ at' = [at EXCEPT ![r] = @ + 1]
BY DEF Advance

LEMMA FileStep ==
  ASSUME IInv, NEW r \in Runs, WriteFile(r) \/ PrinterGate(r) \/ AskPreview(r) PROVE IInv'
<1>1. CASE WriteFile(r)
  <2>1. Goto(r, "filed") \/ Goto(r, "off")
    BY <1>1 DEF WriteFile
  <2>. QED
    BY <1>1, <2>1, Leaves DEF WriteFile, historyVars, Stages
<1>2. CASE PrinterGate(r)
  <2>1. Goto(r, "pause") \/ Goto(r, "off")
    BY <1>2 DEF PrinterGate
  <2>. QED
    BY <1>2, <2>1, Leaves DEF PrinterGate, historyVars, Stages
<1>3. CASE AskPreview(r)
  <2>1. \/ Goto(r, "hover") /\ at' = at
        \/ Goto(r, "cleanup") /\ at' = at
        \/ Advance(r)
    BY <1>3 DEF AskPreview, Abort
  <2>. QED
    BY <1>3, <2>1, AdvanceStage, Leaves DEF AskPreview, historyVars, Stages
<1>. QED
  BY <1>1, <1>2, <1>3

LEMMA GateStep ==
  ASSUME IInv, NEW r \in Runs, Pause(r) \/ Recheck(r) \/ Reposition(r) \/ ConfirmZ(r)
  PROVE  IInv'
<1>1. CASE Pause(r)
  <2>1. Goto(r, "recheck") \/ Goto(r, "cleanup")
    BY <1>1 DEF Pause, Abort
  <2>. QED
    BY <1>1, <2>1, Leaves DEF Pause, fileVars, historyVars, Stages
<1>2. CASE Recheck(r)
  <2>1. \/ Goto(r, "reposition") \/ Goto(r, "arm") \/ Goto(r, "cleanup")
        \/ Goto(r, "run")
    BY <1>2 DEF Recheck, Abort
  <2>. QED
    BY <1>2, <2>1, Leaves DEF Recheck, fileVars, historyVars, Stages
<1>3. CASE Reposition(r)
  <2>1. Goto(r, "asked") \/ Goto(r, "cleanup")
    BY <1>3 DEF Reposition, Abort
  <2>. QED
    BY <1>3, <2>1, Leaves DEF Reposition, fileVars, Stages
<1>4. CASE ConfirmZ(r)
  <2>1. Advance(r) \/ (Goto(r, "cleanup") /\ at' = at)
    BY <1>4 DEF ConfirmZ, Abort
  <2>. QED
    BY <1>4, <2>1, AdvanceStage, Leaves DEF ConfirmZ, fileVars, historyVars, Stages
<1>. QED
  BY <1>1, <1>2, <1>3, <1>4

(* The marker is on the medium before the declare may be issued.           *)
LEMMA ArmStep == ASSUME IInv, NEW r \in Runs, Arm(r) PROVE IInv'
<1>1. CASE /\ Goto(r, "run") /\ ToDeclare(r)
           /\ marker' = "armed" /\ markerDurable' = "armed"
  <2>1. Shape'
    BY <1>1, SMT DEF Arm, ToDeclare, IInv, Shape, Goto, Stages
  <2>. QED
    BY <1>1, <2>1 DEF IInv, ExposedArmed, Armed
<1>2. CASE /\ Goto(r, "cleanup") /\ UNCHANGED <<markerDurable, exposure>>
           /\ marker' \in {marker, "armed"}
  BY <1>2, Leaves DEF Arm, Stages
<1>. QED
  BY <1>1, <1>2 DEF Arm, Abort

LEMMA ComputeStep == ASSUME IInv, NEW r \in Runs, Compute(r) PROVE IInv'
<1>1. pc[r] = "run" /\ (Goto(r, "send") \/ Goto(r, "cleanup"))
  BY DEF Compute, Abort
<1>. QED
  BY <1>1, Leaves DEF Compute, fileVars, historyVars, Stages

(* The one step that declares: what it declares was armed for.             *)
LEMMA SendStep == ASSUME IInv, NEW r \in Runs, Send(r) PROVE IInv'
<1>1. \E stage \in Stages : Goto(r, stage)
  BY AdvanceStage DEF Send, Abort, Stages
<1>2. at' = at \/ at' = [at EXCEPT ![r] = @ + 1]
  BY AdvanceStage DEF Send
<1>3. CASE exposure' = exposure
  BY <1>1, <1>2, <1>3, Leaves DEF Send, fileVars
<1>4. CASE Effect(r)
  <2>1. Shape'
    BY <1>1, <1>2, <1>4, SMT DEF Send, Effect, IInv, Shape, Goto, fileVars
  <2>2. \A q \in Runs : exposure'[q] # "none" => exposure[q] # "none"
    BY <1>4, SMT DEF Send, Effect, IInv, Shape
  <2>. QED
    BY <2>1, <2>2, Carried DEF Send, fileVars, Armed
<1>. QED
  BY <1>3, <1>4 DEF Send

LEMMA EndStep ==
  ASSUME IInv, NEW r \in Runs,
         Cleanup(r) \/ FinishAbort(r) \/ DropPending(r) \/ ClearMarker(r) \/ Die(r)
  PROVE  IInv'
<1>1. CASE Cleanup(r)
  <2>1. Shape'
    BY <1>1 DEF Cleanup, IInv, Shape, fileVars
  <2>. QED
    BY <1>1, <2>1, Carried DEF Cleanup, fileVars, Armed
<1>2. CASE FinishAbort(r)
  <2>1. marker' \in {marker, "aborted"} /\ markerDurable' \in {markerDurable, "aborted"}
    BY <1>2 DEF FinishAbort
  <2>. QED
    BY <1>2, <2>1, Leaves DEF FinishAbort, historyVars, Stages
<1>3. CASE DropPending(r)
  BY <1>3, Leaves DEF DropPending, Stages
<1>4. CASE ClearMarker(r)
  <2>1. pc' \in [Runs -> Stages]
    BY <1>4, SMT DEF ClearMarker, Goto, IInv, Shape, Stages
  <2>. QED
    BY <1>4, <2>1, Reviews DEF ClearMarker
<1>5. CASE Die(r)
  BY <1>5, Leaves DEF Die, fileVars, Stages
<1>. QED
  BY <1>1, <1>2, <1>3, <1>4, <1>5

(* What changes neither the executions nor the marker.                     *)
LEMMA Outside ==
  ASSUME IInv, UNCHANGED <<pc, at, plan, exposure, marker, markerDurable>>
  PROVE  IInv'
BY DEF IInv, Shape, ExposedArmed, Armed

LEMMA WorldStep ==
  ASSUME IInv, \/ \E n \in Names : Upload(n)
               \/ DryRun \/ StartForeignJob \/ EndJob \/ RestartKlippy \/ PowerCut
  PROVE  IInv'
<1>1. CASE \E n \in Names : Upload(n)
  BY <1>1, Outside DEF Upload, runVars, historyVars
<1>2. CASE DryRun
  BY <1>2, Reviews DEF DryRun, runVars, IInv, Shape
<1>3. CASE StartForeignJob \/ EndJob \/ RestartKlippy
  BY <1>3, Outside DEF StartForeignJob, EndJob, RestartKlippy, fileVars, runVars, historyVars
<1>4. CASE PowerCut
  <2>1. Shape'
    BY <1>4, SMT DEF PowerCut, IInv, Shape, Stages
  <2>. QED
    BY <1>4, <2>1, Carried DEF PowerCut, Armed
<1>. QED
  BY <1>1, <1>2, <1>3, <1>4
-----------------------------------------------------------------------------
LEMMA NextIInv == IInv /\ [Next]_vars => IInv'
<1>. SUFFICES ASSUME IInv, [Next]_vars PROVE IInv'
  OBVIOUS
<1>1. ASSUME NEW r \in Runs, MakePlan(r) \/ FrameGate(r) \/ Execution(r) \/ Die(r) PROVE IInv'
  BY <1>1, PlanStep, FileStep, GateStep, ArmStep, ComputeStep, SendStep, EndStep DEF Execution
<1>2. CASE UNCHANGED vars
  BY <1>2, Outside DEF vars, runVars, fileVars, historyVars
<1>. QED
  BY <1>1, <1>2, WorldStep DEF Next

LEMMA IInvInterlock == IInv => InterlockStands
BY DEF IInv, ExposedArmed, Armed, InterlockStands

(* A marker that was armed for a declare stands from the arming on,        *)
(* whatever dies and wherever power is lost: it is durable before the      *)
(* declare is sent, and only a completion or a dry run takes it away,      *)
(* before the declare as after it.  Of a declare whose marker was taken    *)
(* away it says nothing (run recovery_dry).                                *)
THEOREM InterlockHolds == Spec => []InterlockStands
<1>1. Init => IInv
  BY InitIInv
<1>2. IInv /\ [Next]_vars => IInv'
  BY NextIInv
<1>3. IInv => InterlockStands
  BY IInvInterlock
<1>. QED
  BY <1>1, <1>2, <1>3, PTL DEF Spec
-----------------------------------------------------------------------------
(* How much of the executions reaches somebody else's job.  An execution   *)
(* between its recheck and its commands may stray into a job that starts   *)
(* now; nobody becomes loaded while that job lasts.                        *)
Loaded == {r \in Runs : pc[r] \in {"arm", "run", "send", "reposition"}}

StrayInv ==
  /\ pc \in [Runs -> Stages] /\ name \in [Runs -> Names] /\ strays \in Nat
  /\ strays <= Cardinality(Runs)
  /\ job = "foreign" => strays + Cardinality(Loaded) <= Cardinality(Runs)

LEMMA Counts ==
  /\ Cardinality(Runs) \in Nat /\ IsFiniteSet(Loaded) /\ Cardinality(Loaded) \in Nat
  /\ Cardinality(Loaded) <= Cardinality(Runs)
<1>1. IsFiniteSet(Runs) /\ Loaded \subseteq Runs
  BY RecoveryAssumption DEF Loaded
<1>. QED
  BY <1>1, FS_Subset, FS_CardinalityType

LEMMA FewerLoaded ==
  ASSUME NEW L, L \subseteq Loaded
  PROVE  Cardinality(L) \in Nat /\ Cardinality(L) <= Cardinality(Loaded)
BY Counts, FS_Subset, FS_CardinalityType

(* Whoever strays is loaded no longer. *)
LEMMA OneFewerLoaded ==
  ASSUME NEW r \in Loaded, NEW L, L \subseteq Loaded \ {r}
  PROVE  Cardinality(L) \in Nat /\ Cardinality(L) + 1 <= Cardinality(Loaded)
<1>1. IsFiniteSet(Loaded \ {r}) /\ Cardinality(Loaded \ {r}) = Cardinality(Loaded) - 1
  BY Counts, FS_RemoveElement
<1>. QED
  BY <1>1, Counts, FS_Subset, FS_CardinalityType

(* A step that sends nothing and loads nobody. *)
LEMMA NobodyLoads ==
  ASSUME StrayInv, pc' \in [Runs -> Stages], name' \in [Runs -> Names],
         strays' = strays, job' = "foreign" => job = "foreign", Loaded' \subseteq Loaded
  PROVE  StrayInv'
BY FewerLoaded, Counts DEF StrayInv

(* A step towards the commands, while there is no foreign job. *)
LEMMA LoadsAlone ==
  ASSUME StrayInv, pc' \in [Runs -> Stages], name' \in [Runs -> Names],
         strays' = strays, job # "foreign", job' = job
  PROVE  StrayInv'
BY DEF StrayInv

(* The commands of a step, or a reposition. *)
LEMMA OneStrays ==
  ASSUME StrayInv, pc' \in [Runs -> Stages], name' = name,
         strays' = IF job = "foreign" THEN strays + 1 ELSE strays,
         job' = "foreign" => job = "foreign",
         NEW r \in Loaded, Loaded' \subseteq Loaded \ {r}
  PROVE  StrayInv'
<1>1. strays' \in Nat /\ strays' <= Cardinality(Runs)
  BY OneFewerLoaded, Counts DEF StrayInv
<1>. QED
  BY <1>1, OneFewerLoaded, Counts DEF StrayInv

(* Where one execution goes, and who is loaded then. *)
LEMMA GoesTo ==
  ASSUME StrayInv, NEW r \in Runs, NEW stage \in Stages, Goto(r, stage)
  PROVE  /\ pc' \in [Runs -> Stages]
         /\ stage \notin {"arm", "run", "send", "reposition"} => Loaded' \subseteq Loaded \ {r}
         /\ r \in Loaded => Loaded' \subseteq Loaded
<1>1. pc' = [pc EXCEPT ![r] = stage]
  BY DEF Goto
<1>. QED
  BY <1>1 DEF StrayInv, Loaded
-----------------------------------------------------------------------------
LEMMA InitStray == Init => StrayInv
<1>. SUFFICES ASSUME Init PROVE StrayInv
  OBVIOUS
<1>. QED
  BY Counts DEF Init, StrayInv, Stages

LEMMA QuietStray ==
  ASSUME StrayInv, NEW r \in Runs,
         \/ MakePlan(r) \/ FrameGate(r) \/ WriteFile(r) \/ PrinterGate(r) \/ Pause(r)
         \/ ConfirmZ(r) \/ AskPreview(r)
         \/ Cleanup(r) \/ FinishAbort(r) \/ DropPending(r) \/ ClearMarker(r) \/ Die(r)
  PROVE  StrayInv'
<1>1. \/ \E stage \in Stages \ {"arm", "run", "send", "reposition"} : Goto(r, stage)
      \/ pc' = pc
  BY AdvanceStage DEF MakePlan, FrameGate, WriteFile, PrinterGate, Pause, ConfirmZ, AskPreview,
     Cleanup, FinishAbort, DropPending, ClearMarker, Die, Abort, Stages
<1>2. job' = job /\ strays' = strays
  BY DEF MakePlan, FrameGate, WriteFile, PrinterGate, Pause, ConfirmZ, AskPreview, Cleanup,
     FinishAbort, DropPending, ClearMarker, Die, printerVars, historyVars
<1>3. name' = name \/ \E n \in Names : name' = [name EXCEPT ![r] = n]
  BY DEF MakePlan, FrameGate, WriteFile, Retarget, PrinterGate, Pause, ConfirmZ, AskPreview,
     Cleanup, FinishAbort, DropPending, ClearMarker, Die
<1>4. name' \in [Runs -> Names]
  BY <1>3 DEF StrayInv
<1>5. pc' \in [Runs -> Stages] /\ Loaded' \subseteq Loaded
  BY <1>1, GoesTo DEF StrayInv, Loaded
<1>. QED
  BY <1>2, <1>4, <1>5, NobodyLoads

(* A recheck that passes, passes without a foreign job. *)
LEMMA RecheckStray ==
  ASSUME StrayInv, NEW r \in Runs, Recheck(r) PROVE StrayInv'
<1>1. job' = job /\ strays' = strays /\ name' = name
  BY DEF Recheck, printerVars, historyVars
<1>2. CASE Goto(r, "cleanup")
  BY <1>1, <1>2, GoesTo, NobodyLoads DEF StrayInv, Stages
<1>3. CASE Exclusive(r) /\ \E stage \in Stages : Goto(r, stage)
  BY <1>1, <1>3, GoesTo, LoadsAlone DEF StrayInv, Exclusive, Idle
<1>. QED
  BY <1>2, <1>3 DEF Recheck, Abort, Stages

LEMMA OnwardStray ==
  ASSUME StrayInv, NEW r \in Runs, Arm(r) \/ Compute(r) PROVE StrayInv'
<1>1. r \in Loaded /\ \E stage \in Stages : Goto(r, stage)
  BY DEF Arm, Compute, Abort, Loaded, Stages
<1>2. job' = job /\ strays' = strays /\ name' = name
  BY DEF Arm, Compute, printerVars, historyVars
<1>. QED
  BY <1>1, <1>2, GoesTo, NobodyLoads DEF StrayInv

LEMMA SendStray ==
  ASSUME StrayInv, NEW r \in Runs, Send(r) \/ Reposition(r) PROVE StrayInv'
<1>1. \E stage \in Stages \ {"arm", "run", "send", "reposition"} : Goto(r, stage)
  BY AdvanceStage DEF Send, Reposition, Abort, Stages
<1>2. r \in Loaded /\ name' = name
  BY DEF Send, Reposition, Loaded
<1>3. strays' = IF job = "foreign" THEN strays + 1 ELSE strays
  BY DEF Send, Reposition
<1>4. job' = job \/ job' = name[r]
  BY DEF Send, Reposition, Effect, printerVars
<1>5. job' = "foreign" => job = "foreign"
  BY <1>4, RecoveryAssumption DEF StrayInv
<1>. QED
  BY <1>1, <1>2, <1>3, <1>5, GoesTo, OneStrays

LEMMA WorldStray ==
  ASSUME StrayInv, \/ \E n \in Names : Upload(n)
                   \/ DryRun \/ StartForeignJob \/ EndJob \/ RestartKlippy \/ PowerCut
  PROVE  StrayInv'
<1>1. CASE \/ \E n \in Names : Upload(n)
           \/ DryRun \/ EndJob \/ RestartKlippy
  <2>1. pc' = pc /\ name' = name /\ strays' = strays /\ (job' = "foreign" => job = "foreign")
    BY <1>1 DEF Upload, DryRun, EndJob, RestartKlippy, printerVars, runVars, historyVars
  <2>2. Loaded' = Loaded
    BY <2>1 DEF Loaded
  <2>. QED
    BY <2>1, <2>2, NobodyLoads DEF StrayInv
<1>2. CASE StartForeignJob
  <2>1. pc' = pc /\ name' = name /\ strays' = 0
    BY <1>2 DEF StartForeignJob, runVars
  <2>2. Loaded' = Loaded
    BY <2>1 DEF Loaded
  <2>. QED
    BY <2>1, <2>2, Counts DEF StrayInv
<1>3. CASE PowerCut
  <2>1. /\ pc' = [r \in Runs |-> "off"] /\ name' = name /\ strays' = strays
        /\ job' = "idle"
    BY <1>3 DEF PowerCut
  <2>. QED
    BY <2>1 DEF StrayInv, Stages
<1>. QED
  BY <1>1, <1>2, <1>3

LEMMA NextStray == StrayInv /\ [Next]_vars => StrayInv'
<1>. SUFFICES ASSUME StrayInv, [Next]_vars PROVE StrayInv'
  OBVIOUS
<1>1. ASSUME NEW r \in Runs, MakePlan(r) \/ FrameGate(r) \/ Execution(r) \/ Die(r)
      PROVE StrayInv'
  BY <1>1, QuietStray, RecheckStray, OnwardStray, SendStray DEF Execution
<1>2. CASE UNCHANGED vars
  BY <1>2 DEF vars, printerVars, runVars, historyVars, StrayInv, Loaded
<1>. QED
  BY <1>1, <1>2, WorldStray DEF Next

(* A foreign job suffers at most one step or reposition of each invocation *)
(* there is: one that has sent something rechecks before it sends again    *)
(* (reassert_exclusivity), and a new one does not pass the printer gate.   *)
THEOREM ForeignJobIsSpared == Spec => []StraysAreBounded
<1>1. Init => StrayInv
  BY InitStray
<1>2. StrayInv /\ [Next]_vars => StrayInv'
  BY NextStray
<1>3. StrayInv => StraysAreBounded
  BY DEF StrayInv, StraysAreBounded
<1>. QED
  BY <1>1, <1>2, <1>3, PTL DEF Spec
-----------------------------------------------------------------------------
(* What only holds while invocations do not overlap (each may complete, or *)
(* be refused, on behalf of another): the offer and the file.              *)
OneRun == \A q, r \in Runs : q = r

(* A started recovery leaves its offer only behind the marker, and is not  *)
(* about to remove the marker.                                             *)
OfferInv == resumed /\ pending => Armed /\ \A r \in Runs : pc[r] # "clear"

LEMMA InitOffer == Init => OfferInv
BY DEF Init, OfferInv

LEMMA OfferStays ==
  ASSUME OfferInv, resumed' = resumed, pending' = pending, Armed => Armed',
         pc' = pc \/ \E r \in Runs, stage \in Stages \ {"clear"} : Goto(r, stage)
  PROVE  OfferInv'
<1>. SUFFICES ASSUME resumed /\ pending PROVE Armed' /\ \A r \in Runs : pc'[r] # "clear"
  BY DEF OfferInv
<1>1. Armed' /\ \A r \in Runs : pc[r] # "clear"
  BY DEF OfferInv
<1>2. ASSUME NEW r \in Runs, NEW stage \in Stages \ {"clear"}, Goto(r, stage),
             NEW q \in Runs
      PROVE  pc'[q] # "clear"
  <2>1. pc' = [pc EXCEPT ![r] = stage]
    BY <1>2 DEF Goto
  <2>. QED
    BY <1>1, <2>1
<1>. QED
  BY <1>1, <1>2

LEMMA QuietOffer ==
  ASSUME OfferInv, NEW r \in Runs,
         \/ MakePlan(r) \/ FrameGate(r) \/ WriteFile(r) \/ PrinterGate(r) \/ Pause(r)
         \/ Recheck(r) \/ Arm(r) \/ Compute(r) \/ ConfirmZ(r) \/ Reposition(r)
         \/ AskPreview(r) \/ Cleanup(r) \/ FinishAbort(r) \/ Die(r)
  PROVE  OfferInv'
<1>1. pc' = pc \/ \E stage \in Stages \ {"clear"} : Goto(r, stage)
  BY AdvanceStage DEF MakePlan, FrameGate, WriteFile, PrinterGate, Pause, Recheck, Arm, Compute,
     ConfirmZ, Reposition, AskPreview, Cleanup, FinishAbort, Die, Abort, Stages
<1>2. resumed' = resumed
  BY DEF MakePlan, FrameGate, WriteFile, PrinterGate, Pause, Recheck, Arm, Compute, ConfirmZ,
     Reposition, AskPreview, Cleanup, FinishAbort, Die, historyVars
<1>3. pending' = pending
  BY DEF MakePlan, FrameGate, WriteFile, PrinterGate, Pause, Recheck, Arm, Compute, ConfirmZ,
     Reposition, AskPreview, Cleanup, FinishAbort, Die, fileVars
<1>4. CASE Arm(r) \/ FinishAbort(r)
  BY <1>1, <1>2, <1>3, <1>4, OfferStays DEF Arm, FinishAbort, Armed
<1>5. CASE ~(Arm(r) \/ FinishAbort(r))
  <2>1. marker' = marker /\ markerDurable' = markerDurable
    BY <1>5 DEF MakePlan, FrameGate, WriteFile, PrinterGate, Pause, Recheck, Compute, ConfirmZ,
       Reposition, AskPreview, Cleanup, Die, fileVars
  <2>. QED
    BY <1>1, <1>2, <1>3, <2>1, OfferStays DEF Armed
<1>. QED
  BY <1>4, <1>5

(* The start of the file: whoever declared left the marker behind.         *)
LEMMA SendOffer ==
  ASSUME OneRun, IInv, OfferInv, NEW r \in Runs, Send(r) PROVE OfferInv'
<1>1. \E stage \in Stages \ {"clear"} : Goto(r, stage)
  BY AdvanceStage DEF Send, Abort, Stages
<1>2. UNCHANGED <<pending, marker, markerDurable>> /\ pc[r] = "send"
  BY DEF Send, fileVars
<1>3. resumed' = resumed \/ resumed' = (exposure[r] = "declared")
  BY DEF Send, Effect
<1>4. CASE resumed' = resumed
  BY <1>1, <1>2, <1>4, OfferStays DEF Armed
<1>5. CASE resumed' = (exposure[r] = "declared")
  <2>1. resumed' => Armed'
    BY <1>2, <1>5 DEF IInv, ExposedArmed, Armed
  <2>2. \A q \in Runs : pc'[q] # "clear"
    BY <1>1 DEF OneRun, Goto, IInv, Shape
  <2>. QED
    BY <2>1, <2>2 DEF OfferInv
<1>. QED
  BY <1>3, <1>4, <1>5

LEMMA EndOffer ==
  ASSUME OneRun, OfferInv, NEW r \in Runs, DropPending(r) \/ ClearMarker(r) PROVE OfferInv'
<1>1. CASE DropPending(r)
  BY <1>1 DEF DropPending, OfferInv
<1>2. CASE ClearMarker(r)
  <2>1. ~(resumed /\ pending)
    BY <1>2 DEF ClearMarker, OfferInv
  <2>2. UNCHANGED <<resumed, pending>>
    BY <1>2 DEF ClearMarker
  <2>. QED
    BY <2>1, <2>2 DEF OfferInv
<1>. QED
  BY <1>1, <1>2

LEMMA WorldOffer ==
  ASSUME OfferInv, \/ \E n \in Names : Upload(n)
                   \/ DryRun \/ StartForeignJob \/ EndJob \/ RestartKlippy \/ PowerCut
  PROVE  OfferInv'
<1>1. CASE DryRun \/ PowerCut
  BY <1>1 DEF DryRun, PowerCut, OfferInv
<1>2. CASE \/ \E n \in Names : Upload(n)
           \/ StartForeignJob \/ EndJob \/ RestartKlippy
  <2>1. UNCHANGED <<resumed, pending, marker, markerDurable, pc>>
    BY <1>2 DEF Upload, StartForeignJob, EndJob, RestartKlippy, fileVars, runVars, historyVars
  <2>. QED
    BY <2>1, OfferStays DEF Armed
<1>. QED
  BY <1>1, <1>2

LEMMA NextOffer == OneRun /\ IInv /\ OfferInv /\ [Next]_vars => OfferInv'
<1>. SUFFICES ASSUME OneRun, IInv, OfferInv, [Next]_vars PROVE OfferInv'
  OBVIOUS
<1>1. ASSUME NEW r \in Runs, MakePlan(r) \/ FrameGate(r) \/ Execution(r) \/ Die(r)
      PROVE OfferInv'
  BY <1>1, QuietOffer, SendOffer, EndOffer DEF Execution
<1>2. CASE UNCHANGED vars
  BY <1>2, OfferStays DEF vars, runVars, fileVars, historyVars, Armed
<1>. QED
  BY <1>1, <1>2, WorldOffer DEF Next

(* While invocations do not overlap, a recovery that was started behind    *)
(* its marker is never offered again without it, whenever a process dies   *)
(* or the power goes: the pending file is dropped before the marker.       *)
(* Excepted is a completion that fails to drop the pending file, which the *)
(* code ignores before it removes the marker.                              *)
THEOREM StartedIsNotOfferedAgain == ASSUME OneRun PROVE Spec => []NoStaleOffer
<1>1. Init => IInv /\ OfferInv
  BY InitIInv, InitOffer
<1>2. IInv /\ OfferInv /\ [Next]_vars => IInv' /\ OfferInv'
  BY OneRun, NextIInv, NextOffer
<1>3. OfferInv => NoStaleOffer
  BY DEF OfferInv, Armed, NoStaleOffer
<1>. QED
  BY <1>1, <1>2, <1>3, PTL DEF Spec
-----------------------------------------------------------------------------
(* The order of the phases in a plan, as ranks of their kinds.             *)
Rank == [prepare |-> 1, recoveryAccel |-> 2, shifted |-> 3, accelClamp |-> 4, probe |-> 5,
         accelRestore |-> 6, trueZ |-> 7, preview |-> 8, zConfirm |-> 8, machineAccel |-> 9,
         select |-> 10]

Sorted(s, n) ==
  /\ s \in Seq(Kinds)
  /\ \A i \in 1..Len(s) : Rank[s[i]] < n
  /\ \A i, j \in 1..Len(s) : i < j => Rank[s[i]] < Rank[s[j]]
Has(s, k) == \E i \in 1..Len(s) : s[i] = k

LEMMA RankType == \A k \in Kinds : Rank[k] \in Nat
BY DEF Rank, Kinds

(* One more phase at the end. *)
LEMMA AddsPhase ==
  ASSUME NEW n \in Nat, NEW s, Sorted(s, n), NEW k \in Kinds, Rank[k] = n
  PROVE  /\ Sorted(s \o <<k>>, n + 1)
         /\ \A m \in Kinds : Has(s \o <<k>>, m) <=> Has(s, m) \/ m = k
<1>. DEFINE u == s \o <<k>>
<1>1. /\ u \in Seq(Kinds) /\ Len(u) = Len(s) + 1 /\ Len(s) \in Nat
      /\ u[Len(s) + 1] = k /\ \A i \in 1..Len(s) : u[i] = s[i] /\ s[i] \in Kinds
  BY DEF Sorted
<1>. HIDE DEF u
<1>2. \A i \in 1..Len(u) : \/ i \in 1..Len(s) /\ u[i] = s[i]
                           \/ i = Len(s) + 1 /\ u[i] = k
  BY <1>1
<1>3. \A i \in 1..Len(s) : Rank[s[i]] \in Nat /\ Rank[s[i]] < n
  BY <1>1, RankType DEF Sorted
<1>4. \A i \in 1..Len(u) : Rank[u[i]] < n + 1
  BY <1>2, <1>3
<1>5. ASSUME NEW i \in 1..Len(u), NEW j \in 1..Len(u), i < j PROVE Rank[u[i]] < Rank[u[j]]
  <2>1. i \in 1..Len(s) /\ u[i] = s[i]
    BY <1>1, <1>2, <1>5
  <2>2. CASE j \in 1..Len(s) /\ u[j] = s[j]
    BY <1>5, <2>1, <2>2 DEF Sorted
  <2>3. CASE u[j] = k
    BY <1>3, <2>1, <2>3
  <2>. QED
    BY <1>2, <2>2, <2>3
<1>6. Sorted(u, n + 1)
  BY <1>1, <1>4, <1>5 DEF Sorted
<1>7. \A m \in Kinds : Has(u, m) <=> Has(s, m) \/ m = k
  BY <1>1 DEF Has
<1>. QED
  BY <1>6, <1>7 DEF u

LEMMA AddsOptional ==
  ASSUME NEW n \in Nat, NEW s, Sorted(s, n), NEW k, NEW p,
         p => k \in Kinds /\ Rank[k] = n
  PROVE  /\ Sorted(s \o OneIf(p, k), n + 1)
         /\ \A m \in Kinds : Has(s \o OneIf(p, k), m) <=> Has(s, m) \/ (p /\ m = k)
<1>1. CASE p
  BY <1>1, AddsPhase DEF OneIf
<1>2. CASE ~p
  <2>1. s \o OneIf(p, k) = s
    BY <1>2, ConcatEmptySeq DEF OneIf, Sorted
  <2>2. Sorted(s, n + 1)
    BY RankType, ElementOfSeq DEF Sorted
  <2>. QED
    BY <1>2, <2>1, <2>2
<1>. QED
  BY <1>1, <1>2

LEMMA StepsSorted ==
  ASSUME NEW o \in BOOLEAN, NEW t \in BOOLEAN, NEW l \in {"none", "preview", "zConfirm"}
  PROVE  /\ Sorted(Steps(o, t, l), 11)
         /\ Has(Steps(o, t, l), "recoveryAccel") <=> o
         /\ Has(Steps(o, t, l), "machineAccel") <=> o
         /\ Has(Steps(o, t, l), "accelClamp") <=> t
         /\ Has(Steps(o, t, l), "accelRestore") <=> t
         /\ Has(Steps(o, t, l), "select")
<1>. DEFINE s1 == <<"prepare">>
            s2 == s1 \o OneIf(o, "recoveryAccel")
            s3 == s2 \o <<"shifted">>
            s4 == s3 \o OneIf(t, "accelClamp")
            s5 == s4 \o <<"probe">>
            s6 == s5 \o OneIf(t, "accelRestore")
            s7 == s6 \o <<"trueZ">>
            s8 == s7 \o OneIf(l # "none", l)
            s9 == s8 \o OneIf(o, "machineAccel")
            s10 == s9 \o <<"select">>
<1>1. /\ "prepare" \in Kinds /\ Rank["prepare"] = 1
      /\ "recoveryAccel" \in Kinds /\ Rank["recoveryAccel"] = 2
      /\ "shifted" \in Kinds /\ Rank["shifted"] = 3
      /\ "accelClamp" \in Kinds /\ Rank["accelClamp"] = 4
      /\ "probe" \in Kinds /\ Rank["probe"] = 5
      /\ "accelRestore" \in Kinds /\ Rank["accelRestore"] = 6
      /\ "trueZ" \in Kinds /\ Rank["trueZ"] = 7
      /\ l # "none" => l \in Kinds /\ Rank[l] = 8
      /\ "machineAccel" \in Kinds /\ Rank["machineAccel"] = 9
      /\ "select" \in Kinds /\ Rank["select"] = 10
  BY DEF Kinds, Rank
<1>2. Sorted(s1, 2) /\ \A m \in Kinds : Has(s1, m) <=> m = "prepare"
  BY <1>1 DEF Sorted, Has
<1>3. Sorted(s2, 3) /\ \A m \in Kinds : Has(s2, m) <=> Has(s1, m) \/ (o /\ m = "recoveryAccel")
  BY <1>1, <1>2, AddsOptional
<1>4. Sorted(s3, 4) /\ \A m \in Kinds : Has(s3, m) <=> Has(s2, m) \/ m = "shifted"
  BY <1>1, <1>3, AddsPhase
<1>5. Sorted(s4, 5) /\ \A m \in Kinds : Has(s4, m) <=> Has(s3, m) \/ (t /\ m = "accelClamp")
  BY <1>1, <1>4, AddsOptional
<1>6. Sorted(s5, 6) /\ \A m \in Kinds : Has(s5, m) <=> Has(s4, m) \/ m = "probe"
  BY <1>1, <1>5, AddsPhase
<1>7. Sorted(s6, 7) /\ \A m \in Kinds : Has(s6, m) <=> Has(s5, m) \/ (t /\ m = "accelRestore")
  BY <1>1, <1>6, AddsOptional
<1>8. Sorted(s7, 8) /\ \A m \in Kinds : Has(s7, m) <=> Has(s6, m) \/ m = "trueZ"
  BY <1>1, <1>7, AddsPhase
<1>9. Sorted(s8, 9) /\ \A m \in Kinds : Has(s8, m) <=> Has(s7, m) \/ (l # "none" /\ m = l)
  <2>1. ASSUME NEW some, some = (l # "none")
        PROVE  /\ Sorted(s7 \o OneIf(some, l), 9)
               /\ \A m \in Kinds : Has(s7 \o OneIf(some, l), m)
                                   <=> Has(s7, m) \/ (some /\ m = l)
    <3>1. some => l \in Kinds /\ Rank[l] = 8
      BY <1>1, <2>1
    <3>. HIDE DEF s7
    <3>. QED
      BY <1>8, <3>1, AddsOptional
  <2>. QED
    BY <2>1
<1>10. Sorted(s9, 10) /\ \A m \in Kinds : Has(s9, m) <=> Has(s8, m) \/ (o /\ m = "machineAccel")
  BY <1>1, <1>9, AddsOptional
<1>11. Sorted(s10, 11) /\ \A m \in Kinds : Has(s10, m) <=> Has(s9, m) \/ m = "select"
  BY <1>1, <1>10, AddsPhase
<1>. HIDE DEF s1, s2, s3, s4, s5, s6, s7, s8, s9, s10
<1>12. \A m \in {"recoveryAccel", "machineAccel", "accelClamp", "accelRestore"} :
         Has(s10, m) <=> \/ o /\ m \in {"recoveryAccel", "machineAccel"}
                         \/ t /\ m \in {"accelClamp", "accelRestore"}
  BY <1>1, <1>2, <1>3, <1>4, <1>5, <1>6, <1>7, <1>8, <1>9, <1>10, <1>11
<1>13. Has(s10, "select")
  BY <1>1, <1>11
<1>14. Steps(o, t, l) = s10
  BY DEF Steps, s1, s2, s3, s4, s5, s6, s7, s8, s9, s10
<1>. QED
  BY <1>11, <1>12, <1>13, <1>14

(* What the proofs below need of the plans: where their phases may be.     *)
LEMMA PlanShape ==
  ASSUME NEW p \in Plans
  PROVE  /\ Len(p) \in Nat \ {0} /\ DOMAIN p = 1..Len(p) /\ p \in Seq(Kinds)
         /\ Sorted(p, 11)
         /\ Has(p, "recoveryAccel") <=> Has(p, "machineAccel")
         /\ Has(p, "accelClamp") <=> Has(p, "accelRestore")
         /\ Has(p, "select")
<1>. PICK o \in BOOLEAN, t \in BOOLEAN, l \in {"none", "preview", "zConfirm"} :
        p = Steps(o, t, l)
  BY DEF Plans
<1>1. p \in Seq(Kinds) /\ Has(p, "select")
  BY StepsSorted DEF Sorted
<1>2. Len(p) \in Nat \ {0} /\ DOMAIN p = 1..Len(p)
  BY <1>1 DEF Has
<1>. QED
  BY <1>1, <1>2, StepsSorted

(* Two phases of a plan stand in the order of their ranks. *)
LEMMA PlanOrder ==
  ASSUME NEW p \in Plans, NEW i \in 1..Len(p), NEW j \in 1..Len(p)
  PROVE  /\ Rank[p[i]] < Rank[p[j]] => i < j
         /\ p[i] = p[j] => i = j
<1>1. Len(p) \in Nat /\ p[i] \in Kinds /\ p[j] \in Kinds /\ Sorted(p, 11)
  BY PlanShape
<1>. QED
  BY <1>1, RankType DEF Sorted
-----------------------------------------------------------------------------
(* Where an execution is in its plan, and that it created the file its plan *)
(* will start: before the first step, or when the preview was accepted.    *)
PlaceInv(r) ==
  pc[r] # "off" => /\ plan[r] \in Plans /\ at[r] \in 1..Len(plan[r])
                   /\ pc[r] \in {"planned", "admitted", "filed"} => at[r] = 1
AskInv(r) ==
  /\ pc[r] = "ask" => Step(r) = "zConfirm"
  /\ pc[r] \in {"hover", "reposition", "asked"} => Step(r) = "preview"
Previewed(r) == \E i \in 1..at[r] - 1 : plan[r][i] = "preview"
OwnsFile(r) ==
  pc[r] \notin {"off", "planned", "admitted"} /\ (HasPreview(r) => Previewed(r))
    => files[name[r]] \in Runs

FileInv ==
  /\ name \in [Runs -> Names] /\ files \in [Names -> Runs \cup {NoFile, Other}]
  /\ \A r \in Runs : PlaceInv(r) /\ AskInv(r) /\ OwnsFile(r)

LEMMA InitFile == Init => FileInv
BY DEF Init, FileInv, PlaceInv, AskInv, OwnsFile

LEMMA NobodyRuns ==
  ASSUME name' \in [Runs -> Names], files' \in [Names -> Runs \cup {NoFile, Other}],
         \A r \in Runs : pc'[r] = "off"
  PROVE  FileInv'
BY DEF FileInv, PlaceInv, AskInv, OwnsFile

LEMMA GoesOff ==
  ASSUME OneRun, IInv, NEW r \in Runs, Goto(r, "off"),
         name' \in [Runs -> Names], files' \in [Names -> Runs \cup {NoFile, Other}]
  PROVE  FileInv'
<1>1. \A q \in Runs : pc'[q] = "off"
  BY DEF OneRun, Goto, IInv, Shape
<1>. QED
  BY <1>1, NobodyRuns

(* A step that stays in the plan where it is. *)
LEMMA StaysInPlace ==
  ASSUME OneRun, IInv, FileInv, NEW r \in Runs, NEW stage \in Stages, Goto(r, stage),
         pc[r] \notin {"off", "planned", "admitted"},
         stage \notin {"off", "planned", "admitted", "filed"},
         stage = "ask" => Step(r) = "zConfirm",
         stage \in {"hover", "reposition", "asked"} => Step(r) = "preview",
         UNCHANGED <<at, plan, name, files>>
  PROVE  FileInv'
<1>1. \A q \in Runs : q = r /\ pc'[q] = stage
  BY DEF OneRun, Goto, IInv, Shape
<1>2. PlaceInv(r)' /\ AskInv(r)'
  BY <1>1 DEF FileInv, PlaceInv, AskInv, Step
<1>3. OwnsFile(r)'
  BY <1>1 DEF FileInv, OwnsFile, HasPreview, Previewed
<1>. QED
  BY <1>1, <1>2, <1>3 DEF FileInv

(* A step on to the next one, past a preview only with the file created.   *)
LEMMA MovesOn ==
  ASSUME OneRun, IInv, FileInv, NEW r \in Runs, Advance(r),
         pc[r] \notin {"off", "planned", "admitted", "filed"},
         UNCHANGED <<plan, name>>, files' \in [Names -> Runs \cup {NoFile, Other}],
         \/ files' = files /\ Step(r) # "preview"
         \/ files'[name[r]] \in Runs
  PROVE  FileInv'
<1>1. \A q \in Runs : q = r /\ pc'[q] \in {"pause", "complete"}
  BY AdvanceStage DEF OneRun, Goto, IInv, Shape
<1>2. plan[r] \in Plans /\ at[r] \in 1..Len(plan[r]) /\ Len(plan[r]) \in Nat
  BY PlanShape DEF FileInv, PlaceInv
<1>3. \/ at' = at
      \/ at[r] # Len(plan[r]) /\ at'[r] = at[r] + 1
  BY DEF Advance, IInv, Shape
<1>4. PlaceInv(r)' /\ AskInv(r)'
  BY <1>1, <1>2, <1>3 DEF PlaceInv, AskInv
<1>5. CASE files'[name[r]] \in Runs
  BY <1>1, <1>4, <1>5 DEF FileInv, OwnsFile
<1>6. CASE files' = files /\ Step(r) # "preview"
  <2>1. Previewed(r)' => Previewed(r)
    BY <1>2, <1>3, <1>6 DEF Previewed, Step
  <2>2. OwnsFile(r)'
    BY <1>6, <2>1 DEF FileInv, OwnsFile, HasPreview
  <2>. QED
    BY <1>1, <1>4, <2>2 DEF FileInv
<1>. QED
  BY <1>5, <1>6

LEMMA StartFile ==
  ASSUME OneRun, IInv, FileInv, NEW r \in Runs, MakePlan(r) \/ FrameGate(r) \/ WriteFile(r)
  PROVE  FileInv'
<1>1. \A q \in Runs : q = r
  BY DEF OneRun
<1>2. CASE MakePlan(r)
  <2>1. PICK p \in Plans, n \in Names :
          plan' = [plan EXCEPT ![r] = p] /\ name' = [name EXCEPT ![r] = n]
    BY <1>2 DEF MakePlan
  <2>2. pc'[r] = "planned" /\ plan'[r] = p /\ at'[r] = 1 /\ files' = files
    BY <1>2, <2>1 DEF MakePlan, Goto, fileVars, IInv, Shape
  <2>3. 1 \in 1..Len(p)
    BY PlanShape
  <2>4. PlaceInv(r)' /\ AskInv(r)' /\ OwnsFile(r)'
    BY <2>2, <2>3 DEF PlaceInv, AskInv, OwnsFile
  <2>. QED
    BY <1>1, <2>1, <2>2, <2>4 DEF FileInv
<1>3. CASE FrameGate(r)
  <2>1. pc[r] = "planned" /\ (Goto(r, "admitted") \/ Goto(r, "off"))
    BY <1>3 DEF FrameGate
  <2>2. UNCHANGED <<at, plan, name, files>>
    BY <1>3 DEF FrameGate, fileVars
  <2>3. CASE Goto(r, "off")
    BY <2>2, <2>3, GoesOff DEF FileInv
  <2>4. CASE Goto(r, "admitted")
    <3>1. pc'[r] = "admitted"
      BY <2>4 DEF Goto, IInv, Shape
    <3>2. PlaceInv(r)' /\ AskInv(r)' /\ OwnsFile(r)'
      BY <2>1, <2>2, <3>1 DEF FileInv, PlaceInv, AskInv, OwnsFile
    <3>. QED
      BY <1>1, <2>2, <3>2 DEF FileInv
  <2>. QED
    BY <2>1, <2>3, <2>4
<1>4. CASE WriteFile(r)
  <2>1. pc[r] = "admitted" /\ UNCHANGED <<at, plan>>
    BY <1>4 DEF WriteFile
  <2>2. CASE Goto(r, "off") /\ UNCHANGED <<name, files>>
    BY <2>2, GoesOff DEF FileInv
  <2>3. CASE HasPreview(r) /\ Goto(r, "filed") /\ UNCHANGED <<name, files>>
    <3>1. pc'[r] = "filed" /\ at'[r] = 1
      BY <2>1, <2>3 DEF Goto, IInv, Shape, FileInv, PlaceInv
    <3>2. PlaceInv(r)' /\ AskInv(r)'
      BY <2>1, <3>1 DEF FileInv, PlaceInv, AskInv
    <3>3. HasPreview(r)' /\ ~Previewed(r)'
      BY <2>1, <2>3, <3>1 DEF HasPreview, Previewed
    <3>. QED
      BY <1>1, <2>3, <3>2, <3>3 DEF FileInv, OwnsFile
  <2>4. CASE /\ Goto(r, "filed")
             /\ \E n \in Names : files' = [files EXCEPT ![n] = r] /\ Retarget(r, n)
    <3>1. PICK n \in Names : files' = [files EXCEPT ![n] = r] /\ name' = [name EXCEPT ![r] = n]
      BY <2>4 DEF Retarget
    <3>2. files'[name'[r]] = r /\ name'[r] = n
      BY <3>1 DEF FileInv
    <3>3. pc'[r] = "filed" /\ at'[r] = 1
      BY <2>1, <2>4 DEF Goto, IInv, Shape, FileInv, PlaceInv
    <3>4. PlaceInv(r)' /\ AskInv(r)'
      BY <2>1, <3>3 DEF FileInv, PlaceInv, AskInv
    <3>5. OwnsFile(r)'
      BY <3>2 DEF OwnsFile
    <3>. QED
      BY <1>1, <3>1, <3>4, <3>5 DEF FileInv
  <2>. QED
    BY <1>4, <2>2, <2>3, <2>4 DEF WriteFile
<1>. QED
  BY <1>2, <1>3, <1>4

LEMMA GateFile ==
  ASSUME OneRun, IInv, FileInv, NEW r \in Runs,
         PrinterGate(r) \/ Pause(r) \/ Recheck(r) \/ Arm(r) \/ Compute(r) \/ Reposition(r)
  PROVE  FileInv'
<1>1. UNCHANGED <<at, plan, name>>
  BY DEF PrinterGate, Pause, Recheck, Arm, Compute, Reposition
<1>2. CASE Goto(r, "off") /\ files' = [files EXCEPT ![name[r]] = NoFile]
  BY <1>1, <1>2, GoesOff DEF FileInv
<1>3. CASE /\ \E stage \in {"pause", "recheck", "reposition", "arm", "run", "send", "asked",
                            "cleanup"} : Goto(r, stage)
           /\ files' = files /\ pc[r] \notin {"off", "planned", "admitted"}
  <2>. PICK stage \in {"pause", "recheck", "reposition", "arm", "run", "send", "asked",
                       "cleanup"} : Goto(r, stage)
    BY <1>3
  <2>1. pc'[r] = stage
    BY DEF Goto, IInv, Shape
  <2>2. pc'[r] \in {"reposition", "asked"} => pc[r] \in {"hover", "reposition"}
    BY <2>1, <1>3 DEF PrinterGate, Pause, Recheck, Arm, Compute, Reposition, Abort, Goto,
       IInv, Shape
  <2>3. stage \in {"reposition", "asked"} => Step(r) = "preview"
    BY <2>1, <2>2 DEF FileInv, AskInv
  <2>. QED
    BY <1>1, <1>3, <2>3, StaysInPlace DEF Stages
<1>. QED
  BY <1>2, <1>3 DEF PrinterGate, Pause, Recheck, Arm, Compute, Reposition, Abort, fileVars

LEMMA StepFile ==
  ASSUME OneRun, IInv, FileInv, NEW r \in Runs, Send(r) \/ ConfirmZ(r) \/ AskPreview(r)
  PROVE  FileInv'
<1>1. UNCHANGED <<plan, name>> /\ pc[r] \in {"send", "ask", "asked"}
  BY DEF Send, ConfirmZ, AskPreview
<1>2. \/ Goto(r, "cleanup") /\ at' = at /\ files' = files
      \/ Goto(r, "hover") /\ at' = at /\ files' = files /\ Step(r) = "preview"
      \/ Goto(r, "ask") /\ at' = at /\ files' = files /\ Step(r) = "zConfirm"
      \/ Advance(r) /\ files' = files /\ Step(r) # "preview"
      \/ Advance(r) /\ files' = [files EXCEPT ![name[r]] = r]
  <2>1. CASE Send(r)
    BY <2>1 DEF Send, Abort, fileVars
  <2>2. CASE ConfirmZ(r)
    BY <2>2 DEF ConfirmZ, Abort, fileVars, FileInv, AskInv
  <2>3. CASE AskPreview(r)
    BY <2>3 DEF AskPreview, Abort, FileInv, AskInv
  <2>. QED
    BY <2>1, <2>2, <2>3
<1>3. CASE Advance(r) /\ files' = files /\ Step(r) # "preview"
  BY <1>1, <1>3, MovesOn DEF FileInv
<1>4. CASE Advance(r) /\ files' = [files EXCEPT ![name[r]] = r]
  <2>1. files'[name[r]] \in Runs /\ files' \in [Names -> Runs \cup {NoFile, Other}]
    BY <1>4 DEF FileInv
  <2>. QED
    BY <1>1, <1>4, <2>1, MovesOn
<1>5. CASE \E stage \in {"cleanup", "hover", "ask"} :
             /\ Goto(r, stage) /\ at' = at /\ files' = files
             /\ stage = "ask" => Step(r) = "zConfirm"
             /\ stage = "hover" => Step(r) = "preview"
  BY <1>1, <1>5, StaysInPlace DEF Stages
<1>. QED
  BY <1>2, <1>3, <1>4, <1>5

LEMMA EndFile ==
  ASSUME OneRun, IInv, FileInv, NEW r \in Runs,
         Cleanup(r) \/ FinishAbort(r) \/ DropPending(r) \/ ClearMarker(r) \/ Die(r)
  PROVE  FileInv'
<1>1. UNCHANGED <<at, plan, name, files>>
  BY DEF Cleanup, FinishAbort, DropPending, ClearMarker, Die, fileVars
<1>2. CASE Cleanup(r)
  <2>1. pc' = pc
    BY <1>2 DEF Cleanup
  <2>. QED
    BY <1>1, <2>1 DEF FileInv, PlaceInv, AskInv, OwnsFile, Step, HasPreview, Previewed
<1>3. CASE DropPending(r)
  BY <1>1, <1>3, StaysInPlace DEF DropPending, Stages
<1>4. CASE FinishAbort(r) \/ ClearMarker(r) \/ Die(r)
  BY <1>1, <1>4, GoesOff DEF FinishAbort, ClearMarker, Die, FileInv
<1>. QED
  BY <1>2, <1>3, <1>4

(* Somebody else's file takes only a name that is free. *)
LEMMA WorldFile ==
  ASSUME FileInv, \/ \E n \in Names : Upload(n)
                  \/ DryRun \/ StartForeignJob \/ EndJob \/ RestartKlippy \/ PowerCut
  PROVE  FileInv'
<1>1. CASE \E n \in Names : Upload(n)
  <2>. PICK n \in Names : Upload(n)
    BY <1>1
  <2>1. UNCHANGED <<at, plan, name, pc>>
    BY DEF Upload, runVars
  <2>2. files' \in [Names -> Runs \cup {NoFile, Other}]
    BY DEF Upload, FileInv
  <2>3. \A m \in Names : files[m] \in Runs => files'[m] \in Runs
    BY RecoveryAssumption DEF Upload, FileInv
  <2>. QED
    BY <2>1, <2>2, <2>3 DEF FileInv, PlaceInv, AskInv, OwnsFile, Step, HasPreview, Previewed
<1>2. CASE DryRun \/ StartForeignJob \/ EndJob \/ RestartKlippy
  <2>1. UNCHANGED <<at, plan, name, pc, files>>
    BY <1>2 DEF DryRun, StartForeignJob, EndJob, RestartKlippy, fileVars, runVars
  <2>. QED
    BY <2>1 DEF FileInv, PlaceInv, AskInv, OwnsFile, Step, HasPreview, Previewed
<1>3. CASE PowerCut
  BY <1>3, NobodyRuns DEF PowerCut, FileInv
<1>. QED
  BY <1>1, <1>2, <1>3

LEMMA NextFile == OneRun /\ IInv /\ FileInv /\ [Next]_vars => FileInv'
<1>. SUFFICES ASSUME OneRun, IInv, FileInv, [Next]_vars PROVE FileInv'
  OBVIOUS
<1>1. ASSUME NEW r \in Runs, MakePlan(r) \/ FrameGate(r) \/ Execution(r) \/ Die(r)
      PROVE FileInv'
  BY <1>1, StartFile, GateFile, StepFile, EndFile DEF Execution
<1>2. CASE UNCHANGED vars
  BY <1>2 DEF vars, runVars, fileVars, FileInv, PlaceInv, AskInv, OwnsFile, Step, HasPreview,
     Previewed
<1>. QED
  BY <1>1, <1>2, WorldFile DEF Next

(* The one step that starts a recovery file. *)
LEMMA SelectedFile ==
  ASSUME FileInv, NEW r \in Runs, Send(r), job' # job
  PROVE  files[job'] \in Runs
<1>1. Step(r) = "select" /\ job' = name[r] /\ pc[r] = "send"
  BY DEF Send, Effect, printerVars
<1>2. plan[r] \in Plans /\ at[r] \in DOMAIN plan[r]
  BY <1>1, PlanShape DEF FileInv, PlaceInv
<1>3. ASSUME NEW j \in DOMAIN plan[r], plan[r][j] = "preview" PROVE Previewed(r)
  <2>1. Rank["preview"] < Rank["select"]
    BY DEF Rank
  <2>2. j < at[r] /\ at[r] \in Nat
    BY <1>1, <1>2, <1>3, <2>1, PlanShape, PlanOrder DEF Step
  <2>. QED
    BY <1>2, <1>3, <2>2, PlanShape DEF Previewed
<1>. QED
  BY <1>1, <1>3 DEF FileInv, OwnsFile, HasPreview

LEMMA OnlySendsStart ==
  ASSUME Next, job' \in Names, job' # job
  PROVE  \E r \in Runs : Send(r)
<1>1. ASSUME NEW r \in Runs, MakePlan(r) \/ FrameGate(r) \/ Execution(r) \/ Die(r), ~Send(r)
      PROVE  job' = job
  BY <1>1 DEF Execution, MakePlan, FrameGate, WriteFile, PrinterGate, Pause, Recheck, Arm,
     Compute, ConfirmZ, Reposition, AskPreview, Cleanup, FinishAbort, DropPending, ClearMarker,
     Die, printerVars
<1>2. ASSUME \/ \E n \in Names : Upload(n)
             \/ DryRun \/ StartForeignJob \/ EndJob \/ RestartKlippy \/ PowerCut
      PROVE  job' = job \/ job' \in {"idle", "foreign"}
  BY <1>2 DEF Upload, DryRun, StartForeignJob, EndJob, RestartKlippy, PowerCut, printerVars
<1>. QED
  BY <1>1, <1>2, RecoveryAssumption DEF Next

(* While invocations do not overlap, the file that is started is one the   *)
(* recovery created: exclusively and before the first step, or when the    *)
(* preview was accepted; a file put under its name meanwhile is refused.   *)
THEOREM StartsItsOwnFile == ASSUME OneRun PROVE Spec => StartsARecoveryFile
<1>1. Init => IInv /\ FileInv
  BY InitIInv, InitFile
<1>2. IInv /\ FileInv /\ [Next]_vars => IInv' /\ FileInv'
  BY OneRun, NextIInv, NextFile
<1>3. FileInv /\ [Next]_vars => [job' \in Names /\ job # job' => files[job'] \in Runs]_vars
  BY SelectedFile, OnlySendsStart
<1>. QED
  BY <1>1, <1>2, <1>3, PTL DEF Spec, StartsARecoveryFile
-----------------------------------------------------------------------------
(* The printer's own acceleration.  The plan's phases so far that recorded *)
(* one, and those still to come that put one back.                         *)
Values == Accels \cup {NoAccel}
Done(r, k) == \E i \in 1..at[r] - 1 : plan[r][i] = k
Later(r, k) == \E i \in at[r]..Len(plan[r]) : plan[r][i] = k
Recorded(r, k) == Done(r, k) \/ (pc[r] = "send" /\ Step(r) = k)

(* What is registered for an abort; what the oldest of it puts back; what  *)
(* the rest of the plan puts back.                                         *)
Registered(r) ==
  cleanups[r] = IF Recorded(r, "recoveryAccel")
                THEN IF Recorded(r, "accelClamp") THEN <<"machine", "phase">> ELSE <<"machine">>
                ELSE IF Recorded(r, "accelClamp") THEN <<"phase">> ELSE <<>>
AbortPutsBack(r) ==
  /\ cleanups[r] = <<>> => accel = "machine"
  /\ cleanups[r] # <<>> => slots[r][cleanups[r][1]] = "machine"
PlanPutsBack(r) ==
  \/ accel = "machine"
  \/ Recorded(r, "recoveryAccel") /\ Later(r, "machineAccel")
  \/ ~Recorded(r, "recoveryAccel") /\ Recorded(r, "accelClamp") /\ Later(r, "accelRestore")

Running(r) == pc[r] \notin {"off", "cleanup"}
RunAccel(r) ==
  /\ pc[r] = "off" => accel = "machine"
  /\ pc[r] # "off" => AbortPutsBack(r)
  /\ Running(r) => Registered(r) /\ PlanPutsBack(r)
  /\ pc[r] \in {"complete", "clear"} => at[r] = Len(plan[r])

AccelTypes ==
  /\ accel \in Values /\ leftover \in BOOLEAN
  /\ slots \in [Runs -> [{"phase", "machine"} -> Values]]
  /\ cleanups \in [Runs -> Seq({"phase", "machine"})]
AccelInv == AccelTypes /\ (leftover \/ \A r \in Runs : RunAccel(r))

LEMMA NoSlotsType == NoSlots \in [{"phase", "machine"} -> Values]
BY DEF NoSlots, Values

LEMMA InitAccelTypes == Init => AccelTypes
<1>. SUFFICES ASSUME Init PROVE AccelTypes
  OBVIOUS
<1>1. accel \in Values /\ leftover \in BOOLEAN
  BY DEF Init, Values, Accels
<1>2. cleanups \in [Runs -> Seq({"phase", "machine"})]
  BY DEF Init
<1>3. slots \in [Runs -> [{"phase", "machine"} -> Values]]
  BY NoSlotsType DEF Init
<1>. QED
  BY <1>1, <1>2, <1>3 DEF AccelTypes

LEMMA InitAccel == Init => AccelInv
<1>. SUFFICES ASSUME Init PROVE AccelTypes /\ \A r \in Runs : RunAccel(r)
  BY DEF AccelInv
<1>. QED
  BY InitAccelTypes DEF Init, RunAccel, Running

(* A cleanup is taken off the list. *)
Popped(s) == [j \in 1..Len(s) - 1 |-> s[IF j < Len(s) THEN j ELSE j + 1]]

LEMMA PopsNewest ==
  ASSUME NEW S, NEW s \in Seq(S), s # <<>>
  PROVE  /\ Popped(s) \in Seq(S) /\ Len(Popped(s)) = Len(s) - 1
         /\ Len(s) = 1 => Popped(s) = <<>>
         /\ Len(s) # 1 => Popped(s) # <<>> /\ Popped(s)[1] = s[1]
<1>1. Len(s) \in Nat \ {0}
  BY EmptySeq
<1>. DEFINE n == Len(s)
<1>2. Popped(s) \in [1..Len(s) - 1 -> S]
  BY <1>1 DEF Popped
<1>3. Popped(s) \in Seq(S) /\ Len(Popped(s)) = Len(s) - 1
  BY <1>1, <1>2
<1>4. Len(s) = 1 => Popped(s) = <<>>
  BY <1>3
<1>5. ASSUME Len(s) # 1 PROVE Popped(s) # <<>> /\ Popped(s)[1] = s[1]
  <2>. HIDE DEF n
  <2>1. n \in Nat \ {0} /\ n # 1
    BY <1>1, <1>5 DEF n
  <2>2. 1 \in 1..n - 1 /\ 1 < n
    BY <2>1
  <2>3. Popped(s)[1] = s[1]
    BY <2>2 DEF Popped, n
  <2>4. Len(Popped(s)) # 0
    BY <1>1, <1>3, <1>5
  <2>. QED
    BY <2>3, <2>4, EmptySeq
<1>. QED
  BY <1>3, <1>4, <1>5

(* What a step records and registers before its commands. *)
Records(r, slot) ==
  /\ slots' = [slots EXCEPT ![r] = [@ EXCEPT ![slot] = accel]]
  /\ cleanups' = [cleanups EXCEPT ![r] = Append(@, slot)]

LEMMA ComputeRecords ==
  ASSUME NEW r \in Runs, Compute(r)
  PROVE  \/ Goto(r, "send") /\ Step(r) = "recoveryAccel" /\ Records(r, "machine")
         \/ Goto(r, "send") /\ Step(r) = "accelClamp" /\ Records(r, "phase")
         \/ /\ Goto(r, "send") /\ Step(r) \notin {"recoveryAccel", "accelClamp"}
            /\ UNCHANGED <<slots, cleanups>>
         \/ Goto(r, "cleanup") /\ UNCHANGED <<slots, cleanups>>
BY Zenon DEF Compute, Records, Abort

LEMMA RecordsTypes ==
  ASSUME AccelTypes, NEW r \in Runs, NEW slot \in {"phase", "machine"}, Records(r, slot)
  PROVE  /\ slots' \in [Runs -> [{"phase", "machine"} -> Values]]
         /\ cleanups' \in [Runs -> Seq({"phase", "machine"})]
<1>1. [slots[r] EXCEPT ![slot] = accel] \in [{"phase", "machine"} -> Values]
  BY DEF AccelTypes
<1>2. Append(cleanups[r], slot) \in Seq({"phase", "machine"})
  BY DEF AccelTypes
<1>. QED
  BY <1>1, <1>2 DEF Records, AccelTypes

LEMMA NextAccelTypes == AccelTypes /\ [Next]_vars => AccelTypes'
<1>. SUFFICES ASSUME AccelTypes, [Next]_vars PROVE AccelTypes'
  OBVIOUS
<1>1. ASSUME NEW r \in Runs, MakePlan(r) PROVE AccelTypes'
  <2>1. /\ slots' = [slots EXCEPT ![r] = NoSlots]
        /\ cleanups' = [cleanups EXCEPT ![r] = <<>>]
        /\ UNCHANGED <<accel, leftover>>
    BY <1>1 DEF MakePlan, printerVars, historyVars
  <2>2. cleanups' \in [Runs -> Seq({"phase", "machine"})]
    BY <2>1 DEF AccelTypes
  <2>. QED
    BY <2>1, <2>2, NoSlotsType DEF AccelTypes
<1>2. ASSUME NEW r \in Runs, Compute(r) PROVE AccelTypes'
  <2>1. UNCHANGED <<accel, leftover>>
    BY <1>2 DEF Compute, printerVars, historyVars
  <2>. QED
    BY <1>2, <2>1, ComputeRecords, RecordsTypes DEF AccelTypes
<1>3. ASSUME NEW r \in Runs, Send(r) PROVE AccelTypes'
  <2>1. slots[r].phase \in Values /\ slots[r].machine \in Values
    BY DEF AccelTypes
  <2>2. accel' = accel \/ accel' = AccelAfter(r)
    BY <1>3 DEF Send, Effect, printerVars
  <2>3. AccelAfter(r) \in Values
    BY <2>1 DEF AccelAfter, AccelTypes, Values, Accels
  <2>4. UNCHANGED <<slots, cleanups, leftover>>
    BY <1>3 DEF Send
  <2>. QED
    BY <2>2, <2>3, <2>4 DEF AccelTypes
<1>4. ASSUME NEW r \in Runs, Cleanup(r) PROVE AccelTypes'
  <2>1. cleanups[r] \in Seq({"phase", "machine"}) /\ cleanups[r] # <<>>
        /\ Len(cleanups[r]) \in Nat
    BY <1>4 DEF Cleanup, AccelTypes
  <2>2. cleanups' = [cleanups EXCEPT ![r] = Popped(cleanups[r])]
    BY <1>4 DEF Cleanup, NextCleanup, Popped
  <2>3. cleanups' \in [Runs -> Seq({"phase", "machine"})]
    BY <2>1, <2>2, PopsNewest DEF AccelTypes
  <2>4. cleanups[r][Len(cleanups[r])] \in {"phase", "machine"}
    BY <2>1, EmptySeq, ElementOfSeq
  <2>5. \/ accel' = slots[r][cleanups[r][Len(cleanups[r])]] /\ leftover' = leftover
        \/ accel' = accel /\ leftover' = TRUE
    BY <1>4 DEF Cleanup, NextCleanup
  <2>6. accel' \in Values
    BY <2>4, <2>5 DEF AccelTypes
  <2>7. leftover' \in BOOLEAN
    BY <2>5, Zenon DEF AccelTypes
  <2>8. slots' = slots
    BY <1>4 DEF Cleanup
  <2>. QED
    BY <2>3, <2>6, <2>7, <2>8 DEF AccelTypes
<1>5. ASSUME NEW r \in Runs, Die(r) PROVE AccelTypes'
  BY <1>5 DEF Die, AccelTypes, printerVars
<1>6. CASE RestartKlippy \/ PowerCut
  BY <1>6 DEF RestartKlippy, PowerCut, AccelTypes, Values, Accels, runVars
<1>7. CASE DryRun \/ StartForeignJob \/ EndJob \/ \E n \in Names : Upload(n)
  BY <1>7 DEF DryRun, StartForeignJob, EndJob, Upload, AccelTypes, runVars, printerVars,
     historyVars
<1>8. ASSUME NEW r \in Runs,
             \/ FrameGate(r) \/ WriteFile(r) \/ PrinterGate(r) \/ Pause(r) \/ Recheck(r)
             \/ Arm(r) \/ ConfirmZ(r) \/ Reposition(r) \/ AskPreview(r)
             \/ FinishAbort(r) \/ DropPending(r) \/ ClearMarker(r)
      PROVE  AccelTypes'
  <2>1. UNCHANGED <<accel, slots, cleanups, leftover>>
    BY <1>8 DEF FrameGate, WriteFile, PrinterGate, Pause, Recheck, Arm, ConfirmZ, Reposition,
       AskPreview, FinishAbort, DropPending, ClearMarker, printerVars, historyVars
  <2>. QED
    BY <2>1 DEF AccelTypes
<1>9. CASE UNCHANGED vars
  BY <1>9 DEF vars, printerVars, runVars, historyVars, AccelTypes
<1>. QED
  BY <1>1, <1>2, <1>3, <1>4, <1>5, <1>6, <1>7, <1>8, <1>9 DEF Next, Execution
-----------------------------------------------------------------------------
(* Where a plan records an acceleration and where it puts it back. *)
LEMMA PlanRecords ==
  ASSUME NEW p \in Plans, NEW i \in 1..Len(p)
  PROVE  /\ p[i] = "recoveryAccel" =>
              /\ \E j \in i + 1..Len(p) : p[j] = "machineAccel"
              /\ \A j \in 1..i - 1 : p[j] \notin {"recoveryAccel", "accelClamp"}
         /\ p[i] = "accelClamp" =>
              /\ \E j \in i + 1..Len(p) : p[j] = "accelRestore"
              /\ \A j \in 1..i - 1 : p[j] # "accelClamp"
         /\ /\ p[i] \in {"accelClamp", "accelRestore"}
            /\ \E j \in 1..i - 1 : p[j] = "recoveryAccel"
            => \E j \in i + 1..Len(p) : p[j] = "machineAccel"
         /\ p[i] = "accelRestore" => \E j \in 1..i - 1 : p[j] = "accelClamp"
         /\ p[i] = "machineAccel" => \E j \in 1..i - 1 : p[j] = "recoveryAccel"
<1>1. Len(p) \in Nat /\ i \in Nat
  BY PlanShape
<1>2. /\ Rank["recoveryAccel"] = 2 /\ Rank["accelClamp"] = 4 /\ Rank["accelRestore"] = 6
      /\ Rank["machineAccel"] = 9
  BY DEF Rank
<1>3. \A a, b \in 1..Len(p) : /\ Rank[p[a]] < Rank[p[b]] => a < b
                              /\ p[a] = p[b] => a = b
  BY PlanOrder
<1>4. /\ Has(p, "recoveryAccel") <=> Has(p, "machineAccel")
      /\ Has(p, "accelClamp") <=> Has(p, "accelRestore")
  BY PlanShape
<1>5. CASE p[i] = "recoveryAccel"
  <2>1. PICK m \in 1..Len(p) : p[m] = "machineAccel"
    BY <1>4, <1>5 DEF Has
  <2>2. i < m
    BY <1>2, <1>3, <1>5, <2>1
  <2>3. ASSUME NEW j \in 1..i - 1 PROVE p[j] \notin {"recoveryAccel", "accelClamp"}
    <3>1. j \in 1..Len(p) /\ j < i
      BY <1>1
    <3>2. p[j] # p[i] /\ ~(Rank[p[i]] < Rank[p[j]])
      BY <1>1, <1>3, <3>1
    <3>. QED
      BY <1>2, <1>5, <3>2
  <2>. QED
    BY <1>1, <1>5, <2>1, <2>2, <2>3
<1>6. CASE p[i] = "accelClamp"
  <2>1. PICK m \in 1..Len(p) : p[m] = "accelRestore"
    BY <1>4, <1>6 DEF Has
  <2>2. i < m
    BY <1>2, <1>3, <1>6, <2>1
  <2>3. ASSUME NEW j \in 1..i - 1 PROVE p[j] # "accelClamp"
    BY <1>1, <1>3, <1>6
  <2>4. ASSUME NEW j \in 1..i - 1, p[j] = "recoveryAccel"
        PROVE  \E k \in i + 1..Len(p) : p[k] = "machineAccel"
    <3>1. PICK k \in 1..Len(p) : p[k] = "machineAccel"
      BY <1>1, <1>4, <2>4 DEF Has
    <3>2. i < k
      BY <1>2, <1>3, <1>6, <3>1
    <3>. QED
      BY <1>1, <3>1, <3>2
  <2>. QED
    BY <1>1, <1>6, <2>1, <2>2, <2>3, <2>4
<1>7. CASE p[i] = "accelRestore"
  <2>1. PICK m \in 1..Len(p) : p[m] = "accelClamp"
    BY <1>4, <1>7 DEF Has
  <2>2. m < i
    BY <1>2, <1>3, <1>7, <2>1
  <2>3. ASSUME NEW j \in 1..i - 1, p[j] = "recoveryAccel"
        PROVE  \E k \in i + 1..Len(p) : p[k] = "machineAccel"
    <3>1. PICK k \in 1..Len(p) : p[k] = "machineAccel"
      BY <1>1, <1>4, <2>3 DEF Has
    <3>2. i < k
      BY <1>2, <1>3, <1>7, <3>1
    <3>. QED
      BY <1>1, <3>1, <3>2
  <2>. QED
    BY <1>1, <1>7, <2>1, <2>2, <2>3
<1>8. CASE p[i] = "machineAccel"
  <2>1. PICK m \in 1..Len(p) : p[m] = "recoveryAccel"
    BY <1>4, <1>8 DEF Has
  <2>2. m < i
    BY <1>2, <1>3, <1>8, <2>1
  <2>. QED
    BY <1>1, <1>8, <2>1, <2>2
<1>. QED
  BY <1>5, <1>6, <1>7, <1>8

LEMMA LastIsSelect == ASSUME NEW p \in Plans PROVE p[Len(p)] = "select"
<1>1. Sorted(p, 11) /\ Has(p, "select") /\ Len(p) \in Nat \ {0}
  BY PlanShape
<1>2. PICK i \in 1..Len(p) : p[i] = "select"
  BY <1>1 DEF Has
<1>3. p[Len(p)] \in Kinds /\ Rank["select"] = 10
  BY <1>1 DEF Sorted, Rank
<1>4. ASSUME i < Len(p) PROVE FALSE
  BY <1>1, <1>2, <1>3, <1>4, RankType DEF Sorted
<1>. QED
  BY <1>1, <1>2, <1>4

(* At the end of the plan nothing is left to put back. *)
LEMMA AtTheEnd ==
  ASSUME FileInv, NEW r \in Runs, RunAccel(r), pc[r] \in {"complete", "clear"}
  PROVE  accel = "machine"
<1>1. plan[r] \in Plans /\ at[r] = Len(plan[r]) /\ Len(plan[r]) \in Nat
  BY PlanShape DEF FileInv, PlaceInv, RunAccel
<1>2. ~Later(r, "machineAccel") /\ ~Later(r, "accelRestore")
  BY <1>1, LastIsSelect DEF Later
<1>. QED
  BY <1>2 DEF RunAccel, Running, PlanPutsBack

(* Nor before the first step is taken. *)
LEMMA AtTheStart ==
  ASSUME FileInv, NEW r \in Runs, RunAccel(r), pc[r] \in {"planned", "admitted", "filed"}
  PROVE  accel = "machine"
<1>1. at[r] = 1
  BY DEF FileInv, PlaceInv
<1>2. ~Recorded(r, "recoveryAccel") /\ ~Recorded(r, "accelClamp")
  BY <1>1 DEF Recorded, Done
<1>. QED
  BY <1>2 DEF RunAccel, Running, PlanPutsBack

LEMMA StageIs ==
  ASSUME IInv, NEW r \in Runs, NEW stage, Goto(r, stage) PROVE pc'[r] = stage
BY DEF IInv, Shape, Goto

(* A step that neither records nor sends. *)
LEMMA AccelStays ==
  ASSUME IInv, NEW r \in Runs, RunAccel(r), Running(r), pc[r] # "send",
         NEW stage, Goto(r, stage), stage \notin {"off", "send", "complete", "clear"},
         UNCHANGED <<at, plan, accel, slots, cleanups>>
  PROVE  RunAccel(r)'
<1>1. pc'[r] = stage
  BY StageIs
<1>2. AbortPutsBack(r)'
  BY DEF RunAccel, Running, AbortPutsBack
<1>3. Recorded(r, "recoveryAccel")' = Recorded(r, "recoveryAccel")
  BY <1>1 DEF Recorded, Done
<1>4. Recorded(r, "accelClamp")' = Recorded(r, "accelClamp")
  BY <1>1 DEF Recorded, Done
<1>5. Registered(r)' /\ PlanPutsBack(r)'
  BY <1>3, <1>4 DEF RunAccel, Registered, PlanPutsBack, Later
<1>. QED
  BY <1>1, <1>2, <1>5 DEF RunAccel

LEMMA AccelOff ==
  ASSUME IInv, NEW r \in Runs, Goto(r, "off"), accel = "machine", accel' = accel
  PROVE  RunAccel(r)'
BY StageIs DEF RunAccel, Running
-----------------------------------------------------------------------------
LEMMA QuietAccel ==
  ASSUME IInv, FileInv, NEW r \in Runs, RunAccel(r),
         \/ FrameGate(r) \/ WriteFile(r) \/ PrinterGate(r) \/ Pause(r) \/ Recheck(r)
         \/ Arm(r) \/ Reposition(r)
  PROVE  RunAccel(r)'
<1>1. UNCHANGED <<at, plan, accel, slots, cleanups>>
  BY DEF FrameGate, WriteFile, PrinterGate, Pause, Recheck, Arm, Reposition, printerVars
<1>2. pc[r] \notin {"off", "cleanup", "send"}
  BY DEF FrameGate, WriteFile, PrinterGate, Pause, Recheck, Arm, Reposition
<1>3. CASE Goto(r, "off")
  <2>1. pc'[r] = "off"
    BY <1>3, StageIs
  <2>2. CASE FrameGate(r) \/ WriteFile(r) \/ PrinterGate(r)
    <3>1. pc[r] \in {"planned", "admitted", "filed"}
      BY <2>2 DEF FrameGate, WriteFile, PrinterGate
    <3>. QED
      BY <1>1, <1>3, <3>1, AtTheStart, AccelOff
  <2>3. CASE Pause(r) \/ Recheck(r) \/ Arm(r) \/ Reposition(r)
    <3>1. \E stage \in Stages \ {"off"} : Goto(r, stage)
      BY <2>3 DEF Pause, Recheck, Arm, Reposition, Abort, Stages
    <3>. QED
      BY <2>1, <3>1, StageIs
  <2>. QED
    BY <2>2, <2>3
<1>4. CASE \E stage \in Stages \ {"off", "send", "complete", "clear"} : Goto(r, stage)
  BY <1>1, <1>2, <1>4, AccelStays DEF Running
<1>. QED
  BY <1>3, <1>4 DEF FrameGate, WriteFile, PrinterGate, Pause, Recheck, Arm, Reposition, Abort,
     Stages

LEMMA PlanAccel ==
  ASSUME IInv, AccelTypes, NEW r \in Runs, RunAccel(r), MakePlan(r) PROVE RunAccel(r)'
<1>1. PICK p \in Plans : plan' = [plan EXCEPT ![r] = p]
  BY DEF MakePlan
<1>2. pc'[r] = "planned" /\ at'[r] = 1 /\ cleanups'[r] = <<>>
  BY DEF MakePlan, Goto, IInv, Shape, AccelTypes
<1>3. accel' = "machine"
  BY DEF MakePlan, RunAccel, printerVars
<1>4. ~Recorded(r, "recoveryAccel")' /\ ~Recorded(r, "accelClamp")'
  BY <1>2 DEF Recorded, Done
<1>. QED
  BY <1>2, <1>3, <1>4 DEF RunAccel, AbortPutsBack, Registered, PlanPutsBack

(* What was recorded first is the printer's own. *)
LEMMA FirstRecord ==
  ASSUME NEW r \in Runs, RunAccel(r), Running(r)
  PROVE  /\ Recorded(r, "recoveryAccel") => slots[r].machine = "machine"
         /\ ~Recorded(r, "recoveryAccel") /\ Recorded(r, "accelClamp") =>
              slots[r].phase = "machine"
         /\ ~Recorded(r, "recoveryAccel") /\ ~Recorded(r, "accelClamp") => accel = "machine"
BY DEF RunAccel, Running, Registered, AbortPutsBack, PlanPutsBack

LEMMA TwoCleanups ==
  /\ Append(<<"machine">>, "phase") = <<"machine", "phase">>
  /\ <<"machine", "phase">>[1] = "machine" /\ <<"machine", "phase">> # <<>>
<1>. DEFINE S == {"machine", "phase"}
            s == Append(<<"machine">>, "phase")
            t == <<"machine", "phase">>
<1>1. s \in Seq(S) /\ Len(s) = 2 /\ s[1] = "machine" /\ s[2] = "phase"
  OBVIOUS
<1>2. t \in Seq(S) /\ Len(t) = 2 /\ t[1] = "machine" /\ t[2] = "phase"
  OBVIOUS
<1>3. \A i \in 1..Len(s) : s[i] = t[i]
  BY <1>1, <1>2
<1>. HIDE DEF s, t
<1>4. s = t /\ t # <<>>
  BY SMTT(30), <1>1, <1>2, <1>3, SeqEqual, EmptySeq
<1>. QED
  BY <1>2, <1>4 DEF s, t

LEMMA ComputeAccel ==
  ASSUME IInv, FileInv, AccelTypes, NEW r \in Runs, RunAccel(r), Compute(r)
  PROVE  RunAccel(r)'
<1>1. UNCHANGED <<at, plan, accel>> /\ pc[r] = "run"
  BY DEF Compute, printerVars
<1>2. plan[r] \in Plans /\ at[r] \in 1..Len(plan[r])
  BY <1>1 DEF FileInv, PlaceInv
<1>3. /\ Recorded(r, "recoveryAccel") <=> Done(r, "recoveryAccel")
      /\ Recorded(r, "accelClamp") <=> Done(r, "accelClamp")
  BY <1>1 DEF Recorded
<1>4. CASE Goto(r, "cleanup") /\ UNCHANGED <<slots, cleanups>>
  BY <1>1, <1>4, AccelStays DEF Running
<1>5. CASE Goto(r, "send") /\ Step(r) = "recoveryAccel" /\ Records(r, "machine")
  <2>1. ~Done(r, "recoveryAccel") /\ ~Done(r, "accelClamp")
    BY <1>2, <1>5, PlanRecords DEF Done, Step
  <2>2. cleanups[r] = <<>> /\ accel = "machine"
    BY <1>1, <1>3, <2>1, FirstRecord DEF RunAccel, Running, Registered
  <2>3. cleanups'[r] = Append(<<>>, "machine") /\ slots'[r].machine = "machine"
    BY <1>5, <2>2 DEF Records, AccelTypes
  <2>4. pc'[r] = "send"
    BY <1>5, StageIs
  <2>5. Recorded(r, "recoveryAccel")' /\ ~Recorded(r, "accelClamp")'
    BY <1>1, <1>5, <2>1, <2>4 DEF Recorded, Done, Step
  <2>6. cleanups'[r] = <<"machine">> /\ cleanups'[r][1] = "machine"
    BY <2>3
  <2>7. AbortPutsBack(r)' /\ Registered(r)' /\ PlanPutsBack(r)'
    BY <1>1, <2>2, <2>3, <2>5, <2>6 DEF AbortPutsBack, Registered, PlanPutsBack
  <2>. QED
    BY <2>4, <2>7 DEF RunAccel
<1>6. CASE Goto(r, "send") /\ Step(r) = "accelClamp" /\ Records(r, "phase")
  <2>1. ~Done(r, "accelClamp")
    BY <1>2, <1>6, PlanRecords DEF Done, Step
  <2>2. pc'[r] = "send"
    BY <1>6, StageIs
  <2>3. Recorded(r, "accelClamp")'
    BY <1>1, <1>6, <2>2 DEF Recorded, Step
  <2>4. Recorded(r, "recoveryAccel")' = Done(r, "recoveryAccel")
    BY <1>1, <1>6, <2>2 DEF Recorded, Done, Step
  <2>5. /\ cleanups'[r] = Append(cleanups[r], "phase")
        /\ slots'[r].phase = accel /\ slots'[r].machine = slots[r].machine
    BY <1>6 DEF Records, AccelTypes
  <2>6. CASE Done(r, "recoveryAccel")
    <3>1. cleanups[r] = <<"machine">> /\ slots[r].machine = "machine"
      BY <1>1, <1>3, <2>1, <2>6, FirstRecord DEF RunAccel, Running, Registered
    <3>2. cleanups'[r] = <<"machine", "phase">> /\ cleanups'[r][1] = "machine"
          /\ cleanups'[r] # <<>>
      BY <2>5, <3>1, TwoCleanups
    <3>3. PlanPutsBack(r)'
      BY <1>1, <1>3, <2>1, <2>4, <2>6 DEF RunAccel, Running, PlanPutsBack, Later
    <3>. QED
      BY <2>2, <2>3, <2>4, <2>5, <2>6, <3>1, <3>2, <3>3 DEF RunAccel, AbortPutsBack, Registered
  <2>7. CASE ~Done(r, "recoveryAccel")
    <3>1. cleanups[r] = <<>> /\ accel = "machine"
      BY <1>1, <1>3, <2>1, <2>7, FirstRecord DEF RunAccel, Running, Registered
    <3>2. cleanups'[r] = <<"phase">> /\ cleanups'[r][1] = "phase" /\ cleanups'[r] # <<>>
      BY <2>5, <3>1
    <3>. QED
      BY <1>1, <2>2, <2>3, <2>4, <2>5, <2>7, <3>1, <3>2
         DEF RunAccel, AbortPutsBack, Registered, PlanPutsBack
  <2>. QED
    BY <2>6, <2>7
<1>7. CASE /\ Goto(r, "send") /\ Step(r) \notin {"recoveryAccel", "accelClamp"}
           /\ UNCHANGED <<slots, cleanups>>
  <2>1. pc'[r] = "send"
    BY <1>7, StageIs
  <2>2. /\ Recorded(r, "recoveryAccel")' = Recorded(r, "recoveryAccel")
        /\ Recorded(r, "accelClamp")' = Recorded(r, "accelClamp")
    BY <1>1, <1>3, <1>7, <2>1 DEF Recorded, Done, Step
  <2>3. AbortPutsBack(r)' /\ Registered(r)' /\ PlanPutsBack(r)'
    BY <1>1, <1>7, <2>2 DEF RunAccel, Running, AbortPutsBack, Registered, PlanPutsBack, Later
  <2>. QED
    BY <2>1, <2>3 DEF RunAccel
<1>. QED
  BY <1>4, <1>5, <1>6, <1>7, ComputeRecords
-----------------------------------------------------------------------------
(* The commands of a step: what is not put back yet, the rest of the plan  *)
(* and the cleanups still will.                                            *)
After(r, k) == \E i \in at[r] + 1..Len(plan[r]) : plan[r][i] = k
RestPutsBack(r) ==
  \/ accel' = "machine"
  \/ Recorded(r, "recoveryAccel") /\ After(r, "machineAccel")
  \/ ~Recorded(r, "recoveryAccel") /\ Recorded(r, "accelClamp") /\ After(r, "accelRestore")

LEMMA EffectPutsBack ==
  ASSUME FileInv, NEW r \in Runs, RunAccel(r), pc[r] = "send", accel' = AccelAfter(r)
  PROVE  RestPutsBack(r) /\ (cleanups[r] = <<>> => accel' = "machine")
<1>1. plan[r] \in Plans /\ at[r] \in 1..Len(plan[r]) /\ Len(plan[r]) \in Nat
  BY PlanShape DEF FileInv, PlaceInv
<1>2. cleanups[r] = <<>> => ~Recorded(r, "recoveryAccel") /\ ~Recorded(r, "accelClamp")
  BY TwoCleanups DEF RunAccel, Running, Registered
<1>3. CASE Step(r) = "recoveryAccel"
  BY <1>1, <1>2, <1>3, PlanRecords DEF RestPutsBack, Recorded, After, Step
<1>4. CASE Step(r) = "accelClamp"
  <2>1. Recorded(r, "accelClamp") /\ After(r, "accelRestore")
    BY <1>1, <1>4, PlanRecords DEF Recorded, After, Step
  <2>2. Recorded(r, "recoveryAccel") => After(r, "machineAccel")
    BY <1>1, <1>4, PlanRecords DEF Recorded, Done, After, Step
  <2>. QED
    BY <1>2, <2>1, <2>2 DEF RestPutsBack
<1>5. CASE Step(r) = "accelRestore"
  <2>1. Recorded(r, "accelClamp") /\ accel' = slots[r].phase
    BY <1>1, <1>5, PlanRecords DEF Recorded, Done, Step, AccelAfter
  <2>2. Recorded(r, "recoveryAccel") => After(r, "machineAccel")
    BY <1>1, <1>5, PlanRecords DEF Recorded, Done, After, Step
  <2>. QED
    BY <1>2, <2>1, <2>2, FirstRecord DEF RestPutsBack, Running
<1>6. CASE Step(r) = "machineAccel"
  <2>1. Recorded(r, "recoveryAccel") /\ accel' = slots[r].machine
    BY <1>1, <1>6, PlanRecords DEF Recorded, Done, Step, AccelAfter
  <2>. QED
    BY <1>2, <2>1, FirstRecord DEF RestPutsBack, Running
<1>7. CASE Step(r) \notin {"recoveryAccel", "accelClamp", "accelRestore", "machineAccel"}
  <2>1. accel' = accel
    BY <1>7 DEF AccelAfter
  <2>2. /\ Later(r, "machineAccel") => After(r, "machineAccel")
        /\ Later(r, "accelRestore") => After(r, "accelRestore")
    BY <1>1, <1>7 DEF Later, After, Step
  <2>. QED
    BY <2>1, <2>2 DEF RunAccel, Running, AbortPutsBack, PlanPutsBack, RestPutsBack
<1>. QED
  BY <1>3, <1>4, <1>5, <1>6, <1>7

(* On to the next step, or past the last. *)
LEMMA AdvanceAccel ==
  ASSUME IInv, FileInv, NEW r \in Runs, RunAccel(r), Running(r), Advance(r), RestPutsBack(r),
         UNCHANGED <<plan, slots, cleanups>>, cleanups[r] = <<>> => accel' = "machine",
         pc[r] = "send" \/ Step(r) \notin {"recoveryAccel", "accelClamp"}
  PROVE  RunAccel(r)'
<1>1. plan[r] \in Plans /\ at[r] \in 1..Len(plan[r]) /\ Len(plan[r]) \in Nat
  BY PlanShape DEF FileInv, PlaceInv, Running
<1>2. \/ at[r] = Len(plan[r]) /\ at' = at /\ pc'[r] = "complete"
      \/ at[r] # Len(plan[r]) /\ at'[r] = at[r] + 1 /\ pc'[r] = "pause"
  BY StageIs DEF Advance, IInv, Shape
<1>3. AbortPutsBack(r)'
  BY DEF RunAccel, Running, AbortPutsBack
<1>4. CASE at[r] = Len(plan[r]) /\ at' = at /\ pc'[r] = "complete"
  <2>1. Step(r) = "select"
    BY <1>1, <1>4, LastIsSelect DEF Step
  <2>2. /\ Recorded(r, "recoveryAccel")' <=> Recorded(r, "recoveryAccel")
        /\ Recorded(r, "accelClamp")' <=> Recorded(r, "accelClamp")
    BY <1>4, <2>1 DEF Recorded, Done
  <2>3. ~After(r, "machineAccel") /\ ~After(r, "accelRestore")
    BY <1>1, <1>4 DEF After
  <2>4. accel' = "machine"
    BY <2>3 DEF RestPutsBack
  <2>5. Registered(r)'
    BY <2>2 DEF RunAccel, Registered
  <2>. QED
    BY <1>3, <1>4, <2>4, <2>5 DEF RunAccel, PlanPutsBack
<1>5. CASE at[r] # Len(plan[r]) /\ at'[r] = at[r] + 1 /\ pc'[r] = "pause"
  <2>1. \A k : Done(r, k)' <=> Done(r, k) \/ Step(r) = k
    BY <1>1, <1>5 DEF Done, Step
  <2>2. /\ Recorded(r, "recoveryAccel")' <=> Recorded(r, "recoveryAccel")
        /\ Recorded(r, "accelClamp")' <=> Recorded(r, "accelClamp")
    BY <1>5, <2>1 DEF Recorded
  <2>3. /\ Later(r, "machineAccel")' <=> After(r, "machineAccel")
        /\ Later(r, "accelRestore")' <=> After(r, "accelRestore")
    BY <1>5 DEF Later, After
  <2>4. Registered(r)' /\ PlanPutsBack(r)'
    BY <2>2, <2>3 DEF RunAccel, Registered, RestPutsBack, PlanPutsBack
  <2>. QED
    BY <1>3, <1>5, <2>4 DEF RunAccel
<1>. QED
  BY <1>2, <1>4, <1>5

(* A pause in the middle of a step that records nothing. *)
LEMMA WaitsAccel ==
  ASSUME IInv, NEW r \in Runs, RunAccel(r), pc[r] = "send", Step(r) \in {"zConfirm", "preview"},
         NEW stage \in {"ask", "hover"}, Goto(r, stage),
         UNCHANGED <<at, plan, accel, slots, cleanups>>
  PROVE  RunAccel(r)'
<1>1. pc'[r] = stage
  BY StageIs
<1>2. /\ Recorded(r, "recoveryAccel")' <=> Recorded(r, "recoveryAccel")
      /\ Recorded(r, "accelClamp")' <=> Recorded(r, "accelClamp")
  BY <1>1 DEF Recorded, Done, Step
<1>3. AbortPutsBack(r)' /\ Registered(r)' /\ PlanPutsBack(r)'
  BY <1>2 DEF RunAccel, Running, AbortPutsBack, Registered, PlanPutsBack, Later
<1>. QED
  BY <1>1, <1>3 DEF RunAccel

LEMMA AbortAccel ==
  ASSUME IInv, NEW r \in Runs, RunAccel(r), Running(r), Goto(r, "cleanup"),
         UNCHANGED <<slots, cleanups>>, cleanups[r] = <<>> => accel' = "machine"
  PROVE  RunAccel(r)'
BY StageIs DEF RunAccel, Running, AbortPutsBack

LEMMA SendAccel ==
  ASSUME IInv, FileInv, NEW r \in Runs, RunAccel(r), Send(r) PROVE RunAccel(r)'
<1>1. UNCHANGED <<plan, slots, cleanups>> /\ pc[r] = "send"
  BY DEF Send
<1>2. CASE accel' = AccelAfter(r)
  <2>1. RestPutsBack(r) /\ (cleanups[r] = <<>> => accel' = "machine")
    BY <1>1, <1>2, EffectPutsBack
  <2>2. CASE Goto(r, "cleanup")
    BY <1>1, <2>1, <2>2, AbortAccel DEF Running
  <2>3. CASE Advance(r)
    BY <1>1, <2>1, <2>3, AdvanceAccel DEF Running
  <2>4. CASE Step(r) \in {"zConfirm", "preview"} /\ at' = at
             /\ (Goto(r, "ask") \/ Goto(r, "hover"))
    <3>1. accel' = accel
      BY <1>2, <2>4 DEF AccelAfter
    <3>. QED
      BY <1>1, <2>4, <3>1, WaitsAccel
  <2>. QED
    BY <2>2, <2>3, <2>4 DEF Send, Abort
<1>3. CASE Goto(r, "cleanup") /\ accel' = accel
  <2>1. cleanups[r] = <<>> => accel' = "machine"
    BY <1>1, <1>3 DEF RunAccel, AbortPutsBack
  <2>. QED
    BY <1>1, <1>3, <2>1, AbortAccel DEF Running
<1>. QED
  BY <1>2, <1>3 DEF Send, Effect, Abort, printerVars

LEMMA AnswerAccel ==
  ASSUME IInv, FileInv, NEW r \in Runs, RunAccel(r), ConfirmZ(r) \/ AskPreview(r)
  PROVE  RunAccel(r)'
<1>1. UNCHANGED <<plan, accel, slots, cleanups>> /\ pc[r] \in {"ask", "asked"}
  BY DEF ConfirmZ, AskPreview, printerVars
<1>2. Step(r) \in {"zConfirm", "preview"}
  BY <1>1 DEF FileInv, AskInv
<1>3. CASE Advance(r)
  <2>1. plan[r] \in Plans /\ at[r] \in 1..Len(plan[r]) /\ Len(plan[r]) \in Nat
    BY <1>1, PlanShape DEF FileInv, PlaceInv
  <2>2. /\ Later(r, "machineAccel") => After(r, "machineAccel")
        /\ Later(r, "accelRestore") => After(r, "accelRestore")
    BY <1>2, <2>1 DEF Later, After, Step
  <2>3. RestPutsBack(r) /\ (cleanups[r] = <<>> => accel' = "machine")
    BY <1>1, <2>2 DEF RunAccel, Running, AbortPutsBack, PlanPutsBack, RestPutsBack
  <2>. QED
    BY <1>1, <1>2, <1>3, <2>3, AdvanceAccel DEF Running
<1>4. CASE \E stage \in {"cleanup", "hover"} : Goto(r, stage) /\ at' = at
  BY <1>1, <1>4, AccelStays DEF Running
<1>. QED
  BY <1>3, <1>4 DEF ConfirmZ, AskPreview, Abort
-----------------------------------------------------------------------------
LEMMA CleanupAccel ==
  ASSUME AccelTypes, NEW r \in Runs, RunAccel(r), Cleanup(r) PROVE leftover' \/ RunAccel(r)'
<1>1. /\ cleanups[r] \in Seq({"phase", "machine"}) /\ cleanups[r] # <<>>
      /\ cleanups' = [cleanups EXCEPT ![r] = Popped(cleanups[r])]
      /\ UNCHANGED <<pc, slots>> /\ pc[r] = "cleanup"
  BY DEF Cleanup, NextCleanup, Popped, AccelTypes
<1>2. leftover' \/ accel' = slots[r][cleanups[r][Len(cleanups[r])]]
  BY DEF Cleanup, NextCleanup
<1>3. slots[r][cleanups[r][1]] = "machine"
  BY <1>1 DEF RunAccel, AbortPutsBack
<1>4. cleanups'[r] = Popped(cleanups[r])
  BY <1>1 DEF AccelTypes
<1>5. CASE Len(cleanups[r]) = 1
  <2>1. cleanups'[r] = <<>>
    BY <1>1, <1>4, <1>5, PopsNewest
  <2>2. leftover' \/ accel' = "machine"
    BY <1>2, <1>3, <1>5
  <2>. QED
    BY <1>1, <2>1, <2>2 DEF RunAccel, Running, AbortPutsBack
<1>6. CASE Len(cleanups[r]) # 1
  <2>1. cleanups'[r] # <<>> /\ cleanups'[r][1] = cleanups[r][1]
    BY <1>1, <1>4, <1>6, PopsNewest
  <2>. QED
    BY <1>1, <1>3, <2>1 DEF RunAccel, Running, AbortPutsBack
<1>. QED
  BY <1>5, <1>6

LEMMA EndAccel ==
  ASSUME IInv, FileInv, AccelTypes, NEW r \in Runs, RunAccel(r),
         FinishAbort(r) \/ DropPending(r) \/ ClearMarker(r) \/ Die(r)
  PROVE  leftover' \/ RunAccel(r)'
<1>1. accel' = accel
  BY DEF FinishAbort, DropPending, ClearMarker, Die, printerVars
<1>2. CASE FinishAbort(r)
  BY <1>1, <1>2, AccelOff DEF FinishAbort, RunAccel, AbortPutsBack
<1>3. CASE ClearMarker(r)
  BY <1>1, <1>3, AtTheEnd, AccelOff DEF ClearMarker
<1>4. CASE Die(r)
  BY <1>1, <1>4, AccelOff DEF Die
<1>5. CASE DropPending(r)
  <2>1. accel = "machine" /\ pc[r] = "complete" /\ pc'[r] = "clear"
    BY <1>5, AtTheEnd, StageIs DEF DropPending
  <2>2. UNCHANGED <<at, plan, slots, cleanups>>
    BY <1>5 DEF DropPending
  <2>3. /\ Recorded(r, "recoveryAccel")' <=> Recorded(r, "recoveryAccel")
        /\ Recorded(r, "accelClamp")' <=> Recorded(r, "accelClamp")
    BY <2>1, <2>2 DEF Recorded, Done
  <2>4. AbortPutsBack(r)' /\ Registered(r)' /\ PlanPutsBack(r)'
    BY <1>1, <2>1, <2>2, <2>3 DEF RunAccel, Running, AbortPutsBack, Registered, PlanPutsBack
  <2>. QED
    BY <2>1, <2>2, <2>4 DEF RunAccel
<1>. QED
  BY <1>2, <1>3, <1>4, <1>5

(* Whatever resets the acceleration resets it to the printer's own. *)
LEMMA WorldAccel ==
  ASSUME NEW r \in Runs, RunAccel(r), UNCHANGED <<pc, at, plan, slots, cleanups>>,
         accel' \in {accel, "machine"}
  PROVE  RunAccel(r)'
<1>1. /\ Recorded(r, "recoveryAccel")' <=> Recorded(r, "recoveryAccel")
      /\ Recorded(r, "accelClamp")' <=> Recorded(r, "accelClamp")
  BY DEF Recorded, Done, Step
<1>2. PlanPutsBack(r) => PlanPutsBack(r)'
  BY <1>1 DEF PlanPutsBack, Later
<1>3. Registered(r) => Registered(r)'
  BY <1>1 DEF Registered
<1>. QED
  BY <1>2, <1>3 DEF RunAccel, Running, AbortPutsBack

LEMMA NextAccel ==
  OneRun /\ IInv /\ FileInv /\ AccelInv /\ [Next]_vars => AccelInv'
<1>. SUFFICES ASSUME OneRun, IInv, FileInv, AccelInv, [Next]_vars
              PROVE  leftover' \/ \A r \in Runs : RunAccel(r)'
  BY NextAccelTypes DEF AccelInv
<1>1. AccelTypes
  BY DEF AccelInv
<1>2. ASSUME NEW r \in Runs, MakePlan(r) \/ FrameGate(r) \/ Execution(r) \/ Die(r)
      PROVE  leftover' \/ \A q \in Runs : RunAccel(q)'
  <2>1. leftover => leftover'
    BY <1>2 DEF MakePlan, FrameGate, Execution, WriteFile, PrinterGate, Pause, Recheck, Arm,
       Compute, Send, ConfirmZ, Reposition, AskPreview, Cleanup, FinishAbort, DropPending,
       ClearMarker, Die, historyVars
  <2>2. RunAccel(r) => leftover' \/ RunAccel(r)'
    BY <1>1, <1>2, PlanAccel, QuietAccel, ComputeAccel, SendAccel, AnswerAccel, CleanupAccel,
       EndAccel DEF Execution
  <2>. QED
    BY <2>1, <2>2 DEF AccelInv, OneRun
<1>3. CASE PowerCut
  BY <1>3 DEF PowerCut, RunAccel, Running
<1>4. CASE RestartKlippy
  <2>1. UNCHANGED <<pc, at, plan, slots, cleanups>> /\ accel' = "machine"
    BY <1>4 DEF RestartKlippy, runVars
  <2>2. CASE \A r \in Runs : pc[r] = "off"
    BY <2>1, <2>2 DEF RunAccel, Running
  <2>3. CASE \E r \in Runs : pc[r] # "off"
    <3>1. leftover => leftover'
      BY <1>4, <2>3 DEF RestartKlippy
    <3>. QED
      BY <2>1, <3>1, WorldAccel DEF AccelInv
  <2>. QED
    BY <2>2, <2>3
<1>5. CASE \/ \E n \in Names : Upload(n)
           \/ DryRun \/ StartForeignJob \/ EndJob \/ UNCHANGED vars
  <2>1. UNCHANGED <<pc, at, plan, accel, slots, cleanups, leftover>>
    BY <1>5 DEF Upload, DryRun, StartForeignJob, EndJob, vars, printerVars, runVars, historyVars
  <2>. QED
    BY <2>1, WorldAccel DEF AccelInv
<1>. QED
  BY <1>2, <1>3, <1>4, <1>5 DEF Next

(* While invocations do not overlap, the printer has its own acceleration  *)
(* back however an execution ends, unless its process died or a cleanup    *)
(* failed: the first value recorded is the printer's, each later phase is  *)
(* put back by the plan, and the cleanups undo newest first.               *)
THEOREM AccelerationIsPutBack == ASSUME OneRun PROVE Spec => []AccelIsPutBack
<1>1. Init => IInv /\ FileInv /\ AccelInv
  BY InitIInv, InitFile, InitAccel
<1>2. IInv /\ FileInv /\ AccelInv /\ [Next]_vars => IInv' /\ FileInv' /\ AccelInv'
  BY OneRun, NextIInv, NextFile, NextAccel
<1>3. AccelInv => AccelIsPutBack
  BY RecoveryAssumption DEF AccelInv, RunAccel, AccelIsPutBack
<1>. QED
  BY <1>1, <1>2, <1>3, PTL DEF Spec
=============================================================================
