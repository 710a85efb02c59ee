------------------------- MODULE ClientSessionProofs -------------------------
(***************************************************************************)
(* What the recorder journals about a session, for any number of prints,   *)
(* restarts, connections, messages in flight and losses: a print is        *)
(* journaled as ended only when it ended, and then always; a print that    *)
(* can be recovered keeps the cadence; an outage is marked; beats are      *)
(* honest.                                                                 *)
(*                                                                         *)
(* The recorder sees the printer through messages that carry what changed  *)
(* since the last one.  The invariant therefore says what a message in     *)
(* flight still means for the printer that has moved on (MessageInv), that *)
(* the queue, read in order, leads from what the recorder knows to what    *)
(* was last sent (ViewInv), and what the recorder's gate is to the print   *)
(* it was opened for (GateInv).                                            *)
(***************************************************************************)
EXTENDS ClientSession, FiniteSetTheorems, SequenceTheorems, TLAPS

Over == {"read", "ended"}
Recoverable == {"running", "failed"}

(* Klipper's own states, and what each says of the newest print.           *)
PrinterInv ==
  /\ InProgress(state) => /\ print # 0 /\ loaded
                          /\ fate[print] = (IF atEnd THEN "read" ELSE "running")
  /\ state = "error" => print # 0 /\ loaded /\ ~atEnd /\ fate[print] = "failed"
  /\ Finished(state) => /\ ~loaded /\ ~atEnd
                        /\ print # 0 => fate[print] \in Over \cup {"killed"}
  /\ active => state = "printing"
  /\ \A p \in 1..(print - 1) : fate[p] \in Over \cup {"killed"}
  /\ \A p \in Prints : print < p => fate[p] = "none"

-----------------------------------------------------------------------------
(* Messages in flight. *)

IsStatus(m) == m.type = "status"
Running(m) == IsStatus(m) /\ InProgress(m.now.state)
Closing(m) == IsStatus(m) /\ (Finished(m.now.state) \/ m.now.atEnd)

SnapshotOK(s) ==
  /\ InProgress(s.state) => s.loaded
  /\ Finished(s.state) => ~s.loaded /\ ~s.atEnd
  /\ s.state = "error" => s.loaded /\ ~s.atEnd
  /\ s.active => s.state = "printing"

MessageOK(m) ==
  /\ open => m.clock = instance
  /\ ~IsStatus(m) => m.keys = {}
  /\ IsStatus(m) =>
       /\ SnapshotOK(m.now)
       /\ seen <= m.print /\ m.print <= print
       /\ InProgress(m.now.state) => m.print # 0
       /\ Finished(m.now.state) => \A p \in 1..m.print : fate[p] \notin Recoverable

(* A connection in setup has received nothing; its first message is the    *)
(* full status.                                                            *)
InSession == phase \in {"subscribed", "dumps", "live"}

MessageInv ==
  /\ ~InSession => inbox = <<>>
  /\ phase = "subscribed" => Len(inbox) > 0
  /\ \A i \in 1..Len(inbox) : MessageOK(inbox[i])
  /\ \A i, j \in 1..Len(inbox) :
       i < j /\ IsStatus(inbox[i]) /\ IsStatus(inbox[j]) => inbox[i].print <= inbox[j].print

(* No status lies between the places i and j of the queue.                 *)
NoneBetween(i, j) == \A l \in 1..Len(inbox) : i < l /\ l < j => ~IsStatus(inbox[l])

ViewInv ==
  InSession /\ ~missed =>
    /\ \A j \in 1..Len(inbox) : IsStatus(inbox[j]) =>
         \A k \in FileKeys \ inbox[j].keys :
           /\ NoneBetween(0, j) => known[k] = inbox[j].now[k]
           /\ \A i \in 1..Len(inbox) :
                i < j /\ IsStatus(inbox[i]) /\ NoneBetween(i, j) => inbox[i].now[k] = inbox[j].now[k]
    /\ \A k \in FileKeys :
         /\ NoneBetween(0, Len(inbox) + 1) => known[k] = lastSent[k]
         /\ \A i \in 1..Len(inbox) :
              IsStatus(inbox[i]) /\ NoneBetween(i, Len(inbox) + 1) => inbox[i].now[k] = lastSent[k]

-----------------------------------------------------------------------------
(* The recorder's gate and the print it was opened for. *)

GateInv ==
  /\ seen <= print
  /\ gate => seen # 0 /\ recActive
  /\ known.active => seen # 0
  /\ ~gate /\ seen # 0 => seen \in closed /\ fate[seen] \notin Recoverable
  /\ ~missed => (gate => known.loaded) /\ (known.active => gate)

QuietInv ==
  /\ evaluated /\ ~recActive => explained
  /\ beats # NoSample /\ ~beats.active => explained

(* What a session that was not interrupted in setup starts from, and what  *)
(* belongs to it.                                                          *)
SessionInv ==
  /\ setupFailures = 0 =>
       /\ ~InSession \/ phase = "subscribed" => seen = 0 /\ est = NoSample /\ sources = {}
       /\ open /\ est # NoSample => est = instance
       /\ sources \subseteq {conn}
  /\ lost = 0 => ~missed
  /\ tailLost => lostBefore
  /\ phase = "live" => ~tailLost

(* A print of this session was not killed while the session lasts; and     *)
(* what a message reports as over is over for every print before it.       *)
HonestInv ==
  setupFailures = 0 /\ lost = 0 =>
    /\ OnlyEndsAreClosed
    /\ open => /\ seen # 0 => fate[seen] # "killed"
               /\ \A i \in 1..Len(inbox) : Running(inbox[i]) => fate[inbox[i].print] # "killed"
    /\ \A j \in 1..Len(inbox) : Closing(inbox[j]) =>
         /\ seen # 0 => fate[seen] \in Over
         /\ \A i \in 1..j : Running(inbox[i]) => fate[inbox[i].print] \in Over

IInv ==
  /\ TypeOK /\ PrinterInv /\ MessageInv /\ ViewInv
  /\ GateInv /\ QuietInv /\ SessionInv /\ HonestInv

-----------------------------------------------------------------------------
(* Types and the queue. *)

LEMMA StatusTypes ==
  ASSUME TypeOK, NEW keys \in SUBSET Keys
  PROVE  /\ Snapshot \in Snapshots
         /\ Status(keys) \in Messages /\ IsStatus(Status(keys))
         /\ Status(keys).keys = keys /\ Status(keys).now = Snapshot
         /\ Status(keys).clock = instance /\ Status(keys).print = print
BY DEF TypeOK, PrinterTypeOK, Snapshot, Snapshots, Status, Messages, IsStatus

LEMMA MotionTypes ==
  ASSUME TypeOK
  PROVE  /\ Motion \in Messages /\ ~IsStatus(Motion)
         /\ Motion.keys = {} /\ Motion.clock = instance
BY SessionAssumption, PrinterAssumption
   DEF TypeOK, PrinterTypeOK, Motion, Nothing, Messages, Snapshots, States, IsStatus

LEMMA MessageFields ==
  ASSUME NEW m \in Messages
  PROVE  /\ m.keys \subseteq Keys /\ m.now \in Snapshots
         /\ m.now.state \in States /\ m.now.loaded \in BOOLEAN /\ m.now.active \in BOOLEAN
         /\ m.now.atEnd \in BOOLEAN /\ m.print \in 0..MaxPrints /\ m.clock \in 0..MaxRestarts
BY DEF Messages, Snapshots

LEMMA QueueFacts ==
  ASSUME TypeOK
  PROVE  /\ Len(inbox) \in Nat
         /\ \A i \in 1..Len(inbox) : inbox[i] \in Messages
         /\ inbox # <<>> =>
              /\ Len(inbox) > 0 /\ Head(inbox) = inbox[1] /\ Head(inbox) \in Messages
              /\ Tail(inbox) \in Seq(Messages) /\ Len(Tail(inbox)) = Len(inbox) - 1
              /\ \A i \in 1..Len(Tail(inbox)) : Tail(inbox)[i] = inbox[i + 1]
<1>1. inbox \in Seq(Messages)
  BY DEF TypeOK
<1>2. Len(inbox) \in Nat /\ \A i \in 1..Len(inbox) : inbox[i] \in Messages
  BY <1>1
<1>3. CASE inbox # <<>>
  BY <1>1, <1>2, <1>3, HeadTailProperties, EmptySeq
<1>. QED
  BY <1>2, <1>3

LEMMA AppendFacts ==
  ASSUME TypeOK, NEW m \in Messages
  PROVE  /\ Append(inbox, m) \in Seq(Messages)
         /\ Len(Append(inbox, m)) = Len(inbox) + 1 /\ Len(inbox) \in Nat
         /\ Append(inbox, m)[Len(inbox) + 1] = m
         /\ \A i \in 1..Len(inbox) : Append(inbox, m)[i] = inbox[i]
BY AppendProperties DEF TypeOK

-----------------------------------------------------------------------------
(* The printer. *)

LEMMA PrinterStepTypes ==
  ASSUME PrinterTypeOK, PrinterStep \/ Restart PROVE PrinterTypeOK'
<1>1. CASE StartPrint
  <2>1. fate' \in [Prints -> Fates]
    BY <1>1 DEF StartPrint, PrinterTypeOK, Fates
  <2>2. instance' \in 0..MaxRestarts /\ print' \in 0..MaxPrints
    BY <1>1, PrinterAssumption DEF StartPrint, PrinterTypeOK
  <2>. QED
    BY <1>1, <2>1, <2>2 DEF StartPrint, Becomes, PrinterTypeOK, States
<1>2. CASE ReadToEnd \/ PausePrint \/ ResumePrint \/ FailPrint
  BY <1>2, PrinterAssumption
     DEF ReadToEnd, PausePrint, ResumePrint, FailPrint, Becomes, Fate, PrinterTypeOK, States, Fates
<1>3. CASE CompletePrint \/ CancelPrint \/ ResetFile
  BY <1>3, PrinterAssumption
     DEF CompletePrint, CancelPrint, ResetFile, EndPrint, Becomes, Fate, PrinterTypeOK, States, Fates
<1>4. CASE Restart
  <2>1. fate' \in [Prints -> Fates]
    BY <1>4 DEF Restart, PrinterTypeOK, Fates
  <2>2. instance' \in 0..MaxRestarts /\ print' \in 0..MaxPrints
    BY <1>4, PrinterAssumption DEF Restart, PrinterTypeOK
  <2>. QED
    BY <1>4, <2>1, <2>2 DEF Restart, Becomes, PrinterTypeOK, States
<1>. QED
  BY <1>1, <1>2, <1>3, <1>4 DEF PrinterStep

LEMMA PrinterStepInv ==
  ASSUME PrinterTypeOK, PrinterInv, PrinterStep \/ Restart PROVE PrinterInv'
<1>. USE PrinterAssumption DEF PrinterTypeOK, PrinterInv, Becomes, InProgress, Finished, Over, Prints, States
<1>1. CASE StartPrint
  BY <1>1 DEF StartPrint
<1>2. CASE ReadToEnd
  BY <1>2 DEF ReadToEnd, Fate
<1>3. CASE PausePrint \/ ResumePrint
  BY <1>3 DEF PausePrint, ResumePrint
<1>4. CASE FailPrint
  BY <1>4 DEF FailPrint, Fate
<1>5. CASE CompletePrint \/ CancelPrint \/ ResetFile
  BY <1>5 DEF CompletePrint, CancelPrint, ResetFile, EndPrint, Fate
<1>6. CASE Restart
  BY <1>6 DEF Restart
<1>. QED
  BY <1>1, <1>2, <1>3, <1>4, <1>5, <1>6 DEF PrinterStep

(* What is over stays over; only a restart kills.                          *)
LEMMA FateStep ==
  ASSUME PrinterTypeOK, PrinterInv, PrinterStep \/ Restart
  PROVE  /\ print \in Nat /\ print' \in Nat /\ print <= print' /\ print' <= MaxPrints
         /\ \A p \in Prints : fate[p] \in Over => fate'[p] \in Over
         /\ \A p \in 1..print : fate[p] \notin Recoverable => fate'[p] \notin Recoverable
         /\ PrinterStep => /\ instance' = instance
                           /\ \A p \in Prints : fate'[p] = "killed" => fate[p] = "killed"
<1>1. print \in Nat /\ print' \in Nat /\ print <= print' /\ print' <= MaxPrints
  <2>1. print' = print \/ (print' = print + 1 /\ print < MaxPrints)
    BY DEF PrinterStep, StartPrint, ReadToEnd, PausePrint, ResumePrint, FailPrint,
           CompletePrint, CancelPrint, ResetFile, EndPrint, Restart
  <2>. QED
    BY <2>1, PrinterAssumption DEF PrinterTypeOK
<1>2. 1..print \subseteq Prints
  BY PrinterAssumption DEF PrinterTypeOK, Prints
<1>3. CASE StartPrint
  <2>1. \A p \in Prints : fate'[p] = fate[p] \/ p = print + 1
                           \/ (fate[p] = "failed" /\ fate'[p] = "ended")
    BY <1>3 DEF StartPrint, PrinterTypeOK
  <2>2. \A p \in Prints : p = print + 1 => fate'[p] = "running"
    BY <1>3 DEF StartPrint
  <2>3. \A p \in Prints : p = print + 1 => fate[p] \notin Over
    BY <1>1 DEF PrinterInv, Over
  <2>. QED
    BY <1>1, <1>2, <1>3, <2>1, <2>2, <2>3 DEF StartPrint, Over, Recoverable
<1>4. CASE ReadToEnd \/ FailPrint
  <2>1. fate[print] = "running" /\ instance' = instance /\ fate \in [Prints -> Fates]
    BY <1>4 DEF ReadToEnd, FailPrint, PrinterInv, InProgress, PrinterTypeOK
  <2>2. \A p \in Prints : fate'[p] = IF p = print THEN fate'[print] ELSE fate[p]
    BY <1>4 DEF ReadToEnd, FailPrint, Fate
  <2>3. \A p \in Prints : p = print => fate'[p] \in {"read", "failed"}
    BY <1>4 DEF ReadToEnd, FailPrint, Fate
  <2>. QED
    BY <1>1, <1>2, <2>1, <2>2, <2>3 DEF Over, Recoverable
<1>5. CASE PausePrint \/ ResumePrint
  BY <1>1, <1>5 DEF PausePrint, ResumePrint
<1>6. CASE CompletePrint \/ CancelPrint \/ ResetFile
  BY <1>1, <1>2, <1>6 DEF CompletePrint, CancelPrint, ResetFile, EndPrint, Fate, Over, Recoverable
<1>7. CASE Restart
  <2>1. instance' # instance
    BY <1>7 DEF Restart, PrinterTypeOK
  <2>2. ~PrinterStep
    BY <2>1 DEF PrinterStep, StartPrint, ReadToEnd, PausePrint, ResumePrint, FailPrint,
                CompletePrint, CancelPrint, ResetFile, EndPrint
  <2>. QED
    BY <1>1, <1>2, <1>7, <2>2 DEF Restart, Over, Recoverable
<1>. QED
  BY <1>3, <1>4, <1>5, <1>6, <1>7 DEF PrinterStep

-----------------------------------------------------------------------------
(* The world moves on under the messages in flight. *)

LEMMA WorldStep == ASSUME IInv, PrinterMoves \/ KlippyRestarts PROVE IInv'
<1>1. /\ PrinterStep \/ Restart
      /\ open' => open /\ PrinterStep
      /\ open' \in BOOLEAN
      /\ UNCHANGED <<lastSent, inbox, clientVars, recorderVars, journalVars, countVars>>
  <2>1. CASE PrinterMoves
    BY <2>1 DEF PrinterMoves, linkVars, IInv, TypeOK
  <2>2. CASE KlippyRestarts
    BY <2>2 DEF KlippyRestarts
  <2>. QED
    BY <2>1, <2>2
<1>2. PrinterTypeOK /\ PrinterInv /\ PrinterTypeOK' /\ PrinterInv'
  BY <1>1, PrinterStepTypes, PrinterStepInv DEF IInv, TypeOK
<1>3. /\ print \in Nat /\ print' \in Nat /\ print <= print' /\ print' <= MaxPrints
      /\ \A p \in Prints : fate[p] \in Over => fate'[p] \in Over
      /\ \A p \in 1..print : fate[p] \notin Recoverable => fate'[p] \notin Recoverable
      /\ PrinterStep => /\ instance' = instance
                        /\ \A p \in Prints : fate'[p] = "killed" => fate[p] = "killed"
  BY <1>1, <1>2, FateStep
<1>4. TypeOK'
  <2>1. /\ UNCHANGED <<stats, phase, lostBefore, conn, lastSent, inbox>>
        /\ UNCHANGED <<gate, known, recent, recActive, evaluated, est>>
        /\ UNCHANGED <<beats, closed, seen, missed, explained, sources, tailLost>>
        /\ UNCHANGED <<lost, drops, setupFailures>>
    BY <1>1 DEF clientVars, recorderVars, journalVars, countVars
  <2>. QED
    BY <1>1, <1>2, <2>1 DEF IInv, TypeOK
<1>. USE <1>1 DEF clientVars, recorderVars, journalVars, countVars
<1>5. /\ seen \in Nat /\ seen <= print
      /\ \A i \in 1..Len(inbox) : inbox[i].print \in Nat
  BY QueueFacts, MessageFields DEF IInv, TypeOK, GateInv
<1>6. MessageInv'
  <2>1. ASSUME NEW i \in 1..Len(inbox) PROVE MessageOK(inbox[i])'
    <3>1. MessageOK(inbox[i])
      BY DEF IInv, MessageInv
    <3>2. open' => inbox[i].clock = instance'
      BY <1>3, <3>1 DEF MessageOK
    <3>3. IsStatus(inbox[i]) => inbox[i].print <= print'
      BY <1>3, <1>5, <3>1 DEF MessageOK
    <3>4. IsStatus(inbox[i]) /\ Finished(inbox[i].now.state) =>
            \A p \in 1..inbox[i].print : fate'[p] \notin Recoverable
      BY <1>3, <1>5, <3>1 DEF MessageOK
    <3>. QED
      BY <3>1, <3>2, <3>3, <3>4 DEF MessageOK, IsStatus, SnapshotOK
  <2>. QED
    BY <2>1 DEF IInv, MessageInv, InSession, IsStatus
<1>7. ViewInv'
  BY DEF IInv, ViewInv, InSession, IsStatus, NoneBetween
<1>8. GateInv'
  BY <1>3, <1>5 DEF IInv, GateInv
<1>9. QuietInv' /\ SessionInv'
  BY <1>3 DEF IInv, QuietInv, SessionInv, InSession
<1>10. HonestInv'
  <2>. SUFFICES ASSUME setupFailures = 0, lost = 0 PROVE HonestInv'
    BY DEF HonestInv
  <2>1. 1..print \subseteq Prints
    BY <1>3, PrinterAssumption DEF Prints
  <2>2. OnlyEndsAreClosed'
    BY <1>3 DEF IInv, HonestInv, OnlyEndsAreClosed, Over
  <2>3. seen # 0 => seen \in Prints
    BY <1>5, <2>1
  <2>4. \A i \in 1..Len(inbox) : Running(inbox[i]) => inbox[i].print \in Prints
    BY <1>3, <1>5, <2>1 DEF IInv, MessageInv, MessageOK, Running
  <2>5. open' => /\ seen # 0 => fate'[seen] # "killed"
                 /\ \A i \in 1..Len(inbox) : Running(inbox[i]) => fate'[inbox[i].print] # "killed"
    BY <1>3, <2>3, <2>4 DEF IInv, HonestInv
  <2>6. \A j \in 1..Len(inbox) : Closing(inbox[j]) =>
          /\ seen # 0 => fate'[seen] \in Over
          /\ \A i \in 1..j : Running(inbox[i]) => fate'[inbox[i].print] \in Over
    BY <1>3, <2>3, <2>4, QueueFacts DEF IInv, HonestInv
  <2>. QED
    BY <2>2, <2>5, <2>6 DEF HonestInv, Running, Closing, IsStatus
<1>. QED
  BY <1>2, <1>4, <1>6, <1>7, <1>8, <1>9, <1>10 DEF IInv

-----------------------------------------------------------------------------
(* Klipper sends a message. *)

LEMMA SendFacts ==
  ASSUME IInv, NEW m \in Messages, SendMessage(m)
  PROVE  /\ inbox' \in Seq(Messages) /\ Len(inbox) \in Nat /\ Len(inbox') = Len(inbox) + 1
         /\ inbox'[Len(inbox) + 1] = m /\ \A i \in 1..Len(inbox) : inbox'[i] = inbox[i]
         /\ \A i \in 1..Len(inbox') : i \in 1..Len(inbox) \/ i = Len(inbox) + 1
         /\ InSession /\ open
         /\ UNCHANGED <<instance, print, state, loaded, active, atEnd, fate, open>>
         /\ UNCHANGED <<stats, phase, lostBefore, conn>>
         /\ UNCHANGED <<gate, known, recent, recActive, evaluated, est>>
         /\ UNCHANGED <<beats, closed, seen, missed, explained, sources, tailLost>>
         /\ UNCHANGED <<lost, drops, setupFailures>>
<1>1. inbox' = Append(inbox, m) /\ TypeOK
  BY DEF SendMessage, IInv
<1>2. /\ inbox' \in Seq(Messages) /\ Len(inbox) \in Nat /\ Len(inbox') = Len(inbox) + 1
      /\ inbox'[Len(inbox) + 1] = m /\ \A i \in 1..Len(inbox) : inbox'[i] = inbox[i]
  BY <1>1, AppendFacts
<1>3. \A i \in 1..Len(inbox') : i \in 1..Len(inbox) \/ i = Len(inbox) + 1
  BY <1>2
<1>4. InSession /\ open
  BY DEF SendMessage, InSession
<1>5. /\ UNCHANGED <<instance, print, state, loaded, active, atEnd, fate, open>>
      /\ UNCHANGED <<stats, phase, lostBefore, conn>>
      /\ UNCHANGED <<gate, known, recent, recActive, evaluated, est>>
      /\ UNCHANGED <<beats, closed, seen, missed, explained, sources, tailLost>>
      /\ UNCHANGED <<lost, drops, setupFailures>>
  BY DEF SendMessage, printerVars, clientVars, recorderVars, journalVars, countVars
<1>. QED
  BY <1>2, <1>3, <1>4, <1>5

(* What a snapshot of the printer says of the prints so far.               *)
LEMMA SnapshotFacts ==
  ASSUME IInv
  PROVE  /\ SnapshotOK(Snapshot) /\ print \in Nat
         /\ InProgress(state) => print # 0 /\ fate[print] # "killed"
         /\ Finished(state) => \A p \in 1..print : fate[p] \notin Recoverable
         /\ Finished(state) \/ atEnd =>
              \A p \in 1..print : fate[p] # "killed" => fate[p] \in Over
<1>. USE DEF IInv, TypeOK, PrinterTypeOK, PrinterInv, Over, Recoverable
<1>1. print \in Nat /\ state \in States /\ atEnd \in BOOLEAN
  BY PrinterAssumption
<1>2. SnapshotOK(Snapshot)
  BY DEF SnapshotOK, Snapshot
<1>3. \A p \in 1..print : p \in 1..(print - 1) \/ p = print
  BY <1>1
<1>4. Finished(state) => \A p \in 1..print : fate[p] \in Over \cup {"killed"}
  BY <1>1, <1>3
<1>5. atEnd => InProgress(state)
  BY <1>1 DEF InProgress, Finished, States
<1>6. atEnd => \A p \in 1..print : fate[p] \in Over \cup {"killed"}
  BY <1>1, <1>3, <1>5
<1>. QED
  BY <1>1, <1>2, <1>4, <1>5, <1>6

LEMMA MoveStep == ASSUME IInv, Move PROVE IInv'
<1>0. PICK n \in Nat : n = Len(inbox)
  BY QueueFacts DEF IInv
<1>1. /\ Motion \in Messages /\ ~IsStatus(Motion) /\ Motion.keys = {} /\ Motion.clock = instance
      /\ SendMessage(Motion) /\ lastSent' = lastSent
  BY MotionTypes DEF IInv, Move
<1>2. /\ inbox' \in Seq(Messages) /\ n \in Nat /\ Len(inbox') = n + 1
      /\ inbox'[n + 1] = Motion /\ \A i \in 1..n : inbox'[i] = inbox[i]
      /\ \A i \in 1..Len(inbox') : i \in 1..n \/ i = n + 1
      /\ InSession /\ open
  BY <1>0, <1>1, SendFacts
<1>3. /\ UNCHANGED <<instance, print, state, loaded, active, atEnd, fate, open>>
      /\ UNCHANGED <<stats, phase, lostBefore, conn>>
      /\ UNCHANGED <<gate, known, recent, recActive, evaluated, est>>
      /\ UNCHANGED <<beats, closed, seen, missed, explained, sources, tailLost>>
      /\ UNCHANGED <<lost, drops, setupFailures>>
  BY <1>1, SendFacts
<1>4. TypeOK' /\ PrinterInv'
  BY <1>1, <1>2, <1>3 DEF IInv, TypeOK, PrinterTypeOK, PrinterInv
<1>5. MessageInv'
  <2>1. \A i \in 1..n : MessageOK(inbox[i])'
    BY <1>0, <1>2, <1>3 DEF IInv, MessageInv, MessageOK, IsStatus, SnapshotOK
  <2>2. MessageOK(inbox[n + 1])'
    BY <1>1, <1>2, <1>3 DEF MessageOK, IsStatus
  <2>3. \A i, j \in 1..Len(inbox') :
          i < j /\ IsStatus(inbox'[i]) /\ IsStatus(inbox'[j]) => inbox'[i].print <= inbox'[j].print
    BY <1>0, <1>1, <1>2 DEF IInv, MessageInv
  <2>4. Len(inbox') > 0
    BY <1>2
  <2>. QED
    BY <1>2, <1>3, <2>1, <2>2, <2>3, <2>4 DEF MessageInv, InSession, IsStatus, MessageOK
<1>6. ViewInv'
  <2>. SUFFICES ASSUME ~missed PROVE ViewInv'
    BY <1>3 DEF ViewInv
  <2>1. \A i \in 0..n, j \in 1..n : NoneBetween(i, j)' => NoneBetween(i, j)
    BY <1>0, <1>2 DEF NoneBetween, IsStatus
  <2>2. \A i \in 0..n : NoneBetween(i, n + 2)' => NoneBetween(i, n + 1)
    BY <1>0, <1>2 DEF NoneBetween, IsStatus
  <2>3. ASSUME NEW j \in 1..Len(inbox'), IsStatus(inbox'[j]), NEW k \in FileKeys \ inbox'[j].keys
        PROVE  /\ NoneBetween(0, j)' => known[k] = inbox'[j].now[k]
               /\ \A i \in 1..Len(inbox') :
                    i < j /\ IsStatus(inbox'[i]) /\ NoneBetween(i, j)' =>
                      inbox'[i].now[k] = inbox'[j].now[k]
    <3>1. j \in 1..n
      BY <1>1, <1>2, <2>3
    <3>2. \A i \in 1..Len(inbox') : i < j => i \in 1..n
      BY <1>2, <3>1
    <3>. QED
      BY <1>0, <1>2, <2>1, <2>3, <3>1, <3>2 DEF IInv, ViewInv
  <2>4. ASSUME NEW k \in FileKeys
        PROVE  /\ NoneBetween(0, n + 2)' => known[k] = lastSent[k]
               /\ \A i \in 1..Len(inbox') :
                    IsStatus(inbox'[i]) /\ NoneBetween(i, n + 2)' => inbox'[i].now[k] = lastSent[k]
    BY <1>0, <1>1, <1>2, <2>2 DEF IInv, ViewInv
  <2>5. Len(inbox') + 1 = n + 2
    BY <1>2
  <2>. QED
    BY <1>1, <1>3, <2>3, <2>4, <2>5 DEF ViewInv, IsStatus
<1>7. GateInv' /\ QuietInv' /\ SessionInv'
  BY <1>3 DEF IInv, GateInv, QuietInv, SessionInv, InSession
<1>8. HonestInv'
  <2>. SUFFICES ASSUME setupFailures = 0, lost = 0 PROVE HonestInv'
    BY <1>3 DEF HonestInv
  <2>1. \A i \in 1..Len(inbox') : IsStatus(inbox'[i]) => i \in 1..n /\ inbox'[i] = inbox[i]
    BY <1>1, <1>2
  <2>2. \A i \in 1..Len(inbox') : Running(inbox'[i]) => fate[inbox'[i].print] # "killed"
    BY <1>0, <1>2, <2>1 DEF IInv, HonestInv, Running
  <2>3. \A j \in 1..Len(inbox') : Closing(inbox'[j]) =>
          /\ seen # 0 => fate[seen] \in Over
          /\ \A i \in 1..j : Running(inbox'[i]) => fate[inbox'[i].print] \in Over
    <3>1. \A j \in 1..n : \A i \in 1..j : i \in 1..n
      BY <1>2
    <3>2. \A j \in 1..Len(inbox') : Closing(inbox'[j]) => j \in 1..n /\ Closing(inbox[j])
      BY <2>1 DEF Closing
    <3>. QED
      BY <1>0, <1>2, <3>1, <3>2 DEF IInv, HonestInv
  <2>4. OnlyEndsAreClosed'
    BY <1>3 DEF IInv, HonestInv, OnlyEndsAreClosed
  <2>5. \A i \in 1..Len(inbox') : /\ Running(inbox[i])' <=> Running(inbox'[i])
                                  /\ Closing(inbox[i])' <=> Closing(inbox'[i])
    BY DEF Running, Closing, IsStatus
  <2>6. \A j \in 1..Len(inbox') : \A i \in 1..j : i \in 1..Len(inbox')
    BY <1>2
  <2>7. open /\ seen # 0 => fate[seen] # "killed"
    BY DEF IInv, HonestInv
  <2>. QED
    BY <1>3, <2>2, <2>3, <2>4, <2>5, <2>6, <2>7 DEF HonestInv
<1>. QED
  BY <1>4, <1>5, <1>6, <1>7, <1>8 DEF IInv

LEMMA SampleStep == ASSUME IInv, Sample PROVE IInv'
<1>. DEFINE keys == {k \in Keys : Snapshot[k] # lastSent[k]}
            m == Status(keys)
<1>0. PICK n \in Nat : n = Len(inbox)
  BY QueueFacts DEF IInv
<1>1. /\ m \in Messages /\ IsStatus(m) /\ m.now = Snapshot /\ m.print = print
      /\ m.clock = instance /\ Snapshot \in Snapshots
      /\ \A k \in FileKeys \ m.keys : Snapshot[k] = lastSent[k]
  <2>1. keys \in SUBSET Keys
    OBVIOUS
  <2>2. \A k \in FileKeys \ keys : Snapshot[k] = lastSent[k]
    BY DEF Keys
  <2>. HIDE DEF keys
  <2>. QED
    BY <2>1, <2>2, StatusTypes DEF IInv
<1>2. SendMessage(m) /\ lastSent' = Snapshot
  BY DEF Sample
<1>. HIDE DEF m
<1>3. /\ inbox' \in Seq(Messages) /\ n \in Nat /\ Len(inbox') = n + 1
      /\ inbox'[n + 1] = m /\ \A i \in 1..n : inbox'[i] = inbox[i]
      /\ \A i \in 1..Len(inbox') : i \in 1..n \/ i = n + 1
      /\ InSession /\ open
  BY <1>0, <1>1, <1>2, SendFacts
<1>4. /\ UNCHANGED <<instance, print, state, loaded, active, atEnd, fate, open>>
      /\ UNCHANGED <<stats, phase, lostBefore, conn>>
      /\ UNCHANGED <<gate, known, recent, recActive, evaluated, est>>
      /\ UNCHANGED <<beats, closed, seen, missed, explained, sources, tailLost>>
      /\ UNCHANGED <<lost, drops, setupFailures>>
  BY <1>1, <1>2, SendFacts
<1>5. TypeOK' /\ PrinterInv'
  BY <1>1, <1>2, <1>3, <1>4 DEF IInv, TypeOK, PrinterTypeOK, PrinterInv
<1>6. /\ SnapshotOK(Snapshot) /\ print \in Nat
      /\ Snapshot.state = state /\ Snapshot.atEnd = atEnd
      /\ InProgress(state) => print # 0 /\ fate[print] # "killed"
      /\ Finished(state) => \A p \in 1..print : fate[p] \notin Recoverable
      /\ Finished(state) \/ atEnd =>
           \A p \in 1..print : fate[p] # "killed" => fate[p] \in Over
  BY SnapshotFacts DEF Snapshot
<1>7. /\ seen \in Nat /\ seen <= print
      /\ \A i \in 1..n : IsStatus(inbox[i]) =>
           /\ inbox[i].print \in Nat /\ inbox[i].print <= print
           /\ Running(inbox[i]) => inbox[i].print # 0
  BY <1>0, QueueFacts, MessageFields DEF IInv, TypeOK, GateInv, MessageInv, MessageOK, Running
<1>8. MessageInv'
  <2>1. \A i \in 1..n : MessageOK(inbox[i])'
    BY <1>0, <1>3, <1>4 DEF IInv, MessageInv, MessageOK, IsStatus, SnapshotOK
  <2>2. MessageOK(m)
    BY <1>1, <1>6, <1>7 DEF MessageOK
  <2>3. MessageOK(inbox[n + 1])'
    BY <1>3, <1>4, <2>2 DEF MessageOK, IsStatus, SnapshotOK
  <2>4. \A i, j \in 1..Len(inbox') :
          i < j /\ IsStatus(inbox'[i]) /\ IsStatus(inbox'[j]) => inbox'[i].print <= inbox'[j].print
    BY <1>0, <1>1, <1>3, <1>7 DEF IInv, MessageInv
  <2>5. Len(inbox') > 0
    BY <1>3
  <2>. QED
    BY <1>3, <1>4, <2>1, <2>3, <2>4, <2>5 DEF MessageInv, InSession, IsStatus, MessageOK
<1>9. ViewInv'
  <2>. SUFFICES ASSUME ~missed PROVE ViewInv'
    BY <1>4 DEF ViewInv
  <2>1. \A i \in 0..n, j \in 1..(n + 1) : NoneBetween(i, j)' => NoneBetween(i, j)
    BY <1>0, <1>3 DEF NoneBetween, IsStatus
  <2>2. \A i \in 0..n : ~NoneBetween(i, n + 2)'
    BY <1>0, <1>1, <1>3 DEF NoneBetween, IsStatus
  <2>3. ASSUME NEW j \in 1..Len(inbox'), IsStatus(inbox'[j]), NEW k \in FileKeys \ inbox'[j].keys
        PROVE  /\ NoneBetween(0, j)' => known[k] = inbox'[j].now[k]
               /\ \A i \in 1..Len(inbox') :
                    i < j /\ IsStatus(inbox'[i]) /\ NoneBetween(i, j)' =>
                      inbox'[i].now[k] = inbox'[j].now[k]
    <3>1. CASE j \in 1..n
      <4>1. \A i \in 1..Len(inbox') : i < j => i \in 1..n
        BY <1>3, <3>1
      <4>. QED
        BY <1>0, <1>3, <2>1, <2>3, <3>1, <4>1 DEF IInv, ViewInv
    <3>2. CASE j = n + 1
      <4>1. \A i \in 1..Len(inbox') : i < j => i \in 1..n
        BY <1>3, <3>2
      <4>2. inbox'[j] = m /\ lastSent[k] = inbox'[j].now[k]
        BY <1>1, <1>3, <2>3, <3>2
      <4>. QED
        BY <1>0, <1>3, <2>1, <2>3, <3>2, <4>1, <4>2 DEF IInv, ViewInv
    <3>. QED
      BY <1>3, <3>1, <3>2
  <2>4. ASSUME NEW k \in FileKeys
        PROVE  /\ NoneBetween(0, n + 2)' => known[k] = Snapshot[k]
               /\ \A i \in 1..Len(inbox') :
                    IsStatus(inbox'[i]) /\ NoneBetween(i, n + 2)' => inbox'[i].now[k] = Snapshot[k]
    BY <1>1, <1>3, <2>2
  <2>5. Len(inbox') + 1 = n + 2
    BY <1>3
  <2>. QED
    BY <1>2, <1>4, <2>3, <2>4, <2>5 DEF ViewInv, IsStatus
<1>10. GateInv' /\ QuietInv' /\ SessionInv'
  BY <1>4 DEF IInv, GateInv, QuietInv, SessionInv, InSession
<1>11. HonestInv'
  <2>. SUFFICES ASSUME setupFailures = 0, lost = 0 PROVE HonestInv'
    BY <1>4 DEF HonestInv
  <2>1. /\ seen # 0 => fate[seen] # "killed"
        /\ \A i \in 1..n : Running(inbox[i]) => fate[inbox[i].print] # "killed"
        /\ Running(m) => m.print # 0 /\ fate[m.print] # "killed"
    BY <1>0, <1>1, <1>3, <1>6 DEF IInv, HonestInv, Running
  <2>2. \A i \in 1..Len(inbox') : Running(inbox'[i]) => fate[inbox'[i].print] # "killed"
    BY <1>3, <2>1
  <2>3. Closing(m) => \A p \in 1..print : fate[p] # "killed" => fate[p] \in Over
    BY <1>1, <1>6 DEF Closing
  <2>4. seen # 0 => seen \in 1..print
    BY <1>6, <1>7
  <2>5. \A i \in 1..Len(inbox') : Running(inbox'[i]) => inbox'[i].print \in 1..print
    BY <1>1, <1>3, <1>6, <1>7, <2>1 DEF Running
  <2>6. ASSUME NEW j \in 1..Len(inbox'), Closing(inbox'[j])
        PROVE  /\ seen # 0 => fate[seen] \in Over
               /\ \A i \in 1..j : Running(inbox'[i]) => fate[inbox'[i].print] \in Over
    <3>1. CASE j \in 1..n
      <4>1. \A i \in 1..j : i \in 1..n
        BY <1>3, <3>1
      <4>. QED
        BY <1>0, <1>3, <2>6, <3>1, <4>1 DEF IInv, HonestInv
    <3>2. CASE j = n + 1
      <4>1. \A i \in 1..j : i \in 1..Len(inbox')
        BY <1>3, <3>2
      <4>. QED
        BY <1>3, <2>1, <2>2, <2>3, <2>4, <2>5, <2>6, <3>2, <4>1
    <3>. QED
      BY <1>3, <3>1, <3>2
  <2>7. OnlyEndsAreClosed'
    BY <1>4 DEF IInv, HonestInv, OnlyEndsAreClosed
  <2>8. \A i \in 1..Len(inbox') : /\ Running(inbox[i])' <=> Running(inbox'[i])
                                  /\ Closing(inbox[i])' <=> Closing(inbox'[i])
    BY DEF Running, Closing, IsStatus
  <2>9. \A j \in 1..Len(inbox') : \A i \in 1..j : i \in 1..Len(inbox')
    BY <1>3
  <2>. QED
    BY <1>4, <2>1, <2>2, <2>6, <2>7, <2>8, <2>9 DEF HonestInv
<1>. QED
  BY <1>5, <1>8, <1>9, <1>10, <1>11 DEF IInv

-----------------------------------------------------------------------------
(* A message is taken off the queue. *)

LEMMA ShiftFacts ==
  ASSUME IInv, inbox # <<>>, inbox' = Tail(inbox), phase' = AfterMessage
  PROVE  /\ inbox' \in Seq(Messages) /\ Len(inbox) \in Nat /\ Len(inbox') = Len(inbox) - 1
         /\ inbox[1] = Head(inbox) /\ 1 \in 1..Len(inbox)
         /\ Head(inbox) \in Messages /\ MessageOK(Head(inbox))
         /\ \A i \in 1..Len(inbox') : inbox'[i] = inbox[i + 1] /\ i + 1 \in 1..Len(inbox)
         /\ InSession /\ phase' \in {"dumps", "live"}
         /\ phase' = "live" => phase = "live"
<1>1. /\ Len(inbox) \in Nat /\ Len(inbox) > 0 /\ Head(inbox) = inbox[1] /\ Head(inbox) \in Messages
      /\ inbox' \in Seq(Messages) /\ Len(inbox') = Len(inbox) - 1
      /\ \A i \in 1..Len(inbox') : inbox'[i] = inbox[i + 1]
  BY QueueFacts DEF IInv
<1>2. \A i \in 1..Len(inbox') : i + 1 \in 1..Len(inbox)
  BY <1>1
<1>3. InSession
  BY DEF IInv, MessageInv
<1>4. phase' \in {"dumps", "live"} /\ (phase' = "live" => phase = "live")
  BY <1>3 DEF AfterMessage, InSession
<1>5. 1 \in 1..Len(inbox)
  BY <1>1
<1>6. MessageOK(Head(inbox))
  BY <1>1, <1>5 DEF IInv, MessageInv
<1>. QED
  BY <1>1, <1>2, <1>3, <1>4, <1>5, <1>6

(* What is left of the queue stays in order, whatever is seen of its head. *)
LEMMA ShiftMessages ==
  ASSUME IInv, inbox # <<>>, inbox' = Tail(inbox), phase' = AfterMessage,
         UNCHANGED <<open, instance, print, fate>>,
         seen' = seen \/ (IsStatus(Head(inbox)) /\ seen' = Head(inbox).print)
  PROVE  MessageInv'
<1>1. /\ Len(inbox) \in Nat /\ Len(inbox') = Len(inbox) - 1
      /\ inbox[1] = Head(inbox) /\ 1 \in 1..Len(inbox)
      /\ \A i \in 1..Len(inbox') : inbox'[i] = inbox[i + 1] /\ i + 1 \in 1..Len(inbox)
      /\ phase' \in {"dumps", "live"}
  BY ShiftFacts
<1>2. ASSUME NEW i \in 1..Len(inbox') PROVE MessageOK(inbox[i])'
  <2>1. MessageOK(inbox[i + 1])
    BY <1>1 DEF IInv, MessageInv
  <2>2. IsStatus(inbox[i + 1]) => seen' <= inbox[i + 1].print
    <3>1. 1 < i + 1
      BY <1>1
    <3>2. IsStatus(inbox[1]) /\ IsStatus(inbox[i + 1]) => inbox[1].print <= inbox[i + 1].print
      BY <1>1, <3>1 DEF IInv, MessageInv
    <3>. QED
      BY <1>1, <2>1, <3>2 DEF MessageOK
  <2>. QED
    BY <1>1, <2>1, <2>2 DEF MessageOK, IsStatus, SnapshotOK
<1>3. \A i, j \in 1..Len(inbox') :
        i < j /\ IsStatus(inbox'[i]) /\ IsStatus(inbox'[j]) => inbox'[i].print <= inbox'[j].print
  BY <1>1 DEF IInv, MessageInv
<1>. QED
  BY <1>1, <1>2, <1>3 DEF MessageInv, InSession, IsStatus

LEMMA SkipStep == ASSUME IInv, SkipMessage PROVE IInv'
<1>1. /\ inbox # <<>> /\ inbox' = Tail(inbox) /\ phase' = AfterMessage
      /\ UNCHANGED <<instance, print, state, loaded, active, atEnd, fate, open>>
      /\ UNCHANGED <<lastSent, stats, lostBefore, conn>>
      /\ UNCHANGED <<gate, known, recent, recActive, evaluated, est>>
      /\ UNCHANGED <<beats, closed, seen, explained, sources, tailLost, drops, setupFailures>>
      /\ missed' = TRUE /\ lost' = lost + 1 /\ lost \in Nat /\ lost' \in Nat
  BY DEF SkipMessage, printerVars, recorderVars, IInv, TypeOK
<1>2. /\ inbox' \in Seq(Messages) /\ phase' \in {"dumps", "live"}
      /\ phase' = "live" => phase = "live"
  BY <1>1, ShiftFacts
<1>3. TypeOK' /\ PrinterInv'
  BY <1>1, <1>2 DEF IInv, TypeOK, PrinterTypeOK, PrinterInv
<1>4. MessageInv'
  BY <1>1, ShiftMessages
<1>5. ViewInv' /\ GateInv' /\ QuietInv'
  BY <1>1 DEF IInv, ViewInv, GateInv, QuietInv
<1>6. SessionInv' /\ HonestInv'
  <2>1. lost' # 0
    BY <1>1
  <2>2. InSession' /\ phase' # "subscribed"
    BY <1>2 DEF InSession
  <2>. QED
    BY <1>1, <1>2, <2>1, <2>2 DEF IInv, SessionInv, HonestInv
<1>. QED
  BY <1>3, <1>4, <1>5, <1>6 DEF IInv

-----------------------------------------------------------------------------
(* The client. *)

LEMMA InitInv == ASSUME Init PROVE IInv
<1>. USE DEF Init, PrinterInit
<1>1. PrinterTypeOK
  <2>1. fate \in [Prints -> Fates]
    BY DEF Fates
  <2>2. instance \in 0..MaxRestarts /\ print \in 0..MaxPrints
    BY PrinterAssumption
  <2>. QED
    BY <2>1, <2>2 DEF PrinterTypeOK, States
<1>2. lastSent \in Snapshots /\ inbox \in Seq(Messages) /\ Len(inbox) = 0
  BY DEF Nothing, Snapshots, States
<1>3. known \in [FileKeys -> BOOLEAN]
  OBVIOUS
<1>4. conn \in 0..MaxConns /\ seen \in 0..MaxPrints
  BY SessionAssumption, PrinterAssumption
<1>5. TypeOK
  BY <1>1, <1>2, <1>3, <1>4 DEF TypeOK
<1>6. PrinterInv
  BY PrinterAssumption DEF PrinterInv, InProgress, Finished, Prints
<1>7. MessageInv
  BY <1>2 DEF MessageInv, InSession
<1>8. ViewInv
  BY DEF ViewInv, InSession
<1>9. GateInv /\ QuietInv /\ SessionInv
  BY DEF GateInv, QuietInv, SessionInv, InSession, FileKeys
<1>10. HonestInv
  BY <1>2 DEF HonestInv, OnlyEndsAreClosed
<1>. QED
  BY <1>5, <1>6, <1>7, <1>8, <1>9, <1>10 DEF IInv

LEMMA AgeStep == ASSUME IInv, MotionAges PROVE IInv'
<1>1. /\ UNCHANGED <<instance, print, state, loaded, active, atEnd, fate>>
      /\ UNCHANGED <<stats, phase, lostBefore, conn, open, lastSent, inbox>>
      /\ UNCHANGED <<gate, known, recActive, evaluated, est>>
      /\ UNCHANGED <<beats, closed, seen, missed, explained, sources, tailLost>>
      /\ UNCHANGED <<lost, drops, setupFailures>>
      /\ recent' = FALSE
  BY DEF MotionAges, printerVars, clientVars, linkVars, journalVars, countVars
<1>2. TypeOK' /\ PrinterInv'
  <2>1. {gate', recent', recActive', evaluated'} \subseteq BOOLEAN
    BY <1>1 DEF IInv, TypeOK
  <2>2. PrinterTypeOK' /\ PrinterInv'
    BY <1>1 DEF IInv, TypeOK, PrinterTypeOK, PrinterInv
  <2>. QED
    BY <1>1, <2>1, <2>2 DEF IInv, TypeOK
<1>3. MessageInv' /\ ViewInv'
  BY <1>1 DEF IInv, MessageInv, MessageOK, ViewInv, InSession, IsStatus, NoneBetween, SnapshotOK
<1>4. GateInv' /\ QuietInv' /\ SessionInv'
  BY <1>1 DEF IInv, GateInv, QuietInv, SessionInv, InSession
<1>5. HonestInv'
  BY <1>1 DEF IInv, HonestInv, OnlyEndsAreClosed, Running, Closing, IsStatus
<1>. QED
  BY <1>2, <1>3, <1>4, <1>5 DEF IInv

LEMMA DoneStep == ASSUME IInv, SetupDone PROVE IInv'
<1>1. /\ UNCHANGED <<instance, print, state, loaded, active, atEnd, fate>>
      /\ UNCHANGED <<stats, lostBefore, conn, open, lastSent, inbox>>
      /\ UNCHANGED <<gate, known, recent, recActive, evaluated, est>>
      /\ UNCHANGED <<beats, closed, seen, missed, explained, sources>>
      /\ UNCHANGED <<lost, drops, setupFailures>>
      /\ phase = "dumps" /\ phase' = "live"
  BY DEF SetupDone, printerVars, clientVars, linkVars, recorderVars, countVars
<1>2. tailLost' = FALSE
  BY DEF SetupDone, IInv, SessionInv
<1>3. TypeOK' /\ PrinterInv'
  BY <1>1, <1>2 DEF IInv, TypeOK, PrinterTypeOK, PrinterInv
<1>4. MessageInv' /\ ViewInv'
  BY <1>1 DEF IInv, MessageInv, MessageOK, ViewInv, InSession, IsStatus, NoneBetween, SnapshotOK
<1>5. GateInv' /\ QuietInv' /\ SessionInv'
  BY <1>1, <1>2 DEF IInv, GateInv, QuietInv, SessionInv, InSession
<1>6. HonestInv'
  BY <1>1 DEF IInv, HonestInv, OnlyEndsAreClosed, Running, Closing, IsStatus
<1>. QED
  BY <1>3, <1>4, <1>5, <1>6 DEF IInv

(* Between two connections nothing is in flight.                           *)
LEMMA EmptyQueue ==
  ASSUME inbox' = <<>>, phase' \in {"down", "setup"}
  PROVE  MessageInv' /\ ViewInv' /\ (OnlyEndsAreClosed' /\ ~open' => HonestInv')
         /\ inbox' \in Seq(Messages)
<1>1. Len(inbox') = 0 /\ inbox' \in Seq(Messages)
  OBVIOUS
<1>. QED
  BY <1>1 DEF MessageInv, ViewInv, HonestInv, InSession

LEMMA ConnectStep == ASSUME IInv, Connect PROVE IInv'
<1>1. /\ UNCHANGED <<instance, print, state, loaded, active, atEnd, fate>>
      /\ UNCHANGED <<stats, lostBefore, lastSent>>
      /\ UNCHANGED <<gate, known, recent, recActive, evaluated, est>>
      /\ UNCHANGED <<beats, closed, seen, missed, explained, sources, tailLost>>
      /\ UNCHANGED <<lost, drops, setupFailures>>
      /\ phase = "down" /\ phase' = "setup" /\ inbox' = <<>> /\ open' = TRUE
      /\ conn < MaxConns /\ conn' = conn + 1
  BY DEF Connect, printerVars, recorderVars, journalVars, countVars
<1>2. MessageInv' /\ ViewInv' /\ inbox' \in Seq(Messages) /\ Len(inbox') = 0
  BY <1>1, EmptyQueue
<1>3. conn' \in 0..MaxConns
  BY <1>1, SessionAssumption DEF IInv, TypeOK
<1>4. TypeOK' /\ PrinterInv'
  BY <1>1, <1>2, <1>3 DEF IInv, TypeOK, PrinterTypeOK, PrinterInv
<1>5. GateInv' /\ QuietInv'
  BY <1>1 DEF IInv, GateInv, QuietInv
<1>6. setupFailures = 0 => seen = 0 /\ est = NoSample /\ sources = {}
  BY <1>1 DEF IInv, SessionInv, InSession
<1>7. SessionInv'
  BY <1>1, <1>6 DEF IInv, SessionInv, InSession
<1>8. HonestInv'
  BY <1>1, <1>2, <1>6 DEF IInv, HonestInv, OnlyEndsAreClosed
<1>. QED
  BY <1>2, <1>4, <1>5, <1>7, <1>8 DEF IInv

LEMMA FailStep == ASSUME IInv, FailSetup PROVE IInv'
<1>1. /\ UNCHANGED <<instance, print, state, loaded, active, atEnd, fate>>
      /\ UNCHANGED <<stats, lostBefore, conn>>
      /\ UNCHANGED <<gate, known, recent, recActive, evaluated, est>>
      /\ UNCHANGED <<beats, closed, seen, missed, explained, sources, tailLost>>
      /\ UNCHANGED <<lost, drops>>
      /\ phase \in {"setup", "subscribed", "dumps"} /\ phase' = "down"
      /\ inbox' = <<>> /\ open' = FALSE /\ lastSent' = Nothing
      /\ setupFailures' = IF phase = "dumps" THEN setupFailures + 1 ELSE setupFailures
  BY DEF FailSetup, CloseLink, printerVars, recorderVars, journalVars
<1>2. MessageInv' /\ ViewInv' /\ (OnlyEndsAreClosed' => HonestInv') /\ inbox' \in Seq(Messages)
  BY <1>1, EmptyQueue
<1>3. setupFailures' \in Nat /\ (setupFailures' = 0 => setupFailures = 0 /\ phase # "dumps")
  BY <1>1 DEF IInv, TypeOK
<1>4. lastSent' \in Snapshots
  BY <1>1 DEF Nothing, Snapshots, States
<1>5. TypeOK' /\ PrinterInv'
  BY <1>1, <1>2, <1>3, <1>4 DEF IInv, TypeOK, PrinterTypeOK, PrinterInv
<1>6. GateInv' /\ QuietInv'
  BY <1>1 DEF IInv, GateInv, QuietInv
<1>7. setupFailures' = 0 => seen = 0 /\ est = NoSample /\ sources = {}
  BY <1>1, <1>3 DEF IInv, SessionInv, InSession
<1>8. SessionInv'
  BY <1>1, <1>7 DEF IInv, SessionInv, InSession
<1>9. HonestInv'
  BY <1>1, <1>2, <1>3 DEF IInv, HonestInv, OnlyEndsAreClosed
<1>. QED
  BY <1>2, <1>5, <1>6, <1>8, <1>9 DEF IInv

LEMMA LoseStep == ASSUME IInv, LoseSession PROVE IInv'
<1>1. /\ UNCHANGED <<instance, print, state, loaded, active, atEnd, fate>>
      /\ UNCHANGED <<stats, conn, closed, explained, lost, setupFailures>>
      /\ phase' = "down" /\ lostBefore' = TRUE /\ tailLost' = TRUE /\ sources' = {}
      /\ inbox' = <<>> /\ open' = FALSE /\ lastSent' = Nothing
      /\ gate' = FALSE /\ recent' = FALSE /\ recActive' = FALSE /\ evaluated' = FALSE
      /\ known' = [known EXCEPT !.active = FALSE]
      /\ est' = NoSample /\ seen' = 0 /\ missed' = FALSE
      /\ beats' = NoSample \/ beats' = beats
      /\ drops' = drops \/ drops' = drops + 1
  BY DEF LoseSession, CloseLink, ResetSession, GateAfterLoss, SampleAfterLoss, PausedBeats,
         SourcesAfterLoss, RemembersLoss, printerVars
<1>2. MessageInv' /\ ViewInv' /\ (OnlyEndsAreClosed' => HonestInv') /\ inbox' \in Seq(Messages)
  BY <1>1, EmptyQueue
<1>3. lastSent' \in Snapshots
  BY <1>1 DEF Nothing, Snapshots, States
<1>4. known' \in [FileKeys -> BOOLEAN] /\ known'.active = FALSE
  BY <1>1 DEF IInv, TypeOK, FileKeys
<1>5. seen' \in 0..MaxPrints /\ drops' \in Nat
  BY <1>1, PrinterAssumption DEF IInv, TypeOK
<1>6. TypeOK' /\ PrinterInv'
  BY <1>1, <1>2, <1>3, <1>4, <1>5 DEF IInv, TypeOK, PrinterTypeOK, PrinterInv
<1>7. GateInv' /\ QuietInv' /\ SessionInv'
  BY <1>1, <1>4, PrinterAssumption
     DEF IInv, GateInv, QuietInv, SessionInv, InSession, TypeOK, PrinterTypeOK
<1>8. HonestInv'
  BY <1>1, <1>2 DEF IInv, HonestInv, OnlyEndsAreClosed
<1>. QED
  BY <1>2, <1>6, <1>7, <1>8 DEF IInv

LEMMA SubscribeStep == ASSUME IInv, Subscribe PROVE IInv'
<1>. DEFINE m == Status(Keys)
<1>1. /\ UNCHANGED <<instance, print, state, loaded, active, atEnd, fate>>
      /\ UNCHANGED <<stats, lostBefore, conn, open>>
      /\ UNCHANGED <<gate, known, recent, recActive, evaluated, est>>
      /\ UNCHANGED <<beats, closed, seen, missed, explained, sources, tailLost>>
      /\ UNCHANGED <<lost, drops, setupFailures>>
      /\ phase = "setup" /\ open /\ phase' = "subscribed"
      /\ inbox' = <<m>> /\ lastSent' = Snapshot
  BY DEF Subscribe, printerVars, recorderVars, journalVars, countVars
<1>2. /\ m \in Messages /\ IsStatus(m) /\ m.keys = Keys /\ m.now = Snapshot /\ m.print = print
      /\ m.clock = instance /\ Snapshot \in Snapshots
  BY StatusTypes DEF IInv
<1>. HIDE DEF m
<1>3. inbox' \in Seq(Messages) /\ Len(inbox') = 1 /\ inbox'[1] = m
  BY <1>1, <1>2
<1>4. \A i \in 1..Len(inbox') : i = 1 /\ inbox'[i] = m
  BY <1>3
<1>5. /\ SnapshotOK(Snapshot) /\ print \in Nat
      /\ Snapshot.state = state /\ Snapshot.atEnd = atEnd
      /\ InProgress(state) => print # 0 /\ fate[print] # "killed"
      /\ Finished(state) => \A p \in 1..print : fate[p] \notin Recoverable
      /\ Finished(state) \/ atEnd =>
           \A p \in 1..print : fate[p] # "killed" => fate[p] \in Over
  BY SnapshotFacts DEF Snapshot
<1>6. TypeOK' /\ PrinterInv'
  BY <1>1, <1>2, <1>3 DEF IInv, TypeOK, PrinterTypeOK, PrinterInv
<1>7. MessageInv'
  <2>1. MessageOK(m)
    BY <1>2, <1>5 DEF MessageOK, IInv, GateInv
  <2>2. \A i \in 1..Len(inbox') : MessageOK(inbox[i])'
    BY <1>1, <1>4, <2>1 DEF MessageOK, IsStatus, SnapshotOK
  <2>3. \A i, j \in 1..Len(inbox') : ~(i < j)
    BY <1>4
  <2>. QED
    BY <1>1, <1>3, <2>2, <2>3 DEF MessageInv, InSession, IsStatus, MessageOK
<1>8. ViewInv'
  <2>1. ~NoneBetween(0, 2)'
    BY <1>2, <1>3 DEF NoneBetween, IsStatus
  <2>2. \A j \in 1..Len(inbox') : FileKeys \ inbox'[j].keys = {}
    BY <1>2, <1>4 DEF Keys
  <2>3. Len(inbox') + 1 = 2
    BY <1>3
  <2>. QED
    BY <1>1, <1>2, <1>4, <2>1, <2>2, <2>3 DEF ViewInv, IsStatus
<1>9. setupFailures = 0 => seen = 0 /\ est = NoSample /\ sources = {}
  BY <1>1 DEF IInv, SessionInv, InSession
<1>10. GateInv' /\ QuietInv' /\ SessionInv'
  BY <1>1, <1>9 DEF IInv, GateInv, QuietInv, SessionInv, InSession
<1>11. HonestInv'
  <2>. SUFFICES ASSUME setupFailures = 0, lost = 0 PROVE HonestInv'
    BY <1>1 DEF HonestInv
  <2>1. Running(m) => fate[m.print] # "killed" /\ m.print \in 1..print
    BY <1>2, <1>5 DEF Running
  <2>2. Closing(m) /\ Running(m) => fate[m.print] \in Over
    BY <1>2, <1>5, <2>1 DEF Closing
  <2>3. OnlyEndsAreClosed'
    BY <1>1 DEF IInv, HonestInv, OnlyEndsAreClosed
  <2>4. \A i \in 1..Len(inbox') : /\ Running(inbox[i])' <=> Running(inbox'[i])
                                  /\ Closing(inbox[i])' <=> Closing(inbox'[i])
    BY DEF Running, Closing, IsStatus
  <2>5. \A j \in 1..Len(inbox') : \A i \in 1..j : i = 1
    BY <1>4
  <2>. QED
    BY <1>1, <1>4, <1>9, <2>1, <2>2, <2>3, <2>4, <2>5 DEF HonestInv
<1>. QED
  BY <1>6, <1>7, <1>8, <1>10, <1>11 DEF IInv

-----------------------------------------------------------------------------
(* The recorder merges a message. *)

(* What the gate, the signals and the markers say of the message.          *)
LEMMA GateFacts ==
  ASSUME IInv, NEW m \in Messages, MessageOK(m)
  PROVE  /\ Opens(m) \/ Activates(m) =>
              /\ IsStatus(m) /\ InProgress(m.now.state) /\ ~Finished(m.now.state)
              /\ m.now.loaded /\ GateAfter(m) /\ m.print \in 1..print
         /\ Signal1(m) \/ Signal2(m) =>
              gate /\ IsStatus(m) /\ Finished(m.now.state) /\ ~Opens(m) /\ ~Activates(m)
         /\ Signal3(m) => known.active /\ IsStatus(m) /\ ~Activates(m)
         /\ GateAfter(m) => gate \/ Opens(m) \/ Activates(m)
         /\ ~GateAfter(m) => ~Opens(m) /\ ~Activates(m) /\ (~gate \/ Signal1(m) \/ Signal2(m))
         /\ gate /\ FileCloses(m) /\ ~Opens(m) /\ ~Activates(m) => ~GateAfter(m)
<1>1. /\ m.now.state \in States /\ m.now.loaded \in BOOLEAN /\ m.now.active \in BOOLEAN
      /\ m.print \in Nat /\ m.type \in {"status", "motion"}
  BY MessageFields DEF Messages
<1>2. IsStatus(m) => SnapshotOK(m.now) /\ m.print <= print /\ (InProgress(m.now.state) => m.print # 0)
  BY DEF MessageOK
<1>3. \A s \in States : ~(InProgress(s) /\ Finished(s))
  BY DEF InProgress, Finished
<1>4. Opens(m) => IsStatus(m) /\ InProgress(m.now.state)
  BY DEF Opens, StateIn, MessageOK
<1>5. Activates(m) => IsStatus(m) /\ InProgress(m.now.state)
  BY <1>2 DEF Activates, MessageOK, SnapshotOK, InProgress
<1>6. Opens(m) \/ Activates(m) => m.now.loaded /\ m.print \in 1..print /\ ~Finished(m.now.state)
  <2>1. print \in Nat
    BY DEF IInv, TypeOK, PrinterTypeOK
  <2>. QED
    BY <1>1, <1>2, <1>3, <1>4, <1>5, <2>1 DEF SnapshotOK
<1>7. Signal1(m) => gate /\ IsStatus(m) /\ Finished(m.now.state)
  BY DEF Signal1, StateIn, MessageOK
<1>8. Signal2(m) => IsStatus(m) /\ Finished(m.now.state) /\ (gate \/ Opens(m))
  <2>1. Signal2(m) => IsStatus(m) /\ ~m.now.loaded /\ (gate \/ Opens(m))
    BY DEF Signal2, FileCloses, Gate1, MessageOK
  <2>. QED
    BY <1>1, <1>2, <2>1 DEF SnapshotOK, InProgress, Finished, States
<1>9. Signal3(m) => known.active /\ IsStatus(m) /\ ~Activates(m)
  BY DEF Signal3, Activates, MessageOK
<1>10. Opens(m) \/ Activates(m) => GateAfter(m)
  BY <1>6, <1>7, <1>8 DEF GateAfter, Gate1
<1>. QED
  BY <1>4, <1>5, <1>6, <1>7, <1>8, <1>9, <1>10 DEF GateAfter, Gate1, Signal2

(* After a status that arrived in order the recorder knows what it says.   *)
LEMMA MergedFacts ==
  ASSUME IInv, inbox # <<>>, inbox' = Tail(inbox), phase' = AfterMessage
  PROVE  LET m == Head(inbox) IN
         /\ Merged(m) \in [FileKeys -> BOOLEAN]
         /\ \A k \in FileKeys : k \notin m.keys => Merged(m)[k] = known[k]
         /\ \A k \in FileKeys : k \in m.keys => Merged(m)[k] = m.now[k]
         /\ ~IsStatus(m) => \A k \in FileKeys : Merged(m)[k] = known[k]
         /\ ~missed /\ IsStatus(m) => \A k \in FileKeys : Merged(m)[k] = m.now[k]
<1>. DEFINE m == Head(inbox)
<1>1. /\ m \in Messages /\ MessageOK(m) /\ InSession /\ inbox[1] = m /\ 1 \in 1..Len(inbox)
  BY ShiftFacts
<1>2. \A k \in FileKeys : m.now[k] \in BOOLEAN /\ known[k] \in BOOLEAN
  BY <1>1, MessageFields DEF FileKeys, IInv, TypeOK
<1>3. \A k \in FileKeys : Merged(m)[k] = IF k \in m.keys THEN m.now[k] ELSE known[k]
  BY DEF Merged
<1>4. Merged(m) \in [FileKeys -> BOOLEAN]
  BY <1>2 DEF Merged
<1>5. ~IsStatus(m) => m.keys = {}
  BY <1>1 DEF MessageOK
<1>6. NoneBetween(0, 1)
  BY DEF NoneBetween
<1>7. ~missed /\ IsStatus(m) => \A k \in FileKeys \ m.keys : known[k] = m.now[k]
  BY <1>1, <1>6 DEF IInv, ViewInv
<1>. HIDE DEF m
<1>8. /\ \A k \in FileKeys : k \notin m.keys => Merged(m)[k] = known[k]
      /\ \A k \in FileKeys : k \in m.keys => Merged(m)[k] = m.now[k]
  BY <1>3
<1>. QED
  BY <1>4, <1>5, <1>7, <1>8 DEF m

(* What a CleanShutdown marker is journaled for is over, if nothing was    *)
(* missed.                                                                 *)
LEMMA ShutdownFacts ==
  ASSUME IInv, inbox # <<>>, inbox' = Tail(inbox), phase' = AfterMessage,
         CleanShutdown(Head(inbox))
  PROVE  /\ seen # 0 /\ IsStatus(Head(inbox)) /\ ~Activates(Head(inbox))
         /\ ~missed => Closing(Head(inbox))
<1>. DEFINE m == Head(inbox)
<1>1. m \in Messages /\ MessageOK(m)
  BY ShiftFacts
<1>2. CASE Signal1(m) \/ Signal2(m)
  BY <1>1, <1>2, GateFacts DEF IInv, GateInv, Closing
<1>3. CASE Signal3(m)
  <2>1. seen # 0 /\ IsStatus(m) /\ ~Activates(m)
    BY <1>1, <1>3, GateFacts DEF IInv, GateInv
  <2>2. ~missed => m.now.atEnd \/ ~m.now.loaded
    <3>1. "atEnd" \in FileKeys /\ "loaded" \in FileKeys
      BY DEF FileKeys
    <3>2. ~missed => Merged(m)["atEnd"] = m.now["atEnd"] /\ Merged(m)["loaded"] = m.now["loaded"]
      BY <2>1, <3>1, MergedFacts
    <3>. QED
      BY <1>3, <3>2 DEF Signal3
  <2>3. SnapshotOK(m.now) /\ m.now.state \in States
    BY <1>1, <2>1, MessageFields DEF MessageOK
  <2>. QED
    BY <2>1, <2>2, <2>3 DEF Closing, SnapshotOK, InProgress, Finished, States
<1>. QED
  BY <1>2, <1>3 DEF CleanShutdown

(* The step, part by part. *)
LEMMA ReceiveFacts ==
  ASSUME Receive
  PROVE  LET m == Head(inbox) IN
         /\ inbox # <<>> /\ inbox' = Tail(inbox) /\ phase' = AfterMessage
         /\ UNCHANGED <<instance, print, state, loaded, active, atEnd, fate, open>>
         /\ UNCHANGED <<lastSent, stats, lostBefore, conn, setupFailures, missed, lost>>
         /\ gate' = GateAfter(m) /\ known' = Merged(m)
         /\ recent' = (recent \/ m.type = "motion")
         /\ est' = (IF m.type = "status" THEN m.clock ELSE est)
         /\ recActive' = (gate' \/ recent') /\ evaluated' = TRUE
         /\ seen' = (IF Opens(m) \/ Activates(m) THEN m.print ELSE seen)
         /\ closed' = (IF CleanShutdown(m) THEN closed \cup {seen'} ELSE closed)
         /\ sources' \subseteq sources \cup {conn}
         /\ tailLost' = (tailLost /\ m.type # "motion")
         /\ drops' = drops \/ drops' = drops + 1
BY DEF Receive, Handle, Forward, printerVars

LEMMA ForwardFacts ==
  ASSUME Receive
  PROVE  \/ /\ est' # NoSample /\ beats' = [est |-> est', active |-> recActive']
            /\ explained' = ((explained \/ (~recActive' /\ (recActive \/ ~evaluated))) /\ ~recActive')
         \/ /\ beats' = beats
            /\ explained' = (explained \/ (~recActive' /\ (recActive \/ ~evaluated)))
<1>. DEFINE m == Head(inbox)
            isActive == gate' \/ recent'
<1>1. recActive' = isActive /\ Forward(m, isActive)
  BY DEF Receive, Handle
<1>2. TurnsQuiet(isActive) = (~isActive /\ (recActive \/ ~evaluated))
  BY DEF TurnsQuiet
<1>. HIDE DEF isActive, m
<1>. QED
  BY <1>1, <1>2 DEF Forward

LEMMA ReceiveSeen ==
  ASSUME IInv, Receive
  PROVE  LET m == Head(inbox) IN
         /\ m \in Messages /\ MessageOK(m)
         /\ seen' = seen \/ (IsStatus(m) /\ InProgress(m.now.state) /\ seen' = m.print)
         /\ seen' \in 0..MaxPrints /\ seen' <= print /\ (seen # 0 => seen' # 0)
         /\ ~Opens(m) /\ ~Activates(m) => seen' = seen
         /\ Opens(m) \/ Activates(m) => seen' = m.print /\ seen' # 0
<1>. DEFINE m == Head(inbox)
<1>1. m \in Messages /\ MessageOK(m)
  BY ReceiveFacts, ShiftFacts
<1>2. seen' = (IF Opens(m) \/ Activates(m) THEN m.print ELSE seen)
  BY ReceiveFacts
<1>3. Opens(m) \/ Activates(m) =>
        IsStatus(m) /\ InProgress(m.now.state) /\ m.print \in 1..print
  BY <1>1, GateFacts
<1>4. seen \in 0..MaxPrints /\ seen <= print /\ print \in Nat /\ print <= MaxPrints /\ MaxPrints \in Nat
  BY PrinterAssumption DEF IInv, GateInv, TypeOK, PrinterTypeOK
<1>. HIDE DEF m
<1>5. CASE Opens(m) \/ Activates(m)
  <2>1. seen' = m.print /\ m.print \in Nat /\ m.print # 0 /\ m.print <= print
    BY <1>2, <1>3, <1>4, <1>5
  <2>. QED
    BY <1>1, <1>3, <1>4, <1>5, <2>1 DEF m
<1>6. CASE ~(Opens(m) \/ Activates(m))
  BY <1>1, <1>2, <1>4, <1>6 DEF m
<1>. QED
  BY <1>5, <1>6

LEMMA ReceiveTypes == ASSUME IInv, Receive PROVE TypeOK' /\ PrinterInv'
<1>. DEFINE m == Head(inbox)
<1>1. m \in Messages /\ inbox' \in Seq(Messages) /\ phase' \in {"dumps", "live"}
  BY ReceiveFacts, ShiftFacts
<1>2. known' \in [FileKeys -> BOOLEAN]
  BY ReceiveFacts, MergedFacts
<1>3. seen' \in 0..MaxPrints /\ seen' <= print /\ (CleanShutdown(m) => seen' # 0)
  BY ReceiveFacts, ReceiveSeen, ShutdownFacts
<1>4. closed' \subseteq Prints
  <2>1. closed' = closed \/ (CleanShutdown(m) /\ closed' = closed \cup {seen'})
    BY ReceiveFacts
  <2>2. CleanShutdown(m) => seen' \in Prints
    BY <1>3, PrinterAssumption DEF Prints
  <2>. QED
    BY <2>1, <2>2 DEF IInv, TypeOK
<1>5. est' \in 0..MaxRestarts \cup {NoSample}
  BY <1>1, MessageFields, ReceiveFacts DEF IInv, TypeOK
<1>6. /\ gate' \in BOOLEAN /\ recent' \in BOOLEAN /\ recActive' \in BOOLEAN
      /\ evaluated' \in BOOLEAN
  <2>1. gate' \in BOOLEAN
    BY ReceiveFacts DEF GateAfter
  <2>2. recent' \in BOOLEAN /\ evaluated' \in BOOLEAN
    BY ReceiveFacts
  <2>3. recActive' \in BOOLEAN
    BY ReceiveFacts
  <2>. QED
    BY <2>1, <2>2, <2>3
<1>7. beats' \in Sampled \cup {NoSample}
  BY <1>5, <1>6, ForwardFacts DEF IInv, TypeOK, Sampled
<1>8. explained' \in BOOLEAN /\ tailLost' \in BOOLEAN
  <2>1. explained' \in BOOLEAN
    BY ForwardFacts
  <2>2. tailLost' \in BOOLEAN
    BY ReceiveFacts
  <2>. QED
    BY <2>1, <2>2
<1>9. sources' \subseteq 0..MaxConns /\ drops' \in Nat
  <2>1. sources' \subseteq sources \cup {conn} /\ (drops' = drops \/ drops' = drops + 1)
    BY ReceiveFacts
  <2>2. sources \subseteq 0..MaxConns /\ conn \in 0..MaxConns /\ drops \in Nat
    BY DEF IInv, TypeOK
  <2>. QED
    BY <2>1, <2>2
<1>10. /\ UNCHANGED <<instance, print, state, loaded, active, atEnd, fate, open>>
       /\ UNCHANGED <<lastSent, stats, lostBefore, conn, setupFailures, missed, lost>>
  BY ReceiveFacts
<1>11. PrinterTypeOK' /\ PrinterInv'
  BY <1>10 DEF IInv, TypeOK, PrinterTypeOK, PrinterInv
<1>. HIDE DEF m
<1>. QED
  BY <1>1, <1>2, <1>3, <1>4, <1>5, <1>6, <1>7, <1>8, <1>9, <1>10, <1>11 DEF IInv, TypeOK

LEMMA ReceiveGate == ASSUME IInv, Receive PROVE GateInv'
<1>. DEFINE m == Head(inbox)
            opened == Opens(m) \/ Activates(m)
<1>1. /\ m \in Messages /\ MessageOK(m)
      /\ seen' <= print /\ (seen # 0 => seen' # 0)
      /\ ~opened => seen' = seen
      /\ opened => seen' = m.print /\ seen' # 0
  BY ReceiveSeen
<1>2. /\ gate' = GateAfter(m) /\ known' = Merged(m) /\ UNCHANGED <<print, fate, missed>>
      /\ recActive' = (gate' \/ recent')
      /\ closed' = (IF CleanShutdown(m) THEN closed \cup {seen'} ELSE closed)
  BY ReceiveFacts
<1>3. /\ opened => IsStatus(m) /\ m.now.loaded /\ GateAfter(m)
      /\ Signal1(m) \/ Signal2(m) => gate /\ IsStatus(m) /\ Finished(m.now.state) /\ ~opened
      /\ GateAfter(m) => gate \/ opened
      /\ ~GateAfter(m) => ~opened /\ (~gate \/ Signal1(m) \/ Signal2(m))
      /\ gate /\ FileCloses(m) /\ ~opened => ~GateAfter(m)
  BY <1>1, GateFacts
<1>4. /\ \A k \in FileKeys : k \notin m.keys => Merged(m)[k] = known[k]
      /\ \A k \in FileKeys : k \in m.keys => Merged(m)[k] = m.now[k]
      /\ ~IsStatus(m) => \A k \in FileKeys : Merged(m)[k] = known[k]
      /\ ~missed /\ IsStatus(m) => \A k \in FileKeys : Merged(m)[k] = m.now[k]
  BY ReceiveFacts, MergedFacts
<1>5. "active" \in FileKeys /\ "loaded" \in FileKeys
  BY DEF FileKeys
<1>6. gate' => seen' # 0 /\ recActive'
  BY <1>1, <1>2, <1>3 DEF IInv, GateInv
<1>7. known'.active => seen' # 0
  BY <1>1, <1>2, <1>4, <1>5 DEF IInv, GateInv, Activates
<1>8. ~gate' /\ seen' # 0 => seen' \in closed' /\ fate'[seen'] \notin Recoverable
  <2>. SUFFICES ASSUME ~GateAfter(m), seen # 0
                PROVE  seen \in closed' /\ fate[seen] \notin Recoverable
    BY <1>1, <1>2, <1>3
  <2>1. CASE ~gate
    BY <1>2, <2>1 DEF IInv, GateInv
  <2>2. CASE Signal1(m) \/ Signal2(m)
    <3>1. seen \in closed'
      BY <1>1, <1>2, <1>3, <2>2 DEF CleanShutdown
    <3>2. seen \in 1..m.print
      <4>1. seen \in Nat /\ m.print \in Nat /\ seen <= m.print
        BY <1>1, <1>3, <2>2, MessageFields DEF MessageOK, IInv, TypeOK
      <4>. QED
        BY <4>1
    <3>. QED
      BY <1>1, <1>3, <2>2, <3>1, <3>2 DEF MessageOK
  <2>. QED
    BY <1>3, <2>1, <2>2
<1>9. ASSUME ~missed, gate' PROVE known'.loaded
  <2>1. CASE opened
    BY <1>2, <1>3, <1>4, <1>5, <1>9, <2>1
  <2>2. CASE ~opened
    <3>1. gate /\ ~FileCloses(m) /\ known.loaded
      BY <1>2, <1>3, <1>9, <2>2 DEF IInv, GateInv
    <3>2. "loaded" \in m.keys => m.now.loaded
      BY <3>1 DEF FileCloses
    <3>. QED
      BY <1>2, <1>4, <1>5, <3>1, <3>2
  <2>. QED
    BY <2>1, <2>2
<1>10. ASSUME ~missed, known'.active PROVE gate'
  <2>1. CASE opened
    BY <1>2, <1>3, <2>1
  <2>2. CASE ~opened
    <3>1. "active" \notin m.keys /\ known.active /\ gate
      BY <1>2, <1>4, <1>5, <1>10, <2>2 DEF Activates, IInv, GateInv
    <3>2. IsStatus(m) => InProgress(m.now.state) /\ m.now.state \in States
      BY <1>1, <1>2, <1>4, <1>5, <1>10, MessageFields DEF MessageOK, SnapshotOK, InProgress
    <3>3. ~Signal1(m) /\ ~Signal2(m)
      BY <1>3, <3>2 DEF InProgress, Finished
    <3>. QED
      BY <1>2, <1>3, <3>1, <3>3
  <2>. QED
    BY <2>1, <2>2
<1>. HIDE DEF m, opened
<1>. QED
  BY <1>1, <1>2, <1>6, <1>7, <1>8, <1>9, <1>10 DEF GateInv

LEMMA ReceiveQuiet == ASSUME IInv, Receive PROVE QuietInv'
<1>1. evaluated /\ ~recActive => explained
  BY DEF IInv, QuietInv
<1>2. ~recActive' => (explained \/ (~recActive' /\ (recActive \/ ~evaluated)))
  BY <1>1
<1>3. ~recActive' => explained'
  BY <1>2, ForwardFacts
<1>4. beats' # NoSample /\ ~beats'.active => explained'
  <2>1. CASE beats' = [est |-> est', active |-> recActive']
    BY <1>3, <2>1
  <2>2. CASE /\ beats' = beats
             /\ explained' = (explained \/ (~recActive' /\ (recActive \/ ~evaluated)))
    BY <2>2 DEF IInv, QuietInv
  <2>. QED
    BY <2>1, <2>2, ForwardFacts
<1>. QED
  BY <1>3, <1>4 DEF QuietInv

LEMMA ReceiveSession == ASSUME IInv, Receive PROVE SessionInv'
<1>. DEFINE m == Head(inbox)
<1>1. /\ UNCHANGED <<setupFailures, missed, lost, open, instance, lostBefore, conn>>
      /\ est' = (IF m.type = "status" THEN m.clock ELSE est)
      /\ sources' \subseteq sources \cup {conn}
      /\ tailLost' = (tailLost /\ m.type # "motion")
  BY ReceiveFacts
<1>2. MessageOK(m) /\ phase' \in {"dumps", "live"} /\ (phase' = "live" => phase = "live")
  BY ReceiveFacts, ShiftFacts
<1>3. tailLost' => tailLost
  BY <1>1
<1>4. setupFailures = 0 /\ open /\ est' # NoSample => est' = instance
  BY <1>1, <1>2 DEF IInv, SessionInv, MessageOK
<1>5. InSession' /\ phase' # "subscribed"
  BY <1>2 DEF InSession
<1>. HIDE DEF m
<1>. QED
  BY <1>1, <1>2, <1>3, <1>4, <1>5 DEF IInv, SessionInv

LEMMA ReceiveView == ASSUME IInv, Receive PROVE ViewInv'
<1>. SUFFICES ASSUME ~missed PROVE ViewInv'
  BY ReceiveFacts DEF ViewInv
<1>. DEFINE m == Head(inbox)
<1>0. PICK n \in Nat : n = Len(inbox')
  BY ReceiveFacts, ShiftFacts
<1>1. /\ Len(inbox) = n + 1 /\ inbox[1] = m /\ 1 \in 1..(n + 1) /\ InSession
      /\ \A i \in 1..n : inbox'[i] = inbox[i + 1] /\ i + 1 \in 1..(n + 1)
  BY <1>0, ReceiveFacts, ShiftFacts
<1>2. known' = Merged(m) /\ UNCHANGED <<lastSent, missed>>
  BY ReceiveFacts
<1>3. /\ ~IsStatus(m) => \A k \in FileKeys : known'[k] = known[k]
      /\ IsStatus(m) => \A k \in FileKeys : known'[k] = inbox[1].now[k]
  BY <1>1, <1>2, ReceiveFacts, MergedFacts
<1>4. ASSUME NEW i \in 0..n, NEW j \in 1..(n + 1), NoneBetween(i, j)'
      PROVE  NoneBetween(i + 1, j + 1) /\ (i = 0 /\ ~IsStatus(m) => NoneBetween(0, j + 1))
  <2>1. \A l \in 1..n : i < l /\ l < j => ~IsStatus(inbox'[l])
    BY <1>0, <1>4 DEF NoneBetween, IsStatus
  <2>2. \A l \in 1..(n + 1) : l = 1 \/ (l - 1 \in 1..n /\ (l - 1) + 1 = l)
    BY <1>0
  <2>3. \A l \in 1..(n + 1) : i + 1 < l /\ l < j + 1 => ~IsStatus(inbox[l])
    <3>. SUFFICES ASSUME NEW l \in 1..(n + 1), i + 1 < l, l < j + 1 PROVE ~IsStatus(inbox[l])
      OBVIOUS
    <3>1. l - 1 \in 1..n /\ i < l - 1 /\ l - 1 < j /\ (l - 1) + 1 = l
      BY <1>0
    <3>. QED
      BY <1>1, <2>1, <3>1
  <2>4. i = 0 /\ ~IsStatus(m) => \A l \in 1..(n + 1) : l < j + 1 => ~IsStatus(inbox[l])
    <3>. SUFFICES ASSUME i = 0, ~IsStatus(m), NEW l \in 1..(n + 1), l < j + 1
                  PROVE  ~IsStatus(inbox[l])
      OBVIOUS
    <3>. QED
      BY <1>1, <2>3
  <2>. HIDE DEF m
  <2>. QED
    BY <1>1, <2>3, <2>4 DEF NoneBetween
<1>. HIDE DEF m
<1>5. ASSUME NEW j \in 1..n, IsStatus(inbox'[j]), NEW k \in FileKeys \ inbox'[j].keys
      PROVE  /\ NoneBetween(0, j)' => known'[k] = inbox'[j].now[k]
             /\ \A i \in 1..n :
                  i < j /\ IsStatus(inbox'[i]) /\ NoneBetween(i, j)' =>
                    inbox'[i].now[k] = inbox'[j].now[k]
  <2>1. /\ j + 1 \in 1..Len(inbox) /\ inbox'[j] = inbox[j + 1] /\ 1 < j + 1
        /\ j \in 1..(n + 1) /\ 1 \in 1..Len(inbox) /\ 0 \in 0..n /\ 0 + 1 = 1
    BY <1>0, <1>1
  <2>2. /\ NoneBetween(0, j + 1) => known[k] = inbox[j + 1].now[k]
        /\ \A i \in 1..Len(inbox) :
             i < j + 1 /\ IsStatus(inbox[i]) /\ NoneBetween(i, j + 1) =>
               inbox[i].now[k] = inbox[j + 1].now[k]
    BY <1>1, <1>5, <2>1 DEF IInv, ViewInv
  <2>3. NoneBetween(0, j)' => known'[k] = inbox'[j].now[k]
    BY <1>1, <1>3, <1>4, <2>1, <2>2
  <2>4. \A i \in 1..n : i \in 0..n /\ i + 1 \in 1..Len(inbox) /\ (i < j => i + 1 < j + 1)
    BY <1>1, <2>1
  <2>. QED
    BY <1>1, <1>4, <2>1, <2>2, <2>3, <2>4
<1>6. ASSUME NEW k \in FileKeys
      PROVE  /\ NoneBetween(0, n + 1)' => known'[k] = lastSent[k]
             /\ \A i \in 1..n :
                  IsStatus(inbox'[i]) /\ NoneBetween(i, n + 1)' => inbox'[i].now[k] = lastSent[k]
  <2>1. /\ 1 \in 1..Len(inbox) /\ 0 \in 0..n /\ 0 + 1 = 1 /\ n + 1 \in 1..(n + 1)
        /\ (n + 1) + 1 = Len(inbox) + 1
    BY <1>0, <1>1
  <2>2. /\ NoneBetween(0, (n + 1) + 1) => known[k] = lastSent[k]
        /\ \A i \in 1..Len(inbox) :
             IsStatus(inbox[i]) /\ NoneBetween(i, (n + 1) + 1) => inbox[i].now[k] = lastSent[k]
    BY <1>1, <2>1 DEF IInv, ViewInv
  <2>3. NoneBetween(0, n + 1)' => known'[k] = lastSent[k]
    BY <1>1, <1>3, <1>4, <2>1, <2>2
  <2>4. \A i \in 1..n : i \in 0..n /\ i + 1 \in 1..Len(inbox)
    BY <1>1
  <2>. QED
    BY <1>1, <1>4, <2>1, <2>2, <2>3, <2>4
<1>. QED
  BY <1>0, <1>2, <1>5, <1>6 DEF ViewInv, IsStatus

LEMMA ReceiveHonest == ASSUME IInv, Receive PROVE HonestInv'
<1>. SUFFICES ASSUME setupFailures = 0, lost = 0 PROVE HonestInv'
  BY ReceiveFacts DEF HonestInv
<1>. DEFINE m == Head(inbox)
<1>0. PICK n \in Nat : n = Len(inbox')
  BY ReceiveFacts, ShiftFacts
<1>1. /\ Len(inbox) = n + 1 /\ inbox[1] = m /\ 1 \in 1..Len(inbox)
      /\ \A i \in 1..n : inbox'[i] = inbox[i + 1] /\ i + 1 \in 1..Len(inbox)
  BY <1>0, ReceiveFacts, ShiftFacts
<1>2. /\ UNCHANGED <<fate, open, setupFailures, lost>>
      /\ closed' = (IF CleanShutdown(m) THEN closed \cup {seen'} ELSE closed)
      /\ seen' = seen \/ (Running(m) /\ seen' = m.print)
      /\ seen' \in 0..MaxPrints
  BY ReceiveFacts, ReceiveSeen DEF Running
<1>3. /\ OnlyEndsAreClosed
      /\ open => /\ seen # 0 => fate[seen] # "killed"
                 /\ \A i \in 1..Len(inbox) : Running(inbox[i]) => fate[inbox[i].print] # "killed"
      /\ \A j \in 1..Len(inbox) : Closing(inbox[j]) =>
           /\ seen # 0 => fate[seen] \in Over
           /\ \A i \in 1..j : Running(inbox[i]) => fate[inbox[i].print] \in Over
  BY DEF IInv, HonestInv
<1>4. CleanShutdown(m) => Closing(m) /\ seen # 0 /\ seen' # 0
  BY ReceiveFacts, ShutdownFacts, ReceiveSeen DEF IInv, SessionInv
<1>. HIDE DEF m
<1>5. \A j \in 1..Len(inbox) : Closing(inbox[j]) /\ seen' # 0 => fate[seen'] \in Over
  <2>1. \A j \in 1..Len(inbox) : 1 \in 1..j
    BY <1>1
  <2>. QED
    BY <1>1, <1>2, <1>3, <2>1
<1>6. OnlyEndsAreClosed'
  <2>1. CleanShutdown(m) => seen' \in Prints /\ fate[seen'] \in Over
    <3>1. CleanShutdown(m) => fate[seen'] \in Over
      BY <1>1, <1>4, <1>5
    <3>2. CleanShutdown(m) => seen' \in Prints
      BY <1>2, <1>4, PrinterAssumption DEF Prints
    <3>. QED
      BY <3>1, <3>2
  <2>. QED
    BY <1>2, <1>3, <2>1 DEF OnlyEndsAreClosed, Over
<1>7. open => /\ seen' # 0 => fate[seen'] # "killed"
              /\ \A i \in 1..n : Running(inbox'[i]) => fate[inbox'[i].print] # "killed"
  BY <1>1, <1>2, <1>3
<1>8. \A j \in 1..n : Closing(inbox'[j]) =>
        /\ seen' # 0 => fate[seen'] \in Over
        /\ \A i \in 1..j : Running(inbox'[i]) => fate[inbox'[i].print] \in Over
  <2>1. \A j \in 1..n : \A i \in 1..j : i \in 1..n /\ i + 1 \in 1..(j + 1)
    BY <1>0
  <2>. QED
    BY <1>1, <1>3, <1>5, <2>1
<1>9. /\ \A i \in 1..n : Running(inbox[i])' <=> Running(inbox'[i])
      /\ \A i \in 1..n : Closing(inbox[i])' <=> Closing(inbox'[i])
  BY DEF Running, Closing, IsStatus
<1>10. \A j \in 1..n : \A i \in 1..j : i \in 1..n
  BY <1>0
<1>. QED
  BY <1>0, <1>2, <1>6, <1>7, <1>8, <1>9, <1>10 DEF HonestInv

LEMMA ReceiveStep == ASSUME IInv, Receive PROVE IInv'
<1>1. MessageInv'
  BY ReceiveFacts, ReceiveSeen, ShiftMessages
<1>. QED
  BY <1>1, ReceiveTypes, ReceiveGate, ReceiveQuiet, ReceiveSession, ReceiveView, ReceiveHonest
     DEF IInv

-----------------------------------------------------------------------------
(* The invariant is one. *)

LEMMA IInvStep == ASSUME IInv, [Next]_vars PROVE IInv'
<1>1. CASE UNCHANGED vars
  <2>1. /\ UNCHANGED <<instance, print, state, loaded, active, atEnd, fate>>
        /\ UNCHANGED <<stats, phase, lostBefore, conn, open, lastSent, inbox>>
        /\ UNCHANGED <<gate, known, recent, recActive, evaluated, est>>
        /\ UNCHANGED <<beats, closed, seen, missed, explained, sources, tailLost>>
        /\ UNCHANGED <<lost, drops, setupFailures>>
    BY <1>1 DEF vars, printerVars, clientVars, linkVars, recorderVars, journalVars, countVars
  <2>2. TypeOK' /\ PrinterInv'
    BY <2>1 DEF IInv, TypeOK, PrinterTypeOK, PrinterInv
  <2>3. MessageInv' /\ ViewInv'
    BY <2>1 DEF IInv, MessageInv, MessageOK, ViewInv, InSession, IsStatus, NoneBetween, SnapshotOK
  <2>4. GateInv' /\ QuietInv' /\ SessionInv'
    BY <2>1 DEF IInv, GateInv, QuietInv, SessionInv, InSession
  <2>5. HonestInv'
    BY <2>1 DEF IInv, HonestInv, OnlyEndsAreClosed, Running, Closing, IsStatus
  <2>. QED
    BY <2>2, <2>3, <2>4, <2>5 DEF IInv
<1>. QED
  BY <1>1, WorldStep, SampleStep, MoveStep, ConnectStep, SubscribeStep, ReceiveStep, SkipStep,
     DoneStep, LoseStep, FailStep, AgeStep
     DEF Next, Client

LEMMA Invariance == Spec => []IInv
<1>1. Init => IInv
  BY InitInv
<1>2. IInv /\ [Next]_vars => IInv'
  BY IInvStep
<1>. QED
  BY <1>1, <1>2, PTL DEF Spec

-----------------------------------------------------------------------------
(* Every value of the session is of its kind: the recorder merges messages *)
(* of any age into known values and journals only prints that started.     *)
THEOREM TypeCorrect == Spec => []TypeOK
<1>1. IInv => TypeOK
  BY DEF IInv
<1>. QED
  BY <1>1, Invariance, PTL

(* A CleanShutdown marker is never journaled for a print that an error     *)
(* stopped or a restart killed, however many messages are in flight when   *)
(* the printer moves on, while each status is understood and no setup is   *)
(* cut short (convert.rs, the three signals and the session gate).         *)
THEOREM ShutdownIsHonest == Spec => []CleanShutdownIsHonest
<1>1. IInv => CleanShutdownIsHonest
  BY DEF IInv, HonestInv, CleanShutdownIsHonest
<1>. QED
  BY <1>1, Invariance, PTL

(* A print the session saw and that ended on purpose is in the journal as  *)
(* ended once nothing is in flight (convert.rs signals 1 and 2).           *)
THEOREM EndReachesTheJournal == Spec => []EndIsJournaled
<1>1. IInv => EndIsJournaled
  <2>. SUFFICES ASSUME IInv, CaughtUp, seen # 0, seen = print, fate[seen] = "ended"
                PROVE  seen \in closed
    BY DEF EndIsJournaled
  <2>1. Len(inbox) = 0 /\ InSession /\ ~missed /\ lastSent = Snapshot
    BY DEF CaughtUp, InSession
  <2>2. NoneBetween(0, Len(inbox) + 1) /\ "loaded" \in FileKeys
    BY <2>1 DEF NoneBetween, FileKeys
  <2>3. known["loaded"] = lastSent["loaded"]
    BY <2>1, <2>2 DEF IInv, ViewInv
  <2>4. known.loaded = loaded
    BY <2>1, <2>3 DEF Snapshot
  <2>5. ~loaded
    <3>1. state \in States /\ ~InProgress(state) /\ state # "error"
      BY DEF IInv, PrinterInv, TypeOK, PrinterTypeOK
    <3>2. Finished(state)
      BY <3>1 DEF Finished, InProgress, States
    <3>. QED
      BY <3>2 DEF IInv, PrinterInv
  <2>. QED
    BY <2>1, <2>4, <2>5 DEF IInv, GateInv
<1>. QED
  BY <1>1, Invariance, PTL

(* A print the session saw and that can still be recovered, paused or      *)
(* failed, is never sampled at the idle cadence (convert.rs regime_active).*)
THEOREM CadenceIsKept == Spec => []LivePrintKeepsCadence
<1>1. IInv => LivePrintKeepsCadence
  BY DEF IInv, GateInv, LivePrintKeepsCadence, Recoverable
<1>. QED
  BY <1>1, Invariance, PTL

(* An outage is marked before the next connection's records, and a live    *)
(* session is never read as a lost one (client.rs run_client).             *)
THEOREM OutagesAreMarked == Spec => []OutageIsMarked
<1>1. IInv => OutageIsMarked
  <2>. SUFFICES ASSUME IInv PROVE setupFailures = 0 => Cardinality(sources) <= 1
    BY DEF IInv, SessionInv, OutageIsMarked
  <2>1. IsFiniteSet({conn}) /\ Cardinality({conn}) = 1
    BY FS_Singleton
  <2>2. setupFailures = 0 => sources \subseteq {conn}
    BY DEF IInv, SessionInv
  <2>. QED
    BY <2>1, <2>2, FS_Subset
<1>. QED
  BY <1>1, Invariance, PTL

(* A beat the WAL thread is given belongs to the klippy of the session and *)
(* a sparse one was explained first, whichever samples a full channel      *)
(* dropped (convert.rs note_regime, client.rs reset_session).              *)
THEOREM HonestBeats == Spec => BeatsAreHonest
<1>1. ASSUME IInv, [Next]_vars, beats' # NoSample
      PROVE  /\ setupFailures = 0 /\ beats' # beats /\ open => beats'.est = instance
             /\ ~beats'.active => explained'
  <2>1. QuietInv' /\ SessionInv'
    BY <1>1, IInvStep DEF IInv
  <2>2. beats' # beats => Receive
    BY <1>1 DEF Next, Client, vars, journalVars, PrinterMoves, KlippyRestarts, Sample, Move,
                SendMessage, Connect, Subscribe, SkipMessage, SetupDone, LoseSession, PausedBeats,
                FailSetup, MotionAges
  <2>3. ASSUME beats' # beats, setupFailures = 0, open PROVE beats'.est = instance
    <3>1. Receive
      BY <2>2, <2>3
    <3>2. est' # NoSample /\ beats' = [est |-> est', active |-> recActive']
      BY <2>3, <3>1, ForwardFacts
    <3>3. setupFailures' = 0 /\ open' /\ instance' = instance
      BY <2>3, <3>1, ReceiveFacts
    <3>4. est' = instance
      BY <2>1, <3>2, <3>3 DEF SessionInv
    <3>. QED
      BY <3>2, <3>4
  <2>. QED
    BY <1>1, <2>1, <2>3 DEF QuietInv
<1>2. IInv /\ [Next]_vars =>
        [beats' # NoSample =>
          /\ setupFailures = 0 /\ beats' # beats /\ open => beats'.est = instance
          /\ ~beats'.active => explained']_vars
  BY <1>1
<1>. QED
  BY <1>2, Invariance, PTL DEF Spec, BeatsAreHonest
=============================================================================
