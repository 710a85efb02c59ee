-------------------------- MODULE WalServiceProofs --------------------------
(***************************************************************************)
(* What the WAL thread's files keep, for every rotation size, any number   *)
(* of sessions, records and beats: a synced record survives every crash    *)
(* and power cut, and the survivors of a session are a prefix of it.       *)
(*                                                                         *)
(* The inductive invariant has three parts: the segments written by one    *)
(* session leave no hole and all but the last are durable (SegsInv), the   *)
(* synced records lie in durable segments (PromiseInv), and the running    *)
(* thread writes at the end of its own stream (RunInv).                    *)
(***************************************************************************)
EXTENDS WalService, HeartbeatFile, SequenceTheorems, TLAPS

Segs == 1..Len(segs)

Ordered ==
  \A i \in Segs : /\ segs[i].lo <= segs[i].synced /\ segs[i].synced <= segs[i].hi
                  /\ segs[i].session <= session

(* Only the newest segment of a session can have an unsynced tail.         *)
Finished ==
  \A i, j \in Segs : i < j /\ segs[i].session = segs[j].session =>
                       segs[i].synced = segs[i].hi /\ segs[i].named

NoHole ==
  \A i \in Segs : \A q \in 1..segs[i].hi :
    \E j \in 1..i : segs[j].session = segs[i].session /\ segs[j].lo < q /\ q <= segs[j].hi

SegsInv == Ordered /\ Finished /\ NoHole

OnMedium(n, r) ==
  \E i \in Segs : /\ segs[i].session = n /\ segs[i].named
                  /\ segs[i].lo < r /\ r <= segs[i].synced

PromiseInv == \A n \in Sessions : \A r \in 1..promised[n] : OnMedium(n, r)

FutureInv == \A n \in Sessions : n > session => appended[n] = 0

Running == svc # "down"
RunInv ==
  Running =>
    /\ session \in Sessions
    /\ Len(segs) > 0
    /\ segs[Len(segs)].session = session
    /\ segs[Len(segs)].hi = appended[session]
    /\ ~dirty => segs[Len(segs)].synced = segs[Len(segs)].hi
    /\ svc \notin {"init", "rotDirSync"} => segs[Len(segs)].named
    /\ svc \in {"rotCreate", "rotDirSync"} => ~dirty
    /\ svc = "beat" => hbSeq > 0

IInv == TypeOK /\ SegsInv /\ PromiseInv /\ FutureInv /\ RunInv

-----------------------------------------------------------------------------
LEMMA SegmentOf ==
  ASSUME TypeOK PROVE Len(segs) \in Nat /\ \A i \in Segs : segs[i] \in Segment
BY ElementOfSeq DEF TypeOK, Segs

LEMMA Fields ==
  ASSUME NEW s \in Segment, NEW u \in Nat
  PROVE  /\ LET b == Survivor(s, u)
            IN  /\ b \in Segment /\ b.session = s.session /\ b.lo = s.lo /\ b.hi = u
                /\ b.synced = u /\ b.named = TRUE
         /\ LET b == [s EXCEPT !.hi = u]
            IN  /\ b \in Segment /\ b.session = s.session /\ b.lo = s.lo /\ b.hi = u
                /\ b.synced = s.synced /\ b.named = s.named
         /\ LET b == [s EXCEPT !.synced = u]
            IN  /\ b \in Segment /\ b.session = s.session /\ b.lo = s.lo /\ b.hi = s.hi
                /\ b.synced = u /\ b.named = s.named
<1>1. s.session \in Sessions /\ s.lo \in Nat /\ s.hi \in Nat /\ s.synced \in Nat /\ s.named \in BOOLEAN
  BY DEF Segment
<1>2. Survivor(s, u) \in Segment /\ [s EXCEPT !.hi = u] \in Segment /\ [s EXCEPT !.synced = u] \in Segment
  BY <1>1 DEF Survivor, Segment
<1>. QED
  BY <1>2 DEF Survivor, Segment

LEMMA Replaced ==
  ASSUME NEW s \in Seq(Segment), NEW m \in 1..Len(s), NEW e \in Segment,
         NEW t, t = [s EXCEPT ![m] = e]
  PROVE  /\ t \in Seq(Segment) /\ Len(t) = Len(s)
         /\ \A i \in 1..Len(s) : t[i] = IF i = m THEN e ELSE s[i]
BY ExceptSeq

LEMMA Grown ==
  ASSUME NEW s \in Seq(Segment), NEW e \in Segment, NEW t, t = Append(s, e)
  PROVE  /\ t \in Seq(Segment) /\ Len(t) = Len(s) + 1
         /\ \A i \in 1..Len(s) : t[i] = s[i]
         /\ t[Len(s) + 1] = e
OBVIOUS

(* NameSegments changes only the names.                                    *)
LEMMA Named ==
  ASSUME TypeOK, NameSegments
  PROVE  /\ segs' \in Seq(Segment) /\ Len(segs') = Len(segs)
         /\ \A i \in Segs : /\ segs'[i].session = segs[i].session
                            /\ segs'[i].lo = segs[i].lo /\ segs'[i].hi = segs[i].hi
                            /\ segs'[i].synced = segs[i].synced /\ segs'[i].named
<1>1. Len(segs) \in Nat /\ \A i \in Segs : segs[i] \in Segment
  BY SegmentOf
<1>2. \A i \in 1..Len(segs) : [segs[i] EXCEPT !.named = TRUE] \in Segment
  BY <1>1 DEF Segment, Segs
<1>3. segs' \in [1..Len(segs) -> Segment]
  BY <1>2 DEF NameSegments
<1>4. segs' \in Seq(Segment) /\ Len(segs') = Len(segs)
  BY <1>1, <1>3
<1>. QED
  BY <1>1, <1>4 DEF NameSegments, Segs, Segment

(* WriteRecord extends the current segment by one.                         *)
LEMMA Written ==
  ASSUME TypeOK, Len(segs) > 0, segs' = [segs EXCEPT ![Current].hi = @ + 1]
  PROVE  /\ segs' \in Seq(Segment) /\ Len(segs') = Len(segs)
         /\ \A i \in Segs : i # Len(segs) => segs'[i] = segs[i]
         /\ LET a == segs[Len(segs)]  b == segs'[Len(segs)]
            IN  /\ b.session = a.session /\ b.lo = a.lo /\ b.synced = a.synced
                /\ b.named = a.named /\ b.hi = a.hi + 1
<1>1. Len(segs) \in Nat /\ Len(segs) \in Segs /\ \A i \in Segs : segs[i] \in Segment
  BY SegmentOf DEF Segs
<1>. DEFINE n == Len(segs)
            a == segs[n]
            b == [a EXCEPT !.hi = a.hi + 1]
<1>2. a \in Segment /\ a.hi + 1 \in Nat
  BY <1>1 DEF Segment
<1>3. segs' = [segs EXCEPT ![n] = b]
  BY DEF Current
<1>4. /\ b \in Segment /\ b.session = a.session /\ b.lo = a.lo /\ b.hi = a.hi + 1
      /\ b.synced = a.synced /\ b.named = a.named
  BY <1>2, Fields
<1>5. segs \in Seq(Segment) /\ n \in 1..Len(segs)
  BY <1>1 DEF TypeOK, Segs
<1>. HIDE DEF a, b, n
<1>6. /\ segs' \in Seq(Segment) /\ Len(segs') = Len(segs)
      /\ \A i \in 1..Len(segs) : segs'[i] = IF i = n THEN b ELSE segs[i]
  <2>1. ASSUME NEW t, t = segs' PROVE
        /\ t \in Seq(Segment) /\ Len(t) = Len(segs)
        /\ \A i \in 1..Len(segs) : t[i] = IF i = n THEN b ELSE segs[i]
    BY <1>3, <1>4, <1>5, <2>1, Replaced
  <2>. QED
    BY <2>1
<1>. QED
  BY <1>1, <1>4, <1>5, <1>6 DEF Segs, n, a

LEMMA Synced ==
  ASSUME TypeOK, Len(segs) > 0,
         segs' = [segs EXCEPT ![Current].synced = segs[Current].hi]
  PROVE  /\ segs' \in Seq(Segment) /\ Len(segs') = Len(segs)
         /\ \A i \in Segs : i # Len(segs) => segs'[i] = segs[i]
         /\ LET a == segs[Len(segs)]  b == segs'[Len(segs)]
            IN  /\ b.session = a.session /\ b.lo = a.lo /\ b.synced = a.hi
                /\ b.named = a.named /\ b.hi = a.hi
<1>1. Len(segs) \in Nat /\ Len(segs) \in Segs /\ \A i \in Segs : segs[i] \in Segment
  BY SegmentOf DEF Segs
<1>. DEFINE n == Len(segs)
            a == segs[n]
            b == [a EXCEPT !.synced = a.hi]
<1>2. a \in Segment /\ a.hi \in Nat
  BY <1>1 DEF Segment
<1>3. segs' = [segs EXCEPT ![n] = b]
  BY DEF Current
<1>4. /\ b \in Segment /\ b.session = a.session /\ b.lo = a.lo /\ b.hi = a.hi
      /\ b.synced = a.hi /\ b.named = a.named
  BY <1>2, Fields
<1>5. segs \in Seq(Segment) /\ n \in 1..Len(segs)
  BY <1>1 DEF TypeOK, Segs
<1>. HIDE DEF a, b, n
<1>6. /\ segs' \in Seq(Segment) /\ Len(segs') = Len(segs)
      /\ \A i \in 1..Len(segs) : segs'[i] = IF i = n THEN b ELSE segs[i]
  <2>1. ASSUME NEW t, t = segs' PROVE
        /\ t \in Seq(Segment) /\ Len(t) = Len(segs)
        /\ \A i \in 1..Len(segs) : t[i] = IF i = n THEN b ELSE segs[i]
    BY <1>3, <1>4, <1>5, <2>1, Replaced
  <2>. QED
    BY <2>1
<1>. QED
  BY <1>1, <1>4, <1>5, <1>6 DEF Segs, n, a

LEMMA Created ==
  ASSUME TypeOK, NEW n \in Sessions, NEW from \in Nat,
         segs' = Append(segs, NewSegment(n, from))
  PROVE  /\ segs' \in Seq(Segment) /\ Len(segs') = Len(segs) + 1
         /\ \A i \in Segs : segs'[i] = segs[i]
         /\ LET b == segs'[Len(segs) + 1]
            IN  b.session = n /\ b.lo = from /\ b.hi = from /\ b.synced = from
<1>1. NewSegment(n, from) \in Segment
  BY DEF NewSegment, Segment
<1>2. segs \in Seq(Segment)
  BY DEF TypeOK
<1>3. /\ segs' \in Seq(Segment) /\ Len(segs') = Len(segs) + 1
      /\ \A i \in 1..Len(segs) : segs'[i] = segs[i]
      /\ segs'[Len(segs) + 1] = NewSegment(n, from)
  BY <1>1, <1>2, Grown
<1>. QED
  BY <1>3 DEF NewSegment, Segs

(* A power cut keeps what is synced, and a prefix of the rest.             *)
LEMMA Cut ==
  ASSUME TypeOK, Ordered, PowerCut
  PROVE  /\ segs' \in Seq(Segment) /\ Len(segs') <= Len(segs)
         /\ \A i \in Segs : i > Len(segs') => ~segs[i].named
         /\ \A i \in 1..Len(segs') :
              /\ segs'[i].session = segs[i].session /\ segs'[i].lo = segs[i].lo
              /\ segs'[i].hi <= segs[i].hi /\ segs'[i].synced = segs'[i].hi
              /\ segs[i].synced <= segs'[i].hi /\ segs'[i].named
<1>1. Len(segs) \in Nat /\ \A i \in Segs : segs[i] \in Segment
  BY SegmentOf
<1>2. PICK n \in 0..Len(segs), k \in [1..Len(segs) -> 0..MaxAppends] :
        /\ \A i \in (n + 1)..Len(segs) : ~segs[i].named
        /\ \A i \in 1..Len(segs) : k[i] \in segs[i].synced..segs[i].hi
        /\ segs' = [i \in 1..n |-> Survivor(segs[i], k[i])]
  <2> DEFINE keeps == {k \in [1..Len(segs) -> 0..MaxAppends] :
                         \A i \in 1..Len(segs) : k[i] \in segs[i].synced..segs[i].hi}
             lasts == {n \in 0..Len(segs) : \A i \in (n + 1)..Len(segs) : ~segs[i].named}
             cut(n, k) == [i \in 1..n |-> Survivor(segs[i], k[i])]
  <2>1. segs' \in {cut(n, k) : n \in lasts, k \in keeps}
    BY DEF PowerCut, Images
  <2>2. \E n \in lasts : \E k \in keeps : segs' = cut(n, k)
    <3> HIDE DEF keeps, lasts, cut
    <3>. QED
      BY <2>1
  <2>. QED
    BY <2>2
<1>3. \A i \in 1..n : /\ segs[i] \in Segment
                      /\ k[i] \in Nat /\ segs[i].synced <= k[i] /\ k[i] <= segs[i].hi
  BY <1>1, <1>2 DEF Segs, Segment
<1>4. \A i \in 1..n : LET b == Survivor(segs[i], k[i]) IN
        /\ b \in Segment /\ b.session = segs[i].session /\ b.lo = segs[i].lo
        /\ b.hi = k[i] /\ b.synced = k[i] /\ b.named = TRUE
  <2>. SUFFICES ASSUME NEW i \in 1..n
       PROVE LET b == Survivor(segs[i], k[i]) IN
        /\ b \in Segment /\ b.session = segs[i].session /\ b.lo = segs[i].lo
        /\ b.hi = k[i] /\ b.synced = k[i] /\ b.named = TRUE
    OBVIOUS
  <2>1. segs[i] \in Segment /\ k[i] \in Nat
    BY <1>3
  <2>. QED
    BY <2>1, Fields
<1>5. segs' \in Seq(Segment) /\ Len(segs') = n /\ n <= Len(segs)
  BY <1>1, <1>2, <1>4
<1>6. \A i \in 1..n : segs'[i] = Survivor(segs[i], k[i])
  BY <1>2
<1>7. \A i \in Segs : i > n => ~segs[i].named
  BY <1>1, <1>2 DEF Segs
<1>. HIDE DEF Survivor
<1>. QED
  BY <1>3, <1>4, <1>5, <1>6, <1>7
-----------------------------------------------------------------------------
(* Type correctness.                                                       *)
otherVars == <<hbData, hbSeq, lastWalHb, pfAppend, pfSeen, pfBeats>>

LEMMA WriteRecordType ==
  ASSUME TypeOK, RunInv, Running, NEW policy \in SyncPolicy, WriteRecord(policy)
  PROVE  /\ svc' \in Control /\ session' \in 0..MaxSessions /\ segs' \in Seq(Segment)
         /\ dirty' \in BOOLEAN /\ batchArmed' \in BOOLEAN
         /\ appended' \in [Sessions -> Nat] /\ promised' \in [Sessions -> Nat]
<1>1. session \in Sessions /\ Len(segs) > 0
  BY DEF RunInv
<1>2. segs' \in Seq(Segment)
  BY <1>1, Written DEF WriteRecord
<1>3. batchArmed' \in BOOLEAN
  BY Zenon DEF WriteRecord, ArmsBatch
<1>. QED
  BY <1>1, <1>2, <1>3 DEF WriteRecord, AfterWrite, Control, TypeOK, SyncPolicy

LEMMA SyncSegmentType ==
  ASSUME TypeOK, RunInv, Running, SyncSegment
  PROVE  /\ session' \in 0..MaxSessions /\ segs' \in Seq(Segment)
         /\ dirty' \in BOOLEAN /\ batchArmed' \in BOOLEAN
         /\ appended' \in [Sessions -> Nat] /\ promised' \in [Sessions -> Nat]
         /\ UNCHANGED otherVars
<1>1. session \in Sessions /\ Len(segs) > 0
  BY DEF RunInv
<1>2. segs' \in Seq(Segment)
  <2>1. CASE dirty
    BY <1>1, <2>1, Synced DEF SyncSegment
  <2>2. CASE ~dirty
    BY <2>2 DEF SyncSegment, TypeOK
  <2>. QED
    BY <2>1, <2>2
<1>. QED
  BY <1>1, <1>2 DEF SyncSegment, TypeOK, otherVars, beatVars, powerVars

LEMMA InputTypes ==
  ASSUME NEW cmd \in Inputs
  PROVE  cmd.data \in HbSamples \cup {NoData} /\ cmd.sync \in SyncPolicy
BY DEF Inputs, AppendCmd, MarkerCmd, ShutdownCmd, ReceiveSeqCmd, HeartbeatCmd, SyncPolicy

LEMMA TypeStep == TypeOK /\ Ordered /\ RunInv /\ [Next]_vars => TypeOK'
<1>. SUFFICES ASSUME TypeOK, Ordered, RunInv, [Next]_vars PROVE TypeOK'
  OBVIOUS
<1>1. CASE Boot
  <2>1. session + 1 \in Sessions /\ 0 \in Nat
    BY <1>1, ServiceAssumption DEF Boot, TypeOK, Sessions
  <2>2. segs' \in Seq(Segment)
    BY <1>1, <2>1, Created DEF Boot
  <2>3. session' \in 0..MaxSessions /\ svc' \in Control
    BY <1>1, <2>1, ServiceAssumption DEF Boot, Control, Sessions, TypeOK
  <2>. QED
    BY <1>1, <2>2, <2>3 DEF Boot, TypeOK
<1>2. ASSUME NEW cmd \in Inputs, Handle(cmd) PROVE TypeOK'
  <2>1. CASE HandleAppend(cmd)
    <3>1. WriteRecord(cmd.sync) /\ Running /\ cmd.sync \in SyncPolicy
      BY <2>1, InputTypes DEF HandleAppend, Running
    <3>2. pfAppend' \in BOOLEAN
      BY <2>1, Zenon DEF HandleAppend, IsPowerFailing
    <3>3. UNCHANGED <<hbData, hbSeq, lastWalHb, pfSeen, pfBeats>>
      BY <2>1, Zenon DEF HandleAppend, beatVars
    <3>4. /\ svc' \in Control /\ session' \in 0..MaxSessions /\ segs' \in Seq(Segment)
            /\ dirty' \in BOOLEAN /\ batchArmed' \in BOOLEAN
            /\ appended' \in [Sessions -> Nat] /\ promised' \in [Sessions -> Nat]
      BY <3>1, WriteRecordType
    <3>. QED
      BY <3>2, <3>3, <3>4 DEF TypeOK
  <2>2. CASE SkipAppend(cmd) \/ HandleReceiveSeq(cmd)
    BY <2>2 DEF SkipAppend, HandleReceiveSeq, TypeOK, vars, fileVars, beatVars, powerVars
  <2>3. CASE HandleHeartbeat(cmd)
    BY <2>3, InputTypes DEF HandleHeartbeat, TypeOK, fileVars, powerVars
  <2>4. CASE HandleShutdown(cmd)
    BY <2>4 DEF HandleShutdown, TypeOK, Control, fileVars, beatVars, powerVars
  <2>. QED
    BY <1>2, <2>1, <2>2, <2>3, <2>4 DEF Handle
<1>3. CASE BootDirSync \/ RotateDirSync
  <2>1. segs' \in Seq(Segment)
    BY <1>3, Named DEF BootDirSync, RotateDirSync
  <2>. QED
    BY <1>3, <2>1 DEF BootDirSync, RotateDirSync, AfterAppend, TypeOK, Control, beatVars, powerVars
<1>4. CASE SyncNow \/ BatchSync \/ CloseDown \/ RotateSync
  BY <1>4, SyncSegmentType
    DEF SyncNow, BatchSync, CloseDown, RotateSync, Running, TypeOK, Control, otherVars
<1>5. CASE CheckRotate \/ ThreadExit
  BY <1>5 DEF CheckRotate, ThreadExit, AfterAppend, RotationStart, TypeOK, Control, fileVars, beatVars, powerVars
<1>6. CASE RotateCreate
  <2>1. session \in Sessions /\ appended[session] \in Nat
    BY <1>6 DEF RotateCreate, RunInv, Running, TypeOK
  <2>2. segs' \in Seq(Segment)
    BY <1>6, <2>1, Created DEF RotateCreate
  <2>. QED
    BY <1>6, <2>2 DEF RotateCreate, AfterCreate, TypeOK, Control, beatVars, powerVars
<1>7. CASE ForceBeat \/ Tick
  <2>1. hbSeq' \in Nat /\ pfBeats' \in Nat
    BY <1>7 DEF ForceBeat, Tick, WriteBeat, TypeOK
  <2>2. svc' \in Control /\ pfAppend' \in BOOLEAN /\ pfSeen' \in BOOLEAN /\ lastWalHb' = lastWalHb
    BY <1>7 DEF ForceBeat, Tick, TypeOK, Control
  <2>3. UNCHANGED <<session, segs, appended, promised, dirty, batchArmed, hbData>>
    BY <1>7 DEF ForceBeat, Tick, WriteBeat, fileVars
  <2>. QED
    BY <2>1, <2>2, <2>3 DEF TypeOK
<1>8. CASE RecordBeat
  <2>1. WriteRecord("Batched") /\ Running /\ "Batched" \in SyncPolicy
    BY <1>8 DEF RecordBeat, Running, SyncPolicy
  <2>2. hbSeq - 1 \in Nat
    BY <1>8 DEF RecordBeat, RunInv, Running, TypeOK
  <2>3. /\ svc' \in Control /\ session' \in 0..MaxSessions /\ segs' \in Seq(Segment)
          /\ dirty' \in BOOLEAN /\ batchArmed' \in BOOLEAN
          /\ appended' \in [Sessions -> Nat] /\ promised' \in [Sessions -> Nat]
    BY <2>1, WriteRecordType
  <2>. QED
    BY <1>8, <2>2, <2>3 DEF RecordBeat, BeatWritten, TypeOK, powerVars
<1>9. CASE UNCHANGED vars
  BY <1>9 DEF TypeOK, vars, fileVars, beatVars, powerVars
<1>10. CASE PowerCut
  BY <1>10, Cut DEF PowerCut, TypeOK, Control, beatVars, powerVars
<1>. QED
  BY <1>1, <1>2, <1>3, <1>4, <1>5, <1>6, <1>7, <1>8, <1>9, <1>10 DEF Next, Work
-----------------------------------------------------------------------------
(* Steps that leave the files alone.                                       *)
LEMMA QuietStep ==
  ASSUME SegsInv, PromiseInv, FutureInv, UNCHANGED <<session, fileVars>>
  PROVE  SegsInv' /\ PromiseInv' /\ FutureInv'
BY DEF SegsInv, Ordered, Finished, NoHole, Segs, PromiseInv, OnMedium, FutureInv, fileVars

(* Steps that only make names durable.                                     *)
LEMMA NamedStep ==
  ASSUME TypeOK, SegsInv, PromiseInv, FutureInv,
         NameSegments, UNCHANGED <<session, appended, promised>>
  PROVE  SegsInv' /\ PromiseInv' /\ FutureInv'
<1>1. /\ Len(segs') = Len(segs)
      /\ \A i \in Segs : /\ segs'[i].session = segs[i].session
                         /\ segs'[i].lo = segs[i].lo /\ segs'[i].hi = segs[i].hi
                         /\ segs'[i].synced = segs[i].synced /\ segs'[i].named
  BY Named
<1>2. Segs' = Segs
  BY <1>1 DEF Segs
<1>3. Ordered' /\ Finished'
  BY <1>1, <1>2 DEF SegsInv, Ordered, Finished
<1>4. NoHole'
  <2>. SUFFICES ASSUME NEW i \in Segs, NEW q \in 1..segs'[i].hi
       PROVE \E j \in 1..i : segs'[j].session = segs'[i].session /\ segs'[j].lo < q /\ q <= segs'[j].hi
    BY <1>2 DEF NoHole
  <2>1. PICK j \in 1..i : segs[j].session = segs[i].session /\ segs[j].lo < q /\ q <= segs[j].hi
    BY <1>1 DEF SegsInv, NoHole
  <2>2. j \in Segs
    BY SegmentOf DEF Segs
  <2>. QED
    BY <1>1, <2>1, <2>2
<1>5. PromiseInv' /\ FutureInv'
  BY <1>1, <1>2 DEF PromiseInv, OnMedium, FutureInv
<1>. QED
  BY <1>3, <1>4, <1>5 DEF SegsInv

(* A record appended to the current segment.                               *)
LEMMA WriteStep ==
  ASSUME TypeOK, SegsInv, PromiseInv, FutureInv, RunInv, Running,
         NEW policy, WriteRecord(policy)
  PROVE  /\ SegsInv' /\ PromiseInv' /\ FutureInv'
         /\ Len(segs') > 0 /\ segs'[Len(segs')].session = session'
         /\ segs'[Len(segs')].hi = appended'[session'] /\ dirty'
         /\ segs'[Len(segs')].named = segs[Len(segs)].named
<1>0. /\ session \in Sessions /\ session' = session /\ Len(segs) > 0 /\ Len(segs) \in Nat
      /\ segs[Len(segs)].session = session /\ segs[Len(segs)].hi = appended[session]
      /\ \A i \in Segs : segs[i] \in Segment
  BY SegmentOf DEF RunInv, WriteRecord
<1>1. /\ Len(segs') = Len(segs) /\ Segs' = Segs
      /\ \A i \in Segs : i # Len(segs) => segs'[i] = segs[i]
      /\ LET a == segs[Len(segs)]  b == segs'[Len(segs)]
         IN  /\ b.session = a.session /\ b.lo = a.lo /\ b.synced = a.synced
             /\ b.named = a.named /\ b.hi = a.hi + 1
  BY <1>0, Written DEF WriteRecord, Segs
<1>2. \A i \in Segs : /\ segs[i].lo \in Nat /\ segs[i].hi \in Nat /\ segs[i].synced \in Nat
  BY <1>0 DEF Segment
<1>3. Ordered'
  BY <1>0, <1>1, <1>2 DEF SegsInv, Ordered, Segs
<1>4. Finished'
  BY <1>0, <1>1 DEF SegsInv, Finished, Segs
<1>5. NoHole'
  <2>. SUFFICES ASSUME NEW i \in Segs, NEW q \in 1..segs'[i].hi
       PROVE \E j \in 1..i : segs'[j].session = segs'[i].session /\ segs'[j].lo < q /\ q <= segs'[j].hi
    BY <1>1 DEF NoHole
  <2>1. CASE q \in 1..segs[i].hi
    <3>1. PICK j \in 1..i : segs[j].session = segs[i].session /\ segs[j].lo < q /\ q <= segs[j].hi
      BY <2>1 DEF SegsInv, NoHole
    <3>2. j \in Segs
      BY <1>0 DEF Segs
    <3>. QED
      BY <1>0, <1>1, <1>2, <3>1, <3>2 DEF Segs
  <2>2. CASE q \notin 1..segs[i].hi
    <3>1. i = Len(segs) /\ q = segs[i].hi + 1
      BY <1>0, <1>1, <1>2, <2>2 DEF Segs
    <3>2. segs[i].lo <= segs[i].hi
      BY <1>2 DEF SegsInv, Ordered
    <3>. QED
      BY <1>0, <1>1, <1>2, <3>1, <3>2 DEF Segs
  <2>. QED
    BY <2>1, <2>2
<1>6. PromiseInv'
  BY <1>0, <1>1 DEF PromiseInv, OnMedium, WriteRecord, Segs
<1>7. FutureInv' /\ appended'[session] = appended[session] + 1
  BY <1>0 DEF FutureInv, WriteRecord, TypeOK, Sessions
<1>. QED
  BY <1>0, <1>1, <1>3, <1>4, <1>5, <1>6, <1>7 DEF SegsInv, WriteRecord

(* sync_segment: everything this session appended is on the medium.        *)
LEMMA SyncStep ==
  ASSUME TypeOK, SegsInv, PromiseInv, FutureInv, RunInv, Running,
         svc \notin {"init", "rotDirSync"}, SyncSegment
  PROVE  /\ SegsInv' /\ PromiseInv' /\ FutureInv'
         /\ Len(segs') > 0 /\ segs'[Len(segs')].session = session'
         /\ segs'[Len(segs')].hi = appended'[session'] /\ ~dirty'
         /\ segs'[Len(segs')].synced = segs'[Len(segs')].hi
         /\ segs'[Len(segs')].named
<1>0. /\ session \in Sessions /\ session' = session /\ Len(segs) > 0 /\ Len(segs) \in Nat
      /\ segs[Len(segs)].session = session /\ segs[Len(segs)].hi = appended[session]
      /\ \A i \in Segs : segs[i] \in Segment
      /\ segs[Len(segs)].named
      /\ appended' = appended /\ ~dirty'
  BY SegmentOf DEF RunInv, SyncSegment
<1>1. /\ Len(segs') = Len(segs) /\ Segs' = Segs
      /\ \A i \in Segs : i # Len(segs) => segs'[i] = segs[i]
      /\ LET a == segs[Len(segs)]  b == segs'[Len(segs)]
         IN  /\ b.session = a.session /\ b.lo = a.lo /\ b.synced = a.hi
             /\ b.named = a.named /\ b.hi = a.hi
  <2>1. CASE dirty
    BY <1>0, <2>1, Synced DEF SyncSegment, Segs
  <2>2. CASE ~dirty
    BY <1>0, <2>2 DEF SyncSegment, Segs, RunInv
  <2>. QED
    BY <2>1, <2>2
<1>2. \A i \in Segs : /\ segs[i].lo \in Nat /\ segs[i].hi \in Nat /\ segs[i].synced \in Nat
  BY <1>0 DEF Segment
<1>3. Ordered'
  BY <1>0, <1>1, <1>2 DEF SegsInv, Ordered, Segs
<1>4. Finished'
  BY <1>0, <1>1 DEF SegsInv, Finished, Segs
<1>5. \A i \in Segs : /\ segs'[i].session = segs[i].session /\ segs'[i].lo = segs[i].lo
                       /\ segs'[i].hi = segs[i].hi /\ segs[i].synced <= segs'[i].synced
                       /\ segs'[i].named = segs[i].named
  <2>. TAKE i \in Segs
  <2>1. CASE i = Len(segs)
    BY <1>1, <1>2, <2>1 DEF SegsInv, Ordered
  <2>2. CASE i # Len(segs)
    BY <1>1, <1>2, <2>2
  <2>. QED
    BY <2>1, <2>2
<1>6. NoHole'
  <2>. SUFFICES ASSUME NEW i \in Segs, NEW q \in 1..segs'[i].hi
       PROVE \E j \in 1..i : segs'[j].session = segs'[i].session /\ segs'[j].lo < q /\ q <= segs'[j].hi
    BY <1>1 DEF NoHole
  <2>1. PICK j \in 1..i : segs[j].session = segs[i].session /\ segs[j].lo < q /\ q <= segs[j].hi
    BY <1>5 DEF SegsInv, NoHole
  <2>2. j \in Segs
    BY <1>0 DEF Segs
  <2>. QED
    BY <1>5, <2>1, <2>2
<1>7. PromiseInv'
  <2>. SUFFICES ASSUME NEW n \in Sessions, NEW r \in 1..promised'[n]
       PROVE OnMedium(n, r)'
    BY DEF PromiseInv
  <2>1. CASE n # session
    <3>1. r \in 1..promised[n]
      BY <1>0, <2>1 DEF SyncSegment, TypeOK
    <3>2. PICK i \in Segs : /\ segs[i].session = n /\ segs[i].named
                            /\ segs[i].lo < r /\ r <= segs[i].synced
      BY <3>1 DEF PromiseInv, OnMedium
    <3>3. r <= segs'[i].synced
      <4>1. segs'[i].synced = segs[i].synced
        BY <1>0, <1>1, <2>1, <3>2
      <4>. QED
        BY <3>2, <4>1
    <3>. QED
      BY <1>1, <1>5, <3>2, <3>3 DEF OnMedium
  <2>2. CASE n = session
    <3>1. r \in 1..segs[Len(segs)].hi
      BY <1>0, <2>2 DEF SyncSegment, TypeOK
    <3>2. PICK j \in 1..Len(segs) :
            segs[j].session = session /\ segs[j].lo < r /\ r <= segs[j].hi
      BY <1>0, <3>1 DEF SegsInv, NoHole, Segs
    <3>3. segs'[j].synced = segs[j].hi /\ segs[j].named
      BY <1>0, <1>1, <3>2 DEF SegsInv, Finished, Segs
    <3>. QED
      BY <1>1, <1>5, <2>2, <3>2, <3>3 DEF OnMedium, Segs
  <2>. QED
    BY <2>1, <2>2
<1>8. FutureInv'
  BY <1>0 DEF FutureInv
<1>. QED
  BY <1>0, <1>1, <1>3, <1>4, <1>6, <1>7, <1>8 DEF SegsInv

(* A new segment starts where its session's stream stands.                 *)
LEMMA CreateStep ==
  ASSUME TypeOK, SegsInv, PromiseInv, FutureInv,
         NEW n \in Sessions, n >= session, session' = n,
         segs' = Append(segs, NewSegment(n, appended[n])),
         UNCHANGED <<appended, promised>>,
         \/ n > session
         \/ /\ Len(segs) > 0 /\ segs[Len(segs)].session = n
            /\ segs[Len(segs)].hi = appended[n]
            /\ segs[Len(segs)].synced = segs[Len(segs)].hi /\ segs[Len(segs)].named
  PROVE  /\ SegsInv' /\ PromiseInv' /\ FutureInv'
         /\ Len(segs') > 0 /\ segs'[Len(segs')].session = session'
         /\ segs'[Len(segs')].hi = appended'[session']
         /\ segs'[Len(segs')].synced = segs'[Len(segs')].hi
<1>. DEFINE new == Len(segs) + 1
<1>0. /\ Len(segs) \in Nat /\ appended[n] \in Nat /\ session \in Nat /\ n \in Nat
      /\ \A i \in Segs : segs[i] \in Segment
  BY SegmentOf DEF TypeOK, Sessions
<1>1. /\ Len(segs') = new /\ Segs' = Segs \cup {new} /\ new \notin Segs
      /\ \A i \in Segs : segs'[i] = segs[i]
      /\ segs'[new].session = n /\ segs'[new].lo = appended[n]
      /\ segs'[new].hi = appended[n] /\ segs'[new].synced = appended[n]
  BY <1>0, Created DEF Segs
<1>2. \A i \in Segs : /\ segs[i].lo \in Nat /\ segs[i].hi \in Nat /\ segs[i].synced \in Nat
                       /\ segs[i].session \in Nat
  BY <1>0 DEF Segment, Sessions
<1>3. Ordered'
  <2>. SUFFICES ASSUME NEW i \in Segs'
       PROVE  /\ segs'[i].lo <= segs'[i].synced /\ segs'[i].synced <= segs'[i].hi
              /\ segs'[i].session <= n
    BY DEF Ordered
  <2>1. CASE i \in Segs
    <3>1. segs[i].lo <= segs[i].synced /\ segs[i].synced <= segs[i].hi /\ segs[i].session <= session
      BY <2>1 DEF SegsInv, Ordered
    <3>2. segs[i].session <= n
      BY <1>0, <1>2, <2>1, <3>1
    <3>. QED
      BY <1>1, <2>1, <3>1, <3>2
  <2>2. CASE i = new
    BY <1>0, <1>1, <2>2
  <2>. QED
    BY <1>1, <2>1, <2>2
<1>4. \A i \in Segs : segs[i].session = n => segs[i].synced = segs[i].hi /\ segs[i].named
  BY <1>0, <1>2 DEF SegsInv, Ordered, Finished, Segs
<1>5. Finished'
  BY <1>0, <1>1, <1>4 DEF SegsInv, Finished, Segs
<1>6. n > session => appended[n] = 0
  BY DEF FutureInv
<1>7. NoHole'
  <2>. SUFFICES ASSUME NEW i \in Segs', NEW q \in 1..segs'[i].hi
       PROVE \E j \in 1..i : segs'[j].session = segs'[i].session /\ segs'[j].lo < q /\ q <= segs'[j].hi
    BY DEF NoHole
  <2>1. CASE i \in Segs
    <3>1. PICK j \in 1..i : segs[j].session = segs[i].session /\ segs[j].lo < q /\ q <= segs[j].hi
      BY <1>1, <2>1 DEF SegsInv, NoHole
    <3>2. j \in Segs
      BY <1>0, <2>1 DEF Segs
    <3>. QED
      BY <1>1, <2>1, <3>1, <3>2
  <2>2. CASE i = new
    <3>1. Len(segs) > 0 /\ segs[Len(segs)].session = n /\ segs[Len(segs)].hi = appended[n]
      BY <1>0, <1>1, <1>6, <2>2
    <3>2. PICK j \in 1..Len(segs) : segs[j].session = n /\ segs[j].lo < q /\ q <= segs[j].hi
      BY SMTT(30), <1>0, <1>1, <2>2, <3>1 DEF SegsInv, NoHole, Segs
    <3>. QED
      BY <1>0, <1>1, <2>2, <3>2 DEF Segs
  <2>. QED
    BY <1>1, <2>1, <2>2
<1>8. PromiseInv'
  <2>. SUFFICES ASSUME NEW m \in Sessions, NEW r \in 1..promised[m]
       PROVE OnMedium(m, r)'
    BY DEF PromiseInv
  <2>1. PICK i \in Segs : /\ segs[i].session = m /\ segs[i].named
                          /\ segs[i].lo < r /\ r <= segs[i].synced
    BY DEF PromiseInv, OnMedium
  <2>. QED
    BY <1>1, <2>1 DEF OnMedium
<1>9. FutureInv'
  BY <1>0 DEF FutureInv, Sessions
<1>. QED
  BY <1>0, <1>1, <1>3, <1>5, <1>7, <1>8, <1>9 DEF SegsInv

(* A power cut keeps every synced record and makes no hole.                *)
LEMMA CutStep ==
  ASSUME TypeOK, SegsInv, PromiseInv, FutureInv, PowerCut
  PROVE  SegsInv' /\ PromiseInv' /\ FutureInv'
<1>0. Len(segs) \in Nat /\ \A i \in Segs : segs[i] \in Segment
  BY SegmentOf
<1>1. /\ segs' \in Seq(Segment) /\ Len(segs') <= Len(segs) /\ Len(segs') \in Nat
      /\ \A i \in Segs : i > Len(segs') => ~segs[i].named
      /\ \A i \in 1..Len(segs') :
           /\ segs'[i].session = segs[i].session /\ segs'[i].lo = segs[i].lo
           /\ segs'[i].hi <= segs[i].hi /\ segs'[i].synced = segs'[i].hi
           /\ segs[i].synced <= segs'[i].hi /\ segs'[i].named
  BY Cut DEF SegsInv
<1>2. \A i \in 1..Len(segs') : i \in Segs /\ segs'[i] \in Segment
  BY <1>0, <1>1, ElementOfSeq DEF Segs
<1>3. \A i \in Segs : /\ segs[i].lo \in Nat /\ segs[i].hi \in Nat /\ segs[i].synced \in Nat
  BY <1>0 DEF Segment
<1>4. \A i \in 1..Len(segs') : segs'[i].lo \in Nat /\ segs'[i].hi \in Nat
  BY <1>2 DEF Segment
<1>5. session' = session /\ appended' = appended /\ promised' = promised
  BY DEF PowerCut
<1>6. Ordered' /\ Finished'
  <2>1. ASSUME NEW i \in 1..Len(segs')
        PROVE  /\ segs'[i].lo <= segs'[i].synced /\ segs'[i].synced <= segs'[i].hi
               /\ segs'[i].session <= session
    <3>1. i \in Segs /\ segs[i].lo <= segs[i].synced /\ segs[i].session <= session
      BY <1>2 DEF SegsInv, Ordered
    <3>. QED
      BY <1>1, <1>3, <1>4, <3>1
  <2>2. Ordered'
    BY <1>5, <2>1 DEF Ordered, Segs
  <2>3. Finished'
    BY <1>1 DEF Finished, Segs
  <2>. QED
    BY <2>2, <2>3
<1>7. NoHole'
  <2>. SUFFICES ASSUME NEW i \in 1..Len(segs'), NEW q \in 1..segs'[i].hi
       PROVE \E j \in 1..i : segs'[j].session = segs'[i].session /\ segs'[j].lo < q /\ q <= segs'[j].hi
    BY DEF NoHole, Segs
  <2>1. i \in Segs /\ q \in 1..segs[i].hi
    BY <1>1, <1>2, <1>3, <1>4
  <2>2. PICK j \in 1..i : segs[j].session = segs[i].session /\ segs[j].lo < q /\ q <= segs[j].hi
    BY <2>1 DEF SegsInv, NoHole
  <2>3. j \in 1..Len(segs') /\ j \in Segs
    BY <1>1, <1>2
  <2>4. q <= segs'[j].hi
    <3>1. CASE j = i
      BY <3>1
    <3>2. CASE j < i
      <4>1. segs[j].synced = segs[j].hi
        BY <2>1, <2>2, <2>3, <3>2 DEF SegsInv, Finished
      <4>. QED
        BY <1>1, <1>3, <1>4, <2>2, <2>3, <4>1
    <3>. QED
      BY <3>1, <3>2
  <2>. QED
    BY <1>1, <2>2, <2>3, <2>4
<1>8. PromiseInv'
  <2>. SUFFICES ASSUME NEW n \in Sessions, NEW r \in 1..promised[n]
       PROVE OnMedium(n, r)'
    BY <1>5 DEF PromiseInv
  <2>1. PICK i \in Segs : /\ segs[i].session = n /\ segs[i].named
                          /\ segs[i].lo < r /\ r <= segs[i].synced
    BY DEF PromiseInv, OnMedium
  <2>2. i \in 1..Len(segs')
    BY <1>0, <1>1, <2>1 DEF Segs
  <2>3. r <= segs'[i].synced
    BY <1>1, <1>3, <1>4, <2>1, <2>2
  <2>. QED
    BY <1>1, <2>1, <2>2, <2>3 DEF OnMedium, Segs
<1>9. FutureInv'
  BY <1>5 DEF FutureInv
<1>. QED
  BY <1>6, <1>7, <1>8, <1>9 DEF SegsInv
-----------------------------------------------------------------------------
LEMMA StrongInit == Init => IInv
<1>. SUFFICES ASSUME Init PROVE IInv
  OBVIOUS
<1>1. TypeOK
  <2>1. <<>> \in Seq(Segment) /\ 0 \in 0..MaxSessions
    BY ServiceAssumption
  <2>2. segs \in Seq(Segment) /\ session \in 0..MaxSessions /\ svc \in Control
    BY <2>1 DEF Init, Control
  <2>. QED
    BY <2>2 DEF Init, TypeOK
<1>2. Len(segs) = 0
  BY DEF Init
<1>. QED
  BY <1>1, <1>2 DEF Init, IInv, SegsInv, Ordered, Finished, NoHole, Segs, PromiseInv,
                    FutureInv, RunInv, Running

LEMMA StrongStep == IInv /\ [Next]_vars => IInv'
<1>. SUFFICES ASSUME IInv, [Next]_vars PROVE IInv'
  OBVIOUS
<1>. USE DEF IInv
<1>0. TypeOK'
  BY TypeStep DEF SegsInv
<1>1. CASE Boot
  <2>1. /\ session + 1 \in Sessions /\ session + 1 > session
        /\ appended[session + 1] = 0
    BY <1>1, ServiceAssumption DEF Boot, TypeOK, Sessions, FutureInv
  <2>2. segs' = Append(segs, NewSegment(session + 1, appended[session + 1]))
    BY <1>1, <2>1 DEF Boot
  <2>3. /\ SegsInv' /\ PromiseInv' /\ FutureInv'
        /\ Len(segs') > 0 /\ segs'[Len(segs')].session = session'
        /\ segs'[Len(segs')].hi = appended'[session']
        /\ segs'[Len(segs')].synced = segs'[Len(segs')].hi
    BY <1>1, <2>1, <2>2, CreateStep DEF Boot, TypeOK
  <2>. QED
    BY <1>0, <1>1, <2>1, <2>3 DEF Boot, RunInv
<1>2. ASSUME NEW cmd \in Inputs, Handle(cmd) PROVE IInv'
  <2>1. CASE HandleAppend(cmd)
    <3>1. WriteRecord(cmd.sync) /\ svc = "run" /\ Running
      BY <2>1 DEF HandleAppend, Running
    <3>2. /\ SegsInv' /\ PromiseInv' /\ FutureInv'
          /\ Len(segs') > 0 /\ segs'[Len(segs')].session = session'
          /\ segs'[Len(segs')].hi = appended'[session'] /\ dirty'
          /\ segs'[Len(segs')].named = segs[Len(segs)].named
      BY <3>1, WriteStep
    <3>. QED
      BY <1>0, <3>1, <3>2 DEF RunInv, WriteRecord, AfterWrite
  <2>2. CASE SkipAppend(cmd) \/ HandleReceiveSeq(cmd) \/ HandleHeartbeat(cmd) \/ HandleShutdown(cmd)
    <3>1. UNCHANGED <<session, fileVars, dirty>> /\ svc' \in {"run", "closing"} /\ svc = "run"
      BY <2>2 DEF SkipAppend, HandleReceiveSeq, HandleHeartbeat, HandleShutdown, vars
    <3>. QED
      BY <1>0, <3>1, QuietStep DEF RunInv, Running, fileVars
  <2>. QED
    BY <1>2, <2>1, <2>2 DEF Handle
<1>3. CASE BootDirSync \/ RotateDirSync
  <2>1. /\ NameSegments /\ UNCHANGED <<session, appended, promised, dirty>>
        /\ Running /\ svc' \in {"run", "force"}
    BY <1>3 DEF BootDirSync, RotateDirSync, AfterAppend, Running
  <2>2. SegsInv' /\ PromiseInv' /\ FutureInv'
    BY <2>1, NamedStep
  <2>3. /\ Len(segs') = Len(segs) /\ Len(segs) \in Nat
        /\ Len(segs) > 0 => LET a == segs[Len(segs)]  b == segs'[Len(segs)]
             IN b.session = a.session /\ b.hi = a.hi /\ b.synced = a.synced /\ b.named
    BY <2>1, Named, SegmentOf DEF Segs
  <2>. QED
    BY <1>0, <2>1, <2>2, <2>3 DEF RunInv, Running
<1>4. CASE SyncNow \/ BatchSync \/ CloseDown \/ RotateSync
  <2>1. /\ SyncSegment /\ svc \in {"sync", "run", "closing", "rotSync"}
        /\ svc' \in {"check", "run", "down", "rotCreate"} /\ Running
    BY <1>4 DEF SyncNow, BatchSync, CloseDown, RotateSync, Running
  <2>2. /\ SegsInv' /\ PromiseInv' /\ FutureInv'
        /\ Len(segs') > 0 /\ segs'[Len(segs')].session = session'
        /\ segs'[Len(segs')].hi = appended'[session'] /\ ~dirty'
        /\ segs'[Len(segs')].synced = segs'[Len(segs')].hi
        /\ segs'[Len(segs')].named
    BY <2>1, SyncStep
  <2>. QED
    BY <1>0, <2>1, <2>2 DEF RunInv, SyncSegment, Running
<1>5. CASE CheckRotate \/ ThreadExit \/ UNCHANGED vars
  <2>1. /\ UNCHANGED <<session, fileVars, dirty, hbSeq>>
        /\ \/ svc = "check" /\ svc' \in {"rotSync", "run", "force"}
           \/ svc' = "down"
           \/ svc' = svc
    BY <1>5 DEF CheckRotate, ThreadExit, RotationStart, AfterAppend, vars, beatVars
  <2>. QED
    BY <1>0, <2>1, QuietStep DEF RunInv, Running, fileVars
<1>6. CASE RotateCreate
  <2>1. /\ session \in Sessions /\ session >= session
        /\ Len(segs) > 0 /\ segs[Len(segs)].session = session
        /\ segs[Len(segs)].hi = appended[session]
        /\ segs[Len(segs)].synced = segs[Len(segs)].hi /\ segs[Len(segs)].named
        /\ svc' = "rotDirSync" /\ ~dirty
    BY <1>6 DEF RotateCreate, AfterCreate, RunInv, Running, Sessions
  <2>2. /\ SegsInv' /\ PromiseInv' /\ FutureInv'
        /\ Len(segs') > 0 /\ segs'[Len(segs')].session = session'
        /\ segs'[Len(segs')].hi = appended'[session']
        /\ segs'[Len(segs')].synced = segs'[Len(segs')].hi
    BY <1>6, <2>1, CreateStep DEF RotateCreate
  <2>. QED
    BY <1>0, <1>6, <2>1, <2>2 DEF RotateCreate, RunInv
<1>7. CASE ForceBeat \/ Tick
  <2>1. /\ UNCHANGED <<session, fileVars, dirty>> /\ svc \in {"force", "run"}
        /\ svc' \in {"run", "beat"}
        /\ svc' = "beat" => hbSeq' = hbSeq + 1
    BY <1>7 DEF ForceBeat, Tick, WriteBeat
  <2>. QED
    BY <1>0, <2>1, QuietStep DEF RunInv, Running, fileVars, TypeOK
<1>8. CASE RecordBeat
  <2>1. WriteRecord("Batched") /\ svc = "beat" /\ Running
    BY <1>8 DEF RecordBeat, Running
  <2>2. /\ SegsInv' /\ PromiseInv' /\ FutureInv'
        /\ Len(segs') > 0 /\ segs'[Len(segs')].session = session'
        /\ segs'[Len(segs')].hi = appended'[session'] /\ dirty'
        /\ segs'[Len(segs')].named = segs[Len(segs)].named
    BY <2>1, WriteStep
  <2>. QED
    BY <1>0, <2>1, <2>2 DEF RunInv, WriteRecord, AfterWrite
<1>9. CASE PowerCut
  BY <1>0, <1>9, CutStep DEF PowerCut, RunInv, Running
<1>. QED
  BY <1>1, <1>2, <1>3, <1>4, <1>5, <1>6, <1>7, <1>8, <1>9 DEF Next, Work

LEMMA PromiseHolds == IInv => PromisedSurvives
<1>. SUFFICES ASSUME IInv, NEW n \in Sessions, NEW r \in 1..promised[n]
     PROVE InFiles(n, r)
  BY DEF PromisedSurvives
<1>1. PICK i \in Segs : segs[i].session = n /\ segs[i].lo < r /\ r <= segs[i].synced
  BY DEF IInv, PromiseInv, OnMedium
<1>2. segs[i].synced <= segs[i].hi /\ segs[i].synced \in Nat /\ segs[i].hi \in Nat
  BY SegmentOf DEF IInv, SegsInv, Ordered, Segment
<1>. QED
  BY <1>1, <1>2 DEF InFiles, Segs

LEMMA PrefixHolds == IInv => SurvivorsArePrefix
<1>. SUFFICES ASSUME IInv, NEW n \in Sessions, NEW r \in 1..appended[n], InFiles(n, r),
                     NEW q \in 1..r
     PROVE InFiles(n, q)
  BY DEF SurvivorsArePrefix
<1>1. PICK i \in Segs : segs[i].session = n /\ segs[i].lo < r /\ r <= segs[i].hi
  BY DEF InFiles, Segs
<1>2. q \in 1..segs[i].hi /\ i \in Nat /\ i <= Len(segs) /\ Len(segs) \in Nat
  BY <1>1, SegmentOf DEF IInv, Segment, Segs
<1>3. PICK j \in 1..i : segs[j].session = n /\ segs[j].lo < q /\ q <= segs[j].hi
  BY <1>1, <1>2 DEF IInv, SegsInv, NoHole
<1>. QED
  BY <1>2, <1>3 DEF InFiles

LEMMA Invariance == Spec => []IInv
<1>1. Init => IInv
  BY StrongInit
<1>2. IInv /\ [Next]_vars => IInv'
  BY StrongStep
<1>. QED
  BY <1>1, <1>2, PTL DEF Spec

(* The WAL thread's state stays well typed.                                *)
THEOREM TypeCorrect == Spec => []TypeOK
<1>1. IInv => TypeOK
  BY DEF IInv
<1>. QED
  BY <1>1, Invariance, PTL

(* A record that sync_segment covered is in the segment files after every  *)
(* later crash, power cut and restart (walsvc.rs append, rotate, init).    *)
THEOREM DurableRecordsSurvive == Spec => []PromisedSurvives
BY PromiseHolds, Invariance, PTL

(* The records found of a session are a prefix of those it appended: the   *)
(* rotation order never exposes a segment beyond a lost tail.              *)
THEOREM RotationLeavesNoHole == Spec => []SurvivorsArePrefix
BY PrefixHolds, Invariance, PTL

-----------------------------------------------------------------------------
(* The append of a PowerFailing marker: the thread is in it until the      *)
(* forced beat, the first since the edge, and past its sync all the        *)
(* session wrote is durable.                                               *)
AfterSync == {"check", "rotSync", "rotCreate", "rotDirSync", "force"}
EdgeInv ==
  /\ svc = "force" => pfAppend = TRUE
  /\ Running /\ pfSeen # TRUE => pfBeats = 0
  /\ Running /\ pfAppend = TRUE => pfSeen # TRUE /\ svc \in AfterSync \cup {"sync"}
  /\ pfAppend = TRUE /\ svc \in AfterSync => promised[session] = appended[session]

LEMMA FailingInput ==
  \A cmd \in Inputs : IsPowerFailing(cmd) => pfSeen # TRUE /\ cmd.sync = "Immediate"
<1> SUFFICES ASSUME NEW cmd \in Inputs, cmd.rec.kind = "PowerFailing"
             PROVE  pfSeen # TRUE /\ cmd.sync = "Immediate"
  BY DEF IsPowerFailing
<1>1. cmd \notin {HeartbeatCmd(d) : d \in HbSamples \cup {NoData}}
  BY DEF HeartbeatCmd, NoRecord, Motion
<1>2. cmd \notin {AppendCmd(Motion(0), "Batched"), MarkerCmd(Marker("SocketLost", 0)),
                 ShutdownCmd, ReceiveSeqCmd(0)}
  BY DEF AppendCmd, MarkerCmd, Marker, ShutdownCmd, ReceiveSeqCmd, NoRecord, Motion
<1>3. cmd \in IF pfSeen THEN {} ELSE {MarkerCmd(Marker("PowerFailing", 0))}
  BY <1>1, <1>2 DEF Inputs
<1>4. pfSeen # TRUE /\ cmd = MarkerCmd(Marker("PowerFailing", 0))
  BY <1>3
<1>. QED
  BY <1>4 DEF MarkerCmd, AppendCmd

LEMMA EdgeStep == ASSUME IInv, EdgeInv, [Next]_vars PROVE EdgeInv'
<1>1. CASE Boot
  BY <1>1 DEF Boot, EdgeInv, AfterSync
<1>2. CASE \E cmd \in Inputs : Handle(cmd)
  <2>1. PICK cmd \in Inputs : Handle(cmd)
    BY <1>2
  <2>2. CASE HandleAppend(cmd)
    <3>1. /\ svc = "run" /\ pfSeen' = pfSeen /\ pfBeats' = pfBeats
          /\ svc' = AfterWrite(cmd.sync) /\ svc' \in {"sync", "check"}
      BY <2>2 DEF HandleAppend, WriteRecord, AfterWrite
    <3>2. pfAppend' = IsPowerFailing(cmd)
      BY <2>2 DEF HandleAppend
    <3>3. pfAppend' = TRUE => pfSeen # TRUE /\ svc' = "sync"
      BY <3>1, <3>2, FailingInput DEF AfterWrite
    <3>. QED
      BY <3>1, <3>3 DEF EdgeInv, Running, AfterSync
  <2>3. CASE ~HandleAppend(cmd)
    <3>1. /\ svc = "run" /\ svc' \in {"run", "closing"} /\ pfAppend' = pfAppend
          /\ pfSeen' = pfSeen /\ pfBeats' = pfBeats
      BY <2>1, <2>3 DEF Handle, SkipAppend, HandleHeartbeat, HandleReceiveSeq,
         HandleShutdown, vars, powerVars
    <3>. QED
      BY <3>1 DEF EdgeInv, Running, AfterSync
  <2>. QED
    BY <2>2, <2>3
<1>3. CASE SyncNow \/ CloseDown \/ RotateSync \/ BatchSync
  <2>1. /\ promised' = [promised EXCEPT ![session] = appended[session]]
        /\ appended' = appended /\ session' = session /\ pfAppend' = pfAppend
        /\ pfSeen' = pfSeen /\ pfBeats' = pfBeats
    BY <1>3 DEF SyncNow, CloseDown, RotateSync, BatchSync, SyncSegment, powerVars
  <2>2. Running /\ session \in Sessions /\ promised \in [Sessions -> Nat]
    BY <1>3 DEF IInv, RunInv, TypeOK, Running, SyncNow, CloseDown, RotateSync, BatchSync
  <2>3. promised'[session'] = appended'[session']
    BY <2>1, <2>2
  <2>4. \/ svc = "sync" /\ svc' = "check"
        \/ svc = "closing" /\ svc' = "down"
        \/ svc = "rotSync" /\ svc' = "rotCreate"
        \/ svc = "run" /\ svc' = "run"
    BY <1>3 DEF SyncNow, CloseDown, RotateSync, BatchSync
  <2>. QED
    BY <2>1, <2>3, <2>4 DEF EdgeInv, Running, AfterSync
<1>4. CASE CheckRotate \/ RotateCreate \/ RotateDirSync
  <2>1. /\ promised' = promised /\ appended' = appended /\ session' = session
        /\ pfAppend' = pfAppend /\ pfSeen' = pfSeen /\ pfBeats' = pfBeats
        /\ svc \in AfterSync /\ svc' \in {"rotSync", "rotDirSync", AfterAppend}
    BY <1>4 DEF CheckRotate, RotateCreate, RotateDirSync, RotationStart, AfterCreate,
       fileVars, powerVars, AfterSync
  <2>2. AfterAppend = IF pfAppend = TRUE THEN "force" ELSE "run"
    BY DEF AfterAppend, IInv, TypeOK
  <2>. QED
    BY <2>1, <2>2 DEF EdgeInv, Running, AfterSync
<1>5. CASE BootDirSync
  BY <1>5 DEF BootDirSync, EdgeInv, Running, AfterSync, powerVars
<1>6. CASE ForceBeat
  BY <1>6 DEF ForceBeat, EdgeInv, Running, AfterSync
<1>7. CASE RecordBeat
  <2>1. /\ svc = "beat" /\ svc' = "check" /\ pfAppend' = pfAppend /\ pfSeen' = pfSeen
        /\ pfBeats' = pfBeats
    BY <1>7 DEF RecordBeat, WriteRecord, AfterWrite, powerVars
  <2>. QED
    BY <2>1 DEF EdgeInv, Running, AfterSync
<1>8. CASE Tick
  <2>1. /\ svc = "run" /\ svc' \in {"run", "beat"} /\ pfAppend' = pfAppend
        /\ pfSeen' = pfSeen
    BY <1>8 DEF Tick
  <2>2. pfAppend = FALSE /\ pfSeen = FALSE
    BY <1>8, <2>1 DEF Tick, MayBeat, EdgeInv, Running, AfterSync, IInv, TypeOK
  <2>3. pfBeats' = pfBeats
    BY <1>8, <2>2 DEF Tick, WriteBeat
  <2>. QED
    BY <2>1, <2>2, <2>3 DEF EdgeInv, Running, AfterSync
<1>9. CASE ThreadExit \/ PowerCut
  BY <1>9 DEF ThreadExit, PowerCut, EdgeInv, Running, AfterSync
<1>10. CASE UNCHANGED vars
  BY <1>10 DEF vars, fileVars, powerVars, EdgeInv, Running, AfterSync
<1>. QED
  BY <1>1, <1>2, <1>3, <1>4, <1>5, <1>6, <1>7, <1>8, <1>9, <1>10 DEF Next, Work

(* The beat forced at the power-fail edge is the first since it and comes  *)
(* when the marker and all before it are durable under a durable name, no  *)
(* matter where the append rotates the segment (walsvc.rs append,          *)
(* force_heartbeat_sync).                                                  *)
THEOREM ForcedBeatFollowsItsMarker == Spec => MarkerDurableBeforeForcedBeat
<1>1. Init => EdgeInv
  BY DEF Init, EdgeInv, Running, AfterSync
<1>2. IInv /\ EdgeInv /\ [Next]_vars => EdgeInv'
  BY EdgeStep
<1>3. IInv /\ EdgeInv /\ [Next]_vars =>
        [pfBeats' > pfBeats =>
           /\ pfBeats = 0
           /\ promised[session] = appended[session]
           /\ \A r \in 1..appended[session] : InFiles(session, r)
           /\ segs[Current].named]_vars
  <2> SUFFICES ASSUME IInv, EdgeInv, Next, pfBeats' > pfBeats
               PROVE  /\ pfBeats = 0
                      /\ promised[session] = appended[session]
                      /\ \A r \in 1..appended[session] : InFiles(session, r)
                      /\ segs[Current].named
    OBVIOUS
  <2>1. pfBeats \in Nat
    BY DEF IInv, TypeOK
  <2>2. ForceBeat
    <3>1. CASE Boot
      BY <2>1, <3>1 DEF Boot
    <3>2. CASE Tick
      BY <2>1, <3>2 DEF Tick, MayBeat, WriteBeat, EdgeInv, Running, AfterSync, IInv, TypeOK
    <3>3. CASE ~(ForceBeat \/ Boot \/ Tick)
      <4>1. pfBeats' = pfBeats
        BY <3>3 DEF Next, Work, Handle, HandleAppend, SkipAppend, HandleHeartbeat,
           HandleReceiveSeq, HandleShutdown, BootDirSync, SyncNow, CloseDown, CheckRotate,
           RotateSync, RotateCreate, RotateDirSync, RecordBeat, BatchSync, SyncSegment,
           ThreadExit, PowerCut, powerVars, vars
      <4>. QED
        BY <2>1, <4>1
    <3>. QED
      BY <3>1, <3>2, <3>3
  <2>3. svc = "force" /\ pfAppend = TRUE /\ Running
    BY <2>2 DEF ForceBeat, EdgeInv, Running
  <2>4. pfBeats = 0 /\ promised[session] = appended[session]
    BY <2>3 DEF EdgeInv, AfterSync
  <2>5. /\ Len(segs) \in Segs /\ segs[Len(segs)].session = session
        /\ segs[Len(segs)].hi = appended[session] /\ segs[Current].named
    BY <2>3, SegmentOf DEF IInv, RunInv, Segs, Current
  <2>6. \A r \in 1..appended[session] : InFiles(session, r)
    BY <2>5, SegmentOf DEF IInv, SegsInv, NoHole, InFiles, Segs
  <2>. QED
    BY <2>4, <2>5, <2>6
<1>. QED
  BY <1>1, <1>2, <1>3, Invariance, PTL DEF Spec, MarkerDurableBeforeForcedBeat
-----------------------------------------------------------------------------
(***************************************************************************)
(* The heartbeat file, for every even sequence modulus of at least six:    *)
(* the newest durable beat survives any crash, torn write or power cut,    *)
(* across the wrap of the counter.                                         *)
(***************************************************************************)
Pred(n) == IF n = 0 THEN SeqMod - 1 ELSE n - 1
Broken == {Blank, Torn}
Other(b) == 1 - slot_for_sequence(b)

(* What the slots can hold when b is the newest durable beat: b sits in    *)
(* its own slot, and the other slot holds nothing valid, b's predecessor,  *)
(* or the beat in flight after b.                                          *)
Shape(file, b) ==
  IF b = NoBeat
    THEN file[0] \in Broken \cup {0} /\ file[1] \in Broken
    ELSE /\ file[slot_for_sequence(b)] = b
         /\ file[Other(b)] \in Broken \cup {Pred(b), WrappingSucc(b)}

(* The same with no beat in flight.                                        *)
Settled(file, b) ==
  IF b = NoBeat
    THEN file[0] \in Broken /\ file[1] \in Broken
    ELSE /\ file[slot_for_sequence(b)] = b
         /\ file[Other(b)] \in Broken \cup {Pred(b)}

HeartbeatInv ==
  /\ HeartbeatTypeOK
  /\ Shape(cache, safe) /\ Shape(disk, safe)
  /\ ~named => safe = NoBeat
  /\ pc \in {"starting", "synced"} => nextSeq = NextSequence(recover_heartbeat(cache))
  /\ pc = "synced" => disk = cache
  /\ pc = "idle" => disk = cache /\ Settled(cache, safe)
  /\ pc \in {"idle", "written"} => named /\ nextSeq = NextSequence(safe)
  /\ pc = "written" => cache[slot_for_sequence(nextSeq)] = nextSeq
-----------------------------------------------------------------------------
(* Wrapping arithmetic.                                                    *)
LEMMA SuccFacts ==
  ASSUME NEW n \in SequenceNumbers
  PROVE  /\ WrappingSucc(n) \in SequenceNumbers /\ Pred(n) \in SequenceNumbers
         /\ WrappingSucc(n) # n /\ Pred(n) # n /\ Pred(n) # WrappingSucc(n)
         /\ WrappingSucc(Pred(n)) = n /\ Pred(WrappingSucc(n)) = n
BY HeartbeatAssumption DEF SequenceNumbers, WrappingSucc, Pred

LEMMA SlotFacts ==
  ASSUME NEW n \in SequenceNumbers
  PROVE  /\ slot_for_sequence(n) \in Slots /\ Other(n) \in Slots
         /\ slot_for_sequence(n) # Other(n)
         /\ \A s \in Slots : s = slot_for_sequence(n) \/ s = Other(n)
         /\ slot_for_sequence(WrappingSucc(n)) = Other(n)
         /\ Other(WrappingSucc(n)) = slot_for_sequence(n)
         /\ slot_for_sequence(Pred(n)) = Other(n)
BY HeartbeatAssumption DEF SequenceNumbers, WrappingSucc, Pred, Other, Slots, slot_for_sequence

LEMMA NewerFacts ==
  ASSUME NEW n \in SequenceNumbers
  PROVE  /\ sequence_is_newer(WrappingSucc(n), n)
         /\ ~sequence_is_newer(n, WrappingSucc(n))
         /\ sequence_is_newer(n, Pred(n))
         /\ ~sequence_is_newer(Pred(n), n)
BY HeartbeatAssumption DEF SequenceNumbers, WrappingSucc, Pred, sequence_is_newer, WrappingSub

LEMMA BrokenFacts ==
  /\ \A c \in Broken : c \notin SequenceNumbers /\ c # NoBeat
  /\ NoBeat \notin SequenceNumbers
  /\ 0 \in SequenceNumbers /\ slot_for_sequence(0) = 0
  /\ Broken \subseteq Contents /\ SequenceNumbers \subseteq Contents
BY HeartbeatAssumption DEF Broken, SequenceNumbers, Contents, slot_for_sequence

(* What recovery reads from a file of each shape.                          *)
LEMMA RecoverShape ==
  ASSUME NEW file, NEW b \in SequenceNumbers, Shape(file, b)
  PROVE  recover_heartbeat(file) =
           IF file[Other(b)] = WrappingSucc(b) THEN WrappingSucc(b) ELSE b
<1>1. b # NoBeat
  BY BrokenFacts
<1>2. file[slot_for_sequence(b)] = b
      /\ file[Other(b)] \in Broken \cup {Pred(b), WrappingSucc(b)}
  BY <1>1 DEF Shape
<1>3. Valid(file[slot_for_sequence(b)])
      /\ (Valid(file[Other(b)]) <=> file[Other(b)] \in {Pred(b), WrappingSucc(b)})
  BY <1>2, BrokenFacts, SuccFacts DEF Valid
<1>4. CASE slot_for_sequence(b) = 0 /\ Other(b) = 1
  BY <1>2, <1>3, <1>4, SuccFacts, NewerFacts DEF recover_heartbeat
<1>5. CASE slot_for_sequence(b) = 1 /\ Other(b) = 0
  BY <1>2, <1>3, <1>5, SuccFacts, NewerFacts DEF recover_heartbeat
<1>. QED
  BY <1>4, <1>5, SlotFacts DEF Slots

LEMMA RecoverNothing ==
  ASSUME NEW file, Shape(file, NoBeat)
  PROVE  recover_heartbeat(file) = IF file[0] = 0 THEN 0 ELSE NoBeat
BY BrokenFacts DEF Shape, recover_heartbeat, Valid

LEMMA SettledIsShape ==
  ASSUME NEW file, NEW b, Settled(file, b)
  PROVE  Shape(file, b)
BY DEF Settled, Shape

(* An image after a power cut keeps the shape both sides had.              *)
LEMMA ImageShape ==
  ASSUME HeartbeatInv, NEW image \in FileImages
  PROVE  Shape(image, safe) /\ image \in [Slots -> Contents]
<1>1. CASE image = Fresh /\ ~named
  BY <1>1, BrokenFacts DEF HeartbeatInv, Shape, Fresh, Slots, Broken, Contents
<1>2. CASE \A s \in Slots : image[s] \in SlotAfterCut(s)
  <2>1. \A s \in Slots : image[s] \in {cache[s], disk[s], Torn}
                         /\ (cache[s] = disk[s] => image[s] = disk[s])
    BY <1>2 DEF SlotAfterCut
  <2>2. image \in [Slots -> Contents]
    <3>1. Fresh \in [Slots -> Contents]
      BY DEF Fresh, Contents
    <3>2. image \in [Slots -> Contents] \/ image = Fresh
      BY DEF FileImages
    <3>. QED
      BY <3>1, <3>2
  <2>3. CASE safe = NoBeat
    <3>1. /\ cache[0] \in Broken \cup {0} /\ cache[1] \in Broken
          /\ disk[0] \in Broken \cup {0} /\ disk[1] \in Broken
      BY <2>3 DEF HeartbeatInv, Shape
    <3>2. image[0] \in {cache[0], disk[0], Torn} /\ image[1] \in {cache[1], disk[1], Torn}
      BY <2>1 DEF Slots
    <3>. QED
      BY <2>2, <2>3, <3>1, <3>2 DEF Shape, Broken
  <2>4. CASE safe # NoBeat
    <3>1. safe \in SequenceNumbers
      BY <2>4 DEF HeartbeatInv, HeartbeatTypeOK
    <3>. QED
      BY <2>1, <2>2, <2>4, <3>1, SlotFacts DEF HeartbeatInv, Shape, Broken
  <2>. QED
    BY <2>2, <2>3, <2>4
<1>. QED
  BY <1>1, <1>2 DEF FileImages
-----------------------------------------------------------------------------
LEMMA HeartbeatInvInit == HeartbeatInit => HeartbeatInv
<1> SUFFICES ASSUME HeartbeatInit PROVE HeartbeatInv
  OBVIOUS
<1>1. Fresh \in [Slots -> Contents] /\ Fresh[0] = Blank /\ Fresh[1] = Blank
  BY DEF Fresh, Contents, Slots
<1>. QED
  BY <1>1, BrokenFacts DEF HeartbeatInit, HeartbeatInv, HeartbeatTypeOK, Shape, Broken

LEMMA HeartbeatInvStep == HeartbeatInv /\ [HeartbeatNext]_heartbeatVars => HeartbeatInv'
<1> SUFFICES ASSUME HeartbeatInv, [HeartbeatNext]_heartbeatVars
             PROVE  HeartbeatInv'
  OBVIOUS
<1>t. HeartbeatTypeOK /\ (safe # NoBeat => safe \in SequenceNumbers) /\ nextSeq \in SequenceNumbers
  BY DEF HeartbeatInv, HeartbeatTypeOK
<1>1. CASE Start
  <2>1. recover_heartbeat(cache) \in SequenceNumbers \cup {NoBeat}
    BY BrokenFacts DEF recover_heartbeat, Valid
  <2>2. nextSeq' \in SequenceNumbers
    BY <1>1, <2>1, SuccFacts, BrokenFacts DEF Start, NextSequence
  <2>. QED
    BY <1>1, <2>2 DEF Start, HeartbeatInv, HeartbeatTypeOK
<1>2. CASE StartSync
  BY <1>2 DEF StartSync, HeartbeatInv, HeartbeatTypeOK
<1>3. CASE StartDirSync
  <2>1. Settled(cache, recover_heartbeat(cache))
    <3>1. CASE safe = NoBeat
      <4>1. CASE cache[0] = 0
        <5>1. recover_heartbeat(cache) = 0 /\ Other(0) = 1 /\ cache[1] \in Broken
          BY <3>1, <4>1, RecoverNothing DEF HeartbeatInv, Shape, Other, slot_for_sequence
        <5>. QED
          BY <4>1, <5>1, BrokenFacts DEF Settled
      <4>2. CASE cache[0] # 0
        BY <3>1, <4>2, RecoverNothing DEF HeartbeatInv, Shape, Settled
      <4>. QED
        BY <4>1, <4>2
    <3>2. CASE safe # NoBeat
      <4>1. recover_heartbeat(cache) =
              IF cache[Other(safe)] = WrappingSucc(safe) THEN WrappingSucc(safe) ELSE safe
        BY <1>t, <3>2, RecoverShape DEF HeartbeatInv
      <4>2. cache[slot_for_sequence(safe)] = safe
            /\ cache[Other(safe)] \in Broken \cup {Pred(safe), WrappingSucc(safe)}
        BY <3>2 DEF HeartbeatInv, Shape
      <4>. QED
        BY <1>t, <3>2, <4>1, <4>2, SuccFacts, SlotFacts, BrokenFacts DEF Settled
    <3>. QED
      BY <3>1, <3>2
  <2>2. safe' \in SequenceNumbers \cup {NoBeat}
    BY <1>3, BrokenFacts DEF StartDirSync, recover_heartbeat, Valid
  <2>. QED
    BY <1>3, <2>1, <2>2, SettledIsShape DEF StartDirSync, HeartbeatInv, HeartbeatTypeOK
<1>4. CASE WriteSlot
  <2>1. cache' \in [Slots -> Contents]
    BY <1>4, <1>t, SlotFacts, BrokenFacts DEF WriteSlot, HeartbeatTypeOK
  <2>2. /\ cache'[slot_for_sequence(nextSeq)] = nextSeq
        /\ \A s \in Slots : s # slot_for_sequence(nextSeq) => cache'[s] = cache[s]
    BY <1>4, <1>t, SlotFacts DEF WriteSlot, HeartbeatTypeOK
  <2>3. Shape(cache', safe)
    <3>1. CASE safe = NoBeat
      BY <1>4, <2>2, <3>1, BrokenFacts DEF WriteSlot, HeartbeatInv, NextSequence, Shape, Slots
    <3>2. CASE safe # NoBeat
      <4>1. nextSeq = WrappingSucc(safe)
        BY <1>4, <3>2 DEF WriteSlot, HeartbeatInv, NextSequence
      <4>. QED
        BY <1>t, <2>2, <3>2, <4>1, SlotFacts DEF HeartbeatInv, Shape
    <3>. QED
      BY <3>1, <3>2
  <2>. QED
    BY <1>4, <2>1, <2>2, <2>3 DEF WriteSlot, HeartbeatInv, HeartbeatTypeOK
<1>5. CASE SyncSlot
  <2>1. Settled(cache, nextSeq)
    <3>1. CASE safe = NoBeat
      <4>1. nextSeq = 0 /\ cache[0] = 0 /\ cache[1] \in Broken /\ Other(0) = 1
        BY <1>5, <3>1, BrokenFacts DEF SyncSlot, HeartbeatInv, NextSequence, Shape, Other, slot_for_sequence
      <4>. QED
        BY <4>1, BrokenFacts DEF Settled
    <3>2. CASE safe # NoBeat
      <4>1. nextSeq = WrappingSucc(safe) /\ cache[slot_for_sequence(nextSeq)] = nextSeq
            /\ cache[slot_for_sequence(safe)] = safe
        BY <1>5, <3>2 DEF SyncSlot, HeartbeatInv, NextSequence, Shape
      <4>. QED
        BY <1>t, <3>2, <4>1, SlotFacts, SuccFacts, BrokenFacts DEF Settled
    <3>. QED
      BY <3>1, <3>2
  <2>2. WrappingSucc(nextSeq) \in SequenceNumbers /\ nextSeq # NoBeat
    BY <1>t, SuccFacts, BrokenFacts
  <2>. QED
    BY <1>5, <1>t, <2>1, <2>2, SettledIsShape DEF SyncSlot, HeartbeatInv, HeartbeatTypeOK, NextSequence
<1>6. CASE \E s \in Slots : Writeback(s)
  <2>1. PICK s \in Slots : Writeback(s)
    BY <1>6
  <2>2. disk' \in [Slots -> Contents] /\ \A u \in Slots : disk'[u] \in {disk[u], cache[u]}
    BY <2>1 DEF Writeback, HeartbeatInv, HeartbeatTypeOK
  <2>3. disk = cache => disk' = cache
    BY <2>1 DEF Writeback, HeartbeatInv, HeartbeatTypeOK
  <2>4. Shape(disk', safe)
    <3>1. CASE safe = NoBeat
      BY <2>2, <3>1 DEF HeartbeatInv, Shape, Slots
    <3>2. CASE safe # NoBeat
      BY <1>t, <2>2, <3>2, SlotFacts DEF HeartbeatInv, Shape
    <3>. QED
      BY <3>1, <3>2
  <2>. QED
    BY <2>1, <2>2, <2>3, <2>4 DEF Writeback, HeartbeatInv, HeartbeatTypeOK
<1>7. CASE ProcessExit
  BY <1>7 DEF ProcessExit, HeartbeatInv, HeartbeatTypeOK
<1>8. CASE HeartbeatPowerCut
  <2>1. PICK image \in FileImages :
          /\ cache' = image /\ disk' = image
          /\ named' = (named \/ image # Fresh)
          /\ pc' = "down" /\ UNCHANGED <<nextSeq, safe>>
    BY <1>8 DEF HeartbeatPowerCut
  <2>2. Shape(image, safe) /\ image \in [Slots -> Contents]
    BY ImageShape
  <2>3. named' \in BOOLEAN
    BY <2>1, Zenon
  <2>4. ~named' => ~named
    BY <2>1
  <2>. QED
    BY <2>1, <2>2, <2>3, <2>4 DEF HeartbeatInv, HeartbeatTypeOK
<1>9. CASE UNCHANGED heartbeatVars
  BY <1>9 DEF heartbeatVars, HeartbeatInv, HeartbeatTypeOK
<1>. QED
  BY <1>1, <1>2, <1>3, <1>4, <1>5, <1>6, <1>7, <1>8, <1>9 DEF HeartbeatNext

LEMMA HeartbeatInvariance == HeartbeatSpec => []HeartbeatInv
BY HeartbeatInvInit, HeartbeatInvStep, PTL DEF HeartbeatSpec
-----------------------------------------------------------------------------
(* Type correctness of the heartbeat file and its writer.                  *)
THEOREM HeartbeatTypeCorrect == HeartbeatSpec => []HeartbeatTypeOK
<1>1. HeartbeatInv => HeartbeatTypeOK
  BY DEF HeartbeatInv
<1>. QED
  BY <1>1, HeartbeatInvariance, PTL

(* Whenever the power goes, recover_heartbeat (heartbeat.rs:223) finds the *)
(* newest durable beat or the one in flight after it.                      *)
THEOREM Recoverable == HeartbeatSpec => []NewestBeatSurvives
<1>1. HeartbeatInv => NewestBeatSurvives
  <2> SUFFICES ASSUME HeartbeatInv, safe # NoBeat, NEW image \in FileImages
               PROVE  recover_heartbeat(image) \in {safe, WrappingSucc(safe)}
    BY DEF NewestBeatSurvives
  <2>1. safe \in SequenceNumbers /\ Shape(image, safe)
    BY ImageShape DEF HeartbeatInv, HeartbeatTypeOK
  <2>. QED
    BY <2>1, RecoverShape
<1>. QED
  BY <1>1, HeartbeatInvariance, PTL

(* The sequence resumes newer than anything in the file, so the next beat  *)
(* never overwrites the slot recovery would use (walsvc.rs:176).           *)
THEOREM NextWriteIsSafe == HeartbeatSpec => []NextWriteSparesTheNewest
<1>1. HeartbeatInv => NextWriteSparesTheNewest
  <2> SUFFICES ASSUME HeartbeatInv, pc = "idle", NEW s \in Slots, Valid(cache[s])
               PROVE  /\ sequence_is_newer(nextSeq, cache[s])
                      /\ cache[s] = recover_heartbeat(cache) => s # slot_for_sequence(nextSeq)
    BY DEF NextWriteSparesTheNewest
  <2>1. safe \in SequenceNumbers
    BY BrokenFacts DEF HeartbeatInv, Settled, HeartbeatTypeOK, Valid, Slots
  <2>2. /\ nextSeq = WrappingSucc(safe) /\ Settled(cache, safe) /\ safe # NoBeat
        /\ cache[s] \in {safe, Pred(safe)}
    BY <2>1, BrokenFacts, SlotFacts DEF HeartbeatInv, NextSequence, Settled, Valid
  <2>3. cache[Other(safe)] # WrappingSucc(safe)
    BY <2>1, <2>2, SuccFacts, BrokenFacts DEF Settled
  <2>4. recover_heartbeat(cache) = safe
    BY <2>1, <2>3, RecoverShape DEF HeartbeatInv
  <2>5. sequence_is_newer(WrappingSucc(safe), Pred(safe))
    BY <2>1, HeartbeatAssumption DEF SequenceNumbers, WrappingSucc, Pred, sequence_is_newer, WrappingSub
  <2>6. sequence_is_newer(nextSeq, cache[s])
    BY <2>1, <2>2, <2>5, NewerFacts
  <2>7. cache[Other(safe)] # safe /\ slot_for_sequence(nextSeq) = Other(safe)
    BY <2>1, <2>2, SlotFacts, SuccFacts, BrokenFacts DEF Settled
  <2>. QED
    BY <2>4, <2>6, <2>7
<1>. QED
  BY <1>1, HeartbeatInvariance, PTL
=============================================================================
