----------------------------- MODULE StopWorld -----------------------------
(***************************************************************************)
(* A print as it is recorded, so that what StopSet says of it can be held  *)
(* against the truth whenever power is lost.  Klipper reads lines ahead of *)
(* the machine, plans them, dumps planned moves in batches; plrd journals  *)
(* what it is sent and beats; a synced prefix of the log survives, and of  *)
(* the rest any prefix.                                                    *)
(*                                                                         *)
(* All of this is the world around reconstruction, as the documents of     *)
(* stopset.rs and config.rs describe it.                                   *)
(***************************************************************************)
EXTENDS StopSet

CONSTANTS
  LookAhead,  \* how far ahead of the machine the reader goes before it waits
  Batch,      \* how late a planned move is dumped at most, after it began
  Refresh,    \* how old the newest status sample gets at most while lines are read
  Lag,        \* how long a record stays unsynced at most
  MaxTime,    \* seconds of print
  MaxFaults   \* drops and power-fail edges

Duration(i) == TimeAfter(i) - TimeAfter(i - 1)

\* The reader is never further ahead than max_processing_lead says: no line
\* takes longer than that leaves room for.
ASSUME LeadAssumption == \A i \in DOMAIN File : Duration(i) + LookAhead <= Lead + 1

\* What has begun and was not received is shorter than extension_horizon and
\* than the draws FrontierCap pays for.
ASSUME DumpAssumption ==
  /\ {LookAhead, Batch, Refresh, Lag, MaxTime, MaxFaults} \subseteq Nat
  /\ Batch < Horizon /\ Batch < Draws

VARIABLES
  now,
  start,     \* when each line that was read begins on the machine
  rowAt,     \* when the planned move of each line was journaled, or NoTime
  samples,   \* status samples journaled
  blindFrom, \* since when what arrives is dropped, or NoTime
  losses,    \* drops journaled so far: `from`, `to`
  missed,    \* lines whose planned move was dropped
  edge

vars == <<now, start, rowAt, samples, blindFrom, losses, missed, edge>>

Read == Len(start)
End(i) == start[i] + Duration(i)
Queued == IF Read = 0 THEN 0 ELSE End(Read)
Blind == blindFrom # NoTime
Faults == Cardinality(losses) + (IF Blind THEN 1 ELSE 0) + (IF edge = NoTime THEN 0 ELSE 1)

Init ==
  /\ now = 0
  /\ start = <<>>
  /\ rowAt = <<>>
  /\ samples = {[at |-> 0, pos |-> 0, done |-> 0]}
  /\ blindFrom = NoTime
  /\ losses = {}
  /\ missed = {}
  /\ edge = NoTime

\* In a second the reader runs lines as long as what is queued is short
\* enough ...
LinesUpTo(n) ==
  LET first == Max({now + 1, Queued})
      begins(i) == first + TimeAfter(i - 1) - TimeAfter(Read)
  IN [i \in 1..n |-> IF i <= Read THEN start[i] ELSE begins(i)]
ReadLines(n) ==
  /\ start' = LinesUpTo(n)
  /\ \A i \in Read + 1 .. n : start'[i] < now + 1 + LookAhead

\* ... planned moves are dumped, the last one read perhaps with the next batch;
\* what arrives while plrd drops is gone ...
Dump(k) ==
  /\ rowAt' = [i \in 1..k |-> IF i <= Len(rowAt) THEN rowAt[i] ELSE now + 1]
  /\ \A i \in k + 1 .. Len(start') : now + 1 < start'[i] + Batch
  /\ missed' = IF Blind THEN missed \cup (Len(rowAt) + 1 .. k) ELSE missed

\* ... and the status is sampled, with the file position perhaps one line behind
\* the g-code state.
Newest == CHOOSE s \in samples : \A r \in samples : r.at <= s.at
Sample(skew) ==
  /\ ~Blind
  /\ Newest.done < Len(start')
  /\ samples' = samples \cup
       {[at |-> now + 1, pos |-> Len(start') - skew, done |-> Len(start')]}
NoSample ==
  /\ Blind \/ Newest.done = Len(start') \/ now + 1 < Newest.at + Refresh
  /\ UNCHANGED samples

Second ==
  /\ now < MaxTime
  /\ edge # NoTime => now < edge + HoldUp
  /\ now' = now + 1
  /\ \E n \in Read..Len(File) : ReadLines(n)
  /\ \E k \in {Len(rowAt)} \cup {Len(start') - 1, Len(start')} : k >= Len(rowAt) /\ Dump(k)
  /\ NoSample \/ \E skew \in {0, 1} : Sample(skew)
  /\ UNCHANGED <<blindFrom, losses, edge>>

StartLosing ==
  /\ ~Blind
  /\ Faults < MaxFaults
  /\ blindFrom' = now
  /\ UNCHANGED <<now, start, rowAt, samples, losses, missed, edge>>

StopLosing ==
  /\ Blind
  /\ now > blindFrom
  /\ losses' = losses \cup {[from |-> blindFrom, to |-> now]}
  /\ blindFrom' = NoTime
  /\ UNCHANGED <<now, start, rowAt, samples, missed, edge>>

\* Mains power fails: the machine moves on for the hold-up at most.
Fail ==
  /\ edge = NoTime
  /\ Faults < MaxFaults
  /\ ~Blind
  /\ edge' = now
  /\ UNCHANGED <<now, start, rowAt, samples, blindFrom, losses, missed>>

Next == Second \/ StartLosing \/ StopLosing \/ Fail

Spec == Init /\ [][Next]_vars

-----------------------------------------------------------------------------
(* Power is lost now *)

Seen(t) == {i \in DOMAIN rowAt \ missed : rowAt[i] <= t}
Received(t) == Max({End(i) : i \in Seen(t)} \cup {0})
Beating(t) == (\A l \in losses : t <= l.from \/ l.to <= t) /\ (Blind => t <= blindFrom)

\* What is left when the log is durable up to `cut`, the newest heartbeat of
\* the file is from `beat` and the receive-seq sidecar is there or not.  Its
\* bound only widens, so it is tried where an edge narrows.  The marker of a
\* loss is synced as it is journaled.
Left(cut, beat, hasSeq) == [
  rows |-> {[at |-> rowAt[i], from |-> start[i], to |-> End(i),
             z |-> [from |-> ZAfter(i - 1), to |-> ZAfter(i)]] :
              i \in {j \in Seen(cut) : Duration(j) > 0}},
  steps |-> {[isZ |-> ZAfter(i - 1) # ZAfter(i),
              last |-> Min({rowAt[i] + StepLead, End(i)})] : i \in Seen(cut)},
  contexts |-> {s \in samples : s.at <= cut},
  beats |-> {[at |-> t, pt |-> Received(t)] : t \in {s \in 0..cut : Beating(s)} \cup {beat}},
  gaps |-> {l.to : l \in {m \in losses : m.to <= cut}},
  edge |-> edge,
  seq |-> IF hasSeq THEN beat ELSE NoTime]

Logs == {Left(cut, beat, hasSeq) :
           cut \in Max({0, now - Lag} \cup {l.to : l \in losses})..now,
           beat \in {t \in Max({0, now - 1})..now : Beating(t)},
           hasSeq \in {FALSE, edge # NoTime}}

Executed == Max({i \in 1..Read : End(i) <= now} \cup {0})
Height ==
  LET moving == {i \in 1..Read : start[i] <= now /\ now < End(i)} IN
  IF moving = {} THEN ZAfter(Executed)
  ELSE LET i == CHOOSE j \in moving : TRUE IN
       ZAfter(i - 1) + ((ZAfter(i) - ZAfter(i - 1)) * (now - start[i])) \div Duration(i)

\* Power can be lost in the middle of a drop only before anything more is sent;
\* the marker of the drop is then missing, which StopSet cannot know.
Observed == ~Blind

\* The planned move of every line up to the last known position is in the log.
RowsReachTheFrontier(log) ==
  \A i \in 1..Anchor(log).done :
    Duration(i) > 0 => \E r \in log.rows : r.from = start[i] /\ r.to = End(i)

\* Nothing is added by the replay from this sample: its position and its state
\* agree, or the line between them changes nothing the second time, as one that
\* sets every axis it names (G90 and M82) does.
Consistent(ctx) ==
  RunsAgain(ctx) =>
    /\ File[ctx.done].again = 0
    /\ "z" \in File[ctx.done].rel => ZAfter(ctx.done) = ZAfter(ctx.done - 1)
    /\ "e" \in File[ctx.done].rel => EAfter(ctx.done) = EAfter(ctx.done - 1)

\* The height the nozzle stopped at is one of the candidates, unless the newest
\* sample was taken within a line that the replay adds a second time.
\* (stopset.rs: compute_stop_set, extension_z_candidates.)
HeightIsCovered ==
  Observed => \A log \in Logs :
    PerLine(log) /\ RowsReachTheFrontier(log) /\ Consistent(Anchor(log)) =>
      \E iv \in Heights(log) : Within(iv, Height)

\* The line the print stopped on lies in the file window, under the same
\* condition: the time of a line counted twice is missing at the end.
\* (stopset.rs: offset_window, frontier_cap_offset.)
LineIsCovered ==
  Observed => \A log \in Logs :
    PerLine(log) /\ FloorIsCertain(log) /\ Consistent(Anchor(log)) =>
      Within(Offsets(log), Executed)

\* The extruder reading of the file at the stop lies in the interval, if the
\* sample the lines are replayed from is one the replay adds nothing to either.
\* (stopset.rs: replay_file_e.)
ReadingIsCovered ==
  Observed => \A log \in Logs :
    PerLine(log) /\ FloorIsCertain(log) /\ Consistent(Anchor(log))
      /\ Consistent(Floor(log)) => Within(Readings(log), EAfter(Executed))

\* As the log's own documentation has it, the band is wide enough whatever line
\* the sample was taken within.  (plr-wal/record.rs, GcodeState::position.)
BandIsWideEnough ==
  Observed => \A log \in Logs :
    PerLine(log) /\ FloorIsCertain(log) => Within(Readings(log), EAfter(Executed))
=============================================================================
