------------------------------ MODULE StopSet ------------------------------
(***************************************************************************)
(* Where the print can have stopped (plr-reconstruct/window.rs and         *)
(* stopset.rs): from what the log kept, the window of time in which power  *)
(* was lost, the heights the nozzle can be at, the lines it can have       *)
(* stopped on and the extruder readings of the file it can have stopped    *)
(* at.  Print time and the host's clock are one axis, a line of the file   *)
(* is one move of constant speed along Z, and a position in the file is    *)
(* the number of lines before it.  XY and the extruder's own count are     *)
(* unions of the same kind as Z and left out.                              *)
(*                                                                         *)
(* The log is a record:                                                    *)
(*   rows      planned moves: `at` (journaled), `from`, `to` (times), `z`  *)
(*   steps     committed steps: `isZ`, `last` (time)                       *)
(*   contexts  status samples: `at`, `pos` (file position),                *)
(*             `done` (lines the g-code state has been through)            *)
(*   beats     heartbeats: `at`, `pt` (motion received so far)             *)
(*   gaps      the times at which journaled losses ended                   *)
(*   edge      a power-fail edge, or NoTime                                *)
(*   seq       a receive-seq observation, or NoTime                        *)
(***************************************************************************)
EXTENDS Integers, Sequences, FiniteSets, FiniteSetsExt

CONSTANTS
  File,       \* the lines: least time `by`, `z` and `e` where they end, file frame,
              \* the axes they do not set but move by an amount (perhaps 0) `rel`,
              \* and the least time they take when run once more, `again`
  Lead,       \* max_processing_lead
  Horizon,    \* extension_horizon
  StepLead,   \* step_gen_lead
  HoldUp,     \* POWER_FAIL_HOLD_UP_MARGIN_S
  Draws,      \* durability lag and two subscription refreshes
  Tolerance,  \* heartbeat period times gap tolerance
  NoTime

\* Lines take their time one after the other; Z moves in time only; a line that
\* sets every axis moves nothing the second time.
ASSUME FileAssumption ==
  /\ File \in Seq([by : Nat, z : Int, e : Int, rel : SUBSET {"z", "e"}, again : Nat])
  /\ \A i \in DOMAIN File : File[i].rel = {} => File[i].again = 0
  /\ \A i, j \in DOMAIN File : i <= j => File[i].by <= File[j].by
  /\ \A i, j \in DOMAIN File : File[i].by = File[j].by => File[i].z = File[j].z
  /\ \A i \in DOMAIN File : File[i].by = 0 => File[i].z = 0

ASSUME TimingAssumption ==
  /\ Lead \in Nat /\ Horizon \in Nat /\ StepLead \in Nat /\ HoldUp \in Nat
  /\ Draws \in Nat /\ Tolerance \in Nat
  /\ NoTime \notin Int

\* The least time up to the end of line n, and where line n ends.
TimeAfter(n) == IF n = 0 THEN 0 ELSE File[n].by
ZAfter(n) == IF n = 0 THEN 0 ELSE File[n].z
EAfter(n) == IF n = 0 THEN 0 ELSE File[n].e
Span(a, b) == [lo |-> Min({a, b}), hi |-> Max({a, b})]
Within(iv, v) == iv.lo <= v /\ v <= iv.hi
Hull(S) == [lo |-> Min(S), hi |-> Max(S)]

-----------------------------------------------------------------------------
(* The window *)

NewestBeat(log) == CHOOSE b \in log.beats : \A c \in log.beats : c.at <= b.at
Anchor(log) == CHOOSE c \in log.contexts : \A d \in log.contexts : d.at <= c.at

\* Motion is proven up to here; never later than the clock itself.
TA(log) == LET b == NewestBeat(log) IN Min({b.pt, b.at})

Committed(log) ==
  LET z == {s \in log.steps : s.isZ} IN
  {s.last : s \in IF z # {} THEN z ELSE log.steps}

\* The receive-seq bound only widens.
SeqBound(log) == IF log.seq = NoTime THEN {} ELSE {log.seq + StepLead}
TB(log) == Max(Committed(log) \cup SeqBound(log) \cup {TA(log)})

JournaledBy(log, t) == {r.to : r \in {q \in log.rows : q.at <= t}}

\* An edge counts while nothing outlived it by more than the hold-up.
CutTime(log) == log.edge + HoldUp
EdgeIsLast(log) ==
  /\ log.edge # NoTime
  /\ \A S \in {log.rows, log.beats, log.contexts} :
       \A r \in S : r.at <= CutTime(log)

Collapses(log, tb) == EdgeIsLast(log) /\ CutTime(log) >= tb

\* The time motion is followed to: all that was planned, or the edge.
CommittedOnly(log) == TB(log)                                        \* mutant
EvalEnd(log) ==
  LET tb == TB(log)
      high == Max({tb} \cup {r.to : r \in log.rows})
  IN IF Collapses(log, tb) THEN Min({high, CutTime(log)}) ELSE high

\* A loss that ended within the lead of t_a may have hidden motion.
ObservationGap(log) == LET ta == TA(log) IN \E g \in log.gaps : g >= ta - Lead

-----------------------------------------------------------------------------
(* Heights from the log *)

ZAt(r, t) == r.z.from + ((r.z.to - r.z.from) * (t - r.from)) \div (r.to - r.from)

\* Rows over [t_a, end], the last row before it when t_a is not covered, and
\* the first after it when the edge closed the window in a pause.
HeightsFromRows(log) ==
  LET ta == TA(log)
      end == EvalEnd(log)
      within == {r \in log.rows : r.to >= ta /\ r.from <= end}
      before == {r \in log.rows : r.to < ta}
      after == {r \in log.rows : r.to >= ta /\ r.from > end}
      last == IF \E r \in within : r.from <= ta THEN {}
              ELSE {r \in before : \A q \in before : q.to <= r.to}
      next == IF ~Collapses(log, TB(log)) \/ \E r \in within : r.to >= end THEN {}
              ELSE {r \in after : \A q \in after : r.from <= q.from}
  IN {Span(ZAt(r, Max({ta, r.from})), ZAt(r, Min({end, r.to}))) : r \in within}
       \cup {Span(r.z.to, r.z.to) : r \in last}
       \cup {Span(r.z.from, r.z.from) : r \in next}

-----------------------------------------------------------------------------
(* The extension: the lines after the last known position in the file *)

\* The g-code state after line n, when it has been through `done` before.
StateAfter(ctx, n) == Max({n, ctx.done})

\* A sample can lie one line ahead of its position in the file, and that line is
\* then run again.  What it moves an axis by is added a second time, and stays
\* until a line sets the axis; so is the time it takes.
RunsAgain(ctx) == ctx.pos < ctx.done
AddedTo(axis, ctx, n) ==
  RunsAgain(ctx) /\ ctx.done <= n /\ \A i \in ctx.done..n : axis \in File[i].rel

ZReplayed(ctx, n) ==
  ZAfter(StateAfter(ctx, n))
    + IF AddedTo("z", ctx, n) THEN ZAfter(ctx.done) - ZAfter(ctx.done - 1) ELSE 0
EReplayed(ctx, n) ==
  EAfter(StateAfter(ctx, n))
    + IF AddedTo("e", ctx, n) THEN EAfter(ctx.done) - EAfter(ctx.done - 1) ELSE 0

\* The time of the lines up to n; the one that sets an axis again is charged
\* what it takes from where the machine is.
Elapsed(ctx, n) ==
  TimeAfter(StateAfter(ctx, n)) - TimeAfter(ctx.done)
    + IF RunsAgain(ctx) THEN File[ctx.done].again ELSE 0

\* simulate: lines are consumed until their least times add up to `budget`;
\* the line that gets there is consumed too.
Simulated(ctx, budget) ==
  Min({n \in ctx.pos + 1 .. Len(File) : Elapsed(ctx, n) >= budget} \cup {Len(File)})

\* The time the machine begins the first of these lines is bounded from below.
StartTime(log) ==
  LET at == Anchor(log).at
      ta == TA(log)
      journaled == JournaledBy(log, at)
  IN Min({ta, at, IF journaled = {} THEN ta - Lead ELSE Max(journaled)})

Consumed(log) == Simulated(Anchor(log), Horizon + EvalEnd(log) - StartTime(log))

HeightsFromLines(log) ==
  LET ctx == Anchor(log)
      z(n) == ZReplayed(ctx, n)
  IN {Span(z(ctx.pos), z(ctx.pos))}
       \cup {Span(z(n - 1), z(n)) : n \in ctx.pos + 1 .. Consumed(log)}

Heights(log) == HeightsFromRows(log) \cup HeightsFromLines(log)

-----------------------------------------------------------------------------
(* Lines *)

\* The widest gap of the newest run of heartbeats; none when the newest gap
\* itself is a break.
TailSpacing(log) ==
  LET at == {b.at : b \in log.beats}
      gap(t) == t - Max({s \in at : s < t})
      inner == at \ {Min(at)}
      breaks == {t \in inner : gap(t) > Tolerance}
  IN IF inner = {} THEN Tolerance
     ELSE IF Max(at) \in breaks THEN NoTime
     ELSE Max({gap(t) : t \in {u \in inner : \A s \in breaks : s < u}})

\* How long after the sample of the frontier power can have been lost.
PricedTail(log, spacing) ==
  LET inferred == Max({0, TA(log) - Anchor(log).at}) + spacing + Draws
  IN IF EdgeIsLast(log) THEN Min({inferred, Max({0, CutTime(log) - Anchor(log).at})})
     ELSE inferred

\* The parser is ahead of the machine: what can run from the frontier in that
\* time, and one line for the skew of the sample.
FrontierCap(log) ==
  LET spacing == TailSpacing(log) IN
  IF ObservationGap(log) \/ spacing = NoTime THEN Len(File)
  ELSE Min({Len(File), Simulated(Anchor(log), PricedTail(log, spacing)) + 1})

\* The frontiers old enough for the machine to have passed them by t_a: the
\* furthest is the floor, the newer of two at one position.
NewestFrontiers(log) == log.contexts                          \* mutant
OldFrontiers(log) ==
  LET ta == TA(log) IN {c \in log.contexts : c.at <= ta - Lead}
FloorIsCertain(log) == OldFrontiers(log) # {}
Floor(log) ==
  LET old == OldFrontiers(log) IN
  IF old # {} THEN CHOOSE c \in old : \A d \in old :
                        d.pos < c.pos \/ (d.pos = c.pos /\ d.at <= c.at)
  ELSE CHOOSE c \in log.contexts : \A d \in log.contexts :
         c.pos < d.pos \/ (c.pos = d.pos /\ c.at <= d.at)

Offsets(log) ==
  LET end == Min({Consumed(log), FrontierCap(log)})
  IN [lo |-> Min({Floor(log).pos, end}), hi |-> end]

-----------------------------------------------------------------------------
(* Extruder readings, file frame: the lines from the floor on are replayed *)

EndsOnly(log) ==                                                     \* mutant
  LET floor == Floor(log)
  IN Span(EAfter(floor.pos), EReplayed(floor, Consumed(log)))
Readings(log) ==
  LET floor == Floor(log)
  IN Hull({EReplayed(floor, n) : n \in floor.pos .. Consumed(log)})

PerLine(log) == ~ObservationGap(log)
=============================================================================
