# dead-reckoning in TLA+

dead-reckoning resumes a 3D print after a power loss. `plrd`, a daemon beside
Klipper, records what the printer does in a write-ahead log (WAL); after a power
cut it reconstructs where the print stopped, plans the recovery and executes it
under the operator's eyes; a Klipper plugin (`klippy_plugin/plr`) measures the
surface of the half-finished part and talks to the operator.

This directory holds TLA+ specifications of that code, TLC configurations that
check them on small instances, and proofs the TLA+ proof system (TLAPS) checks
for every value of the constants. Paths below are relative to `src/`; `plrd/`
stands for `crates/plrd/src/`.

## The system

| Component (source) | State it keeps | Operations | Talks to |
|---|---|---|---|
| WAL sender (`plrd/sender.rs`) | open gap, marker outbox, last excluded set, pending loss evidence | `record`, `marker`, `heartbeat_data`, `receive_seq`, `shutdown` | bounded channel to the WAL thread |
| WAL thread (`plrd/walsvc.rs`) | current segment, batch deadline, heartbeat sample and sequence, power-failing flag | append, sync, rotate, beat, forced beat, close | segment files, heartbeat file, sidecar |
| Heartbeat file (`crates/plr-wal/src/heartbeat.rs`) | two 64-byte slots | encode, decode, recover | read at boot and by reconstruction |
| Receive-seq sidecar (`plrd/seqfile.rs`) | one value on disk | encode, decode | WAL thread, stop-window widening |
| WAL frames and scan (`crates/plr-wal/src/{frame,scan,record}.rs`) | pure | encode, scan, classify torn tail or corruption | every reader of the log |
| Power-fail watcher (`plrd/powerfail.rs`) | armed or fired, sidecar file | debounce, mandatory marker, best effort | GPIO, channel, boot |
| Client session (`plrd/client.rs`) | connection, `lost_after_subscribe`, backoff | connect, setup, dispatch, lose, reconnect | Klipper's API socket, recorder, sender |
| Recorder (`plrd/convert.rs`) | merged printer status, print gate, regime | merge status, trapq, stepper; reset | sender, through the client |
| Daemon (`plrd/daemon.rs`) | pending file, sidecar disposal, shutdown reason | boot detection, announce, stop | all of the above, Moonraker |
| Boot detection (`plrd/detect.rs`) | pending-recovery and frame-invalid files | detect, write, clear | WAL directory, resume file |
| Retention (`plrd/retention.rs`) | segment files | plan, prune | WAL directory at boot |
| Recover gates (`plrd/recover.rs`) | resume file, transcript, pending, frame-invalid | drive, confirm, gate, abort | executor, Klipper, operator |
| Executor (`plrd/executor.rs`) | step, cleanup stack, frame guard | execute, re-check, clean up | Klipper's socket |
| Control socket (`plrd/ctrlsock.rs`) | busy lock, confirm tokens, recover state | status, preview, recover, confirm, abort | plugin, command line |
| Reconstruction (`crates/plr-reconstruct`) | pure | epochs, timeline, stop window, stop set, exclude verdict | detection, pipeline |
| Analyzer, G-code (`crates/plr-analyzer`, `crates/plr-gcode`) | pure | interpret, slice, match contacts | pipeline |
| Plan, preflight, resume file (`crates/plr-recovery`) | pure | build phases, refuse, write G-code | recover gates |
| Plugin (`klippy_plugin/plr`) | worker queue, recovery session, touch buffers, calibration | link, confirm, touch, drag search, wizard | control socket, Klipper's reactor |

How they interact. Klipper pushes status and motion over a socket. The client
task hands each message to the recorder, and what the recorder makes of it to
the sender, which must never block: Klipper disconnects a client that stops
reading. Behind a bounded channel one OS thread owns every file of the log. The
power-fail watcher holds a second producer end of the same channel. At the next
start the daemon reads the log *before* it opens a new segment, decides whether
a print was interrupted, and announces it. `plrd recover`, from the command
line or through the control socket, re-reads everything, builds a plan and
executes it step by step; a recovery that aborts after it declared a shifted
coordinate frame leaves a frame-invalid file that refuses the next one.

What is hard here, and which the properties aim at:

- the WAL thread drains the channel *between* two sends of one call;
- a full channel drops records, and reconstruction reads silence as evidence,
  so each loss must be journaled, in the right place, without blocking;
- power is lost between any two system calls of an append, a rotation or a
  beat, and a process exit is not a power cut (the page cache survives it);
- the heartbeat file is rewritten in place and its sequence number wraps;
- the connection to Klipper is lost during setup, during a print, or because
  Klipper restarts, and the restart must not look like a deliberate end;
- a crash between two of the small files boot detection reads and writes;
- the printer changes state between a gate's answer and the next command;
- an abort while cleanups run, or a second recovery while the first runs;
- a question put to the operator whose answer, deadline or asker goes missing,
  between three programs that each keep their own idea of who is waiting;
- what a log that lost its last seconds still says about where the nozzle was.

`PROJECT.json` lists the hazards line by line with the properties that cover
each, and says why where none does yet.

## The modules

`WalRecords` and `WalChannel` hold what several modules share: the record and
command types, and the bounded channel as what was sent and how much of it was
taken. Every definition that models code is in `PROJECT.json`, "map", with its
lines. A definition marked *mutant* is a plausible bug in the operator after it;
no module uses it.

| Module | Models | State ↔ code | Actions ↔ code |
|---|---|---|---|
| `WalSender` | `sender.rs` | `outbox`, `gapStart`, `lastExcluded`, `lossPending` are the fields of `WalSender`; `cur` and `pc` are the call in progress | one step per `try_send`: `Begin…`, `FlushOne`, `CloseGap`, `Offer`, …, so that the WAL thread and the watcher act between any two; `OfferSample` the droppable commands |
| `Exclusion`, `ExclusionHonesty` | `crates/plr-reconstruct/src/exclude.rs` | none; the journal is `WalSender`'s `sent` | the verdict on a journal: the newest set observed and the reasons to doubt it, held against `truth`, the set Klipper reported last |
| `WalService` | `walsvc.rs` | `svc` is the program counter of `Service::run`; a segment is the range of its session's records it holds, how many are on the medium, and whether its name is | one step per system call that matters: append, segment sync, directory sync, create, beat, forced beat; `ThreadExit`, `PowerCut` |
| `HeartbeatFile` | `heartbeat.rs` and its writer in `walsvc.rs` | the two slots in the page cache and on the medium; the writer's sequence number | `WriteSlot`, `SyncSlot`, `Start…`, `ProcessExit`; external: write-back, tear, power cut |
| `WalPipeline` | sender and thread, with the watcher and the join in `daemon.rs` | the variables of both; `stream`, the records in the order the thread appended them; `result`, the thread's return value | the sender's steps, the thread's steps, `Take` from one to the other |
| `Printer` | external: Klipper's `print_stats` and `virtual_sdcard` as `convert.rs` describes them | state, file loaded, active, at the end; what became of each print | start, pause, fail, complete, cancel (in its two halves), reset, restart |
| `ClientSession` | `client.rs`, decisions of `convert.rs` | `phase` is where `run_client` is; `gate`, `known`, `recActive`, `est` are the recorder's; `beats` is the sample the WAL thread was last given | `Connect`, `Subscribe`, `AfterMessage`, `SetupDone`, `Receive`, `LoseSession`, `FailSetup`; Klipper samples at any moment, and sends only what changed |
| `BootDetection` | `epoch.rs`, tail rules of `timeline.rs`, admission in `reconstruct.rs`, `detect` | none | the verdict on a window of records, as one operator per question the code asks |
| `Retention` | `retention.rs` | none | `SessionOf` groups segments by their headers' clocks, `Planned` is what a start wants gone, `Protected` what the guard refuses, `Pruned` what is unlinked |
| `Boot` | `daemon.rs`, `powerfail.rs`, `detect.rs`; extends the two above | the log; sidecar and pending file, each visible and durable; `phase` is how far a start is; `watcher` how far the response is | `Confirm`, `WriteSidecar`, `JournalEdge`; `StopOnSignal`, `StopOnPowerFail`, `Die`; `Detect`, `Apply`, `Dispose`, and the pruning before the first segment; the world: prints, klippy, power |
| `StopSet` | `window.rs`, `stopset.rs` | none | the loss window `[TA, EvalEnd]`, `Heights`, the lines between `Floor` and `FrontierCap`, the extruder `Readings`, from one log |
| `StopWorld` | the world around it, as the documents of `stopset.rs` and `config.rs` describe it | the lines read, when each was journaled, samples, losses, edge | `Second`, `StartLosing`, `StopLosing`, `Fail`; `Logs` is every log a cut at this moment may leave |
| `Recovery` | `recover.rs`, `executor.rs`, the marker of `detect.rs`, the phases of `build_steps` | per execution: `pc` is where it is between two waits, `at` the step, `slots` and `cleanups` as in `execute`; the printer's job and acceleration; marker, pending file, recovery files | `MakePlan`, `FrameGate`, `WriteFile`, `PrinterGate`; per step `Pause`, `Recheck`, `Arm`, `Compute`, `Send`; `Reposition` and `AskPreview` the preview loop; `Cleanup`, `FinishAbort`, `DropPending`, `ClearMarker`; `Die`, `DryRun`, other jobs, uploads, power |
| `RecoverySession` | abstract: what the socket promises whoever starts a recovery | `phase`, the `question` waited on, what was asked and what was given | `Start`, `Ask`, `Give`, `Hear`, `Lapse`, `End`, `Killed` |
| `ControlSocket` | `ctrlsock.rs`, the interaction with the operator in `executor.rs` | `session` is the lock, `slot` the execution kept between two requests, `mirror` what `recover_state` reads; per execution its `stage` and the question `asked` | one step from one wait to the next: `Execute`, `SpawnAndDrive`, `Confirm`, `ReportPause`, `Collect`; `Raise`, `Hear`, `TimeOut`, `Finish` of the execution; `Lapse`, `Restart` |
| `PluginSession` | `klippy_plugin/plr/recovery.py`, `daemon_worker.py`; extends `ControlSocket` | `ui` is the state published, `held` the token, `call` the worker's one request, `aborts` the detached ones | `Start`, `Answer`, `Deliver`, `ClaimExpires`, `WaitExpires`, `Shutdown`, `Teardown`; what becomes of a request at the socket; the daemon's steps; other clients |

History variables (`dropped`, `appended`, `promised`, `fate`, `closed`, `seen`,
`ours`, `forsaken`, `gaveUp`, `usurped`, `exposure`, …) record what happened for the properties; no
action decides by them, except that `fate` in `Boot` also says what Klipper
would report.

How the parts are joined. `WalPipeline` composes sender and thread over one
channel. `ClientSession` takes the sender's contract from `WalSender` (markers
are kept, samples are droppable). `Boot` takes its log from the journal's:
records become durable in order, markers at once, contexts and motion within one
tick. `PluginSession` composes the plugin with `ControlSocket`, which implements
`RecoverySession`; what an execution does between two questions is `Recovery`'s.

## The runs

`pass` runs check; `violation` runs show a disagreement between the code and a
sentence of its own documentation, quoted in `PROJECT.json`, "findings".

| Run | Question | Bounds |
|---|---|---|
| `sender` | Is every loss journaled in the right place, whatever happens between two sends, and is what reconstruction is certain of about cancelled objects true, with and without a scan of the file? | channel of 1, 3 offers, 2 exclude sets, object lists that are unchanged, empty or not: the channel fills, the outbox holds several markers, gaps open and close more than once |
| `service` | Does what a sync covered survive every cut, with no hole, is a forced beat behind its marker, is every append covered in the end, and in the heartbeat file, is the newest durable beat found, and spared by the next write? | segments of 2 records, 2 daemon starts, 4 appends, 4 beats, one written to the log after 3 quiet ones: rotation, then a start over the files of a crash; sequence numbers modulo 8, so the wrap is reached, and unbounded crashes of the beats' writer |
| `pipeline` | Is the journal honest at every cut, is an orderly stop complete, and do the two parts keep their specifications together? | channel of 1, 3 offers, rotation after 2, 9 appends, 1 beat; no exclude changes, which are `sender`'s |
| `client` | Are only ends journaled as ends and all of them, live prints beaten for, beats honest, outages marked and silent? | 2 prints, 1 restart of klippy, 2 connections, one of each fault: message lost, sample dropped, setup failed |
| `client_setup` (violation) | A setup that fails after the subscription: is a killed print journaled as ended? | one such failure, 2 messages in flight |
| `boot` | Is a dead print offered and an ended one not, whatever came later, are the segments it needs kept, and do offer and edge survive failed reads, failed and torn writes, and cuts? | 2 boots, 1 print, 2 segments read (the code reads 3), a cap of nothing, so that retention deletes all it may; 3 records and 3 segments, or 2 of each with 1 edge and 1 fault |
| `boot_kept` (violation) | A second start before the recovery: is the edge still on disk? | 3 records, no fault |
| `recovery` | Does the marker armed for a declare stand, is a started recovery never offered unguarded, is the printer's acceleration put back, is the file that is started a recovery file, how much of a recovery reaches somebody else's job? | one invocation at a time, 2 in all, dry runs at any moment, 2 file names, 1 foreign job; every plan `build_steps` can make of the phases kept |
| `recovery_dry` (violation) | Is an execution past its declare always behind its marker? | 1 invocation, no foreign job |
| `control` | One recovery at a time, no question lost or answered twice, a mirror and a published state that are true, everything free again in the end? | 2 executions, 2 questions in all, 1 restart of `plrd`, any number of klippy's |
| `stop` | Are the height, the line and the extruder reading the print stopped at among those reconstruction names? | 5 lines of 0 to 2 s: a hop up and down, a retract with its `G92`, a long move, some of them relative; lead 3 s, horizon 2 s, 5 s of print, 1 fault |
| `stop_relative` (violation) | Is the extruder band wide enough for a sample taken within a relative line? | 4 lines without a `G92`, no fault |

Why the bounds are enough. The hard cases need few actors and few objects: one
loss, one marker behind it and one record after it; one rotation and one restart
over it; one print killed by one restart and one print that ends; one crash and
one more start; one question that lapses while its answer is on the way, and the
one after it. Each bound lets its case happen, most of them once more, and each
property has a mutant of the code that breaks it under the same configuration,
which shows that the case is reached. `CHECK_DEADLOCK FALSE` stands where the
bounds, or an orderly stop, end the behaviour. `boot` follows a long log without
edges and faults, or a short one with them (`LongOrEventful`), since the two
together do not finish; `service` follows the segments while the heartbeat file
rests and the file while the segments do (`ThreadSpec`), since no property is
about both. `control` has two constraints:
`InOrder` starts the first execution first, which loses nothing since executions
are interchangeable, and `FewQuestions` leaves out what follows a third
question.

### Premises

Some properties name the faults, or the readings of a log, under which they hold.

- `CleanShutdownIsHonest` speaks of behaviours in which every status is
  understood: when a session's baseline is not, the pause that follows looks to
  signal 3 like an end, the documented weakness of that signal. One message in
  flight is enough, since messages keep their order and the client reads nothing
  else of the printer. A pause at the file's last byte counts as "read to its end".
- `CrashIsOffered` asks for no stop after the print's last motion: a
  `RecorderStopped` marker counts as the log's tail until motion follows it, so a
  print that was paused when `plrd` restarted, and lost power before it moved
  again, is not offered.
- `OfferIsNotRetracted` and `EdgeIsConsumedFirst` speak, as `CrashIsOffered` does, of
  prints the log that detection reads shows to have moved (`Moved`): a context
  names the file and a motion follows in the same segment. A print of which that
  log has no motion left is not told from a file that was only selected.
- `EndIsRemembered` needs that detection reads at most three segments
  (`BootAssumption`), as it does: in a longer window an end whose segment was
  deleted could stand before contexts of the same print that were kept, since the
  unlinks of one session may fail one by one.
- `EvidenceIsKept` speaks of prints that are offered and have a file each.
- `ConclusiveIsTrue` takes from `exclude.rs:845-860` that a print whose file defines
  no objects has none cancelled (`ScanAgrees`): there the verdict is certain in
  spite of every doubt. Objects a macro defines at run time, of which the file
  says nothing, are outside that argument.
- `AccelIsPutBack` says what an execution may find (`leftover`): a killed one leaves
  its acceleration in force and the next records it as the printer's.
- `InterlockStands` is about a marker that was not removed since it was armed
  (`exposure`). A dry run takes no lock (`ctrlsock.rs:983-1026`) and removes any
  marker it can read, that of an execution about to declare or past its declare
  included, against the documentation of `FrameGuard` (`executor.rs:780-782`);
  `recovery_dry` shows it. A marker that cannot be read counts as none
  (`detect.rs:368-371`), so `FrameGate` may admit an execution in spite of one.
- `NoStaleOffer` excepts a completion whose removal of the pending file fails: the
  code ignores that and removes the marker all the same (`recover.rs:591-592`).
- `NoStaleOffer`, `StartsARecoveryFile` and `AccelIsPutBack` speak of one execution
  at a time. Two, one from the command line and one from the socket, are not kept
  apart, since the idle gate passes while the other homes or probes, and they
  violate each of the three: one's completion clears the marker of the other, one's
  refusal removes the other's file, one records the other's acceleration.
- `HeightIsCovered` and its companions ask that no loss was still going on when
  power failed, its marker unwritten (`Observed`), and where the planned moves are
  used, that the log holds those up to the last known position
  (`RowsReachTheFrontier`); `LineIsCovered` that the
  reader's floor comes from a sample (`FloorIsCertain`); readings are per line
  only without an observation gap (`PerLine`). `LeadAssumption` rules out a line
  that takes longer than the reader's lead leaves room for; on one, the line the
  print is on may lie outside the set.
- `DumpAssumption` says that a planned move is dumped before the time the reader
  extends a path by (`extension_horizon`, which `config.rs:49-56` sizes to Klipper's
  batching and planning) and before the draws of `frontier_cap_offset` are used up
  (durability lag and two refreshes, against a dump every half second).
  `FileAssumption` says that Z changes only on lines that take time.
- `HeightIsCovered` and its companions also ask that the sample the lines are
  replayed from adds nothing (`Consistent`). A sample may be taken when the g-code
  state has been through a line and the file position has not
  (`record.rs:280-310`); replay then runs that line twice. One that sets every axis
  it names changes nothing the second time, so a file in absolute modes (`G90`,
  `M82`) always satisfies the condition. Under `G91` or `M83` its displacement and
  its time count twice: the extruder band misses its low end, a relative hop its
  height, and the time budget reaches fewer lines. `record.rs:305-309` says that
  the stop set widens its band for this; nothing in `stopset.rs` does, which
  `stop_relative` shows for the extruder reading. Without the condition all three
  properties fail.
- `PublishedIsTrue` excepts a wait the plugin gave up (`gaveUp`): its deadline is
  30 s beyond the daemon's, and while a cleanup longer than that goes on it already
  publishes idle. It also excepts a recovery of which another client answered a
  question (`usurped`): any local client can read the token from `recover_state` and
  answer, a widening `ctrlsock.rs:126-148` accepts; the plugin is not told, and
  publishes that it waits while the machine moves, then idle when its own wait
  ends. `NobodyIsLeftWaiting` excepts the same recovery, and one of which a call
  failed (`forsaken`).

### What the runs came across without a property

- An answer that is rejected as a request (an unknown command: the question was
  asked by a daemon that has been replaced by one of another version,
  `AskedBefore`) drops the token, disarms the deadline and goes back to
  `awaiting_confirmation`, which `recovery.py:177` documents as "paused,
  answerable, demonstrably live"; only a restart of klippy ends it
  (`recovery.py:990-1004`, `1045-1064`). The recovery it speaks of ended with the
  first daemon, so `PublishedIsTrue`, which is about live ones, does not see it.
- Markers still in the sender's outbox at `shutdown` are dropped with it, though
  the module's text says they never are; a heartbeat pause that finds the channel
  full is dropped too, and the thread beats on without a socket.
- The sidecar of a power cut that left nothing to recover stays until a
  conclusive start, so it may meet a second crash, where only the admission band
  keeps it out.
- SIGTERM at the moment of the watcher's exit journals a stop behind the power
  failure (`Boot.StopOnSignal`); a refusal removes the file under the plan's
  name, written or not (`Recovery.PrinterGate`); retention pins by the pending
  file alone, so a crash whose detection failed in two starts can lose its log.
- `scan.rs` reckons that the newest segments reach far back (`scan.rs:11-16`),
  but every daemon start opens a fresh segment, so three restarts suffice to
  push a print out of the window.
- `outcome_tag` answers "complete" (`ctrlsock.rs:1059`), which
  `recovery.py` does not list among its terminal outcomes, so a recovery that
  ends well leaves the plugin at "unknown".

## Fairness

Liveness is stated only where the code schedules it, in two runs.

`service`: the thread finishes the steps it began, and reaches `recv_timeout`'s
deadline again and again while commands keep arriving, hence strong fairness for
the batch sync (`Service::run` checks the deadline before each receive). Nothing
is assumed of Klipper, the power supply or the disk.

`control` (`AcceptsAgain`, `WaitsEnd`): the daemon's runtime polls what is ready,
and a question's deadline passes; an execution that runs asks or ends; on the
plugin's side a call that gets no answer fails, since `EXECUTE_TIMEOUT` bounds it
as a whole, and Klipper's reactor delivers replies and runs its timers. Nothing
is assumed of an operator, of other clients, of a restart of klippy or `plrd`, or
of an abort's arrival.

## What is proved

The `…Proofs` modules prove, for every value of the constants under the `ASSUME`
of the module they extend:

- `WalSenderProofs`: `TypeCorrect`, `DropsAreJournaled` ([]`GapHonesty`) and
  `GapsBracketTheLoss` ([]`GapClaimsOnlyTheLoss`), with
  `NothingPassesAnOpenGap` ([]`NoRecordInsideOpenGap`). None is inductive: a gap
  marker is only right because a record is sent with the gap closed. `IInv` adds
  what is true inside a call (`CallInv`: which program point implies an open or
  a closed gap), that nothing recorded is later than the clock (`ClockInv`),
  that no gap waits in the outbox (`OutboxInv`), and `NoRecordInsideOpenGap`.
  The proof separates what appending one command does to a sequence (`QuietSend`,
  `GapSend`, `RecordSend`) from which command each action sends.
  On top of it `CertaintyIsTrue` ([]`ConclusiveIsTrue`): the invariant follows a
  change of the excluded set from the moment Klipper reports it. It is in the
  journal, or in the call, or a doubt about it is journaled, waits in the outbox
  or is pending, and nothing offered later passes it. `MarkersAreKept`
  ([]`MarkersSurviveInOrder`) is about places in a sequence (`Place`): a marker moves
  from the outbox to the channel without changing its place among what was offered
  (`OrderFlush`), and a call that gets to its own `try_send` has none before it.
- `WalServiceProofs`: `TypeCorrect`, `DurableRecordsSurvive`
  ([]`PromisedSurvives`) and `RotationLeavesNoHole` ([]`SurvivorsArePrefix`).
  `IInv` says that segments are in session order, that those of one session
  leave no hole and all but its last are durable and named (`SegsInv`), that
  what was promised lies on the medium (`PromiseInv`), and that the running
  thread writes at the end of its own stream (`RunInv`). One lemma per system
  call says what it does to the list of segments; `Cut` says what a power cut
  leaves. `ForcedBeatFollowsItsMarker` (`MarkerDurableBeforeForcedBeat`, a property
  of steps) adds `EdgeInv`: from the marker's append to its beat no other beat is
  possible, and past the sync all the session wrote stays durable.
  The module also proves the heartbeat file: `HeartbeatTypeCorrect`, `Recoverable`
  ([]`NewestBeatSurvives`) and `NextWriteIsSafe` ([]`NextWriteSparesTheNewest`), from
  an invariant over the two slots and the beat in flight (`HeartbeatInv`), for every
  even modulus the assumption admits; the wrapping comparison enters through
  `NewerFacts`.
- `WalPipelineProofs`: `ComposesBothSides` (`ImplementsBothSides`),
  `HonestWherePowerIsLost` ([]`HonestAtEveryCut`) and `OrderlyStopLosesNothing`
  ([]`OrderlyStopIsComplete`). First the composition is a sender under a thread
  that takes or dies (`RunInv`: while the thread has not returned, the channel is
  up), so `WalSenderProofs`' invariant is imported through an instance
  (`SenderKnows`). On top of it, `ChannelInv` says that the channel holds one
  `PowerFailing` at most and nothing else behind the sender's `Shutdown`, and
  `StreamInv` that every marker taken is in the stream and each record of the
  stream was taken behind the markers before it: hence an honest channel makes an
  honest prefix of the stream, and each command taken is one of `WalService`'s
  inputs.
- `RecoveryProofs`, for any number of overlapping executions, names and jobs:
  `InterlockHolds` ([]`InterlockStands`) and `ForeignJobIsSpared`
  ([]`StraysAreBounded`). For the first the marker alone is not inductive: a power
  cut falls back to the copy on the medium, and the declare is sent a step after
  the marker was armed. `IInv` says that both copies stand from the arming on, for
  every execution that armed the marker since it was last removed (`ExposedArmed`).
  For the second, `StrayInv` counts, beside the strays, the executions between a
  recheck and their commands: they only get fewer while the foreign job lasts.
  While invocations do not overlap (`OneRun`, as in the run):
  `StartedIsNotOfferedAgain` ([]`NoStaleOffer`), `StartsItsOwnFile`
  (`StartsARecoveryFile`) and `AccelerationIsPutBack` ([]`AccelIsPutBack`).
  `FileInv` places each execution in its plan and ties it to the file it created;
  `AccelInv` says what is registered for an abort, that the oldest of it is the
  printer's own value, and that whatever is in force otherwise the rest of the plan
  puts back. The plans enter through the order of their phases (`Rank`, `StepsSorted`,
  `PlanOrder`). None of the three holds for two executions at once: see above.
- `PluginSessionProofs`, first of the socket alone: `OneRecoveryAtATime`
  ([]`OneRecovery`), `MirrorTellsTheTruth` ([]`MirrorIsTruthful`),
  `WaitingQuestionIsAnswerable` ([]`QuestionIsAnswerable`) and the refinement
  `KeepsTheSession` (`ImplementsSession`), for any number of clients, executions,
  questions and restarts. That two executions never live at once is not inductive:
  it rests on who may hold the lock, the slot or the driving request (`OwnerInv`),
  on questions being new (`FreshInv`) and on what the slot's question is to its
  execution (`TokenInv`). The refinement maps every step to one of the session's
  or to a stutter. Then of the composition: `PluginIsAClient` (the plugin does
  nothing to the socket that a client may not, so all of the above holds of both
  together), `PublishedStateIsTrue` ([]`PublishedIsTrue`) and `NoQuestionIsForgotten`
  ([]`NobodyIsLeftWaiting`). The invariant `Ties` is on top of the socket's: what
  the one call in flight may have found and been answered (`CallInv`,
  `ServedInv`), what the plugin's own execution is to the lock and the slot
  (`OwnInv`), and what each published state says of it (`IdleInv`, `TalkInv`,
  `WorkInv`).
- `ClientSessionProofs`, for any number of prints, restarts of klippy, connections,
  messages and faults: `TypeCorrect`, `ShutdownIsHonest`
  ([]`CleanShutdownIsHonest`), `EndReachesTheJournal` ([]`EndIsJournaled`),
  `CadenceIsKept` ([]`LivePrintKeepsCadence`), `OutagesAreMarked`
  ([]`OutageIsMarked`) and `HonestBeats` (`BeatsAreHonest`, a property of steps). The
  session knows the printer only through messages of which some were lost and the
  rest are late, so the invariant is about the three together: what
  a message in flight still means for a printer that has moved on (`MessageInv`), that
  the queue read in order leads from what the recorder knows to what was last sent
  (`ViewInv`), what the gate is to the print it was opened for (`GateInv`), and that
  what a message reports as over is over for every print before it (`HonestInv`).
- `BootProofs`, for any number of boots, prints, segments, records, edges and faults,
  and any cap: `BootTypeCorrect`, `CrashesAreOffered` ([]`CrashIsOffered`),
  `EndsAreRemembered` ([]`EndIsRemembered`), and of steps `OffersAreKept`
  (`OfferIsNotRetracted`), `EdgesAreConsumedFirst` (`EdgeIsConsumedFirst`) and
  `EvidenceIsNotDeleted` (`EvidenceIsKept`). The invariant says what the log is:
  in order and true of the prints (`Ordered`, `Truthful`, `EndsAreSeen`), with a
  context that names the print in the klippy session of each of its motions and ends
  (`MotionsAreNamed`, `EndsAreLinked`), and that nothing between two segments of one
  print looks like a reboot (`HeadersInv`). All of it holds of any window of the
  log, whatever retention took from its front, which is why the lemmas speak of a log
  and not of the variable: `CrashEpochIs` finds the crash epoch of a window in which a
  print moved, `MotionDecides` and `EndDecides` the verdict on it, `SameSession`
  and `PinnedIsKept` that retention keeps what it names.
- `StopWorldProofs`, for every file, as long as no line is added twice (`Consistent`,
  see the premises: `NothingIsAdded` is where it enters), every timing they admit, and
  any number of losses: `LineCovered` ([]`LineIsCovered`), `ReadingCovered`
  ([]`ReadingIsCovered`) and `HeightCovered` ([]`HeightIsCovered`). `IInv` keeps no more
  than what relates the machine to its recording: lines begin no sooner than the ones
  before can have ended (`LinesInv`), planned moves are dumped in order and soon after
  they begin (`RowsInv`), a sample parts the lines read by then from those read later
  (`SamplesInv`), and a planned move is missed only in a loss (`LossesInv`). The rest is
  about one cut: `TailIsShort` bounds what can have run since the newest sample,
  `ConsumedReaches` and `FrontierCapReaches` say that both simulations go that far,
  `FloorIsPassed` that the machine is past the floor; `LineHeights` and `RowCovers` find
  the candidate the nozzle is on, and rounding enters through `AtMono` (heights along a
  move are in order, whatever the division drops).

Before it was proved each inductive invariant was checked by TLC as an invariant of
the component's run.

Each theorem that names a property is also checked by a run, and every safety property
of the passing runs is stated by a theorem. Left to TLC: the
liveness properties (`BatchedBecomesDurable`, `AcceptsAgain`, `WaitsEnd`), which are
out of the prover's reach, and the properties of the `violation` runs, which do not hold.
Induction is used where it can be: over the numbers of a log as the existence of a
least element (`LeastNat`), not as a theorem about recursive definitions. The least
time up to a line is therefore a field of the line (`File[n].by`), not a sum over the
lines before it.

## What is not modelled

- Bytes: encodings and checksums are abstracted to "valid" or "torn".
- In `ClientSession`: the info poll (it only logs), the merge of setpoints,
  transforms and exclude state, Klipper's answers that are too large or late;
  the daemon's exit when the WAL thread is gone is `HangUp` in `WalSender`.
- In `Boot`: heartbeats (a crash epoch is assumed to have one; a log without is
  among the unreadable), the announcement and its check that the print is not
  still running, retention's notices, and the frame-invalid file. A tick is
  longer than the watcher's response, than the slack of the admission band and
  than `REBOOT_MONO_REGRESSION_NS`, and a print starts when the machine has been
  up for a tick, so that a reboot shows as a regression of the clock. A file
  selected but not started in an idle boot (which `epoch.rs` also takes for
  printing) is not among the world's steps. The completion gate is a proof that
  may fail for want of evidence.
- In `Recovery`: consent and `--confirm` (a refusal of `FrameGate`), the
  transcript, the plan's geometry, heating and homing (one phase, `prepare`),
  and Klipper's g-code queue: a command takes effect when it is sent, or not at
  all, and an execution waits for it. The construction error of a preview plan
  without the original file's bytes is left out. A file that is started may be
  changed afterwards.
- In `StopSet`: XY and the extruder's own count, which are unions of the same
  kind as Z; the confidence labels and the report; lines that are not one move of
  constant speed; and after a line was added twice, that the next one to set the
  axis has further to go (it is charged its own time). In `Exclusion`: the torn
  tail of the log and the freshness of the observation against the window, which
  are read after the early return and only add doubts.
- In `ControlSocket` and `PluginSession`: requests that read only, the parsing of
  requests and answers, the texts and dialogs, and the report of a detached abort.
- Out of reach: the rest of the plugin (touch, drag search, calibration), the
  analyzer, the G-code interpreter and the plan's values are geometry and
  floating-point arithmetic, where a model over small integers would show nothing
  about the code; the WAL frame scan, configuration, the Klipper and Moonraker
  protocols and the reports are encoding and formatting. This is most of the
  repository's text, and why the map covers a small part of it.
- `PROJECT.json` lists every component with its status and the reason.

## Plan

1. **The journal** (done). `WalRecords`, `WalChannel`, `WalSender`,
   `HeartbeatFile`, `WalService`, `WalPipeline`; `Exclusion` reads it.
2. **The client session and the recorder's decisions** (done). `Printer`,
   `ClientSession`.
3. **Boot** (done but for the announcement). `BootDetection`, `Retention`, `Boot`.
4. **Recovery** (done but for an abstract specification, "no motion outside a
   verified frame, and no recovery while the frame is unknown"). `Recovery`.
5. **Control socket** (done). `RecoverySession`, `ControlSocket`.
6. **Plugin**: the recovery session and its worker (done, `PluginSession`); left
   are the consensus touch, the drag search and the wizard.
7. **Reconstruction**: the stop window and stop set along Z, the file and the
   extruder's file frame (done, `StopSet`, `StopWorld`); left are XY, the
   preflight, and the WAL scan as an operator over damaged byte ranges.

Theorems to follow: an abstract specification of what a recovery may move, and of the
offer a boot makes, with `Recovery` and `Boot` shown to implement them.
