---------------------------- MODULE BootDetection ----------------------------
(***************************************************************************)
(* What a reader concludes from the write-ahead log of an unclean stop:    *)
(* the partition into epochs and the choice of the crash epoch             *)
(* (plr-reconstruct/src/epoch.rs), what its tail says (timeline.rs,        *)
(* reconstruct.rs) and the verdict of boot detection                       *)
(* (crates/plrd/src/detect.rs).                                            *)
(*                                                                         *)
(* A record has the segment it is in, the monotonic time `t` of its boot   *)
(* in ticks longer than the admission band's slack, a kind, and the print  *)
(* its file belongs to (0 for none).  `ended` is a context's               *)
(* print_stats.state: complete or cancelled.                               *)
(*                                                                         *)
(* A log is a function of the numbers its records were journaled under;    *)
(* where segments were deleted there are none.                             *)
(***************************************************************************)
EXTENDS Integers, Sequences, FiniteSets

CONSTANTS
  NoEdge,            \* no power-fail edge
  SegmentLimit       \* DETECT_SEGMENT_LIMIT

RecordKinds == {"context", "motion", "clean", "lost", "stopped", "edge"}

Latest(S) == IF S = {} THEN 0 ELSE CHOOSE i \in S : \A j \in S : j <= i

(* load_merged_tail: the newest of the segments there are.                 *)
Window(log, segments) ==
  LET Recent(r) == Cardinality({s \in segments : s > r.seg}) < SegmentLimit
  IN  [i \in {k \in DOMAIN log : Recent(log[k])} |-> log[i]]
-----------------------------------------------------------------------------
(* Epochs of a window, each named by its first record.  Only a new segment *)
(* can be a reboot; the record after a SocketLost opens a new session.     *)

Before(w, i) == Latest({k \in DOMAIN w : k < i})

NewEpoch(w, i) ==
  LET b == Before(w, i)
  IN  \/ b = 0
      \/ w[i].seg # w[b].seg /\ w[i].t < w[b].t
      \/ w[b].kind = "lost"

Epochs(w) == {i \in DOMAIN w : NewEpoch(w, i)}

Epoch(w, s) ==
  {i \in DOMAIN w : s <= i /\ \A k \in Epochs(w) : k > s => i < k}

IsContext(r) == r.kind = "context"
NamesFile(r) == IsContext(r) /\ r.print # 0

(* select_crash_epoch: the newest that was printing, else the newest with  *)
(* a context, else the newest.                                             *)
AnyContext(w) == {s \in Epochs(w) : \E i \in Epoch(w, s) : IsContext(w[i])}  \* mutant
Printing(w) == {s \in Epochs(w) : \E i \in Epoch(w, s) : NamesFile(w[i])}

CrashEpoch(w) ==
  LET withContext == {s \in Epochs(w) : \E i \in Epoch(w, s) : IsContext(w[i])}
      start == IF Printing(w) # {} THEN Latest(Printing(w))
               ELSE IF withContext # {} THEN Latest(withContext)
               ELSE Latest(Epochs(w))
  IN  Epoch(w, start)
-----------------------------------------------------------------------------
(* What the records e of the crash epoch say. *)

Of(w, e, kind) == {i \in e : w[i].kind = kind}

(* clean_shutdown, recorder_stopped_tail: a marker no motion follows.      *)
IsLast(w, e, kind) == Latest(e) \in Of(w, e, kind)              \* mutant
InTail(w, e, kind) == Latest(Of(w, e, kind)) > Latest(Of(w, e, "motion"))

(* last_print_file, last_print_state_for.                                  *)
NewestNaming(w, e) == Latest({i \in e : NamesFile(w[i])})

(* sidecar_admits: the edge is adjacent to the epoch's newest record.      *)
Admits(w, e, edge) ==
  edge # NoEdge /\ edge.t \in {w[Latest(e)].t, w[Latest(e)].t + 1}

Admitted(w, e, edge) == IF Admits(w, e, edge) THEN edge ELSE NoEdge

NoVerdict == [kind |-> "none", print |-> 0, edge |-> NoEdge]
Saying(kind) == [NoVerdict EXCEPT !.kind = kind]

(* detect, on a readable log.  `complete` are the prints the completion    *)
(* gate proves to have nothing left to extrude.                            *)
Verdict(w, edge, complete) ==
  LET e == CrashEpoch(w)
      named == NewestNaming(w, e)
  IN  IF DOMAIN w = {} THEN Saying("unknown")
      ELSE IF InTail(w, e, "clean") THEN Saying("clean")
      ELSE IF named = 0 THEN Saying("unknown")
      ELSE IF w[named].ended THEN Saying("settled")
      ELSE IF InTail(w, e, "stopped") THEN Saying("stopped")
      ELSE [kind |-> IF w[named].print \in complete THEN "complete" ELSE "pending",
            print |-> w[named].print,
            edge |-> Admitted(w, e, edge)]
=============================================================================
