------------------------------ MODULE Retention ------------------------------
(***************************************************************************)
(* Which segments of the log a start of plrd deletes to get below the cap  *)
(* (crates/plrd/src/retention.rs).  Segments are grouped into sessions, a  *)
(* boot each by their headers' clocks; whole sessions go, the oldest       *)
(* first, and never one from the pinned session on.                        *)
(*                                                                         *)
(* The segments found are a function of their numbers: each has the clock  *)
(* `created` of its header and its `size`.                                 *)
(***************************************************************************)
EXTENDS Integers, FiniteSets, FiniteSetsExt

CONSTANTS
  Unreadable,        \* created_mono_ns of a header that does not decode
  Cap                \* wal_retention_bytes

Readable(metas) == {i \in DOMAIN metas : metas[i].created # Unreadable}

(* A reboot: the clock is behind the newest readable header before it, over *)
(* any unreadable ones in between.                                         *)
Everywhere(metas) == DOMAIN metas                               \* mutant
Reboots(metas) ==
  {i \in Readable(metas) : \E k \in Readable(metas) :
     /\ k < i /\ metas[i].created < metas[k].created
     /\ \A m \in Readable(metas) : m < i => m <= k}

(* group_into_sessions: sessions are numbered from the oldest.             *)
SessionOf(metas, i) == 1 + Cardinality({s \in Reboots(metas) : s <= i})
Newest(metas) == SessionOf(metas, Max(DOMAIN metas))
Session(metas, n) == {i \in DOMAIN metas : SessionOf(metas, i) = n}
Deletable(metas, n) == Session(metas, n) \subseteq Readable(metas)

Size(metas, S) == MapThenSumSet(LAMBDA i : metas[i].size, S)

-----------------------------------------------------------------------------
(* resolve_pins: `naming` are the segments with a context that names the   *)
(* pending recovery's file.  A pin that cannot be localized keeps all.     *)

KeepFrom(metas, pending, frame, naming) ==
  IF frame = "absent" /\ pending = "absent" THEN Newest(metas)
  ELSE IF frame # "torn" /\ pending = "offer" /\ naming # {}
         THEN Max({SessionOf(metas, i) : i \in naming})
  ELSE 1

(* plan_pruning: what remains once the sessions up to n were considered.   *)
Remaining(metas) ==
  LET left[n \in 0..Newest(metas)] ==
        IF n = 0 THEN Size(metas, DOMAIN metas)
        ELSE IF left[n - 1] > Cap /\ Deletable(metas, n)
               THEN left[n - 1] - Size(metas, Session(metas, n))
               ELSE left[n - 1]
  IN  left

Planned(metas, keepFrom) ==
  {i \in DOMAIN metas :
     LET n == SessionOf(metas, i)
     IN n < keepFrom /\ Deletable(metas, n) /\ Remaining(metas)[n - 1] > Cap}

(* protected_segments, which apply_pruning holds every plan against.       *)
Protected(metas, keepFrom) ==
  {i \in DOMAIN metas : \/ SessionOf(metas, i) >= keepFrom
                        \/ ~Deletable(metas, SessionOf(metas, i))
                        \/ i = Max(DOMAIN metas)}

(* The numbers of the segments a start unlinks.                            *)
Pruned(metas, pending, frame, naming) ==
  IF DOMAIN metas = {} THEN {}
  ELSE LET keepFrom == KeepFrom(metas, pending, frame, naming)
           plan == Planned(metas, keepFrom)
       IN  IF plan \cap Protected(metas, keepFrom) = {} THEN plan ELSE {}
=============================================================================
