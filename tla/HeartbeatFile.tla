---------------------------- MODULE HeartbeatFile ----------------------------
(***************************************************************************)
(* The two-slot heartbeat file across crashes and power cuts               *)
(* (crates/plr-wal/src/heartbeat.rs; written by crates/plrd/src/walsvc.rs  *)
(* write_heartbeat_slot, resumed by Service::init).                        *)
(*                                                                         *)
(* A slot holds a sequence number, or is Blank (never written) or Torn     *)
(* (its CRC fails).  `cache` is what a reader of the running system sees,  *)
(* `disk` what the medium holds: write_all_at changes the cache, the       *)
(* kernel may write a slot back at any time, fdatasync makes the file      *)
(* equal, and a power cut leaves of a slot that was not written back the   *)
(* old content, the new or a tear.  A process crash loses nothing of the   *)
(* cache.  One slot is assumed not to damage the other when it tears.      *)
(***************************************************************************)
EXTENDS Integers

CONSTANTS
  SeqMod,      \* 2^64: the sequence numbers are 0..SeqMod-1
  NoBeat,      \* no heartbeat: nothing recovered, nothing durable
  Blank, Torn

ASSUME HeartbeatAssumption ==
  /\ SeqMod \in Nat /\ SeqMod >= 6 /\ SeqMod % 2 = 0
  /\ {NoBeat, Blank, Torn} \cap Int = {}
  /\ Blank # Torn /\ NoBeat # Blank /\ NoBeat # Torn

VARIABLES
  cache, disk,  \* slot contents
  named,        \* the file's directory entry is durable
  pc,           \* the WAL thread: "down", "starting", "synced", "idle", "written"
  nextSeq,      \* hb_seq: the sequence the next beat gets
  safe          \* history: the newest beat known durable

heartbeatVars == <<cache, disk, named, pc, nextSeq, safe>>

SequenceNumbers == 0..(SeqMod - 1)
Slots == {0, 1}                             \* SlotId::A, SlotId::B
Contents == SequenceNumbers \cup {Blank, Torn}

OneSlot(n) == 0                                                 \* mutant
slot_for_sequence(n) == n % 2
WrappingSucc(n) == IF n = SeqMod - 1 THEN 0 ELSE n + 1
WrappingSub(c, o) == IF c >= o THEN c - o ELSE c - o + SeqMod

sequence_is_newer(c, o) ==
  LET forward == WrappingSub(c, o)
  IN  forward # 0 /\ 2 * forward < SeqMod

Valid(c) == c \in SequenceNumbers

(* The newest valid slot, NoBeat when neither validates; a tie goes to A.  *)
recover_heartbeat(file) ==
  LET a == file[0]
      b == file[1]
  IN  IF Valid(a) /\ Valid(b)
        THEN IF sequence_is_newer(b, a) THEN b ELSE a
        ELSE IF Valid(a) THEN a ELSE IF Valid(b) THEN b ELSE NoBeat

RestartedSequence(beat) == 0                                    \* mutant
NextSequence(beat) == IF beat = NoBeat THEN 0 ELSE WrappingSucc(beat)

Fresh == [s \in Slots |-> Blank]

HeartbeatInit ==
  /\ cache = Fresh /\ disk = Fresh
  /\ named = FALSE
  /\ pc = "down" /\ nextSeq = 0 /\ safe = NoBeat
-----------------------------------------------------------------------------
(* Service::init reads the file and resumes after what it recovers; the    *)
(* file is never zeroed.                                                   *)
Start ==
  /\ pc = "down"
  /\ pc' = "starting"
  /\ nextSeq' = NextSequence(recover_heartbeat(cache))
  /\ UNCHANGED <<cache, disk, named, safe>>

(* fdatasync(&hb_file): a beat a crashed writer left in the cache becomes  *)
(* durable before its neighbour may be overwritten.                        *)
StartSync ==
  /\ pc = "starting"
  /\ pc' = "synced"
  /\ disk' = cache
  /\ UNCHANGED <<cache, named, nextSeq, safe>>

(* fsync of the directory: the name is durable before the first beat.      *)
StartDirSync ==
  /\ pc = "synced"
  /\ pc' = "idle"
  /\ named' = TRUE
  /\ safe' = recover_heartbeat(cache)
  /\ UNCHANGED <<cache, disk, nextSeq>>

(* write_heartbeat_slot: the write ...                                     *)
WriteSlot ==
  /\ pc = "idle"
  /\ pc' = "written"
  /\ cache' = [cache EXCEPT ![slot_for_sequence(nextSeq)] = nextSeq]
  /\ UNCHANGED <<disk, named, nextSeq, safe>>

(* ... and the sync that completes the beat (with O_DSYNC both are one     *)
(* system call, which a power cut splits in the same way).                 *)
SyncSlot ==
  /\ pc = "written"
  /\ pc' = "idle"
  /\ disk' = cache
  /\ safe' = nextSeq
  /\ nextSeq' = WrappingSucc(nextSeq)
  /\ UNCHANGED <<cache, named>>

Writeback(s) ==
  /\ disk' = [disk EXCEPT ![s] = cache[s]]
  /\ UNCHANGED <<cache, named, pc, nextSeq, safe>>

(* The thread exits: killed, a fatal I/O error, or a clean shutdown.       *)
ProcessExit ==
  /\ pc # "down"
  /\ pc' = "down"
  /\ UNCHANGED <<cache, disk, named, nextSeq, safe>>

(* What the file may read after power returns.                             *)
SlotAfterCut(s) ==
  IF cache[s] = disk[s] THEN {disk[s]} ELSE {disk[s], cache[s], Torn}
FileImages ==
  {f \in [Slots -> Contents] : \A s \in Slots : f[s] \in SlotAfterCut(s)}
    \cup (IF named THEN {} ELSE {Fresh})

HeartbeatPowerCut ==
  /\ pc' = "down"
  /\ \E image \in FileImages :
       /\ cache' = image
       /\ disk' = image
       /\ named' = (named \/ image # Fresh)
  /\ UNCHANGED <<nextSeq, safe>>

HeartbeatNext ==
  \/ Start \/ StartSync \/ StartDirSync
  \/ WriteSlot \/ SyncSlot
  \/ \E s \in Slots : Writeback(s)
  \/ ProcessExit \/ HeartbeatPowerCut

HeartbeatSpec == HeartbeatInit /\ [][HeartbeatNext]_heartbeatVars
-----------------------------------------------------------------------------
HeartbeatTypeOK ==
  /\ cache \in [Slots -> Contents] /\ disk \in [Slots -> Contents]
  /\ named \in BOOLEAN
  /\ pc \in {"down", "starting", "synced", "idle", "written"}
  /\ nextSeq \in SequenceNumbers
  /\ safe \in SequenceNumbers \cup {NoBeat}

(* Whenever the power goes, recovery finds the newest durable beat or the  *)
(* one that was being written after it: a tear never costs more than the   *)
(* beat in flight, and never resurrects an older one.                      *)
NewestBeatSurvives ==
  safe # NoBeat =>
    \A image \in FileImages : recover_heartbeat(image) \in {safe, WrappingSucc(safe)}

(* The slot the next beat overwrites is never the one recovery would use:  *)
(* the sequence resumes newer than anything in the file.                   *)
NextWriteSparesTheNewest ==
  pc = "idle" =>
    \A s \in Slots :
      Valid(cache[s]) =>
        /\ sequence_is_newer(nextSeq, cache[s])
        /\ cache[s] = recover_heartbeat(cache) => s # slot_for_sequence(nextSeq)
=============================================================================
