----------------------------- MODULE WalChannel -----------------------------
(***************************************************************************)
(* The bounded channel between plrd's async socket side and its sync WAL   *)
(* thread (crates/plrd/src/sender.rs, walsvc.rs).                          *)
(*                                                                         *)
(* The std::sync::mpsc::sync_channel is modelled as a log with a cursor:   *)
(* `sent` holds every command the channel ever accepted and `taken` counts *)
(* those the WAL thread received, so the queue is the part of `sent` after *)
(* `taken`.                                                                *)
(***************************************************************************)
EXTENDS WalRecords

CONSTANT ChannelCapacity   \* config: slots of the bounded channel

ASSUME ChannelAssumption == ChannelCapacity \in Nat \ {0}

VARIABLES sent, taken, rxAlive
chanVars == <<sent, taken, rxAlive>>

Full == Len(sent) - taken >= ChannelCapacity
Empty == taken = Len(sent)
Send(cmd) == /\ sent' = Append(sent, cmd)
             /\ UNCHANGED <<taken, rxAlive>>

ChannelTypeOK ==
  /\ sent \in Seq(Command)
  /\ taken \in Nat
  /\ rxAlive \in BOOLEAN

ChannelInit == sent = <<>> /\ taken = 0 /\ rxAlive = TRUE

AppendAt(i) == sent[i].op = "Append"
=============================================================================
