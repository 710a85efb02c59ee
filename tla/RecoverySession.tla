-------------------------- MODULE RecoverySession --------------------------
(***************************************************************************)
(* What the control socket promises to whoever starts a recovery: one      *)
(* recovery at a time, and a conversation in which every question is new,  *)
(* is asked once, takes one answer in its own vocabulary, given while the  *)
(* recovery waits for it, and an answer that was taken is what the         *)
(* recovery goes on with.  An abort, or a question left unanswered, leads  *)
(* to the end and to nothing else.  ControlSocket implements it.           *)
(***************************************************************************)
CONSTANTS Questions, NoQuestion   \* NoQuestion is not one of them

VARIABLES
  phase,      \* "idle", "working", "waiting" for an answer, "ending"
  question,   \* the question being waited on, or NoQuestion
  kind,       \* per question: "unasked", or the vocabulary it was asked in
  given       \* per question: the answer taken, or "nothing"

vars == <<phase, question, kind, given>>

BinaryVerbs == {"continue", "abort"}
PreviewVerbs == {"choose", "abort"}   \* accept, next, prev, nudge
Verbs == BinaryVerbs \cup PreviewVerbs
Kinds == {"binary", "preview"}
Vocabulary(k) == IF k = "preview" THEN PreviewVerbs ELSE BinaryVerbs

Init ==
  /\ phase = "idle"
  /\ question = NoQuestion
  /\ kind = [q \in Questions |-> "unasked"]
  /\ given = [q \in Questions |-> "nothing"]

Start ==
  /\ phase = "idle"
  /\ phase' = "working"
  /\ UNCHANGED <<question, kind, given>>

Ask ==
  /\ phase = "working"
  /\ \E q \in Questions, k \in Kinds :
       /\ kind[q] = "unasked"
       /\ question' = q
       /\ kind' = [kind EXCEPT ![q] = k]
  /\ phase' = "waiting"
  /\ UNCHANGED given

Give ==
  /\ phase = "waiting"
  /\ given[question] = "nothing"
  /\ \E v \in Vocabulary(kind[question]) : given' = [given EXCEPT ![question] = v]
  /\ UNCHANGED <<phase, question, kind>>

Hear ==
  /\ phase = "waiting"
  /\ given[question] # "nothing"
  /\ phase' = IF given[question] = "abort" THEN "ending" ELSE "working"
  /\ question' = NoQuestion
  /\ UNCHANGED <<kind, given>>

Lapse ==
  /\ phase = "waiting"
  /\ given[question] = "nothing"
  /\ phase' = "ending"
  /\ question' = NoQuestion
  /\ UNCHANGED <<kind, given>>

End ==
  /\ phase \in {"working", "ending"}
  /\ phase' = "idle"
  /\ UNCHANGED <<question, kind, given>>

Killed ==
  /\ phase' = "idle"
  /\ question' = NoQuestion
  /\ UNCHANGED <<kind, given>>

Next == Start \/ Ask \/ Give \/ Hear \/ Lapse \/ End \/ Killed

Spec == Init /\ [][Next]_vars
=============================================================================
