----------------------------- MODULE MessageLife -----------------------------
(***************************************************************************)
(* What the chat promises about one message: it is composed once, reaches  *)
(* the backend at most once, is read only after it is there, and stays     *)
(* read.  A message may be lost only before the backend has it, and what   *)
(* is lost never turns up later.                                           *)
(***************************************************************************)
EXTENDS Naturals

CONSTANT Id        \* the messages

VARIABLE phase     \* phase[m]: how far the message m has come

Phases == {"none", "pending", "stored", "read", "lost"}

TypeOK == phase \in [Id -> Phases]

Init == phase = [m \in Id |-> "none"]

Move(m, from, to) == phase[m] = from /\ phase' = [phase EXCEPT ![m] = to]

Compose(m) == Move(m, "none", "pending")

Store(m) == Move(m, "pending", "stored")

MarkRead(m) == Move(m, "stored", "read")

\* Several messages are lost together when a process ends.
Lose(lost) ==
  /\ lost # {}
  /\ \A m \in lost : phase[m] = "pending"
  /\ phase' = [m \in Id |-> IF m \in lost THEN "lost" ELSE phase[m]]

Next ==
  \/ \E m \in Id : Compose(m) \/ Store(m) \/ MarkRead(m)
  \/ \E lost \in SUBSET Id : Lose(lost)

Spec == Init /\ [][Next]_phase

=============================================================================
