----------------------------- MODULE WriteQueue -----------------------------
(***************************************************************************)
(* What the Firestore client of one device promises about its writes, with *)
(* the backend seen as one document that every write replaces.             *)
(*                                                                         *)
(* A write is applied at least once: the backend may apply the oldest      *)
(* writes of the queue and the device may never hear of it, and then they  *)
(* are all sent again.                                                     *)
(***************************************************************************)
EXTENDS Naturals, SequencesExt

CONSTANT MaxWrites   \* bound: calls of the app in one behaviour

VARIABLES
  issued,     \* how many writes the app has issued: write n is the n-th
  outbox,     \* the writes that are neither acknowledged nor refused nor lost
  saved,      \* how many of them survive the end of the process
  applied,    \* how many of them this stream has applied, unheard of
  latest,     \* the write that the document of the backend holds, 0 at first
  confirmed   \* the newest write the device knows to be stored

vars == <<issued, outbox, saved, applied, latest, confirmed>>

Init ==
  /\ issued = 0
  /\ outbox = <<>>
  /\ saved = 0
  /\ applied = 0
  /\ latest = 0
  /\ confirmed = 0

Issue ==
  /\ issued < MaxWrites
  /\ issued' = issued + 1
  /\ outbox' = Append(outbox, issued + 1)
  /\ UNCHANGED <<saved, applied, latest, confirmed>>

Save ==
  /\ saved < Len(outbox)
  /\ saved' = saved + 1
  /\ UNCHANGED <<issued, outbox, applied, latest, confirmed>>

Apply ==
  /\ applied < saved
  /\ applied' = applied + 1
  /\ latest' = outbox[applied + 1]
  /\ UNCHANGED <<issued, outbox, saved, confirmed>>

Acknowledge ==
  /\ applied > 0
  /\ outbox' = Tail(outbox)
  /\ saved' = saved - 1
  /\ applied' = applied - 1
  /\ confirmed' = Head(outbox)
  /\ UNCHANGED <<issued, latest>>

\* The oldest write is given up, and answers under way are lost with it.
Refuse ==
  /\ saved > 0
  /\ outbox' = Tail(outbox)
  /\ saved' = saved - 1
  /\ applied' = 0
  /\ UNCHANGED <<issued, latest, confirmed>>

LoseAnswers ==
  /\ applied' = 0
  /\ UNCHANGED <<issued, outbox, saved, latest, confirmed>>

Crash ==
  /\ outbox' = SubSeq(outbox, 1, saved)
  /\ applied' = 0
  /\ UNCHANGED <<issued, saved, latest, confirmed>>

Next == Issue \/ Save \/ Apply \/ Acknowledge \/ Refuse \/ LoseAnswers \/ Crash

Spec == Init /\ [][Next]_vars

=============================================================================
