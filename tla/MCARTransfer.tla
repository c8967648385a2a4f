---------------------------- MODULE MCARTransfer ----------------------------
(***************************************************************************)
(* Instances of ARTransfer for TLC.                                        *)
(***************************************************************************)
EXTENDS ARTransfer

\* A transfer to a contact who has the chat room open and may answer.
AnswerSender   == ("p" :> 1) @@ ("b" :> 2)
AnswerReciever == ("p" :> 2) @@ ("b" :> 1)
Answers        == ("p" :> {"kill"}) @@ ("b" :> {"text"})

=============================================================================
