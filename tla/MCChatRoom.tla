----------------------------- MODULE MCChatRoom -----------------------------
(***************************************************************************)
(* Instances of ChatRoom for TLC.                                          *)
(***************************************************************************)
EXTENDS ChatRoom

\* Two ends of one chat: a screen on each device.
PairSender   == ("a" :> 1) @@ ("b" :> 2)
PairReciever == ("a" :> 2) @@ ("b" :> 1)

\* One end only: the contact has not opened the chat.
AloneSender   == ("a" :> 1)
AloneReciever == ("a" :> 2)

\* Two users write to user 2 at the same time: both replace Conversation/2.
FanInSender   == ("a" :> 1) @@ ("c" :> 3)
FanInReciever == ("a" :> 2) @@ ("c" :> 2)

\* What the users of the two screens do, one definition per run.
Crashes  == ("a" :> {"text", "picture", "kill"}) @@ ("b" :> {"leave", "kill"})
Rivals   == ("a" :> {"text", "kill"}) @@ ("c" :> {"text"})
Returns  == ("a" :> {"text", "reappear"})

=============================================================================
