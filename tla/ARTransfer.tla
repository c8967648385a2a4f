------------------------------ MODULE ARTransfer ------------------------------
(***************************************************************************)
(* The confirmation screens of a token transfer (AR_ConfirmVC) beside the  *)
(* chat rooms.  A transfer is confirmed with the device's biometrics and   *)
(* sent as two messages of the chat: the picture (MEDIA) once it has been  *)
(* uploaded, and with it the amount (CRYPTO).                              *)
(*                                                                         *)
(* A confirmation screen keeps the same copies of the two conversation     *)
(* documents, the same listeners on them and the same kind of uploads as a *)
(* chat room, so it is a Screen of ChatRoom with other actions.            *)
(***************************************************************************)
EXTENDS ChatRoom

CONSTANT ArScreen   \* the screens that are confirmation screens

ASSUME ArScreenAssumption == ArScreen \subseteq Screen

VARIABLES
  transfer,    \* transfer[s]: how far the transfer of the screen has come
  approved     \* history: the screens whose user has passed the biometrics

transferVars == <<transfer, approved>>

arVars == <<vars, transferVars>>

\* "asking": the confirm view, with its two buttons, is shown; "checking": the
\* biometrics run; "unavailable": the device has none; "refused": they failed;
\* "allowed": the picture is about to be sent; "uploading", "failed", "sent".
TransferStatus == {"unasked", "asking", "dismissed", "checking", "unavailable",
                   "refused", "allowed", "uploading", "failed", "sent",
                   "ended"}

ArTypeOK ==
  /\ TypeOK
  /\ transfer \in [ArScreen -> TransferStatus]
  /\ approved \subseteq ArScreen

ArInit ==
  /\ Init
  /\ transfer = [s \in ArScreen |-> "unasked"]
  /\ approved = {}

Move(s, from, to) ==
  transfer[s] = from /\ transfer' = [transfer EXCEPT ![s] = to]

\* What a step that only moves the transfer leaves alone.
Still == UNCHANGED <<vars, approved>>

-----------------------------------------------------------------------------
(* The steps of one transfer.                                              *)

\* viewWillAppear: the confirm view is shown and pastConversation listens.
ConfirmAppears(s) ==
  /\ running[senderId[s]]
  /\ Move(s, "unasked", "asking")
  /\ status' = [status EXCEPT ![s] = "open"]
  /\ listener' = [listener EXCEPT ![s] =
                    <<Listener("sender"), Listener("receiver")>>]
  /\ UNCHANGED <<storeVars, senderConversationId, receiverConversationId,
                 allMessage, rows, textFieldMsgStatus, upload, approved>>

\* The confirm view gives way to the successful view; then localAuth.
YesButton(s) ==
  \/ Move(s, "asking", "checking") /\ Still
  \/ Move(s, "asking", "unavailable") /\ Still

NoButton(s) ==
  /\ Move(s, "asking", "dismissed")
  /\ status' = [status EXCEPT ![s] = "left"]
  /\ UNCHANGED <<storeVars, senderConversationId, receiverConversationId,
                 allMessage, rows, textFieldMsgStatus, upload, listener,
                 approved>>

\* Mutant: the result of the biometrics is not looked at.
AuthenticatedAlways(s, state) ==
  /\ Move(s, "checking", "allowed")
  /\ approved' = IF state THEN approved \cup {s} ELSE approved
  /\ UNCHANGED vars

\* The biometrics' answer.
Authenticated(s, state) ==
  /\ Move(s, "checking", IF state THEN "allowed" ELSE "refused")
  /\ approved' = IF state THEN approved \cup {s} ELSE approved
  /\ UNCHANGED vars

\* sendMedia, two seconds later.
SendPicture(s) ==
  /\ Move(s, "allowed", "uploading")
  /\ NewMessage(senderId[s], recieverId[s], "MEDIA")
  /\ upload' = [upload EXCEPT ![s] = {NewId}]
  /\ UNCHANGED <<chatRoom, isRead, conversation, outbox, saved, running,
                 status, senderConversationId, receiverConversationId,
                 allMessage, rows, textFieldMsgStatus, listener, approved>>

\* Mutant: the amount is sent first.
PictureUploadedAmountFirst(s, m) ==
  /\ Move(s, "uploading", "sent")
  /\ m \in upload[s]
  /\ upload' = [upload EXCEPT ![s] = {}]
  /\ NewMessage(senderId[s], recieverId[s], "CRYPTO")
  /\ Issue(senderId[s],
           <<SetMessage(NewId), SetMessage(m)>> \o IndexWrites(s))
  /\ senderConversationId' =
       [senderConversationId EXCEPT ![s] = WithRoom(@, chatRoomTitle(s))]
  /\ receiverConversationId' =
       [receiverConversationId EXCEPT ![s] = WithRoom(@, chatRoomTitle(s))]
  /\ UNCHANGED <<chatRoom, isRead, conversation, saved, running, status,
                 allMessage, rows, textFieldMsgStatus, listener, approved>>

\* Mutant: the amount's document is made and never set.
PictureUploadedAmountUnset(s, m) ==
  /\ Move(s, "uploading", "sent")
  /\ m \in upload[s]
  /\ upload' = [upload EXCEPT ![s] = {}]
  /\ NewMessage(senderId[s], recieverId[s], "CRYPTO")
  /\ StoreMessage(s, m)
  /\ UNCHANGED <<chatRoom, isRead, conversation, saved, running, status,
                 allMessage, rows, textFieldMsgStatus, listener, approved>>

\* The picture's message and index, then sendAmount: its own checks of the
\* copies find the room there, so it only stores the amount.
PictureUploaded(s, m) ==
  /\ Move(s, "uploading", "sent")
  /\ m \in upload[s]
  /\ upload' = [upload EXCEPT ![s] = {}]
  /\ NewMessage(senderId[s], recieverId[s], "CRYPTO")
  /\ Issue(senderId[s],
           <<SetMessage(m)>> \o IndexWrites(s) \o <<SetMessage(NewId)>>)
  /\ senderConversationId' =
       [senderConversationId EXCEPT ![s] = WithRoom(@, chatRoomTitle(s))]
  /\ receiverConversationId' =
       [receiverConversationId EXCEPT ![s] = WithRoom(@, chatRoomTitle(s))]
  /\ UNCHANGED <<chatRoom, isRead, conversation, saved, running, status,
                 allMessage, rows, textFieldMsgStatus, listener, approved>>

\* Without a picture nothing is sent, and nothing is said.
PictureFails(s, m) ==
  /\ Move(s, "uploading", "failed")
  /\ UploadFails(s, m)
  /\ UNCHANGED approved

-----------------------------------------------------------------------------
TransferStep(s) ==
  \/ ConfirmAppears(s)
  \/ YesButton(s)
  \/ NoButton(s)
  \/ \E state \in BOOLEAN : Authenticated(s, state)
  \/ SendPicture(s)
  \/ \E m \in upload[s] : PictureUploaded(s, m) \/ PictureFails(s, m)
  \/ \E i \in DOMAIN listener[s] :
       ConversationSnapshot(s, i) /\ UNCHANGED transferVars

\* The end of the process ends the transfers on the device.
EndTransfers(u) ==
  /\ Kill(u)
  /\ transfer' = [s \in ArScreen |-> IF senderId[s] = u /\ Alive(s)
                                     THEN "ended" ELSE transfer[s]]
  /\ UNCHANGED approved

ArNext ==
  \/ \E s \in ArScreen : TransferStep(s)
  \/ \E s \in Screen \ ArScreen : ScreenStep(s) /\ UNCHANGED transferVars
  \/ \E u \in User : (Client(u) \/ Launch(u)) /\ UNCHANGED transferVars
  \/ \E u \in User : EndTransfers(u)

ArSpec == ArInit /\ [][ArNext]_arVars

-----------------------------------------------------------------------------
(* Properties.                                                             *)

\* The messages of one type that a user has put into a room, among ids.
Sent(ids, type, user, room) ==
  {m \in ids : /\ created[m].type = type
               /\ created[m].composerId = user
               /\ created[m].roomId = room}

\* The amount never arrives without or before the picture it belongs to, also
\* if the process ends between the two.
AmountFollowsPicture ==
  \A u \in User, room \in Room :
    Cardinality(Sent(chatRoom, "CRYPTO", u, room))
      <= Cardinality(Sent(chatRoom, "MEDIA", u, room))

\* Every amount was confirmed by its sender: a screen's approval sends it at
\* most once, whatever uploads fail and however often the app is restarted.
AmountApproved ==
  \A u \in User, room \in Room :
    Cardinality(Sent(1 .. Len(created), "CRYPTO", u, room))
      <= Cardinality({s \in approved :
                        senderId[s] = u /\ chatRoomTitle(s) = room})

=============================================================================
