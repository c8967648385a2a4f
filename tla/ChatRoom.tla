------------------------------- MODULE ChatRoom -------------------------------
(***************************************************************************)
(* The chat room screens (chatRoomVC) of all users over the shared store.  *)
(*                                                                         *)
(* A screen is one instance of the view controller.  Its snapshot          *)
(* listeners are never removed and keep it alive after it was popped: it   *)
(* ends with the process.  The main thread runs one handler at a time, so  *)
(* every action is one handler; a listener's handler runs some time after  *)
(* the data it is about has changed.                                       *)
(***************************************************************************)
EXTENDS BemaStore

CONSTANTS
  Screen,        \* the chat room screens that may be opened
  senderId,      \* senderId[s]: the user on whose device s is opened
  recieverId,    \* recieverId[s]: the contact s is opened for
  MaxAppear,     \* bound: appearances of a screen (viewWillAppear)
  deeds,         \* bound: deeds[s] is what the user of s may do with it
  NoSnapshot     \* what a listener has been handed before its first snapshot

ASSUME ScreenAssumption ==
  /\ senderId \in [Screen -> User]
  /\ recieverId \in [Screen -> User]
  /\ \A s \in Screen : senderId[s] # recieverId[s]
ASSUME BoundAssumption ==
  /\ MaxAppear \in Nat
  /\ deeds \in [Screen -> SUBSET {"text", "picture", "reappear", "leave", "kill"}]
ASSUME NoSnapshotAssumption == NoSnapshot # {}

VARIABLES
  status,                  \* where the screen is: see Status
  senderConversationId,    \* the screen's copy of Conversation/<senderId>
  receiverConversationId,  \* the screen's copy of Conversation/<recieverId>
  allMessage,              \* the messages the table's data source holds
  rows,                    \* the messages the table was last laid out for
  textFieldMsgStatus,      \* FALSE while a picture waits to be sent
  upload,                  \* the pictures being uploaded, by chatId
  listener                 \* the screen's snapshot listeners, oldest first

screenVars == <<status, senderConversationId, receiverConversationId,
                allMessage, rows, textFieldMsgStatus, upload, listener>>

vars == <<storeVars, screenVars>>

\* "left" is popped from the navigation stack, "gone" ended with the process.
Status == {"unopened", "open", "left", "gone"}

Alive(s) == status[s] \in {"open", "left"}

chatRoomTitle(s) == RoomTitle(senderId[s], recieverId[s])

-----------------------------------------------------------------------------
(* Snapshot listeners.                                                     *)

\* "sender" and "receiver" listen to a Conversation document, "room" to the
\* query of the room's messages, "untitled" to the same query for the room "".
\* A snapshot of a Conversation document that does not exist has no effect
\* (the handler returns), so these start from the absent document.
Listener(on) ==
  [on |-> on, last |-> IF on \in {"sender", "receiver"} THEN <<>>
                                                       ELSE NoSnapshot]

DocumentListener == [on : {"sender", "receiver"}, last : Seq(Room)]

QueryListener ==
  [on : {"room", "untitled"}, last : (SUBSET Entry) \cup {NoSnapshot}]

\* The value the client would hand to the listener now, as a singleton.
CurrentSnapshot(s, on) ==
  CASE on = "sender"   -> LocalConversation(senderId[s], senderId[s])
    [] on = "receiver" -> LocalConversation(senderId[s], recieverId[s])
    [] on = "room"     -> {LocalRoom(senderId[s], chatRoomTitle(s))}
    [] on = "untitled" -> {{}}

Ids(entries) == {e.id : e \in entries}

\* Mutants: receipts of one's own messages too; none once the screen was left.
ReceiptsOfAll(s, entries) == Ids(entries)

ReceiptsWhenOpen(s, entries) ==
  {m \in Ids(entries) : /\ created[m].readerID = senderId[s]
                        /\ status[s] = "open"}

\* makeRead for the entries of a snapshot this user is the reader of.
Receipts(s, entries) ==
  {m \in Ids(entries) : created[m].readerID = senderId[s]}

-----------------------------------------------------------------------------
TypeOK ==
  /\ StoreTypeOK
  /\ status \in [Screen -> Status]
  /\ senderConversationId \in [Screen -> Seq(Room)]
  /\ receiverConversationId \in [Screen -> Seq(Room)]
  /\ allMessage \in [Screen -> SUBSET ChatId]
  /\ rows \in [Screen -> SUBSET ChatId]
  /\ textFieldMsgStatus \in [Screen -> BOOLEAN]
  /\ upload \in [Screen -> SUBSET ChatId]
  /\ \A s \in Screen : \A m \in upload[s] : m <= Len(created)
  /\ listener \in [Screen -> Seq(DocumentListener \cup QueryListener)]

Init ==
  /\ StoreInit
  /\ status = [s \in Screen |-> "unopened"]
  /\ senderConversationId = [s \in Screen |-> <<>>]
  /\ receiverConversationId = [s \in Screen |-> <<>>]
  /\ allMessage = [s \in Screen |-> {}]
  /\ rows = [s \in Screen |-> {}]
  /\ textFieldMsgStatus = [s \in Screen |-> TRUE]
  /\ upload = [s \in Screen |-> {}]
  /\ listener = [s \in Screen |-> <<>>]

\* fetchMessage, pastConversation, fetchMessage.  The first fetchMessage of a
\* screen runs before chatRoomTitle is set.
ViewWillAppear(s) ==
  /\ running[senderId[s]]
  /\ \/ status[s] = "unopened"
     \/ status[s] = "open" /\ "reappear" \in deeds[s]
  /\ \A t \in Screen \ {s} : senderId[t] = senderId[s] => status[t] # "open"
  /\ Len(listener[s]) < 4 * MaxAppear
  /\ status' = [status EXCEPT ![s] = "open"]
  /\ LET first == IF status[s] = "unopened" THEN "untitled" ELSE "room"
     IN  listener' = [listener EXCEPT ![s] =
           @ \o <<Listener(first), Listener("sender"),
                  Listener("receiver"), Listener("room")>>]
  /\ UNCHANGED <<storeVars, senderConversationId, receiverConversationId,
                 allMessage, rows, textFieldMsgStatus, upload>>

-----------------------------------------------------------------------------
(* Sending.                                                                *)

\* Mutant: the two documents are exchanged.
IndexWritesExchanged(s) ==
  LET room == chatRoomTitle(s)
      Add(rooms, user) == IF Contains(rooms, room) THEN <<>>
                          ELSE <<SetConversation(user, Append(rooms, room))>>
  IN  Add(senderConversationId[s], recieverId[s])
        \o Add(receiverConversationId[s], senderId[s])

\* Mutant: only the first room of a user gets into the index.
IndexWritesFirstRoom(s) ==
  LET room == chatRoomTitle(s)
      Add(rooms, user) == IF rooms # <<>> THEN <<>>
                          ELSE <<SetConversation(user, Append(rooms, room))>>
  IN  Add(senderConversationId[s], senderId[s])
        \o Add(receiverConversationId[s], recieverId[s])

\* The writes that add the screen's room to the two Conversation documents:
\* each replaces the whole array by the screen's copy and the room.
IndexWrites(s) ==
  LET room == chatRoomTitle(s)
      Add(rooms, user) == IF Contains(rooms, room) THEN <<>>
                          ELSE <<SetConversation(user, Append(rooms, room))>>
  IN  Add(senderConversationId[s], senderId[s])
        \o Add(receiverConversationId[s], recieverId[s])

\* Mutant: no check whether the room is there.
WithRoomTwice(rooms, room) == Append(rooms, room)

WithRoom(rooms, room) ==
  IF Contains(rooms, room) THEN rooms ELSE Append(rooms, room)

\* Mutant: the index is written before the message.
StoreIndexFirst(s, m) ==
  /\ Issue(senderId[s], Append(IndexWrites(s), SetMessage(m)))
  /\ senderConversationId' =
       [senderConversationId EXCEPT ![s] = WithRoom(@, chatRoomTitle(s))]
  /\ receiverConversationId' =
       [receiverConversationId EXCEPT ![s] = WithRoom(@, chatRoomTitle(s))]

\* The message m, then its room in both indexes; the copies are updated.
StoreMessage(s, m) ==
  /\ Issue(senderId[s], <<SetMessage(m)>> \o IndexWrites(s))
  /\ senderConversationId' =
       [senderConversationId EXCEPT ![s] = WithRoom(@, chatRoomTitle(s))]
  /\ receiverConversationId' =
       [receiverConversationId EXCEPT ![s] = WithRoom(@, chatRoomTitle(s))]

\* Mutant: the table is not reloaded after its data source was emptied.
SendTextNoReload(s) ==
  /\ status[s] = "open"
  /\ "text" \in deeds[s]
  /\ textFieldMsgStatus[s]
  /\ NewMessage(senderId[s], recieverId[s], "TEXT")
  /\ StoreMessage(s, NewId)
  /\ allMessage' = [allMessage EXCEPT ![s] = {}]
  /\ UNCHANGED <<chatRoom, isRead, conversation, saved, running, status,
                 rows, textFieldMsgStatus, upload, listener>>

\* Return with a text.  The table is emptied until the next snapshot.
SendText(s) ==
  /\ status[s] = "open"
  /\ "text" \in deeds[s]
  /\ textFieldMsgStatus[s]
  /\ NewMessage(senderId[s], recieverId[s], "TEXT")
  /\ StoreMessage(s, NewId)
  /\ allMessage' = [allMessage EXCEPT ![s] = {}]
  /\ rows' = [rows EXCEPT ![s] = {}]
  /\ UNCHANGED <<chatRoom, isRead, conversation, saved, running, status,
                 textFieldMsgStatus, upload, listener>>

\* A picture or a sticker was picked.
PickImage(s) ==
  /\ status[s] = "open"
  /\ "picture" \in deeds[s]
  /\ textFieldMsgStatus' = [textFieldMsgStatus EXCEPT ![s] = FALSE]
  /\ UNCHANGED <<storeVars, status, senderConversationId,
                 receiverConversationId, allMessage, rows, upload, listener>>

\* Mutant: the room is indexed before the picture is uploaded.
SendMediaIndexesFirst(s) ==
  /\ status[s] = "open"
  /\ ~textFieldMsgStatus[s]
  /\ textFieldMsgStatus' = [textFieldMsgStatus EXCEPT ![s] = TRUE]
  /\ rows' = [rows EXCEPT ![s] = allMessage[s]]
  /\ NewMessage(senderId[s], recieverId[s], "MEDIA")
  /\ upload' = [upload EXCEPT ![s] = @ \cup {NewId}]
  /\ Issue(senderId[s], IndexWrites(s))
  /\ UNCHANGED <<chatRoom, isRead, conversation, saved, running, status,
                 senderConversationId, receiverConversationId, allMessage,
                 listener>>

\* Return with a picture: the message is stored when the upload has ended.
SendMedia(s) ==
  /\ status[s] = "open"
  /\ ~textFieldMsgStatus[s]
  /\ textFieldMsgStatus' = [textFieldMsgStatus EXCEPT ![s] = TRUE]
  /\ rows' = [rows EXCEPT ![s] = allMessage[s]]
  /\ NewMessage(senderId[s], recieverId[s], "MEDIA")
  /\ upload' = [upload EXCEPT ![s] = @ \cup {NewId}]
  /\ UNCHANGED <<chatRoom, isRead, conversation, outbox, saved, running,
                 status, senderConversationId, receiverConversationId,
                 allMessage, listener>>

\* Mutant: an upload that has ended is reported again.
UploadRepeats(s, m) ==
  /\ Alive(s)
  /\ m \in upload[s]
  /\ Len(outbox[senderId[s]]) < 3
  /\ StoreMessage(s, m)
  /\ UNCHANGED <<created, chatRoom, isRead, conversation, saved, running,
                 status, allMessage, rows, textFieldMsgStatus, upload, listener>>

UploadSucceeds(s, m) ==
  /\ Alive(s)
  /\ m \in upload[s]
  /\ upload' = [upload EXCEPT ![s] = @ \ {m}]
  /\ StoreMessage(s, m)
  /\ UNCHANGED <<created, chatRoom, isRead, conversation, saved, running,
                 status, allMessage, rows, textFieldMsgStatus, listener>>

\* The picture or its URL could not be had: nothing is stored or retried.
UploadFails(s, m) ==
  /\ Alive(s)
  /\ m \in upload[s]
  /\ upload' = [upload EXCEPT ![s] = @ \ {m}]
  /\ UNCHANGED <<storeVars, status, senderConversationId,
                 receiverConversationId, allMessage, rows,
                 textFieldMsgStatus, listener>>

-----------------------------------------------------------------------------
(* Snapshots.                                                              *)

\* The listeners of pastConversation: each replaces the screen's copy.
ConversationSnapshot(s, i) ==
  LET on == listener[s][i].on
  IN  /\ Alive(s)
      /\ on \in {"sender", "receiver"}
      /\ \E rooms \in CurrentSnapshot(s, on) \ {listener[s][i].last} :
           /\ listener' = [listener EXCEPT ![s][i].last = rooms]
           /\ senderConversationId' =
                IF on = "sender"
                THEN [senderConversationId EXCEPT ![s] = rooms]
                ELSE senderConversationId
           /\ receiverConversationId' =
                IF on = "receiver"
                THEN [receiverConversationId EXCEPT ![s] = rooms]
                ELSE receiverConversationId
      /\ UNCHANGED <<storeVars, status, allMessage, rows,
                     textFieldMsgStatus, upload>>

\* The listener of fetchMessage: the data source is replaced and every entry
\* this user reads is marked.  The table is reloaded inside the loop over the
\* entries, so not for an empty snapshot.  (The order of the receipts, that
\* of the entries, is left open.)
MessageSnapshot(s, i) ==
  LET on == listener[s][i].on
  IN  /\ Alive(s)
      /\ on \in {"room", "untitled"}
      /\ \E entries \in CurrentSnapshot(s, on) \ {listener[s][i].last} :
           /\ listener' = [listener EXCEPT ![s][i].last = entries]
           /\ allMessage' = [allMessage EXCEPT ![s] = Ids(entries)]
           /\ rows' = IF entries = {} THEN rows
                      ELSE [rows EXCEPT ![s] = Ids(entries)]
           /\ \E order \in SetToSeqs(Receipts(s, entries)) :
                Issue(senderId[s],
                      [n \in DOMAIN order |-> UpdateRead(order[n])])
      /\ UNCHANGED <<created, chatRoom, isRead, conversation, saved, running,
                     status, senderConversationId, receiverConversationId,
                     textFieldMsgStatus, upload>>

-----------------------------------------------------------------------------
(* Leaving and restarting.                                                 *)

\* The back button pops the screen; its listeners and uploads go on.
BackAction(s) ==
  /\ status[s] = "open"
  /\ "leave" \in deeds[s]
  /\ status' = [status EXCEPT ![s] = "left"]
  /\ UNCHANGED <<storeVars, senderConversationId, receiverConversationId,
                 allMessage, rows, textFieldMsgStatus, upload, listener>>

\* The app is killed: all its screens end, and their uploads with them.
Kill(u) ==
  LET Reset(f, value) ==
        [s \in Screen |-> IF senderId[s] = u THEN value ELSE f[s]]
  IN  /\ StopProcess(u)
      /\ \E s \in Screen : senderId[s] = u /\ Alive(s) /\ "kill" \in deeds[s]
      /\ status' = [s \in Screen |-> IF senderId[s] = u /\ Alive(s)
                                     THEN "gone" ELSE status[s]]
      /\ senderConversationId' = Reset(senderConversationId, <<>>)
      /\ receiverConversationId' = Reset(receiverConversationId, <<>>)
      /\ allMessage' = Reset(allMessage, {})
      /\ rows' = Reset(rows, {})
      /\ textFieldMsgStatus' = Reset(textFieldMsgStatus, TRUE)
      /\ upload' = Reset(upload, {})
      /\ listener' = Reset(listener, <<>>)

Launch(u) == StartProcess(u) /\ UNCHANGED screenVars

-----------------------------------------------------------------------------
Client(u) == (Persist(u) \/ Commit(u)) /\ UNCHANGED screenVars

UploadEnds(s) == \E m \in upload[s] : UploadSucceeds(s, m) \/ UploadFails(s, m)

Snapshot(s, i) ==
  i <= Len(listener[s]) /\ (ConversationSnapshot(s, i) \/ MessageSnapshot(s, i))

ListenerIndex == 1 .. 4 * MaxAppear

ScreenStep(s) ==
  \/ ViewWillAppear(s)
  \/ SendText(s)
  \/ PickImage(s)
  \/ SendMedia(s)
  \/ UploadEnds(s)
  \/ \E i \in ListenerIndex : Snapshot(s, i)
  \/ BackAction(s)

Next ==
  \/ \E s \in Screen : ScreenStep(s)
  \/ \E u \in User : Client(u) \/ Kill(u) \/ Launch(u)

\* The client and the backend do their part while the app runs and a device
\* is not offline for ever; what the user does is not fair.
Fairness ==
  /\ \A u \in User : WF_vars(Persist(u) /\ UNCHANGED screenVars)
  /\ \A u \in User : WF_vars(Commit(u) /\ UNCHANGED screenVars)
  /\ \A s \in Screen : WF_vars(UploadEnds(s))
  /\ \A s \in Screen, i \in ListenerIndex : WF_vars(Snapshot(s, i))

Spec == Init /\ [][Next]_vars

FairSpec == Spec /\ Fairness

-----------------------------------------------------------------------------
(* Properties of the conversation index.                                   *)

\* A user's index names only rooms the user is a member of: the two copies a
\* screen keeps, and the two documents it writes, never get exchanged.
IndexSound ==
  /\ \A u \in User : \A room \in Range(conversation[u]) : u \in Members(room)
  /\ \A u \in User : \A i \in Queued(u, Len(outbox[u]), "index") :
       \A room \in Range(outbox[u][i].rooms) : outbox[u][i].id \in Members(room)
  /\ \A s \in Screen :
       /\ \A room \in Range(senderConversationId[s]) :
            senderId[s] \in Members(room)
       /\ \A room \in Range(receiverConversationId[s]) :
            recieverId[s] \in Members(room)

\* No index ever names a room twice (the chat list would show it twice), though
\* several screens, on several devices, append to it from copies of their own.
NoDuplicateRooms ==
  /\ \A u \in User : IsInjective(conversation[u])
  /\ \A u \in User : \A i \in Queued(u, Len(outbox[u]), "index") :
       IsInjective(outbox[u][i].rooms)
  /\ \A s \in Screen : /\ IsInjective(senderConversationId[s])
                       /\ IsInjective(receiverConversationId[s])

\* A room in the backend's index has a message in the backend: a chat list that
\* follows the index never finds a room empty.
IndexedRoomHasMessage ==
  \A u \in User : \A room \in Range(conversation[u]) :
    \E m \in chatRoom : created[m].roomId = room

\* The room has a message in the backend, or u's device queues one among its
\* first n writes.
Backed(room, u, n) ==
  \/ \E m \in chatRoom : created[m].roomId = room
  \/ \E j \in Queued(u, n, "message") : created[outbox[u][j].id].roomId = room

\* Why that holds: a device queues a message of a room before every index that
\* names the room, and its screens know no room without such a message.
IndexBacked ==
  /\ \A u \in User : \A i \in Queued(u, Len(outbox[u]), "index") :
       \A room \in Range(outbox[u][i].rooms) : Backed(room, u, i - 1)
  /\ \A s \in Screen :
       \A room \in Range(senderConversationId[s])
                     \cup Range(receiverConversationId[s]) :
         Backed(room, senderId[s], Len(outbox[senderId[s]]))
  /\ \A s \in Screen : \A m \in upload[s] : created[m].roomId = chatRoomTitle(s)

-----------------------------------------------------------------------------
(* Properties of the messages and of the table.                            *)

\* A message is marked read, or is on its way to be, only by its reader, after
\* a screen of that room was opened on the reader's device; and the mark never
\* overtakes the message.
ReceiptsByReader ==
  LET Opened(u, m) == \E s \in Screen : /\ status[s] # "unopened"
                                        /\ senderId[s] = u
                                        /\ chatRoomTitle(s) = created[m].roomId
  IN  /\ \A m \in isRead : Opened(created[m].readerID, m)
      /\ \A u \in User : \A i \in Queued(u, Len(outbox[u]), "read") :
           LET m == outbox[u][i].id
           IN  m \in chatRoom /\ created[m].readerID = u /\ Opened(u, m)

\* The table is laid out for messages the data source still holds (a row
\* without its message is an index out of range), unless the listener on the
\* room "" has emptied the data source.
RowsBacked ==
  \A s \in Screen :
    \/ rows[s] \subseteq allMessage[s]
    \/ /\ allMessage[s] = {}
       /\ \E i \in DOMAIN listener[s] : /\ listener[s][i].on = "untitled"
                                        /\ listener[s][i].last # NoSnapshot

\* A message in the backend is eventually marked read if a screen of its room
\* was opened by the reader, in the foreground or not, unless the app ends.
ReadEventually ==
  \A m \in ChatId, s \in Screen :
    (/\ m \in chatRoom /\ Alive(s)
     /\ created[m].roomId = chatRoomTitle(s)
     /\ created[m].readerID = senderId[s])
      ~> (m \in isRead \/ status[s] = "gone")

\* The receipts a snapshot causes are themselves changes that snapshots are
\* about: the exchange comes to rest on the devices that run.
TrafficStops ==
  <>[](\A u \in User : running[u] => outbox[u] = <<>>)

-----------------------------------------------------------------------------
(* The screens implement the abstract life of a message.                   *)

\* Where a message is: being uploaded or among the writes of a device is
\* pending; composed and nowhere is lost.
Phase ==
  [m \in ChatId |->
     CASE m > Len(created) -> "none"
       [] m \in isRead -> "read"
       [] m \in chatRoom \ isRead -> "stored"
       [] OTHER -> IF \/ \E s \in Screen : m \in upload[s]
                      \/ \E u \in User : \E i \in DOMAIN outbox[u] :
                           outbox[u][i] = SetMessage(m)
                   THEN "pending" ELSE "lost"]

Life == INSTANCE MessageLife WITH Id <- ChatId, phase <- Phase

\* Texts and pictures, failed uploads, receipts and the end of a process move
\* each message only along the life of MessageLife.
MessagesLive == Life!Spec

=============================================================================
