------------------------------ MODULE BemaStore ------------------------------
(***************************************************************************)
(* The Firestore documents the Bema app shares between its users, and the  *)
(* part of the Firestore client every device runs.                         *)
(*                                                                         *)
(*   ChatRoom/<chatId>      one document per message                       *)
(*   Conversation/<userId>  the array "chatRoom" of the rooms of a user    *)
(*                                                                         *)
(* The client is external code, modelled from how the view controllers     *)
(* use it: setData and updateData return at once and queue a write; the    *)
(* client's worker saves the queued writes one at a time in its local      *)
(* database, from where they survive the process; saved writes are visible *)
(* to the device's own listeners before the backend has them; the backend  *)
(* applies them in the order they were issued.  This is the client of      *)
(* FirestoreWrites and FirestoreListen cut down to what the view           *)
(* controllers can tell: a write is applied and acknowledged in one step,  *)
(* so that none is sent again.                                             *)
(***************************************************************************)
EXTENDS Naturals, FiniteSets, SequencesExt

CONSTANTS
  User,          \* the users; one device each.  Identifiers are ordered.
  MaxMessages    \* bound: messages composed in one behaviour

ASSUME UserAssumption == User \subseteq Nat
ASSUME MaxMessagesAssumption == MaxMessages \in Nat

VARIABLES
  created,       \* fields of the messages, by chatId, in order of creation
  chatRoom,      \* the chatIds in the collection ChatRoom of the backend
  isRead,        \* the chatIds whose field isRead is true in the backend
  conversation,  \* conversation[u]: the array of Conversation/u, <<>> if absent
  outbox,        \* outbox[u]: the writes issued on u's device, oldest first
  saved,         \* saved[u]: how many writes of outbox[u] are on its disk
  running        \* running[u]: the app's process is alive on u's device

storeVars ==
  <<created, chatRoom, isRead, conversation, outbox, saved, running>>

-----------------------------------------------------------------------------
(* Rooms and messages.                                                     *)

\* The two user identifiers with the larger one first: both ends of a chat
\* name their room alike.
RoomTitle(senderId, recieverId) ==
  IF senderId > recieverId THEN <<senderId, recieverId>>
                           ELSE <<recieverId, senderId>>

Room == {pair \in User \X User : pair[1] > pair[2]}

Members(room) == {room[1], room[2]}

ChatId == 1 .. MaxMessages

Message == [roomId : Room, composerId : User, readerID : User,
            type : {"TEXT", "MEDIA", "CRYPTO"}]

\* A document reference is taken from the collection: the message has an
\* identifier, and is nowhere yet.
NewMessage(composer, reader, type) ==
  /\ Len(created) < MaxMessages
  /\ created' = Append(created, [roomId |-> RoomTitle(composer, reader),
                                 composerId |-> composer,
                                 readerID |-> reader,
                                 type |-> type])

NewId == Len(created) + 1

-----------------------------------------------------------------------------
(* Writes: "message" and "read" address a chatId, "index" the Conversation *)
(* document of a user.                                                     *)

Write == [kind : {"message", "read", "index"}, id : Nat, rooms : Seq(Room)]

SetMessage(m) == [kind |-> "message", id |-> m, rooms |-> <<>>]

UpdateRead(m) == [kind |-> "read", id |-> m, rooms |-> <<>>]

SetConversation(u, rooms) == [kind |-> "index", id |-> u, rooms |-> rooms]

Queued(u, n, kind) == {i \in 1 .. n : outbox[u][i].kind = kind}

\* The identifiers that the saved writes of one kind address on u's device.
Overlay(u, kind) == {outbox[u][i].id : i \in Queued(u, saved[u], kind)}

-----------------------------------------------------------------------------
(* What a device's own listeners see: the backend under the saved writes.  *)

\* The one value of Conversation/x on u's device, as a singleton: that of the
\* last saved write to it or, if there is none, the backend's.
LocalConversation(u, x) ==
  LET writes == {i \in Queued(u, saved[u], "index") : outbox[u][i].id = x}
  IN  IF writes = {}
      THEN {conversation[x]}
      ELSE {outbox[u][i].rooms :
              i \in {j \in writes : \A k \in writes : k <= j}}

Entry == [id : ChatId, sent : BOOLEAN, isRead : BOOLEAN]

\* Mutant: a listener that is told of pending writes too.
LocalRoomPending(u, room) ==
  {[id |-> m, sent |-> m \in chatRoom /\ m \notin Overlay(u, "read"),
    isRead |-> m \in isRead \cup Overlay(u, "read")] :
     m \in {n \in chatRoom \cup Overlay(u, "message") :
              created[n].roomId = room}}

\* The messages of a room on u's device.  An entry that is not sent has no
\* server time yet.
LocalRoom(u, room) ==
  {[id |-> m, sent |-> m \in chatRoom,
    isRead |-> m \in isRead \cup Overlay(u, "read")] :
     m \in {n \in chatRoom \cup Overlay(u, "message") :
              created[n].roomId = room}}

-----------------------------------------------------------------------------
StoreTypeOK ==
  /\ created \in Seq(Message)
  /\ Len(created) <= MaxMessages
  /\ chatRoom \subseteq 1 .. Len(created)
  /\ isRead \subseteq chatRoom
  /\ conversation \in [User -> Seq(Room)]
  /\ outbox \in [User -> Seq(Write)]
  /\ \A u \in User : \A i \in 1 .. Len(outbox[u]) :
       IF outbox[u][i].kind = "index"
       THEN outbox[u][i].id \in User
       ELSE outbox[u][i].id \in 1 .. Len(created)
  /\ saved \in [User -> Nat]
  /\ \A u \in User : saved[u] <= Len(outbox[u])
  /\ running \in [User -> BOOLEAN]

StoreInit ==
  /\ created = <<>>
  /\ chatRoom = {}
  /\ isRead = {}
  /\ conversation = [u \in User |-> <<>>]
  /\ outbox = [u \in User |-> <<>>]
  /\ saved = [u \in User |-> 0]
  /\ running = [u \in User |-> TRUE]

Issue(u, writes) ==
  outbox' = [outbox EXCEPT ![u] = @ \o writes]

\* The client's worker saves the oldest write that is only in memory.
Persist(u) ==
  /\ running[u]
  /\ saved[u] < Len(outbox[u])
  /\ saved' = [saved EXCEPT ![u] = @ + 1]
  /\ UNCHANGED <<created, chatRoom, isRead, conversation, outbox, running>>

\* The backend applies u's oldest saved write and the client learns of it.
\* setData replaces the document, with isRead false; updateData fails on a
\* document that does not exist.
Commit(u) ==
  /\ running[u]
  /\ saved[u] > 0
  /\ LET write == Head(outbox[u])
     IN  /\ chatRoom' = IF write.kind = "message"
                        THEN chatRoom \cup {write.id} ELSE chatRoom
         /\ isRead' = CASE write.kind = "message" -> isRead \ {write.id}
                        [] write.kind = "read" /\ write.id \in chatRoom ->
                             isRead \cup {write.id}
                        [] OTHER -> isRead
         /\ conversation' = IF write.kind = "index"
                            THEN [conversation EXCEPT ![write.id] = write.rooms]
                            ELSE conversation
  /\ outbox' = [outbox EXCEPT ![u] = Tail(@)]
  /\ saved' = [saved EXCEPT ![u] = @ - 1]
  /\ UNCHANGED <<created, running>>

\* Mutant: what is on the disk does not survive either.
StopProcessLosesAll(u) ==
  /\ running[u]
  /\ running' = [running EXCEPT ![u] = FALSE]
  /\ outbox' = [outbox EXCEPT ![u] = <<>>]
  /\ UNCHANGED <<created, chatRoom, isRead, conversation, saved>>

\* The process of u's app ends: the writes that were only in memory are lost.
StopProcess(u) ==
  /\ running[u]
  /\ running' = [running EXCEPT ![u] = FALSE]
  /\ outbox' = [outbox EXCEPT ![u] = SubSeq(@, 1, saved[u])]
  /\ UNCHANGED <<created, chatRoom, isRead, conversation, saved>>

StartProcess(u) ==
  /\ ~running[u]
  /\ running' = [running EXCEPT ![u] = TRUE]
  /\ UNCHANGED <<created, chatRoom, isRead, conversation, outbox, saved>>

=============================================================================
