--------------------------- MODULE ChatRoomProofs ---------------------------
(***************************************************************************)
(* Proofs about ChatRoom, for every set of users and screens and every     *)
(* bound.                                                                  *)
(***************************************************************************)
EXTENDS ChatRoom, SequenceTheorems, FiniteSetTheorems, TLAPS

-----------------------------------------------------------------------------
(* Lemmas about the operators of the store.                                *)

\* Two different users have a room, and are its members.
LEMMA RoomTitleType ==
  ASSUME NEW u \in User, NEW v \in User, u # v
  PROVE  /\ RoomTitle(u, v) \in Room
         /\ Members(RoomTitle(u, v)) = {u, v}
BY UserAssumption DEF RoomTitle, Room, Members

\* The room of a screen, and its members.
LEMMA ScreenRoom ==
  ASSUME NEW s \in Screen
  PROVE  /\ senderId[s] \in User
         /\ recieverId[s] \in User
         /\ chatRoomTitle(s) \in Room
         /\ Members(chatRoomTitle(s)) = {senderId[s], recieverId[s]}
BY ScreenAssumption, RoomTitleType DEF chatRoomTitle

\* The array of a user's index as every part of the app may hold it: rooms of
\* that user, none twice.
IndexOf(u, rooms) ==
  /\ rooms \in Seq(Room)
  /\ \A i \in 1 .. Len(rooms) : u \in Members(rooms[i])
  /\ \A i, j \in 1 .. Len(rooms) : rooms[i] = rooms[j] => i = j

LEMMA IndexOfEmpty == \A u \in User : IndexOf(u, <<>>)
BY EmptySeq DEF IndexOf

\* Appending a room of the user that the array lacks keeps it an index.
LEMMA IndexOfAppend ==
  ASSUME NEW u \in User, NEW rooms, IndexOf(u, rooms),
         NEW room \in Room, u \in Members(room), ~Contains(rooms, room)
  PROVE  IndexOf(u, Append(rooms, room))
<1>1. /\ Append(rooms, room) \in Seq(Room)
      /\ Len(Append(rooms, room)) = Len(rooms) + 1
      /\ \A i \in 1 .. Len(rooms) : Append(rooms, room)[i] = rooms[i]
      /\ Append(rooms, room)[Len(rooms) + 1] = room
      /\ Len(rooms) \in Nat
  BY AppendProperties, LenProperties DEF IndexOf
<1>2. \A i \in 1 .. Len(rooms) : rooms[i] # room
  BY DEF Contains
<1>3. QED
  BY <1>1, <1>2 DEF IndexOf

LEMMA IndexOfWithRoom ==
  ASSUME NEW u \in User, NEW rooms, IndexOf(u, rooms),
         NEW room \in Room, u \in Members(room)
  PROVE  IndexOf(u, WithRoom(rooms, room))
BY IndexOfAppend DEF WithRoom

\* The writes a device may hold when n messages have been composed.
GoodWrite(n) ==
  {w \in Write : IF w.kind = "index" THEN w.id \in User /\ IndexOf(w.id, w.rooms)
                                     ELSE w.id \in 1 .. n}

LEMMA MessageWriteGood ==
  ASSUME NEW n \in Nat, NEW m \in 1 .. n
  PROVE  SetMessage(m) \in GoodWrite(n) /\ UpdateRead(m) \in GoodWrite(n)
BY EmptySeq DEF GoodWrite, SetMessage, UpdateRead, Write

LEMMA IndexWriteGood ==
  ASSUME NEW n \in Nat, NEW u \in User, NEW rooms, IndexOf(u, rooms)
  PROVE  SetConversation(u, rooms) \in GoodWrite(n)
BY UserAssumption DEF GoodWrite, SetConversation, Write, IndexOf

LEMMA GoodWriteMonotone ==
  ASSUME NEW n \in Nat, NEW k \in Nat, n <= k
  PROVE  Seq(GoodWrite(n)) \subseteq Seq(GoodWrite(k))
<1>1. GoodWrite(n) \subseteq GoodWrite(k)
  BY DEF GoodWrite
<1>2. QED
  BY <1>1, SeqMonotonic

\* The index writes of a screen are well formed if its copies are.
LEMMA IndexWritesGood ==
  ASSUME NEW n \in Nat, NEW s \in Screen,
         IndexOf(senderId[s], senderConversationId[s]),
         IndexOf(recieverId[s], receiverConversationId[s])
  PROVE  IndexWrites(s) \in Seq(GoodWrite(n))
<1> DEFINE room == chatRoomTitle(s)
           Add(rooms, user) == IF Contains(rooms, room) THEN <<>>
                               ELSE <<SetConversation(user, Append(rooms, room))>>
<1>1. Add(senderConversationId[s], senderId[s]) \in Seq(GoodWrite(n))
  <2>1. CASE Contains(senderConversationId[s], room)
    BY <2>1, EmptySeq
  <2>2. CASE ~Contains(senderConversationId[s], room)
    <3>1. SetConversation(senderId[s], Append(senderConversationId[s], room))
            \in GoodWrite(n)
      BY <2>2, ScreenRoom, IndexOfAppend, IndexWriteGood
    <3>2. QED
      BY <2>2, <3>1
  <2>3. QED
    BY <2>1, <2>2
<1>2. Add(receiverConversationId[s], recieverId[s]) \in Seq(GoodWrite(n))
  <2>1. CASE Contains(receiverConversationId[s], room)
    BY <2>1, EmptySeq
  <2>2. CASE ~Contains(receiverConversationId[s], room)
    <3>1. SetConversation(recieverId[s], Append(receiverConversationId[s], room))
            \in GoodWrite(n)
      BY <2>2, ScreenRoom, IndexOfAppend, IndexWriteGood
    <3>2. QED
      BY <2>2, <3>1
  <2>3. QED
    BY <2>1, <2>2
<1>3. IndexWrites(s) = Add(senderConversationId[s], senderId[s])
                         \o Add(receiverConversationId[s], recieverId[s])
  BY DEF IndexWrites
<1>4. QED
  BY <1>1, <1>2, <1>3, ConcatProperties

-----------------------------------------------------------------------------
(* The inductive invariant behind TypeOK, IndexSound and NoDuplicateRooms. *)

ServerInv ==
  /\ created \in Seq(Message)
  /\ Len(created) <= MaxMessages
  /\ chatRoom \subseteq 1 .. Len(created)
  /\ isRead \subseteq chatRoom
  /\ conversation \in [User -> Seq(Room)]
  /\ \A u \in User : IndexOf(u, conversation[u])

DeviceInv ==
  /\ outbox \in [User -> Seq(GoodWrite(Len(created)))]
  /\ saved \in [User -> Nat]
  /\ \A u \in User : saved[u] <= Len(outbox[u])
  /\ running \in [User -> BOOLEAN]

CopiesInv ==
  /\ senderConversationId \in [Screen -> Seq(Room)]
  /\ receiverConversationId \in [Screen -> Seq(Room)]
  /\ \A s \in Screen : /\ IndexOf(senderId[s], senderConversationId[s])
                       /\ IndexOf(recieverId[s], receiverConversationId[s])

ViewInv ==
  /\ status \in [Screen -> Status]
  /\ allMessage \in [Screen -> SUBSET ChatId]
  /\ rows \in [Screen -> SUBSET ChatId]
  /\ textFieldMsgStatus \in [Screen -> BOOLEAN]
  /\ upload \in [Screen -> SUBSET ChatId]
  /\ \A s \in Screen : \A m \in upload[s] : m <= Len(created)
  /\ listener \in [Screen -> Seq(DocumentListener \cup QueryListener)]

IInv == ServerInv /\ DeviceInv /\ CopiesInv /\ ViewInv

\* What a device's listeners are handed for Conversation/x is an index of x.
LEMMA LocalConversationIndex ==
  ASSUME ServerInv, DeviceInv, NEW u \in User, NEW x \in User,
         NEW rooms \in LocalConversation(u, x)
  PROVE  IndexOf(x, rooms)
<1> DEFINE writes == {i \in Queued(u, saved[u], "index") : outbox[u][i].id = x}
<1>1. CASE writes = {}
  BY <1>1 DEF LocalConversation, ServerInv
<1>2. CASE writes # {}
  <2>1. PICK i \in writes : rooms = outbox[u][i].rooms
    BY <1>2 DEF LocalConversation
  <2>2. i \in 1 .. Len(outbox[u]) /\ outbox[u] \in Seq(GoodWrite(Len(created)))
    BY <2>1, LenProperties DEF Queued, DeviceInv
  <2>3. outbox[u][i] \in GoodWrite(Len(created))
    BY <2>2, ElementOfSeq
  <2>4. outbox[u][i].kind = "index" /\ outbox[u][i].id = x
    BY <2>1 DEF Queued
  <2>5. QED
    BY <2>1, <2>3, <2>4 DEF GoodWrite
<1>3. QED
  BY <1>1, <1>2

-----------------------------------------------------------------------------
(* The steps that several actions share.                                   *)

LEMMA NewMessageStep ==
  ASSUME ServerInv, NEW u \in User, NEW v \in User, u # v,
         NEW type \in {"TEXT", "MEDIA", "CRYPTO"}, NewMessage(u, v, type)
  PROVE  /\ created' \in Seq(Message)
         /\ Len(created') = Len(created) + 1
         /\ Len(created') <= MaxMessages
         /\ NewId \in 1 .. Len(created')
         /\ NewId \in ChatId
         /\ Len(created) \in Nat
         /\ \A m \in 1 .. Len(created) : created'[m] = created[m]
         /\ created'[NewId].roomId = RoomTitle(u, v)
<1> DEFINE msg == [roomId |-> RoomTitle(u, v), composerId |-> u,
                   readerID |-> v, type |-> type]
<1>1. msg \in Message
  BY RoomTitleType DEF Message
<1>2. created' = Append(created, msg) /\ Len(created) < MaxMessages
  BY DEF NewMessage
<1>3. created \in Seq(Message) /\ Len(created) \in Nat
  BY LenProperties DEF ServerInv
<1>4. /\ Append(created, msg) \in Seq(Message)
      /\ Len(Append(created, msg)) = Len(created) + 1
      /\ \A m \in 1 .. Len(created) : Append(created, msg)[m] = created[m]
      /\ Append(created, msg)[Len(created) + 1] = msg
  BY <1>1, <1>3, AppendProperties
<1>5. QED
  BY <1>2, <1>3, <1>4, MaxMessagesAssumption DEF NewId, ChatId

LEMMA IssueStep ==
  ASSUME DeviceInv, NEW u \in User, Len(created) \in Nat, Len(created') \in Nat,
         Len(created) <= Len(created'),
         NEW ws \in Seq(GoodWrite(Len(created'))), Issue(u, ws),
         UNCHANGED <<saved, running>>
  PROVE  DeviceInv'
<1> DEFINE G == GoodWrite(Len(created'))
<1>1. \A v \in User : outbox[v] \in Seq(G)
  BY GoodWriteMonotone DEF DeviceInv
<1>2. /\ outbox[u] \o ws \in Seq(G)
      /\ Len(outbox[u] \o ws) = Len(outbox[u]) + Len(ws)
      /\ Len(outbox[u]) \in Nat
      /\ Len(ws) \in Nat
  BY <1>1, ConcatProperties, LenProperties
<1>3. outbox' = [outbox EXCEPT ![u] = outbox[u] \o ws]
  BY DEF Issue
<1>4. outbox' \in [User -> Seq(G)]
  BY <1>1, <1>2, <1>3 DEF DeviceInv
<1>5. \A v \in User : saved'[v] <= Len(outbox'[v])
  <2> SUFFICES ASSUME NEW v \in User PROVE saved'[v] <= Len(outbox'[v])
    OBVIOUS
  <2>1. CASE v = u
    BY <2>1, <1>2, <1>3 DEF DeviceInv
  <2>2. CASE v # u
    BY <2>2, <1>3 DEF DeviceInv
  <2>3. QED
    BY <2>1, <2>2
<1>6. GoodWrite(Len(created))' = G
  BY DEF GoodWrite, IndexOf
<1>7. QED
  BY <1>4, <1>5, <1>6 DEF DeviceInv

\* The copies of a screen stay indexes of their users with the screen's room.
LEMMA WithRoomCopies ==
  ASSUME CopiesInv, NEW s \in Screen,
         senderConversationId' =
           [senderConversationId EXCEPT ![s] = WithRoom(@, chatRoomTitle(s))],
         receiverConversationId' =
           [receiverConversationId EXCEPT ![s] = WithRoom(@, chatRoomTitle(s))]
  PROVE  CopiesInv'
<1>1. /\ IndexOf(senderId[s],
                 WithRoom(senderConversationId[s], chatRoomTitle(s)))
      /\ IndexOf(recieverId[s],
                 WithRoom(receiverConversationId[s], chatRoomTitle(s)))
  BY ScreenRoom, IndexOfWithRoom DEF CopiesInv
<1>2. /\ senderConversationId' =
           [senderConversationId EXCEPT ![s] =
              WithRoom(senderConversationId[s], chatRoomTitle(s))]
      /\ receiverConversationId' =
           [receiverConversationId EXCEPT ![s] =
              WithRoom(receiverConversationId[s], chatRoomTitle(s))]
  OBVIOUS
<1>3. /\ WithRoom(senderConversationId[s], chatRoomTitle(s)) \in Seq(Room)
      /\ WithRoom(receiverConversationId[s], chatRoomTitle(s)) \in Seq(Room)
  BY <1>1 DEF IndexOf
<1>4. /\ senderConversationId' \in [Screen -> Seq(Room)]
      /\ receiverConversationId' \in [Screen -> Seq(Room)]
  BY <1>2, <1>3 DEF CopiesInv
<1>5. \A t \in Screen : /\ IndexOf(senderId[t], senderConversationId'[t])
                        /\ IndexOf(recieverId[t], receiverConversationId'[t])
  BY <1>1, <1>2 DEF CopiesInv
<1>6. QED
  BY <1>4, <1>5 DEF CopiesInv

LEMMA StoreMessageStep ==
  ASSUME DeviceInv, CopiesInv, NEW s \in Screen,
         Len(created) \in Nat, Len(created') \in Nat,
         Len(created) <= Len(created'),
         NEW m \in 1 .. Len(created'), StoreMessage(s, m),
         UNCHANGED <<saved, running>>
  PROVE  DeviceInv' /\ CopiesInv'
<1> DEFINE n == Len(created')
<1>1. <<SetMessage(m)>> \o IndexWrites(s) \in Seq(GoodWrite(n))
  <2>1. IndexWrites(s) \in Seq(GoodWrite(n))
    BY IndexWritesGood DEF CopiesInv
  <2>2. <<SetMessage(m)>> \in Seq(GoodWrite(n))
    BY MessageWriteGood
  <2>3. QED
    BY <2>1, <2>2, ConcatProperties
<1>2. DeviceInv'
  BY <1>1, IssueStep, ScreenRoom DEF StoreMessage
<1>3. CopiesInv'
  BY WithRoomCopies DEF StoreMessage
<1>4. QED
  BY <1>2, <1>3

\* ServerInv and the bounds of the uploads survive a new message.
LEMMA ServerGrows ==
  ASSUME ServerInv, created' \in Seq(Message), Len(created) \in Nat,
         Len(created') \in Nat, Len(created) <= Len(created'),
         Len(created') <= MaxMessages,
         UNCHANGED <<chatRoom, isRead, conversation>>
  PROVE  ServerInv'
BY DEF ServerInv, IndexOf

-----------------------------------------------------------------------------
(* The initial states and each action.                                     *)

LEMMA InitInv == Init => IInv
<1> SUFFICES ASSUME Init PROVE IInv
  OBVIOUS
<1>1. ServerInv
  <2>1. created \in Seq(Message) /\ Len(created) = 0
    BY EmptySeq DEF Init, StoreInit
  <2>2. conversation \in [User -> Seq(Room)]
    BY EmptySeq DEF Init, StoreInit
  <2>3. \A u \in User : IndexOf(u, conversation[u])
    BY IndexOfEmpty DEF Init, StoreInit
  <2>4. QED
    BY <2>1, <2>2, <2>3, MaxMessagesAssumption DEF Init, StoreInit, ServerInv
<1>2. DeviceInv
  <2>1. outbox \in [User -> Seq(GoodWrite(Len(created)))]
    BY EmptySeq DEF Init, StoreInit
  <2>2. \A u \in User : Len(outbox[u]) = 0
    BY EmptySeq DEF Init, StoreInit
  <2>3. QED
    BY <2>1, <2>2 DEF Init, StoreInit, DeviceInv
<1>3. CopiesInv
  <2>1. /\ senderConversationId \in [Screen -> Seq(Room)]
        /\ receiverConversationId \in [Screen -> Seq(Room)]
    BY EmptySeq DEF Init
  <2>2. \A s \in Screen : /\ IndexOf(senderId[s], senderConversationId[s])
                          /\ IndexOf(recieverId[s], receiverConversationId[s])
    BY IndexOfEmpty, ScreenRoom DEF Init
  <2>3. QED
    BY <2>1, <2>2 DEF CopiesInv
<1>4. ViewInv
  <2>1. listener \in [Screen -> Seq(DocumentListener \cup QueryListener)]
    BY EmptySeq DEF Init
  <2>2. QED
    BY <2>1 DEF Init, ViewInv, Status
<1>5. QED
  BY <1>1, <1>2, <1>3, <1>4 DEF IInv

\* The parts of the invariant that a step leaves alone.
LEMMA ServerStutter == ServerInv /\ UNCHANGED storeVars => ServerInv'
BY DEF ServerInv, storeVars, IndexOf

LEMMA DeviceStutter == DeviceInv /\ UNCHANGED storeVars => DeviceInv'
<1>1. ASSUME UNCHANGED storeVars
      PROVE  GoodWrite(Len(created))' = GoodWrite(Len(created))
  BY <1>1 DEF storeVars, GoodWrite, IndexOf
<1>2. QED
  BY <1>1 DEF DeviceInv, storeVars

LEMMA CopiesStutter ==
  CopiesInv /\ UNCHANGED <<senderConversationId, receiverConversationId>>
    => CopiesInv'
BY DEF CopiesInv, IndexOf

LEMMA ViewWillAppearInv ==
  ASSUME IInv, NEW s \in Screen, ViewWillAppear(s)
  PROVE  IInv'
<1> DEFINE L == DocumentListener \cup QueryListener
<1>1. \A on \in {"sender", "receiver", "room", "untitled"} : Listener(on) \in L
  <2>1. <<>> \in Seq(Room)
    BY EmptySeq
  <2>2. \A on \in {"sender", "receiver"} : Listener(on) \in DocumentListener
    BY <2>1 DEF Listener, DocumentListener
  <2>3. \A on \in {"room", "untitled"} : Listener(on) \in QueryListener
    BY DEF Listener, QueryListener
  <2>4. QED
    BY <2>2, <2>3
<1>2. PICK first \in {"untitled", "room"} :
        listener' = [listener EXCEPT ![s] =
          listener[s] \o <<Listener(first), Listener("sender"),
                           Listener("receiver"), Listener("room")>>]
  BY DEF ViewWillAppear
<1>3. <<Listener(first), Listener("sender"), Listener("receiver"),
        Listener("room")>> \in Seq(L)
  BY <1>1
<1>4. listener[s] \in Seq(L)
  BY DEF IInv, ViewInv
<1>5. listener[s] \o <<Listener(first), Listener("sender"),
                       Listener("receiver"), Listener("room")>> \in Seq(L)
  BY <1>3, <1>4, ConcatProperties
<1>6. listener' \in [Screen -> Seq(L)]
  BY <1>2, <1>5 DEF IInv, ViewInv
<1>7. ViewInv'
  BY <1>6 DEF IInv, ViewInv, ViewWillAppear, Status, storeVars
<1>8. QED
  BY <1>7, ServerStutter, DeviceStutter, CopiesStutter
  DEF IInv, ViewWillAppear

LEMMA SendTextInv ==
  ASSUME IInv, NEW s \in Screen, SendText(s)
  PROVE  IInv'
<1>1. /\ created' \in Seq(Message)
      /\ Len(created) \in Nat
      /\ Len(created') = Len(created) + 1
      /\ Len(created') <= MaxMessages
      /\ NewId \in 1 .. Len(created')
  BY NewMessageStep, ScreenRoom, ScreenAssumption DEF SendText, IInv
<1>2. ServerInv'
  BY <1>1, ServerGrows DEF SendText, IInv
<1>3. DeviceInv' /\ CopiesInv'
  BY <1>1, StoreMessageStep DEF SendText, IInv
<1>4. ViewInv'
  <2>1. \A t \in Screen : \A m \in upload'[t] : m <= Len(created')
    BY <1>1, MaxMessagesAssumption DEF SendText, IInv, ViewInv, ChatId
  <2>2. QED
    BY <1>1, <2>1 DEF SendText, IInv, ViewInv
<1>5. QED
  BY <1>2, <1>3, <1>4 DEF IInv

LEMMA PickImageInv ==
  ASSUME IInv, NEW s \in Screen, PickImage(s)
  PROVE  IInv'
<1>1. ViewInv'
  BY DEF PickImage, IInv, ViewInv, storeVars
<1>2. QED
  BY <1>1, ServerStutter, DeviceStutter, CopiesStutter DEF PickImage, IInv

LEMMA SendMediaInv ==
  ASSUME IInv, NEW s \in Screen, SendMedia(s)
  PROVE  IInv'
<1>1. /\ created' \in Seq(Message)
      /\ Len(created) \in Nat
      /\ Len(created') = Len(created) + 1
      /\ Len(created') <= MaxMessages
      /\ NewId \in 1 .. Len(created')
      /\ NewId \in ChatId
  BY NewMessageStep, ScreenRoom, ScreenAssumption DEF SendMedia, IInv
<1>2. ServerInv'
  BY <1>1, ServerGrows DEF SendMedia, IInv
<1>3. DeviceInv'
  <2>1. Seq(GoodWrite(Len(created))) \subseteq Seq(GoodWrite(Len(created')))
    BY <1>1, GoodWriteMonotone
  <2>2. GoodWrite(Len(created))' = GoodWrite(Len(created'))
    BY DEF GoodWrite, IndexOf
  <2>3. QED
    BY <2>1, <2>2 DEF SendMedia, IInv, DeviceInv
<1>4. ViewInv'
  <2>1. \A t \in Screen : \A m \in upload'[t] : m <= Len(created')
    BY <1>1, MaxMessagesAssumption DEF SendMedia, IInv, ViewInv, ChatId
  <2>2. QED
    BY <1>1, <2>1 DEF SendMedia, IInv, ViewInv
<1>5. QED
  BY <1>2, <1>3, <1>4, CopiesStutter DEF SendMedia, IInv

LEMMA UploadSucceedsInv ==
  ASSUME IInv, NEW s \in Screen, NEW m \in upload[s], UploadSucceeds(s, m)
  PROVE  IInv'
<1>1. Len(created) \in Nat /\ created' = created
  BY LenProperties DEF UploadSucceeds, IInv, ServerInv
<1>2. m \in 1 .. Len(created')
  BY <1>1 DEF IInv, ViewInv, ChatId
<1>3. DeviceInv' /\ CopiesInv'
  BY <1>1, <1>2, StoreMessageStep DEF UploadSucceeds, IInv
<1>4. ServerInv'
  BY <1>1, ServerGrows DEF UploadSucceeds, IInv, ServerInv
<1>5. ViewInv'
  BY <1>1 DEF UploadSucceeds, IInv, ViewInv
<1>6. QED
  BY <1>3, <1>4, <1>5 DEF IInv

LEMMA UploadFailsInv ==
  ASSUME IInv, NEW s \in Screen, NEW m \in upload[s], UploadFails(s, m)
  PROVE  IInv'
<1>1. ViewInv'
  BY DEF UploadFails, IInv, ViewInv, storeVars
<1>2. QED
  BY <1>1, ServerStutter, DeviceStutter, CopiesStutter DEF UploadFails, IInv

LEMMA BackActionInv ==
  ASSUME IInv, NEW s \in Screen, BackAction(s)
  PROVE  IInv'
<1>1. ViewInv'
  BY DEF BackAction, IInv, ViewInv, storeVars, Status
<1>2. QED
  BY <1>1, ServerStutter, DeviceStutter, CopiesStutter DEF BackAction, IInv

LEMMA ListenerIndexNat == ListenerIndex \subseteq Nat \ {0}
BY BoundAssumption DEF ListenerIndex

\* A position of the listeners of a screen, and the listener there.
LEMMA ListenerAt ==
  ASSUME ViewInv, NEW s \in Screen, NEW i \in Nat \ {0}, i <= Len(listener[s])
  PROVE  /\ listener[s] \in Seq(DocumentListener \cup QueryListener)
         /\ i \in 1 .. Len(listener[s])
         /\ listener[s][i] \in DocumentListener \cup QueryListener
<1>1. listener[s] \in Seq(DocumentListener \cup QueryListener)
  BY DEF ViewInv
<1>2. i \in 1 .. Len(listener[s])
  BY <1>1, LenProperties
<1>3. QED
  BY <1>1, <1>2, ElementOfSeq

\* Handing a listener a snapshot of its kind keeps the listeners well formed.
LEMMA ListenerStep ==
  ASSUME ViewInv, NEW s \in Screen, NEW i \in Nat \ {0},
         i <= Len(listener[s]), NEW value,
         [listener[s][i] EXCEPT !.last = value]
            \in DocumentListener \cup QueryListener,
         listener' = [listener EXCEPT ![s][i].last = value]
  PROVE  listener' \in [Screen -> Seq(DocumentListener \cup QueryListener)]
<1> DEFINE L == DocumentListener \cup QueryListener
           new == [listener[s][i] EXCEPT !.last = value]
<1>1. [listener[s] EXCEPT ![i] = new] \in Seq(L)
  BY ListenerAt, ExceptSeq
<1>2. listener' = [listener EXCEPT ![s] = [listener[s] EXCEPT ![i] = new]]
  OBVIOUS
<1>3. QED
  BY <1>1, <1>2 DEF ViewInv

LEMMA ConversationSnapshotInv ==
  ASSUME IInv, NEW s \in Screen, NEW i \in Nat \ {0},
         i <= Len(listener[s]), ConversationSnapshot(s, i)
  PROVE  IInv'
<1> DEFINE on == listener[s][i].on
           x == IF on = "sender" THEN senderId[s] ELSE recieverId[s]
<1>1. on \in {"sender", "receiver"}
  BY DEF ConversationSnapshot
<1>2. PICK rooms \in CurrentSnapshot(s, on) :
        /\ listener' = [listener EXCEPT ![s][i].last = rooms]
        /\ senderConversationId' =
             IF on = "sender" THEN [senderConversationId EXCEPT ![s] = rooms]
                              ELSE senderConversationId
        /\ receiverConversationId' =
             IF on = "receiver" THEN [receiverConversationId EXCEPT ![s] = rooms]
                                ELSE receiverConversationId
  BY DEF ConversationSnapshot
<1>3. rooms \in LocalConversation(senderId[s], x)
  BY <1>1, <1>2 DEF CurrentSnapshot
<1>4. IndexOf(x, rooms) /\ rooms \in Seq(Room)
  <2>1. senderId[s] \in User /\ x \in User
    BY ScreenRoom
  <2>2. IndexOf(x, rooms)
    BY <1>3, <2>1, LocalConversationIndex DEF IInv
  <2>3. QED
    BY <2>2 DEF IndexOf
<1>5. listener[s][i] \in DocumentListener \cup QueryListener
  BY ListenerAt DEF IInv
<1>6. [listener[s][i] EXCEPT !.last = rooms] \in DocumentListener
  BY <1>1, <1>4, <1>5 DEF DocumentListener, QueryListener
<1>7. listener' \in [Screen -> Seq(DocumentListener \cup QueryListener)]
  BY <1>2, <1>6, ListenerStep DEF IInv
<1>8. CopiesInv'
  <2>1. CASE on = "sender"
    <3>1. \A t \in Screen : IndexOf(senderId[t], senderConversationId'[t])
      BY <1>2, <1>4, <2>1 DEF IInv, CopiesInv
    <3>2. QED
      BY <1>2, <1>4, <2>1, <3>1 DEF IInv, CopiesInv
  <2>2. CASE on = "receiver"
    <3>1. \A t \in Screen : IndexOf(recieverId[t], receiverConversationId'[t])
      BY <1>2, <1>4, <2>2 DEF IInv, CopiesInv
    <3>2. QED
      BY <1>2, <1>4, <2>2, <3>1 DEF IInv, CopiesInv
  <2>3. QED
    BY <1>1, <2>1, <2>2
<1>9. UNCHANGED storeVars
  BY DEF ConversationSnapshot
<1>10. ViewInv'
  BY <1>7, <1>9 DEF ConversationSnapshot, IInv, ViewInv, storeVars
<1>11. QED
  BY <1>8, <1>9, <1>10, ServerStutter, DeviceStutter DEF IInv

\* The entries of a room on a device are entries, of composed messages.
LEMMA LocalRoomType ==
  ASSUME ServerInv, DeviceInv, NEW u \in User, NEW room
  PROVE  /\ LocalRoom(u, room) \subseteq Entry
         /\ Ids(LocalRoom(u, room)) \subseteq 1 .. Len(created)
<1>1. Overlay(u, "message") \subseteq 1 .. Len(created)
  <2> SUFFICES ASSUME NEW i \in Queued(u, saved[u], "message")
               PROVE  outbox[u][i].id \in 1 .. Len(created)
    BY DEF Overlay
  <2>1. i \in 1 .. Len(outbox[u]) /\ outbox[u] \in Seq(GoodWrite(Len(created)))
    BY LenProperties DEF Queued, DeviceInv
  <2>2. outbox[u][i] \in GoodWrite(Len(created))
    BY <2>1, ElementOfSeq
  <2>3. QED
    BY <2>2 DEF GoodWrite, Queued
<1>2. Len(created) \in Nat
  BY LenProperties DEF ServerInv
<1>3. 1 .. Len(created) \subseteq ChatId
  BY <1>2, MaxMessagesAssumption DEF ServerInv, ChatId
<1>4. ASSUME NEW e \in LocalRoom(u, room)
      PROVE  e \in Entry /\ e.id \in 1 .. Len(created)
  <2>1. PICK m \in chatRoom \cup Overlay(u, "message") :
          e = [id |-> m, sent |-> m \in chatRoom,
               isRead |-> m \in isRead \cup Overlay(u, "read")]
    BY DEF LocalRoom
  <2>2. m \in 1 .. Len(created) /\ m \in ChatId
    BY <1>1, <1>3 DEF ServerInv
  <2>3. /\ (m \in chatRoom) \in BOOLEAN
        /\ (m \in isRead \cup Overlay(u, "read")) \in BOOLEAN
    OBVIOUS
  <2>4. e \in Entry
    BY <2>1, <2>2, <2>3, Zenon DEF Entry
  <2>5. e.id = m
    BY <2>1
  <2>6. QED
    BY <2>2, <2>4, <2>5
<1>5. QED
  BY <1>4 DEF Ids

\* The entries a listener is handed, and the writes of their receipts.
LEMMA SnapshotEntries ==
  ASSUME IInv, NEW s \in Screen, NEW on \in {"room", "untitled"},
         NEW entries \in CurrentSnapshot(s, on)
  PROVE  entries \subseteq Entry /\ Ids(entries) \subseteq 1 .. Len(created)
<1>1. entries = {} \/ entries = LocalRoom(senderId[s], chatRoomTitle(s))
  BY DEF CurrentSnapshot
<1>2. QED
  BY <1>1, LocalRoomType, ScreenRoom DEF IInv, Ids

LEMMA ReceiptWrites ==
  ASSUME IInv, NEW s \in Screen, NEW on \in {"room", "untitled"},
         NEW entries \in CurrentSnapshot(s, on),
         NEW order \in SetToSeqs(Receipts(s, entries))
  PROVE  /\ [n \in DOMAIN order |-> UpdateRead(order[n])]
              \in Seq(GoodWrite(Len(created)))
         /\ \A n \in DOMAIN order : UpdateRead(order[n]).kind = "read"
<1>1. Len(created) \in Nat
  BY LenProperties DEF IInv, ServerInv
<1>2. Receipts(s, entries) \subseteq 1 .. Len(created)
  BY SnapshotEntries DEF Receipts
<1>3. Cardinality(Receipts(s, entries)) \in Nat
  <2>1. IsFiniteSet(1 .. Len(created))
    BY <1>1, FS_Interval
  <2>2. IsFiniteSet(Receipts(s, entries))
    BY <1>2, <2>1, FS_Subset
  <2>3. QED
    BY <2>2, FS_CardinalityType
<1>4. order \in Seq(1 .. Len(created))
  BY <1>2, <1>3 DEF SetToSeqs
<1>5. \A n \in 1 .. Len(order) : UpdateRead(order[n]) \in GoodWrite(Len(created))
  BY <1>1, <1>4, ElementOfSeq, MessageWriteGood
<1>6. DOMAIN order = 1 .. Len(order) /\ Len(order) \in Nat
  BY <1>4, LenProperties
<1>7. [n \in DOMAIN order |-> UpdateRead(order[n])] \in Seq(GoodWrite(Len(created)))
  BY <1>5, <1>6
<1>8. QED
  BY <1>7 DEF UpdateRead

LEMMA MessageSnapshotInv ==
  ASSUME IInv, NEW s \in Screen, NEW i \in ListenerIndex,
         i <= Len(listener[s]), MessageSnapshot(s, i)
  PROVE  IInv'
<1> DEFINE on == listener[s][i].on
<1>1. on \in {"room", "untitled"}
  BY DEF MessageSnapshot
<1>2. PICK entries \in CurrentSnapshot(s, on) :
        /\ listener' = [listener EXCEPT ![s][i].last = entries]
        /\ allMessage' = [allMessage EXCEPT ![s] = Ids(entries)]
        /\ rows' = IF entries = {} THEN rows
                   ELSE [rows EXCEPT ![s] = Ids(entries)]
        /\ \E order \in SetToSeqs(Receipts(s, entries)) :
             Issue(senderId[s], [n \in DOMAIN order |-> UpdateRead(order[n])])
  BY DEF MessageSnapshot
<1>3. entries \subseteq Entry /\ Ids(entries) \subseteq 1 .. Len(created)
  BY <1>1, <1>2, SnapshotEntries
<1>4. Len(created) \in Nat /\ created' = created
  BY LenProperties DEF MessageSnapshot, IInv, ServerInv
<1>5. Ids(entries) \subseteq ChatId
  BY <1>3, <1>4, MaxMessagesAssumption DEF IInv, ServerInv, ChatId
<1>6. listener[s][i] \in DocumentListener \cup QueryListener
  BY ListenerAt, ListenerIndexNat DEF IInv
<1>7. [listener[s][i] EXCEPT !.last = entries] \in QueryListener
  BY <1>1, <1>3, <1>6 DEF DocumentListener, QueryListener
<1>8. listener' \in [Screen -> Seq(DocumentListener \cup QueryListener)]
  BY <1>2, <1>7, ListenerStep, ListenerIndexNat DEF IInv
<1>9. ViewInv'
  BY <1>2, <1>4, <1>5, <1>8 DEF MessageSnapshot, IInv, ViewInv
<1>10. DeviceInv'
  <2>1. PICK order \in SetToSeqs(Receipts(s, entries)) :
          Issue(senderId[s], [n \in DOMAIN order |-> UpdateRead(order[n])])
    BY <1>2
  <2>2. [n \in DOMAIN order |-> UpdateRead(order[n])]
          \in Seq(GoodWrite(Len(created')))
    BY <1>1, <1>2, <1>4, <2>1, ReceiptWrites
  <2>3. QED
    BY <1>4, <2>1, <2>2, IssueStep, ScreenRoom DEF MessageSnapshot, IInv
<1>11. ServerInv'
  BY <1>4, ServerGrows DEF MessageSnapshot, IInv, ServerInv
<1>12. QED
  BY <1>9, <1>10, <1>11, CopiesStutter DEF MessageSnapshot, IInv

LEMMA PersistInv ==
  ASSUME IInv, NEW u \in User, Persist(u), UNCHANGED screenVars
  PROVE  IInv'
<1>1. DeviceInv'
  <2>1. GoodWrite(Len(created))' = GoodWrite(Len(created))
    BY DEF Persist, GoodWrite, IndexOf
  <2>2. Len(outbox[u]) \in Nat
    BY LenProperties DEF IInv, DeviceInv
  <2>3. QED
    BY <2>1, <2>2 DEF Persist, IInv, DeviceInv
<1>2. ServerInv'
  BY LenProperties, ServerGrows DEF Persist, IInv, ServerInv
<1>3. ViewInv'
  BY DEF Persist, screenVars, IInv, ViewInv
<1>4. QED
  BY <1>1, <1>2, <1>3, CopiesStutter DEF screenVars, IInv

\* The oldest write of a device, which the backend applies next.
LEMMA HeadGood ==
  ASSUME DeviceInv, NEW u \in User, saved[u] > 0
  PROVE  /\ outbox[u] \in Seq(GoodWrite(Len(created)))
         /\ outbox[u] # <<>>
         /\ Len(outbox[u]) \in Nat
         /\ Head(outbox[u]) = outbox[u][1]
         /\ Head(outbox[u]) \in GoodWrite(Len(created))
<1>1. outbox[u] \in Seq(GoodWrite(Len(created))) /\ Len(outbox[u]) \in Nat
  BY LenProperties DEF DeviceInv
<1>2. outbox[u] # <<>>
  BY <1>1, EmptySeq DEF DeviceInv
<1>3. QED
  BY <1>1, <1>2, HeadTailProperties

LEMMA CommitInv ==
  ASSUME IInv, NEW u \in User, Commit(u), UNCHANGED screenVars
  PROVE  IInv'
<1> DEFINE write == Head(outbox[u])
<1>1. /\ outbox[u] \in Seq(GoodWrite(Len(created)))
      /\ outbox[u] # <<>>
      /\ Len(outbox[u]) \in Nat
      /\ write \in GoodWrite(Len(created))
  BY HeadGood DEF Commit, IInv
<1>2. created' = created /\ Len(created) \in Nat
  BY LenProperties DEF Commit, IInv, ServerInv
<1>3. ServerInv'
  <2>1. CASE write.kind = "index"
    <3>1. write.id \in User /\ IndexOf(write.id, write.rooms)
      BY <1>1, <2>1 DEF GoodWrite
    <3>2. /\ conversation' = [conversation EXCEPT ![write.id] = write.rooms]
          /\ UNCHANGED <<chatRoom, isRead>>
      BY <2>1 DEF Commit
    <3>3. write.rooms \in Seq(Room)
      BY <3>1 DEF IndexOf
    <3>4. conversation' \in [User -> Seq(Room)]
      BY <3>2, <3>3 DEF IInv, ServerInv
    <3>5. \A v \in User : IndexOf(v, conversation'[v])
      BY <3>1, <3>2 DEF IInv, ServerInv
    <3>6. QED
      BY <1>2, <3>2, <3>4, <3>5 DEF IInv, ServerInv, IndexOf
  <2>2. CASE write.kind # "index"
    <3>1. write.id \in 1 .. Len(created)
      BY <1>1, <2>2 DEF GoodWrite
    <3>2. chatRoom' \subseteq 1 .. Len(created) /\ isRead' \subseteq chatRoom'
      BY <2>2, <3>1 DEF Commit, IInv, ServerInv
    <3>3. conversation' = conversation
      BY <2>2 DEF Commit
    <3>4. QED
      BY <1>2, <3>2, <3>3 DEF IInv, ServerInv, IndexOf
  <2>3. QED
    BY <2>1, <2>2
<1>4. DeviceInv'
  <2>1. GoodWrite(Len(created))' = GoodWrite(Len(created))
    BY <1>2 DEF GoodWrite, IndexOf
  <2>2. /\ Tail(outbox[u]) \in Seq(GoodWrite(Len(created)))
        /\ Len(Tail(outbox[u])) = Len(outbox[u]) - 1
    BY <1>1, HeadTailProperties
  <2>3. outbox' = [outbox EXCEPT ![u] = Tail(outbox[u])]
    BY DEF Commit
  <2>4. outbox' \in [User -> Seq(GoodWrite(Len(created)))]
    BY <2>2, <2>3 DEF IInv, DeviceInv
  <2>5. saved' \in [User -> Nat]
    BY DEF Commit, IInv, DeviceInv
  <2>6. \A v \in User : saved'[v] <= Len(outbox'[v])
    BY <1>1, <2>2, <2>3 DEF Commit, IInv, DeviceInv
  <2>7. QED
    BY <2>1, <2>4, <2>5, <2>6 DEF Commit, IInv, DeviceInv
<1>5. ViewInv'
  BY <1>2 DEF screenVars, IInv, ViewInv
<1>6. QED
  BY <1>3, <1>4, <1>5, CopiesStutter DEF screenVars, IInv

LEMMA KillInv ==
  ASSUME IInv, NEW u \in User, Kill(u)
  PROVE  IInv'
<1>1. /\ created' = created /\ Len(created) \in Nat
      /\ UNCHANGED <<chatRoom, isRead, conversation, saved>>
  BY LenProperties DEF Kill, StopProcess, IInv, ServerInv
<1>2. ServerInv'
  BY <1>1, ServerGrows DEF IInv, ServerInv
<1>3. DeviceInv'
  <2>1. GoodWrite(Len(created))' = GoodWrite(Len(created))
    BY <1>1 DEF GoodWrite, IndexOf
  <2>2. outbox' = [outbox EXCEPT ![u] = SubSeq(outbox[u], 1, saved[u])]
    BY DEF Kill, StopProcess
  <2>3. /\ SubSeq(outbox[u], 1, saved[u]) \in Seq(GoodWrite(Len(created)))
        /\ Len(SubSeq(outbox[u], 1, saved[u])) = saved[u]
    <3>1. /\ outbox[u] \in Seq(GoodWrite(Len(created)))
          /\ saved[u] \in Nat
          /\ saved[u] <= Len(outbox[u])
          /\ Len(outbox[u]) \in Nat
      BY LenProperties DEF IInv, DeviceInv
    <3>2. \A i \in 1 .. saved[u] : outbox[u][i] \in GoodWrite(Len(created))
      BY <3>1, ElementOfSeq
    <3>3. QED
      BY <3>1, <3>2, SubSeqProperties
  <2>4. outbox' \in [User -> Seq(GoodWrite(Len(created)))]
    BY <2>2, <2>3 DEF IInv, DeviceInv
  <2>5. \A v \in User : saved'[v] <= Len(outbox'[v])
    BY <1>1, <2>2, <2>3 DEF IInv, DeviceInv
  <2>6. running' \in [User -> BOOLEAN]
    BY DEF Kill, StopProcess, IInv, DeviceInv
  <2>7. QED
    BY <1>1, <2>1, <2>4, <2>5, <2>6 DEF IInv, DeviceInv
<1>4. CopiesInv'
  <2>1. <<>> \in Seq(Room)
    BY EmptySeq
  <2>2. /\ senderConversationId' = [s \in Screen |->
             IF senderId[s] = u THEN <<>> ELSE senderConversationId[s]]
        /\ receiverConversationId' = [s \in Screen |->
             IF senderId[s] = u THEN <<>> ELSE receiverConversationId[s]]
    BY DEF Kill
  <2>3. \A s \in Screen : /\ IndexOf(senderId[s], senderConversationId'[s])
                          /\ IndexOf(recieverId[s], receiverConversationId'[s])
    BY <2>2, IndexOfEmpty, ScreenRoom DEF IInv, CopiesInv
  <2>4. /\ senderConversationId' \in [Screen -> Seq(Room)]
        /\ receiverConversationId' \in [Screen -> Seq(Room)]
    BY <2>1, <2>2 DEF IInv, CopiesInv
  <2>5. QED
    BY <2>3, <2>4 DEF CopiesInv
<1>5. ViewInv'
  <2>1. <<>> \in Seq(DocumentListener \cup QueryListener)
    BY EmptySeq
  <2>2. listener' \in [Screen -> Seq(DocumentListener \cup QueryListener)]
    BY <2>1 DEF Kill, IInv, ViewInv
  <2>3. status' \in [Screen -> Status]
    BY DEF Kill, IInv, ViewInv, Status
  <2>4. upload' \in [Screen -> SUBSET ChatId]
    BY DEF Kill, IInv, ViewInv
  <2>5. \A s \in Screen : \A m \in upload'[s] : m <= Len(created')
    BY <1>1 DEF Kill, IInv, ViewInv
  <2>6. /\ allMessage' \in [Screen -> SUBSET ChatId]
        /\ rows' \in [Screen -> SUBSET ChatId]
        /\ textFieldMsgStatus' \in [Screen -> BOOLEAN]
    BY DEF Kill, IInv, ViewInv
  <2>7. QED
    BY <2>2, <2>3, <2>4, <2>5, <2>6 DEF ViewInv
<1>6. QED
  BY <1>2, <1>3, <1>4, <1>5 DEF IInv

LEMMA LaunchInv ==
  ASSUME IInv, NEW u \in User, Launch(u)
  PROVE  IInv'
<1>1. created' = created /\ Len(created) \in Nat
  BY LenProperties DEF Launch, StartProcess, IInv, ServerInv
<1>2. DeviceInv'
  <2>1. GoodWrite(Len(created))' = GoodWrite(Len(created))
    BY <1>1 DEF GoodWrite, IndexOf
  <2>2. QED
    BY <2>1 DEF Launch, StartProcess, IInv, DeviceInv
<1>3. ServerInv'
  BY <1>1, ServerGrows DEF Launch, StartProcess, IInv, ServerInv
<1>4. ViewInv'
  BY <1>1 DEF Launch, screenVars, IInv, ViewInv
<1>5. QED
  BY <1>2, <1>3, <1>4, CopiesStutter DEF Launch, screenVars, IInv

LEMMA StepInv == IInv /\ [Next]_vars => IInv'
<1> SUFFICES ASSUME IInv, [Next]_vars PROVE IInv'
  OBVIOUS
<1>1. ASSUME NEW s \in Screen, ScreenStep(s) PROVE IInv'
  <2>1. ASSUME UploadEnds(s) PROVE IInv'
    BY <2>1, UploadSucceedsInv, UploadFailsInv DEF UploadEnds
  <2>2. ASSUME NEW i \in ListenerIndex, Snapshot(s, i) PROVE IInv'
    BY <2>2, ListenerIndexNat, ConversationSnapshotInv, MessageSnapshotInv DEF Snapshot
  <2>3. QED
    BY <1>1, <2>1, <2>2, ViewWillAppearInv, SendTextInv, PickImageInv,
       SendMediaInv, BackActionInv
    DEF ScreenStep
<1>2. ASSUME NEW u \in User, Client(u) \/ Kill(u) \/ Launch(u) PROVE IInv'
  BY <1>2, PersistInv, CommitInv, KillInv, LaunchInv DEF Client
<1>3. CASE UNCHANGED vars
  <2>1. UNCHANGED storeVars /\ UNCHANGED screenVars
    BY <1>3 DEF vars
  <2>2. ViewInv'
    BY <2>1 DEF storeVars, screenVars, IInv, ViewInv
  <2>3. QED
    BY <2>1, <2>2, ServerStutter, DeviceStutter, CopiesStutter
    DEF screenVars, IInv
<1>4. QED
  BY <1>1, <1>2, <1>3 DEF Next

-----------------------------------------------------------------------------
(* The theorems.                                                           *)

LEMMA SpecInv == Spec => []IInv
BY InitInv, StepInv, PTL DEF Spec

\* Every variable keeps its type: in particular every queued write addresses a
\* message that was composed or the index of a user.
LEMMA IInvTypeOK == IInv => TypeOK
<1> SUFFICES ASSUME IInv PROVE TypeOK
  OBVIOUS
<1>1. GoodWrite(Len(created)) \subseteq Write
  BY DEF GoodWrite
<1>2. \A u \in User : outbox[u] \in Seq(Write)
  BY <1>1, SeqMonotonic DEF IInv, DeviceInv
<1>3. outbox \in [User -> Seq(Write)]
  BY <1>2 DEF IInv, DeviceInv
<1>4. ASSUME NEW u \in User, NEW i \in 1 .. Len(outbox[u])
      PROVE  IF outbox[u][i].kind = "index"
             THEN outbox[u][i].id \in User
             ELSE outbox[u][i].id \in 1 .. Len(created)
  <2>1. outbox[u][i] \in GoodWrite(Len(created))
    BY ElementOfSeq DEF IInv, DeviceInv
  <2>2. QED
    BY <2>1 DEF GoodWrite
<1>5. StoreTypeOK
  BY <1>3, <1>4 DEF StoreTypeOK, IInv, ServerInv, DeviceInv
<1>6. QED
  BY <1>5 DEF TypeOK, IInv, CopiesInv, ViewInv

\* TypeOK is an invariant of the chat rooms.
THEOREM TypeCorrect == Spec => []TypeOK
BY SpecInv, IInvTypeOK, PTL

\* An array kept for user u names only rooms of u, and none twice.
LEMMA IndexOfMeans ==
  ASSUME NEW u \in User, NEW rooms, IndexOf(u, rooms)
  PROVE  /\ \A room \in Range(rooms) : u \in Members(room)
         /\ IsInjective(rooms)
BY RangeEquality, LenProperties DEF IndexOf, IsInjective

LEMMA QueuedIndex ==
  ASSUME DeviceInv, NEW u \in User, NEW i \in Queued(u, Len(outbox[u]), "index")
  PROVE  /\ outbox[u][i].id \in User
         /\ IndexOf(outbox[u][i].id, outbox[u][i].rooms)
<1>1. i \in 1 .. Len(outbox[u]) /\ outbox[u][i].kind = "index"
  BY DEF Queued
<1>2. outbox[u][i] \in GoodWrite(Len(created))
  BY <1>1, ElementOfSeq DEF DeviceInv
<1>3. QED
  BY <1>1, <1>2 DEF GoodWrite

\* The copies of the screens and the documents of the two ends of a chat are
\* never exchanged, whatever the devices do at the same time.
THEOREM IndexIsSound == Spec => []IndexSound
<1>1. IInv => IndexSound
  BY IndexOfMeans, QueuedIndex, ScreenRoom
  DEF IInv, ServerInv, CopiesInv, IndexSound
<1>2. QED
  BY <1>1, SpecInv, PTL

\* No index names a room twice, in the backend, in a write or on a screen.
THEOREM IndexHasNoDuplicates == Spec => []NoDuplicateRooms
<1>1. IInv => NoDuplicateRooms
  BY IndexOfMeans, QueuedIndex, ScreenRoom
  DEF IInv, ServerInv, CopiesInv, NoDuplicateRooms
<1>2. QED
  BY <1>1, SpecInv, PTL

-----------------------------------------------------------------------------
(* A room in the backend's index always has a message.                     *)
(* IndexedRoomHasMessage is not inductive: IndexBacked adds what the       *)
(* queues of the devices and the copies of the screens may hold.           *)

BInv == IInv /\ IndexBacked /\ IndexedRoomHasMessage

LEMMA RangeAppend ==
  ASSUME NEW S, NEW rooms \in Seq(S), NEW room \in S
  PROVE  Range(Append(rooms, room)) = Range(rooms) \cup {room}
<1>1. Append(rooms, room) = rooms \o <<room>>
  BY AppendIsConcat
<1>2. Range(<<room>>) = {room}
  BY DEF Range
<1>3. <<room>> \in Seq(S)
  OBVIOUS
<1>4. Range(rooms \o <<room>>) = Range(rooms) \cup Range(<<room>>)
  BY ZenonT(40), <1>3, RangeConcatenation
<1>5. QED
  BY <1>1, <1>2, <1>4

\* The elements of a concatenation, counted from the start of each part.
LEMMA ConcatParts ==
  ASSUME NEW S, NEW a \in Seq(S), NEW b \in Seq(S)
  PROVE  /\ Len(a \o b) = Len(a) + Len(b)
         /\ \A j \in 1 .. Len(a) : (a \o b)[j] = a[j]
         /\ \A k \in 1 .. Len(b) : (a \o b)[Len(a) + k] = b[k]
BY ConcatProperties, LenProperties

\* A queued message was composed.
LEMMA QueuedMessage ==
  ASSUME IInv, NEW u \in User, NEW n \in Nat, n <= Len(outbox[u]),
         NEW j \in Queued(u, n, "message")
  PROVE  /\ j \in 1 .. Len(outbox[u])
         /\ outbox[u][j].kind = "message"
         /\ outbox[u][j].id \in 1 .. Len(created)
<1>1. j \in 1 .. Len(outbox[u]) /\ outbox[u][j].kind = "message"
  BY LenProperties DEF Queued, IInv, DeviceInv
<1>2. outbox[u][j] \in GoodWrite(Len(created))
  BY <1>1, ElementOfSeq DEF IInv, DeviceInv
<1>3. QED
  BY <1>1, <1>2 DEF GoodWrite

\* What backs a room stays if the first n writes of the device stay.
LEMMA BackedStays ==
  ASSUME IInv, \A m \in 1 .. Len(created) : created'[m] = created[m],
         chatRoom \subseteq chatRoom',
         NEW u \in User, NEW n \in Nat, n <= Len(outbox[u]),
         \A j \in 1 .. n : outbox'[u][j] = outbox[u][j],
         NEW k \in Nat, n <= k, NEW room, Backed(room, u, n)
  PROVE  Backed(room, u, k)'
<1>1. CASE \E m \in chatRoom : created[m].roomId = room
  BY <1>1 DEF Backed, IInv, ServerInv
<1>2. CASE \E j \in Queued(u, n, "message") : created[outbox[u][j].id].roomId = room
  <2>1. PICK j \in Queued(u, n, "message") : created[outbox[u][j].id].roomId = room
    BY <1>2
  <2>2. /\ j \in 1 .. n
        /\ outbox[u][j].kind = "message"
        /\ outbox[u][j].id \in 1 .. Len(created)
    BY QueuedMessage DEF Queued
  <2>3. outbox'[u][j] = outbox[u][j]
    BY <2>2
  <2>4. j \in Queued(u, k, "message")'
    BY <2>2, <2>3 DEF Queued
  <2>5. created'[outbox'[u][j].id].roomId = room
    BY <2>1, <2>2, <2>3
  <2>6. QED
    BY <2>4, <2>5 DEF Backed
<1>3. QED
  BY <1>1, <1>2 DEF Backed

LEMMA OutboxLen ==
  ASSUME IInv, NEW u \in User
  PROVE  /\ outbox[u] \in Seq(GoodWrite(Len(created)))
         /\ Len(outbox[u]) \in Nat
         /\ saved[u] \in Nat /\ saved[u] <= Len(outbox[u])
BY LenProperties DEF IInv, DeviceInv

\* The rooms in what a listener is handed are backed by the saved writes.
LEMMA LocalConversationBacked ==
  ASSUME BInv, NEW u \in User, NEW x \in User,
         NEW rooms \in LocalConversation(u, x), NEW room \in Range(rooms)
  PROVE  Backed(room, u, Len(outbox[u]))
<1> DEFINE writes == {i \in Queued(u, saved[u], "index") : outbox[u][i].id = x}
<1>1. CASE writes = {}
  BY <1>1 DEF LocalConversation, BInv, IndexedRoomHasMessage, Backed
<1>2. CASE writes # {}
  <2>1. PICK i \in writes : rooms = outbox[u][i].rooms
    BY <1>2 DEF LocalConversation
  <2>2. i \in Queued(u, Len(outbox[u]), "index")
    BY <2>1, OutboxLen DEF Queued, BInv
  <2>3. Backed(room, u, i - 1)
    BY <2>1, <2>2 DEF BInv, IndexBacked
  <2>4. Queued(u, i - 1, "message") \subseteq Queued(u, Len(outbox[u]), "message")
    BY <2>2, OutboxLen DEF Queued, BInv
  <2>5. QED
    BY <2>3, <2>4 DEF Backed
<1>3. QED
  BY <1>1, <1>2

-----------------------------------------------------------------------------
(* Steps that leave the index and the queues alone.                        *)

LEMMA QuietStep ==
  ASSUME BInv, IInv', \A m \in 1 .. Len(created) : created'[m] = created[m],
         UNCHANGED <<chatRoom, conversation, outbox,
                     senderConversationId, receiverConversationId>>,
         \A s \in Screen : \A m \in upload'[s] \ upload[s] :
           created'[m].roomId = chatRoomTitle(s)
  PROVE  BInv'
<1>1. ASSUME NEW u \in User, NEW n \in Nat, n <= Len(outbox[u]), NEW room,
             Backed(room, u, n)
      PROVE  Backed(room, u, n)'
  BY <1>1, BackedStays DEF BInv
<1>2. IndexedRoomHasMessage'
  BY DEF BInv, IndexedRoomHasMessage, IInv, ServerInv
<1>3. ASSUME NEW u \in User, NEW i \in Queued(u, Len(outbox[u]), "index")',
             NEW room \in Range(outbox'[u][i].rooms)
      PROVE  Backed(room, u, i - 1)'
  <2>1. i \in Queued(u, Len(outbox[u]), "index")
    BY DEF Queued
  <2>2. Backed(room, u, i - 1)
    BY <2>1 DEF BInv, IndexBacked
  <2>3. i - 1 \in Nat /\ i - 1 <= Len(outbox[u])
    BY <2>1, OutboxLen DEF Queued, BInv
  <2>4. QED
    BY <1>1, <2>2, <2>3
<1>4. ASSUME NEW s \in Screen,
             NEW room \in Range(senderConversationId'[s])
                            \cup Range(receiverConversationId'[s])
      PROVE  Backed(room, senderId[s], Len(outbox[senderId[s]]))'
  <2>1. Backed(room, senderId[s], Len(outbox[senderId[s]]))
    BY DEF BInv, IndexBacked
  <2>2. senderId[s] \in User /\ Len(outbox[senderId[s]]) \in Nat
    BY ScreenRoom, OutboxLen DEF BInv
  <2>3. QED
    BY <1>1, <2>1, <2>2
<1>5. \A s \in Screen : \A m \in upload'[s] : created'[m].roomId = chatRoomTitle(s)
  <2> SUFFICES ASSUME NEW s \in Screen, NEW m \in upload'[s], m \in upload[s]
               PROVE  created'[m].roomId = chatRoomTitle(s)
    OBVIOUS
  <2>1. m \in 1 .. Len(created)
    BY LenProperties DEF BInv, IInv, ServerInv, ViewInv, ChatId
  <2>2. QED
    BY <2>1 DEF BInv, IndexBacked
<1>6. IndexBacked'
  BY <1>3, <1>4, <1>5 DEF IndexBacked, chatRoomTitle
<1>7. QED
  BY <1>2, <1>6 DEF BInv

-----------------------------------------------------------------------------
(* Steps that issue writes.                                                *)

\* What the index writes of a screen are: its room appended to a copy.
LEMMA IndexWritesAre ==
  ASSUME NEW s \in Screen, NEW k \in 1 .. Len(IndexWrites(s)),
         IndexOf(senderId[s], senderConversationId[s]),
         IndexOf(recieverId[s], receiverConversationId[s])
  PROVE  /\ IndexWrites(s)[k].kind = "index"
         /\ Range(IndexWrites(s)[k].rooms) \subseteq
              Range(senderConversationId[s])
                \cup Range(receiverConversationId[s]) \cup {chatRoomTitle(s)}
<1> DEFINE room == chatRoomTitle(s)
           Add(rooms, user) == IF Contains(rooms, room) THEN <<>>
                               ELSE <<SetConversation(user, Append(rooms, room))>>
           a == Add(senderConversationId[s], senderId[s])
           b == Add(receiverConversationId[s], recieverId[s])
           w1 == SetConversation(senderId[s], Append(senderConversationId[s], room))
           w2 == SetConversation(recieverId[s],
                                 Append(receiverConversationId[s], room))
<1>1. IndexWrites(s) = a \o b
  BY DEF IndexWrites
<1>2. a = <<>> \/ a = <<w1>>
  OBVIOUS
<1>3. b = <<>> \/ b = <<w2>>
  OBVIOUS
<1>4. IndexWrites(s)[k] = w1 \/ IndexWrites(s)[k] = w2
  BY <1>1, <1>2, <1>3
<1>5. /\ Range(Append(senderConversationId[s], room))
           = Range(senderConversationId[s]) \cup {room}
      /\ Range(Append(receiverConversationId[s], room))
           = Range(receiverConversationId[s]) \cup {room}
  BY RangeAppend, ScreenRoom DEF IndexOf
<1>6. /\ w1.kind = "index" /\ w1.rooms = Append(senderConversationId[s], room)
      /\ w2.kind = "index" /\ w2.rooms = Append(receiverConversationId[s], room)
  BY DEF SetConversation
<1> HIDE DEF w1, w2, a, b, Add
<1>7. QED
  BY <1>4, <1>5, <1>6

\* Writes that are appended to a queue keep IndexBacked if every index among
\* them names only rooms that are backed then, and the copies do too.
LEMMA IssueBacked ==
  ASSUME BInv, IInv', NEW u \in User,
         \A m \in 1 .. Len(created) : created'[m] = created[m],
         chatRoom' = chatRoom, conversation' = conversation,
         NEW ws, ws \in Seq(GoodWrite(Len(created'))), Issue(u, ws),
         NEW n0, n0 = Len(outbox[u]),
         \A k \in 1 .. Len(ws) : ws[k].kind = "index" =>
           \A room \in Range(ws[k].rooms) :
             Backed(room, u, n0 + k - 1)',
         \A s \in Screen :
           \A room \in (Range(senderConversationId'[s])
                          \cup Range(receiverConversationId'[s]))
                       \ (Range(senderConversationId[s])
                            \cup Range(receiverConversationId[s])) :
             Backed(room, senderId[s], Len(outbox[senderId[s]]))',
         \A s \in Screen : upload'[s] \subseteq upload[s]
  PROVE  BInv'
<1>1. /\ outbox' = [outbox EXCEPT ![u] = outbox[u] \o ws]
      /\ outbox[u] \in Seq(GoodWrite(Len(created)))
      /\ Len(outbox[u]) \in Nat
      /\ Len(ws) \in Nat
      /\ outbox \in [User -> Seq(GoodWrite(Len(created)))]
  BY OutboxLen, LenProperties DEF Issue, BInv, IInv, DeviceInv
<1>2. /\ Len(outbox'[u]) = Len(outbox[u]) + Len(ws)
      /\ \A j \in 1 .. Len(outbox[u]) : outbox'[u][j] = outbox[u][j]
      /\ \A k \in 1 .. Len(ws) : outbox'[u][Len(outbox[u]) + k] = ws[k]
  <2>1. outbox'[u] = outbox[u] \o ws
    BY <1>1
  <2>2. outbox[u] \in Seq(Write) /\ ws \in Seq(Write)
    <3>1. /\ GoodWrite(Len(created)) \subseteq Write
          /\ GoodWrite(Len(created')) \subseteq Write
      BY DEF GoodWrite
    <3>2. QED
      BY <1>1, <3>1, SeqMonotonic
  <2>3. QED
    BY SMTT(40), <1>1, <2>1, <2>2, ConcatProperties
<1>3. \A v \in User \ {u} : outbox'[v] = outbox[v]
  BY <1>1
<1>4. ASSUME NEW v \in User, NEW n \in Nat, n <= Len(outbox[v]),
             NEW k \in Nat, n <= k, NEW room, Backed(room, v, n)
      PROVE  Backed(room, v, k)'
  <2>1. Len(outbox[v]) \in Nat
    BY OutboxLen DEF BInv
  <2>2. \A j \in 1 .. n : outbox'[v][j] = outbox[v][j]
    <3>1. CASE v = u
      BY <1>2, <1>4, <2>1, <3>1
    <3>2. CASE v # u
      BY <1>3, <3>2
    <3>3. QED
      BY <3>1, <3>2
  <2>3. QED
    BY <1>4, <2>2, BackedStays DEF BInv
<1>5. IndexedRoomHasMessage'
  BY DEF BInv, IndexedRoomHasMessage, IInv, ServerInv
<1>6. ASSUME NEW v \in User, NEW i \in Queued(v, Len(outbox[v]), "index")',
             NEW room \in Range(outbox'[v][i].rooms)
      PROVE  Backed(room, v, i - 1)'
  <2>1. i \in 1 .. Len(outbox'[v]) /\ outbox'[v][i].kind = "index"
    BY DEF Queued
  <2>2. Len(outbox[v]) \in Nat
    BY OutboxLen DEF BInv
  <2>3. CASE i \in 1 .. Len(outbox[v])
    <3>1. outbox'[v][i] = outbox[v][i]
      BY <1>2, <1>3, <2>3
    <3>2. i \in Queued(v, Len(outbox[v]), "index")
      BY <2>1, <2>3, <3>1 DEF Queued
    <3>3. Backed(room, v, i - 1)
      BY <3>1, <3>2 DEF BInv, IndexBacked
    <3>4. i - 1 \in Nat /\ i - 1 <= Len(outbox[v])
      BY <2>2, <2>3
    <3>5. QED
      BY <1>4, <3>3, <3>4
  <2>4. CASE i \notin 1 .. Len(outbox[v])
    <3>1. v = u
      BY <1>3, <2>1, <2>4
    <3>2. PICK k \in 1 .. Len(ws) : i = Len(outbox[u]) + k
      BY <1>1, <1>2, <2>1, <2>4, <3>1
    <3>3. outbox'[u][i] = ws[k]
      BY <1>2, <3>2
    <3>4. Backed(room, u, n0 + k - 1)'
      BY <2>1, <3>1, <3>3
    <3>5. QED
      BY <3>1, <3>2, <3>4
  <2>5. QED
    BY <2>3, <2>4
<1>7. ASSUME NEW s \in Screen,
             NEW room \in Range(senderConversationId'[s])
                            \cup Range(receiverConversationId'[s])
      PROVE  Backed(room, senderId[s], Len(outbox[senderId[s]]))'
  <2>1. CASE room \in Range(senderConversationId[s])
                        \cup Range(receiverConversationId[s])
    <3>1. Backed(room, senderId[s], Len(outbox[senderId[s]]))
      BY <2>1 DEF BInv, IndexBacked
    <3>2. /\ senderId[s] \in User
          /\ Len(outbox[senderId[s]]) \in Nat
          /\ Len(outbox'[senderId[s]]) \in Nat
          /\ Len(outbox[senderId[s]]) <= Len(outbox'[senderId[s]])
      BY <1>1, <1>2, <1>3, ScreenRoom, OutboxLen DEF BInv
    <3>3. QED
      BY <1>4, <3>1, <3>2
  <2>2. CASE room \notin Range(senderConversationId[s])
                           \cup Range(receiverConversationId[s])
    BY <2>2
  <2>3. QED
    BY <2>1, <2>2
<1>8. \A s \in Screen : \A m \in upload'[s] : created'[m].roomId = chatRoomTitle(s)
  <2> SUFFICES ASSUME NEW s \in Screen, NEW m \in upload'[s]
               PROVE  created'[m].roomId = chatRoomTitle(s)
    OBVIOUS
  <2>1. m \in 1 .. Len(created) /\ m \in upload[s]
    BY LenProperties DEF BInv, IInv, ServerInv, ViewInv, ChatId
  <2>2. QED
    BY <2>1 DEF BInv, IndexBacked
<1>9. IndexBacked'
  BY <1>6, <1>7, <1>8 DEF IndexBacked, chatRoomTitle
<1>10. QED
  BY <1>5, <1>9 DEF BInv

\* A message of its room, then the index writes of a screen.
LEMMA StoreMessageBacked ==
  ASSUME BInv, IInv', NEW s \in Screen, NEW m \in 1 .. Len(created'),
         \A k \in 1 .. Len(created) : created'[k] = created[k],
         created'[m].roomId = chatRoomTitle(s), Len(created') \in Nat,
         StoreMessage(s, m), UNCHANGED <<chatRoom, conversation>>,
         \A t \in Screen : upload'[t] \subseteq upload[t]
  PROVE  BInv'
<1> DEFINE u == senderId[s]
           room0 == chatRoomTitle(s)
           ws == <<SetMessage(m)>> \o IndexWrites(s)
           copies == Range(senderConversationId[s])
                       \cup Range(receiverConversationId[s])
<1>0. PICK n0 \in Nat : n0 = Len(outbox[u])
  BY ScreenRoom, OutboxLen DEF BInv
<1>1. /\ u \in User
      /\ room0 \in Room
      /\ outbox \in [User -> Seq(GoodWrite(Len(created)))]
      /\ outbox[u] \in Seq(Write)
  <2>1. GoodWrite(Len(created)) \subseteq Write
    BY DEF GoodWrite
  <2>2. QED
    BY <2>1, ScreenRoom, SeqMonotonic DEF BInv, IInv, DeviceInv
<1>2. IndexWrites(s) \in Seq(GoodWrite(Len(created')))
  BY IndexWritesGood DEF BInv, IInv, CopiesInv
<1>3. /\ ws \in Seq(GoodWrite(Len(created')))
      /\ ws \in Seq(Write)
      /\ Len(ws) = 1 + Len(IndexWrites(s))
      /\ Len(IndexWrites(s)) \in Nat
      /\ ws[1] = SetMessage(m)
      /\ \A k \in 1 .. Len(IndexWrites(s)) : ws[k + 1] = IndexWrites(s)[k]
  <2>1. <<SetMessage(m)>> \in Seq(GoodWrite(Len(created')))
    BY MessageWriteGood
  <2>2. GoodWrite(Len(created')) \subseteq Write
    BY DEF GoodWrite
  <2>3. /\ ws \in Seq(GoodWrite(Len(created')))
        /\ Len(ws) = 1 + Len(IndexWrites(s))
        /\ Len(IndexWrites(s)) \in Nat
        /\ ws[1] = SetMessage(m)
        /\ \A k \in 1 .. Len(IndexWrites(s)) : ws[1 + k] = IndexWrites(s)[k]
    BY <1>2, <2>1, ConcatProperties, LenProperties
  <2>4. QED
    BY <2>2, <2>3, SeqMonotonic
<1>4. outbox' = [outbox EXCEPT ![u] = outbox[u] \o ws] /\ Issue(u, ws)
  BY DEF StoreMessage, Issue
<1> HIDE DEF ws
<1>5. /\ outbox'[u][n0 + 1] = SetMessage(m)
      /\ \A j \in 1 .. n0 : outbox'[u][j] = outbox[u][j]
      /\ Len(outbox'[u]) = n0 + Len(ws)
  <2>1. outbox'[u] = outbox[u] \o ws
    BY <1>1, <1>4
  <2>2. /\ (outbox[u] \o ws)[n0 + 1] = ws[1]
        /\ \A j \in 1 .. n0 : (outbox[u] \o ws)[j] = outbox[u][j]
        /\ Len(outbox[u] \o ws) = n0 + Len(ws)
    <3>1. 1 \in 1 .. Len(ws)
      BY <1>3
    <3>2. /\ Len(outbox[u] \o ws) = Len(outbox[u]) + Len(ws)
          /\ \A j \in 1 .. Len(outbox[u]) : (outbox[u] \o ws)[j] = outbox[u][j]
          /\ \A k \in 1 .. Len(ws) : (outbox[u] \o ws)[Len(outbox[u]) + k] = ws[k]
      <4>1. outbox[u] \in Seq(Write) /\ ws \in Seq(Write)
        BY <1>1, <1>3
      <4> HIDE DEF u
      <4>2. QED
        BY <4>1, ConcatParts
    <3>3. QED
      BY <1>0, <3>1, <3>2
  <2>3. QED
    BY <1>3, <2>1, <2>2
<1>6. ASSUME NEW n \in Nat, n >= n0 + 1 PROVE Backed(room0, u, n)'
  <2>1. n0 + 1 \in Queued(u, n, "message")'
    BY <1>5, <1>6 DEF Queued, SetMessage
  <2>2. outbox'[u][n0 + 1].id = m
    BY <1>5 DEF SetMessage
  <2>3. QED
    BY <2>1, <2>2 DEF Backed, chatRoomTitle
<1>7. ASSUME NEW n \in Nat, n >= n0, NEW room \in copies
      PROVE  Backed(room, u, n)'
  <2>1. Backed(room, u, n0)
    BY <1>0 DEF BInv, IndexBacked
  <2>2. n0 <= Len(outbox[u]) /\ n0 <= n
    BY <1>0, <1>7
  <2>3. QED
    BY <1>1, <1>5, <2>1, <2>2, BackedStays DEF BInv
<1>8. ASSUME NEW k \in 1 .. Len(ws), ws[k].kind = "index",
             NEW room \in Range(ws[k].rooms)
      PROVE  Backed(room, u, n0 + k - 1)'
  <2>1. k # 1
    BY <1>3, <1>8 DEF SetMessage
  <2>2. PICK j \in 1 .. Len(IndexWrites(s)) : k = j + 1
    BY <1>3, <2>1
  <2>3. ws[k] = IndexWrites(s)[j]
    BY <1>3, <2>2
  <2>4. room \in copies \cup {room0}
    BY <2>3, IndexWritesAre DEF BInv, IInv, CopiesInv
  <2>5. n0 + k - 1 \in Nat /\ n0 + k - 1 >= n0 + 1
    BY <1>3, <2>2
  <2>6. QED
    BY <1>6, <1>7, <2>4, <2>5
<1>9. ASSUME NEW t \in Screen,
             NEW room \in (Range(senderConversationId'[t])
                            \cup Range(receiverConversationId'[t]))
                         \ (Range(senderConversationId[t])
                              \cup Range(receiverConversationId[t]))
      PROVE  Backed(room, senderId[t], Len(outbox[senderId[t]]))'
  <2>1. /\ senderConversationId' = [senderConversationId EXCEPT ![s] =
             WithRoom(senderConversationId[s], room0)]
        /\ receiverConversationId' = [receiverConversationId EXCEPT ![s] =
             WithRoom(receiverConversationId[s], room0)]
    BY DEF StoreMessage
  <2>2. t = s
    BY <2>1 DEF BInv, IInv, CopiesInv
  <2>3. /\ Range(WithRoom(senderConversationId[s], room0))
             \subseteq Range(senderConversationId[s]) \cup {room0}
        /\ Range(WithRoom(receiverConversationId[s], room0))
             \subseteq Range(receiverConversationId[s]) \cup {room0}
    BY <1>1, RangeAppend DEF WithRoom, BInv, IInv, CopiesInv
  <2>4. room = room0
    BY <2>1, <2>2, <2>3 DEF BInv, IInv, CopiesInv
  <2>5. /\ senderId[t] = u
        /\ Len(outbox'[u]) \in Nat
        /\ Len(outbox'[u]) >= n0 + 1
    <3>1. senderId[t] = u
      BY <2>2
    <3>2. Len(ws) \in Nat /\ Len(ws) >= 1
      BY <1>3
    <3>3. QED
      BY <1>5, <3>1, <3>2
  <2>6. QED
    BY <1>6, <2>4, <2>5
<1> HIDE DEF room0, u
<1>10. QED
  BY <1>0, <1>1, <1>3, <1>4, <1>8, <1>9, IssueBacked

-----------------------------------------------------------------------------
(* Each action.                                                            *)

LEMMA CreatedLen ==
  ASSUME IInv PROVE created \in Seq(Message) /\ Len(created) \in Nat
BY LenProperties DEF IInv, ServerInv

LEMMA ScreenOnlyBacked ==
  ASSUME BInv, IInv', NEW s \in Screen,
         \/ ViewWillAppear(s) \/ PickImage(s) \/ BackAction(s)
         \/ \E m \in upload[s] : UploadFails(s, m)
  PROVE  BInv'
<1>1. /\ created' = created
      /\ UNCHANGED <<chatRoom, conversation, outbox,
                     senderConversationId, receiverConversationId>>
  BY DEF ViewWillAppear, PickImage, BackAction, UploadFails, storeVars
<1>2. \A t \in Screen : upload'[t] \subseteq upload[t]
  BY DEF ViewWillAppear, PickImage, BackAction, UploadFails, BInv, IInv, ViewInv
<1>3. QED
  BY <1>1, <1>2, QuietStep

LEMMA SendTextBacked ==
  ASSUME BInv, IInv', NEW s \in Screen, SendText(s)
  PROVE  BInv'
<1>1. /\ NewId \in 1 .. Len(created')
      /\ \A m \in 1 .. Len(created) : created'[m] = created[m]
      /\ created'[NewId].roomId = chatRoomTitle(s)
      /\ Len(created') \in Nat
  BY NewMessageStep, ScreenRoom, ScreenAssumption
  DEF SendText, BInv, IInv, chatRoomTitle
<1>2. StoreMessage(s, NewId) /\ UNCHANGED <<chatRoom, conversation, upload>>
  BY DEF SendText
<1>3. QED
  BY <1>1, <1>2, StoreMessageBacked

LEMMA SendMediaBacked ==
  ASSUME BInv, IInv', NEW s \in Screen, SendMedia(s)
  PROVE  BInv'
<1>1. /\ \A m \in 1 .. Len(created) : created'[m] = created[m]
      /\ created'[NewId].roomId = chatRoomTitle(s)
  BY NewMessageStep, ScreenRoom, ScreenAssumption
  DEF SendMedia, BInv, IInv, chatRoomTitle
<1>2. \A t \in Screen : \A m \in upload'[t] \ upload[t] : t = s /\ m = NewId
  BY DEF SendMedia, BInv, IInv, ViewInv
<1>3. UNCHANGED <<chatRoom, conversation, outbox,
                  senderConversationId, receiverConversationId>>
  BY DEF SendMedia
<1>4. QED
  BY <1>1, <1>2, <1>3, QuietStep

LEMMA UploadSucceedsBacked ==
  ASSUME BInv, IInv', NEW s \in Screen, NEW m \in upload[s], UploadSucceeds(s, m)
  PROVE  BInv'
<1>1. created' = created /\ Len(created) \in Nat
  BY CreatedLen DEF UploadSucceeds, BInv
<1>2. m \in 1 .. Len(created')
  BY <1>1 DEF BInv, IInv, ViewInv, ChatId
<1>3. created'[m].roomId = chatRoomTitle(s)
  BY <1>1 DEF BInv, IndexBacked
<1>4. \A t \in Screen : upload'[t] \subseteq upload[t]
  BY DEF UploadSucceeds, BInv, IInv, ViewInv
<1>5. StoreMessage(s, m) /\ UNCHANGED <<chatRoom, conversation>>
  BY DEF UploadSucceeds
<1>6. QED
  BY <1>1, <1>2, <1>3, <1>4, <1>5, StoreMessageBacked

LEMMA ConversationSnapshotBacked ==
  ASSUME BInv, IInv', NEW s \in Screen, NEW i \in ListenerIndex,
         ConversationSnapshot(s, i)
  PROVE  BInv'
<1> DEFINE on == listener[s][i].on
           x == IF on = "sender" THEN senderId[s] ELSE recieverId[s]
<1>1. on \in {"sender", "receiver"}
  BY DEF ConversationSnapshot
<1>2. PICK rooms \in CurrentSnapshot(s, on) :
        /\ senderConversationId' =
             IF on = "sender" THEN [senderConversationId EXCEPT ![s] = rooms]
                              ELSE senderConversationId
        /\ receiverConversationId' =
             IF on = "receiver" THEN [receiverConversationId EXCEPT ![s] = rooms]
                                ELSE receiverConversationId
  BY DEF ConversationSnapshot
<1>3. \A room \in Range(rooms) : Backed(room, senderId[s], Len(outbox[senderId[s]]))
  <2>1. rooms \in LocalConversation(senderId[s], x)
    BY <1>1, <1>2 DEF CurrentSnapshot
  <2>2. senderId[s] \in User /\ x \in User
    BY ScreenRoom
  <2>3. QED
    BY <2>1, <2>2, LocalConversationBacked
<1>4. UNCHANGED storeVars /\ UNCHANGED upload
  BY DEF ConversationSnapshot
<1>5. \A room, u, n : Backed(room, u, n)' <=> Backed(room, u, n)
  BY <1>4 DEF storeVars, Backed, Queued
<1>6. ASSUME NEW t \in Screen,
             NEW room \in Range(senderConversationId'[t])
                            \cup Range(receiverConversationId'[t])
      PROVE  Backed(room, senderId[t], Len(outbox[senderId[t]]))
  <2>1. \/ room \in Range(senderConversationId[t])
                      \cup Range(receiverConversationId[t])
        \/ t = s /\ room \in Range(rooms)
    BY <1>2 DEF BInv, IInv, CopiesInv
  <2>2. QED
    BY <1>3, <2>1 DEF BInv, IndexBacked
<1>7. IndexedRoomHasMessage'
  BY <1>4 DEF storeVars, BInv, IndexedRoomHasMessage
<1>8. QED
  <2>1. \A u \in User : \A k \in Queued(u, Len(outbox[u]), "index")' :
          \A room \in Range(outbox'[u][k].rooms) : Backed(room, u, k - 1)'
    BY <1>4, <1>5 DEF storeVars, Queued, BInv, IndexBacked
  <2>2. \A t \in Screen :
          \A room \in Range(senderConversationId'[t])
                        \cup Range(receiverConversationId'[t]) :
            Backed(room, senderId[t], Len(outbox[senderId[t]]))'
    BY <1>4, <1>6 DEF storeVars, Backed, Queued
  <2>3. \A t \in Screen : \A m \in upload'[t] : created'[m].roomId = chatRoomTitle(t)
    BY <1>4 DEF storeVars, BInv, IndexBacked
  <2>4. IndexBacked'
    BY <2>1, <2>2, <2>3 DEF IndexBacked, chatRoomTitle
  <2>5. QED
    BY <1>7, <2>4 DEF BInv

LEMMA MessageSnapshotBacked ==
  ASSUME BInv, IInv', NEW s \in Screen, NEW i \in ListenerIndex,
         MessageSnapshot(s, i)
  PROVE  BInv'
<1>0. PICK on \in {"room", "untitled"} : on = listener[s][i].on
  BY DEF MessageSnapshot
<1>b. PICK entries \in CurrentSnapshot(s, on) :
        \E order \in SetToSeqs(Receipts(s, entries)) :
          Issue(senderId[s], [n \in DOMAIN order |-> UpdateRead(order[n])])
  BY <1>0 DEF MessageSnapshot
<1>1. PICK order \in SetToSeqs(Receipts(s, entries)) :
        Issue(senderId[s], [n \in DOMAIN order |-> UpdateRead(order[n])])
  BY <1>b
<1> DEFINE ws == [n \in DOMAIN order |-> UpdateRead(order[n])]
<1>2. /\ ws \in Seq(GoodWrite(Len(created)))
      /\ \A n \in DOMAIN order : UpdateRead(order[n]).kind = "read"
  BY <1>1, ReceiptWrites DEF BInv
<1>3. \A k \in 1 .. Len(ws) : ws[k].kind # "index"
  BY <1>2, LenProperties
<1>4. UNCHANGED <<created, chatRoom, conversation, senderConversationId,
                  receiverConversationId, upload>>
  BY DEF MessageSnapshot
<1>5. Issue(senderId[s], ws)
  BY <1>1
<1> HIDE DEF ws
<1>6. senderId[s] \in User /\ ws \in Seq(GoodWrite(Len(created')))
  BY <1>2, <1>4, ScreenRoom
<1>7. QED
  BY <1>3, <1>4, <1>5, <1>6, IssueBacked

LEMMA QuietClientBacked ==
  ASSUME BInv, IInv', UNCHANGED screenVars,
         UNCHANGED <<created, chatRoom, conversation, outbox>>
  PROVE  BInv'
BY QuietStep DEF screenVars

\* The oldest write of u reaches the backend; the others move up.
LEMMA CommitBacked ==
  ASSUME BInv, IInv', NEW u \in User, Commit(u), UNCHANGED screenVars
  PROVE  BInv'
<1> DEFINE write == Head(outbox[u])
<1>1. /\ outbox[u] \in Seq(GoodWrite(Len(created)))
      /\ outbox[u] # <<>>
      /\ Len(outbox[u]) \in Nat
      /\ write = outbox[u][1]
      /\ write \in GoodWrite(Len(created))
  BY HeadGood DEF Commit, BInv, IInv
<1>2. /\ created' = created
      /\ outbox' = [outbox EXCEPT ![u] = Tail(outbox[u])]
      /\ chatRoom' = IF write.kind = "message"
                     THEN chatRoom \cup {write.id} ELSE chatRoom
      /\ conversation' = IF write.kind = "index"
                         THEN [conversation EXCEPT ![write.id] = write.rooms]
                         ELSE conversation
  BY DEF Commit
<1>3. /\ Len(outbox'[u]) = Len(outbox[u]) - 1
      /\ \A j \in 1 .. Len(outbox'[u]) : outbox'[u][j] = outbox[u][j + 1]
      /\ \A v \in User \ {u} : outbox'[v] = outbox[v]
  <2>1. outbox'[u] = Tail(outbox[u]) /\ \A v \in User \ {u} : outbox'[v] = outbox[v]
    BY <1>2 DEF BInv, IInv, DeviceInv
  <2>2. /\ Len(Tail(outbox[u])) = Len(outbox[u]) - 1
        /\ \A j \in 1 .. Len(Tail(outbox[u])) : Tail(outbox[u])[j] = outbox[u][j + 1]
    BY <1>1, HeadTailProperties
  <2>3. QED
    BY <2>1, <2>2
<1>4. ASSUME NEW room, NEW v \in User \ {u}, NEW n \in Nat, n <= Len(outbox[v]),
             Backed(room, v, n)
      PROVE  Backed(room, v, n)'
  <2>1. \A j \in 1 .. n : outbox'[v][j] = outbox[v][j]
    BY <1>3
  <2>2. chatRoom \subseteq chatRoom'
    BY <1>2
  <2>3. QED
    BY <1>2, <1>4, <2>1, <2>2, BackedStays DEF BInv
<1>5. ASSUME NEW room, NEW n \in Nat, n < Len(outbox[u]), Backed(room, u, n + 1)
      PROVE  Backed(room, u, n)'
  <2>1. CASE \E m \in chatRoom : created[m].roomId = room
    BY <1>2, <2>1 DEF Backed
  <2>2. CASE \E j \in Queued(u, n + 1, "message") :
               created[outbox[u][j].id].roomId = room
    <3>1. PICK j \in 1 .. n + 1 : /\ outbox[u][j].kind = "message"
                                  /\ created[outbox[u][j].id].roomId = room
      BY <2>2 DEF Queued
    <3>2. CASE j = 1
      <4>1. write.id \in chatRoom' /\ created'[write.id].roomId = room
        BY <1>1, <1>2, <3>1, <3>2
      <4>2. QED
        BY <4>1 DEF Backed
    <3>3. CASE j # 1
      <4>1. /\ j - 1 \in 1 .. n
            /\ j - 1 \in 1 .. Len(outbox'[u])
            /\ (j - 1) + 1 = j
        BY <1>1, <1>3, <1>5, <3>1, <3>3
      <4>2. outbox'[u][j - 1] = outbox[u][j]
        BY <1>3, <4>1
      <4>3. j - 1 \in Queued(u, n, "message")'
        BY <3>1, <4>1, <4>2 DEF Queued
      <4>4. QED
        BY <1>2, <3>1, <4>2, <4>3 DEF Backed
    <3>4. QED
      BY <3>2, <3>3
  <2>3. QED
    BY <1>5, <2>1, <2>2 DEF Backed
<1>6. IndexedRoomHasMessage'
  <2>1. CASE write.kind = "index"
    <3>1. 1 \in Queued(u, Len(outbox[u]), "index")
      BY <1>1, <2>1, EmptySeq DEF Queued
    <3>2. \A room \in Range(write.rooms) : Backed(room, u, 1 - 1)
      BY <1>1, <3>1 DEF BInv, IndexBacked
    <3>3. \A room \in Range(write.rooms) :
            \E m \in chatRoom : created[m].roomId = room
      BY <3>2 DEF Backed, Queued
    <3>4. \A v \in User : conversation'[v] = write.rooms
                            \/ conversation'[v] = conversation[v]
      BY <1>2 DEF BInv, IInv, ServerInv
    <3>5. QED
      BY <1>2, <3>3, <3>4 DEF BInv, IndexedRoomHasMessage
  <2>2. CASE write.kind # "index"
    BY <1>2, <2>2 DEF BInv, IndexedRoomHasMessage
  <2>3. QED
    BY <2>1, <2>2
<1>7. ASSUME NEW v \in User, NEW i \in Queued(v, Len(outbox[v]), "index")',
             NEW room \in Range(outbox'[v][i].rooms)
      PROVE  Backed(room, v, i - 1)'
  <2>1. i \in 1 .. Len(outbox'[v]) /\ outbox'[v][i].kind = "index"
    BY DEF Queued
  <2>2. CASE v = u
    <3>1. outbox'[u][i] = outbox[u][i + 1]
      BY <1>3, <2>1, <2>2
    <3>2. i + 1 \in 1 .. Len(outbox[u]) /\ (i + 1) - 1 = i
      BY <1>1, <1>3, <2>1, <2>2
    <3>3. i + 1 \in Queued(u, Len(outbox[u]), "index")
      BY <2>1, <2>2, <3>1, <3>2 DEF Queued
    <3>4. Backed(room, u, (i + 1) - 1)
      BY <2>2, <3>1, <3>3 DEF BInv, IndexBacked
    <3>5. /\ i - 1 \in Nat /\ i - 1 < Len(outbox[u])
          /\ (i + 1) - 1 = (i - 1) + 1
      <4>1. i \in Nat /\ i >= 1 /\ i <= Len(outbox[u]) - 1
        BY <1>1, <1>3, <2>1, <2>2
      <4>2. QED
        BY <1>1, <4>1
    <3>6. QED
      BY <1>5, <2>2, <3>4, <3>5
  <2>3. CASE v # u
    <3>1. i \in Queued(v, Len(outbox[v]), "index") /\ outbox'[v] = outbox[v]
      BY <1>3, <2>1, <2>3 DEF Queued
    <3>2. Backed(room, v, i - 1)
      BY <3>1 DEF BInv, IndexBacked
    <3>3. i - 1 \in Nat /\ i - 1 <= Len(outbox[v])
      BY <3>1, OutboxLen DEF Queued, BInv
    <3>4. QED
      BY <1>4, <2>3, <3>2, <3>3
  <2>4. QED
    BY <2>2, <2>3
<1>8. ASSUME NEW s \in Screen,
             NEW room \in Range(senderConversationId'[s])
                            \cup Range(receiverConversationId'[s])
      PROVE  Backed(room, senderId[s], Len(outbox[senderId[s]]))'
  <2>1. Backed(room, senderId[s], Len(outbox[senderId[s]]))
    BY DEF screenVars, BInv, IndexBacked
  <2>2. senderId[s] \in User /\ Len(outbox[senderId[s]]) \in Nat
    BY ScreenRoom, OutboxLen DEF BInv
  <2>3. CASE senderId[s] = u
    <3>0. Len(outbox[u]) # 0
      BY <1>1, EmptySeq
    <3>1. /\ Len(outbox[u]) - 1 \in Nat
          /\ Len(outbox[u]) - 1 < Len(outbox[u])
          /\ (Len(outbox[u]) - 1) + 1 = Len(outbox[u])
      BY <1>1, <3>0
    <3>2. PICK n \in Nat : n = Len(outbox[u]) - 1
      BY <3>1
    <3>3. Backed(room, u, n + 1)
      BY <2>1, <2>3, <3>1, <3>2
    <3>4. Backed(room, u, n)'
      BY <1>5, <3>1, <3>2, <3>3
    <3>5. QED
      BY <1>3, <2>3, <3>2, <3>4
  <2>4. CASE senderId[s] # u
    <3>1. PICK n \in Nat : n = Len(outbox[senderId[s]])
      BY <2>2
    <3>2. Backed(room, senderId[s], n)'
      BY <1>4, <2>1, <2>2, <2>4, <3>1
    <3>3. QED
      BY <1>3, <2>2, <2>4, <3>1, <3>2
  <2>5. QED
    BY <2>3, <2>4
<1>9. \A s \in Screen : \A m \in upload'[s] : created'[m].roomId = chatRoomTitle(s)
  BY <1>2 DEF screenVars, BInv, IndexBacked
<1>10. IndexBacked'
  BY <1>7, <1>8, <1>9 DEF IndexBacked, chatRoomTitle
<1>11. QED
  BY <1>6, <1>10 DEF BInv

\* The saved writes of u stay, its screens forget their copies.
LEMMA KillBacked ==
  ASSUME BInv, IInv', NEW u \in User, Kill(u)
  PROVE  BInv'
<1>1. /\ created' = created /\ chatRoom' = chatRoom
      /\ conversation' = conversation
      /\ outbox' = [outbox EXCEPT ![u] = SubSeq(outbox[u], 1, saved[u])]
      /\ senderConversationId' = [s \in Screen |->
           IF senderId[s] = u THEN <<>> ELSE senderConversationId[s]]
      /\ receiverConversationId' = [s \in Screen |->
           IF senderId[s] = u THEN <<>> ELSE receiverConversationId[s]]
      /\ upload' = [s \in Screen |-> IF senderId[s] = u THEN {} ELSE upload[s]]
  BY DEF Kill, StopProcess
<1>2. /\ Len(outbox'[u]) = saved[u]
      /\ \A j \in 1 .. saved[u] : outbox'[u][j] = outbox[u][j]
      /\ \A v \in User \ {u} : outbox'[v] = outbox[v]
  <2>1. /\ outbox'[u] = SubSeq(outbox[u], 1, saved[u])
        /\ \A v \in User \ {u} : outbox'[v] = outbox[v]
    BY <1>1 DEF BInv, IInv, DeviceInv
  <2>2. /\ outbox[u] \in Seq(GoodWrite(Len(created)))
        /\ saved[u] \in Nat /\ saved[u] <= Len(outbox[u])
        /\ Len(outbox[u]) \in Nat
    BY OutboxLen DEF BInv
  <2>3. /\ Len(SubSeq(outbox[u], 1, saved[u])) = saved[u]
        /\ \A j \in 1 .. saved[u] : SubSeq(outbox[u], 1, saved[u])[j] = outbox[u][j]
    <3>1. \A j \in 1 .. saved[u] : outbox[u][j] \in GoodWrite(Len(created))
      BY <2>2, ElementOfSeq
    <3>2. QED
      BY <2>2, <3>1, SubSeqProperties
  <2>4. QED
    BY <2>1, <2>3
<1>3. ASSUME NEW v \in User, NEW n \in Nat, n <= Len(outbox'[v]), NEW room,
             Backed(room, v, n)
      PROVE  Backed(room, v, n)'
  <2>1. /\ n <= Len(outbox[v])
        /\ \A j \in 1 .. n : outbox'[v][j] = outbox[v][j]
    <3>1. CASE v = u
      <4>1. saved[u] \in Nat /\ saved[u] <= Len(outbox[u]) /\ Len(outbox[u]) \in Nat
        BY OutboxLen DEF BInv
      <4>2. QED
        BY <1>2, <1>3, <3>1, <4>1
    <3>2. CASE v # u
      BY <1>2, <1>3, <3>2
    <3>3. QED
      BY <3>1, <3>2
  <2>2. /\ chatRoom \subseteq chatRoom'
        /\ \A m \in 1 .. Len(created) : created'[m] = created[m]
    BY <1>1
  <2>3. QED
    BY <1>3, <2>1, <2>2, BackedStays DEF BInv
<1>4. IndexedRoomHasMessage'
  BY <1>1 DEF BInv, IndexedRoomHasMessage
<1>5. ASSUME NEW v \in User, NEW i \in Queued(v, Len(outbox[v]), "index")',
             NEW room \in Range(outbox'[v][i].rooms)
      PROVE  Backed(room, v, i - 1)'
  <2>1. i \in 1 .. Len(outbox'[v]) /\ outbox'[v][i].kind = "index"
    BY DEF Queued
  <2>2. i \in 1 .. Len(outbox[v]) /\ outbox'[v][i] = outbox[v][i]
    <3>1. CASE v = u
      <4>1. saved[u] \in Nat /\ saved[u] <= Len(outbox[u]) /\ Len(outbox[u]) \in Nat
        BY OutboxLen DEF BInv
      <4>2. QED
        BY <1>2, <2>1, <3>1, <4>1
    <3>2. CASE v # u
      BY <1>2, <2>1, <3>2
    <3>3. QED
      BY <3>1, <3>2
  <2>3. Backed(room, v, i - 1)
    <3>1. i \in Queued(v, Len(outbox[v]), "index")
      BY <2>1, <2>2 DEF Queued
    <3>2. QED
      BY <2>2, <3>1 DEF BInv, IndexBacked
  <2>4. i - 1 \in Nat /\ i - 1 <= Len(outbox'[v])
    <3>1. Len(outbox'[v]) \in Nat
      BY LenProperties DEF IInv, DeviceInv
    <3>2. QED
      BY <2>1, <3>1
  <2>5. QED
    BY <1>3, <2>3, <2>4
<1>6. ASSUME NEW s \in Screen,
             NEW room \in Range(senderConversationId'[s])
                            \cup Range(receiverConversationId'[s])
      PROVE  Backed(room, senderId[s], Len(outbox[senderId[s]]))'
  <2>1. senderId[s] # u
    BY <1>1 DEF Range
  <2>2. room \in Range(senderConversationId[s]) \cup Range(receiverConversationId[s])
    BY <1>1, <2>1
  <2>3. Backed(room, senderId[s], Len(outbox[senderId[s]]))
    BY <2>2 DEF BInv, IndexBacked
  <2>4. senderId[s] \in User /\ Len(outbox[senderId[s]]) \in Nat
    BY ScreenRoom, OutboxLen DEF BInv
  <2>5. outbox'[senderId[s]] = outbox[senderId[s]]
    BY <1>2, <2>1, <2>4
  <2>6. PICK n \in Nat : n = Len(outbox[senderId[s]])
    BY <2>4
  <2>7. n <= Len(outbox'[senderId[s]])
    BY <2>5, <2>6
  <2>8. QED
    BY <1>3, <2>3, <2>4, <2>5, <2>6, <2>7
<1>7. \A s \in Screen : \A m \in upload'[s] : created'[m].roomId = chatRoomTitle(s)
  BY <1>1 DEF BInv, IndexBacked
<1>8. IndexBacked'
  BY <1>5, <1>6, <1>7 DEF IndexBacked, chatRoomTitle
<1>9. QED
  BY <1>4, <1>8 DEF BInv

-----------------------------------------------------------------------------
(* The theorem.                                                            *)

LEMMA InitBacked == Init => BInv
<1> SUFFICES ASSUME Init PROVE BInv
  OBVIOUS
<1>1. Range(<<>>) = {} /\ Len(<<>>) = 0
  BY EmptySeq DEF Range
<1>2. IndexedRoomHasMessage
  BY <1>1 DEF Init, StoreInit, IndexedRoomHasMessage
<1>3. \A u \in User : Queued(u, Len(outbox[u]), "index") = {}
  <2>1. \A u \in User : Len(outbox[u]) = 0
    BY <1>1 DEF Init, StoreInit
  <2>2. QED
    BY <2>1 DEF Queued
<1>4. \A s \in Screen :
        Range(senderConversationId[s]) \cup Range(receiverConversationId[s]) = {}
  BY <1>1 DEF Init
<1>5. IndexBacked
  BY <1>3, <1>4 DEF Init, IndexBacked
<1>6. QED
  BY <1>2, <1>5, InitInv DEF BInv

LEMMA StepBacked == BInv /\ [Next]_vars => BInv'
<1> SUFFICES ASSUME BInv, [Next]_vars PROVE BInv'
  OBVIOUS
<1>1. IInv'
  BY StepInv DEF BInv
<1>2. ASSUME NEW s \in Screen, ScreenStep(s) PROVE BInv'
  <2>1. ASSUME UploadEnds(s) PROVE BInv'
    BY <1>1, <2>1, UploadSucceedsBacked, ScreenOnlyBacked DEF UploadEnds
  <2>2. ASSUME NEW i \in ListenerIndex, Snapshot(s, i) PROVE BInv'
    BY <1>1, <2>2, ConversationSnapshotBacked, MessageSnapshotBacked DEF Snapshot
  <2>3. QED
    BY <1>1, <1>2, <2>1, <2>2, ScreenOnlyBacked, SendTextBacked, SendMediaBacked
    DEF ScreenStep
<1>3. ASSUME NEW u \in User, Client(u) \/ Kill(u) \/ Launch(u) PROVE BInv'
  <2>1. CASE Persist(u) /\ UNCHANGED screenVars
    BY <1>1, <2>1, QuietClientBacked DEF Persist
  <2>2. CASE Commit(u) /\ UNCHANGED screenVars
    BY <1>1, <2>2, CommitBacked
  <2>3. CASE Launch(u)
    BY <1>1, <2>3, QuietClientBacked DEF Launch, StartProcess
  <2>4. QED
    BY <1>1, <1>3, <2>1, <2>2, <2>3, KillBacked DEF Client
<1>4. CASE UNCHANGED vars
  BY <1>1, <1>4, QuietClientBacked DEF vars, storeVars
<1>5. QED
  BY <1>2, <1>3, <1>4 DEF Next

\* The queues of the devices and the copies of the screens never get ahead of
\* the messages: every room they name is backed by a message queued earlier.
THEOREM CopiesAreBacked == Spec => []IndexBacked
<1>1. BInv => IndexBacked
  BY DEF BInv
<1>2. QED
  BY <1>1, InitBacked, StepBacked, PTL DEF Spec

\* A chat list that follows the backend's index never opens an empty room,
\* whatever devices crash or overwrite each other's index.
THEOREM IndexedRoomsHaveMessages == Spec => []IndexedRoomHasMessage
<1>1. BInv => IndexedRoomHasMessage
  BY DEF BInv
<1>2. QED
  BY <1>1, InitBacked, StepBacked, PTL DEF Spec

=============================================================================
