---------------------------- MODULE MessageProofs ----------------------------
(***************************************************************************)
(* Proofs about the messages of the chat rooms, for every set of users and *)
(* screens and every bound: who marks a message read, which messages the   *)
(* table is laid out for, that a message lives as in MessageLife, what the *)
(* conversation index may lose (ChatRoomAudit), and what the two messages  *)
(* of a transfer rest on (ARTransfer).                                     *)
(***************************************************************************)
EXTENDS ChatRoomProofs, ChatRoomAudit, ARTransfer

\* A screen of the room of m was opened on u's device.
OpenedBy(u, m) ==
  \E s \in Screen : /\ status[s] # "unopened"
                    /\ senderId[s] = u
                    /\ chatRoomTitle(s) = created[m].roomId

\* A write that u's device may queue: the mark of a message that is stored and
\* that u reads, or a message that somebody else reads.
Rightful(u, w) ==
  /\ w.kind = "read" => /\ w.id \in chatRoom
                        /\ created[w.id].readerID = u
                        /\ OpenedBy(u, w.id)
  /\ w.kind = "message" => created[w.id].readerID # u

MarksInv ==
  /\ \A m \in isRead : OpenedBy(created[m].readerID, m)
  /\ \A u \in User : \A i \in 1 .. Len(outbox[u]) : Rightful(u, outbox[u][i])
  /\ \A s \in Screen : \A m \in upload[s] : created[m].readerID # senderId[s]

RInv == IInv /\ MarksInv

-----------------------------------------------------------------------------
(* What the steps do to the queues.                                        *)

\* Every write of a queue that grows at its end was there or is new.
LEMMA Appended ==
  ASSUME IInv, NEW u \in User, NEW S, NEW ws \in Seq(S), Issue(u, ws),
         NEW v \in User, NEW j \in 1 .. Len(outbox'[v])
  PROVE  \/ \E i \in 1 .. Len(outbox[v]) : outbox'[v][j] = outbox[v][i]
         \/ v = u /\ \E k \in 1 .. Len(ws) : outbox'[v][j] = ws[k]
<1> DEFINE G == GoodWrite(Len(created)) \cup S
           a == outbox[u]
<1>1. /\ outbox \in [User -> Seq(GoodWrite(Len(created)))]
      /\ outbox' = [outbox EXCEPT ![u] = outbox[u] \o ws]
  BY DEF Issue, IInv, DeviceInv
<1>2. CASE v # u
  BY <1>1, <1>2
<1>3. CASE v = u
  <2>1. a \in Seq(G) /\ ws \in Seq(G)
    <3>1. Seq(GoodWrite(Len(created))) \subseteq Seq(G) /\ Seq(S) \subseteq Seq(G)
      BY SeqMonotonic
    <3>2. QED
      BY <1>1, <3>1
  <2>2. outbox'[v] = a \o ws
    BY <1>1, <1>3
  <2> HIDE DEF a, G
  <2>3. /\ Len(a \o ws) = Len(a) + Len(ws)
        /\ \A n \in 1 .. Len(a) : (a \o ws)[n] = a[n]
        /\ \A k \in 1 .. Len(ws) : (a \o ws)[Len(a) + k] = ws[k]
        /\ Len(a) \in Nat /\ Len(ws) \in Nat
    BY <2>1, ConcatParts, LenProperties
  <2>4. j \in 1 .. Len(a) + Len(ws)
    BY <2>2, <2>3
  <2>5. CASE j \in 1 .. Len(a)
    <3>1. outbox'[v][j] = a[j]
      BY <2>2, <2>3, <2>5
    <3>2. QED
      BY <1>3, <2>5, <3>1 DEF a
  <2>6. CASE j \notin 1 .. Len(a)
    <3>1. j - Len(a) \in 1 .. Len(ws) /\ j = Len(a) + (j - Len(a))
      BY <2>3, <2>4, <2>6
    <3>2. outbox'[v][j] = ws[j - Len(a)]
      BY <2>2, <2>3, <3>1
    <3>3. QED
      BY <1>3, <3>1, <3>2
  <2>7. QED
    BY <2>5, <2>6
<1>4. QED
  BY <1>2, <1>3

\* The backend takes the first write, the others move up by one.
LEMMA Removed ==
  ASSUME IInv, NEW u \in User, Commit(u)
  PROVE  /\ 1 \in 1 .. Len(outbox[u]) /\ Head(outbox[u]) = outbox[u][1]
         /\ Len(outbox'[u]) = Len(outbox[u]) - 1
         /\ \A j \in 1 .. Len(outbox'[u]) :
              j + 1 \in 1 .. Len(outbox[u]) /\ outbox'[u][j] = outbox[u][j + 1]
         /\ \A v \in User \ {u} : outbox'[v] = outbox[v]
<1>1. /\ outbox[u] \in Seq(GoodWrite(Len(created)))
      /\ outbox[u] # <<>> /\ Len(outbox[u]) \in Nat
      /\ Head(outbox[u]) = outbox[u][1]
  BY HeadGood DEF Commit, IInv
<1>2. /\ outbox' = [outbox EXCEPT ![u] = Tail(outbox[u])]
      /\ outbox \in [User -> Seq(GoodWrite(Len(created)))]
  BY DEF Commit, IInv, DeviceInv
<1>3. /\ Len(Tail(outbox[u])) = Len(outbox[u]) - 1
      /\ \A j \in 1 .. Len(Tail(outbox[u])) :
           Tail(outbox[u])[j] = outbox[u][j + 1]
  BY <1>1, HeadTailProperties
<1>4. Len(outbox[u]) > 0
  BY <1>1, EmptySeq
<1>5. QED
  BY <1>1, <1>2, <1>3, <1>4

\* The end of the process keeps the first writes.
LEMMA Cut ==
  ASSUME IInv, NEW u \in User, StopProcess(u), NEW v \in User
  PROVE  /\ Len(outbox'[v]) \in Nat /\ Len(outbox'[v]) <= Len(outbox[v])
         /\ \A j \in 1 .. Len(outbox'[v]) :
              j \in 1 .. Len(outbox[v]) /\ outbox'[v][j] = outbox[v][j]
<1>1. /\ outbox' = [outbox EXCEPT ![u] = SubSeq(outbox[u], 1, saved[u])]
      /\ outbox \in [User -> Seq(GoodWrite(Len(created)))]
      /\ saved[u] \in Nat /\ saved[u] <= Len(outbox[u])
  BY DEF StopProcess, IInv, DeviceInv
<1>2. Len(outbox[u]) \in Nat /\ Len(outbox[v]) \in Nat
  BY <1>1, LenProperties
<1>3. /\ Len(SubSeq(outbox[u], 1, saved[u])) = saved[u]
      /\ \A j \in 1 .. saved[u] : SubSeq(outbox[u], 1, saved[u])[j] = outbox[u][j]
  <2>1. \A j \in 1 .. saved[u] : outbox[u][j] \in GoodWrite(Len(created))
    BY <1>1, <1>2, ElementOfSeq
  <2>2. /\ Len(SubSeq(outbox[u], 1, saved[u]))
             = IF 1 <= saved[u] THEN saved[u] - 1 + 1 ELSE 0
        /\ \A j \in 1 .. saved[u] - 1 + 1 :
             SubSeq(outbox[u], 1, saved[u])[j] = outbox[u][1 + j - 1]
    BY <1>1, <1>2, <2>1, SubSeqProperties
  <2>3. QED
    BY <1>1, <2>2
<1>4. CASE v = u
  BY <1>1, <1>2, <1>3, <1>4
<1>5. CASE v # u
  BY <1>1, <1>2, <1>5
<1>6. QED
  BY <1>4, <1>5

-----------------------------------------------------------------------------
(* Who marks a message read.                                               *)

\* Nothing ends what makes a write rightful.
LEMMA StaysOpened ==
  ASSUME NEW m \in 1 .. Len(created), created'[m] = created[m],
         \A s \in Screen : status[s] # "unopened" => status'[s] # "unopened",
         NEW u \in User, OpenedBy(u, m)
  PROVE  OpenedBy(u, m)'
BY DEF OpenedBy

LEMMA StaysRightful ==
  ASSUME \A m \in 1 .. Len(created) : created'[m] = created[m],
         chatRoom \subseteq chatRoom',
         \A s \in Screen : status[s] # "unopened" => status'[s] # "unopened",
         NEW u \in User, NEW w \in GoodWrite(Len(created)), Rightful(u, w)
  PROVE  Rightful(u, w)'
<1>1. CASE w.kind = "index"
  BY <1>1 DEF Rightful
<1>2. CASE w.kind # "index"
  <2>1. w.id \in 1 .. Len(created)
    BY <1>2 DEF GoodWrite
  <2>2. created'[w.id] = created[w.id]
    BY <2>1
  <2>3. OpenedBy(u, w.id) => OpenedBy(u, w.id)'
    BY <2>1, <2>2, StaysOpened
  <2>4. QED
    BY <2>2, <2>3 DEF Rightful
<1>3. QED
  BY <1>1, <1>2

\* A step that adds no marks, writes or uploads but rightful ones.
LEMMA MarksStay ==
  ASSUME RInv,
         \A m \in 1 .. Len(created) : created'[m] = created[m],
         chatRoom \subseteq chatRoom',
         \A s \in Screen : status[s] # "unopened" => status'[s] # "unopened",
         \A m \in isRead' : m \in isRead \/ OpenedBy(created[m].readerID, m)',
         \A v \in User : \A j \in 1 .. Len(outbox'[v]) :
           \/ \E i \in 1 .. Len(outbox[v]) : outbox'[v][j] = outbox[v][i]
           \/ Rightful(v, outbox[v][j])',
         \A s \in Screen : \A m \in upload'[s] :
           m \in upload[s] \/ created'[m].readerID # senderId[s]
  PROVE  MarksInv'
<1>1. ASSUME NEW m \in isRead' PROVE OpenedBy(created[m].readerID, m)'
  <2>1. CASE m \in isRead
    <3>1. m \in 1 .. Len(created) /\ OpenedBy(created[m].readerID, m)
      BY <2>1 DEF RInv, IInv, ServerInv, MarksInv
    <3>2. created'[m] = created[m]
      BY <3>1
    <3>3. QED
      BY <3>1, <3>2 DEF OpenedBy
  <2>2. QED
    BY <1>1, <2>1
<1>2. ASSUME NEW v \in User, NEW j \in 1 .. Len(outbox'[v])
      PROVE  Rightful(v, outbox[v][j])'
  <2>1. CASE \E i \in 1 .. Len(outbox[v]) : outbox'[v][j] = outbox[v][i]
    <3>1. PICK i \in 1 .. Len(outbox[v]) : outbox'[v][j] = outbox[v][i]
      BY <2>1
    <3>2. /\ outbox[v][i] \in GoodWrite(Len(created))
          /\ Rightful(v, outbox[v][i])
      BY ElementOfSeq DEF RInv, IInv, DeviceInv, MarksInv
    <3>3. \A w \in GoodWrite(Len(created)) : Rightful(v, w) => Rightful(v, w)'
      BY StaysRightful
    <3>4. PICK w \in GoodWrite(Len(created)) : w = outbox[v][i]
      BY <3>2
    <3>5. Rightful(v, w)'
      BY <3>2, <3>3, <3>4
    <3>6. QED
      BY <3>1, <3>4, <3>5 DEF Rightful, OpenedBy
  <2>2. QED
    BY <2>1, <1>2
<1>3. ASSUME NEW s \in Screen, NEW m \in upload'[s]
      PROVE  created'[m].readerID # senderId[s]
  <2>1. CASE m \in upload[s]
    <3>1. m \in 1 .. Len(created)
      BY <2>1, LenProperties DEF RInv, IInv, ServerInv, ViewInv, ChatId
    <3>2. QED
      BY <2>1, <3>1 DEF RInv, MarksInv
  <2>2. QED
    BY <1>3, <2>1
<1>4. QED
  BY <1>1, <1>2, <1>3 DEF MarksInv

-----------------------------------------------------------------------------
(* Each action.                                                            *)

\* New messages leave the others alone.
LEMMA CreatedGrows ==
  ASSUME IInv, NEW s \in Screen, NEW type \in {"TEXT", "MEDIA", "CRYPTO"},
         NewMessage(senderId[s], recieverId[s], type)
  PROVE  /\ \A m \in 1 .. Len(created) : created'[m] = created[m]
         /\ NewId \in 1 .. Len(created')
         /\ created'[NewId].readerID # senderId[s]
<1> DEFINE msg == [roomId |-> RoomTitle(senderId[s], recieverId[s]),
                   composerId |-> senderId[s], readerID |-> recieverId[s],
                   type |-> type]
<1>1. senderId[s] \in User /\ recieverId[s] \in User /\ senderId[s] # recieverId[s]
  BY ScreenAssumption
<1>2. msg \in Message
  BY <1>1, RoomTitleType DEF Message
<1>3. created' = Append(created, msg) /\ created \in Seq(Message)
  BY DEF NewMessage, IInv, ServerInv
<1>4. msg.readerID = recieverId[s]
  OBVIOUS
<1> HIDE DEF msg
<1>5. /\ Len(Append(created, msg)) = Len(created) + 1
      /\ \A m \in 1 .. Len(created) : Append(created, msg)[m] = created[m]
      /\ Append(created, msg)[Len(created) + 1] = msg
      /\ Len(created) \in Nat
  BY <1>2, <1>3, AppendProperties, LenProperties
<1>6. QED
  BY <1>1, <1>3, <1>4, <1>5 DEF NewId

\* What a device writes when it sends m is rightful if somebody else reads m.
LEMMA StoreRightful ==
  ASSUME IInv, IInv', NEW s \in Screen, NEW m \in 1 .. Len(created'),
         StoreMessage(s, m), created'[m].readerID # senderId[s],
         NEW v \in User, NEW j \in 1 .. Len(outbox'[v])
  PROVE  \/ \E i \in 1 .. Len(outbox[v]) : outbox'[v][j] = outbox[v][i]
         \/ Rightful(v, outbox[v][j])'
<1> DEFINE n == Len(created')
           ws == <<SetMessage(m)>> \o IndexWrites(s)
           I == IndexWrites(s)
<1>1. I \in Seq(GoodWrite(n)) /\ n \in Nat
  BY IndexWritesGood, LenProperties DEF IInv, CopiesInv, ServerInv
<1>2. \A k \in 1 .. Len(I) : I[k].kind = "index"
  BY IndexWritesAre DEF IInv, CopiesInv
<1>3. <<SetMessage(m)>> \in Seq(GoodWrite(n)) /\ Len(<<SetMessage(m)>>) = 1
      /\ <<SetMessage(m)>>[1] = SetMessage(m)
  BY <1>1, MessageWriteGood
<1>4. /\ ws \in Seq(GoodWrite(n)) /\ Len(ws) = 1 + Len(I) /\ Len(I) \in Nat
      /\ ws[1] = SetMessage(m)
      /\ \A k \in 1 .. Len(I) : ws[1 + k] = I[k]
  BY <1>1, <1>3, ConcatProperties, ConcatParts, LenProperties
<1> HIDE DEF I
<1>5. Issue(senderId[s], ws) /\ senderId[s] \in User
  BY ScreenRoom DEF StoreMessage
<1> HIDE DEF ws, n
<1>6. \/ \E i \in 1 .. Len(outbox[v]) : outbox'[v][j] = outbox[v][i]
      \/ v = senderId[s] /\ \E k \in 1 .. Len(ws) : outbox'[v][j] = ws[k]
  BY <1>4, <1>5, Appended
<1>7. ASSUME NEW k \in 1 .. Len(ws), outbox'[v][j] = ws[k], v = senderId[s]
      PROVE  Rightful(v, outbox[v][j])'
  <2>1. CASE k = 1
    <3>1. /\ outbox'[v][j].kind = "message" /\ outbox'[v][j].id = m
      BY <1>4, <1>7, <2>1 DEF SetMessage
    <3>2. QED
      BY <1>7, <3>1 DEF Rightful
  <2>2. CASE k # 1
    <3>1. k - 1 \in 1 .. Len(I) /\ k = 1 + (k - 1)
      BY <1>4, <2>2
    <3>2. outbox'[v][j].kind = "index"
      BY <1>2, <1>4, <1>7, <3>1
    <3>3. QED
      BY <3>2 DEF Rightful
  <2>3. QED
    BY <2>1, <2>2
<1>8. QED
  BY <1>6, <1>7

\* An upload that ends well, a text, and a picture that begins its upload.
LEMMA SendTextMarks ==
  ASSUME RInv, IInv', NEW s \in Screen, SendText(s)
  PROVE  MarksInv'
<1>1. /\ NewMessage(senderId[s], recieverId[s], "TEXT")
      /\ StoreMessage(s, NewId)
      /\ UNCHANGED <<chatRoom, isRead, status, upload>>
  BY DEF SendText
<1>2. /\ \A m \in 1 .. Len(created) : created'[m] = created[m]
      /\ NewId \in 1 .. Len(created')
      /\ created'[NewId].readerID # senderId[s]
  BY <1>1, CreatedGrows DEF RInv
<1>3. \A v \in User : \A j \in 1 .. Len(outbox'[v]) :
        \/ \E i \in 1 .. Len(outbox[v]) : outbox'[v][j] = outbox[v][i]
        \/ Rightful(v, outbox[v][j])'
  BY <1>1, <1>2, StoreRightful DEF RInv
<1>4. QED
  BY <1>1, <1>2, <1>3, MarksStay

LEMMA SendMediaMarks ==
  ASSUME RInv, NEW s \in Screen, SendMedia(s)
  PROVE  MarksInv'
<1>1. /\ NewMessage(senderId[s], recieverId[s], "MEDIA")
      /\ upload' = [upload EXCEPT ![s] = upload[s] \cup {NewId}]
      /\ UNCHANGED <<chatRoom, isRead, status, outbox>>
  BY DEF SendMedia
<1>2. /\ \A m \in 1 .. Len(created) : created'[m] = created[m]
      /\ created'[NewId].readerID # senderId[s]
  BY <1>1, CreatedGrows DEF RInv
<1>3. \A t \in Screen : \A m \in upload'[t] :
        m \in upload[t] \/ created'[m].readerID # senderId[t]
  BY <1>1, <1>2 DEF RInv, IInv, ViewInv
<1>4. QED
  BY <1>1, <1>2, <1>3, MarksStay

LEMMA UploadSucceedsMarks ==
  ASSUME RInv, IInv', NEW s \in Screen, NEW m \in upload[s],
         UploadSucceeds(s, m)
  PROVE  MarksInv'
<1>1. /\ StoreMessage(s, m)
      /\ upload' = [upload EXCEPT ![s] = upload[s] \ {m}]
      /\ UNCHANGED <<created, chatRoom, isRead, status>>
  BY DEF UploadSucceeds
<1>2. m \in 1 .. Len(created') /\ created'[m].readerID # senderId[s]
  BY <1>1, LenProperties DEF RInv, IInv, ServerInv, ViewInv, ChatId, MarksInv
<1>3. \A v \in User : \A j \in 1 .. Len(outbox'[v]) :
        \/ \E i \in 1 .. Len(outbox[v]) : outbox'[v][j] = outbox[v][i]
        \/ Rightful(v, outbox[v][j])'
  BY <1>1, <1>2, StoreRightful DEF RInv
<1>4. \A t \in Screen : upload'[t] \subseteq upload[t]
  BY <1>1 DEF RInv, IInv, ViewInv
<1>5. QED
  BY <1>1, <1>3, <1>4, MarksStay

\* Steps of a screen that send nothing.
LEMMA SilentMarks ==
  ASSUME RInv, NEW s \in Screen,
         \/ ViewWillAppear(s) \/ PickImage(s) \/ BackAction(s)
         \/ \E m \in upload[s] : UploadFails(s, m)
         \/ \E i \in ListenerIndex : ConversationSnapshot(s, i)
  PROVE  MarksInv'
<1>1. UNCHANGED <<created, chatRoom, isRead, outbox>>
  BY DEF ViewWillAppear, PickImage, BackAction, UploadFails,
         ConversationSnapshot, storeVars
<1>2. \A t \in Screen : status[t] # "unopened" => status'[t] # "unopened"
  BY DEF ViewWillAppear, PickImage, BackAction, UploadFails,
         ConversationSnapshot, RInv, IInv, ViewInv
<1>3. \A t \in Screen : upload'[t] \subseteq upload[t]
  BY DEF ViewWillAppear, PickImage, BackAction, UploadFails,
         ConversationSnapshot, RInv, IInv, ViewInv
<1>4. QED
  BY <1>1, <1>2, <1>3, MarksStay

\* Whose message a snapshot shows to its reader: one the backend has.
LEMMA SeenIsStored ==
  ASSUME RInv, NEW s \in Screen, NEW on \in {"room", "untitled"},
         NEW entries \in CurrentSnapshot(s, on), NEW m \in Receipts(s, entries)
  PROVE  /\ m \in chatRoom /\ created[m].readerID = senderId[s]
         /\ created[m].roomId = chatRoomTitle(s)
<1> DEFINE u == senderId[s]
<1>1. m \in Ids(entries) /\ created[m].readerID = u
  BY DEF Receipts
<1>2. entries = {} \/ entries = LocalRoom(u, chatRoomTitle(s))
  BY DEF CurrentSnapshot
<1>3. /\ m \in chatRoom \cup Overlay(u, "message")
      /\ created[m].roomId = chatRoomTitle(s)
  BY <1>1, <1>2 DEF Ids, LocalRoom
<1>4. m \notin Overlay(u, "message")
  <2>1. SUFFICES ASSUME NEW i \in Queued(u, saved[u], "message"),
                        outbox[u][i].id = m
                 PROVE  FALSE
    BY DEF Overlay
  <2>2. u \in User
    BY ScreenRoom
  <2>3. i \in 1 .. Len(outbox[u]) /\ outbox[u][i].kind = "message"
    BY <2>2, LenProperties DEF Queued, RInv, IInv, DeviceInv
  <2>4. Rightful(u, outbox[u][i])
    BY <2>2, <2>3 DEF RInv, MarksInv
  <2>5. QED
    BY <1>1, <2>1, <2>3, <2>4 DEF Rightful
<1>5. QED
  BY <1>1, <1>3, <1>4

LEMMA MessageSnapshotMarks ==
  ASSUME RInv, NEW s \in Screen, NEW i \in ListenerIndex, MessageSnapshot(s, i)
  PROVE  MarksInv'
<1> DEFINE on == listener[s][i].on
<1>1. /\ Alive(s) /\ on \in {"room", "untitled"}
      /\ UNCHANGED <<created, chatRoom, isRead, status, upload>>
  BY DEF MessageSnapshot
<1>2. PICK entries \in CurrentSnapshot(s, on) :
        \E order \in SetToSeqs(Receipts(s, entries)) :
          Issue(senderId[s], [n \in DOMAIN order |-> UpdateRead(order[n])])
  BY DEF MessageSnapshot
<1>3. PICK order \in SetToSeqs(Receipts(s, entries)) :
        Issue(senderId[s], [n \in DOMAIN order |-> UpdateRead(order[n])])
  BY <1>2
<1> DEFINE ws == [n \in DOMAIN order |-> UpdateRead(order[n])]
<1>4. ws \in Seq(GoodWrite(Len(created)))
  BY <1>1, <1>2, ReceiptWrites DEF RInv
<1>5. \A n \in DOMAIN order : order[n] \in Receipts(s, entries)
  BY DEF SetToSeqs
<1>6. \A k \in 1 .. Len(ws) : \E m \in Receipts(s, entries) : ws[k] = UpdateRead(m)
  <2>1. DOMAIN ws = DOMAIN order /\ DOMAIN ws = 1 .. Len(ws)
    BY <1>4, LenProperties
  <2>2. QED
    BY <1>5, <2>1
<1>7. Issue(senderId[s], ws) /\ senderId[s] \in User
  BY <1>3, ScreenRoom
<1> HIDE DEF ws
<1>8. ASSUME NEW v \in User, NEW j \in 1 .. Len(outbox'[v])
      PROVE  \/ \E n \in 1 .. Len(outbox[v]) : outbox'[v][j] = outbox[v][n]
             \/ Rightful(v, outbox[v][j])'
  <2>1. \/ \E n \in 1 .. Len(outbox[v]) : outbox'[v][j] = outbox[v][n]
        \/ v = senderId[s] /\ \E k \in 1 .. Len(ws) : outbox'[v][j] = ws[k]
    BY <1>4, <1>7, Appended DEF RInv
  <2>2. ASSUME v = senderId[s], NEW k \in 1 .. Len(ws), outbox'[v][j] = ws[k]
        PROVE  Rightful(v, outbox[v][j])'
    <3>1. PICK m \in Receipts(s, entries) : ws[k] = UpdateRead(m)
      BY <1>6
    <3>2. /\ m \in chatRoom /\ created[m].readerID = senderId[s]
          /\ created[m].roomId = chatRoomTitle(s)
      BY <1>1, <1>2, SeenIsStored
    <3>3. /\ outbox'[v][j].kind = "read" /\ outbox'[v][j].id = m
      BY <2>2, <3>1 DEF UpdateRead
    <3>4. status[s] # "unopened"
      BY <1>1 DEF Alive
    <3>5. QED
      BY <1>1, <2>2, <3>2, <3>3, <3>4 DEF Rightful, OpenedBy
  <2>3. QED
    BY <2>1, <2>2
<1>9. QED
  BY <1>1, <1>8, MarksStay

LEMMA CommitMarks ==
  ASSUME RInv, NEW u \in User, Commit(u), UNCHANGED screenVars
  PROVE  MarksInv'
<1> DEFINE write == Head(outbox[u])
<1>1. /\ 1 \in 1 .. Len(outbox[u]) /\ write = outbox[u][1]
      /\ \A j \in 1 .. Len(outbox'[u]) :
           j + 1 \in 1 .. Len(outbox[u]) /\ outbox'[u][j] = outbox[u][j + 1]
      /\ \A v \in User \ {u} : outbox'[v] = outbox[v]
  BY Removed DEF RInv
<1>2. UNCHANGED <<created, status, upload>> /\ chatRoom \subseteq chatRoom'
  BY DEF Commit, screenVars
<1>3. ASSUME NEW m \in isRead', m \notin isRead
      PROVE  OpenedBy(created[m].readerID, m)'
  <2>1. write.kind = "read" /\ m = write.id
    BY <1>3 DEF Commit
  <2>2. Rightful(u, write)
    BY <1>1 DEF RInv, MarksInv
  <2>3. created[m].readerID = u /\ OpenedBy(u, m)
    BY <2>1, <2>2 DEF Rightful
  <2>4. QED
    BY <1>2, <2>3 DEF OpenedBy
<1>4. \A v \in User : \A j \in 1 .. Len(outbox'[v]) :
        \E i \in 1 .. Len(outbox[v]) : outbox'[v][j] = outbox[v][i]
  <2>1. SUFFICES ASSUME NEW v \in User, NEW j \in 1 .. Len(outbox'[v])
                 PROVE  \E i \in 1 .. Len(outbox[v]) : outbox'[v][j] = outbox[v][i]
    OBVIOUS
  <2>2. CASE v = u
    BY <1>1, <2>2
  <2>3. CASE v # u
    BY <1>1, <2>3
  <2>4. QED
    BY <2>2, <2>3
<1>5. QED
  BY <1>2, <1>3, <1>4, MarksStay

LEMMA KillMarks ==
  ASSUME RInv, NEW u \in User, Kill(u)
  PROVE  MarksInv'
<1>1. StopProcess(u) /\ UNCHANGED <<created, chatRoom, isRead>>
  BY DEF Kill, StopProcess
<1>2. \A t \in Screen : /\ status[t] # "unopened" => status'[t] # "unopened"
                        /\ upload'[t] \subseteq upload[t]
  BY DEF Kill
<1>3. \A v \in User : \A j \in 1 .. Len(outbox'[v]) :
        \E i \in 1 .. Len(outbox[v]) : outbox'[v][j] = outbox[v][i]
  BY <1>1, Cut DEF RInv
<1>4. QED
  BY <1>1, <1>2, <1>3, MarksStay

LEMMA InitMarks == Init => RInv
<1> SUFFICES ASSUME Init PROVE RInv
  OBVIOUS
<1>1. \A u \in User : Len(outbox[u]) = 0
  BY DEF Init, StoreInit
<1>2. QED
  BY <1>1, InitInv DEF Init, StoreInit, RInv, MarksInv

LEMMA StepMarks == RInv /\ [Next]_vars => RInv'
<1> SUFFICES ASSUME RInv, [Next]_vars PROVE RInv'
  OBVIOUS
<1>1. IInv'
  BY StepInv DEF RInv
<1>2. ASSUME NEW s \in Screen, ScreenStep(s) PROVE MarksInv'
  <2>1. ASSUME UploadEnds(s) PROVE MarksInv'
    BY <1>1, <2>1, UploadSucceedsMarks, SilentMarks DEF UploadEnds
  <2>2. ASSUME NEW i \in ListenerIndex, Snapshot(s, i) PROVE MarksInv'
    BY <2>2, SilentMarks, MessageSnapshotMarks DEF Snapshot
  <2>3. QED
    BY <1>1, <1>2, <2>1, <2>2, SendTextMarks, SendMediaMarks, SilentMarks
    DEF ScreenStep
<1>3. CASE \/ UNCHANGED vars
           \/ \E u \in User : \/ Persist(u) /\ UNCHANGED screenVars
                              \/ Launch(u)
  <2>1. UNCHANGED <<created, chatRoom, isRead, outbox, status, upload>>
    BY <1>3 DEF vars, storeVars, screenVars, Persist, Launch, StartProcess
  <2>2. MarksInv'
    BY <2>1, MarksStay
  <2>3. QED
    BY <1>1, <2>2 DEF RInv
<1>4. ASSUME NEW u \in User, Commit(u), UNCHANGED screenVars PROVE MarksInv'
  BY <1>4, CommitMarks
<1>5. ASSUME NEW u \in User, Kill(u) PROVE MarksInv'
  BY <1>5, KillMarks
<1>6. QED
  BY <1>1, <1>2, <1>3, <1>4, <1>5 DEF Next, Client, RInv

\* A message is marked, or queued to be marked, by its reader only, on a device
\* where its room was opened, and after the backend has it: makeRead, run by
\* the listeners of all screens, those that were left included.
THEOREM ReceiptsAreTheReaders == Spec => []ReceiptsByReader
<1>1. RInv => ReceiptsByReader
  <2>1. SUFFICES ASSUME RInv PROVE ReceiptsByReader
    OBVIOUS
  <2>2. ASSUME NEW u \in User, NEW i \in Queued(u, Len(outbox[u]), "read")
        PROVE  /\ outbox[u][i].id \in chatRoom
               /\ created[outbox[u][i].id].readerID = u
               /\ OpenedBy(u, outbox[u][i].id)
    BY <2>1, <2>2 DEF Queued, RInv, MarksInv, Rightful
  <2>3. \A m \in isRead : OpenedBy(created[m].readerID, m)
    BY <2>1 DEF RInv, MarksInv
  <2>4. QED
    BY <2>2, <2>3 DEF ReceiptsByReader, OpenedBy
<1>2. QED
  BY <1>1, InitMarks, StepMarks, PTL DEF Spec

-----------------------------------------------------------------------------
(* What the table is laid out for.                                         *)

\* The messages of the room of s that its device knows.
Visible(s) ==
  {m \in chatRoom \cup Overlay(senderId[s], "message") :
     created[m].roomId = chatRoomTitle(s)}

\* The listener on the room "" has been raised.
Emptied(s) == \E i \in DOMAIN listener[s] : /\ listener[s][i].on = "untitled"
                                            /\ listener[s][i].last # NoSnapshot

TableInv ==
  \A s \in Screen :
    /\ rows[s] \subseteq Visible(s) /\ allMessage[s] \subseteq Visible(s)
    /\ rows[s] \subseteq allMessage[s] \/ (allMessage[s] = {} /\ Emptied(s))

\* What a device knows it goes on knowing, until its process ends.
LEMMA StaysVisible ==
  ASSUME IInv, NEW s \in Screen,
         \A m \in 1 .. Len(created) : created'[m] = created[m],
         chatRoom \subseteq chatRoom',
         \A m \in Overlay(senderId[s], "message") :
           m \in chatRoom' \cup Overlay(senderId[s], "message")'
  PROVE  Visible(s) \subseteq Visible(s)'
<1> DEFINE u == senderId[s]
<1>1. u \in User /\ Len(outbox[u]) \in Nat /\ saved[u] \in Nat
      /\ saved[u] <= Len(outbox[u])
  BY ScreenRoom, LenProperties DEF IInv, DeviceInv
<1>2. \A m \in Overlay(u, "message") : m \in 1 .. Len(created)
  BY <1>1, QueuedMessage DEF Overlay
<1>3. \A m \in chatRoom : m \in 1 .. Len(created)
  BY DEF IInv, ServerInv
<1>4. QED
  BY <1>2, <1>3 DEF Visible

\* That is so when no queue loses a saved write.
LEMMA SavedStays ==
  ASSUME IInv, \A m \in 1 .. Len(created) : created'[m] = created[m],
         chatRoom \subseteq chatRoom', NEW s \in Screen,
         saved[senderId[s]] <= saved'[senderId[s]],
         saved'[senderId[s]] \in Nat,
         \A j \in 1 .. Len(outbox[senderId[s]]) :
           outbox'[senderId[s]][j] = outbox[senderId[s]][j]
  PROVE  Visible(s) \subseteq Visible(s)'
<1> DEFINE u == senderId[s]
<1>1. u \in User /\ Len(outbox[u]) \in Nat /\ saved[u] \in Nat
      /\ saved[u] <= Len(outbox[u])
  BY ScreenRoom, LenProperties DEF IInv, DeviceInv
<1>2. ASSUME NEW m \in Overlay(u, "message")
      PROVE  m \in Overlay(u, "message")'
  <2>1. PICK j \in 1 .. saved[u] : /\ outbox[u][j].kind = "message"
                                   /\ outbox[u][j].id = m
    BY DEF Overlay, Queued
  <2>2. j \in 1 .. saved'[u] /\ outbox'[u][j] = outbox[u][j]
    BY <1>1, <2>1
  <2>3. QED
    BY <2>1, <2>2 DEF Overlay, Queued
<1>3. QED
  BY <1>2, StaysVisible

LEMMA IssueVisible ==
  ASSUME IInv, \A m \in 1 .. Len(created) : created'[m] = created[m],
         UNCHANGED <<chatRoom, saved>>, NEW u \in User, NEW S,
         NEW ws \in Seq(S), Issue(u, ws), NEW s \in Screen
  PROVE  Visible(s) \subseteq Visible(s)'
<1> DEFINE G == GoodWrite(Len(created)) \cup S
           a == outbox[u]
           v == senderId[s]
<1>1. /\ outbox \in [User -> Seq(GoodWrite(Len(created)))]
      /\ outbox' = [outbox EXCEPT ![u] = outbox[u] \o ws]
      /\ v \in User /\ saved[v] \in Nat
  BY ScreenRoom DEF Issue, IInv, DeviceInv
<1>2. a \in Seq(G) /\ ws \in Seq(G)
  <2>1. Seq(GoodWrite(Len(created))) \subseteq Seq(G) /\ Seq(S) \subseteq Seq(G)
    BY SeqMonotonic
  <2>2. QED
    BY <1>1, <2>1
<1>3. \A j \in 1 .. Len(a) : (a \o ws)[j] = a[j]
  <2> HIDE DEF a, G
  <2>1. QED
    BY <1>2, ConcatParts
<1>4. \A j \in 1 .. Len(outbox[v]) : outbox'[v][j] = outbox[v][j]
  BY <1>1, <1>3
<1>5. saved[v] <= saved'[v] /\ saved'[v] \in Nat /\ chatRoom \subseteq chatRoom'
  BY <1>1
<1>6. QED
  BY <1>4, <1>5, SavedStays

LEMMA StoreVisible ==
  ASSUME IInv, IInv', \A m \in 1 .. Len(created) : created'[m] = created[m],
         UNCHANGED <<chatRoom, saved>>, NEW s \in Screen,
         NEW m \in 1 .. Len(created'), StoreMessage(s, m), NEW t \in Screen
  PROVE  Visible(t) \subseteq Visible(t)'
<1> DEFINE n == Len(created')
           ws == <<SetMessage(m)>> \o IndexWrites(s)
<1>1. IndexWrites(s) \in Seq(GoodWrite(n)) /\ n \in Nat
  BY IndexWritesGood, LenProperties DEF IInv, CopiesInv, ServerInv
<1>2. <<SetMessage(m)>> \in Seq(GoodWrite(n))
  BY <1>1, MessageWriteGood
<1>3. ws \in Seq(GoodWrite(n))
  BY <1>1, <1>2, ConcatProperties
<1>4. Issue(senderId[s], ws) /\ senderId[s] \in User
  BY ScreenRoom DEF StoreMessage
<1> HIDE DEF ws, n
<1>5. QED
  BY <1>3, <1>4, IssueVisible

LEMMA CommitVisible ==
  ASSUME IInv, NEW u \in User, Commit(u), NEW s \in Screen
  PROVE  Visible(s) \subseteq Visible(s)'
<1> DEFINE v == senderId[s]
<1>1. /\ 1 \in 1 .. Len(outbox[u]) /\ Head(outbox[u]) = outbox[u][1]
      /\ Len(outbox'[u]) = Len(outbox[u]) - 1
      /\ \A j \in 1 .. Len(outbox'[u]) :
           j + 1 \in 1 .. Len(outbox[u]) /\ outbox'[u][j] = outbox[u][j + 1]
      /\ \A w \in User \ {u} : outbox'[w] = outbox[w]
  BY Removed
<1>2. /\ created' = created /\ chatRoom \subseteq chatRoom'
      /\ saved' = [saved EXCEPT ![u] = saved[u] - 1]
      /\ saved \in [User -> Nat] /\ saved[u] > 0
      /\ saved[u] <= Len(outbox[u]) /\ Len(outbox[u]) \in Nat
  BY LenProperties DEF Commit, IInv, DeviceInv
<1>3. v \in User
  BY ScreenRoom
<1>4. ASSUME NEW m \in Overlay(v, "message")
      PROVE  m \in chatRoom' \cup Overlay(v, "message")'
  <2>1. PICK j \in 1 .. saved[v] : /\ outbox[v][j].kind = "message"
                                   /\ outbox[v][j].id = m
    BY DEF Overlay, Queued
  <2>2. CASE v # u
    <3>1. saved'[v] = saved[v] /\ outbox'[v] = outbox[v]
      BY <1>1, <1>2, <1>3, <2>2
    <3>2. QED
      BY <2>1, <3>1 DEF Overlay, Queued
  <2>3. CASE v = u /\ j = 1
    BY <1>1, <2>1, <2>3 DEF Commit
  <2>4. CASE v = u /\ j # 1
    <3>1. /\ j - 1 \in 1 .. saved'[v] /\ j - 1 \in 1 .. Len(outbox'[u])
          /\ j = (j - 1) + 1
      BY <1>1, <1>2, <2>1, <2>4
    <3>2. outbox'[v][j - 1] = outbox[v][j]
      BY <1>1, <2>4, <3>1
    <3>3. QED
      BY <2>1, <3>1, <3>2 DEF Overlay, Queued
  <2>5. QED
    BY <2>2, <2>3, <2>4
<1>5. QED
  BY <1>2, <1>4, StaysVisible

\* A step that leaves the rows and the data sources alone.
LEMMA TableStays ==
  ASSUME TableInv, UNCHANGED <<rows, allMessage>>,
         \A s \in Screen : Visible(s) \subseteq Visible(s)',
         \A s \in Screen : Emptied(s) => Emptied(s)'
  PROVE  TableInv'
BY DEF TableInv

LEMMA SameListeners ==
  ASSUME UNCHANGED listener, NEW s \in Screen
  PROVE  Emptied(s)' = Emptied(s)
BY DEF Emptied

\* Listeners are only added.
LEMMA ViewWillAppearTable ==
  ASSUME IInv, TableInv, NEW s \in Screen, ViewWillAppear(s)
  PROVE  TableInv'
<1> DEFINE first == IF status[s] = "unopened" THEN "untitled" ELSE "room"
           more == <<Listener(first), Listener("sender"),
                     Listener("receiver"), Listener("room")>>
           a == listener[s]
<1>1. /\ UNCHANGED <<storeVars, rows, allMessage>>
      /\ listener' = [listener EXCEPT ![s] = a \o more]
  BY DEF ViewWillAppear
<1>2. \A t \in Screen : Visible(t)' = Visible(t)
  BY <1>1 DEF Visible, Overlay, Queued, storeVars
<1>3. /\ listener \in [Screen -> Seq(DocumentListener \cup QueryListener)]
      /\ Len(a) \in Nat /\ DOMAIN a = 1 .. Len(a)
  BY LenProperties DEF IInv, ViewInv
<1>4. /\ \A i \in 1 .. Len(a) : (a \o more)[i] = a[i]
      /\ \A i \in 1 .. Len(a) : i \in DOMAIN (a \o more)
  <2>1. more \in Seq({Listener(first), Listener("sender"),
                      Listener("receiver"), Listener("room")})
    OBVIOUS
  <2> DEFINE G == DocumentListener \cup QueryListener
                    \cup {Listener(first), Listener("sender"),
                          Listener("receiver"), Listener("room")}
  <2>2. a \in Seq(G) /\ more \in Seq(G)
    BY <1>3, <2>1, SeqMonotonic
  <2> HIDE DEF a, more, G
  <2>3. /\ Len(a \o more) = Len(a) + Len(more) /\ Len(more) \in Nat
        /\ a \o more \in Seq(G)
        /\ \A i \in 1 .. Len(a) : (a \o more)[i] = a[i]
    BY <2>2, ConcatParts, ConcatProperties, LenProperties
  <2>4. QED
    BY <1>3, <2>3, LenProperties
<1>5. ASSUME NEW t \in Screen, Emptied(t) PROVE Emptied(t)'
  <2>1. CASE t = s
    <3>1. PICK i \in 1 .. Len(a) : /\ a[i].on = "untitled"
                                   /\ a[i].last # NoSnapshot
      BY <1>3, <1>5, <2>1 DEF Emptied
    <3>2. listener'[t] = a \o more
      BY <1>1, <1>3, <2>1
    <3> HIDE DEF a, more
    <3>3. QED
      BY <1>4, <3>1, <3>2 DEF Emptied
  <2>2. CASE t # s
    BY <1>1, <1>5, <2>2 DEF Emptied
  <2>3. QED
    BY <2>1, <2>2
<1>6. QED
  BY <1>1, <1>2, <1>5, TableStays

LEMMA SendTextTable ==
  ASSUME IInv, IInv', TableInv, NEW s \in Screen, SendText(s)
  PROVE  TableInv'
<1>1. /\ NewMessage(senderId[s], recieverId[s], "TEXT")
      /\ StoreMessage(s, NewId)
      /\ allMessage' = [allMessage EXCEPT ![s] = {}]
      /\ rows' = [rows EXCEPT ![s] = {}]
      /\ UNCHANGED <<chatRoom, saved, listener>>
  BY DEF SendText
<1>2. /\ \A m \in 1 .. Len(created) : created'[m] = created[m]
      /\ NewId \in 1 .. Len(created')
  BY <1>1, CreatedGrows
<1>3. \A t \in Screen : Visible(t) \subseteq Visible(t)'
  BY <1>1, <1>2, StoreVisible
<1>4. QED
  BY <1>1, <1>3, SameListeners DEF TableInv, IInv, ViewInv

LEMMA SendMediaTable ==
  ASSUME IInv, TableInv, NEW s \in Screen, SendMedia(s)
  PROVE  TableInv'
<1>1. /\ NewMessage(senderId[s], recieverId[s], "MEDIA")
      /\ rows' = [rows EXCEPT ![s] = allMessage[s]]
      /\ UNCHANGED <<chatRoom, saved, outbox, listener, allMessage>>
  BY DEF SendMedia
<1>2. \A m \in 1 .. Len(created) : created'[m] = created[m]
  BY <1>1, CreatedGrows
<1>3. ASSUME NEW t \in Screen PROVE Visible(t) \subseteq Visible(t)'
  <2>1. Overlay(senderId[t], "message")' = Overlay(senderId[t], "message")
    BY <1>1 DEF Overlay, Queued
  <2>2. QED
    BY <1>1, <1>2, <2>1, StaysVisible
<1>4. QED
  BY <1>1, <1>3, SameListeners DEF TableInv, IInv, ViewInv

LEMMA UploadSucceedsTable ==
  ASSUME IInv, IInv', TableInv, NEW s \in Screen, NEW m \in upload[s],
         UploadSucceeds(s, m)
  PROVE  TableInv'
<1>1. /\ StoreMessage(s, m)
      /\ UNCHANGED <<created, chatRoom, saved, rows, allMessage, listener>>
  BY DEF UploadSucceeds
<1>2. m \in 1 .. Len(created')
  BY <1>1, LenProperties DEF IInv, ServerInv, ViewInv, ChatId
<1>3. \A t \in Screen : Visible(t) \subseteq Visible(t)'
  BY <1>1, <1>2, StoreVisible
<1>4. QED
  BY <1>1, <1>3, SameListeners, TableStays

\* The listeners on the index do not touch the table.
LEMMA ConversationSnapshotTable ==
  ASSUME IInv, TableInv, NEW s \in Screen, NEW i \in ListenerIndex,
         i <= Len(listener[s]), ConversationSnapshot(s, i)
  PROVE  TableInv'
<1>1. PICK value : listener' = [listener EXCEPT ![s][i].last = value]
  BY DEF ConversationSnapshot
<1>2. /\ listener[s][i].on \in {"sender", "receiver"}
      /\ UNCHANGED <<created, chatRoom, outbox, saved, rows, allMessage>>
  BY DEF ConversationSnapshot, storeVars
<1>3. \A t \in Screen : Visible(t)' = Visible(t)
  BY <1>2 DEF Visible, Overlay, Queued
<1>4. listener \in [Screen -> Seq(DocumentListener \cup QueryListener)]
  BY DEF IInv, ViewInv
<1>5. ASSUME NEW t \in Screen, Emptied(t) PROVE Emptied(t)'
  <2>1. PICK j \in DOMAIN listener[t] : /\ listener[t][j].on = "untitled"
                                        /\ listener[t][j].last # NoSnapshot
    BY <1>5 DEF Emptied
  <2>2. t # s \/ j # i
    BY <1>2, <2>1
  <2>3. listener'[t][j] = listener[t][j] /\ DOMAIN listener'[t] = DOMAIN listener[t]
    BY <1>1, <1>4, <2>2
  <2>4. QED
    BY <2>1, <2>3 DEF Emptied
<1>6. QED
  BY <1>2, <1>3, <1>5, TableStays

\* The entries of a snapshot of the room are what the device knows of it.
LEMMA RoomIds ==
  ASSUME NEW s \in Screen
  PROVE  Ids(LocalRoom(senderId[s], chatRoomTitle(s))) = Visible(s)
<1> DEFINE Entries == LocalRoom(senderId[s], chatRoomTitle(s))
<1>1. \A e \in Entries : e.id \in Visible(s)
  BY DEF LocalRoom, Visible
<1>2. ASSUME NEW m \in Visible(s) PROVE \E e \in Entries : e.id = m
  <2> DEFINE entry == [id |-> m, sent |-> m \in chatRoom,
                       isRead |-> m \in isRead \cup Overlay(senderId[s], "read")]
  <2>1. m \in {n \in chatRoom \cup Overlay(senderId[s], "message") :
                 created[n].roomId = chatRoomTitle(s)}
    BY DEF Visible
  <2>2. entry \in Entries
    BY <2>1, Zenon DEF LocalRoom
  <2>3. entry.id = m
    OBVIOUS
  <2>4. QED
    BY <2>2, <2>3
<1> HIDE DEF Entries
<1>3. {e.id : e \in Entries} = Visible(s)
  BY <1>1, <1>2
<1>4. QED
  BY <1>3 DEF Ids, Entries

\* The listeners on the messages replace the data source.
LEMMA MessageSnapshotTable ==
  ASSUME IInv, TableInv, NEW s \in Screen, NEW i \in ListenerIndex,
         i <= Len(listener[s]), MessageSnapshot(s, i)
  PROVE  TableInv'
<1> DEFINE on == listener[s][i].on
<1>1. /\ on \in {"room", "untitled"}
      /\ UNCHANGED <<created, chatRoom, saved>>
  BY DEF MessageSnapshot
<1>2. PICK entries \in CurrentSnapshot(s, on) :
        /\ listener' = [listener EXCEPT ![s][i].last = entries]
        /\ allMessage' = [allMessage EXCEPT ![s] = Ids(entries)]
        /\ rows' = IF entries = {} THEN rows
                   ELSE [rows EXCEPT ![s] = Ids(entries)]
        /\ \E order \in SetToSeqs(Receipts(s, entries)) :
             Issue(senderId[s], [n \in DOMAIN order |-> UpdateRead(order[n])])
  BY DEF MessageSnapshot
<1>3. \A t \in Screen : Visible(t) \subseteq Visible(t)'
  <2>1. PICK order \in SetToSeqs(Receipts(s, entries)) :
          Issue(senderId[s], [n \in DOMAIN order |-> UpdateRead(order[n])])
    BY <1>2
  <2> DEFINE ws == [n \in DOMAIN order |-> UpdateRead(order[n])]
  <2>2. ws \in Seq(GoodWrite(Len(created)))
    BY <1>1, <1>2, <2>1, ReceiptWrites
  <2>3. Issue(senderId[s], ws) /\ senderId[s] \in User
    BY <2>1, ScreenRoom
  <2> HIDE DEF ws
  <2>4. QED
    BY <1>1, <2>2, <2>3, IssueVisible
<1>4. /\ listener \in [Screen -> Seq(DocumentListener \cup QueryListener)]
      /\ rows \in [Screen -> SUBSET ChatId]
      /\ allMessage \in [Screen -> SUBSET ChatId]
      /\ i \in DOMAIN listener[s]
  <2>1. listener[s] \in Seq(DocumentListener \cup QueryListener)
    BY DEF IInv, ViewInv
  <2>2. i \in 1 .. Len(listener[s]) /\ DOMAIN listener[s] = 1 .. Len(listener[s])
    BY <2>1, ListenerAt, ListenerIndexNat, LenProperties DEF IInv
  <2>3. QED
    BY <2>2 DEF IInv, ViewInv
<1>5. ASSUME NEW t \in Screen, t # s
      PROVE  /\ rows'[t] = rows[t] /\ allMessage'[t] = allMessage[t]
             /\ Emptied(t)' = Emptied(t)
  BY <1>2, <1>4, <1>5 DEF Emptied
<1>6. on = "room" => Ids(entries) = Visible(s)
  <2>1. on = "room" => entries = LocalRoom(senderId[s], chatRoomTitle(s))
    BY <1>2 DEF CurrentSnapshot
  <2>2. QED
    BY <2>1, RoomIds, Zenon
<1>7. on = "untitled" => entries = {}
  BY <1>2 DEF CurrentSnapshot
<1>8. Ids({}) = {}
  BY DEF Ids
<1>9. allMessage'[s] = Ids(entries)
  BY <1>2, <1>4
<1>10. CASE entries # {}
  <2>1. rows'[s] = Ids(entries) /\ on = "room"
    BY <1>1, <1>2, <1>4, <1>7, <1>10
  <2>2. QED
    BY <1>3, <1>5, <1>6, <1>9, <2>1 DEF TableInv
<1>11. CASE entries = {} /\ on = "room"
  <2>1. rows'[s] = rows[s] /\ rows[s] = {}
    BY <1>2, <1>6, <1>8, <1>11 DEF TableInv
  <2>2. QED
    BY <1>3, <1>5, <1>8, <1>9, <1>11, <2>1 DEF TableInv
<1>12. CASE entries = {} /\ on = "untitled"
  <2>1. Emptied(s)'
    <3>1. /\ i \in DOMAIN listener'[s] /\ listener'[s][i].on = "untitled"
          /\ listener'[s][i].last = {}
      <4>1. listener[s][i] \in DocumentListener \cup QueryListener
        BY ListenerAt, ListenerIndexNat DEF IInv
      <4>2. listener'[s][i] = [listener[s][i] EXCEPT !.last = entries]
            /\ DOMAIN listener'[s] = DOMAIN listener[s]
        BY <1>2, <1>4
      <4>3. QED
        BY <1>4, <1>12, <4>1, <4>2 DEF DocumentListener, QueryListener
    <3>2. QED
      BY <3>1, NoSnapshotAssumption DEF Emptied
  <2>2. rows'[s] = rows[s] /\ allMessage'[s] = {}
    BY <1>2, <1>8, <1>9, <1>12
  <2>3. QED
    BY <1>3, <1>5, <2>1, <2>2 DEF TableInv
<1>13. QED
  BY <1>1, <1>10, <1>11, <1>12

\* A step that changes neither the store nor the table.
LEMMA SilentTable ==
  ASSUME TableInv,
         UNCHANGED <<created, chatRoom, outbox, saved, rows, allMessage, listener>>
  PROVE  TableInv'
<1>1. \A s \in Screen : Visible(s)' = Visible(s)
  BY DEF Visible, Overlay, Queued
<1>2. QED
  BY <1>1, SameListeners, TableStays

LEMMA PersistTable ==
  ASSUME IInv, TableInv, NEW u \in User, Persist(u), UNCHANGED screenVars
  PROVE  TableInv'
<1>1. /\ saved' = [saved EXCEPT ![u] = saved[u] + 1]
      /\ saved \in [User -> Nat]
      /\ UNCHANGED <<created, chatRoom, outbox, rows, allMessage, listener>>
  BY DEF Persist, screenVars, IInv, DeviceInv
<1>2. ASSUME NEW s \in Screen PROVE Visible(s) \subseteq Visible(s)'
  <2>1. senderId[s] \in User
    BY ScreenRoom
  <2>2. saved'[senderId[s]] \in Nat /\ saved[senderId[s]] <= saved'[senderId[s]]
    BY <1>1, <2>1
  <2>3. QED
    BY <1>1, <2>2, SavedStays
<1>3. QED
  BY <1>1, <1>2, SameListeners, TableStays

LEMMA CommitTable ==
  ASSUME IInv, TableInv, NEW u \in User, Commit(u), UNCHANGED screenVars
  PROVE  TableInv'
BY CommitVisible, SameListeners, TableStays DEF screenVars

\* The screens of a process end with it, tables and all.
LEMMA KillTable ==
  ASSUME IInv, TableInv, NEW u \in User, Kill(u)
  PROVE  TableInv'
<1>1. /\ outbox' = [outbox EXCEPT ![u] = SubSeq(outbox[u], 1, saved[u])]
      /\ UNCHANGED <<created, chatRoom, saved>>
      /\ outbox \in [User -> Seq(GoodWrite(Len(created)))]
      /\ saved \in [User -> Nat]
  BY DEF Kill, StopProcess, IInv, DeviceInv
<1>2. ASSUME NEW s \in Screen
      PROVE  IF senderId[s] = u
             THEN rows'[s] = {} /\ allMessage'[s] = {}
             ELSE /\ rows'[s] = rows[s] /\ allMessage'[s] = allMessage[s]
                  /\ listener'[s] = listener[s]
  BY <1>2 DEF Kill
<1>3. ASSUME NEW s \in Screen, senderId[s] # u
      PROVE  Visible(s) \subseteq Visible(s)'
  <2>1. senderId[s] \in User
    BY ScreenRoom
  <2>2. /\ outbox'[senderId[s]] = outbox[senderId[s]]
        /\ saved'[senderId[s]] = saved[senderId[s]]
        /\ saved[senderId[s]] \in Nat
    BY <1>1, <1>3, <2>1
  <2>3. Visible(s)' = Visible(s)
    BY <1>1, <2>2 DEF Visible, Overlay, Queued
  <2>4. QED
    BY <2>3
<1>4. ASSUME NEW s \in Screen
      PROVE  /\ rows'[s] \subseteq Visible(s)'
             /\ allMessage'[s] \subseteq Visible(s)'
             /\ rows'[s] \subseteq allMessage'[s]
                  \/ (allMessage'[s] = {} /\ Emptied(s)')
  <2>1. CASE senderId[s] = u
    BY <1>2, <2>1
  <2>2. CASE senderId[s] # u
    <3>1. Emptied(s)' = Emptied(s)
      BY <1>2, <2>2 DEF Emptied
    <3>2. QED
      BY <1>2, <1>3, <2>2, <3>1 DEF TableInv
  <2>3. QED
    BY <2>1, <2>2
<1>5. QED
  BY <1>4 DEF TableInv

LEMMA InitTable == Init => TableInv
BY DEF Init, TableInv

LEMMA StepTable == IInv /\ TableInv /\ [Next]_vars => TableInv'
<1> SUFFICES ASSUME IInv, TableInv, [Next]_vars PROVE TableInv'
  OBVIOUS
<1>1. IInv'
  BY StepInv
<1>2. ASSUME NEW s \in Screen, ScreenStep(s) PROVE TableInv'
  <2>1. ASSUME UploadEnds(s) PROVE TableInv'
    <3>1. ASSUME NEW m \in upload[s], UploadSucceeds(s, m) PROVE TableInv'
      BY <1>1, <3>1, UploadSucceedsTable
    <3>2. ASSUME NEW m \in upload[s], UploadFails(s, m) PROVE TableInv'
      BY <3>2, SilentTable DEF UploadFails, storeVars
    <3>3. QED
      BY <2>1, <3>1, <3>2 DEF UploadEnds
  <2>2. ASSUME NEW i \in ListenerIndex, Snapshot(s, i) PROVE TableInv'
    BY <2>2, ConversationSnapshotTable, MessageSnapshotTable DEF Snapshot
  <2>3. ASSUME PickImage(s) \/ BackAction(s) PROVE TableInv'
    BY <2>3, SilentTable DEF PickImage, BackAction, storeVars
  <2>4. QED
    BY <1>1, <1>2, <2>1, <2>2, <2>3, ViewWillAppearTable, SendTextTable,
       SendMediaTable
    DEF ScreenStep
<1>3. CASE UNCHANGED vars
  BY <1>3, SilentTable DEF vars, storeVars, screenVars
<1>4. ASSUME NEW u \in User, Launch(u) PROVE TableInv'
  BY <1>4, SilentTable DEF Launch, StartProcess, screenVars
<1>5. ASSUME NEW u \in User, Client(u) PROVE TableInv'
  BY <1>5, PersistTable, CommitTable DEF Client
<1>6. ASSUME NEW u \in User, Kill(u) PROVE TableInv'
  BY <1>6, KillTable
<1>7. QED
  BY <1>2, <1>3, <1>4, <1>5, <1>6 DEF Next

\* The rows a table is laid out for are messages its data source holds, unless
\* the listener on the room "" has emptied it: fetchMessage reloads inside the
\* loop over the documents, so an empty snapshot leaves the table as it was.
THEOREM RowsAreBacked == Spec => []RowsBacked
<1>1. TableInv => RowsBacked
  BY DEF TableInv, RowsBacked, Emptied
<1>2. QED
  BY <1>1, InitInv, StepInv, InitTable, StepTable, PTL DEF Spec

-----------------------------------------------------------------------------
(***************************************************************************)
(* The refinement: the chat rooms implement the life of a message.         *)
(***************************************************************************)

QueuedAt(u, i, m) == i \in 1 .. Len(outbox[u]) /\ outbox[u][i] = SetMessage(m)

Pending(m) == \/ \E s \in Screen : m \in upload[s]
              \/ \E u \in User : \E i \in 1 .. Len(outbox[u]) : QueuedAt(u, i, m)

\* A message on its way is in one place, among the uploads of one screen or once
\* among the writes of one device, and not yet in the backend.
InOnePlace(m) ==
  /\ \A u \in User, i \in Nat :
       QueuedAt(u, i, m) =>
         /\ m \notin chatRoom
         /\ \A v \in User, j \in Nat : QueuedAt(v, j, m) => v = u /\ j = i
  /\ \A s \in Screen :
       m \in upload[s] =>
         /\ m \notin chatRoom
         /\ \A t \in Screen : m \in upload[t] => t = s
         /\ \A u \in User, i \in Nat : ~QueuedAt(u, i, m)

\* Every write of a message is all of SetMessage.
Plain ==
  \A u \in User : \A i \in 1 .. Len(outbox[u]) :
    outbox[u][i].kind = "message" => outbox[u][i] = SetMessage(outbox[u][i].id)

\* Hence no message is ever stored twice, which would erase its mark.
OnePlace == Plain /\ \A m \in ChatId : InOnePlace(m)

LInv == RInv /\ OnePlace

-----------------------------------------------------------------------------
(* The writes of messages that a step leaves in the queues.                *)

LEMMA Ranges ==
  ASSUME IInv
  PROVE  /\ Len(created) \in Nat /\ chatRoom \subseteq 1 .. Len(created)
         /\ isRead \subseteq chatRoom
         /\ \A u \in User : Len(outbox[u]) \in Nat /\ DOMAIN outbox[u] = 1 .. Len(outbox[u])
         /\ \A s \in Screen : upload[s] \subseteq ChatId
                              /\ \A m \in upload[s] : m <= Len(created)
         /\ 1 .. Len(created) \subseteq ChatId
<1>1. Len(created) \in Nat /\ Len(created) <= MaxMessages
  BY LenProperties DEF IInv, ServerInv
<1>2. \A u \in User : Len(outbox[u]) \in Nat /\ DOMAIN outbox[u] = 1 .. Len(outbox[u])
  BY LenProperties DEF IInv, DeviceInv
<1>3. QED
  BY <1>1, <1>2, MaxMessagesAssumption DEF IInv, ServerInv, ViewInv, ChatId

LEMMA SetMessageIs ==
  \A m, n : /\ SetMessage(m).kind = "message" /\ SetMessage(m).id = m
            /\ SetMessage(m) = SetMessage(n) => m = n
<1> SUFFICES ASSUME NEW m, NEW n
             PROVE  /\ SetMessage(m).kind = "message" /\ SetMessage(m).id = m
                    /\ SetMessage(m) = SetMessage(n) => m = n
  OBVIOUS
<1>1. \A k : SetMessage(k).kind = "message" /\ SetMessage(k).id = k
  BY DEF SetMessage
<1>2. QED
  BY <1>1

\* A message that is queued was composed.
LEMMA QueuedIsComposed ==
  ASSUME IInv, NEW m, NEW u \in User, NEW i, QueuedAt(u, i, m)
  PROVE  m \in 1 .. Len(created)
<1>1. i \in 1 .. Len(outbox[u]) /\ outbox[u][i].kind = "message" /\ outbox[u][i].id = m
  BY SetMessageIs DEF QueuedAt
<1>2. i \in Queued(u, Len(outbox[u]), "message") /\ Len(outbox[u]) \in Nat
  BY <1>1, Ranges DEF Queued
<1>3. outbox[u][i].id \in 1 .. Len(created)
  BY <1>2, QueuedMessage
<1>4. QED
  BY <1>1, <1>3

LEMMA IssueParts ==
  ASSUME IInv, NEW u \in User, NEW S, NEW ws \in Seq(S), Issue(u, ws)
  PROVE  /\ Len(outbox[u]) \in Nat /\ Len(ws) \in Nat
         /\ Len(outbox'[u]) = Len(outbox[u]) + Len(ws)
         /\ \A j \in 1 .. Len(outbox[u]) : outbox'[u][j] = outbox[u][j]
         /\ \A k \in 1 .. Len(ws) : outbox'[u][Len(outbox[u]) + k] = ws[k]
         /\ \A v \in User \ {u} : outbox'[v] = outbox[v]
<1> DEFINE G == GoodWrite(Len(created)) \cup S
           a == outbox[u]
<1>1. /\ outbox \in [User -> Seq(GoodWrite(Len(created)))]
      /\ outbox' = [outbox EXCEPT ![u] = outbox[u] \o ws]
  BY DEF Issue, IInv, DeviceInv
<1>2. a \in Seq(G) /\ ws \in Seq(G)
  <2>1. Seq(GoodWrite(Len(created))) \subseteq Seq(G) /\ Seq(S) \subseteq Seq(G)
    BY SeqMonotonic
  <2>2. QED
    BY <1>1, <2>1
<1>3. outbox'[u] = a \o ws /\ \A v \in User \ {u} : outbox'[v] = outbox[v]
  BY <1>1
<1>4. /\ Len(a \o ws) = Len(a) + Len(ws)
      /\ \A n \in 1 .. Len(a) : (a \o ws)[n] = a[n]
      /\ \A k \in 1 .. Len(ws) : (a \o ws)[Len(a) + k] = ws[k]
      /\ Len(a) \in Nat /\ Len(ws) \in Nat
  <2> HIDE DEF a, G
  <2>1. QED
    BY <1>2, ConcatParts, LenProperties
<1>5. QED
  BY <1>3, <1>4

\* Writes that are of other kinds queue no message.
LEMMA OtherWrites ==
  ASSUME IInv, NEW u \in User, NEW S, NEW ws \in Seq(S), Issue(u, ws),
         \A k \in 1 .. Len(ws) : ws[k].kind # "message",
         NEW v \in User, NEW j, NEW m
  PROVE  QueuedAt(v, j, m)' <=> QueuedAt(v, j, m)
<1>1. /\ Len(outbox[u]) \in Nat /\ Len(ws) \in Nat
      /\ Len(outbox'[u]) = Len(outbox[u]) + Len(ws)
      /\ \A n \in 1 .. Len(outbox[u]) : outbox'[u][n] = outbox[u][n]
      /\ \A k \in 1 .. Len(ws) : outbox'[u][Len(outbox[u]) + k] = ws[k]
      /\ \A x \in User \ {u} : outbox'[x] = outbox[x]
  BY IssueParts
<1>2. CASE v # u
  BY <1>1, <1>2 DEF QueuedAt, SetMessage
<1>3. CASE v = u /\ j \in 1 .. Len(outbox[u])
  <2>1. j \in 1 .. Len(outbox'[u])
    BY <1>1, <1>3
  <2>2. QED
    BY <1>1, <1>3, <2>1 DEF QueuedAt, SetMessage
<1>4. CASE v = u /\ j \in 1 .. Len(outbox'[u]) /\ j \notin 1 .. Len(outbox[u])
  <2>1. j - Len(outbox[u]) \in 1 .. Len(ws) /\ j = Len(outbox[u]) + (j - Len(outbox[u]))
    BY <1>1, <1>4
  <2>2. outbox'[u][j].kind # "message"
    BY ZenonT(40), <1>1, <2>1
  <2>3. QED
    BY <1>4, <2>2, SetMessageIs DEF QueuedAt, SetMessage
<1>5. CASE v = u /\ j \notin 1 .. Len(outbox'[u]) /\ j \notin 1 .. Len(outbox[u])
  BY <1>5 DEF QueuedAt
<1>6. QED
  BY <1>2, <1>3, <1>4, <1>5

\* A device that stores m queues m after what it has queued.
LEMMA StoreQueues ==
  ASSUME IInv, Len(created') \in Nat, NEW s \in Screen,
         NEW m \in 1 .. Len(created'), StoreMessage(s, m), NEW v \in User
  PROVE  /\ \A j, n : QueuedAt(v, j, n)' <=>
              \/ QueuedAt(v, j, n)
              \/ v = senderId[s] /\ j = Len(outbox[v]) + 1 /\ n = m
         /\ \A j \in 1 .. Len(outbox'[v]) :
              \/ \E i \in 1 .. Len(outbox[v]) : outbox'[v][j] = outbox[v][i]
              \/ outbox'[v][j].kind # "message"
              \/ outbox'[v][j] = SetMessage(m)
<1> DEFINE l == Len(created')
           ws == <<SetMessage(m)>> \o IndexWrites(s)
           I == IndexWrites(s)
           u == senderId[s]
<1>1. I \in Seq(GoodWrite(l)) /\ l \in Nat
  BY IndexWritesGood DEF IInv, CopiesInv
<1>2. \A k \in 1 .. Len(I) : I[k].kind = "index"
  BY IndexWritesAre DEF IInv, CopiesInv
<1>3. <<SetMessage(m)>> \in Seq(GoodWrite(l)) /\ Len(<<SetMessage(m)>>) = 1
      /\ <<SetMessage(m)>>[1] = SetMessage(m)
  BY <1>1, MessageWriteGood
<1>4. /\ ws \in Seq(GoodWrite(l)) /\ Len(ws) = 1 + Len(I) /\ Len(I) \in Nat
      /\ ws[1] = SetMessage(m)
      /\ \A k \in 1 .. Len(I) : ws[1 + k] = I[k]
  BY <1>1, <1>3, ConcatProperties, ConcatParts, LenProperties
<1>5. Issue(u, ws) /\ u \in User
  BY ScreenRoom DEF StoreMessage
<1> HIDE DEF I, ws, l, u
<1>6. /\ Len(outbox[u]) \in Nat /\ Len(ws) \in Nat
      /\ Len(outbox'[u]) = Len(outbox[u]) + Len(ws)
      /\ \A i \in 1 .. Len(outbox[u]) : outbox'[u][i] = outbox[u][i]
      /\ \A k \in 1 .. Len(ws) : outbox'[u][Len(outbox[u]) + k] = ws[k]
      /\ \A x \in User \ {u} : outbox'[x] = outbox[x]
  BY <1>4, <1>5, IssueParts
<1>7. /\ Len(outbox[u]) \in Nat /\ Len(I) \in Nat /\ Len(ws) = 1 + Len(I)
       /\ Len(outbox'[u]) = Len(outbox[u]) + (1 + Len(I))
  BY <1>4, <1>6
<1> DEFINE a == Len(outbox[u])
           b == Len(I)
           c == Len(outbox'[u])
<1>8. /\ a + 1 \in 1 .. c
       /\ 1 .. a \subseteq 1 .. c /\ a + 1 \notin 1 .. a
       /\ 1 \in 1 .. Len(ws)
       /\ \A i \in 1 .. c : i \notin 1 .. a /\ i # a + 1 =>
            /\ i - a \in 1 .. Len(ws) /\ i = a + (i - a)
            /\ i - a - 1 \in 1 .. b /\ i - a = 1 + (i - a - 1)
  <2>1. a \in Nat /\ b \in Nat /\ Len(ws) = 1 + b /\ c = a + (1 + b)
    BY <1>7
  <2> HIDE DEF a, b, c
  <2>2. QED
    BY <2>1
<1>9. ASSUME NEW j, NEW n
      PROVE  QueuedAt(v, j, n)' <=>
               \/ QueuedAt(v, j, n)
               \/ v = senderId[s] /\ j = Len(outbox[v]) + 1 /\ n = m
  <2>1. CASE v # u
    BY <1>6, <2>1 DEF QueuedAt, SetMessage, u
  <2>2. CASE v = u /\ j \in 1 .. Len(outbox[u])
    <3>1. j \in 1 .. Len(outbox'[u]) /\ j # Len(outbox[u]) + 1
      BY <1>6, <2>2
    <3>2. QED
      BY <1>6, <2>2, <3>1 DEF QueuedAt, SetMessage, u
  <2>3. CASE v = u /\ j = Len(outbox[u]) + 1
    <3>1. /\ 1 \in 1 .. Len(ws) /\ j = Len(outbox[u]) + 1
          /\ j \in 1 .. Len(outbox'[u]) /\ j \notin 1 .. Len(outbox[u])
      BY <1>8, <2>3
    <3>2. outbox'[u][j] = SetMessage(m)
      BY <1>4, <1>6, <3>1
    <3>3. QED
      BY <2>3, <3>1, <3>2, SetMessageIs DEF QueuedAt, SetMessage, u
  <2>4. CASE /\ v = u /\ j \in 1 .. Len(outbox'[u])
              /\ j \notin 1 .. Len(outbox[u]) /\ j # Len(outbox[u]) + 1
    <3>1. /\ j - Len(outbox[u]) \in 1 .. Len(ws)
          /\ j = Len(outbox[u]) + (j - Len(outbox[u]))
          /\ j - Len(outbox[u]) - 1 \in 1 .. Len(I)
          /\ j - Len(outbox[u]) = 1 + (j - Len(outbox[u]) - 1)
      BY <1>8, <2>4
    <3>2. outbox'[u][j] = I[j - Len(outbox[u]) - 1]
      <4> DEFINE k == j - Len(outbox[u])
                 i == k - 1
      <4>1. outbox'[u][Len(outbox[u]) + k] = ws[k]
        BY <1>6, <3>1
      <4>2. ws[1 + i] = I[i]
        BY <1>4, <3>1
      <4>3. QED
        BY <3>1, <4>1, <4>2
    <3>3. outbox'[u][j].kind = "index"
      BY <1>2, <3>1, <3>2
    <3>4. QED
      BY <2>4, <3>3, SetMessageIs DEF QueuedAt, SetMessage, u
  <2>5. CASE v = u /\ j \notin 1 .. Len(outbox'[u])
    <3>1. j \notin 1 .. Len(outbox[u]) /\ j # Len(outbox[u]) + 1
      BY <1>8, <2>5
    <3>2. QED
      BY <2>5, <3>1 DEF QueuedAt, u
  <2>6. QED
    BY <2>1, <2>2, <2>3, <2>4, <2>5
<1>10. ASSUME NEW j \in 1 .. Len(outbox'[v])
      PROVE  \/ \E i \in 1 .. Len(outbox[v]) : outbox'[v][j] = outbox[v][i]
             \/ outbox'[v][j].kind # "message"
             \/ outbox'[v][j] = SetMessage(m)
  <2>1. \/ \E i \in 1 .. Len(outbox[v]) : outbox'[v][j] = outbox[v][i]
        \/ v = u /\ \E k \in 1 .. Len(ws) : outbox'[v][j] = ws[k]
    BY <1>4, <1>5, Appended
  <2>2. ASSUME NEW k \in 1 .. Len(ws), k # 1 PROVE ws[k].kind = "index"
    <3>1. k - 1 \in 1 .. Len(I) /\ k = 1 + (k - 1)
      BY <1>7, <2>2
    <3>2. QED
      BY <1>2, <1>4, <3>1
  <2>3. QED
    BY <2>1, <2>2, <1>4
<1>11. QED
  BY <1>9, <1>10

LEMMA CommitQueues ==
  ASSUME IInv, NEW u \in User, Commit(u), NEW v \in User, NEW j \in Nat \ {0}, NEW m
  PROVE  QueuedAt(v, j, m)' <=> QueuedAt(v, IF v = u THEN j + 1 ELSE j, m)
<1>1. /\ 1 \in 1 .. Len(outbox[u]) /\ Head(outbox[u]) = outbox[u][1]
      /\ Len(outbox'[u]) = Len(outbox[u]) - 1
      /\ \A i \in 1 .. Len(outbox'[u]) :
           i + 1 \in 1 .. Len(outbox[u]) /\ outbox'[u][i] = outbox[u][i + 1]
      /\ \A w \in User \ {u} : outbox'[w] = outbox[w]
  BY Removed
<1>2. CASE v # u
  BY <1>1, <1>2 DEF QueuedAt, SetMessage
<1>3. CASE v = u
  <2>1. j \in 1 .. Len(outbox'[u]) <=> j + 1 \in 1 .. Len(outbox[u])
    BY <1>1, Ranges
  <2>2. QED
    BY <1>1, <1>3, <2>1 DEF QueuedAt, SetMessage
<1>4. QED
  BY <1>2, <1>3

LEMMA KillQueues ==
  ASSUME IInv, NEW u \in User, Kill(u), NEW v \in User, NEW j, NEW m,
         QueuedAt(v, j, m)'
  PROVE  QueuedAt(v, j, m)
<1>1. StopProcess(u)
  BY DEF Kill
<1>2. \A i \in 1 .. Len(outbox'[v]) :
        i \in 1 .. Len(outbox[v]) /\ outbox'[v][i] = outbox[v][i]
  BY <1>1, Cut
<1>3. QED
  BY <1>2 DEF QueuedAt, SetMessage

LEMMA ReceiptQueues ==
  ASSUME IInv, NEW s \in Screen, NEW i \in ListenerIndex, MessageSnapshot(s, i),
         NEW v \in User, NEW j, NEW m
  PROVE  /\ QueuedAt(v, j, m)' <=> QueuedAt(v, j, m)
         /\ \A k \in 1 .. Len(outbox'[v]) :
              \/ \E n \in 1 .. Len(outbox[v]) : outbox'[v][k] = outbox[v][n]
              \/ outbox'[v][k].kind # "message"
<1> DEFINE on == listener[s][i].on
<1>1. on \in {"room", "untitled"}
  BY DEF MessageSnapshot
<1>2. PICK entries \in CurrentSnapshot(s, on) :
        \E order \in SetToSeqs(Receipts(s, entries)) :
          Issue(senderId[s], [n \in DOMAIN order |-> UpdateRead(order[n])])
  BY DEF MessageSnapshot
<1>3. PICK order \in SetToSeqs(Receipts(s, entries)) :
        Issue(senderId[s], [n \in DOMAIN order |-> UpdateRead(order[n])])
  BY <1>2
<1> DEFINE ws == [n \in DOMAIN order |-> UpdateRead(order[n])]
<1>4. ws \in Seq(GoodWrite(Len(created)))
  BY <1>1, <1>2, <1>3, ReceiptWrites
<1>5. \A k \in 1 .. Len(ws) : ws[k].kind # "message"
  <2>1. DOMAIN ws = DOMAIN order /\ DOMAIN ws = 1 .. Len(ws)
    BY <1>4, LenProperties
  <2>2. QED
    BY <2>1 DEF UpdateRead
<1>6. Issue(senderId[s], ws) /\ senderId[s] \in User
  BY <1>3, ScreenRoom
<1> HIDE DEF ws, on
<1>7. QueuedAt(v, j, m)' <=> QueuedAt(v, j, m)
  BY <1>4, <1>5, <1>6, OtherWrites
<1>8. ASSUME NEW k \in 1 .. Len(outbox'[v])
      PROVE  \/ \E n \in 1 .. Len(outbox[v]) : outbox'[v][k] = outbox[v][n]
             \/ outbox'[v][k].kind # "message"
  <2>1. \/ \E n \in 1 .. Len(outbox[v]) : outbox'[v][k] = outbox[v][n]
        \/ v = senderId[s] /\ \E n \in 1 .. Len(ws) : outbox'[v][k] = ws[n]
    BY <1>4, <1>6, Appended
  <2>2. QED
    BY <2>1, <1>5
<1>9. QED
  BY <1>7, <1>8

-----------------------------------------------------------------------------
(* The phases.                                                             *)

PhaseOf(m) ==
  IF m > Len(created) THEN "none"
  ELSE IF m \in isRead THEN "read"
  ELSE IF m \in chatRoom THEN "stored"
  ELSE IF Pending(m) THEN "pending" ELSE "lost"

PhaseFits == Phase = [m \in ChatId |-> PhaseOf(m)]

\* The cases of Phase exclude one another.
LEMMA PhaseIs == IInv => PhaseFits
<1> SUFFICES ASSUME IInv, NEW m \in ChatId PROVE Phase[m] = PhaseOf(m)
  BY DEF Phase, PhaseFits
<1>1. m \in isRead => m \in chatRoom
  BY Ranges
<1>2. m \in chatRoom => m <= Len(created) /\ ~(m > Len(created))
  BY Ranges
<1>3. Pending(m) <=> \/ \E s \in Screen : m \in upload[s]
                     \/ \E u \in User : \E i \in DOMAIN outbox[u] :
                          outbox[u][i] = SetMessage(m)
  BY Ranges DEF Pending, QueuedAt
<1>4. QED
  BY <1>1, <1>2, <1>3, Zenon DEF Phase, PhaseOf

LEMMA PhaseIsNext == IInv' => PhaseFits'
BY PhaseIs, PTL

\* A step that changes the phase of no message.
LEMMA PhaseStays ==
  ASSUME IInv, IInv', \A m \in ChatId : PhaseOf(m)' = PhaseOf(m)
  PROVE  UNCHANGED Phase
<1>1. PhaseFits /\ PhaseFits'
  BY PhaseIs, PhaseIsNext
<1>2. QED
  BY <1>1 DEF PhaseFits, ChatId

\* A step that changes the phase of one message.
LEMMA PhaseMoves ==
  ASSUME IInv, IInv', NEW n \in ChatId, NEW from, NEW to,
         \A m \in ChatId \ {n} : PhaseOf(m)' = PhaseOf(m),
         PhaseOf(n) = from, PhaseOf(n)' = to
  PROVE  Life!Move(n, from, to)
<1>1. PhaseFits /\ PhaseFits'
  BY PhaseIs, PhaseIsNext
<1>2. Phase[n] = from
  BY <1>1 DEF PhaseFits
<1>3. Phase' = [Phase EXCEPT ![n] = to]
  BY <1>1 DEF PhaseFits, ChatId
<1>4. QED
  BY <1>2, <1>3 DEF Life!Move

\* To lose one message.
LEMMA OneLost ==
  ASSUME NEW n, Life!Move(n, "pending", "lost")
  PROVE  Life!Lose({n})
<1>1. DOMAIN Phase = ChatId
  BY DEF Phase
<1>2. Phase' = [m \in ChatId |-> IF m \in {n} THEN "lost" ELSE Phase[m]]
  BY <1>1 DEF Life!Move
<1>3. QED
  BY <1>2 DEF Life!Move, Life!Lose

-----------------------------------------------------------------------------
(* The steps.                                                              *)

\* The phase of a message that a step does not concern.
LEMMA SamePhase ==
  ASSUME NEW m, m > Len(created') <=> m > Len(created),
         m \in isRead' <=> m \in isRead,
         m \in chatRoom' <=> m \in chatRoom,
         Pending(m)' <=> Pending(m)
  PROVE  PhaseOf(m)' = PhaseOf(m)
BY Zenon DEF PhaseOf

LEMMA SilentLife ==
  ASSUME IInv, IInv', UNCHANGED <<created, chatRoom, isRead, outbox, upload>>
  PROVE  UNCHANGED Phase
<1>1. \A m \in ChatId : Pending(m)' <=> Pending(m)
  BY DEF Pending, QueuedAt, SetMessage
<1>2. \A m \in ChatId : PhaseOf(m)' = PhaseOf(m)
  BY <1>1, SamePhase
<1>3. QED
  BY <1>2, PhaseStays

\* Whether a message is pending follows from the places where it is queued.
LEMMA SamePending ==
  ASSUME IInv, IInv', NEW m, UNCHANGED upload,
         \A u \in User : \A i \in Nat : QueuedAt(u, i, m)' <=> QueuedAt(u, i, m)
  PROVE  Pending(m)' <=> Pending(m)
<1>1. \A u \in User : \A i : QueuedAt(u, i, m) => i \in Nat /\ i \in 1 .. Len(outbox[u])
  BY DEF QueuedAt
<1>2. \A u \in User : \A i : QueuedAt(u, i, m)' => i \in Nat /\ i \in 1 .. Len(outbox'[u])
  BY DEF QueuedAt
<1>3. QED
  BY <1>1, <1>2 DEF Pending

-----------------------------------------------------------------------------
(* Messages stay in one place.                                             *)

LEMMA QueuedAtNat ==
  ASSUME NEW u, NEW i, NEW m, QueuedAt(u, i, m)
  PROVE  i \in Nat \ {0} /\ i \in 1 .. Len(outbox[u])
BY DEF QueuedAt

LEMMA PlainStays ==
  ASSUME Plain,
         \A v \in User : \A j \in 1 .. Len(outbox'[v]) :
           \/ \E i \in 1 .. Len(outbox[v]) : outbox'[v][j] = outbox[v][i]
           \/ outbox'[v][j].kind # "message"
           \/ \E m : outbox'[v][j] = SetMessage(m)
  PROVE  Plain'
<1>1. SUFFICES ASSUME NEW v \in User, NEW j \in 1 .. Len(outbox'[v]),
                      outbox'[v][j].kind = "message"
               PROVE  outbox'[v][j] = SetMessage(outbox'[v][j].id)
  BY DEF Plain, SetMessage
<1>2. ASSUME NEW i \in 1 .. Len(outbox[v]), outbox'[v][j] = outbox[v][i]
      PROVE  outbox'[v][j] = SetMessage(outbox'[v][j].id)
  BY <1>1, <1>2 DEF Plain
<1>3. ASSUME NEW m, outbox'[v][j] = SetMessage(m)
      PROVE  outbox'[v][j] = SetMessage(outbox'[v][j].id)
  BY <1>3, SetMessageIs
<1>4. QED
  BY <1>1, <1>2, <1>3

LEMMA StaysInOnePlace ==
  ASSUME NEW m, InOnePlace(m), m \in chatRoom' => m \in chatRoom,
         \A u \in User : \A i \in Nat : QueuedAt(u, i, m)' => QueuedAt(u, i, m),
         \A s \in Screen : m \in upload'[s] => m \in upload[s]
  PROVE  InOnePlace(m)'
BY DEF InOnePlace

LEMMA SilentPlace ==
  ASSUME OnePlace, UNCHANGED <<chatRoom, outbox>>,
         \A s \in Screen : upload'[s] \subseteq upload[s]
  PROVE  OnePlace'
<1>1. Plain'
  BY DEF OnePlace, Plain, SetMessage
<1>2. ASSUME NEW m \in ChatId PROVE InOnePlace(m)'
  <2>1. \A u \in User : \A i \in Nat : QueuedAt(u, i, m)' => QueuedAt(u, i, m)
    BY DEF QueuedAt, SetMessage
  <2>2. QED
    BY <2>1, StaysInOnePlace DEF OnePlace
<1>3. QED
  BY <1>1, <1>2 DEF OnePlace, ChatId

\* A message that was nowhere may be queued on one device.
LEMMA StorePlace ==
  ASSUME IInv, OnePlace, Len(created') \in Nat, NEW s \in Screen,
         NEW m \in 1 .. Len(created'), StoreMessage(s, m),
         m \notin chatRoom, chatRoom' = chatRoom,
         \A u \in User : \A i \in Nat : ~QueuedAt(u, i, m),
         \A t \in Screen : m \notin upload'[t] /\ upload'[t] \subseteq upload[t]
  PROVE  OnePlace'
<1>1. \A v \in User : \A j, n : QueuedAt(v, j, n)' <=>
              \/ QueuedAt(v, j, n)
              \/ v = senderId[s] /\ j = Len(outbox[v]) + 1 /\ n = m
  BY StoreQueues
<1>2. \A v \in User : \A j \in 1 .. Len(outbox'[v]) :
              \/ \E i \in 1 .. Len(outbox[v]) : outbox'[v][j] = outbox[v][i]
              \/ outbox'[v][j].kind # "message"
              \/ outbox'[v][j] = SetMessage(m)
  BY StoreQueues
<1>3. Plain'
  BY <1>2, PlainStays DEF OnePlace
<1>4. ASSUME NEW n \in ChatId PROVE InOnePlace(n)'
  <2>1. CASE n # m
    BY <1>1, <2>1, StaysInOnePlace DEF OnePlace
  <2>2. CASE n = m
    <3>1. \A v \in User, j \in Nat : QueuedAt(v, j, n)' =>
            v = senderId[s] /\ j = Len(outbox[senderId[s]]) + 1
      BY <1>1, <2>2
    <3>2. n \notin chatRoom' /\ \A t \in Screen : n \notin upload'[t]
      BY <2>2
    <3>3. QED
      BY <3>1, <3>2, Zenon DEF InOnePlace
  <2>3. QED
    BY <2>1, <2>2
<1>5. QED
  BY <1>3, <1>4 DEF OnePlace, ChatId

\* A new message is nowhere.
LEMMA NewIsNowhere ==
  ASSUME IInv
  PROVE  /\ NewId \notin chatRoom /\ NewId \notin isRead
         /\ \A u \in User : \A i \in Nat : ~QueuedAt(u, i, NewId)
         /\ \A s \in Screen : NewId \notin upload[s]
<1>1. NewId \notin 1 .. Len(created) /\ ~(NewId <= Len(created))
  BY Ranges DEF NewId
<1>2. QED
  BY <1>1, Ranges, QueuedIsComposed

LEMMA SendMediaPlace ==
  ASSUME IInv, OnePlace, NEW s \in Screen, SendMedia(s)
  PROVE  OnePlace'
<1>1. /\ UNCHANGED <<chatRoom, outbox>>
      /\ upload' = [upload EXCEPT ![s] = upload[s] \cup {NewId}]
      /\ upload \in [Screen -> SUBSET ChatId]
  BY DEF SendMedia, IInv, ViewInv
<1>2. Plain'
  BY <1>1 DEF OnePlace, Plain, SetMessage
<1>3. ASSUME NEW m \in ChatId PROVE InOnePlace(m)'
  <2>1. \A u \in User : \A i \in Nat : QueuedAt(u, i, m)' => QueuedAt(u, i, m)
    BY <1>1 DEF QueuedAt, SetMessage
  <2>2. CASE m # NewId
    <3>1. \A t \in Screen : m \in upload'[t] => m \in upload[t]
      BY <1>1, <2>2
    <3>2. QED
      BY <1>1, <2>1, <3>1, StaysInOnePlace DEF OnePlace
  <2>3. CASE m = NewId
    <3>1. \A t \in Screen : m \in upload'[t] => t = s
      BY <1>1, <2>3, NewIsNowhere
    <3>2. m \notin chatRoom' /\ \A u \in User : \A i \in Nat : ~QueuedAt(u, i, m)'
      BY <1>1, <2>1, <2>3, NewIsNowhere
    <3>3. QED
      BY <3>1, <3>2, Zenon DEF InOnePlace
  <2>4. QED
    BY <2>2, <2>3
<1>4. QED
  BY <1>2, <1>3 DEF OnePlace, ChatId

LEMMA MessageSnapshotPlace ==
  ASSUME IInv, OnePlace, NEW s \in Screen, NEW i \in ListenerIndex,
         MessageSnapshot(s, i)
  PROVE  OnePlace'
<1>1. UNCHANGED <<chatRoom, upload>>
  BY DEF MessageSnapshot
<1>2. Plain'
  BY ReceiptQueues, PlainStays DEF OnePlace
<1>3. ASSUME NEW m \in ChatId PROVE InOnePlace(m)'
  BY <1>1, ReceiptQueues, StaysInOnePlace DEF OnePlace
<1>4. QED
  BY <1>2, <1>3 DEF OnePlace, ChatId

LEMMA KillPlace ==
  ASSUME IInv, OnePlace, NEW u \in User, Kill(u)
  PROVE  OnePlace'
<1>1. /\ StopProcess(u) /\ UNCHANGED chatRoom
      /\ \A s \in Screen : upload'[s] \subseteq upload[s]
  BY DEF Kill, StopProcess
<1>2. Plain'
  BY <1>1, Cut, PlainStays DEF OnePlace
<1>3. ASSUME NEW m \in ChatId PROVE InOnePlace(m)'
  BY <1>1, KillQueues, StaysInOnePlace DEF OnePlace
<1>4. QED
  BY <1>2, <1>3 DEF OnePlace, ChatId

\* What the backend takes leaves its place.
LEMMA CommitPlace ==
  ASSUME IInv, OnePlace, NEW u \in User, Commit(u), UNCHANGED screenVars
  PROVE  OnePlace'
<1> DEFINE write == Head(outbox[u])
<1>1. /\ 1 \in 1 .. Len(outbox[u]) /\ write = outbox[u][1]
      /\ \A j \in 1 .. Len(outbox'[u]) :
           j + 1 \in 1 .. Len(outbox[u]) /\ outbox'[u][j] = outbox[u][j + 1]
      /\ \A v \in User \ {u} : outbox'[v] = outbox[v]
  BY Removed
<1>2. /\ upload' = upload
      /\ chatRoom' = IF write.kind = "message" THEN chatRoom \cup {write.id}
                                               ELSE chatRoom
  BY DEF Commit, screenVars
<1>3. write.kind = "message" => QueuedAt(u, 1, write.id)
  BY <1>1 DEF OnePlace, Plain, QueuedAt
<1>4. Plain'
  <2>1. \A v \in User : \A j \in 1 .. Len(outbox'[v]) :
          \E i \in 1 .. Len(outbox[v]) : outbox'[v][j] = outbox[v][i]
    <3>1. SUFFICES ASSUME NEW v \in User, NEW j \in 1 .. Len(outbox'[v])
                   PROVE  \E i \in 1 .. Len(outbox[v]) : outbox'[v][j] = outbox[v][i]
      OBVIOUS
    <3>2. CASE v = u
      BY <1>1, <3>2
    <3>3. CASE v # u
      BY <1>1, <3>3
    <3>4. QED
      BY <3>2, <3>3
  <2>2. QED
    BY <2>1, PlainStays DEF OnePlace
<1> DEFINE before(v, j) == IF v = u THEN j + 1 ELSE j
<1>5. \A v \in User : \A j \in Nat : \A m : QueuedAt(v, j, m)' =>
        QueuedAt(v, before(v, j), m) /\ before(v, j) \in Nat /\ j # 0
  <2>1. SUFFICES ASSUME NEW v \in User, NEW j \in Nat, NEW m, QueuedAt(v, j, m)'
                 PROVE  /\ QueuedAt(v, before(v, j), m)
                        /\ before(v, j) \in Nat /\ j # 0
    OBVIOUS
  <2>2. j \in Nat \ {0}
    BY <2>1 DEF QueuedAt
  <2>3. QED
    BY <2>1, <2>2, CommitQueues
<1>6. \A v \in User : \A j, k \in Nat : before(v, j) = before(v, k) => j = k
  OBVIOUS
<1>7. \A j \in Nat : before(u, j) = 1 => j = 0
  OBVIOUS
<1> HIDE DEF before, write
<1>8. ASSUME NEW m \in ChatId PROVE InOnePlace(m)'
  <2>1. InOnePlace(m)
    BY DEF OnePlace
  <2>2. ASSUME NEW v \in User, NEW j \in Nat, QueuedAt(v, j, m)'
        PROVE  /\ m \notin chatRoom'
               /\ \A w \in User, k \in Nat : QueuedAt(w, k, m)' => w = v /\ k = j
               /\ \A s \in Screen : m \notin upload'[s]
    <3>1. QueuedAt(v, before(v, j), m) /\ before(v, j) \in Nat
      BY <1>5, <2>2
    <3>2. m \notin chatRoom /\ \A s \in Screen : m \notin upload[s]
      BY <2>1, <3>1 DEF InOnePlace
    <3>3. ASSUME NEW w \in User, NEW k \in Nat, QueuedAt(w, k, m)'
          PROVE  w = v /\ k = j
      <4>1. QueuedAt(w, before(w, k), m) /\ before(w, k) \in Nat
        BY <1>5, <3>3
      <4>2. w = v /\ before(w, k) = before(v, j)
        BY <2>1, <3>1, <4>1 DEF InOnePlace
      <4>3. QED
        BY <4>2, <1>6
    <3>4. ~(write.kind = "message" /\ write.id = m)
      <4>1. SUFFICES ASSUME write.kind = "message", write.id = m PROVE FALSE
        OBVIOUS
      <4>2. v = u /\ before(v, j) = 1
        BY <1>3, <4>1, <2>1, <3>1 DEF InOnePlace
      <4>3. QED
        BY <4>2, <1>5, <1>7, <2>2
    <3>5. QED
      BY <1>2, <3>2, <3>3, <3>4
  <2>3. ASSUME NEW s \in Screen, m \in upload'[s]
        PROVE  /\ m \notin chatRoom'
               /\ \A t \in Screen : m \in upload'[t] => t = s
    <3>1. m \notin chatRoom /\ \A t \in Screen : m \in upload[t] => t = s
      BY <1>2, <2>1, <2>3 DEF InOnePlace
    <3>2. ~(write.kind = "message" /\ write.id = m)
      BY <1>2, <1>3, <2>1, <2>3 DEF InOnePlace
    <3>3. QED
      BY <1>2, <3>1, <3>2
  <2>4. QED
    BY <2>2, <2>3 DEF InOnePlace
<1>9. QED
  BY <1>4, <1>8 DEF OnePlace, ChatId

-----------------------------------------------------------------------------
(* What each action does to the phases.                                    *)

\* Every message but m is where it was when m has been stored.
LEMMA StoreOthers ==
  ASSUME IInv, Len(created') \in Nat, NEW s \in Screen,
         NEW m \in 1 .. Len(created'), StoreMessage(s, m),
         \A t \in Screen : upload'[t] \ {m} = upload[t] \ {m}
  PROVE  /\ \A n : n # m => (Pending(n)' <=> Pending(n))
         /\ Pending(m)'
<1>1. \A v \in User : \A j, n : QueuedAt(v, j, n)' <=>
              \/ QueuedAt(v, j, n)
              \/ v = senderId[s] /\ j = Len(outbox[v]) + 1 /\ n = m
  BY StoreQueues
<1>2. ASSUME NEW n, n # m PROVE Pending(n)' <=> Pending(n)
  <2>1. \A v \in User : \A j : QueuedAt(v, j, n)' <=> QueuedAt(v, j, n)
    BY <1>1, <1>2
  <2>2. \A t \in Screen : n \in upload'[t] <=> n \in upload[t]
    BY <1>2
  <2>3. QED
    BY <2>1, <2>2, QueuedAtNat DEF Pending, QueuedAt
<1>3. Pending(m)'
  <2>1. senderId[s] \in User
    BY ScreenRoom
  <2>2. PICK j : j = Len(outbox[senderId[s]]) + 1
    OBVIOUS
  <2>3. QueuedAt(senderId[s], j, m)'
    BY <1>1, <2>1, <2>2
  <2>4. QED
    BY <2>1, <2>3 DEF Pending, QueuedAt
<1>4. QED
  BY <1>2, <1>3

LEMMA SendTextLife ==
  ASSUME LInv, IInv', NEW s \in Screen, SendText(s)
  PROVE  OnePlace' /\ \E n \in ChatId : Life!Compose(n)
<1>1. PICK n : n = NewId
  OBVIOUS
<1>2. /\ NewMessage(senderId[s], recieverId[s], "TEXT")
      /\ StoreMessage(s, n)
      /\ UNCHANGED <<chatRoom, isRead, upload>>
  BY <1>1 DEF SendText
<1>3. IInv /\ OnePlace /\ senderId[s] \in User /\ recieverId[s] \in User
      /\ senderId[s] # recieverId[s]
  BY ScreenAssumption DEF LInv, RInv
<1>4. /\ Len(created) \in Nat /\ Len(created') = Len(created) + 1
      /\ Len(created') \in Nat
      /\ n \in 1 .. Len(created') /\ n \in ChatId
      /\ n > Len(created) /\ ~(n > Len(created'))
      /\ \A m \in ChatId \ {n} : m > Len(created') <=> m > Len(created)
  <2>1. /\ Len(created') = Len(created) + 1 /\ n \in 1 .. Len(created')
        /\ n \in ChatId /\ Len(created) \in Nat
    BY <1>1, <1>2, <1>3, NewMessageStep, Ranges DEF IInv
  <2>2. QED
    BY <1>1, <2>1 DEF NewId, ChatId
<1>5. /\ n \notin chatRoom /\ n \notin isRead
      /\ \A u \in User : \A i \in Nat : ~QueuedAt(u, i, n)
      /\ \A t \in Screen : n \notin upload[t]
  BY <1>1, <1>3, NewIsNowhere
<1>6. OnePlace'
  BY <1>2, <1>3, <1>4, <1>5, StorePlace
<1>7. (\A m : m # n => (Pending(m)' <=> Pending(m))) /\ Pending(n)'
  BY <1>2, <1>3, <1>4, StoreOthers
<1>8. \A m \in ChatId \ {n} : PhaseOf(m)' = PhaseOf(m)
  BY <1>2, <1>4, <1>7, SamePhase
<1>9. PhaseOf(n) = "none" /\ PhaseOf(n)' = "pending"
  BY <1>2, <1>4, <1>5, <1>7 DEF PhaseOf
<1>10. Life!Move(n, "none", "pending")
  BY <1>3, <1>4, <1>8, <1>9, PhaseMoves
<1>11. QED
  BY <1>4, <1>6, <1>10 DEF Life!Compose

LEMMA SendMediaLife ==
  ASSUME LInv, IInv', NEW s \in Screen, SendMedia(s)
  PROVE  OnePlace' /\ \E n \in ChatId : Life!Compose(n)
<1>1. PICK n : n = NewId
  OBVIOUS
<1>2. /\ NewMessage(senderId[s], recieverId[s], "MEDIA")
      /\ upload' = [upload EXCEPT ![s] = upload[s] \cup {n}]
      /\ UNCHANGED <<chatRoom, isRead, outbox>>
  BY <1>1 DEF SendMedia
<1>3. IInv /\ OnePlace /\ senderId[s] \in User /\ recieverId[s] \in User
      /\ senderId[s] # recieverId[s] /\ upload \in [Screen -> SUBSET ChatId]
  BY ScreenAssumption DEF LInv, RInv, IInv, ViewInv
<1>4. /\ n \in ChatId /\ n > Len(created) /\ ~(n > Len(created'))
      /\ \A m \in ChatId \ {n} : m > Len(created') <=> m > Len(created)
  <2>1. /\ Len(created') = Len(created) + 1 /\ n \in 1 .. Len(created')
        /\ n \in ChatId /\ Len(created) \in Nat
    BY <1>1, <1>2, <1>3, NewMessageStep, Ranges DEF IInv
  <2>2. QED
    BY <1>1, <2>1 DEF NewId, ChatId
<1>5. n \notin chatRoom /\ n \notin isRead
  BY <1>1, <1>3, NewIsNowhere
<1>6. OnePlace'
  BY <1>3, SendMediaPlace
<1>7. ASSUME NEW m \in ChatId \ {n} PROVE PhaseOf(m)' = PhaseOf(m)
  <2>1. Pending(m)' <=> Pending(m)
    <3>1. \A t \in Screen : m \in upload'[t] <=> m \in upload[t]
      BY <1>2, <1>3, <1>7
    <3>2. QED
      BY <1>2, <3>1 DEF Pending, QueuedAt, SetMessage
  <2>2. QED
    BY <1>2, <1>4, <2>1, SamePhase
<1>8. Pending(n)'
  BY <1>2, <1>3 DEF Pending
<1>9. PhaseOf(n) = "none" /\ PhaseOf(n)' = "pending"
  BY <1>2, <1>4, <1>5, <1>8 DEF PhaseOf
<1>10. Life!Move(n, "none", "pending")
  BY <1>3, <1>4, <1>7, <1>9, PhaseMoves
<1>11. QED
  BY <1>4, <1>6, <1>10 DEF Life!Compose

\* An upload that ends well moves the message from one place to another.
LEMMA UploadSucceedsLife ==
  ASSUME LInv, IInv', NEW s \in Screen, NEW m \in upload[s], UploadSucceeds(s, m)
  PROVE  OnePlace' /\ UNCHANGED Phase
<1>1. /\ StoreMessage(s, m)
      /\ upload' = [upload EXCEPT ![s] = upload[s] \ {m}]
      /\ UNCHANGED <<created, chatRoom, isRead>>
  BY DEF UploadSucceeds
<1>2. IInv /\ OnePlace /\ upload \in [Screen -> SUBSET ChatId]
  BY DEF LInv, RInv, IInv, ViewInv
<1>3. /\ Len(created') \in Nat /\ m \in 1 .. Len(created') /\ m \in ChatId
      /\ ~(m > Len(created))
  BY <1>1, <1>2, Ranges DEF ChatId
<1>4. /\ m \notin chatRoom /\ m \notin isRead
      /\ \A u \in User : \A i \in Nat : ~QueuedAt(u, i, m)
      /\ \A t \in Screen : m \in upload[t] => t = s
  BY <1>2, <1>3, Ranges DEF OnePlace, InOnePlace
<1>5. \A t \in Screen : /\ m \notin upload'[t] /\ upload'[t] \subseteq upload[t]
                        /\ upload'[t] \ {m} = upload[t] \ {m}
  BY <1>1, <1>2, <1>4
<1>6. OnePlace'
  BY <1>1, <1>2, <1>3, <1>4, <1>5, StorePlace
<1>7. (\A n : n # m => (Pending(n)' <=> Pending(n))) /\ Pending(m)'
  BY <1>1, <1>2, <1>3, <1>5, StoreOthers
<1>8. Pending(m)
  BY DEF Pending
<1>9. \A n \in ChatId : PhaseOf(n)' = PhaseOf(n)
  BY <1>1, <1>7, <1>8, SamePhase
<1>10. QED
  BY <1>2, <1>6, <1>9, PhaseStays

\* One that fails loses it.
LEMMA UploadFailsLife ==
  ASSUME LInv, IInv', NEW s \in Screen, NEW m \in upload[s], UploadFails(s, m)
  PROVE  OnePlace' /\ Life!Lose({m})
<1>1. /\ upload' = [upload EXCEPT ![s] = upload[s] \ {m}]
      /\ UNCHANGED <<created, chatRoom, isRead, outbox>>
  BY DEF UploadFails, storeVars
<1>2. IInv /\ OnePlace /\ upload \in [Screen -> SUBSET ChatId]
  BY DEF LInv, RInv, IInv, ViewInv
<1>3. m \in ChatId /\ ~(m > Len(created))
  BY <1>2, Ranges DEF ChatId
<1>4. /\ m \notin chatRoom /\ m \notin isRead
      /\ \A u \in User : \A i \in Nat : ~QueuedAt(u, i, m)
      /\ \A t \in Screen : m \in upload[t] => t = s
  BY <1>2, <1>3, Ranges DEF OnePlace, InOnePlace
<1>5. \A t \in Screen : /\ m \notin upload'[t] /\ upload'[t] \subseteq upload[t]
                        /\ upload'[t] \ {m} = upload[t] \ {m}
  BY <1>1, <1>2, <1>4
<1>6. OnePlace'
  BY <1>1, <1>2, <1>5, SilentPlace
<1>7. Pending(m) /\ ~Pending(m)'
  <2>1. \A u \in User : \A i \in 1 .. Len(outbox[u]) : ~QueuedAt(u, i, m)
    BY <1>4
  <2>2. QED
    BY <1>1, <1>5, <2>1 DEF Pending, QueuedAt, SetMessage
<1>8. ASSUME NEW n \in ChatId \ {m} PROVE PhaseOf(n)' = PhaseOf(n)
  <2>1. \A t \in Screen : n \in upload'[t] <=> n \in upload[t]
    BY <1>5, <1>8
  <2>2. Pending(n)' <=> Pending(n)
    BY <1>1, <2>1 DEF Pending, QueuedAt, SetMessage
  <2>3. QED
    BY <1>1, <2>2, SamePhase
<1>9. PhaseOf(m) = "pending" /\ PhaseOf(m)' = "lost"
  BY <1>1, <1>3, <1>4, <1>7 DEF PhaseOf
<1>10. Life!Move(m, "pending", "lost")
  BY <1>2, <1>3, <1>8, <1>9, PhaseMoves
<1>11. QED
  BY <1>6, <1>10, OneLost

\* Receipts are no messages.
LEMMA MessageSnapshotLife ==
  ASSUME LInv, IInv', NEW s \in Screen, NEW i \in ListenerIndex,
         MessageSnapshot(s, i)
  PROVE  OnePlace' /\ UNCHANGED Phase
<1>1. IInv /\ OnePlace /\ UNCHANGED <<created, chatRoom, isRead, upload>>
  BY DEF LInv, RInv, MessageSnapshot
<1>2. ASSUME NEW m \in ChatId PROVE PhaseOf(m)' = PhaseOf(m)
  <2>1. \A u \in User : \A j : QueuedAt(u, j, m)' <=> QueuedAt(u, j, m)
    BY <1>1, ReceiptQueues
  <2>2. Pending(m)' <=> Pending(m)
    BY <1>1, <2>1, SamePending
  <2>3. QED
    BY <1>1, <2>2, SamePhase
<1>3. QED
  BY <1>1, <1>2, MessageSnapshotPlace, PhaseStays

\* The backend takes a message, marks one, or takes an index.
LEMMA CommitLife ==
  ASSUME LInv, IInv', NEW u \in User, Commit(u), UNCHANGED screenVars
  PROVE  /\ OnePlace'
         /\ \/ \E m \in ChatId : Life!Store(m) \/ Life!MarkRead(m)
            \/ UNCHANGED Phase
<1> DEFINE write == Head(outbox[u])
<1>1. IInv /\ OnePlace /\ MarksInv
  BY DEF LInv, RInv
<1>2. /\ 1 \in 1 .. Len(outbox[u]) /\ write = outbox[u][1]
      /\ write \in GoodWrite(Len(created))
  BY <1>1, Removed, HeadGood DEF Commit, IInv
<1>3. /\ UNCHANGED <<created, upload>>
      /\ chatRoom' = IF write.kind = "message" THEN chatRoom \cup {write.id}
                                               ELSE chatRoom
      /\ isRead' = CASE write.kind = "message" -> isRead \ {write.id}
                     [] write.kind = "read" /\ write.id \in chatRoom ->
                          isRead \cup {write.id}
                     [] OTHER -> isRead
  BY DEF Commit, screenVars
<1>4. OnePlace'
  BY <1>1, CommitPlace
<1>5. \A n : ~(write.kind = "message" /\ write.id = n) =>
        (Pending(n)' <=> Pending(n))
  <2>1. SUFFICES ASSUME NEW n, ~(write.kind = "message" /\ write.id = n)
                 PROVE  Pending(n)' <=> Pending(n)
    OBVIOUS
  <2>2. ASSUME NEW v \in User, NEW j \in 1 .. Len(outbox'[v]), QueuedAt(v, j, n)'
        PROVE  \E k \in 1 .. Len(outbox[v]) : QueuedAt(v, k, n)
    <3>1. QueuedAt(v, IF v = u THEN j + 1 ELSE j, n)
      BY <1>1, <2>2, CommitQueues
    <3>2. QED
      BY <3>1 DEF QueuedAt
  <2>3. ASSUME NEW v \in User, NEW j \in 1 .. Len(outbox[v]), QueuedAt(v, j, n)
        PROVE  \E k \in 1 .. Len(outbox'[v]) : QueuedAt(v, k, n)'
    <3>1. PICK k \in Nat \ {0} : j = IF v = u THEN k + 1 ELSE k
      <4>1. CASE v # u
        BY <4>1
      <4>2. CASE v = u
        <5>1. j # 1
          BY <1>2, <2>1, <2>3, <4>2, SetMessageIs DEF QueuedAt
        <5>2. j - 1 \in Nat \ {0} /\ j = (j - 1) + 1
          BY <5>1
        <5>3. QED
          BY <4>2, <5>2
      <4>3. QED
        BY <4>1, <4>2
    <3>2. QueuedAt(v, k, n)'
      BY <1>1, <2>3, <3>1, CommitQueues
    <3>3. QED
      BY <3>2 DEF QueuedAt
  <2>4. QED
    BY <1>3, <2>2, <2>3 DEF Pending
<1>6. CASE write.kind = "message"
  <2>1. PICK m : m = write.id
    OBVIOUS
  <2>2. QueuedAt(u, 1, m)
    BY <1>1, <1>2, <1>6, <2>1 DEF OnePlace, Plain, QueuedAt
  <2>3. m \in ChatId /\ ~(m > Len(created)) /\ Pending(m)
    <3>1. m \in 1 .. Len(created)
      BY <1>1, <1>2, <2>2, QueuedIsComposed
    <3>2. m \in ChatId
      BY <1>1, <3>1, Ranges
    <3>3. ~(m > Len(created))
      BY <1>1, <3>1, Ranges
    <3>4. Pending(m)
      BY <1>2, <2>2 DEF Pending
    <3>5. QED
      BY <3>2, <3>3, <3>4
  <2>4. m \notin chatRoom /\ m \notin isRead
    BY <1>1, <2>2, <2>3, Ranges DEF OnePlace, InOnePlace
  <2>5. PhaseOf(m) = "pending" /\ PhaseOf(m)' = "stored"
    BY <1>3, <1>6, <2>1, <2>3, <2>4 DEF PhaseOf
  <2>6. ASSUME NEW n \in ChatId \ {m} PROVE PhaseOf(n)' = PhaseOf(n)
    BY <1>3, <1>5, <1>6, <2>1, <2>6, SamePhase
  <2>7. Life!Move(m, "pending", "stored")
    BY <1>1, <2>3, <2>5, <2>6, PhaseMoves
  <2>8. QED
    BY <1>4, <2>3, <2>7 DEF Life!Store
<1>7. CASE write.kind = "read"
  <2>1. PICK m : m = write.id
    OBVIOUS
  <2>2. m \in chatRoom
    BY <1>1, <1>2, <1>7, <2>1 DEF MarksInv, Rightful
  <2>3. m \in ChatId /\ ~(m > Len(created))
    BY <1>1, <2>2, Ranges DEF ChatId
  <2>4. chatRoom' = chatRoom /\ isRead' = isRead \cup {m}
    BY <1>3, <1>7, <2>1, <2>2
  <2>5. ASSUME NEW n \in ChatId \ {m} PROVE PhaseOf(n)' = PhaseOf(n)
    BY <1>3, <1>5, <1>7, <2>4, <2>5, SamePhase
  <2>6. CASE m \in isRead
    <3>1. PhaseOf(m)' = PhaseOf(m)
      BY <1>3, <1>5, <1>7, <2>4, <2>6, SamePhase
    <3>2. QED
      BY <1>1, <1>4, <2>5, <3>1, PhaseStays
  <2>7. CASE m \notin isRead
    <3>1. PhaseOf(m) = "stored" /\ PhaseOf(m)' = "read"
      BY <1>3, <2>2, <2>3, <2>4, <2>7 DEF PhaseOf
    <3>2. Life!Move(m, "stored", "read")
      BY <1>1, <2>3, <2>5, <3>1, PhaseMoves
    <3>3. QED
      BY <1>4, <2>3, <3>2 DEF Life!MarkRead
  <2>8. QED
    BY <2>6, <2>7
<1>8. CASE write.kind = "index"
  <2>1. chatRoom' = chatRoom /\ isRead' = isRead
    BY <1>3, <1>8
  <2>2. \A n \in ChatId : PhaseOf(n)' = PhaseOf(n)
    BY <1>3, <1>5, <1>8, <2>1, SamePhase
  <2>3. QED
    BY <1>1, <1>4, <2>2, PhaseStays
<1>9. QED
  BY <1>2, <1>6, <1>7, <1>8 DEF GoodWrite, Write

\* The end of a process loses what was only there.
LEMMA KillLife ==
  ASSUME LInv, IInv', NEW u \in User, Kill(u)
  PROVE  /\ OnePlace'
         /\ \/ \E lost \in SUBSET ChatId : Life!Lose(lost)
            \/ UNCHANGED Phase
<1>1. IInv /\ OnePlace
  BY DEF LInv, RInv
<1>2. /\ UNCHANGED <<created, chatRoom, isRead>>
      /\ \A s \in Screen : upload'[s] \subseteq upload[s]
  BY DEF Kill, StopProcess
<1>3. OnePlace'
  BY <1>1, KillPlace
<1>4. \A m : Pending(m)' => Pending(m)
  BY <1>1, <1>2, KillQueues DEF Pending, QueuedAt
<1>5. ASSUME NEW m \in ChatId
      PROVE  \/ PhaseOf(m)' = PhaseOf(m)
             \/ PhaseOf(m) = "pending" /\ PhaseOf(m)' = "lost"
  BY <1>2, <1>4, Zenon DEF PhaseOf
<1>6. PICK lost \in SUBSET ChatId :
        \A m \in ChatId : m \in lost <=> PhaseOf(m)' # PhaseOf(m)
  <2>1. {m \in ChatId : PhaseOf(m)' # PhaseOf(m)} \in SUBSET ChatId
    OBVIOUS
  <2>2. QED
    BY <2>1
<1>7. CASE lost = {}
  BY <1>1, <1>3, <1>6, <1>7, PhaseStays
<1>8. CASE lost # {}
  <2>1. PhaseFits /\ PhaseFits'
    BY <1>1, PhaseIs, PhaseIsNext
  <2>2. \A m \in lost : Phase[m] = "pending"
    BY <1>5, <1>6, <2>1 DEF PhaseFits
  <2>3. Phase' = [m \in ChatId |-> IF m \in lost THEN "lost" ELSE Phase[m]]
    BY <1>5, <1>6, <2>1 DEF PhaseFits, ChatId
  <2>4. Life!Lose(lost)
    BY <1>8, <2>2, <2>3 DEF Life!Lose
  <2>5. QED
    BY <1>3, <2>4
<1>9. QED
  BY <1>7, <1>8

-----------------------------------------------------------------------------
(* The theorem.                                                            *)

LEMMA InitLife == Init => LInv /\ Life!Init
<1> SUFFICES ASSUME Init PROVE LInv /\ Life!Init
  OBVIOUS
<1>1. RInv /\ IInv
  BY InitMarks DEF RInv
<1>2. /\ Len(created) = 0 /\ \A u \in User : Len(outbox[u]) = 0
      /\ \A s \in Screen : upload[s] = {}
  BY DEF Init, StoreInit
<1>3. OnePlace
  <2>1. \A u \in User : \A i, m : ~QueuedAt(u, i, m)
    BY <1>2 DEF QueuedAt
  <2>2. QED
    BY <1>2, <2>1 DEF OnePlace, Plain, InOnePlace
<1>4. \A m \in ChatId : PhaseOf(m) = "none"
  BY <1>2 DEF PhaseOf, ChatId
<1>5. Phase = [m \in ChatId |-> "none"]
  BY <1>1, <1>4, PhaseIs DEF PhaseFits
<1>6. QED
  BY <1>1, <1>3, <1>5 DEF LInv, Life!Init

LEMMA StepLife ==
  ASSUME LInv, [Next]_vars
  PROVE  LInv' /\ [Life!Next]_Phase
<1>1. RInv' /\ IInv' /\ IInv /\ OnePlace
  BY StepMarks DEF LInv, RInv
<1>2. SUFFICES OnePlace' /\ [Life!Next]_Phase
  BY <1>1 DEF LInv
<1>3. ASSUME UNCHANGED <<created, chatRoom, isRead, outbox, upload>>
      PROVE  OnePlace' /\ UNCHANGED Phase
  BY <1>1, <1>3, SilentPlace, SilentLife
<1>4. ASSUME NEW s \in Screen, ScreenStep(s)
      PROVE  OnePlace' /\ [Life!Next]_Phase
  <2>1. CASE ViewWillAppear(s) \/ PickImage(s) \/ BackAction(s)
    BY <1>3, <2>1 DEF ViewWillAppear, PickImage, BackAction, storeVars
  <2>2. CASE SendText(s)
    BY <1>1, <2>2, SendTextLife DEF Life!Next
  <2>3. CASE SendMedia(s)
    BY <1>1, <2>3, SendMediaLife DEF Life!Next
  <2>4. CASE UploadEnds(s)
    <3>1. ASSUME NEW m \in upload[s], UploadSucceeds(s, m)
          PROVE  OnePlace' /\ [Life!Next]_Phase
      BY <1>1, <3>1, UploadSucceedsLife
    <3>2. ASSUME NEW m \in upload[s], UploadFails(s, m)
          PROVE  OnePlace' /\ [Life!Next]_Phase
      <4>1. {m} \in SUBSET ChatId
        BY <1>1, Ranges
      <4>2. QED
        BY <1>1, <3>2, <4>1, UploadFailsLife DEF Life!Next
    <3>3. QED
      BY <2>4, <3>1, <3>2 DEF UploadEnds
  <2>5. ASSUME NEW i \in ListenerIndex, Snapshot(s, i)
        PROVE  OnePlace' /\ [Life!Next]_Phase
    <3>1. CASE ConversationSnapshot(s, i)
      BY <1>3, <3>1 DEF ConversationSnapshot, storeVars
    <3>2. CASE MessageSnapshot(s, i)
      BY <1>1, <3>2, MessageSnapshotLife
    <3>3. QED
      BY <2>5, <3>1, <3>2 DEF Snapshot
  <2>6. QED
    BY <1>4, <2>1, <2>2, <2>3, <2>4, <2>5 DEF ScreenStep
<1>5. ASSUME NEW u \in User, Client(u) \/ Kill(u) \/ Launch(u)
      PROVE  OnePlace' /\ [Life!Next]_Phase
  <2>1. CASE Persist(u) /\ UNCHANGED screenVars
    BY <1>3, <2>1 DEF Persist, screenVars
  <2>2. CASE Commit(u) /\ UNCHANGED screenVars
    BY <1>1, <2>2, CommitLife DEF Life!Next
  <2>3. CASE Kill(u)
    BY <1>1, <2>3, KillLife DEF Life!Next
  <2>4. CASE Launch(u)
    BY <1>3, <2>4 DEF Launch, StartProcess, screenVars
  <2>5. QED
    BY <1>5, <2>1, <2>2, <2>3, <2>4 DEF Client
<1>6. CASE UNCHANGED vars
  BY <1>3, <1>6 DEF vars, storeVars, screenVars
<1>7. QED
  BY <1>4, <1>5, <1>6 DEF Next

\* Whatever is sent, uploaded, marked, killed and restarted, each message goes
\* the way of MessageLife: it reaches the backend at most once, stays read, and
\* is lost only before, for ever.
THEOREM ImplementsLife == Spec => MessagesLive
<1>1. LInv /\ [Next]_vars => LInv' /\ [Life!Next]_Phase
  BY StepLife
<1>2. QED
  BY <1>1, InitLife, PTL DEF Spec, MessagesLive, Life!Spec

-----------------------------------------------------------------------------
(***************************************************************************)
(* The rooms of stored messages in the index (ChatRoomAudit).              *)
(***************************************************************************)

IndexQueued(x, room) ==
  \E u \in User : \E i \in 1 .. Len(outbox[u]) :
    /\ outbox[u][i].kind = "index" /\ outbox[u][i].id = x
    /\ room \in Range(outbox[u][i].rooms)

\* The index of x has the room, is about to have it, or has lost it.
Covered(x, room) == \/ room \in Range(conversation[x])
                    \/ <<x, room>> \in dropped
                    \/ IndexQueued(x, room)

BothCovered(room) == \A x \in Members(room) : Covered(x, room)

\* MissingRoomWasDropped is about stored messages; it needs the messages that
\* are queued, and the copies of the screens, which decide what is written.
AuditInv ==
  /\ \A m \in chatRoom : BothCovered(created[m].roomId)
  /\ \A u \in User : \A i \in 1 .. Len(outbox[u]) :
       outbox[u][i].kind = "message" =>
         BothCovered(created[outbox[u][i].id].roomId)
  /\ \A s \in Screen :
       /\ \A room \in Range(senderConversationId[s]) : Covered(senderId[s], room)
       /\ \A room \in Range(receiverConversationId[s]) : Covered(recieverId[s], room)

\* What a device that sends m queues: nothing is taken out, and what is new is
\* the message and the indexes that lack the room.
LEMMA StoreAppends ==
  ASSUME IInv, IInv', NEW s \in Screen, NEW m \in 1 .. Len(created'),
         StoreMessage(s, m)
  PROVE  /\ \A u \in User : \A i \in 1 .. Len(outbox[u]) :
              i \in 1 .. Len(outbox'[u]) /\ outbox'[u][i] = outbox[u][i]
         /\ \A u \in User : \A i \in 1 .. Len(outbox'[u]) :
              \/ \E j \in 1 .. Len(outbox[u]) : outbox'[u][i] = outbox[u][j]
              \/ outbox'[u][i].kind # "message"
              \/ outbox'[u][i] = SetMessage(m)
         /\ \A k \in 1 .. Len(IndexWrites(s)) :
              \E i \in 1 .. Len(outbox'[senderId[s]]) :
                outbox'[senderId[s]][i] = IndexWrites(s)[k]
<1> DEFINE I == IndexWrites(s)
           ws == <<SetMessage(m)>> \o I
           u == senderId[s]
           n == Len(created')
<1>1. I \in Seq(GoodWrite(n)) /\ n \in Nat
  BY IndexWritesGood, LenProperties DEF IInv, CopiesInv, ServerInv
<1>2. <<SetMessage(m)>> \in Seq(GoodWrite(n)) /\ Len(<<SetMessage(m)>>) = 1
  BY <1>1, MessageWriteGood
<1>3. /\ ws \in Seq(GoodWrite(n)) /\ Len(ws) = 1 + Len(I) /\ Len(I) \in Nat
      /\ \A k \in 1 .. Len(I) : ws[1 + k] = I[k]
  BY <1>1, <1>2, ConcatProperties, ConcatParts, LenProperties
<1>4. Issue(u, ws) /\ u \in User
  BY ScreenRoom DEF StoreMessage
<1>5. \A v \in User : \A i \in 1 .. Len(outbox'[v]) :
        \/ \E j \in 1 .. Len(outbox[v]) : outbox'[v][i] = outbox[v][j]
        \/ outbox'[v][i].kind # "message"
        \/ outbox'[v][i] = SetMessage(m)
  BY <1>1, StoreQueues
<1> HIDE DEF I, ws, u, n
<1>6. /\ Len(outbox[u]) \in Nat /\ Len(ws) \in Nat
      /\ Len(outbox'[u]) = Len(outbox[u]) + Len(ws)
      /\ \A j \in 1 .. Len(outbox[u]) : outbox'[u][j] = outbox[u][j]
      /\ \A k \in 1 .. Len(ws) : outbox'[u][Len(outbox[u]) + k] = ws[k]
      /\ \A v \in User \ {u} : outbox'[v] = outbox[v]
  BY <1>3, <1>4, IssueParts
<1>7. /\ \A j \in 1 .. Len(outbox[u]) : j \in 1 .. Len(outbox'[u])
      /\ \A k \in 1 .. Len(I) : /\ 1 + k \in 1 .. Len(ws)
                                /\ Len(outbox[u]) + (1 + k) \in 1 .. Len(outbox'[u])
  <2> DEFINE a == Len(outbox[u])
             b == Len(I)
             c == Len(outbox'[u])
             d == Len(ws)
  <2>1. a \in Nat /\ b \in Nat /\ d = 1 + b /\ c = a + d
    BY <1>3, <1>6
  <2> HIDE DEF a, b, c, d
  <2>2. /\ \A j \in 1 .. a : j \in 1 .. c
        /\ \A k \in 1 .. b : 1 + k \in 1 .. d /\ a + (1 + k) \in 1 .. c
    BY <2>1
  <2>3. QED
    BY <2>2 DEF a, b, c, d
<1>8. \A v \in User : \A i \in 1 .. Len(outbox[v]) :
        i \in 1 .. Len(outbox'[v]) /\ outbox'[v][i] = outbox[v][i]
  BY <1>6, <1>7
<1>9. \A k \in 1 .. Len(I) : outbox'[u][Len(outbox[u]) + (1 + k)] = I[k]
  BY <1>3, <1>6, <1>7
<1>10. \A k \in 1 .. Len(I) : \E i \in 1 .. Len(outbox'[u]) : outbox'[u][i] = I[k]
  BY <1>7, <1>9
<1>11. QED
  BY <1>5, <1>8, <1>10 DEF I, u

\* The queue of a device only grows at its end, unless the backend takes its
\* first write or the process ends.
LEMMA QueueKept ==
  ASSUME IInv, [Next]_vars, NEW u \in User, ~Commit(u), ~Kill(u),
         NEW i \in 1 .. Len(outbox[u])
  PROVE  i \in 1 .. Len(outbox'[u]) /\ outbox'[u][i] = outbox[u][i]
<1>1. IInv'
  BY StepInv
<1>2. CASE \E s \in Screen : SendText(s)
  <2>1. PICK s \in Screen : SendText(s)
    BY <1>2
  <2>2. StoreMessage(s, NewId) /\ NewId \in 1 .. Len(created')
    <3>1. NewMessage(senderId[s], recieverId[s], "TEXT") /\ StoreMessage(s, NewId)
      BY <2>1 DEF SendText
    <3>2. QED
      BY <3>1, CreatedGrows
  <2>3. QED
    BY <1>1, <2>2, StoreAppends
<1>3. CASE \E s \in Screen : \E m \in upload[s] : UploadSucceeds(s, m)
  <2>1. PICK s \in Screen : \E m \in upload[s] : UploadSucceeds(s, m)
    BY <1>3
  <2>2. PICK m \in upload[s] : UploadSucceeds(s, m)
    BY <2>1
  <2>3. StoreMessage(s, m) /\ m \in 1 .. Len(created')
    BY <2>2, Ranges DEF UploadSucceeds, ChatId
  <2>4. QED
    BY <1>1, <2>3, StoreAppends
<1>4. CASE \E s \in Screen : \E k \in ListenerIndex : MessageSnapshot(s, k)
  <2>1. PICK s \in Screen, k \in ListenerIndex : MessageSnapshot(s, k)
    BY <1>4
  <2> DEFINE on == listener[s][k].on
  <2>2. on \in {"room", "untitled"}
    BY <2>1 DEF MessageSnapshot
  <2>3. PICK entries \in CurrentSnapshot(s, on) :
          \E order \in SetToSeqs(Receipts(s, entries)) :
            Issue(senderId[s], [n \in DOMAIN order |-> UpdateRead(order[n])])
    BY <2>1 DEF MessageSnapshot
  <2>4. PICK order \in SetToSeqs(Receipts(s, entries)) :
          Issue(senderId[s], [n \in DOMAIN order |-> UpdateRead(order[n])])
    BY <2>3
  <2> DEFINE ws == [n \in DOMAIN order |-> UpdateRead(order[n])]
  <2>5. ws \in Seq(GoodWrite(Len(created)))
    BY <2>2, <2>3, ReceiptWrites
  <2>6. Issue(senderId[s], ws) /\ senderId[s] \in User
    BY <2>4, ScreenRoom
  <2> HIDE DEF ws, on
  <2>7. /\ Len(outbox[senderId[s]]) \in Nat /\ Len(ws) \in Nat
        /\ Len(outbox'[senderId[s]]) = Len(outbox[senderId[s]]) + Len(ws)
        /\ \A j \in 1 .. Len(outbox[senderId[s]]) :
             outbox'[senderId[s]][j] = outbox[senderId[s]][j]
        /\ \A v \in User \ {senderId[s]} : outbox'[v] = outbox[v]
    BY <2>5, <2>6, IssueParts
  <2>8. CASE u = senderId[s]
    BY <2>7, <2>8
  <2>9. CASE u # senderId[s]
    BY <2>7, <2>9
  <2>10. QED
    BY <2>8, <2>9
<1>5. CASE \E v \in User \ {u} : Commit(v)
  <2>1. PICK v \in User \ {u} : Commit(v)
    BY <1>5
  <2>2. outbox'[u] = outbox[u]
    BY <2>1, Removed
  <2>3. QED
    BY <2>2
<1>6. CASE \E v \in User \ {u} : Kill(v)
  <2>1. PICK v \in User \ {u} : Kill(v)
    BY <1>6
  <2>2. outbox'[u] = outbox[u]
    BY <2>1 DEF Kill, StopProcess, IInv, DeviceInv
  <2>3. QED
    BY <2>2
<1>7. CASE UNCHANGED outbox
  BY <1>7
<1>8. CASE \/ \E s \in Screen : \/ ViewWillAppear(s) \/ PickImage(s)
                                \/ SendMedia(s) \/ BackAction(s)
                                \/ \E m \in upload[s] : UploadFails(s, m)
                                \/ \E k \in ListenerIndex : ConversationSnapshot(s, k)
           \/ \E v \in User : Persist(v) \/ Launch(v)
           \/ UNCHANGED vars
  <2>1. UNCHANGED outbox
    BY <1>8 DEF ViewWillAppear, PickImage, SendMedia, BackAction, UploadFails,
       ConversationSnapshot, Persist, Launch, StartProcess, vars, storeVars
  <2>2. QED
    BY <1>7, <2>1
<1>9. QED
  BY <1>2, <1>3, <1>4, <1>5, <1>6, <1>8
     DEF Next, ScreenStep, UploadEnds, Snapshot, Client

\* What the index of a user has, is to get or has lost stays one of the three.
LEMMA CoveredStays ==
  ASSUME IInv, [AuditNext]_auditVars, NEW x \in User, NEW room, Covered(x, room)
  PROVE  Covered(x, room)'
<1>1. [Next]_vars /\ dropped \subseteq dropped'
  BY DEF AuditNext, auditVars
<1>2. CASE AuditNext
  <2>1. dropped' = dropped \cup Overwritten \cup LostWithProcess
    BY <1>2 DEF AuditNext
  <2>2. CASE room \in Range(conversation[x])
    <3>1. CASE room \in Range(conversation'[x])
      BY <3>1 DEF Covered
    <3>2. CASE room \notin Range(conversation'[x])
      <4>1. <<x, room>> \in Overwritten
        BY <2>2, <3>2 DEF Overwritten
      <4>2. QED
        BY <2>1, <4>1 DEF Covered
    <3>3. QED
      BY <3>1, <3>2
  <2>3. CASE <<x, room>> \in dropped
    BY <1>1, <2>3 DEF Covered
  <2>4. CASE IndexQueued(x, room)
    <3>1. PICK u \in User : \E i \in 1 .. Len(outbox[u]) :
            /\ outbox[u][i].kind = "index" /\ outbox[u][i].id = x
            /\ room \in Range(outbox[u][i].rooms)
      BY <2>4 DEF IndexQueued
    <3>2. PICK i \in 1 .. Len(outbox[u]) :
            /\ outbox[u][i].kind = "index" /\ outbox[u][i].id = x
            /\ room \in Range(outbox[u][i].rooms)
      BY <3>1
    <3>3. CASE ~Commit(u) /\ ~Kill(u)
      <4>1. i \in 1 .. Len(outbox'[u]) /\ outbox'[u][i] = outbox[u][i]
        BY <1>1, <3>3, QueueKept
      <4>2. QED
        BY <3>2, <4>1 DEF Covered, IndexQueued
    <3>4. CASE Commit(u)
      <4>1. /\ 1 \in 1 .. Len(outbox[u]) /\ Head(outbox[u]) = outbox[u][1]
            /\ Len(outbox'[u]) = Len(outbox[u]) - 1
            /\ \A j \in 1 .. Len(outbox'[u]) :
                 j + 1 \in 1 .. Len(outbox[u]) /\ outbox'[u][j] = outbox[u][j + 1]
        BY <3>4, Removed
      <4>2. CASE i = 1
        <5>1. Head(outbox[u]).kind = "index" /\ Head(outbox[u]).id = x
          BY <3>2, <4>1, <4>2
        <5>2. conversation' = [conversation EXCEPT ![x] = Head(outbox[u]).rooms]
          BY <3>4, <5>1 DEF Commit
        <5>3. conversation'[x] = outbox[u][i].rooms
          BY <4>1, <4>2, <5>2 DEF IInv, ServerInv
        <5>4. QED
          BY <3>2, <5>3 DEF Covered
      <4>3. CASE i # 1
        <5>1. i - 1 \in 1 .. Len(outbox'[u]) /\ (i - 1) + 1 = i
          BY <4>1, <4>3, Ranges
        <5>2. outbox'[u][i - 1] = outbox[u][i]
          BY <4>1, <5>1
        <5>3. QED
          BY <3>2, <5>1, <5>2 DEF Covered, IndexQueued
      <4>4. QED
        BY <4>2, <4>3
    <3>5. CASE Kill(u)
      <4>1. /\ StopProcess(u) /\ running[u] /\ ~running'[u]
            /\ saved[u] \in Nat /\ saved[u] <= Len(outbox[u]) /\ Len(outbox[u]) \in Nat
            /\ outbox[u] \in Seq(GoodWrite(Len(created)))
        <5>1. StopProcess(u)
          BY <3>5 DEF Kill
        <5>2. running[u] /\ ~running'[u]
          BY <5>1 DEF StopProcess, IInv, DeviceInv
        <5>3. QED
          BY <5>1, <5>2, OutboxLen
      <4>2. CASE i <= saved[u]
        <5>1. outbox' = [outbox EXCEPT ![u] = SubSeq(outbox[u], 1, saved[u])]
          BY <4>1 DEF StopProcess
        <5>2. outbox'[u] = SubSeq(outbox[u], 1, saved[u])
          BY <5>1 DEF IInv, DeviceInv
        <5>3. /\ Len(SubSeq(outbox[u], 1, saved[u])) = saved[u]
              /\ \A j \in 1 .. saved[u] :
                   SubSeq(outbox[u], 1, saved[u])[j] = outbox[u][j]
          <6>1. \A j \in 1 .. saved[u] : outbox[u][j] \in GoodWrite(Len(created))
            BY <4>1, ElementOfSeq
          <6>2. QED
            BY <4>1, <6>1, SubSeqProperties
        <5>4. i \in 1 .. saved[u]
          BY <4>1, <4>2
        <5>5. QED
          BY <3>2, <5>2, <5>3, <5>4 DEF Covered, IndexQueued
      <4>3. CASE i > saved[u]
        <5>1. i \in Queued(u, Len(outbox[u]), "index")
          BY <3>2 DEF Queued
        <5>2. room \in Room
          BY <5>1, <3>2, QueuedIndex DEF IndexOf, Range, IInv
        <5>3. <<x, room>> \in LostWithProcess
          BY <3>2, <4>1, <4>3, <5>1, <5>2 DEF LostWithProcess
        <5>4. QED
          BY <2>1, <5>3 DEF Covered
      <4>4. i <= saved[u] \/ i > saved[u]
        BY <4>1
      <4>5. QED
        BY <4>2, <4>3, <4>4
    <3>6. QED
      BY <3>3, <3>4, <3>5
  <2>5. QED
    BY <2>2, <2>3, <2>4 DEF Covered
<1>3. CASE UNCHANGED auditVars
  BY <1>3 DEF auditVars, vars, storeVars, Covered, IndexQueued
<1>4. QED
  BY <1>2, <1>3

\* A screen that stores a message of its room writes every index whose copy
\* lacks the room.
LEMMA LackingIndexIsWritten ==
  ASSUME CopiesInv, NEW s \in Screen
  PROVE  /\ ~Contains(senderConversationId[s], chatRoomTitle(s)) =>
              \E k \in 1 .. Len(IndexWrites(s)) :
                IndexWrites(s)[k] =
                  SetConversation(senderId[s],
                    Append(senderConversationId[s], chatRoomTitle(s)))
         /\ ~Contains(receiverConversationId[s], chatRoomTitle(s)) =>
              \E k \in 1 .. Len(IndexWrites(s)) :
                IndexWrites(s)[k] =
                  SetConversation(recieverId[s],
                    Append(receiverConversationId[s], chatRoomTitle(s)))
<1> DEFINE room == chatRoomTitle(s)
           w1 == SetConversation(senderId[s], Append(senderConversationId[s], room))
           w2 == SetConversation(recieverId[s],
                                 Append(receiverConversationId[s], room))
           a == IF Contains(senderConversationId[s], room) THEN <<>> ELSE <<w1>>
           b == IF Contains(receiverConversationId[s], room) THEN <<>> ELSE <<w2>>
<1>1. IndexWrites(s) = a \o b
  BY DEF IndexWrites
<1> HIDE DEF w1, w2
<1>2. a = <<>> \/ a = <<w1>>
  OBVIOUS
<1>3. b = <<>> \/ b = <<w2>>
  OBVIOUS
<1>4. ASSUME ~Contains(senderConversationId[s], room)
      PROVE  \E k \in 1 .. Len(a \o b) : (a \o b)[k] = w1
  <2>1. a = <<w1>>
    BY <1>4
  <2> HIDE DEF a, b
  <2>2. 1 \in 1 .. Len(a \o b) /\ (a \o b)[1] = w1
    BY <1>3, <2>1
  <2>3. QED
    BY <2>2
<1>5. ASSUME ~Contains(receiverConversationId[s], room)
      PROVE  \E k \in 1 .. Len(a \o b) : (a \o b)[k] = w2
  <2>1. b = <<w2>>
    BY <1>5
  <2> HIDE DEF a, b
  <2>2. CASE a = <<>>
    <3>1. 1 \in 1 .. Len(a \o b) /\ (a \o b)[1] = w2
      BY <2>1, <2>2
    <3>2. QED
      BY <3>1
  <2>3. CASE a = <<w1>>
    <3>1. 2 \in 1 .. Len(a \o b) /\ (a \o b)[2] = w2
      BY <2>1, <2>3
    <3>2. QED
      BY <3>1
  <2>4. QED
    BY <1>2, <2>2, <2>3
<1> HIDE DEF a, b
<1>6. QED
  BY <1>1, <1>4, <1>5 DEF w1, w2

\* An index whose copy has the room was, or is, on its way; one that lacks it
\* gets written.
LEMMA StoreCovers ==
  ASSUME IInv, AuditInv, IInv', [AuditNext]_auditVars, NEW s \in Screen,
         NEW m \in 1 .. Len(created'), StoreMessage(s, m)
  PROVE  BothCovered(chatRoomTitle(s))'
<1> DEFINE room == chatRoomTitle(s)
<1>1. /\ senderId[s] \in User /\ recieverId[s] \in User /\ room \in Room
      /\ Members(room) = {senderId[s], recieverId[s]}
  BY ScreenRoom
<1>2. CopiesInv
  BY DEF IInv
<1>3. \A w : \A k \in 1 .. Len(IndexWrites(s)) : IndexWrites(s)[k] = w =>
        \E i \in 1 .. Len(outbox'[senderId[s]]) : outbox'[senderId[s]][i] = w
  BY StoreAppends
<1>4. ASSUME NEW x \in User, NEW rooms, IndexOf(x, rooms),
             \A q \in Range(rooms) : Covered(x, q),
             ~Contains(rooms, room) =>
               \E k \in 1 .. Len(IndexWrites(s)) :
                 IndexWrites(s)[k] = SetConversation(x, Append(rooms, room))
      PROVE  Covered(x, room)'
  <2>1. CASE Contains(rooms, room)
    <3>1. room \in Range(rooms)
      BY <1>4, <2>1, LenProperties DEF Contains, Range, IndexOf
    <3>2. Covered(x, room)
      BY <1>4, <3>1
    <3> HIDE DEF room
    <3>3. QED
      BY <3>2, CoveredStays
  <2>2. CASE ~Contains(rooms, room)
    <3> DEFINE w == SetConversation(x, Append(rooms, room))
    <3>1. PICK i \in 1 .. Len(outbox'[senderId[s]]) : outbox'[senderId[s]][i] = w
      BY <1>3, <1>4, <2>2
    <3>2. w.kind = "index" /\ w.id = x /\ w.rooms = Append(rooms, room)
      BY DEF SetConversation
    <3>3. room \in Range(Append(rooms, room))
      BY <1>1, <1>4, RangeAppend DEF IndexOf
    <3> HIDE DEF w, room
    <3>4. IndexQueued(x, room)'
      BY <1>1, <3>1, <3>2, <3>3 DEF IndexQueued
    <3>5. QED
      BY <3>4 DEF Covered
  <2>3. QED
    BY <2>1, <2>2
<1>5. Covered(senderId[s], room)'
  BY <1>1, <1>2, <1>4, LackingIndexIsWritten DEF CopiesInv, AuditInv
<1>6. Covered(recieverId[s], room)'
  BY <1>1, <1>2, <1>4, LackingIndexIsWritten DEF CopiesInv, AuditInv
<1>7. QED
  BY <1>1, <1>5, <1>6 DEF BothCovered, chatRoomTitle

LEMMA BothStay ==
  ASSUME IInv, [AuditNext]_auditVars, NEW m \in 1 .. Len(created),
         created'[m] = created[m], BothCovered(created[m].roomId)
  PROVE  BothCovered(created[m].roomId)'
<1>1. created[m].roomId \in Room
  <2>1. created \in Seq(Message)
    BY DEF IInv, ServerInv
  <2>2. created[m] \in Message
    BY <2>1, ElementOfSeq
  <2>3. QED
    BY <2>2 DEF Message
<1>2. \A x \in Members(created[m].roomId) : x \in User
  BY <1>1 DEF Room, Members
<1>3. PICK room : room = created[m].roomId
  OBVIOUS
<1>4. \A x \in Members(room) : Covered(x, room)'
  BY <1>2, <1>3, CoveredStays DEF BothCovered
<1>5. QED
  BY <1>3, <1>4 DEF BothCovered

\* New messages leave the others alone.
LEMMA CreatedStays ==
  ASSUME IInv, [Next]_vars, NEW m \in 1 .. Len(created)
  PROVE  created'[m] = created[m]
<1>1. CASE \E s \in Screen : SendText(s) \/ SendMedia(s)
  <2>1. PICK s \in Screen : SendText(s) \/ SendMedia(s)
    BY <1>1
  <2>2. \/ NewMessage(senderId[s], recieverId[s], "TEXT")
        \/ NewMessage(senderId[s], recieverId[s], "MEDIA")
    BY SMTT(40), <2>1 DEF SendText, SendMedia
  <2>3. QED
    BY <2>2, CreatedGrows
<1>2. CASE \/ \E s \in Screen :
                \/ ViewWillAppear(s) \/ PickImage(s) \/ BackAction(s)
                \/ \E n \in upload[s] : UploadFails(s, n) \/ UploadSucceeds(s, n)
                \/ \E k \in ListenerIndex :
                     ConversationSnapshot(s, k) \/ MessageSnapshot(s, k)
           \/ \E v \in User : Persist(v) \/ Commit(v) \/ Kill(v) \/ Launch(v)
           \/ UNCHANGED vars
  BY <1>2 DEF ViewWillAppear, PickImage, BackAction, UploadFails, UploadSucceeds,
     ConversationSnapshot, MessageSnapshot, Persist, Commit, Kill, StopProcess,
     Launch, StartProcess, vars, storeVars
<1>3. QED
  BY <1>1, <1>2 DEF Next, ScreenStep, UploadEnds, Snapshot, Client

\* A step whose messages and copies are old ones or about covered rooms.
LEMMA AuditKept ==
  ASSUME IInv, AuditInv, [AuditNext]_auditVars,
         \A m \in chatRoom' :
           \/ m \in chatRoom
           \/ \E u \in User : \E i \in 1 .. Len(outbox[u]) :
                outbox[u][i].kind = "message" /\ outbox[u][i].id = m,
         \A u \in User : \A i \in 1 .. Len(outbox'[u]) :
           \/ \E j \in 1 .. Len(outbox[u]) : outbox'[u][i] = outbox[u][j]
           \/ outbox'[u][i].kind # "message"
           \/ BothCovered(created[outbox[u][i].id].roomId)',
         \A s \in Screen :
           /\ \A room \in Range(senderConversationId'[s]) :
                \/ room \in Range(senderConversationId[s])
                \/ Covered(senderId[s], room)'
           /\ \A room \in Range(receiverConversationId'[s]) :
                \/ room \in Range(receiverConversationId[s])
                \/ Covered(recieverId[s], room)'
  PROVE  AuditInv'
<1>1. [Next]_vars
  BY DEF AuditNext, auditVars
<1>2. ASSUME NEW m \in 1 .. Len(created), BothCovered(created[m].roomId)
      PROVE  BothCovered(created[m].roomId)'
  BY <1>1, <1>2, BothStay, CreatedStays
<1>3. ASSUME NEW u \in User, NEW i \in 1 .. Len(outbox[u]),
             outbox[u][i].kind = "message"
      PROVE  /\ outbox[u][i].id \in 1 .. Len(created)
             /\ BothCovered(created[outbox[u][i].id].roomId)
  <2>1. i \in Queued(u, Len(outbox[u]), "message") /\ Len(outbox[u]) \in Nat
    BY <1>3, OutboxLen DEF Queued
  <2>2. outbox[u][i].id \in 1 .. Len(created)
    BY <2>1, QueuedMessage
  <2>3. QED
    BY <1>3, <2>2 DEF AuditInv
<1>4. ASSUME NEW m \in chatRoom' PROVE BothCovered(created[m].roomId)'
  <2>1. m \in 1 .. Len(created) /\ BothCovered(created[m].roomId)
    <3>1. CASE m \in chatRoom
      BY <3>1 DEF AuditInv, IInv, ServerInv
    <3>2. CASE \E u \in User : \E i \in 1 .. Len(outbox[u]) :
                 outbox[u][i].kind = "message" /\ outbox[u][i].id = m
      BY <1>3, <3>2
    <3>3. QED
      BY <1>4, <3>1, <3>2
  <2>2. QED
    BY <1>2, <2>1
<1>5. ASSUME NEW u \in User, NEW i \in 1 .. Len(outbox'[u]),
             outbox'[u][i].kind = "message"
      PROVE  BothCovered(created[outbox[u][i].id].roomId)'
  <2>1. CASE \E j \in 1 .. Len(outbox[u]) : outbox'[u][i] = outbox[u][j]
    <3>1. PICK j \in 1 .. Len(outbox[u]) : outbox'[u][i] = outbox[u][j]
      BY <2>1
    <3>2. PICK m \in 1 .. Len(created) :
            m = outbox[u][j].id /\ BothCovered(created[m].roomId)
      BY <1>3, <1>5, <3>1
    <3>3. BothCovered(created[m].roomId)'
      BY <1>2, <3>2
    <3>4. m = outbox'[u][i].id
      BY <3>1, <3>2
    <3>5. QED
      BY <3>3, <3>4
  <2>2. QED
    BY <1>5, <2>1
<1>6. ASSUME NEW s \in Screen, NEW room
      PROVE  /\ room \in Range(senderConversationId'[s]) => Covered(senderId[s], room)'
             /\ room \in Range(receiverConversationId'[s]) =>
                  Covered(recieverId[s], room)'
  BY ScreenRoom, CoveredStays DEF AuditInv
<1>7. QED
  BY <1>4, <1>5, <1>6 DEF AuditInv

LEMMA StoreAudit ==
  ASSUME IInv, AuditInv, IInv', [AuditNext]_auditVars, NEW s \in Screen,
         NEW m \in 1 .. Len(created'), StoreMessage(s, m),
         created'[m].roomId = chatRoomTitle(s), chatRoom' = chatRoom
  PROVE  AuditInv'
<1> DEFINE room0 == chatRoomTitle(s)
<1>1. /\ BothCovered(room0)' /\ room0 \in Room
      /\ Members(room0) = {senderId[s], recieverId[s]}
  BY StoreCovers, ScreenRoom
<1>2. Covered(senderId[s], room0)' /\ Covered(recieverId[s], room0)'
  BY <1>1 DEF BothCovered, chatRoomTitle
<1>3. ASSUME NEW u \in User, NEW i \in 1 .. Len(outbox'[u])
      PROVE  \/ \E j \in 1 .. Len(outbox[u]) : outbox'[u][i] = outbox[u][j]
             \/ outbox'[u][i].kind # "message"
             \/ BothCovered(created[outbox[u][i].id].roomId)'
  <2>1. CASE outbox'[u][i] = SetMessage(m)
    <3>1. outbox'[u][i].id = m
      BY <2>1, SetMessageIs
    <3>2. created'[outbox'[u][i].id].roomId = room0
      BY <3>1
    <3>3. QED
      BY <1>1, <3>2 DEF chatRoomTitle
  <2>2. QED
    BY <2>1, StoreAppends
<1>4. /\ senderConversationId' = [senderConversationId EXCEPT ![s] =
           WithRoom(senderConversationId[s], room0)]
      /\ receiverConversationId' = [receiverConversationId EXCEPT ![s] =
           WithRoom(receiverConversationId[s], room0)]
  BY DEF StoreMessage
<1>5. /\ Range(WithRoom(senderConversationId[s], room0))
           \subseteq Range(senderConversationId[s]) \cup {room0}
      /\ Range(WithRoom(receiverConversationId[s], room0))
           \subseteq Range(receiverConversationId[s]) \cup {room0}
  BY <1>1, RangeAppend DEF WithRoom, IInv, CopiesInv
<1> HIDE DEF room0
<1>6. ASSUME NEW t \in Screen
      PROVE  /\ \A room \in Range(senderConversationId'[t]) :
                  \/ room \in Range(senderConversationId[t])
                  \/ Covered(senderId[t], room)'
             /\ \A room \in Range(receiverConversationId'[t]) :
                  \/ room \in Range(receiverConversationId[t])
                  \/ Covered(recieverId[t], room)'
  <2>1. CASE t = s
    <3>1. /\ senderConversationId'[t] = WithRoom(senderConversationId[s], room0)
          /\ receiverConversationId'[t] = WithRoom(receiverConversationId[s], room0)
      BY <1>4, <2>1 DEF IInv, CopiesInv
    <3>2. QED
      BY <1>2, <1>5, <2>1, <3>1
  <2>2. CASE t # s
    <3>1. /\ senderConversationId'[t] = senderConversationId[t]
          /\ receiverConversationId'[t] = receiverConversationId[t]
      BY <1>4, <2>2 DEF IInv, CopiesInv
    <3>2. QED
      BY <3>1
  <2>3. QED
    BY <2>1, <2>2
<1>7. QED
  BY <1>3, <1>6, AuditKept

\* What a listener is handed of the index of x is what the backend has, or is
\* about to have.
LEMMA SnapshotCovered ==
  ASSUME IInv, NEW u \in User, NEW x \in User,
         NEW rooms \in LocalConversation(u, x), NEW room \in Range(rooms)
  PROVE  Covered(x, room)
<1> DEFINE writes == {i \in Queued(u, saved[u], "index") : outbox[u][i].id = x}
<1>1. CASE writes = {}
  BY <1>1 DEF LocalConversation, Covered
<1>2. CASE writes # {}
  <2>1. PICK i \in writes : rooms = outbox[u][i].rooms
    BY <1>2 DEF LocalConversation
  <2>2. i \in 1 .. Len(outbox[u])
    BY <2>1, OutboxLen DEF Queued
  <2>3. outbox[u][i].kind = "index" /\ outbox[u][i].id = x
    BY <2>1 DEF Queued
  <2>4. QED
    BY <2>1, <2>2, <2>3 DEF Covered, IndexQueued
<1>3. QED
  BY <1>1, <1>2

LEMMA StepAudit ==
  ASSUME BInv, AuditInv, [AuditNext]_auditVars
  PROVE  AuditInv'
<1>1. IInv /\ IInv' /\ [Next]_vars
  <2>1. [Next]_vars
    BY DEF AuditNext, auditVars
  <2>2. QED
    BY <2>1, StepInv DEF BInv
<1>2. CASE \E s \in Screen : SendText(s)
  <2>1. PICK s \in Screen : SendText(s)
    BY <1>2
  <2>2. /\ StoreMessage(s, NewId) /\ chatRoom' = chatRoom
        /\ NewMessage(senderId[s], recieverId[s], "TEXT")
    BY <2>1 DEF SendText
  <2>3. NewId \in 1 .. Len(created') /\ created'[NewId].roomId = chatRoomTitle(s)
    BY <1>1, <2>2, NewMessageStep, ScreenRoom, ScreenAssumption DEF IInv, chatRoomTitle
  <2>4. QED
    BY <1>1, <2>2, <2>3, StoreAudit
<1>3. CASE \E s \in Screen : \E m \in upload[s] : UploadSucceeds(s, m)
  <2>1. PICK s \in Screen : \E m \in upload[s] : UploadSucceeds(s, m)
    BY <1>3
  <2>2. PICK m \in upload[s] : UploadSucceeds(s, m)
    BY <2>1
  <2>3. StoreMessage(s, m) /\ chatRoom' = chatRoom /\ created' = created
    BY <2>2 DEF UploadSucceeds
  <2>4. m \in 1 .. Len(created) /\ created[m].roomId = chatRoomTitle(s)
    BY <1>1, Ranges DEF BInv, IndexBacked, ChatId
  <2>5. QED
    BY <1>1, <2>3, <2>4, StoreAudit
<1>4. CASE \E s \in Screen : \E i \in ListenerIndex : ConversationSnapshot(s, i)
  <2>1. PICK s \in Screen, i \in ListenerIndex : ConversationSnapshot(s, i)
    BY <1>4
  <2>2. PICK on : on = listener[s][i].on
    OBVIOUS
  <2>3. PICK rooms \in CurrentSnapshot(s, on) :
          /\ senderConversationId' =
               IF on = "sender" THEN [senderConversationId EXCEPT ![s] = rooms]
                                ELSE senderConversationId
          /\ receiverConversationId' =
               IF on = "receiver" THEN [receiverConversationId EXCEPT ![s] = rooms]
                                  ELSE receiverConversationId
    BY <2>1, <2>2 DEF ConversationSnapshot
  <2>4. on \in {"sender", "receiver"} /\ UNCHANGED <<chatRoom, outbox>>
    BY <2>1, <2>2 DEF ConversationSnapshot, storeVars
  <2>5. senderId[s] \in User /\ recieverId[s] \in User
    BY ScreenRoom
  <2>6. PICK x \in User : x = IF on = "sender" THEN senderId[s] ELSE recieverId[s]
    BY <2>5
  <2>7. \A room \in Range(rooms) : Covered(x, room)'
    <3>1. rooms \in LocalConversation(senderId[s], x)
      BY <2>3, <2>4, <2>6 DEF CurrentSnapshot
    <3>2. \A room \in Range(rooms) : Covered(x, room)
      BY <1>1, <2>5, <3>1, SnapshotCovered
    <3>3. QED
      BY <1>1, <3>2, CoveredStays
  <2>8. ASSUME NEW t \in Screen
        PROVE  /\ \A room \in Range(senderConversationId'[t]) :
                    \/ room \in Range(senderConversationId[t])
                    \/ Covered(senderId[t], room)'
               /\ \A room \in Range(receiverConversationId'[t]) :
                    \/ room \in Range(receiverConversationId[t])
                    \/ Covered(recieverId[t], room)'
    <3>1. CASE on = "sender"
      <4>1. x = senderId[s]
        BY <2>6, <3>1
      <4>2. /\ receiverConversationId' = receiverConversationId
            /\ senderConversationId'[t] =
                 IF t = s THEN rooms ELSE senderConversationId[t]
        BY <1>1, <2>3, <3>1 DEF IInv, CopiesInv
      <4>3. QED
        BY <2>7, <4>1, <4>2
    <3>2. CASE on = "receiver"
      <4>1. x = recieverId[s]
        BY <2>6, <3>2
      <4>2. /\ senderConversationId' = senderConversationId
            /\ receiverConversationId'[t] =
                 IF t = s THEN rooms ELSE receiverConversationId[t]
        BY <1>1, <2>3, <3>2 DEF IInv, CopiesInv
      <4>3. QED
        BY <2>7, <4>1, <4>2
    <3>3. QED
      BY <2>4, <3>1, <3>2
  <2>9. QED
    BY <1>1, <2>4, <2>8, AuditKept
<1>5. CASE \E s \in Screen : \E i \in ListenerIndex : MessageSnapshot(s, i)
  <2>1. PICK s \in Screen, i \in ListenerIndex : MessageSnapshot(s, i)
    BY <1>5
  <2>2. UNCHANGED <<chatRoom, senderConversationId, receiverConversationId>>
    BY <2>1 DEF MessageSnapshot
  <2>3. \A v \in User : \A k \in 1 .. Len(outbox'[v]) :
          \/ \E n \in 1 .. Len(outbox[v]) : outbox'[v][k] = outbox[v][n]
          \/ outbox'[v][k].kind # "message"
    BY <1>1, <2>1, ReceiptQueues
  <2>4. QED
    BY <1>1, <2>2, <2>3, AuditKept
<1>6. CASE \E u \in User : Commit(u) /\ UNCHANGED screenVars
  <2>1. PICK u \in User : Commit(u) /\ UNCHANGED screenVars
    BY <1>6
  <2>2. /\ 1 \in 1 .. Len(outbox[u]) /\ Head(outbox[u]) = outbox[u][1]
        /\ \A j \in 1 .. Len(outbox'[u]) :
             j + 1 \in 1 .. Len(outbox[u]) /\ outbox'[u][j] = outbox[u][j + 1]
        /\ \A w \in User \ {u} : outbox'[w] = outbox[w]
    BY <1>1, <2>1, Removed
  <2>3. ASSUME NEW v \in User, NEW i \in 1 .. Len(outbox'[v])
        PROVE  \E j \in 1 .. Len(outbox[v]) : outbox'[v][i] = outbox[v][j]
    <3>1. CASE v = u
      BY <2>2, <3>1
    <3>2. CASE v # u
      BY <2>2, <3>2
    <3>3. QED
      BY <3>1, <3>2
  <2>4. ASSUME NEW m \in chatRoom', m \notin chatRoom
        PROVE  outbox[u][1].kind = "message" /\ outbox[u][1].id = m
    <3>1. chatRoom' = IF Head(outbox[u]).kind = "message"
                      THEN chatRoom \cup {Head(outbox[u]).id} ELSE chatRoom
      BY <2>1 DEF Commit
    <3>2. QED
      BY <2>2, <2>4, <3>1
  <2>5. UNCHANGED <<senderConversationId, receiverConversationId>>
    BY <2>1 DEF screenVars
  <2>6. QED
    BY <1>1, <2>2, <2>3, <2>4, <2>5, AuditKept
<1>7. CASE \E u \in User : Kill(u)
  <2>1. PICK u \in User : Kill(u)
    BY <1>7
  <2>2. StopProcess(u) /\ chatRoom' = chatRoom
    BY <2>1 DEF Kill, StopProcess
  <2>3. \A v \in User : \A i \in 1 .. Len(outbox'[v]) :
          i \in 1 .. Len(outbox[v]) /\ outbox'[v][i] = outbox[v][i]
    BY <1>1, <2>2, Cut
  <2>4. \A t \in Screen :
          /\ \/ senderConversationId'[t] = <<>>
             \/ senderConversationId'[t] = senderConversationId[t]
          /\ \/ receiverConversationId'[t] = <<>>
             \/ receiverConversationId'[t] = receiverConversationId[t]
    BY <2>1 DEF Kill
  <2>5. Range(<<>>) = {}
    BY DEF Range
  <2>6. QED
    BY <1>1, <2>2, <2>3, <2>4, <2>5, AuditKept
<1>8. CASE \/ \E s \in Screen : \/ ViewWillAppear(s) \/ PickImage(s)
                                \/ SendMedia(s) \/ BackAction(s)
                                \/ \E m \in upload[s] : UploadFails(s, m)
           \/ \E v \in User : \/ Persist(v) /\ UNCHANGED screenVars
                              \/ Launch(v)
           \/ UNCHANGED vars
  <2>1. UNCHANGED <<chatRoom, outbox, senderConversationId, receiverConversationId>>
    BY <1>8 DEF ViewWillAppear, PickImage, SendMedia, BackAction, UploadFails,
       Persist, Launch, StartProcess, vars, storeVars, screenVars
  <2>2. QED
    BY <1>1, <2>1, AuditKept
<1>9. QED
  BY <1>1, <1>2, <1>3, <1>4, <1>5, <1>6, <1>7, <1>8
     DEF Next, ScreenStep, UploadEnds, Snapshot, Client

LEMMA InitAudit == AuditInit => BInv /\ AuditInv
<1>1. SUFFICES ASSUME AuditInit PROVE BInv /\ AuditInv
  OBVIOUS
<1>2. Init
  BY <1>1 DEF AuditInit
<1>3. \A u \in User : Len(outbox[u]) = 0
  BY <1>2 DEF Init, StoreInit
<1>4. /\ chatRoom = {}
      /\ \A s \in Screen : /\ Range(senderConversationId[s]) = {}
                           /\ Range(receiverConversationId[s]) = {}
  BY <1>2 DEF Init, StoreInit, Range
<1>5. AuditInv
  BY <1>3, <1>4 DEF AuditInv
<1>6. QED
  BY <1>2, <1>5, InitBacked

\* A member of a room with a stored message misses it in the index only if an
\* older copy of the array was written over it, or a process ended before the
\* array was on the disk: whatever the screens of both ends copy and append,
\* and however their pictures, texts and snapshots interleave.
THEOREM MissingRoomsWereDropped == AuditSpec => []MissingRoomWasDropped
<1>1. BInv /\ AuditInv /\ [AuditNext]_auditVars => (BInv /\ AuditInv)'
  BY StepAudit, StepBacked DEF AuditNext, auditVars
<1>2. BInv /\ AuditInv => MissingRoomWasDropped
  <2>1. SUFFICES ASSUME BInv, AuditInv,
                        NEW m \in chatRoom, NEW x \in Members(created[m].roomId)
                 PROVE  \/ created[m].roomId \in Range(conversation[x])
                        \/ <<x, created[m].roomId>> \in dropped
                        \/ \E u \in User :
                             \E i \in Queued(u, Len(outbox[u]), "index") :
                               /\ outbox[u][i].id = x
                               /\ created[m].roomId \in Range(outbox[u][i].rooms)
    BY DEF MissingRoomWasDropped
  <2>2. Covered(x, created[m].roomId)
    BY <2>1 DEF AuditInv, BothCovered
  <2>3. QED
    BY <2>2 DEF Covered, IndexQueued, Queued
<1>3. QED
  BY <1>1, <1>2, InitAudit, PTL DEF AuditSpec

-----------------------------------------------------------------------------
(***************************************************************************)
(* The two messages of a transfer (ARTransfer).                            *)
(***************************************************************************)

Amounts == {m \in 1 .. Len(created) : created[m].type = "CRYPTO"}

\* The message c is never where p has not been before it.
Behind(c, p) ==
  /\ c \in chatRoom => p \in chatRoom
  /\ \A v \in User : \A j \in 1 .. Len(outbox[v]) :
       QueuedAt(v, j, c) =>
         p \in chatRoom \/ \E i \in 1 .. j - 1 : QueuedAt(v, i, p)

\* AmountFollowsPicture counts; what is behind it is that each amount has a
\* picture of its own, sent by the same user into the same room, that has left
\* the uploads and that it stays behind.
PairedBy(f) ==
  /\ f \in [Amounts -> 1 .. Len(created)]
  /\ \A c, d \in Amounts : f[c] = f[d] => c = d
  /\ \A c \in Amounts :
       /\ created[f[c]].type = "MEDIA"
       /\ created[f[c]].composerId = created[c].composerId
       /\ created[f[c]].roomId = created[c].roomId
       /\ \A s \in Screen : f[c] \notin upload[s]
       /\ Behind(c, f[c])

\* What is uploaded is a picture of the screen's user for the screen's room.
PictureOf(s, m) == /\ created[m].type = "MEDIA"
                   /\ created[m].composerId = senderId[s]
                   /\ created[m].roomId = chatRoomTitle(s)

UploadsInv == \A s \in Screen : \A m \in upload[s] : PictureOf(s, m)

\* What is behind AmountApproved: each amount has a transfer of its own, which
\* was approved and has come to its end.
Granted(g) ==
  /\ g \in [Amounts -> approved]
  /\ \A c, d \in Amounts : g[c] = g[d] => c = d
  /\ \A c \in Amounts :
       /\ senderId[g[c]] = created[c].composerId
       /\ chatRoomTitle(g[c]) = created[c].roomId
       /\ transfer[g[c]] \in {"sent", "ended"}

TransfersInv ==
  /\ transfer \in [ArScreen -> TransferStatus]
  /\ approved \subseteq ArScreen
  /\ IsFiniteSet(approved)
  /\ \A s \in ArScreen : transfer[s] \in {"allowed", "uploading"} => s \in approved
  /\ \A s \in ArScreen : /\ upload[s] # {} => transfer[s] = "uploading"
                         /\ \A m, n \in upload[s] : m = n

ArInv ==
  /\ LInv
  /\ UploadsInv
  /\ TransfersInv
  /\ \E f : PairedBy(f)
  /\ \E g : Granted(g)

-----------------------------------------------------------------------------
(* IInv under the steps of a transfer.                                     *)

\* What a new message of a screen is.
LEMMA NewMessageIs ==
  ASSUME IInv, NEW s \in Screen, NEW type \in {"TEXT", "MEDIA", "CRYPTO"},
         NewMessage(senderId[s], recieverId[s], type)
  PROVE  /\ Len(created) \in Nat /\ NewId = Len(created) + 1
         /\ created' \in Seq(Message)
         /\ Len(created') = Len(created) + 1 /\ Len(created') <= MaxMessages
         /\ \A m \in 1 .. Len(created) : created'[m] = created[m]
         /\ created'[NewId].type = type
         /\ created'[NewId].composerId = senderId[s]
         /\ created'[NewId].roomId = chatRoomTitle(s)
<1> DEFINE msg == [roomId |-> chatRoomTitle(s), composerId |-> senderId[s],
                   readerID |-> recieverId[s], type |-> type]
<1>1. msg \in Message /\ created \in Seq(Message)
  BY ScreenRoom DEF Message, IInv, ServerInv
<1>2. created' = Append(created, msg) /\ Len(created) < MaxMessages
  BY DEF NewMessage, chatRoomTitle
<1>3. /\ msg.type = type /\ msg.composerId = senderId[s]
      /\ msg.roomId = chatRoomTitle(s)
  OBVIOUS
<1> HIDE DEF msg
<1>4. /\ Append(created, msg) \in Seq(Message)
      /\ Len(Append(created, msg)) = Len(created) + 1
      /\ \A m \in 1 .. Len(created) : Append(created, msg)[m] = created[m]
      /\ Append(created, msg)[Len(created) + 1] = msg
      /\ Len(created) \in Nat
  BY <1>1, AppendProperties, LenProperties
<1>5. QED
  BY <1>2, <1>3, <1>4, MaxMessagesAssumption DEF NewId

LEMMA ConfirmAppearsInv ==
  ASSUME IInv, NEW s \in ArScreen, ConfirmAppears(s)
  PROVE  IInv'
<1> DEFINE L == DocumentListener \cup QueryListener
<1>1. Listener("sender") \in L /\ Listener("receiver") \in L
  <2>1. <<>> \in Seq(Room)
    BY EmptySeq
  <2>2. QED
    BY <2>1 DEF Listener, DocumentListener
<1>2. <<Listener("sender"), Listener("receiver")>> \in Seq(L)
  BY <1>1
<1>3. listener' \in [Screen -> Seq(L)]
  BY <1>2, ArScreenAssumption DEF IInv, ViewInv, ConfirmAppears
<1>4. ViewInv'
  BY <1>3 DEF IInv, ViewInv, ConfirmAppears, Status, storeVars
<1>5. QED
  BY <1>4, ServerStutter, DeviceStutter, CopiesStutter DEF IInv, ConfirmAppears

LEMMA NoButtonInv ==
  ASSUME IInv, NEW s \in ArScreen, NoButton(s)
  PROVE  IInv'
<1>1. ViewInv'
  BY DEF NoButton, IInv, ViewInv, storeVars, Status
<1>2. QED
  BY <1>1, ServerStutter, DeviceStutter, CopiesStutter DEF NoButton, IInv

LEMMA SendPictureInv ==
  ASSUME IInv, NEW s \in ArScreen, SendPicture(s)
  PROVE  IInv'
<1>1. s \in Screen /\ NewMessage(senderId[s], recieverId[s], "MEDIA")
  BY ArScreenAssumption DEF SendPicture
<1>2. /\ created' \in Seq(Message)
      /\ Len(created) \in Nat
      /\ Len(created') = Len(created) + 1
      /\ Len(created') <= MaxMessages
      /\ NewId = Len(created) + 1
  BY <1>1, NewMessageIs
<1>3. NewId \in ChatId
  BY <1>2, MaxMessagesAssumption DEF ChatId
<1>4. ServerInv'
  BY <1>2, ServerGrows DEF SendPicture, IInv
<1>5. DeviceInv'
  <2>1. Seq(GoodWrite(Len(created))) \subseteq Seq(GoodWrite(Len(created')))
    BY <1>2, GoodWriteMonotone
  <2>2. GoodWrite(Len(created))' = GoodWrite(Len(created'))
    BY DEF GoodWrite, IndexOf
  <2>3. QED
    BY <2>1, <2>2 DEF SendPicture, IInv, DeviceInv
<1>6. ViewInv'
  <2>1. \A t \in Screen : \A m \in upload'[t] : m <= Len(created')
    BY <1>1, <1>2, MaxMessagesAssumption DEF SendPicture, IInv, ViewInv, ChatId
  <2>2. QED
    BY <1>3, <2>1 DEF SendPicture, IInv, ViewInv
<1>7. QED
  BY <1>4, <1>5, <1>6, CopiesStutter DEF SendPicture, IInv

\* The writes of a transfer: the picture, what the index lacks, the amount.
TransferWrites(s, m, n) == <<SetMessage(m)>> \o IndexWrites(s) \o <<SetMessage(n)>>

LEMMA TransferWritesAre ==
  ASSUME IInv, NEW s \in Screen, NEW l \in Nat, NEW m \in 1 .. l, NEW n \in 1 .. l
  PROVE  /\ TransferWrites(s, m, n) \in Seq(GoodWrite(l))
         /\ Len(TransferWrites(s, m, n)) \in Nat
         /\ Len(TransferWrites(s, m, n)) >= 2
         /\ TransferWrites(s, m, n)[1] = SetMessage(m)
         /\ TransferWrites(s, m, n)[Len(TransferWrites(s, m, n))] = SetMessage(n)
         /\ \A k \in 1 .. Len(TransferWrites(s, m, n)) :
              \/ k = 1 \/ k = Len(TransferWrites(s, m, n))
              \/ TransferWrites(s, m, n)[k].kind = "index"
<1> DEFINE I == IndexWrites(s)
           a == <<SetMessage(m)>>
           b == <<SetMessage(n)>>
           c == a \o I
           ws == c \o b
           G == GoodWrite(l)
<1>1. I \in Seq(G) /\ Len(I) \in Nat
  BY IndexWritesGood, LenProperties DEF IInv, CopiesInv
<1>2. \A k \in 1 .. Len(I) : I[k].kind = "index"
  BY IndexWritesAre DEF IInv, CopiesInv
<1>3. /\ a \in Seq(G) /\ Len(a) = 1 /\ a[1] = SetMessage(m)
      /\ b \in Seq(G) /\ Len(b) = 1 /\ b[1] = SetMessage(n)
  BY MessageWriteGood
<1>4. ws = TransferWrites(s, m, n)
  BY DEF TransferWrites
<1> HIDE DEF I, a, b, G
<1>5. /\ c \in Seq(G) /\ Len(c) = 1 + Len(I) /\ c[1] = SetMessage(m)
      /\ \A k \in 1 .. Len(I) : c[1 + k] = I[k]
  <2>1. /\ Len(a \o I) = Len(a) + Len(I)
        /\ \A k \in 1 .. Len(a) : (a \o I)[k] = a[k]
        /\ \A k \in 1 .. Len(I) : (a \o I)[Len(a) + k] = I[k]
    <3>1. a \in Seq(G) /\ I \in Seq(G)
      BY <1>1, <1>3
    <3>2. QED
      BY <3>1, ConcatParts, LenProperties
  <2>2. a \o I \in Seq(G)
    BY <1>1, <1>3, ConcatProperties
  <2>3. c = a \o I /\ 1 \in 1 .. Len(a)
    BY <1>3
  <2> HIDE DEF c
  <2>4. QED
    BY <1>3, <2>1, <2>3, <2>2
<1> HIDE DEF c
<1>6. /\ ws \in Seq(G) /\ Len(ws) = Len(c) + 1
      /\ \A k \in 1 .. Len(c) : ws[k] = c[k]
      /\ \A k \in 1 .. Len(b) : ws[Len(c) + k] = b[k]
  BY <1>3, <1>5, ConcatProperties, ConcatParts
<1> HIDE DEF ws
<1>7. ws[Len(ws)] = SetMessage(n) /\ ws[1] = SetMessage(m)
  BY <1>1, <1>3, <1>5, <1>6
<1>8. ASSUME NEW k \in 1 .. Len(ws), k # 1, k # Len(ws)
      PROVE  ws[k].kind = "index"
  <2>1. /\ k \in 1 .. Len(c) /\ k - 1 \in 1 .. Len(I) /\ 1 + (k - 1) = k
    BY <1>1, <1>5, <1>6, <1>8
  <2>2. ws[k] = I[k - 1]
    BY <1>5, <1>6, <2>1
  <2>3. QED
    BY <1>2, <2>1, <2>2
<1>9. Len(ws) \in Nat /\ Len(ws) >= 2
  BY <1>1, <1>5, <1>6
<1>10. QED
  BY <1>4, <1>6, <1>7, <1>8, <1>9 DEF G

LEMMA PictureUploadedInv ==
  ASSUME IInv, NEW s \in ArScreen, NEW m \in upload[s], PictureUploaded(s, m)
  PROVE  IInv'
<1>1. /\ s \in Screen /\ NewMessage(senderId[s], recieverId[s], "CRYPTO")
      /\ Issue(senderId[s], TransferWrites(s, m, NewId))
  BY ArScreenAssumption DEF PictureUploaded, TransferWrites
<1>2. /\ created' \in Seq(Message)
      /\ Len(created) \in Nat
      /\ Len(created') = Len(created) + 1
      /\ Len(created') <= MaxMessages
      /\ NewId = Len(created) + 1
  BY <1>1, NewMessageIs
<1>3. m \in 1 .. Len(created') /\ NewId \in 1 .. Len(created') /\ Len(created') \in Nat
  BY <1>1, <1>2, MaxMessagesAssumption DEF IInv, ViewInv, ChatId
<1>4. ServerInv'
  BY <1>2, <1>3, ServerGrows DEF PictureUploaded, IInv
<1>5. DeviceInv'
  <2>1. TransferWrites(s, m, NewId) \in Seq(GoodWrite(Len(created')))
    BY <1>1, <1>3, TransferWritesAre
  <2>2. senderId[s] \in User
    BY <1>1, ScreenRoom
  <2>3. QED
    BY <1>1, <1>2, <1>3, <2>1, <2>2, IssueStep DEF PictureUploaded, IInv
<1>6. CopiesInv'
  BY <1>1, WithRoomCopies DEF PictureUploaded, IInv
<1>7. ViewInv'
  <2>1. \A t \in Screen : \A k \in upload'[t] : k <= Len(created')
    BY <1>1, <1>2, MaxMessagesAssumption DEF PictureUploaded, IInv, ViewInv, ChatId
  <2>2. QED
    BY <1>1, <2>1 DEF PictureUploaded, IInv, ViewInv
<1>8. QED
  BY <1>4, <1>5, <1>6, <1>7 DEF IInv

\* A step of ARTransfer that is not one of ChatRoom and composes nothing.
QuietTransfer(s) ==
  \/ ConfirmAppears(s)
  \/ NoButton(s)
  \/ \E i \in DOMAIN listener[s] :
       ConversationSnapshot(s, i) /\ UNCHANGED transferVars

LEMMA ArSteps ==
  ASSUME [ArNext]_arVars
  PROVE  \/ [Next]_vars
         \/ \E s \in ArScreen :
              \/ QuietTransfer(s)
              \/ SendPicture(s)
              \/ \E m \in upload[s] : PictureUploaded(s, m)
<1>1. ASSUME NEW s \in ArScreen, TransferStep(s)
      PROVE  \/ [Next]_vars
             \/ QuietTransfer(s)
             \/ SendPicture(s)
             \/ \E m \in upload[s] : PictureUploaded(s, m)
  <2>1. CASE YesButton(s)
    BY <2>1 DEF YesButton, Still
  <2>2. CASE \E state \in BOOLEAN : Authenticated(s, state)
    BY <2>2 DEF Authenticated
  <2>3. CASE \E m \in upload[s] : PictureFails(s, m)
    BY <2>3, ArScreenAssumption DEF PictureFails, Next, ScreenStep, UploadEnds
  <2>4. QED
    BY <1>1, <2>1, <2>2, <2>3 DEF TransferStep, QuietTransfer
<1>2. ASSUME NEW u \in User, Client(u) \/ Launch(u) \/ EndTransfers(u)
      PROVE  [Next]_vars
  BY <1>2 DEF EndTransfers, Next
<1>3. ASSUME NEW s \in Screen, ScreenStep(s) PROVE [Next]_vars
  BY <1>3 DEF Next
<1>4. CASE UNCHANGED arVars
  BY <1>4 DEF arVars
<1>5. QED
  BY <1>1, <1>2, <1>3, <1>4 DEF ArNext

LEMMA QuietInv ==
  ASSUME IInv, NEW s \in ArScreen, QuietTransfer(s)
  PROVE  /\ IInv'
         /\ UNCHANGED <<created, chatRoom, outbox, upload>>
<1>1. s \in Screen
  BY ArScreenAssumption
<1>2. ASSUME NEW i \in DOMAIN listener[s], ConversationSnapshot(s, i)
      PROVE  IInv'
  <2>1. listener[s] \in Seq(DocumentListener \cup QueryListener)
    BY <1>1 DEF IInv, ViewInv
  <2>2. i \in Nat \ {0} /\ i <= Len(listener[s])
    BY <2>1, LenProperties
  <2>3. QED
    BY <1>1, <1>2, <2>2, ConversationSnapshotInv
<1>3. UNCHANGED <<created, chatRoom, outbox, upload>>
  BY DEF QuietTransfer, ConfirmAppears, NoButton, ConversationSnapshot, storeVars
<1>4. QED
  BY <1>2, <1>3, ConfirmAppearsInv, NoButtonInv DEF QuietTransfer

LEMMA ArStepInv ==
  ASSUME IInv, [ArNext]_arVars
  PROVE  IInv'
BY ArSteps, StepInv, QuietInv, SendPictureInv, PictureUploadedInv

-----------------------------------------------------------------------------
(* An amount stays behind its picture.                                     *)

\* What a device queues goes behind what it has queued.
LEMMA IssueQueues ==
  ASSUME IInv, NEW u \in User, NEW S, NEW ws \in Seq(S), Issue(u, ws),
         NEW v \in User, NEW j, NEW n
  PROVE  QueuedAt(v, j, n)' <=>
           \/ QueuedAt(v, j, n)
           \/ /\ v = u
              /\ \E k \in 1 .. Len(ws) : /\ j = Len(outbox[u]) + k
                                         /\ ws[k] = SetMessage(n)
<1>1. /\ Len(outbox[u]) \in Nat /\ Len(ws) \in Nat
      /\ Len(outbox'[u]) = Len(outbox[u]) + Len(ws)
      /\ \A i \in 1 .. Len(outbox[u]) : outbox'[u][i] = outbox[u][i]
      /\ \A k \in 1 .. Len(ws) : outbox'[u][Len(outbox[u]) + k] = ws[k]
      /\ \A x \in User \ {u} : outbox'[x] = outbox[x]
  BY IssueParts
<1> DEFINE a == Len(outbox[u])
           b == Len(ws)
           c == Len(outbox'[u])
<1>2. a \in Nat /\ b \in Nat /\ c = a + b
  BY <1>1
<1>3. SetMessage(n)' = SetMessage(n)
  BY DEF SetMessage
<1>4. CASE v # u
  BY <1>1, <1>3, <1>4 DEF QueuedAt
<1>5. CASE v = u /\ j \in 1 .. a
  <2>1. /\ j \in 1 .. c /\ \A k \in 1 .. b : j # a + k
    <3> HIDE DEF a, b, c
    <3>1. QED
      BY <1>2, <1>5
  <2>2. outbox'[u][j] = outbox[u][j]
    BY <1>1, <1>5
  <2>3. QED
    BY <1>3, <1>5, <2>1, <2>2 DEF QueuedAt
<1>6. CASE v = u /\ j \in 1 .. c /\ j \notin 1 .. a
  <2>1. PICK k \in 1 .. b : j = a + k
    <3> HIDE DEF a, b, c
    <3>1. j - a \in 1 .. b /\ j = a + (j - a)
      BY <1>2, <1>6
    <3>2. QED
      BY <3>1
  <2>2. outbox'[u][j] = ws[k]
    BY <1>1, <2>1
  <2>3. \A i \in 1 .. b : j = a + i => i = k
    <3> HIDE DEF a, b, c
    <3>1. QED
      BY <1>2, <2>1
  <2>4. QED
    BY <1>3, <1>6, <2>1, <2>2, <2>3 DEF QueuedAt
<1>7. CASE v = u /\ j \notin 1 .. c
  <2>1. j \notin 1 .. a /\ \A k \in 1 .. b : j # a + k
    <3> HIDE DEF a, b, c
    <3>1. QED
      BY <1>2, <1>7
  <2>2. QED
    BY <1>7, <2>1 DEF QueuedAt
<1>8. QED
  BY <1>4, <1>5, <1>6, <1>7

\* Writes that are added without the message c.
LEMMA BehindStays ==
  ASSUME IInv, NEW c, NEW p, Behind(c, p),
         chatRoom' = chatRoom,
         \A v \in User : \A j : QueuedAt(v, j, p) => QueuedAt(v, j, p)',
         \A v \in User : \A j : QueuedAt(v, j, c)' => QueuedAt(v, j, c)
  PROVE  Behind(c, p)'
<1> SUFFICES ASSUME NEW v \in User, NEW j \in 1 .. Len(outbox'[v]),
                    QueuedAt(v, j, c)', p \notin chatRoom
             PROVE  \E i \in 1 .. j - 1 : QueuedAt(v, i, p)'
  BY DEF Behind
<1>1. QueuedAt(v, j, c) /\ j \in 1 .. Len(outbox[v])
  BY DEF QueuedAt
<1>2. PICK i \in 1 .. j - 1 : QueuedAt(v, i, p)
  BY <1>1 DEF Behind
<1>3. QED
  BY <1>2

LEMMA BehindCommit ==
  ASSUME IInv, OnePlace, NEW u \in User, Commit(u), NEW c, NEW p, Behind(c, p)
  PROVE  Behind(c, p)'
<1>1. /\ 1 \in 1 .. Len(outbox[u]) /\ Head(outbox[u]) = outbox[u][1]
      /\ chatRoom' = IF outbox[u][1].kind = "message"
                     THEN chatRoom \cup {outbox[u][1].id} ELSE chatRoom
  BY Removed DEF Commit
<1>2. ASSUME NEW n PROVE n \in chatRoom' <=> n \in chatRoom \/ QueuedAt(u, 1, n)
  <2>1. outbox[u][1] = SetMessage(n)
          <=> outbox[u][1].kind = "message" /\ outbox[u][1].id = n
    BY <1>1, SetMessageIs DEF OnePlace, Plain
  <2>2. QED
    BY <1>1, <2>1 DEF QueuedAt
<1>3. c \in chatRoom' => p \in chatRoom'
  <2> SUFFICES ASSUME c \in chatRoom' PROVE p \in chatRoom'
    OBVIOUS
  <2>1. CASE c \in chatRoom
    BY <1>2, <2>1 DEF Behind
  <2>2. CASE QueuedAt(u, 1, c)
    <3>1. p \in chatRoom \/ \E i \in 1 .. 1 - 1 : QueuedAt(u, i, p)
      BY <1>1, <2>2 DEF Behind
    <3>2. QED
      BY <1>2, <3>1
  <2>3. QED
    BY <1>2, <2>1, <2>2
<1>4. ASSUME NEW v \in User, NEW j \in 1 .. Len(outbox'[v]), QueuedAt(v, j, c)',
             p \notin chatRoom'
      PROVE  \E i \in 1 .. j - 1 : QueuedAt(v, i, p)'
  <2> DEFINE k == IF v = u THEN j + 1 ELSE j
  <2>1. j \in Nat \ {0}
    OBVIOUS
  <2>2. QueuedAt(v, k, c) /\ k \in 1 .. Len(outbox[v])
    BY <1>4, <2>1, CommitQueues DEF QueuedAt
  <2>3. PICK i \in 1 .. k - 1 : QueuedAt(v, i, p)
    BY <1>2, <1>4, <2>2 DEF Behind
  <2>4. CASE v = u
    <3>1. i # 1
      BY <1>2, <1>4, <2>3, <2>4
    <3>2. i - 1 \in 1 .. j - 1 /\ i - 1 \in Nat \ {0} /\ (i - 1) + 1 = i
      BY <2>1, <2>3, <2>4, <3>1
    <3>3. PICK h \in 1 .. j - 1 : h \in Nat \ {0} /\ h + 1 = i
      BY <3>2
    <3>4. QueuedAt(v, h, p)'
      BY <2>3, <2>4, <3>3, CommitQueues
    <3>5. QED
      BY <3>3, <3>4
  <2>5. CASE v # u
    <3>1. i \in 1 .. j - 1 /\ i \in Nat \ {0}
      BY <2>1, <2>3, <2>5
    <3>2. QueuedAt(v, i, p)'
      BY <2>3, <2>5, <3>1, CommitQueues
    <3>3. QED
      BY <3>1, <3>2
  <2>6. QED
    BY <2>4, <2>5
<1>5. QED
  BY <1>3, <1>4 DEF Behind

LEMMA BehindKill ==
  ASSUME IInv, NEW u \in User, Kill(u), NEW c, NEW p, Behind(c, p)
  PROVE  Behind(c, p)'
<1>1. StopProcess(u) /\ chatRoom' = chatRoom
  BY DEF Kill, StopProcess
<1> SUFFICES ASSUME NEW v \in User, NEW j \in 1 .. Len(outbox'[v]),
                    QueuedAt(v, j, c)', p \notin chatRoom
             PROVE  \E i \in 1 .. j - 1 : QueuedAt(v, i, p)'
  BY <1>1 DEF Behind
<1>2. /\ Len(outbox'[v]) \in Nat
      /\ \A k \in 1 .. Len(outbox'[v]) :
           k \in 1 .. Len(outbox[v]) /\ outbox'[v][k] = outbox[v][k]
  BY <1>1, Cut
<1>3. QueuedAt(v, j, c) /\ j \in 1 .. Len(outbox[v])
  BY <1>2, KillQueues
<1>4. PICK i \in 1 .. j - 1 : QueuedAt(v, i, p)
  BY <1>3 DEF Behind
<1>5. i \in 1 .. Len(outbox'[v])
  BY <1>2, <1>4
<1>6. QueuedAt(v, i, p)'
  BY <1>2, <1>4, <1>5 DEF QueuedAt, SetMessage
<1>7. QED
  BY <1>4, <1>6

-----------------------------------------------------------------------------
(* The messages of a transfer live like others.                            *)

LEMMA PictureQueues ==
  ASSUME IInv, NEW s \in Screen, NEW l \in Nat, NEW m \in 1 .. l, NEW n \in 1 .. l,
         Issue(senderId[s], TransferWrites(s, m, n))
  PROVE  /\ \A v \in User : \A j, x : QueuedAt(v, j, x)' <=>
              \/ QueuedAt(v, j, x)
              \/ v = senderId[s] /\ j = Len(outbox[v]) + 1 /\ x = m
              \/ v = senderId[s] /\ j = Len(outbox'[v]) /\ x = n
         /\ Len(outbox'[senderId[s]]) > Len(outbox[senderId[s]]) + 1
<1>1. PICK ws : ws = TransferWrites(s, m, n)
  OBVIOUS
<1>2. PICK u \in User : u = senderId[s]
  BY ScreenRoom
<1>3. /\ ws \in Seq(GoodWrite(l)) /\ Len(ws) \in Nat /\ Len(ws) >= 2
      /\ ws[1] = SetMessage(m) /\ ws[Len(ws)] = SetMessage(n)
      /\ \A k \in 1 .. Len(ws) : k = 1 \/ k = Len(ws) \/ ws[k].kind = "index"
  BY <1>1, TransferWritesAre
<1>4. Issue(u, ws)
  BY <1>1, <1>2
<1>5. Len(outbox[u]) \in Nat /\ Len(outbox'[u]) = Len(outbox[u]) + Len(ws)
  BY <1>3, <1>4, IssueParts
<1>6. /\ 1 \in 1 .. Len(ws) /\ Len(ws) \in 1 .. Len(ws)
      /\ Len(outbox'[u]) > Len(outbox[u]) + 1
  BY <1>3, <1>5
<1>7. ASSUME NEW v \in User, NEW j, NEW x
      PROVE  QueuedAt(v, j, x)' <=>
               \/ QueuedAt(v, j, x)
               \/ v = u /\ j = Len(outbox[v]) + 1 /\ x = m
               \/ v = u /\ j = Len(outbox'[v]) /\ x = n
  <2>1. QueuedAt(v, j, x)' <=>
          \/ QueuedAt(v, j, x)
          \/ /\ v = u
             /\ \E k \in 1 .. Len(ws) : /\ j = Len(outbox[u]) + k
                                        /\ ws[k] = SetMessage(x)
    BY <1>3, <1>4, IssueQueues
  <2>2. ASSUME NEW k \in 1 .. Len(ws), ws[k] = SetMessage(x)
        PROVE  \/ k = 1 /\ x = m
               \/ k = Len(ws) /\ x = n
    <3>1. ws[k].kind = "message"
      BY <2>2, SetMessageIs
    <3>2. k = 1 \/ k = Len(ws)
      BY <1>3, <3>1
    <3>3. CASE k = 1
      BY <1>3, <2>2, <3>3, SetMessageIs
    <3>4. CASE k = Len(ws)
      BY <1>3, <2>2, <3>4, SetMessageIs
    <3>5. QED
      BY <3>2, <3>3, <3>4
  <2>3. (\E k \in 1 .. Len(ws) : j = Len(outbox[u]) + k /\ ws[k] = SetMessage(x))
          <=> \/ j = Len(outbox[u]) + 1 /\ x = m
              \/ j = Len(outbox[u]) + Len(ws) /\ x = n
    BY <1>3, <1>6, <2>2
  <2>4. QED
    BY <1>5, <2>1, <2>3
<1>8. QED
  BY <1>2, <1>6, <1>7

\* A write w of v's queue that was there before, or is one of a transfer of u.
FromTransfer(w, v, old, u, m, n) ==
  \/ \E i \in 1 .. Len(old) : w = old[i]
  \/ w.kind = "index"
  \/ v = u /\ (w = SetMessage(m) \/ w = SetMessage(n))

LEMMA PictureWrites ==
  ASSUME IInv, NEW s \in Screen, NEW l \in Nat, NEW m \in 1 .. l, NEW n \in 1 .. l,
         Issue(senderId[s], TransferWrites(s, m, n)),
         NEW v \in User, NEW j \in 1 .. Len(outbox'[v])
  PROVE  FromTransfer(outbox'[v][j], v, outbox[v], senderId[s], m, n)
<1>1. PICK ws : ws = TransferWrites(s, m, n)
  OBVIOUS
<1>2. senderId[s] \in User
  BY ScreenRoom
<1>3. /\ ws \in Seq(GoodWrite(l))
      /\ ws[1] = SetMessage(m) /\ ws[Len(ws)] = SetMessage(n)
      /\ \A k \in 1 .. Len(ws) : k = 1 \/ k = Len(ws) \/ ws[k].kind = "index"
  BY <1>1, TransferWritesAre
<1>4. \/ \E i \in 1 .. Len(outbox[v]) : outbox'[v][j] = outbox[v][i]
      \/ v = senderId[s] /\ \E k \in 1 .. Len(ws) : outbox'[v][j] = ws[k]
  <2>1. ws \in Seq(GoodWrite(l)) /\ Issue(senderId[s], ws)
    BY <1>1, <1>3
  <2>2. QED
    BY <1>2, <2>1, Appended
<1>5. QED
  BY <1>3, <1>4 DEF FromTransfer

\* The messages of the steps of a transfer, and what they are.
LEMMA TransferMessages ==
  ASSUME ArInv, NEW s \in ArScreen, NEW m \in upload[s], PictureUploaded(s, m)
  PROVE  /\ s \in Screen /\ upload[s] = {m} /\ m # NewId
         /\ Len(created') \in Nat /\ Len(created') = Len(created) + 1
         /\ m \in 1 .. Len(created') /\ NewId \in 1 .. Len(created')
         /\ m \in ChatId /\ NewId \in ChatId
         /\ \A k \in 1 .. Len(created) : created'[k] = created[k]
         /\ created'[NewId].readerID # senderId[s]
         /\ m \in 1 .. Len(created) /\ created[m].readerID # senderId[s]
         /\ m \notin chatRoom /\ m \notin isRead
         /\ \A u \in User : \A i \in Nat : ~QueuedAt(u, i, m)
         /\ \A t \in Screen : m \in upload[t] => t = s
         /\ Issue(senderId[s], TransferWrites(s, m, NewId))
         /\ UNCHANGED <<chatRoom, isRead, status>>
         /\ upload' = [upload EXCEPT ![s] = {}]
<1>1. /\ s \in Screen /\ NewMessage(senderId[s], recieverId[s], "CRYPTO")
      /\ Issue(senderId[s], TransferWrites(s, m, NewId))
  BY ArScreenAssumption DEF PictureUploaded, TransferWrites
<1>2. IInv /\ OnePlace /\ MarksInv
  BY DEF ArInv, LInv, RInv
<1>3. upload[s] = {m}
  BY DEF ArInv, TransfersInv
<1>4. m \in 1 .. Len(created) /\ Len(created) \in Nat /\ m \in ChatId
  BY <1>1, <1>2, Ranges DEF ChatId
<1>5. /\ Len(created') = Len(created) + 1 /\ Len(created') <= MaxMessages
      /\ NewId = Len(created) + 1
      /\ \A k \in 1 .. Len(created) : created'[k] = created[k]
  BY <1>1, <1>2, NewMessageIs
<1>6. created'[NewId].readerID # senderId[s] /\ created[m].readerID # senderId[s]
  BY <1>1, <1>2, CreatedGrows DEF MarksInv
<1>7. /\ m # NewId /\ NewId \in 1 .. Len(created') /\ NewId \in ChatId
      /\ m \in 1 .. Len(created') /\ Len(created') \in Nat
  BY <1>4, <1>5, MaxMessagesAssumption DEF ChatId
<1>8. /\ m \notin chatRoom /\ m \notin isRead
      /\ \A u \in User : \A i \in Nat : ~QueuedAt(u, i, m)
      /\ \A t \in Screen : m \in upload[t] => t = s
  BY <1>1, <1>2, <1>4, Ranges DEF OnePlace, InOnePlace
<1>9. UNCHANGED <<chatRoom, isRead, status>> /\ upload' = [upload EXCEPT ![s] = {}]
  BY DEF PictureUploaded
<1>10. QED
  BY <1>1, <1>3, <1>4, <1>5, <1>6, <1>7, <1>8, <1>9

LEMMA PictureUploadedMarks ==
  ASSUME ArInv, NEW s \in ArScreen, NEW m \in upload[s], PictureUploaded(s, m)
  PROVE  MarksInv'
<1>1. RInv /\ IInv
  BY DEF ArInv, LInv, RInv
<1>2. PICK n : n = NewId
  OBVIOUS
<1>3. /\ s \in Screen
      /\ \A k \in 1 .. Len(created) : created'[k] = created[k]
      /\ \A x \in {m, n} : created'[x].readerID # senderId[s]
      /\ Issue(senderId[s], TransferWrites(s, m, n))
      /\ UNCHANGED <<chatRoom, isRead, status>>
      /\ upload' = [upload EXCEPT ![s] = {}]
  BY <1>2, TransferMessages
<1>4. PICK l \in Nat : m \in 1 .. l /\ n \in 1 .. l
  BY <1>2, TransferMessages
<1>5. ASSUME NEW v \in User, NEW j \in 1 .. Len(outbox'[v])
      PROVE  \/ \E i \in 1 .. Len(outbox[v]) : outbox'[v][j] = outbox[v][i]
             \/ Rightful(v, outbox[v][j])'
  <2>1. FromTransfer(outbox'[v][j], v, outbox[v], senderId[s], m, n)
    BY <1>1, <1>3, <1>4, PictureWrites
  <2>2. CASE outbox'[v][j].kind = "index"
    BY <2>2 DEF Rightful
  <2>3. ASSUME v = senderId[s], NEW x \in {m, n}, outbox'[v][j] = SetMessage(x)
        PROVE  Rightful(v, outbox[v][j])'
    <3>1. outbox'[v][j].kind = "message" /\ outbox'[v][j].id = x
      BY <2>3, SetMessageIs
    <3>2. created'[outbox'[v][j].id].readerID # v
      BY <1>3, <2>3, <3>1
    <3>3. QED
      BY <3>1, <3>2 DEF Rightful
  <2>4. QED
    BY <2>1, <2>2, <2>3 DEF FromTransfer
<1>6. \A t \in Screen : \A k \in upload'[t] : k \in upload[t]
  BY <1>1, <1>3 DEF IInv, ViewInv
<1>7. QED
  BY <1>1, <1>3, <1>5, <1>6, MarksStay

LEMMA PictureUploadedLife ==
  ASSUME ArInv, IInv', NEW s \in ArScreen, NEW m \in upload[s],
         PictureUploaded(s, m)
  PROVE  OnePlace' /\ \E n \in ChatId : Life!Compose(n)
<1>1. IInv /\ OnePlace /\ senderId[s] \in User
  BY ScreenRoom, ArScreenAssumption DEF ArInv, LInv, RInv
<1>2. PICK n : n = NewId
  OBVIOUS
<1>3. /\ s \in Screen /\ upload[s] = {m} /\ m # n
      /\ Len(created') \in Nat /\ Len(created') = Len(created) + 1
      /\ m \in 1 .. Len(created') /\ n \in 1 .. Len(created')
      /\ n \in ChatId /\ m \in ChatId
      /\ m \notin chatRoom
      /\ \A u \in User : \A i \in Nat : ~QueuedAt(u, i, m)
      /\ Issue(senderId[s], TransferWrites(s, m, n))
      /\ UNCHANGED <<chatRoom, isRead>>
      /\ upload' = [upload EXCEPT ![s] = {}]
  BY <1>2, TransferMessages
<1>4. /\ n \notin chatRoom /\ n \notin isRead
      /\ \A u \in User : \A i \in Nat : ~QueuedAt(u, i, n)
      /\ \A t \in Screen : n \notin upload[t]
  BY <1>1, <1>2, NewIsNowhere
<1>5. /\ \A v \in User : \A j, x : QueuedAt(v, j, x)' <=>
           \/ QueuedAt(v, j, x)
           \/ v = senderId[s] /\ j = Len(outbox[v]) + 1 /\ x = m
           \/ v = senderId[s] /\ j = Len(outbox'[v]) /\ x = n
      /\ \A v \in User : \A j \in 1 .. Len(outbox'[v]) :
           \/ \E i \in 1 .. Len(outbox[v]) : outbox'[v][j] = outbox[v][i]
           \/ outbox'[v][j].kind # "message"
           \/ \E x : outbox'[v][j] = SetMessage(x)
  <2>1. PICK l \in Nat : m \in 1 .. l /\ n \in 1 .. l
    BY <1>3
  <2>2. IInv /\ s \in Screen /\ Issue(senderId[s], TransferWrites(s, m, n))
    BY <1>1, <1>3
  <2>3. \A v \in User : \A j, x : QueuedAt(v, j, x)' <=>
          \/ QueuedAt(v, j, x)
          \/ v = senderId[s] /\ j = Len(outbox[v]) + 1 /\ x = m
          \/ v = senderId[s] /\ j = Len(outbox'[v]) /\ x = n
    BY <2>1, <2>2, PictureQueues
  <2>4. ASSUME NEW v \in User, NEW j \in 1 .. Len(outbox'[v])
        PROVE  \/ \E i \in 1 .. Len(outbox[v]) : outbox'[v][j] = outbox[v][i]
               \/ outbox'[v][j].kind # "message"
               \/ \E x : outbox'[v][j] = SetMessage(x)
    <3>1. FromTransfer(outbox'[v][j], v, outbox[v], senderId[s], m, n)
      BY <2>1, <2>2, PictureWrites
    <3>2. QED
      BY <3>1 DEF FromTransfer
  <2>5. QED
    BY <2>4, <2>3
<1>6. \A t \in Screen : /\ m \notin upload'[t] /\ upload'[t] \subseteq upload[t]
                        /\ upload'[t] \ {m} = upload[t] \ {m}
  <2>1. \A t \in Screen : m \in upload[t] => t = s
    BY TransferMessages
  <2>2. upload \in [Screen -> SUBSET ChatId]
    BY <1>1 DEF IInv, ViewInv
  <2>3. QED
    BY <1>3, <2>1, <2>2
<1>7. Plain'
  BY <1>1, <1>5, PlainStays DEF OnePlace
<1>8. ASSUME NEW x \in ChatId PROVE InOnePlace(x)'
  <2>1. CASE x # m /\ x # n
    BY <1>1, <1>3, <1>5, <1>6, <2>1, StaysInOnePlace DEF OnePlace
  <2>2. CASE x = m \/ x = n
    <3>1. PICK k : k = IF x = m THEN Len(outbox[senderId[s]]) + 1
                                ELSE Len(outbox'[senderId[s]])
      OBVIOUS
    <3>2. \A v \in User, j \in Nat : QueuedAt(v, j, x)' => v = senderId[s] /\ j = k
      BY <1>3, <1>4, <1>5, <2>2, <3>1
    <3>3. x \notin chatRoom' /\ \A t \in Screen : x \notin upload'[t]
      BY <1>3, <1>4, <1>6, <2>2
    <3>4. QED
      BY <3>2, <3>3, Zenon DEF InOnePlace
  <2>3. QED
    BY <2>1, <2>2
<1>9. OnePlace'
  BY <1>7, <1>8 DEF OnePlace, ChatId
<1>10. Pending(m) /\ Pending(m)' /\ Pending(n)'
  <2>1. PICK j : j = Len(outbox[senderId[s]]) + 1
    OBVIOUS
  <2>2. PICK k : k = Len(outbox'[senderId[s]])
    OBVIOUS
  <2>3. QueuedAt(senderId[s], j, m)' /\ QueuedAt(senderId[s], k, n)'
    BY <1>1, <1>5, <2>1, <2>2
  <2>4. QED
    BY <1>1, <1>3, <2>3 DEF Pending, QueuedAt
<1>11. ASSUME NEW x \in ChatId \ {n} PROVE PhaseOf(x)' = PhaseOf(x)
  <2>1. Pending(x)' <=> Pending(x)
    <3>1. CASE x = m
      BY <1>10, <3>1
    <3>2. CASE x # m
      <4>1. \A v \in User : \A j : QueuedAt(v, j, x)' <=> QueuedAt(v, j, x)
        BY <1>5, <1>11, <3>2
      <4>2. \A t \in Screen : x \in upload'[t] <=> x \in upload[t]
        BY <1>6, <3>2
      <4>3. QED
        BY <4>1, <4>2, QueuedAtNat DEF Pending, QueuedAt
    <3>3. QED
      BY <3>1, <3>2
  <2>2. x > Len(created') <=> x > Len(created)
    BY <1>1, <1>2, <1>3, <1>11, Ranges DEF NewId, ChatId
  <2>3. QED
    BY <1>3, <2>1, <2>2, SamePhase
<1>12. n > Len(created) /\ ~(n > Len(created'))
  BY <1>1, <1>2, <1>3, Ranges DEF NewId
<1>13. PhaseOf(n) = "none" /\ PhaseOf(n)' = "pending"
  BY <1>3, <1>4, <1>10, <1>12 DEF PhaseOf
<1>14. Life!Move(n, "none", "pending")
  BY <1>1, <1>3, <1>11, <1>13, PhaseMoves
<1>15. QED
  BY <1>3, <1>9, <1>14 DEF Life!Compose

LEMMA SendPictureLife ==
  ASSUME ArInv, IInv', NEW s \in ArScreen, SendPicture(s)
  PROVE  MarksInv' /\ OnePlace' /\ \E n \in ChatId : Life!Compose(n)
<1>1. PICK n : n = NewId
  OBVIOUS
<1>2. /\ s \in Screen /\ NewMessage(senderId[s], recieverId[s], "MEDIA")
      /\ upload' = [upload EXCEPT ![s] = {n}]
      /\ UNCHANGED <<chatRoom, isRead, outbox, status>>
      /\ transfer[s] = "allowed"
  BY <1>1, ArScreenAssumption DEF SendPicture, Move
<1>3. /\ IInv /\ OnePlace /\ RInv /\ upload \in [Screen -> SUBSET ChatId]
      /\ upload[s] = {}
  BY <1>2 DEF ArInv, LInv, RInv, IInv, ViewInv, TransfersInv
<1>4. /\ \A m \in 1 .. Len(created) : created'[m] = created[m]
      /\ created'[n].readerID # senderId[s] /\ n \in 1 .. Len(created')
      /\ Len(created) \in Nat /\ Len(created') = Len(created) + 1
      /\ n = Len(created) + 1 /\ Len(created') <= MaxMessages
  BY <1>1, <1>2, <1>3, CreatedGrows, NewMessageIs
<1>5. /\ n \in ChatId /\ n > Len(created) /\ ~(n > Len(created'))
      /\ \A m \in ChatId \ {n} : m > Len(created') <=> m > Len(created)
  BY <1>4, MaxMessagesAssumption DEF ChatId
<1>6. /\ n \notin chatRoom /\ n \notin isRead
      /\ \A u \in User : \A i \in Nat : ~QueuedAt(u, i, n)
      /\ \A t \in Screen : n \notin upload[t]
  BY <1>1, <1>3, NewIsNowhere
<1>7. MarksInv'
  <2>1. \A t \in Screen : \A m \in upload'[t] :
          m \in upload[t] \/ created'[m].readerID # senderId[t]
    BY <1>2, <1>3, <1>4
  <2>2. QED
    BY <1>2, <1>3, <1>4, <2>1, MarksStay
<1>8. ASSUME NEW u \in User, NEW i, NEW m
      PROVE  QueuedAt(u, i, m)' <=> QueuedAt(u, i, m)
  BY <1>2 DEF QueuedAt, SetMessage
<1>9. ASSUME NEW t \in Screen, NEW m
      PROVE  m \in upload'[t] <=> \/ m \in upload[t]
                                  \/ t = s /\ m = n
  BY <1>2, <1>3
<1>10. OnePlace'
  <2>1. Plain'
    BY <1>2, <1>3 DEF OnePlace, Plain, SetMessage
  <2>2. ASSUME NEW m \in ChatId PROVE InOnePlace(m)'
    <3>1. CASE m # n
      BY <1>2, <1>3, <1>8, <1>9, <3>1, StaysInOnePlace DEF OnePlace
    <3>2. CASE m = n
      <4>1. /\ \A t \in Screen : m \in upload'[t] => t = s
            /\ m \notin chatRoom'
            /\ \A u \in User : \A i \in Nat : ~QueuedAt(u, i, m)'
        BY <1>2, <1>6, <1>8, <1>9, <3>2
      <4>2. QED
        BY <4>1, Zenon DEF InOnePlace
    <3>3. QED
      BY <3>1, <3>2
  <2>3. QED
    BY <2>1, <2>2 DEF OnePlace, ChatId
<1>11. ASSUME NEW m \in ChatId \ {n} PROVE PhaseOf(m)' = PhaseOf(m)
  <2>1. Pending(m)' <=> Pending(m)
    <3>1. \A t \in Screen : m \in upload'[t] <=> m \in upload[t]
      BY <1>9, <1>11
    <3>2. QED
      BY <1>2, <3>1 DEF Pending, QueuedAt, SetMessage
  <2>2. QED
    BY <1>2, <1>5, <1>11, <2>1, SamePhase
<1>12. Pending(n)'
  BY <1>2, <1>9 DEF Pending
<1>13. PhaseOf(n) = "none" /\ PhaseOf(n)' = "pending"
  BY <1>2, <1>5, <1>6, <1>12 DEF PhaseOf
<1>14. Life!Move(n, "none", "pending")
  BY <1>3, <1>5, <1>11, <1>13, PhaseMoves
<1>15. QED
  BY <1>5, <1>7, <1>10, <1>14 DEF Life!Compose

LEMMA QuietLife ==
  ASSUME ArInv, IInv', NEW s \in ArScreen, QuietTransfer(s)
  PROVE  MarksInv' /\ OnePlace' /\ UNCHANGED Phase
<1>1. IInv /\ RInv /\ OnePlace /\ s \in Screen
  BY ArScreenAssumption DEF ArInv, LInv, RInv
<1>2. UNCHANGED <<created, chatRoom, isRead, outbox, upload>>
  BY DEF QuietTransfer, ConfirmAppears, NoButton, ConversationSnapshot, storeVars
<1>3. \A t \in Screen : status[t] # "unopened" => status'[t] # "unopened"
  BY <1>1 DEF QuietTransfer, ConfirmAppears, NoButton, ConversationSnapshot,
     IInv, ViewInv
<1>4. MarksInv'
  BY <1>1, <1>2, <1>3, MarksStay
<1>5. QED
  BY <1>1, <1>2, <1>4, SilentPlace, SilentLife

LEMMA ArStepLife ==
  ASSUME ArInv, [ArNext]_arVars
  PROVE  LInv' /\ [Life!Next]_Phase
<1>1. LInv /\ IInv /\ IInv'
  BY ArStepInv DEF ArInv, LInv, RInv
<1>2. CASE [Next]_vars
  BY <1>1, <1>2, StepLife
<1>3. ASSUME NEW s \in ArScreen, QuietTransfer(s)
      PROVE  LInv' /\ [Life!Next]_Phase
  BY <1>1, <1>3, QuietLife DEF LInv, RInv
<1>4. ASSUME NEW s \in ArScreen, SendPicture(s)
      PROVE  LInv' /\ [Life!Next]_Phase
  BY <1>1, <1>4, SendPictureLife DEF LInv, RInv, Life!Next
<1>5. ASSUME NEW s \in ArScreen, NEW m \in upload[s], PictureUploaded(s, m)
      PROVE  LInv' /\ [Life!Next]_Phase
  BY <1>1, <1>5, PictureUploadedLife, PictureUploadedMarks DEF LInv, RInv, Life!Next
<1>6. QED
  BY <1>2, <1>3, <1>4, <1>5, ArSteps

-----------------------------------------------------------------------------
(* Amounts and pictures under each step.                                   *)

\* What a chat room's step composes and uploads.
LEMMA NextMessages ==
  ASSUME ArInv, [Next]_vars
  PROVE  /\ Len(created) \in Nat /\ Len(created') \in Nat
         /\ Len(created) <= Len(created')
         /\ \A m \in 1 .. Len(created) : created'[m] = created[m]
         /\ \A m \in 1 .. Len(created') :
              m \in 1 .. Len(created) \/ created'[m].type # "CRYPTO"
         /\ \A s \in Screen : \A m \in upload'[s] :
              \/ m \in upload[s]
              \/ m \notin 1 .. Len(created) /\ PictureOf(s, m)'
<1>1. IInv /\ Len(created) \in Nat /\ upload \in [Screen -> SUBSET ChatId]
  BY Ranges DEF ArInv, LInv, RInv, IInv, ViewInv
<1>2. \A m \in 1 .. Len(created) : created'[m] = created[m]
  BY <1>1, CreatedStays
<1>3. CASE UNCHANGED created /\ \A s \in Screen : upload'[s] \subseteq upload[s]
  BY <1>1, <1>3
<1>4. CASE \E s \in Screen : SendText(s)
  <2>1. PICK s \in Screen : SendText(s)
    BY <1>4
  <2>2. NewMessage(senderId[s], recieverId[s], "TEXT") /\ UNCHANGED upload
    BY <2>1 DEF SendText
  <2>3. /\ Len(created') = Len(created) + 1 /\ NewId = Len(created) + 1
        /\ created'[NewId].type = "TEXT"
    BY <1>1, <2>2, NewMessageIs
  <2>4. QED
    BY <1>1, <1>2, <2>2, <2>3
<1>5. CASE \E s \in Screen : SendMedia(s)
  <2>1. PICK s \in Screen : SendMedia(s)
    BY <1>5
  <2>2. PICK n : n = NewId
    OBVIOUS
  <2>3. /\ NewMessage(senderId[s], recieverId[s], "MEDIA")
        /\ upload' = [upload EXCEPT ![s] = upload[s] \cup {n}]
    BY <2>1, <2>2 DEF SendMedia
  <2>4. /\ Len(created') = Len(created) + 1 /\ n = Len(created) + 1
        /\ created'[n].type = "MEDIA" /\ created'[n].composerId = senderId[s]
        /\ created'[n].roomId = chatRoomTitle(s)
    BY <1>1, <2>2, <2>3, NewMessageIs
  <2>5. PictureOf(s, n)'
    BY <2>4 DEF PictureOf, chatRoomTitle
  <2>6. \A t \in Screen : \A m \in upload'[t] : m \in upload[t] \/ (t = s /\ m = n)
    BY <1>1, <2>3
  <2>7. QED
    BY <1>1, <1>2, <2>4, <2>5, <2>6
<1>6. CASE \E s \in Screen :
             \/ ViewWillAppear(s) \/ PickImage(s) \/ BackAction(s)
             \/ \E m \in upload[s] : UploadSucceeds(s, m) \/ UploadFails(s, m)
             \/ \E i \in ListenerIndex :
                  ConversationSnapshot(s, i) \/ MessageSnapshot(s, i)
  <2>1. UNCHANGED created /\ \A s \in Screen : upload'[s] \subseteq upload[s]
    BY <1>1, <1>6 DEF ViewWillAppear, PickImage, BackAction, UploadSucceeds,
       UploadFails, ConversationSnapshot, MessageSnapshot, storeVars
  <2>2. QED
    BY <1>3, <2>1
<1>7. CASE \/ \E u \in User : Client(u) \/ Kill(u) \/ Launch(u)
           \/ UNCHANGED vars
  <2>1. UNCHANGED created /\ \A s \in Screen : upload'[s] \subseteq upload[s]
    BY <1>1, <1>7 DEF Client, Persist, Commit, Kill, StopProcess, Launch,
       StartProcess, vars, storeVars, screenVars
  <2>2. QED
    BY <1>3, <2>1
<1>8. QED
  BY <1>4, <1>5, <1>6, <1>7 DEF Next, ScreenStep, UploadEnds, Snapshot

\* No chat room's step lets an amount overtake a picture.
LEMMA BehindNext ==
  ASSUME ArInv, [Next]_vars, NEW c \in Amounts, NEW p, Behind(c, p)
  PROVE  Behind(c, p)'
<1>1. IInv /\ OnePlace /\ c \in 1 .. Len(created) /\ created[c].type = "CRYPTO"
  BY DEF ArInv, LInv, RInv, Amounts
<1>2. CASE UNCHANGED <<chatRoom, outbox>>
  <2>1. ASSUME NEW v \in User, NEW j, NEW m
        PROVE  QueuedAt(v, j, m)' <=> QueuedAt(v, j, m)
    BY <1>2 DEF QueuedAt, SetMessage
  <2>2. QED
    BY <1>1, <1>2, <2>1, BehindStays
<1>3. ASSUME NEW s \in Screen, NEW m, m \in 1 .. Len(created'), m # c,
             StoreMessage(s, m), chatRoom' = chatRoom, Len(created') \in Nat
      PROVE  Behind(c, p)'
  <2>1. \A v \in User : \A j, n : QueuedAt(v, j, n)' <=>
              \/ QueuedAt(v, j, n)
              \/ v = senderId[s] /\ j = Len(outbox[v]) + 1 /\ n = m
    BY <1>1, <1>3, StoreQueues
  <2>2. QED
    BY <1>1, <1>3, <2>1, BehindStays
<1>4. CASE \E s \in Screen : SendText(s)
  <2>1. PICK s \in Screen : SendText(s)
    BY <1>4
  <2>2. PICK n : n = NewId
    OBVIOUS
  <2>3. /\ StoreMessage(s, n) /\ chatRoom' = chatRoom
        /\ NewMessage(senderId[s], recieverId[s], "TEXT")
    BY <2>1, <2>2 DEF SendText
  <2>4. n \in 1 .. Len(created') /\ n # c /\ Len(created') \in Nat
    BY <1>1, <2>2, <2>3, NewMessageIs
  <2>5. QED
    BY <1>3, <2>3, <2>4
<1>5. CASE \E s \in Screen : \E m \in upload[s] : UploadSucceeds(s, m)
  <2>1. PICK s \in Screen : \E m \in upload[s] : UploadSucceeds(s, m)
    BY <1>5
  <2>2. PICK m \in upload[s] : UploadSucceeds(s, m)
    BY <2>1
  <2>3. StoreMessage(s, m) /\ chatRoom' = chatRoom /\ created' = created
    BY <2>2 DEF UploadSucceeds
  <2>4. created[m].type = "MEDIA"
    BY DEF ArInv, UploadsInv, PictureOf
  <2>5. m \in 1 .. Len(created') /\ m # c /\ Len(created') \in Nat
    BY <1>1, <2>3, <2>4, Ranges DEF ChatId
  <2>6. QED
    BY <1>3, <2>3, <2>5
<1>6. CASE \E s \in Screen : \E i \in ListenerIndex : MessageSnapshot(s, i)
  <2>1. PICK s \in Screen, i \in ListenerIndex : MessageSnapshot(s, i)
    BY <1>6
  <2>2. \A v \in User : \A j, m : QueuedAt(v, j, m)' <=> QueuedAt(v, j, m)
    BY <1>1, <2>1, ReceiptQueues
  <2>3. chatRoom' = chatRoom
    BY <2>1 DEF MessageSnapshot
  <2>4. QED
    BY <1>1, <2>2, <2>3, BehindStays
<1>7. CASE \E u \in User : Commit(u) \/ Kill(u)
  BY <1>1, <1>7, BehindCommit, BehindKill
<1>8. CASE \/ \E s \in Screen :
                \/ ViewWillAppear(s) \/ PickImage(s) \/ SendMedia(s)
                \/ BackAction(s) \/ \E m \in upload[s] : UploadFails(s, m)
                \/ \E i \in ListenerIndex : ConversationSnapshot(s, i)
           \/ \E u \in User : Persist(u) \/ Launch(u)
           \/ UNCHANGED vars
  <2>1. UNCHANGED <<chatRoom, outbox>>
    BY <1>8 DEF ViewWillAppear, PickImage, SendMedia, BackAction, UploadFails,
       ConversationSnapshot, Persist, Launch, StartProcess, vars, storeVars
  <2>2. QED
    BY <1>2, <2>1
<1>9. QED
  BY <1>4, <1>5, <1>6, <1>7, <1>8
     DEF Next, ScreenStep, UploadEnds, Snapshot, Client

\* A step that composes no amount keeps the pictures of the amounts.
LEMMA PairStays ==
  ASSUME NEW f, PairedBy(f),
         Len(created) \in Nat, Len(created') \in Nat, Len(created) <= Len(created'),
         \A m \in 1 .. Len(created) : created'[m] = created[m],
         \A m \in 1 .. Len(created') :
           m \in 1 .. Len(created) \/ created'[m].type # "CRYPTO",
         \A s \in Screen : \A m \in upload'[s] :
           m \in upload[s] \/ m \notin 1 .. Len(created),
         \A c \in Amounts : Behind(c, f[c]) => Behind(c, f[c])'
  PROVE  PairedBy(f)' /\ Amounts' = Amounts
<1>1. Amounts' = Amounts
  BY DEF Amounts
<1>2. f \in [Amounts -> 1 .. Len(created')]
  BY DEF PairedBy
<1>3. ASSUME NEW c \in Amounts
      PROVE  /\ created'[f[c]].type = "MEDIA"
             /\ created'[f[c]].composerId = created'[c].composerId
             /\ created'[f[c]].roomId = created'[c].roomId
             /\ \A s \in Screen : f[c] \notin upload'[s]
             /\ Behind(c, f[c])'
  <2>1. f[c] \in 1 .. Len(created) /\ c \in 1 .. Len(created)
    BY DEF PairedBy, Amounts
  <2>2. created'[f[c]] = created[f[c]] /\ created'[c] = created[c]
    BY <2>1
  <2>3. QED
    BY <2>1, <2>2 DEF PairedBy
<1>4. QED
  BY <1>1, <1>2, <1>3 DEF PairedBy

\* The amount of a transfer, and the screen it is the amount of.
LEMMA NewAmount ==
  ASSUME ArInv, NEW s \in ArScreen, NEW m \in upload[s], PictureUploaded(s, m),
         NEW n, n = NewId
  PROVE  /\ Amounts' = Amounts \cup {n} /\ n \notin Amounts
         /\ created'[n].composerId = senderId[s]
         /\ created'[n].roomId = chatRoomTitle(s)
         /\ \A c \in Amounts : c \in 1 .. Len(created) /\ c # m /\ c # n
         /\ \A k \in 1 .. Len(created) : created'[k] = created[k]
<1>1. IInv /\ s \in Screen /\ NewMessage(senderId[s], recieverId[s], "CRYPTO")
  BY ArScreenAssumption DEF ArInv, LInv, RInv, PictureUploaded
<1>2. /\ Len(created) \in Nat /\ n = Len(created) + 1
      /\ Len(created') = Len(created) + 1
      /\ \A k \in 1 .. Len(created) : created'[k] = created[k]
      /\ created'[n].type = "CRYPTO"
      /\ created'[n].composerId = senderId[s]
      /\ created'[n].roomId = chatRoomTitle(s)
  BY <1>1, NewMessageIs
<1>3. created[m].type = "MEDIA"
  BY <1>1 DEF ArInv, UploadsInv, PictureOf
<1>4. QED
  BY <1>2, <1>3 DEF Amounts

LEMMA NewPair ==
  ASSUME ArInv, NEW s \in ArScreen, NEW m \in upload[s], PictureUploaded(s, m),
         NEW f, PairedBy(f)
  PROVE  \E g : PairedBy(g)'
<1>1. PICK n : n = NewId
  OBVIOUS
<1>2. /\ s \in Screen /\ Len(created') \in Nat /\ Len(created') = Len(created) + 1
      /\ m \in 1 .. Len(created') /\ n \in 1 .. Len(created')
      /\ m \in 1 .. Len(created) /\ m # n
      /\ \A t \in Screen : m \in upload[t] => t = s
      /\ Issue(senderId[s], TransferWrites(s, m, n))
      /\ chatRoom' = chatRoom
      /\ upload' = [upload EXCEPT ![s] = {}]
  BY <1>1, TransferMessages
<1>3. /\ Amounts' = Amounts \cup {n} /\ n \notin Amounts
      /\ created'[n].composerId = senderId[s]
      /\ created'[n].roomId = chatRoomTitle(s)
      /\ \A c \in Amounts : c \in 1 .. Len(created) /\ c # m /\ c # n
      /\ \A k \in 1 .. Len(created) : created'[k] = created[k]
  BY <1>1, NewAmount
<1>4. IInv /\ upload \in [Screen -> SUBSET ChatId] /\ Len(created) \in Nat
  BY Ranges DEF ArInv, LInv, RInv, IInv, ViewInv
<1>5. /\ f \in [Amounts -> 1 .. Len(created)]
      /\ \A c, d \in Amounts : f[c] = f[d] => c = d
      /\ \A c \in Amounts : f[c] # m /\ Behind(c, f[c])
  BY <1>2 DEF PairedBy
<1>6. PICK l \in Nat : m \in 1 .. l /\ n \in 1 .. l
  BY <1>2
<1>7. /\ \A v \in User : \A j, x : QueuedAt(v, j, x)' <=>
           \/ QueuedAt(v, j, x)
           \/ v = senderId[s] /\ j = Len(outbox[v]) + 1 /\ x = m
           \/ v = senderId[s] /\ j = Len(outbox'[v]) /\ x = n
      /\ Len(outbox'[senderId[s]]) > Len(outbox[senderId[s]]) + 1
  BY <1>2, <1>4, <1>6, PictureQueues
<1>8. ASSUME NEW c \in Amounts PROVE Behind(c, f[c])'
  <2>1. PICK p : p = f[c]
    OBVIOUS
  <2>2. \A v \in User : \A j : QueuedAt(v, j, c)' => QueuedAt(v, j, c)
    BY <1>3, <1>7
  <2>3. \A v \in User : \A j : QueuedAt(v, j, p) => QueuedAt(v, j, p)'
    BY <1>7
  <2>4. Behind(c, p)'
    BY <1>2, <1>4, <1>5, <2>1, <2>2, <2>3, BehindStays
  <2>5. QED
    BY <2>1, <2>4
<1>9. Behind(n, m)'
  <2>1. n \notin chatRoom'
    BY <1>1, <1>2, <1>4, NewIsNowhere
  <2>2. ASSUME NEW v \in User, NEW j \in 1 .. Len(outbox'[v]), QueuedAt(v, j, n)'
        PROVE  \E i \in 1 .. j - 1 : QueuedAt(v, i, m)'
    <3>1. ~QueuedAt(v, j, n)
      BY <1>1, <1>4, NewIsNowhere
    <3>2. v = senderId[s] /\ j = Len(outbox'[v])
      BY <1>2, <1>7, <2>2, <3>1
    <3>3. PICK i : i = Len(outbox[v]) + 1
      OBVIOUS
    <3>4. QueuedAt(v, i, m)'
      BY <1>7, <3>2, <3>3
    <3>5. i \in 1 .. j - 1
      BY <1>4, <1>7, <3>2, <3>3, Ranges
    <3>6. QED
      BY <3>4, <3>5
  <2>3. QED
    BY <2>1, <2>2 DEF Behind
<1> DEFINE g == [c \in Amounts' |-> IF c = n THEN m ELSE f[c]]
<1>10. /\ g \in [Amounts' -> 1 .. Len(created')]
       /\ g[n] = m /\ \A c \in Amounts : g[c] = f[c]
  BY <1>2, <1>3, <1>4, <1>5
<1>11. PICK h : h = g
  OBVIOUS
<1>12. /\ h \in [Amounts' -> 1 .. Len(created')]
       /\ h[n] = m /\ \A c \in Amounts : h[c] = f[c]
  BY <1>10, <1>11
<1> HIDE DEF g
<1>13. \A c, d \in Amounts' : h[c] = h[d] => c = d
  BY <1>3, <1>5, <1>12
<1>14. ASSUME NEW c \in Amounts'
       PROVE  /\ created'[h[c]].type = "MEDIA"
              /\ created'[h[c]].composerId = created'[c].composerId
              /\ created'[h[c]].roomId = created'[c].roomId
              /\ \A t \in Screen : h[c] \notin upload'[t]
              /\ Behind(c, h[c])'
  <2>1. CASE c = n
    <3>1. created'[m] = created[m] /\ PictureOf(s, m)
      BY <1>2, <1>3 DEF ArInv, UploadsInv
    <3>2. \A t \in Screen : m \notin upload'[t]
      BY <1>2, <1>4
    <3>3. QED
      BY <1>3, <1>9, <1>12, <2>1, <3>1, <3>2 DEF PictureOf
  <2>2. CASE c \in Amounts
    <3>1. PICK p \in 1 .. Len(created) : p = f[c] /\ h[c] = p
      BY <1>5, <1>12, <2>2
    <3>2. created'[p] = created[p] /\ created'[c] = created[c]
      BY <1>3, <2>2, <3>1
    <3>3. /\ created[p].type = "MEDIA"
          /\ created[p].composerId = created[c].composerId
          /\ created[p].roomId = created[c].roomId
          /\ \A t \in Screen : p \notin upload[t]
      BY <2>2, <3>1 DEF PairedBy
    <3>4. \A t \in Screen : p \notin upload'[t]
      BY <1>2, <1>4, <3>3
    <3>5. Behind(c, p)'
      BY <1>8, <2>2, <3>1
    <3>6. QED
      BY <3>1, <3>2, <3>3, <3>4, <3>5
  <2>3. QED
    BY <1>3, <1>14, <2>1, <2>2
<1>15. PairedBy(h)'
  BY <1>12, <1>13, <1>14 DEF PairedBy
<1>16. QED
  BY <1>15

\* Each other step of a transfer.
LEMMA QuietPair ==
  ASSUME ArInv, NEW s \in ArScreen, QuietTransfer(s) \/ SendPicture(s),
         NEW f, PairedBy(f)
  PROVE  /\ PairedBy(f)' /\ UploadsInv'
         /\ Amounts' = Amounts
         /\ \A m \in 1 .. Len(created) : created'[m] = created[m]
<1>1. IInv /\ Len(created) \in Nat /\ upload \in [Screen -> SUBSET ChatId]
      /\ s \in Screen
  BY Ranges, ArScreenAssumption DEF ArInv, LInv, RInv, IInv, ViewInv
<1>2. UNCHANGED <<chatRoom, outbox>>
  BY QuietInv, <1>1 DEF SendPicture
<1>3. ASSUME NEW c, NEW p, Behind(c, p) PROVE Behind(c, p)'
  <2>1. ASSUME NEW v \in User, NEW j, NEW m
        PROVE  QueuedAt(v, j, m)' <=> QueuedAt(v, j, m)
    BY <1>2 DEF QueuedAt, SetMessage
  <2>2. QED
    BY <1>1, <1>2, <1>3, <2>1, BehindStays
<1>4. CASE QuietTransfer(s)
  <2>1. UNCHANGED <<created, upload>>
    BY <1>1, <1>4, QuietInv
  <2>2. UploadsInv'
    BY <2>1 DEF ArInv, UploadsInv, PictureOf, chatRoomTitle
  <2>3. PairedBy(f)' /\ Amounts' = Amounts
    BY <1>1, <1>3, <2>1, PairStays
  <2>4. QED
    BY <2>1, <2>2, <2>3
<1>5. CASE SendPicture(s)
  <2>1. PICK n : n = NewId
    OBVIOUS
  <2>2. /\ NewMessage(senderId[s], recieverId[s], "MEDIA")
        /\ upload' = [upload EXCEPT ![s] = {n}]
    BY <1>5, <2>1 DEF SendPicture
  <2>3. /\ Len(created') = Len(created) + 1 /\ n = Len(created) + 1
        /\ \A m \in 1 .. Len(created) : created'[m] = created[m]
        /\ created'[n].type = "MEDIA" /\ created'[n].composerId = senderId[s]
        /\ created'[n].roomId = chatRoomTitle(s)
    BY <1>1, <2>1, <2>2, NewMessageIs
  <2>4. \A t \in Screen : \A m \in upload'[t] : m \in upload[t] \/ (t = s /\ m = n)
    BY <1>1, <2>2
  <2>5. \A t \in Screen : \A m \in upload[t] : m \in 1 .. Len(created)
    BY <1>1, Ranges DEF ChatId
  <2>6. UploadsInv'
    <3>1. ASSUME NEW t \in Screen, NEW m \in upload'[t] PROVE PictureOf(t, m)'
      <4>1. CASE m \in upload[t]
        BY <2>3, <2>5, <4>1 DEF ArInv, UploadsInv, PictureOf, chatRoomTitle
      <4>2. CASE t = s /\ m = n
        BY <2>3, <4>2 DEF PictureOf, chatRoomTitle
      <4>3. QED
        BY <2>4, <3>1, <4>1, <4>2
    <3>2. QED
      BY <3>1 DEF UploadsInv
  <2>7. PairedBy(f)' /\ Amounts' = Amounts
    BY <1>1, <1>3, <2>3, <2>4, PairStays
  <2>8. QED
    BY <2>3, <2>6, <2>7
<1>6. QED
  BY <1>4, <1>5

-----------------------------------------------------------------------------
(* The transfers under each step.                                          *)

\* A screen's step leaves the uploads of the other screens alone.
LEMMA OtherUploads ==
  ASSUME IInv, NEW s \in Screen, ScreenStep(s), NEW t \in Screen, t # s
  PROVE  upload'[t] = upload[t]
<1>1. upload \in [Screen -> SUBSET ChatId]
  BY DEF IInv, ViewInv
<1>2. CASE SendMedia(s)
  BY <1>1, <1>2 DEF SendMedia
<1>3. CASE UploadEnds(s)
  BY <1>1, <1>3 DEF UploadEnds, UploadSucceeds, UploadFails
<1>4. CASE \/ ViewWillAppear(s) \/ SendText(s) \/ PickImage(s) \/ BackAction(s)
           \/ \E i \in ListenerIndex :
                ConversationSnapshot(s, i) \/ MessageSnapshot(s, i)
  BY <1>4 DEF ViewWillAppear, SendText, PickImage, BackAction,
     ConversationSnapshot, MessageSnapshot, storeVars
<1>5. QED
  BY <1>2, <1>3, <1>4 DEF ScreenStep, Snapshot

\* What a step does to the state of the transfers: approvals stay, and what has
\* come to its end has done so for ever.
TransfersGo ==
  /\ TransfersInv'
  /\ approved \subseteq approved'
  /\ \A s \in ArScreen :
       transfer[s] \in {"sent", "ended"} => transfer'[s] \in {"sent", "ended"}

\* A step that leaves the transfers alone and uploads nothing on their screens.
LEMMA TransfersStay ==
  ASSUME TransfersInv, UNCHANGED transferVars,
         \A s \in ArScreen : upload'[s] = upload[s]
  PROVE  TransfersGo
<1>1. transfer' = transfer /\ approved' = approved
  BY DEF transferVars
<1>2. QED
  BY <1>1 DEF TransfersInv, TransfersGo

\* One transfer moves on, and its uploads with it.
LEMMA TransferMoves ==
  ASSUME TransfersInv, NEW s \in ArScreen, NEW from, NEW to \in TransferStatus,
         Move(s, from, to), from \notin {"sent", "ended"},
         approved' = approved \/ approved' = approved \cup {s},
         to \in {"allowed", "uploading"} => s \in approved',
         \A t \in ArScreen \ {s} : upload'[t] = upload[t],
         upload'[s] # {} => to = "uploading",
         \A m, n \in upload'[s] : m = n
  PROVE  TransfersGo
<1>1. /\ transfer' \in [ArScreen -> TransferStatus]
      /\ transfer'[s] = to /\ transfer[s] = from
      /\ \A t \in ArScreen \ {s} : transfer'[t] = transfer[t]
  BY DEF Move, TransfersInv
<1>2. /\ approved \subseteq approved' /\ approved' \subseteq ArScreen
      /\ IsFiniteSet(approved')
  BY FS_AddElement DEF TransfersInv
<1>3. ASSUME NEW t \in ArScreen, transfer'[t] \in {"allowed", "uploading"}
      PROVE  t \in approved'
  BY <1>1, <1>2, <1>3 DEF TransfersInv
<1>4. ASSUME NEW t \in ArScreen
      PROVE  /\ upload'[t] # {} => transfer'[t] = "uploading"
             /\ \A m, n \in upload'[t] : m = n
  BY <1>1 DEF TransfersInv
<1>5. TransfersInv'
  BY <1>1, <1>2, <1>3, <1>4 DEF TransfersInv
<1>6. \A t \in ArScreen :
        transfer[t] \in {"sent", "ended"} => transfer'[t] \in {"sent", "ended"}
  BY <1>1
<1>7. QED
  BY <1>2, <1>5, <1>6 DEF TransfersGo

LEMMA StepTransfers ==
  ASSUME ArInv, [ArNext]_arVars
  PROVE  TransfersGo
<1>1. IInv /\ TransfersInv /\ upload \in [Screen -> SUBSET ChatId]
      /\ ArScreen \subseteq Screen
  BY ArScreenAssumption DEF ArInv, LInv, RInv, IInv, ViewInv
<1>2. ASSUME NEW s \in ArScreen, ConfirmAppears(s) PROVE TransfersGo
  <2>1. /\ Move(s, "unasked", "asking") /\ upload' = upload /\ approved' = approved
        /\ transfer[s] = "unasked"
    BY <1>2 DEF ConfirmAppears, Move
  <2>2. upload[s] = {} /\ "asking" \in TransferStatus
    BY <1>1, <2>1 DEF TransfersInv, TransferStatus
  <2>3. QED
    BY <1>1, <2>1, <2>2, TransferMoves
<1>3. ASSUME NEW s \in ArScreen, YesButton(s) \/ NoButton(s) PROVE TransfersGo
  <2>1. PICK to \in {"checking", "unavailable", "dismissed"} :
          /\ Move(s, "asking", to) /\ upload' = upload /\ approved' = approved
          /\ transfer[s] = "asking"
    BY <1>3 DEF YesButton, NoButton, Still, Move, vars, screenVars
  <2>2. upload[s] = {} /\ to \in TransferStatus
    BY <1>1, <2>1 DEF TransfersInv, TransferStatus
  <2>3. QED
    BY <1>1, <2>1, <2>2, TransferMoves
<1>4. ASSUME NEW s \in ArScreen, NEW state \in BOOLEAN, Authenticated(s, state)
      PROVE  TransfersGo
  <2>1. PICK to : to = IF state THEN "allowed" ELSE "refused"
    OBVIOUS
  <2>2. /\ Move(s, "checking", to) /\ upload' = upload
        /\ approved' = approved \/ approved' = approved \cup {s}
        /\ to = "allowed" => s \in approved'
        /\ transfer[s] = "checking"
    BY <1>4, <2>1 DEF Authenticated, Move, vars, screenVars
  <2>3. /\ upload[s] = {} /\ to \in TransferStatus
        /\ to # "uploading"
    BY <1>1, <2>1, <2>2 DEF TransfersInv, TransferStatus
  <2>4. QED
    BY <1>1, <2>2, <2>3, TransferMoves
<1>5. ASSUME NEW s \in ArScreen, SendPicture(s) PROVE TransfersGo
  <2>1. PICK n : n = NewId
    OBVIOUS
  <2>2. /\ Move(s, "allowed", "uploading") /\ upload' = [upload EXCEPT ![s] = {n}]
        /\ approved' = approved /\ transfer[s] = "allowed"
    BY <1>5, <2>1 DEF SendPicture, Move
  <2>3. /\ upload'[s] = {n} /\ s \in approved' /\ "uploading" \in TransferStatus
        /\ \A t \in ArScreen \ {s} : upload'[t] = upload[t]
    BY <1>1, <2>2 DEF TransfersInv, TransferStatus
  <2>4. QED
    BY <1>1, <2>2, <2>3, TransferMoves
<1>6. ASSUME NEW s \in ArScreen, NEW m \in upload[s],
             PictureUploaded(s, m) \/ PictureFails(s, m)
      PROVE  TransfersGo
  <2>1. PICK to \in {"sent", "failed"} :
          Move(s, "uploading", to) /\ approved' = approved
    BY <1>6 DEF PictureUploaded, PictureFails
  <2>2. \/ upload' = [upload EXCEPT ![s] = {}]
        \/ upload' = [upload EXCEPT ![s] = upload[s] \ {m}]
    BY <1>6 DEF PictureUploaded, PictureFails, UploadFails
  <2>3. upload[s] \ {m} = {}
    BY <1>1 DEF TransfersInv
  <2>4. /\ upload'[s] = {} /\ to \in TransferStatus
        /\ \A t \in ArScreen \ {s} : upload'[t] = upload[t]
    BY <1>1, <2>2, <2>3 DEF TransferStatus
  <2>5. QED
    BY <1>1, <2>1, <2>4, TransferMoves
<1>7. ASSUME NEW u \in User, EndTransfers(u) PROVE TransfersGo
  <2>1. /\ transfer' = [s \in ArScreen |-> IF senderId[s] = u /\ Alive(s)
                                           THEN "ended" ELSE transfer[s]]
        /\ approved' = approved
        /\ upload' = [s \in Screen |-> IF senderId[s] = u THEN {} ELSE upload[s]]
    BY <1>7 DEF EndTransfers, Kill
  <2>2. \A s \in ArScreen :
          /\ transfer'[s] = "ended" \/ transfer'[s] = transfer[s]
          /\ \/ upload'[s] = {}
             \/ upload'[s] = upload[s] /\ transfer'[s] = transfer[s]
    BY <1>1, <2>1
  <2>3. transfer' \in [ArScreen -> TransferStatus]
    BY <1>1, <2>1 DEF TransfersInv, TransferStatus
  <2>4. \A s \in ArScreen :
          /\ transfer'[s] \in {"allowed", "uploading"} => s \in approved'
          /\ upload'[s] # {} => transfer'[s] = "uploading"
          /\ \A m, n \in upload'[s] : m = n
    BY <1>1, <2>1, <2>2 DEF TransfersInv
  <2>5. QED
    BY <1>1, <2>1, <2>2, <2>3, <2>4 DEF TransfersInv, TransfersGo
<1>8. ASSUME NEW s \in Screen \ ArScreen, ScreenStep(s), UNCHANGED transferVars
      PROVE  TransfersGo
  BY <1>1, <1>8, OtherUploads, TransfersStay
<1>9. ASSUME UNCHANGED transferVars,
             \/ \E s \in ArScreen : \E i \in DOMAIN listener[s] :
                  ConversationSnapshot(s, i)
             \/ \E u \in User : Client(u) \/ Launch(u)
             \/ UNCHANGED arVars
      PROVE  TransfersGo
  <2>1. upload' = upload
    BY <1>9 DEF ConversationSnapshot, Client, Launch, arVars, vars, screenVars
  <2>2. QED
    BY <1>1, <1>9, <2>1, TransfersStay
<1>10. QED
  BY <1>2, <1>3, <1>4, <1>5, <1>6, <1>7, <1>8, <1>9
     DEF ArNext, TransferStep, arVars

\* A step that composes no amount keeps the transfers of the amounts.
LEMMA GrantStays ==
  ASSUME TransfersGo, Amounts' = Amounts, NEW g, Granted(g),
         \A m \in 1 .. Len(created) : created'[m] = created[m],
         approved \subseteq ArScreen
  PROVE  Granted(g)'
<1>1. g \in [Amounts -> approved']
  BY DEF Granted, TransfersGo
<1>2. ASSUME NEW c \in Amounts
      PROVE  /\ senderId[g[c]] = created'[c].composerId
             /\ chatRoomTitle(g[c]) = created'[c].roomId
             /\ transfer'[g[c]] \in {"sent", "ended"}
  <2>1. created'[c] = created[c] /\ g[c] \in ArScreen
    BY DEF Amounts, Granted
  <2>2. QED
    BY <2>1 DEF Granted, TransfersGo
<1>3. QED
  BY <1>1, <1>2 DEF Granted, chatRoomTitle

LEMMA NewGrant ==
  ASSUME ArInv, TransfersGo, NEW s \in ArScreen, NEW m \in upload[s],
         PictureUploaded(s, m), NEW g, Granted(g)
  PROVE  \E h : Granted(h)'
<1>1. PICK n : n = NewId
  OBVIOUS
<1>2. /\ Amounts' = Amounts \cup {n} /\ n \notin Amounts
      /\ created'[n].composerId = senderId[s]
      /\ created'[n].roomId = chatRoomTitle(s)
      /\ \A c \in Amounts : c \in 1 .. Len(created)
      /\ \A k \in 1 .. Len(created) : created'[k] = created[k]
  BY <1>1, NewAmount
<1>3. /\ transfer[s] = "uploading" /\ transfer'[s] = "sent" /\ approved' = approved
      /\ s \in approved /\ approved \subseteq ArScreen
  BY DEF PictureUploaded, Move, ArInv, TransfersInv
<1>4. /\ g \in [Amounts -> approved]
      /\ \A c, d \in Amounts : g[c] = g[d] => c = d
      /\ \A c \in Amounts : /\ senderId[g[c]] = created[c].composerId
                            /\ chatRoomTitle(g[c]) = created[c].roomId
                            /\ transfer[g[c]] \in {"sent", "ended"}
                            /\ g[c] # s
  BY <1>3 DEF Granted
<1>5. PICK h : h = [c \in Amounts' |-> IF c = n THEN s ELSE g[c]]
  OBVIOUS
<1>6. /\ h \in [Amounts' -> approved'] /\ h[n] = s
      /\ \A c \in Amounts : h[c] = g[c]
  BY <1>2, <1>3, <1>4, <1>5
<1>7. \A c, d \in Amounts' : h[c] = h[d] => c = d
  BY <1>2, <1>4, <1>6
<1>8. ASSUME NEW c \in Amounts'
      PROVE  /\ senderId[h[c]] = created'[c].composerId
             /\ chatRoomTitle(h[c]) = created'[c].roomId
             /\ transfer'[h[c]] \in {"sent", "ended"}
  <2>1. CASE c = n
    BY <1>2, <1>3, <1>6, <2>1
  <2>2. CASE c \in Amounts
    <3>1. h[c] = g[c] /\ g[c] \in ArScreen /\ created'[c] = created[c]
      BY <1>2, <1>3, <1>4, <1>6, <2>2
    <3>2. transfer'[g[c]] \in {"sent", "ended"}
      BY <1>4, <2>2, <3>1 DEF TransfersGo
    <3>3. QED
      BY <1>4, <2>2, <3>1, <3>2
  <2>3. QED
    BY <1>2, <1>8, <2>1, <2>2
<1>9. Granted(h)'
  BY <1>6, <1>7, <1>8 DEF Granted, chatRoomTitle
<1>10. QED
  BY <1>9

-----------------------------------------------------------------------------
(* The inductive invariant, and what follows from it.                      *)

LEMMA StepUploads ==
  ASSUME ArInv, [ArNext]_arVars
  PROVE  UploadsInv'
<1>1. CASE [Next]_vars
  <2>1. ASSUME NEW s \in Screen, NEW m \in upload'[s] PROVE PictureOf(s, m)'
    <3>1. CASE m \in upload[s]
      <4>1. PictureOf(s, m) /\ m \in 1 .. Len(created)
        BY <3>1, Ranges DEF ArInv, UploadsInv, LInv, RInv, IInv, ViewInv, ChatId
      <4>2. created'[m] = created[m]
        BY <1>1, <4>1, NextMessages
      <4>3. QED
        BY <4>1, <4>2 DEF PictureOf, chatRoomTitle
    <3>2. QED
      BY <1>1, <2>1, <3>1, NextMessages
  <2>2. QED
    BY <2>1 DEF UploadsInv
<1>2. CASE \E s \in ArScreen : QuietTransfer(s) \/ SendPicture(s)
  BY <1>2, QuietPair DEF ArInv
<1>3. ASSUME NEW s \in ArScreen, NEW m \in upload[s], PictureUploaded(s, m)
      PROVE  UploadsInv'
  <2>1. /\ upload' = [upload EXCEPT ![s] = {}]
        /\ \A k \in 1 .. Len(created) : created'[k] = created[k]
    BY <1>3, TransferMessages DEF PictureUploaded
  <2>2. IInv /\ upload \in [Screen -> SUBSET ChatId]
    BY DEF ArInv, LInv, RInv, IInv, ViewInv
  <2>3. ASSUME NEW t \in Screen, NEW k \in upload'[t] PROVE PictureOf(t, k)'
    <3>1. k \in upload[t]
      BY <2>1, <2>2, <2>3
    <3>2. PictureOf(t, k) /\ k \in 1 .. Len(created)
      BY <2>2, <3>1, Ranges DEF ArInv, UploadsInv, IInv, ViewInv, ChatId
    <3>3. created'[k] = created[k]
      BY <2>1, <3>2
    <3>4. QED
      BY <3>2, <3>3 DEF PictureOf, chatRoomTitle
  <2>4. QED
    BY <2>3 DEF UploadsInv
<1>4. QED
  BY <1>1, <1>2, <1>3, ArSteps

LEMMA StepAmounts ==
  ASSUME ArInv, [ArNext]_arVars
  PROVE  (\E f : PairedBy(f)') /\ (\E g : Granted(g)')
<1>1. PICK f : PairedBy(f)
  BY DEF ArInv
<1>2. PICK g : Granted(g)
  BY DEF ArInv
<1>3. TransfersGo /\ approved \subseteq ArScreen
  BY StepTransfers DEF ArInv, TransfersInv
<1>4. CASE [Next]_vars
  <2>1. /\ Len(created) \in Nat /\ Len(created') \in Nat
        /\ Len(created) <= Len(created')
        /\ \A m \in 1 .. Len(created) : created'[m] = created[m]
        /\ \A m \in 1 .. Len(created') :
             m \in 1 .. Len(created) \/ created'[m].type # "CRYPTO"
        /\ \A s \in Screen : \A m \in upload'[s] :
             m \in upload[s] \/ m \notin 1 .. Len(created)
    BY <1>4, NextMessages
  <2>2. \A c \in Amounts : Behind(c, f[c]) => Behind(c, f[c])'
    <3>1. ASSUME NEW c \in Amounts, Behind(c, f[c]) PROVE Behind(c, f[c])'
      <4>1. PICK p : p = f[c]
        OBVIOUS
      <4>2. f \in [Amounts -> 1 .. Len(created)] /\ Behind(c, p)
        BY <1>1, <3>1, <4>1 DEF PairedBy
      <4>3. Behind(c, p)'
        BY <1>4, <4>2, BehindNext
      <4>4. QED
        BY <4>1, <4>3
    <3>2. QED
      BY <3>1
  <2>3. PairedBy(f)' /\ Amounts' = Amounts
    BY <1>1, <2>1, <2>2, PairStays
  <2>4. Granted(g)'
    BY <1>2, <1>3, <2>1, <2>3, GrantStays
  <2>5. QED
    BY <2>3, <2>4
<1>5. CASE \E s \in ArScreen : QuietTransfer(s) \/ SendPicture(s)
  <2>1. /\ PairedBy(f)' /\ Amounts' = Amounts
        /\ \A m \in 1 .. Len(created) : created'[m] = created[m]
    BY <1>1, <1>5, QuietPair
  <2>2. Granted(g)'
    BY <1>2, <1>3, <2>1, GrantStays
  <2>3. QED
    BY <2>1, <2>2
<1>6. ASSUME NEW s \in ArScreen, NEW m \in upload[s], PictureUploaded(s, m)
      PROVE  (\E h : PairedBy(h)') /\ (\E h : Granted(h)')
  BY <1>1, <1>2, <1>3, <1>6, NewPair, NewGrant
<1>7. QED
  BY <1>4, <1>5, <1>6, ArSteps

LEMMA StepAr ==
  ASSUME ArInv, [ArNext]_arVars
  PROVE  ArInv' /\ [Life!Next]_Phase
<1>1. LInv' /\ [Life!Next]_Phase
  BY ArStepLife
<1>2. TransfersInv'
  BY StepTransfers DEF TransfersGo
<1>3. QED
  BY <1>1, <1>2, StepUploads, StepAmounts DEF ArInv

LEMMA InitAr ==
  ASSUME ArInit
  PROVE  ArInv /\ Life!Init
<1>1. LInv /\ Life!Init
  BY InitLife DEF ArInit
<1>2. created = <<>> /\ \A s \in Screen : upload[s] = {}
  BY DEF ArInit, Init, StoreInit
<1>3. Amounts = {}
  <2>1. Len(created) = 0
    BY <1>2, EmptySeq
  <2>2. QED
    BY <2>1 DEF Amounts
<1>4. UploadsInv
  BY <1>2 DEF UploadsInv
<1>5. TransfersInv
  BY <1>2, ArScreenAssumption, FS_EmptySet DEF ArInit, TransfersInv, TransferStatus
<1>6. PICK f : f = [c \in {} |-> c]
  OBVIOUS
<1>7. PairedBy(f) /\ Granted(f)
  BY <1>3, <1>6 DEF PairedBy, Granted
<1>8. QED
  BY <1>1, <1>4, <1>5, <1>7 DEF ArInv

\* With transfers beside the chat rooms, too, each message goes the way of
\* MessageLife: none is stored twice, and none comes back once it is lost.
THEOREM TransfersLive == ArSpec => MessagesLive
<1>1. ArInit => ArInv /\ Life!Init
  BY InitAr
<1>2. ArInv /\ [ArNext]_arVars => ArInv' /\ [Life!Next]_Phase
  BY StepAr
<1>3. QED
  BY <1>1, <1>2, PTL DEF ArSpec, MessagesLive, Life!Spec

\* The amounts of a user that a room holds find a picture of that user there
\* for each: of the writes of one transfer the picture's comes first.
LEMMA PairsFollow ==
  ASSUME ArInv
  PROVE  AmountFollowsPicture
<1>1. PICK f : PairedBy(f)
  BY DEF ArInv
<1>2. SUFFICES ASSUME NEW u \in User, NEW room \in Room
               PROVE  Cardinality(Sent(chatRoom, "CRYPTO", u, room))
                        <= Cardinality(Sent(chatRoom, "MEDIA", u, room))
  BY DEF AmountFollowsPicture
<1> DEFINE S == Sent(chatRoom, "CRYPTO", u, room)
           T == Sent(chatRoom, "MEDIA", u, room)
<1>3. chatRoom \subseteq 1 .. Len(created) /\ Len(created) \in Nat
  BY Ranges DEF ArInv, LInv, RInv
<1>4. IsFiniteSet(T)
  <2>1. IsFiniteSet(1 .. Len(created))
    BY <1>3, FS_Interval
  <2>2. T \in SUBSET (1 .. Len(created))
    BY <1>3 DEF Sent
  <2>3. QED
    BY <2>1, <2>2, FS_Subset
<1>5. \A c \in S : /\ c \in Amounts /\ c \in chatRoom
                   /\ created[c].composerId = u /\ created[c].roomId = room
  BY <1>3 DEF Sent, Amounts
<1>6. \A c \in S : f[c] \in T
  BY <1>1, <1>5 DEF PairedBy, Behind, Sent
<1>7. \A c, d \in S : f[c] = f[d] => c = d
  BY <1>1, <1>5 DEF PairedBy
<1> HIDE DEF S, T
<1>8. PICK h : h = [c \in S |-> f[c]]
  OBVIOUS
<1>9. h \in Injection(S, T)
  BY <1>6, <1>7, <1>8 DEF Injection, IsInjective
<1>10. Cardinality(S) <= Cardinality(T)
  BY <1>4, <1>9, FS_Injection
<1>11. QED
  BY <1>10 DEF S, T

THEOREM AmountsFollow == ArSpec => []AmountFollowsPicture
<1>1. ArInit => ArInv
  BY InitAr
<1>2. ArInv /\ [ArNext]_arVars => ArInv'
  BY StepAr
<1>3. ArInv => AmountFollowsPicture
  BY PairsFollow
<1>4. QED
  BY <1>1, <1>2, <1>3, PTL DEF ArSpec

\* Every amount a user has composed for a room was approved with the biometrics
\* on a screen of that user for that room, each on another.
LEMMA GrantsApprove ==
  ASSUME ArInv
  PROVE  AmountApproved
<1>1. PICK g : Granted(g)
  BY DEF ArInv
<1>2. SUFFICES ASSUME NEW u \in User, NEW room \in Room
               PROVE  Cardinality(Sent(1 .. Len(created), "CRYPTO", u, room))
                        <= Cardinality({s \in approved :
                             senderId[s] = u /\ chatRoomTitle(s) = room})
  BY DEF AmountApproved
<1> DEFINE S == Sent(1 .. Len(created), "CRYPTO", u, room)
           T == {s \in approved : senderId[s] = u /\ chatRoomTitle(s) = room}
<1>3. IsFiniteSet(T)
  <2>1. IsFiniteSet(approved) /\ T \in SUBSET approved
    BY DEF ArInv, TransfersInv
  <2>2. QED
    BY <2>1, FS_Subset
<1>4. \A c \in S : /\ c \in Amounts
                   /\ created[c].composerId = u /\ created[c].roomId = room
  BY DEF Sent, Amounts
<1>5. /\ \A c \in S : g[c] \in T
      /\ \A c, d \in S : g[c] = g[d] => c = d
  BY <1>1, <1>4 DEF Granted
<1> HIDE DEF S, T
<1>6. PICK h : h = [c \in S |-> g[c]]
  OBVIOUS
<1>7. h \in Injection(S, T)
  BY <1>5, <1>6 DEF Injection, IsInjective
<1>8. Cardinality(S) <= Cardinality(T)
  BY <1>3, <1>7, FS_Injection
<1>9. QED
  BY <1>8 DEF S, T

THEOREM AmountsAreApproved == ArSpec => []AmountApproved
<1>1. ArInit => ArInv
  BY InitAr
<1>2. ArInv /\ [ArNext]_arVars => ArInv'
  BY StepAr
<1>3. ArInv => AmountApproved
  BY GrantsApprove
<1>4. QED
  BY <1>1, <1>2, <1>3, PTL DEF ArSpec

=============================================================================
