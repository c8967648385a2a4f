------------------------------- MODULE ChatList -------------------------------
(***************************************************************************)
(* The chat list (ChatMainVC) of one user: a listener on the user's        *)
(* Conversation document starts a listener on the messages of every room   *)
(* it names, and these fill the two parallel arrays the table reads.       *)
(* Nothing ever removes a listener, so they pile up.                       *)
(*                                                                         *)
(* The documents are those the device's client knows, as the modules       *)
(* BemaStore and ChatRoom produce them: rooms in the index have a message, *)
(* are named once, and may be lost again; messages only ever appear.       *)
(***************************************************************************)
EXTENDS Naturals, FiniteSets, SequencesExt

CONSTANTS
  Room,          \* the rooms the user is a member of
  MaxMessages,   \* bound: messages in one behaviour
  MaxAppear,     \* bound: appearances of the list
  MaxIndex       \* bound: changes of the user's index

ASSUME ChatListBounds ==
  MaxMessages \in Nat /\ MaxAppear \in Nat /\ MaxIndex \in Nat

VARIABLES
  stored,        \* stored[r]: the messages of room r with a server time, in order
  unsent,        \* unsent[r]: the user's own messages that have none yet
  incoming,      \* the messages the user is the reader of
  isRead,        \* the incoming messages that are marked read
  index,         \* the array of Conversation/<user>, <<>> if absent
  changes,       \* how often the index has changed
  appearances,   \* how often the list has appeared
  allMessage,    \* the newest message of a room, row by row
  alertCount,    \* the numbers the rows show as alerts
  listener       \* the list's snapshot listeners, oldest first

docVars == <<stored, unsent, incoming, isRead, index, changes>>
listVars == <<appearances, allMessage, alertCount, listener>>
vars == <<docVars, listVars>>

ChatId == 1 .. MaxMessages

\* The messages of a room as the query orders them.
Documents(r) == stored[r] \o unsent[r]

Known == UNION {Range(Documents(r)) : r \in Room}

Unread(r) == Cardinality((Range(Documents(r)) \cap incoming) \ isRead)

\* A listener on the index remembers the array it was last handed, one on a
\* room the messages.
IndexListener == [on : {"index"}, last : Seq(Room)]

RoomListener == [on : Room, last : SUBSET ChatId]

TypeOK ==
  /\ stored \in [Room -> Seq(ChatId)]
  /\ unsent \in [Room -> Seq(ChatId)]
  /\ incoming \subseteq Known
  /\ isRead \subseteq incoming
  /\ index \in Seq(Room) /\ IsInjective(index)
  /\ changes \in 0 .. MaxIndex
  /\ appearances \in 0 .. MaxAppear
  /\ allMessage \in Seq(ChatId)
  /\ alertCount \in Seq(Nat)
  /\ listener \in Seq(IndexListener \cup RoomListener)

Init ==
  /\ stored = [r \in Room |-> <<>>]
  /\ unsent = [r \in Room |-> <<>>]
  /\ incoming = {}
  /\ isRead = {}
  /\ index = <<>>
  /\ changes = 0
  /\ appearances = 0
  /\ allMessage = <<>>
  /\ alertCount = <<>>
  /\ listener = <<>>

-----------------------------------------------------------------------------
(* What happens to the documents: the chat rooms of the user and of the    *)
(* contacts.                                                               *)

NewId == Cardinality(Known) + 1

Receive(r) ==
  /\ NewId \in ChatId
  /\ stored' = [stored EXCEPT ![r] = Append(@, NewId)]
  /\ incoming' = incoming \cup {NewId}
  /\ UNCHANGED <<unsent, isRead, index, changes, listVars>>

Send(r) ==
  /\ NewId \in ChatId
  /\ unsent' = [unsent EXCEPT ![r] = Append(@, NewId)]
  /\ UNCHANGED <<stored, incoming, isRead, index, changes, listVars>>

\* The oldest unsent message of a room gets its server time.
Sent(r) ==
  /\ unsent[r] # <<>>
  /\ stored' = [stored EXCEPT ![r] = Append(@, Head(unsent[r]))]
  /\ unsent' = [unsent EXCEPT ![r] = Tail(@)]
  /\ UNCHANGED <<incoming, isRead, index, changes, listVars>>

\* A chat room of the user marks what it shows.
Read(r) ==
  /\ isRead' = isRead \cup (Range(Documents(r)) \cap incoming)
  /\ isRead' # isRead
  /\ UNCHANGED <<stored, unsent, incoming, index, changes, listVars>>

\* A room with a message is added to the index, or an older array replaces it.
IndexChanges ==
  /\ changes < MaxIndex
  /\ changes' = changes + 1
  /\ \/ \E r \in Room \ Range(index) :
          Documents(r) # <<>> /\ index' = Append(index, r)
     \/ \E n \in 1 .. Len(index) - 1 : index' = SubSeq(index, 1, n)
  /\ UNCHANGED <<stored, unsent, incoming, isRead, listVars>>

-----------------------------------------------------------------------------
(* The view controller.                                                    *)

\* Mutant: the counts are emptied when the list appears, the rows are not.
ViewWillAppearClearsCounts ==
  /\ appearances < MaxAppear
  /\ appearances' = appearances + 1
  /\ alertCount' = <<>>
  /\ listener' = Append(listener, [on |-> "index", last |-> <<>>])
  /\ UNCHANGED <<docVars, allMessage>>

\* fetchMessage empties the rows, but not the counts, and listens once more.
ViewWillAppear ==
  /\ appearances < MaxAppear
  /\ appearances' = appearances + 1
  /\ allMessage' = <<>>
  /\ listener' = Append(listener, [on |-> "index", last |-> <<>>])
  /\ UNCHANGED <<docVars, alertCount>>

\* Every snapshot of the index starts a listener for every room in it.
IndexSnapshot(i) ==
  /\ listener[i].on = "index"
  /\ listener[i].last # index
  /\ listener' = [listener EXCEPT ![i].last = index]
                   \o [k \in DOMAIN index |-> [on |-> index[k], last |-> {}]]
  /\ UNCHANGED <<docVars, appearances, allMessage, alertCount>>

\* Mutant: a row only for the room's first message.
RoomSnapshotFirstOnly(i) ==
  LET r == listener[i].on
  IN  /\ r \in Room
      /\ Range(Documents(r)) \ listener[i].last # {}
      /\ listener' = [listener EXCEPT ![i].last = Range(Documents(r))]
      /\ IF listener[i].last = {}
         THEN /\ allMessage' = Append(allMessage, Last(Documents(r)))
              /\ alertCount' = Append(alertCount, Unread(r))
         ELSE UNCHANGED <<allMessage, alertCount>>
      /\ UNCHANGED <<docVars, appearances>>

\* Mutant: the user's own messages are counted too.
RoomSnapshotCountsOwn(i) ==
  LET r == listener[i].on
  IN  /\ r \in Room
      /\ Range(Documents(r)) \ listener[i].last # {}
      /\ listener' = [listener EXCEPT ![i].last = Range(Documents(r))]
      /\ allMessage' = Append(allMessage, Last(Documents(r)))
      /\ alertCount' =
           Append(alertCount, Cardinality(Range(Documents(r)) \ isRead))
      /\ UNCHANGED <<docVars, appearances>>

\* A snapshot of a room with new messages adds a row for the newest and a
\* count.  The loop over the documents runs for every new one, but its index
\* meets the last document in the first run only.  A snapshot without new
\* messages, such as one about a read mark, adds nothing.
RoomSnapshot(i) ==
  LET r == listener[i].on
  IN  /\ r \in Room
      /\ Range(Documents(r)) \ listener[i].last # {}
      /\ listener' = [listener EXCEPT ![i].last = Range(Documents(r))]
      /\ allMessage' = Append(allMessage, Last(Documents(r)))
      /\ alertCount' = Append(alertCount, Unread(r))
      /\ UNCHANGED <<docVars, appearances>>

Snapshot(i) ==
  i \in DOMAIN listener /\ (IndexSnapshot(i) \/ RoomSnapshot(i))

\* The most listeners there can be under the bounds.
ListenerIndex == 1 .. MaxAppear * (1 + MaxIndex * Cardinality(Room))

Next ==
  \/ \E r \in Room : Receive(r) \/ Send(r) \/ Sent(r) \/ Read(r)
  \/ IndexChanges
  \/ ViewWillAppear
  \/ \E i \in ListenerIndex : Snapshot(i)

\* Every snapshot is delivered some time; what users do is not fair.
Fairness == \A i \in ListenerIndex : WF_vars(Snapshot(i))

Spec == Init /\ [][Next]_vars

FairSpec == Spec /\ Fairness

-----------------------------------------------------------------------------
(* Properties.                                                             *)

\* Every row finds its number: cellForRowAt reads alertCount at an index that
\* numberOfRowsInSection took from allMessage.
RowsHaveCounts == Len(alertCount) >= Len(allMessage)

\* Until the list appears a second time, the number a row shows for a message
\* from a contact fits its room: no less than the messages up to this one that
\* are still unread, and no more than those that were to be read.  (Afterwards
\* the counts of the first appearance come first and the rows show those.)
AlertsFitRows ==
  appearances <= 1 =>
    \A k \in DOMAIN allMessage, r \in Room :
      allMessage[k] \in Range(stored[r]) \cap incoming =>
        LET place == CHOOSE n \in DOMAIN stored[r] : stored[r][n] = allMessage[k]
            upTo == Range(SubSeq(stored[r], 1, place)) \cap incoming
        IN  /\ alertCount[k] >= Cardinality(upTo \ isRead)
            /\ alertCount[k] <= Cardinality(upTo)

\* The newest message of a room in the index gets a row, also when the rows
\* have been emptied, unless a newer one arrives or the index loses the room.
NewestListed ==
  \A r \in Room, m \in ChatId :
    LET Newest == /\ appearances > 0
                  /\ r \in Range(index)
                  /\ Documents(r) # <<>>
                  /\ Last(Documents(r)) = m
    IN  Newest ~> (m \in Range(allMessage) \/ ~Newest)

=============================================================================
