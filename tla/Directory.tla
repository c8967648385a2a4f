------------------------------ MODULE Directory ------------------------------
(***************************************************************************)
(* The contact manager (ContactManagerVC) of several users over the        *)
(* Firestore collection Friends/<userId>/Directory.                        *)
(*                                                                         *)
(* The manager lists every other user with a button that adds or removes   *)
(* the user as a friend.  It loads the friends in two steps, the user's    *)
(* entries and then a document per friend, and starts the loading again    *)
(* for every user it lists, so that the answers of several loads mix.      *)
(* Identifiers of entries are random, and a query returns the entries in   *)
(* their order; arrays whose order nothing depends on are bags.            *)
(***************************************************************************)
EXTENDS Naturals, FiniteSets, SequencesExt

CONSTANTS
  User,         \* the documents of the collection Users, in their order
  Manager,      \* the users who open their contact manager
  EntryId,      \* bound: the identifiers of the entries, in their order
  MaxOpen,      \* bound: how often a user opens the manager
  MaxPress,     \* bound: presses in one behaviour
  past,         \* the additions made before: records of own, other, user, friend
  NoEntry       \* what is not there

ASSUME DirectoryAssumption ==
  /\ User \subseteq Nat /\ IsFiniteSet(User) /\ Cardinality(User) > 1
  /\ Manager \subseteq User
  /\ EntryId \subseteq Nat /\ IsFiniteSet(EntryId)
  /\ MaxOpen \in Nat /\ MaxPress \in Nat
  /\ past \subseteq [own : EntryId, other : EntryId, user : User, friend : User]
  /\ \A p, q \in past : p.own # q.other /\ (p.own = q.own \/ p.other = q.other => p = q)
  /\ \A p \in past : p.user # p.friend
  /\ NoEntry \notin [owner : User, by : User]
  /\ NoEntry \notin [friendId : User, isDeleted : BOOLEAN]

VARIABLES
  entry,        \* entry[e]: for whom and by whom the reference was taken
  stored,       \* stored[e]: the document in the backend
  outbox,       \* outbox[u]: the writes of u's device, oldest first
  opens,        \* opens[u]: how often u has opened the manager
  presses,      \* how many buttons have been pressed
  open,         \* the users whose manager is open
  allContact,   \* allContact[u]: whether the other users have been loaded
  loads,        \* loads[u]: the loads of friends under way
  directory,    \* directory[u]: the entries of all loads, one after another
  allFriends,   \* allFriends[u]: the friends the table knows, a bag
  laidOut,      \* the users whose table shows its rows
  targets,      \* targets[u]: the handlers that buttons have been given
  removals,     \* history: the <<contact, friend>> of the rows and their removals
  undisturbed   \* history: the users whose loads all succeeded on equal data

documents == <<entry, stored, outbox>>
screen == <<open, allContact, loads, directory, allFriends, laidOut, targets>>
history == <<removals, undisturbed>>
bounds == <<opens, presses>>
vars == <<documents, bounds, screen, history>>

\* The rows of u's table.
Rows(u) == SetToSortSeq(User \ {u}, <)

Document == [friendId : User, isDeleted : BOOLEAN]

Write == [id : EntryId, friendId : User, isDeleted : BOOLEAN]

\* A load asks for the entries and then waits for the friends' documents.
Asking == [asking |-> TRUE, waiting |-> EmptyBag, tempFriend |-> EmptyBag]

Waiting(friends) ==
  [asking |-> FALSE, waiting |-> friends, tempFriend |-> EmptyBag]

UserBag(bag) == IsABag(bag) /\ BagToSet(bag) \subseteq User

TypeOK ==
  /\ entry \in [EntryId -> [owner : User, by : User] \cup {NoEntry}]
  /\ stored \in [EntryId -> Document \cup {NoEntry}]
  /\ outbox \in [User -> Seq(Write)]
  /\ opens \in [User -> 0 .. MaxOpen]
  /\ presses \in 0 .. MaxPress
  /\ open \subseteq Manager
  /\ allContact \in [User -> {"none", "asked", "loaded"}]
  /\ \A u \in User : /\ IsABag(loads[u])
                      /\ \A l \in BagToSet(loads[u]) :
                           UserBag(l.waiting) /\ UserBag(l.tempFriend)
                      /\ UserBag(allFriends[u])
                      /\ u \notin BagToSet(allFriends[u])
  /\ directory \in [User -> Seq([id : EntryId, friendId : User])]
  /\ \A u \in User : \A d \in Range(directory[u]) : entry[d.id].owner = u
  /\ laidOut \subseteq open
  /\ targets \in [User -> SUBSET {"addlist", "removeList"}]
  /\ removals \subseteq User \X User
  /\ undisturbed \subseteq open

\* What earlier additions have left of the entry e.
Past(e) ==
  LET Left(owner, p, f) ==
        [entry |-> [owner |-> owner, by |-> p.user],
         document |-> [friendId |-> f, isDeleted |-> FALSE]]
      left == {Left(p.user, p, p.friend) : p \in {q \in past : q.own = e}}
                \cup {Left(p.friend, p, p.user) : p \in {q \in past : q.other = e}}
  IN  IF left = {} THEN [entry |-> NoEntry, document |-> NoEntry]
      ELSE CHOOSE l \in left : TRUE

Init ==
  /\ entry = [e \in EntryId |-> Past(e).entry]
  /\ stored = [e \in EntryId |-> Past(e).document]
  /\ outbox = [u \in User |-> <<>>]
  /\ opens = [u \in User |-> 0]
  /\ presses = 0
  /\ open = {}
  /\ allContact = [u \in User |-> "none"]
  /\ loads = [u \in User |-> EmptyBag]
  /\ directory = [u \in User |-> <<>>]
  /\ allFriends = [u \in User |-> EmptyBag]
  /\ laidOut = {}
  /\ targets = [u \in User |-> {}]
  /\ removals = {}
  /\ undisturbed = {}

-----------------------------------------------------------------------------
(* The documents as u's device knows them.                                 *)

\* The backend's document under the device's own writes.
Local(u, e) ==
  LET own == {i \in DOMAIN outbox[u] : outbox[u][i].id = e}
      last == outbox[u][Max(own)]
  IN  IF own = {} THEN stored[e]
      ELSE [friendId |-> last.friendId, isDeleted |-> last.isDeleted]

\* The entries of u's directory, deleted ones included.
Entries(u) ==
  {e \in EntryId : /\ entry[e] # NoEntry
                   /\ entry[e].owner = u
                   /\ Local(u, e) # NoEntry}

Live(u) == {e \in Entries(u) : ~Local(u, e).isDeleted}

\* The friends the live entries name, as often as they do.
Friends(u) ==
  LET Naming(f) == {e \in Live(u) : Local(u, e).friendId = f}
  IN  [f \in {g \in User : Naming(g) # {}} |-> Cardinality(Naming(f))]

\* The backend applies u's oldest write: setData replaces the document.
Commit(u) ==
  /\ outbox[u] # <<>>
  /\ LET w == Head(outbox[u])
     IN  /\ stored' = [stored EXCEPT ![w.id] = [friendId |-> w.friendId,
                                                isDeleted |-> w.isDeleted]]
         /\ undisturbed' = undisturbed \ ({entry[w.id].owner} \ {u})
  /\ outbox' = [outbox EXCEPT ![u] = Tail(@)]
  /\ UNCHANGED <<entry, bounds, screen, removals>>

-----------------------------------------------------------------------------
(* Opening and leaving.                                                    *)

\* What a manager that is opened, or left, has loaded.
Reset(u) ==
  /\ directory' = [directory EXCEPT ![u] = <<>>]
  /\ allFriends' = [allFriends EXCEPT ![u] = EmptyBag]
  /\ laidOut' = laidOut \ {u}
  /\ targets' = [targets EXCEPT ![u] = {}]

Close(u) ==
  /\ Reset(u)
  /\ open' = open \ {u}
  /\ allContact' = [allContact EXCEPT ![u] = "none"]
  /\ loads' = [loads EXCEPT ![u] = EmptyBag]
  /\ undisturbed' = undisturbed \ {u}

\* viewWillAppear: getAllContact and getAllFriend.
ViewWillAppear(u) ==
  /\ u \in Manager \ open
  /\ opens[u] < MaxOpen
  /\ opens' = [opens EXCEPT ![u] = @ + 1]
  /\ Reset(u)
  /\ open' = open \cup {u}
  /\ allContact' = [allContact EXCEPT ![u] = "asked"]
  /\ loads' = [loads EXCEPT ![u] = SetToBag({Asking})]
  /\ undisturbed' = undisturbed \cup {u}
  /\ UNCHANGED <<documents, presses, removals>>

BackButton(u) ==
  /\ u \in open
  /\ Close(u)
  /\ UNCHANGED <<documents, bounds, removals>>

\* The writes that were not yet on the device's disk are lost with the process.
Ends(u, writes) ==
  /\ \E n \in 0 .. Len(writes) :
       outbox' = [outbox EXCEPT ![u] = SubSeq(writes, 1, n)]
  /\ Close(u)

\* The app is killed, or fails: the document of a friend could not be had.
Kill(u) ==
  /\ u \in open
  /\ Ends(u, outbox[u])
  /\ UNCHANGED <<entry, stored, bounds, removals>>

-----------------------------------------------------------------------------
(* Loading.                                                                *)

\* What the button of the row of c says, and does.
Selector(friends, c) ==
  IF BagIn(c, friends) THEN "removeList" ELSE "addlist"

Selectors(u, friends) == {Selector(friends, c) : c \in User \ {u}}

\* reloadData: once the contacts are there every row's button gets a handler,
\* and keeps those it has been given before for other states and rows.
ReloadData(u, friends) ==
  IF allContact[u] = "loaded"
  THEN /\ laidOut' = laidOut \cup {u}
       /\ targets' = [targets EXCEPT ![u] = @ \cup Selectors(u, friends)]
  ELSE UNCHANGED <<laidOut, targets>>

\* The other users arrive: getAllFriend runs for each of them.
ContactsLoaded(u) ==
  /\ allContact[u] = "asked"
  /\ allContact' = [allContact EXCEPT ![u] = "loaded"]
  /\ loads' = [loads EXCEPT ![u] = @ (+) [l \in {Asking} |-> Cardinality(User) - 1]]
  /\ UNCHANGED <<documents, bounds, open, directory, allFriends, laidOut,
                 targets, history>>

\* The order of a query's answer: that of the identifiers.
Orders(ids) ==
  {order \in [1 .. Cardinality(ids) -> ids] :
     \A i, j \in 1 .. Cardinality(ids) : i < j => order[i] < order[j]}

\* What the entries say, in that order.
Listed(u, order) ==
  [k \in DOMAIN order |->
     [id |-> order[k], friendId |-> Local(u, order[k]).friendId]]

\* The entries arrive.  Only an empty directory reloads the table here.
DirectoryLoaded(u) ==
  /\ Asking \in DOMAIN loads[u]
  /\ LET rest == loads[u] (-) SetToBag({Asking})
     IN  IF Live(u) = {}
         THEN /\ loads' = [loads EXCEPT ![u] = rest]
              /\ IF Entries(u) = {}
                 THEN ReloadData(u, allFriends[u])
                 ELSE UNCHANGED <<laidOut, targets>>
              /\ UNCHANGED directory
         ELSE /\ loads' = [loads EXCEPT ![u] = rest (+) SetToBag({Waiting(Friends(u))})]
              /\ \E order \in Orders(Live(u)) :
                   directory' = [directory EXCEPT ![u] = @ \o Listed(u, order)]
              /\ UNCHANGED <<laidOut, targets>>
  /\ UNCHANGED <<documents, bounds, open, allContact, allFriends, history>>

\* A query fails: there is no second one.
QueryFails(u) ==
  /\ \/ /\ allContact[u] = "asked"
        /\ allContact' = [allContact EXCEPT ![u] = "none"]
        /\ UNCHANGED loads
     \/ /\ Asking \in DOMAIN loads[u]
        /\ loads' = [loads EXCEPT ![u] = @ (-) SetToBag({Asking})]
        /\ UNCHANGED allContact
  /\ undisturbed' = undisturbed \ {u}
  /\ UNCHANGED <<documents, bounds, open, directory, allFriends, laidOut,
                 targets, removals>>

\* Mutant: the friends are shown before the one that has come.
FriendLoadedLate(u) ==
  \E l \in DOMAIN loads[u] : \E f \in DOMAIN l.waiting :
    LET next == [l EXCEPT !.waiting = @ (-) SetToBag({f}),
                          !.tempFriend = @ (+) SetToBag({f})]
        rest == loads[u] (-) SetToBag({l})
    IN  /\ loads' = [loads EXCEPT ![u] =
               IF next.waiting = EmptyBag THEN rest ELSE rest (+) SetToBag({next})]
        /\ allFriends' = [allFriends EXCEPT ![u] = l.tempFriend]
        /\ ReloadData(u, l.tempFriend)
        /\ UNCHANGED <<documents, bounds, open, allContact, directory, history>>

\* A friend's document arrives: the friends of this load so far replace those
\* the table knows, since the two counts the code compares are always equal.
FriendLoaded(u) ==
  \E l \in DOMAIN loads[u] : \E f \in DOMAIN l.waiting :
    LET next == [l EXCEPT !.waiting = @ (-) SetToBag({f}),
                          !.tempFriend = @ (+) SetToBag({f})]
        rest == loads[u] (-) SetToBag({l})
    IN  /\ loads' = [loads EXCEPT ![u] =
               IF next.waiting = EmptyBag THEN rest ELSE rest (+) SetToBag({next})]
        /\ allFriends' = [allFriends EXCEPT ![u] = next.tempFriend]
        /\ ReloadData(u, next.tempFriend)
        /\ UNCHANGED <<documents, bounds, open, allContact, directory, history>>

-----------------------------------------------------------------------------
(* The buttons.                                                            *)

\* What the handlers of a press on the row of c have done so far.
NoEffect(u) ==
  [writes |-> <<>>, friends |-> allFriends[u], marked |-> {}, failed |-> FALSE]

NewEntry(e, f) == [id |-> e, friendId |-> f, isDeleted |-> FALSE]

\* Mutant: the other user's entry is written first.
addlistOtherFirst(u, c, own, other, effect) ==
  [effect EXCEPT !.writes = @ \o <<NewEntry(other, u), NewEntry(own, c)>>,
                 !.friends = @ (+) SetToBag({c})]

\* Mutant: the friends of the two entries are exchanged.
addlistExchanged(u, c, own, other, effect) ==
  [effect EXCEPT !.writes = @ \o <<NewEntry(own, u), NewEntry(other, c)>>,
                 !.friends = @ (+) SetToBag({c})]

\* addlist: an entry for each of the two users.
addlist(u, c, own, other, effect) ==
  [effect EXCEPT !.writes = @ \o <<NewEntry(own, c), NewEntry(other, u)>>,
                 !.friends = @ (+) SetToBag({c})]

Row(u, c) == CHOOSE k \in DOMAIN Rows(u) : Rows(u)[k] = c

\* Mutant: the entry is given the friend of the row.
removeListOfRow(u, c, effect) ==
  LET d == directory[u][Row(u, c)]
  IN  IF Row(u, c) \notin DOMAIN directory[u]
      THEN [effect EXCEPT !.failed = TRUE]
      ELSE [effect EXCEPT
              !.writes = Append(@, [id |-> d.id, friendId |-> c,
                                    isDeleted |-> TRUE]),
              !.marked = @ \cup {<<c, d.friendId>>},
              !.friends = @ (-) SetToBag({c}),
              !.failed = ~BagIn(c, effect.friends)]

\* removeList: the entry at the number of the row is marked deleted, and the
\* user of the row taken from the friends.  Either may fail.
removeList(u, c, effect) ==
  LET d == directory[u][Row(u, c)]
  IN  IF Row(u, c) \notin DOMAIN directory[u]
      THEN [effect EXCEPT !.failed = TRUE]
      ELSE [effect EXCEPT
              !.writes = Append(@, [id |-> d.id, friendId |-> d.friendId,
                                    isDeleted |-> TRUE]),
              !.marked = @ \cup {<<c, d.friendId>>},
              !.friends = @ (-) SetToBag({c}),
              !.failed = ~BagIn(c, effect.friends)]

\* The handlers that run, one after the other: that of what the button says,
\* and the other one if a button that is reused has been given it before.
Handlers(u, c) ==
  LET now == Selector(allFriends[u], c)
      before == targets[u] \ {now}
  IN  {<<now>>} \cup {<<now, h>> : h \in before} \cup {<<h, now>> : h \in before}

Handle(u, c, own, other, effect, h) ==
  IF effect.failed THEN effect
  ELSE IF h = "addlist" THEN addlist(u, c, own, other, effect)
                        ELSE removeList(u, c, effect)

Run(u, c, handlers, own, other) ==
  LET first == Handle(u, c, own, other, NoEffect(u), handlers[1])
  IN  IF Len(handlers) = 1 THEN first
      ELSE Handle(u, c, own, other, first, handlers[2])

Finish(u, effect) ==
  /\ removals' = removals \cup effect.marked
  /\ IF effect.failed
     THEN Ends(u, outbox[u] \o effect.writes)
     ELSE /\ outbox' = [outbox EXCEPT ![u] = @ \o effect.writes]
          /\ allFriends' = [allFriends EXCEPT ![u] = effect.friends]
          /\ ReloadData(u, effect.friends)
          /\ undisturbed' = undisturbed \ {u}
          /\ UNCHANGED <<open, allContact, loads, directory>>
  /\ UNCHANGED <<stored, opens>>

\* A press that adds takes two references, with new identifiers.
PressAdds(u, c) ==
  \E handlers \in Handlers(u, c) :
    /\ Contains(handlers, "addlist")
    /\ \E own, other \in {e \in EntryId : entry[e] = NoEntry} :
         /\ own # other
         /\ entry' = [entry EXCEPT ![own] = [owner |-> u, by |-> u],
                                   ![other] = [owner |-> c, by |-> u]]
         /\ Finish(u, Run(u, c, handlers, own, other))

PressRemoves(u, c) ==
  /\ <<"removeList">> \in Handlers(u, c)
  /\ Finish(u, removeList(u, c, NoEffect(u)))
  /\ UNCHANGED entry

Press(u) ==
  /\ u \in laidOut
  /\ presses < MaxPress
  /\ presses' = presses + 1
  /\ \E c \in User \ {u} : PressAdds(u, c) \/ PressRemoves(u, c)

-----------------------------------------------------------------------------
Next ==
  \E u \in User :
    \/ ViewWillAppear(u) \/ BackButton(u) \/ Kill(u)
    \/ ContactsLoaded(u) \/ DirectoryLoaded(u) \/ QueryFails(u)
    \/ FriendLoaded(u)
    \/ Press(u)
    \/ Commit(u)

Spec == Init /\ [][Next]_vars

-----------------------------------------------------------------------------
(* Properties.                                                             *)

\* An entry names the same friend for ever, and what was removed does not come
\* back: every write replaces the whole document, from rows of the table and
\* from entries that may have been read long before.
EntriesKeepFriend ==
  [][\A e \in EntryId : stored[e] # NoEntry =>
       /\ stored'[e] # NoEntry
       /\ stored'[e].friendId = stored[e].friendId
       /\ stored[e].isDeleted => stored'[e].isDeleted]_vars

\* Whom somebody else has put into a directory finds that user's own directory
\* naming them back, also when the app ended between the two entries.
EntriesAreMutual ==
  \A e \in EntryId :
    stored[e] # NoEntry /\ entry[e].owner # entry[e].by =>
      \E own \in EntryId : /\ stored[own] # NoEntry
                           /\ entry[own] = [owner |-> entry[e].by,
                                            by |-> entry[e].by]
                           /\ stored[own].friendId = entry[e].owner

\* However the answers of the many loads mix, the table ends up with the
\* friends of the directory, if no query failed and nothing changed meanwhile.
LoadsAgree ==
  \A u \in undisturbed :
    allContact[u] = "loaded" /\ loads[u] = EmptyBag =>
      allFriends[u] = Friends(u)

\* What the button says, "Remove": the entry a row removes is its user's.
RemovesItsContact == \A r \in removals : r[1] = r[2]

=============================================================================
