------------------------------- MODULE Session -------------------------------
(***************************************************************************)
(* Who is signed in on which device: the sign-in screens (SignInVC) over   *)
(* the collection Users, the launch of the app (AppDelegate) and the       *)
(* logout (LogoutVc).                                                      *)
(*                                                                         *)
(* A person is known by the display name of a Snapchat account.  A tap on  *)
(* the login button is an attempt of its own, which goes on by callbacks:  *)
(* the button can be tapped again, and the screen can be gone, before it   *)
(* has ended.  The person's document is looked up by the name and made if  *)
(* there is none; its identifier is what all other screens work with.      *)
(***************************************************************************)
EXTENDS Naturals, FiniteSetsExt, SequencesExt

CONSTANTS
  Device,
  Name,         \* the display names
  Id,           \* bound: the identifiers of new documents.  They are ordered
                \* as a query orders its documents, not by age.
  Attempt,      \* bound: the taps on the login button
  NoId,
  NoName

ASSUME IdAssumption == Id \subseteq Nat /\ NoId \notin Id
ASSUME NameAssumption == NoName \notin Name

VARIABLES
  displayName,   \* displayName[i]: the field of the document i, NoName if there
                 \* never was such a document
  documents,     \* the identifiers in the collection Users of the backend
  known,         \* known[d]: those of them in the cache of d
  outbox,        \* outbox[d]: the identifiers d has set the document of, oldest
                 \* first, while the backend does not have it
  saved,         \* saved[d]: how many of them are on d's disk
  running,       \* the app's process is alive
  screen,        \* the root view controller
  userDetail,    \* User.userDetail: the user in memory
  USER,          \* UserDefaults "USER"
  SIGN_IN,       \* UserDefaults "SIGN_IN"
  phase,         \* how far an attempt is
  device,        \* where it is made
  name,          \* for whom
  document,      \* the document it makes
  shown,         \* the attempts whose sign-in screen is still the root
  \* History, read by the properties only.
  raced,         \* names that were looked up where the answer could not tell
  lost           \* documents that ended with a process

store    == <<displayName, documents, known, outbox, saved>>
defaults == <<USER, SIGN_IN>>
attempts == <<phase, device, name, document, shown>>
history  == <<raced, lost>>
vars == <<store, running, screen, userDetail, defaults, attempts, history>>

\* "late" has ended after its screen was gone.
Phase == {"untapped", "asking", "uploading", "ended", "late"}

Screen == {"signIn", "home", "unlinked"}

UnderWay(t) == phase[t] \in {"asking", "uploading"}

-----------------------------------------------------------------------------
(* The collection Users, as a device sees it.                              *)

Of(n, ids) == {i \in ids : displayName[i] = n}

Pending(d) == Range(outbox[d])

\* Mutant: a query does not see what the device has written.
AnswersOfBackend(d, n) == {Of(n, documents)}

\* What the backend and the device's own writes answer to the query.
Answers(d, n) == {Of(n, documents \cup Pending(d))}

\* Mutant: nor does that of its cache.
CacheAnswersOfBackend(d, n) ==
  {Of(n, S) : S \in {T \in SUBSET documents : known[d] \subseteq T}}

\* What a device that is offline answers: its own writes, the documents the
\* earlier answers have brought, and any that other screens have.
CacheAnswers(d, n) ==
  {Of(n, Pending(d) \cup S) :
     S \in {T \in SUBSET documents : known[d] \subseteq T}}

\* The documents in the backend or on their way to it, and those of a name.
Stored == documents \cup UNION {Pending(d) : d \in Device}

Accounts(n) == Of(n, Stored)

-----------------------------------------------------------------------------
TypeOK ==
  /\ displayName \in [Id -> Name \cup {NoName}]
  /\ documents \subseteq Id
  /\ known \in [Device -> SUBSET documents]
  /\ outbox \in [Device -> Seq(Id)]
  /\ saved \in [Device -> Nat]
  /\ \A d \in Device : saved[d] \in 0 .. Len(outbox[d])
  /\ running \in [Device -> BOOLEAN]
  /\ screen \in [Device -> Screen]
  /\ userDetail \in [Device -> Id \cup {NoId}]
  /\ USER \in [Device -> Id \cup {NoId}]
  /\ SIGN_IN \in [Device -> BOOLEAN]
  /\ phase \in [Attempt -> Phase]
  /\ device \in [Attempt -> Device]
  /\ name \in [Attempt -> Name]
  /\ document \in [Attempt -> Id \cup {NoId}]
  /\ shown \subseteq Attempt
  /\ raced \subseteq Name
  /\ lost \subseteq Id

Init ==
  /\ displayName = [i \in Id |-> NoName]
  /\ documents = {}
  /\ known = [d \in Device |-> {}]
  /\ outbox = [d \in Device |-> <<>>]
  /\ saved = [d \in Device |-> 0]
  /\ running = [d \in Device |-> TRUE]
  /\ screen = [d \in Device |-> "signIn"]
  /\ userDetail = [d \in Device |-> NoId]
  /\ USER = [d \in Device |-> NoId]
  /\ SIGN_IN = [d \in Device |-> FALSE]
  /\ phase = [t \in Attempt |-> "untapped"]
  /\ device \in [Attempt -> Device]
  /\ name \in [Attempt -> Name]
  /\ document = [t \in Attempt |-> NoId]
  /\ shown = {}
  /\ raced = {}
  /\ lost = {}

\* loginButtonTapped: Snapchat gives the name, and the query is asked.
LoginButtonTapped(t) ==
  /\ running[device[t]]
  /\ screen[device[t]] = "signIn"
  /\ phase[t] = "untapped"
  /\ phase' = [phase EXCEPT ![t] = "asking"]
  /\ shown' = shown \cup {t}
  /\ UNCHANGED <<store, running, screen, userDetail, defaults, device, name,
                 document, history>>

\* A segue of a sign-in screen that is gone, or is about to be, shows nothing.
OnScreen(t) == t \in shown /\ screen[device[t]] # "unlinked"

\* How the attempt t ends.
End(t) ==
  /\ phase' = [phase EXCEPT ![t] = IF OnScreen(t) THEN "ended" ELSE "late"]
  /\ screen' = IF OnScreen(t) THEN [screen EXCEPT ![device[t]] = "home"]
                              ELSE screen

\* Mutant: the user in memory stays who it was.
SignInDefaultsOnly(t, i) ==
  LET d == device[t]
  IN  /\ USER' = [USER EXCEPT ![d] = i]
      /\ SIGN_IN' = [SIGN_IN EXCEPT ![d] = TRUE]
      /\ End(t)
      /\ UNCHANGED userDetail

\* Both kinds of sign-in end alike: the user is in memory and stored, and the
\* screen, if it is still there, goes home.
SignIn(t, i) ==
  LET d == device[t]
  IN  /\ USER' = [USER EXCEPT ![d] = i]
      /\ SIGN_IN' = [SIGN_IN EXCEPT ![d] = TRUE]
      /\ userDetail' = [userDetail EXCEPT ![d] = i]
      /\ End(t)

\* existUserSignIn signs in as each document in turn: the last one stays.
ExistUserSignIn(t, ids) ==
  /\ \E i \in ids : (\A j \in ids : j <= i) /\ SignIn(t, i)
  /\ UNCHANGED <<displayName, documents, outbox, saved, running, device, name,
                 document, shown, lost>>

\* Mutant: the user is stored before there is a document.
NewUserSignInAtOnce(t, ids) ==
  LET d == device[t]
  IN  /\ ids = {}
      /\ \E i \in {j \in Id : displayName[j] = NoName} :
           /\ displayName' = [displayName EXCEPT ![i] = name[t]]
           /\ document' = [document EXCEPT ![t] = i]
           /\ USER' = [USER EXCEPT ![d] = i]
           /\ userDetail' = [userDetail EXCEPT ![d] = i]
      /\ SIGN_IN' = [SIGN_IN EXCEPT ![d] = TRUE]
      /\ phase' = [phase EXCEPT ![t] = "uploading"]
      /\ screen' = IF OnScreen(t) THEN [screen EXCEPT ![d] = "home"]
                                  ELSE screen
      /\ UNCHANGED <<documents, outbox, saved, running, device, name, shown,
                     lost>>

\* newUserSignIn: a new identifier, and the upload of the picture.
NewUserSignIn(t, ids) ==
  /\ ids = {}
  /\ \E i \in {j \in Id : displayName[j] = NoName} :
       /\ displayName' = [displayName EXCEPT ![i] = name[t]]
       /\ document' = [document EXCEPT ![t] = i]
  /\ phase' = [phase EXCEPT ![t] = "uploading"]
  /\ UNCHANGED <<documents, outbox, saved, running, screen, userDetail,
                 defaults, device, name, shown, lost>>

\* The worker of the client is not at the query before it has saved the writes
\* that were issued earlier.
Asked(t) ==
  /\ running[device[t]]
  /\ phase[t] = "asking"
  /\ saved[device[t]] = Len(outbox[device[t]])

\* The answer, from the backend.  It cannot tell of documents that are being
\* made, or that another device has not sent yet.
Answered(t) ==
  LET d == device[t]
      n == name[t]
  IN  /\ Asked(t)
      /\ \E ids \in Answers(d, n) :
           /\ ExistUserSignIn(t, ids) \/ NewUserSignIn(t, ids)
           /\ known' = [known EXCEPT ![d] = @ \cup (ids \cap documents)]
      /\ raced' = IF \/ \E u \in Attempt : phase[u] = "uploading" /\ name[u] = n
                     \/ Of(n, UNION {Pending(e) : e \in Device \ {d}}) # {}
                  THEN raced \cup {n} ELSE raced

\* The answer of a device that is offline: what it was never told is missing.
AnsweredFromCache(t) ==
  LET d == device[t]
      n == name[t]
  IN  /\ Asked(t)
      /\ \E ids \in CacheAnswers(d, n) :
           /\ ExistUserSignIn(t, ids) \/ NewUserSignIn(t, ids)
           /\ raced' =
                IF \/ Accounts(n) \ (ids \cup known[d] \cup Pending(d)) # {}
                   \/ \E u \in Attempt : phase[u] = "uploading" /\ name[u] = n
                THEN raced \cup {n} ELSE raced
      /\ UNCHANGED known

\* The completion of SaveImageViewModel: the document is set, and signed in as.
Uploaded(t) ==
  LET d == device[t]
  IN  /\ running[d]
      /\ phase[t] = "uploading"
      /\ outbox' = [outbox EXCEPT ![d] = Append(@, document[t])]
      /\ SignIn(t, document[t])
      /\ UNCHANGED <<displayName, documents, known, saved, running, device,
                     name, document, shown, history>>

\* Without a picture there is no user, and the screen stays.
UploadFails(t) ==
  /\ running[device[t]]
  /\ phase[t] = "uploading"
  /\ phase' = [phase EXCEPT ![t] = "ended"]
  /\ UNCHANGED <<store, running, screen, userDetail, defaults, device, name,
                 document, shown, history>>

-----------------------------------------------------------------------------
(* Logging out.                                                            *)

\* Mutant: the device stays signed in.
UnlinkedStaysSignedIn(d) ==
  /\ running[d]
  /\ screen[d] = "home"
  /\ screen' = [screen EXCEPT ![d] = "unlinked"]
  /\ UNCHANGED <<store, running, userDetail, defaults, attempts, history>>

\* yesButtonAction, when Snapchat has unlinked the session.
Unlinked(d) ==
  /\ running[d]
  /\ screen[d] = "home"
  /\ screen' = [screen EXCEPT ![d] = "unlinked"]
  /\ SIGN_IN' = [SIGN_IN EXCEPT ![d] = FALSE]
  /\ UNCHANGED <<store, running, userDetail, USER, attempts, history>>

\* A later block of the main queue: a sign-in screen is the root again.
ShowSignIn(d) ==
  /\ running[d]
  /\ screen[d] = "unlinked"
  /\ screen' = [screen EXCEPT ![d] = "signIn"]
  /\ shown' = shown \ {t \in Attempt : device[t] = d}
  /\ UNCHANGED <<store, running, userDetail, defaults, phase, device, name,
                 document, history>>

-----------------------------------------------------------------------------
(* The process and the client.                                             *)

\* The process ends: the writes that were only in memory are lost.
EndProcess(d) ==
  /\ running[d]
  /\ running' = [running EXCEPT ![d] = FALSE]
  /\ outbox' = [outbox EXCEPT ![d] = SubSeq(@, 1, saved[d])]
  /\ lost' = lost \cup (Pending(d) \ Range(outbox'[d]))
  /\ userDetail' = [userDetail EXCEPT ![d] = NoId]
  /\ screen' = [screen EXCEPT ![d] = "signIn"]
  /\ phase' = [t \in Attempt |-> IF device[t] = d /\ UnderWay(t)
                                 THEN "ended" ELSE phase[t]]
  /\ shown' = shown \ {t \in Attempt : device[t] = d}
  /\ UNCHANGED <<displayName, documents, known, saved, defaults, device, name,
                 document, raced>>

\* A query that fails has nil for documents, which existUserSignIn is given
\* by force; so is newUserSignIn the picture that could not be downloaded.
AnswerFails(t) ==
  /\ phase[t] = "asking"
  /\ EndProcess(device[t])

\* application(_:didFinishLaunchingWithOptions:).
Launch(d) ==
  /\ ~running[d]
  /\ running' = [running EXCEPT ![d] = TRUE]
  /\ userDetail' = IF SIGN_IN[d] THEN [userDetail EXCEPT ![d] = USER[d]]
                                 ELSE userDetail
  /\ screen' = [screen EXCEPT ![d] = IF SIGN_IN[d] THEN "home" ELSE "signIn"]
  /\ UNCHANGED <<store, defaults, attempts, history>>

Persist(d) ==
  /\ running[d]
  /\ saved[d] < Len(outbox[d])
  /\ saved' = [saved EXCEPT ![d] = @ + 1]
  /\ UNCHANGED <<displayName, documents, known, outbox, running, screen,
                 userDetail, defaults, attempts, history>>

\* The backend has d's oldest saved document, and d knows it.
Commit(d) ==
  /\ running[d]
  /\ saved[d] > 0
  /\ documents' = documents \cup {Head(outbox[d])}
  /\ known' = [known EXCEPT ![d] = @ \cup {Head(outbox[d])}]
  /\ outbox' = [outbox EXCEPT ![d] = Tail(@)]
  /\ saved' = [saved EXCEPT ![d] = @ - 1]
  /\ UNCHANGED <<displayName, running, screen, userDetail, defaults, attempts,
                 history>>

-----------------------------------------------------------------------------
AttemptStep(t) ==
  \/ LoginButtonTapped(t)
  \/ Answered(t)
  \/ AnsweredFromCache(t)
  \/ AnswerFails(t)
  \/ Uploaded(t)
  \/ UploadFails(t)

DeviceStep(d) ==
  \/ Unlinked(d)
  \/ ShowSignIn(d)
  \/ EndProcess(d)
  \/ Launch(d)
  \/ Persist(d)
  \/ Commit(d)

Next ==
  \/ \E t \in Attempt : AttemptStep(t)
  \/ \E d \in Device : DeviceStep(d)

Spec == Init /\ [][Next]_vars

-----------------------------------------------------------------------------
(* Properties.                                                             *)

\* Whoever sees the app's screens is signed in, and the user the screens work
\* with is the one the next launch will restore.
HomeHasUser ==
  \A d \in Device : running[d] /\ screen[d] = "home" =>
    /\ SIGN_IN[d]
    /\ USER[d] # NoId
    /\ userDetail[d] = USER[d]

\* A person has one document, however often and on however many devices the
\* button is tapped, pictures fail and the app is killed: a second one takes
\* an answer that came from the cache of an offline device without the first,
\* or while the first was being made or waited on another device.
OneAccount == \A n \in Name \ raced : Cardinality(Accounts(n)) <= 1

\* A device that is signed in, or was, has a user whose document is stored or
\* on its way, on whatever device it was made: the upload comes before the
\* defaults, but they come before the document is safe from the end of the
\* process.
SignedInExists ==
  \A d \in Device : USER[d] # NoId =>
    USER[d] \in Stored \cup lost

\* Who signs in again, offline or not, is who they were: the identifier of a
\* person on a device only changes if the person got a second document or the
\* first was lost.
KeepsIdentity ==
  \A d \in Device :
    LET old == USER[d]
        new == USER'[d]
    IN  /\ old \notin {NoId, new}
        /\ displayName'[old] = displayName'[new]
        => displayName'[old] \in raced' \/ old \in lost'

IdentityKept == [][KeepsIdentity]_vars

\* Once the sign-in screen is shown, the next launch shows it too: what signs
\* a device in behind it is an attempt that has outlived its own screen.
LogoutHolds ==
  \A d \in Device : running[d] /\ screen[d] = "signIn" /\ SIGN_IN[d] =>
    \E t \in Attempt : device[t] = d /\ phase[t] = "late"

=============================================================================
