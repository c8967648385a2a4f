# A TLA+ model of Bema

Bema is an iOS application for chatting and for sending crypto tokens wrapped
in AR pictures.  The repository holds the application
(`src/Bema-Coding/Bema`), the recorder it uses for AR scenes
(`src/ARVideoKit-swift_5`) and their vendored dependencies
(`src/Bema-Coding/Pods`).  There is no server code: the devices share documents
in Firestore, and every rule of the protocol between users is in the view
controllers.  The modules here model those view controllers, the documents
they share, the machinery of the Firestore client that carries them (writes and
listeners), who is signed in where, and the state machine of the recorder.

Contents: [system](#1-the-system), [plan](#2-plan), [modules](#3-modules-and-code),
[runs](#4-runs), [fairness](#5-fairness), [proofs](#6-proofs),
[findings](#7-what-the-modelling-found), [left out](#8-what-is-not-modelled),
[running](#9-running-it).

## 1. The system

Short names of files: `CR` chatRoomVC, `CM` ChatMainVC, `AR` AR_ConfirmVC, `CMG`
ContactManagerVC, `RA` RecordAR, `WR` WritAR, `SI` SignInVC, and of the Firestore
client (`Pods/FirebaseFirestore/Firestore/core/src`, and `Source`): `SE` sync_engine, `LS`
local_store, `MQ` leveldb_mutation_queue, `RS` remote_store, `ST` stream.

### Components

| component | state | operations | must be right |
|---|---|---|---|
| Shared store: collections `ChatRoom`, `Conversation`, `Users`, `Friends/<u>/Directory`, and the Firestore client of each device | documents; queued writes, the saved ones among them | `setData`, `updateData`, `getDocuments`, snapshot listeners | writes of one device reach the backend in order; what was saved survives the process |
| Chat room (`CR`) | copies of the two `Conversation` arrays, `allMessage`, the table, uploads, listeners | appear, send text, pick and send picture, snapshot of an index, snapshot of the room, back | index never wrong and as complete as the code can make it; messages sent once; read marks only by the reader; no row without a message |
| Picture upload (`SaveImageViewModel`) | the upload under way | upload, failure, URL | a message appears only after its picture |
| Transfer confirmation (`AR`) | which view is shown, biometrics, upload | yes, no, authentication, send picture, send amount | no amount without approval or without its picture |
| Chat list (`CM`) | `allMessage` and `alertCount`, parallel arrays; listeners | appear, snapshot of the index, snapshot of a room | the two arrays fit, the newest message of every room is listed |
| Contact manager (`CMG`) | contacts, friends, directory, loads under way | open, load contacts, load friends in two steps, add, remove | entries of two users name each other; a button acts on its own row |
| Firestore client, writes (`SE`, `LS`, `MQ`, `RS`, `ST`) | mutation queue on the disk, ids, callbacks, write pipeline, write stream and its credentials, idle timer | a write, handshake, result, failure, retry, idle, network off and on, start | every saved write is sent in order until it is acknowledged or refused; what was acknowledged is never undone by a write sent again; each result is that of the oldest batch |
| Firestore client, listeners (`SE`, `LS`, `RS`, view, event_manager, query_listener, remote_event, online_state_tracker) | document cache, query cache, resume token, view, events of the listeners, watch stream, aggregator, online state | listen, a write, acknowledgement, refusal, messages of the watch stream, its failure, time-out | no version is missed; the incremental view is that of the disk; listeners agree, never go back, have a first event, converge |
| Contact pickers (ContactListVC, ChatContactVC) | contacts, friends | the same loading, choosing | the list is complete; the chosen row is the contact |
| Session (`SI`, AppDelegate, LogoutVc) | `User.userDetail`, UserDefaults, `Users` documents, attempts under way | tap, look up, create, restore, log out | one document per person and the same one ever after; who sees the screens is signed in; a logout holds |
| Amount keypads (WalletMainVC, SendTokenMainVC, CryptoList_AR_VC) | the amount as a text | digit, point, delete, switch of currency | the text is an amount |
| AR camera (CameraViewController) | recorder, picture taken | shoot, record, stop, hand over | the recorder is driven by its contract |
| Video recorder (`RA`, `WR`, of ARVideoKit) | flags of recording and pausing, status, current writer, timers | record, record(forDuration:), pause, stop, cancel, prepare, frame, completion | the times of a file's frames increase; a limited recording ends; the status tells the truth |
| Photos, GIFs, live photos, orientation, rendering | none that lasts | conversion | data, not control |
| Menus, settings, profile, cells, custom views | view only | navigation, layout | - |
| The rest of Pods (gRPC, BoringSSL, LevelDB, Protobuf, Firebase) | external | | |

### Interaction

* Screens interact through documents only.  A screen reads by *listeners*
  (`addSnapshotListener`), whose handlers run later on the main thread, and by
  one-shot queries; it writes by `setData` (the whole document) and
  `updateData`, which return at once.
* `Conversation/<u>` is an array of rooms that is written by *every* user who
  starts a chat with `u`, each time as a whole, from the copy of the screen.
* No listener is ever removed and every handler retains its view controller,
  so a screen that was left goes on reacting until the process ends, and a
  screen that appears twice reacts twice.
* A push from the contact picker opens a chat room or a confirmation; the
  camera hands a picture and the amount to the confirmation; the confirmation
  writes into the same room as the chat room would.
* Each device's Firestore client runs on one serial worker queue.  The app's calls
  return at once and are run there in order; a write is saved to LevelDB, shown
  to the listeners, and sent on the write stream; the watch stream brings what
  the backend holds, the device's own writes included.  Both streams break and
  are started again on their own.
* The attempt to sign in is a chain of callbacks (Snapchat, a query, a download, an
  upload) that survives its screen and can be started twice.
* The recorder runs on the main thread, the display link, an audio and a
  writer queue; completions of AVFoundation and timers come back later.

### Hard behaviours

Concurrent replacement of a document from stale copies; three independent writes
per message with the process ending between them; uploads that never answer;
listeners that accumulate; read marks written from the handler that they
trigger; many loads whose answers mix; reused cells; a recorder whose flags are
reset before its writer ends; writes that are sent again although the backend has
applied them; credentials that answer a start long past; batch ids that a restart
gives out again; a watch stream that is cut in the middle of a snapshot and races
the acknowledgements; two devices that make the same person at once.  `PROJECT.json` lists them line by line as
hazards, with the properties that would catch each going wrong, or why none
does yet.

## 2. Plan

Done, in this order: `BemaStore`, `ChatRoom` with `MessageLife`, its proofs,
`ChatRoomAudit`, `ARTransfer`, `ChatList`, `RecordAR` and `Directory` with their proofs;
the proofs of what the chat room does with receipts and rows and that it implements
the life of a message (`MessageProofs`);
then what these take for granted of the client, `FirestoreWrites` with the
abstract `WriteQueue`, the proof of its invariants and of the refinement, and
`FirestoreListen`; then `Session` and its proofs; then the proofs of `FirestoreListen`
and `ChatList`, and, in `MessageProofs`, those of `ChatRoomAudit` and `ARTransfer`; last
the type and the loads of `Directory`.

What could follow, in this order:

1. `ContactPicker`: ContactListVC 53-134, ChatContactVC 54-122 and 182-219.  The loading
   is that of `Directory` without its buttons, so it adds little.
2. `Camera`: CameraViewController 92-165, 385-490, 581-590 over `RecordAR`, handing
   over to `ARTransfer`.  It calls the recorder in one order only.
3. `Keypad`: WalletMainVC 242-321, SendTokenMainVC 217-319, CryptoList_AR_VC 112-201:
   sequential edits of a text, which unit tests reach well.
4. Audio samples and photos in `RecordAR`; removal of documents and limbo resolution
   in `FirestoreListen`, which this app never causes.
5. Proofs: every invariant and action property of a passing run has its theorem; what
   could follow are step lemmas for the progress of a write and of a receipt, which the
   liveness runs now check as a whole.

Abstract specifications: `MessageLife` (a message, implemented by chat rooms and
transfers) and `WriteQueue` (the writes of a device, implemented by the client's
write path).

## 3. Modules and code

`PROJECT.json` maps every definition to its lines.

**BemaStore** (external client, `Message.swift`).  `created` holds the fields of the
messages, by `chatId` in order of creation, since nothing changes them later;
`chatRoom` and `isRead` are the documents in the backend; `conversation` the
arrays; `outbox[u]` the writes of one device, of which the first `saved[u]` are on
its disk.  A write goes through three steps: issued (`Issue`, in memory), saved
(`Persist`: visible to the device's listeners, survives the process), applied
(`Commit`).  `Commit` of a message sets `isRead` to false, as `setData` does; an
update of a document that does not exist is rejected.  `StopProcess` loses what
was not saved.

**ChatRoom** (`CR`).  A `Screen` is one instance of the view controller on the
device of `senderId[s]` for the contact `recieverId[s]`.

| code | definition |
|---|---|
| `viewWillAppear`, `fetchMessage`, `pastConversation` | `ViewWillAppear`: four listeners, the first on the room "" since the title is set between the calls |
| `textFieldShouldReturn`, `storeMessage` | `SendText`, `SendMedia`; `StoreMessage` for what both end in, `IndexWrites` for the two index documents |
| image and sticker pickers | `PickImage` |
| completion of `SaveImageViewModel` | `UploadSucceeds`, `UploadFails` |
| the listeners' handlers | `ConversationSnapshot`, `MessageSnapshot` with `Receipts` (`makeRead`) |
| `backAction`, end and launch of the app | `BackAction`, `Kill`, `Launch` |

A room's title is the ordered pair of its members.  `rows` is what the table was
last laid out for, `allMessage` what its data source holds; both as sets, because
no property of this module depends on their order.  A listener remembers the last
snapshot it was handed and is raised only for a different one; the time until it
is raised stands for every staleness of the client's cache.

**ChatRoomAudit** adds a history variable: the rooms that an index has lost.
**MessageLife** is the abstract life of one message.

**ARTransfer** (`AR`).  A confirmation screen has the same copies, listeners and
uploads as a chat room, so it is a `Screen` of `ChatRoom` with other actions, beside
ordinary ones.  `transfer[s]` follows the screen: `ConfirmAppears`, `YesButton`,
`NoButton`, `Authenticated` (`localAuth`), `SendPicture` (`sendMedia`, two seconds
later), `PictureUploaded` (the picture's message, its index, then `sendAmount`).
The screen appears once.

**ChatList** (`CM`).  The documents as the device's client knows them: messages of
a room ordered by server time, the user's own unsent ones last.  `ViewWillAppear`
empties the rows but not the counts; `IndexSnapshot` starts one more listener per
room; `RoomSnapshot` replaces a row, or appends one, as `fetchMessage` does.

**Directory** (`CMG`).  `getAllContact` and `getAllFriend` are `ViewWillAppear`,
`ContactsLoaded` (which starts one load per contact), `DirectoryLoaded` and
`FriendLoaded`.  Identifiers of entries are random in the code and chosen freely
here; a query returns entries in their order, because `removeList` indexes the
result.  Arrays whose order nothing depends on are bags.  The table is laid out by
`reloadData` once there are contacts.  Cells are reused and handlers only ever
added to their buttons, so a press runs what the button says and possibly the
other handler as well, in either order.  A failed fetch of a friend, an index out
of range and a forced `nil` end the app; its writes are then lost from any point
on.  `past` are earlier additions, in `Init`, each with identifiers of its own and between two users.

**RecordAR** (`RA`, `WR`).  One action per method and per callback.  `timer` are the
timers of durations, never cancelled; `mainQueue` the blocks that `stop` and
`cancel` leave; `finishing` the files whose `finishWriting` goes on; `fileState` and
`frames` the files and the times written to them; time counts ticks of the display
link.  Handlers are atomic, the callbacks of AVFoundation come between them.
`isReadyForMoreMediaData` is false once a file is being finished; a second
`finishWriting` meanwhile may or may not be accepted; `startWriting` may fail.

**FirestoreWrites** is the path of a write through the client.  `calls` are the calls of
the app that the worker queue has not run; `queue` the batches in LevelDB, `pipeline`
those the write stream is given, `requests` and `responses` what is under way on the
open stream.  Every write replaces one document of the backend, `latest`, so that
an order that is wrong shows.

| code | definition |
|---|---|
| `SyncEngine::WriteMutations` and all it calls | `CallWrite`, then `WriteMutations` on the worker: batch, callback, `FillWritePipeline` |
| `LoadNextBatchIdFromDb`, `RemoveMutationBatch`, `NextMutationBatchAfterBatchId` | `LoadNextBatchId`, `Without`, `Passed` |
| `RemoteStore::FillWritePipeline`, `AddToWritePipeline`, `ShouldStartWriteStream` | `NextBatches`, `Added`, `StartIfNeeded` |
| `Stream::RequestCredentials`, `ResumeStartWithCredentials`, `BackoffAndTryRestarting`, `MarkIdle` | `TokenArrives`, `TokenFails`, `BackoffElapses`, `IdleTimeout`; credentials of an earlier start (`"stale"`) are told by the close count |
| `OnWriteStreamHandshakeComplete`, `OnWriteStreamMutationResult` | the actions of these names |
| `Stream::Close`, `OnWriteStreamClose`, `HandleWriteError` | `OnStreamFinish`, from `StreamBreaks` and `StreamRefused`; a permanent error drops the front batch |
| `DisableNetwork`, `EnableNetwork`, start of the process | `DisableNetwork`, `EnableNetwork`, `Initialize`; `Crash` leaves the disk |

`GrpcStream` finishes a call at the first failing operation and does not read the
responses that remain: `StreamRefused` loses them, so that the error of a later
request is taken for one of the front of the pipeline.

**WriteQueue** is what this comes to: an outbox whose first `saved` writes survive, the
first `applied` of which the backend has and the device has not heard of.

**FirestoreListen** is the path back, for one query with several listeners.  `history` are
the versions of the backend.  The write path is cut down to `WriteQueue`.  `cache`,
`keys`, `savedToken` and `queue` are on the disk; everything else is lost by `Crash`.

| code | definition |
|---|---|
| `SyncEngine::Listen`, `EventManager::AddQueryListener` | `Listen` (the first), `AddQueryListener` |
| `View::ComputeDocumentChanges`, `ShouldWaitForSyncedDocument`, `ApplyChanges`; `QueryListener::OnViewSnapshot`, `ShouldRaiseInitialEvent` | the operators of these names |
| `LocalStore::AcknowledgeBatch`, `RejectBatch`, `ApplyRemoteEvent` | `HandleSuccessfulWrite`, `HandleRejectedWrite`, `RaiseWatchSnapshot` with `Accepted` |
| `WatchChangeAggregator` | `TargetAdded`, `HandleDocumentChange`, `TargetCurrent` |
| `OnWatchStreamOpen`, `OnWatchStreamClose`, `OnlineStateTracker` | `OnWatchStreamOpen`, `OnWatchStreamClose`, `OnlineStateTimeout`, `Receive`, `SetAndBroadcast` |

Nothing in the app deletes a document or moves one out of a query, so the backend
removes nothing from the target, and with it go existence filters, resets and
limbo.  `LimboDocuments` is computed nevertheless; no state of the run has such a
document in a current view.  The tracker counts failures up to
its limit of one (`kMaxWatchStreamFailures`).

**Session** (`SI`, AppDelegate, LogoutVc).  A tap on the button is an `Attempt`, with a
device and a display name.

| code | definition |
|---|---|
| `loginButtonTapped` | `LoginButtonTapped` |
| `goToLoginConfirm`, `existUserSignIn`, `newUserSignIn` | `Answered`, `AnsweredFromCache` (offline), `AnswerFails` (the forced `nil`), over `ExistUserSignIn`, `NewUserSignIn` |
| completion of `SaveImageViewModel` | `Uploaded`, `UploadFails` |
| `yesButtonAction` | `Unlinked`, and its later block `ShowSignIn` |
| `application(_:didFinishLaunchingWithOptions:)` | `Launch`; `EndProcess` |

`device` and `name` are chosen in `Init` and never change.  `raced` and `lost` are history
variables: names looked up where the answer could not tell, documents that ended
with a process; only properties read them.

## 4. Runs

`deeds` (chat rooms) and `uses` (recorder) say what users and app may do in a run:
they bound behaviour and change nothing else.  Deadlock is not checked because
users may stop at any time and the bounds are finite.

| run | instance | shows |
|---|---|---|
| ChatRoomCrashes | two devices, both ends of a chat, one message (text or picture), leaving, killing, restarting; fair | `TypeOK`; `IndexBacked`: no device knows or queues a room without the message ahead of it; `ReceiptsByReader`; `MessagesLive`: refinement of `MessageLife`; `ReadEventually`, `TrafficStops` |
| ChatRoomRivals | three users, two write to the third, one may be killed | `IndexSound`, `NoDuplicateRooms`, `IndexedRoomHasMessage`; `MissingRoomWasDropped`: a room is missing only through an older array or the end of a process |
| ChatRoomReappear | one screen appearing twice, two messages, eight listeners | `RowsBacked` |
| ARTransfer | a transfer, killed and restarted at any step, to a contact in the chat | `AmountFollowsPicture`, `AmountApproved`, `MessagesLive` |
| ChatList | two rooms, two messages, two appearances, two changes of the index | `RowsHaveCounts`, `AlertsFitRows` (first appearance), `NewestListed` |
| RecordAR | every method, three calls, five ticks, microphone to be asked for | `FramesAdvance`, `LimitedEnds` |
| Directory | three users, two of them managing contacts at once, one old friendship, two presses | `TypeOK`, `EntriesAreMutual`, `EntriesKeepFriend`, `LoadsAgree` |
| FirestoreWrites | four writes, a pipeline of two; streams, credentials, network and process fail at any step | `PipelineIsPrefix`, `ResponsesMatch`, `NeverBehind`; `IsWriteQueue`: refinement of `WriteQueue`; `SavedWritesLeave` |
| FirestoreListen | two listeners, two documents, two writes of this device or another (one with a server timestamp), four versions of the backend | `TypeOK`, `CacheHoldsSnapshot`, `ViewIsLocal`, `ListenersAgree`, `NeverBack`, `Converges`, `FirstEvent` |
| Session | two devices, two names, three identifiers, three taps | `HomeHasUser`, `OneAccount`, `SignedInExists`, `LogoutHolds`, `IdentityKept` |
| RecordARReady, DirectoryRemoves | the smallest instances | violated, see [findings](#7-what-the-modelling-found) |

Type invariants of `ChatList` and `RecordAR` are stated and were checked on these
instances, but are not part of a run, nor are those of `FirestoreWrites` and `Session`,
which are proved.

Why the bounds are enough.  The hazards of the index need two writers of one
document and a stale copy: three users and two screens, one message each.  The
crash hazards need one message with its three writes and every prefix of them
lost.  The hazards of accumulating listeners need a second appearance or a second
screen on the same device.  The list's arrays need two rooms, so that a row can
find another room's number, and a second appearance.  The recorder's times need a
pause, a resumption and a second pause, or a stop and a new record, around a few
frames: three calls reach both.  The directory needs a friend whose place in the
directory differs from that in the contacts and two managers; two presses reach
an addition, a removal, one after the other, and both handlers of a reused button.
The write pipeline has to be full with a batch behind it, and two more writes after a
restart that gives an id out again: four writes and a pipeline of two.  The watch
stream needs a snapshot of two documents to be cut in its middle, a document that
one device wrote over another's, and versions that writes sent again leave behind:
two writes, and four versions.  Two devices, two names and a third tap give each
person a rival, a late attempt and a sign-in as somebody else.  Where a parameter matters beyond that, the theorems of section 6 hold
for every value.

Each property has a mutant in `PROJECT.json`: a plausible slip of the code (two
documents exchanged, the index written first, a forgotten reload, an unfiltered
query ...) with which TLC finds the property violated in the same run.  Mutants are
definitions named after the one they alter and marked as such.

## 5. Fairness

* The client's worker, the exchange with the backend, the end of an upload and the
  calls of listeners are weakly fair (`ChatRoom!Fairness`): the device is not offline
  for ever while the app runs.  `Commit` and `Persist` are enabled only while it runs.
* The list's snapshots are fair likewise (`ChatList`).
* Timers fire, and the question about the microphone is answered (`RecordAR`).
* The worker queue runs its calls and its timers elapse (`FirestoreWrites!Fairness`, weakly
  fair).  The network is not reliable, so nothing forbids that a stream breaks for
  ever; but an answer that is possible again and again is got (strong fairness of the
  credentials, the handshake, the backend's service and the reading of a result).
  `SavedWritesLeave` supposes in addition that the network is enabled again and again.
* `FirestoreListen!Fairness` is weak, of the handlers of the client and of a backend
  that has begun to answer.  Two properties state what they need beyond it in their
  own text.  `Converges` supposes that the backend can be reached (`Reachable`) and that
  nothing breaks from some point on.  `FirstEvent` supposes neither: the time-out and
  the second failure end the wait of a listener, unless the stream breaks again and
  again just after its first message and before a snapshot.  Each message sets the state
  online and cancels the timer, and the break after it starts another period, so a
  listener may then wait for ever; hence the premise.
* `Session` has safety properties only: nothing forces a user to tap.
* Nothing a user does is fair, and neither is a restart of the app.  So
  `ReadEventually` asks only for readers whose screen exists, and `LimitedEnds`
  only for what a timer brings about.

## 6. Proofs

TLAPS checks, for every value of the constants that satisfies the named
assumptions (finite identifiers that are numbers, bounds that are numbers, a screen
is not for its own user, the value of a listener that was not raised is not an empty
snapshot):

* **ChatRoomProofs**.  `TypeCorrect` (`TypeOK`), `IndexIsSound` (`IndexSound`) and
  `IndexHasNoDuplicates` (`NoDuplicateRooms`).  The inductive invariant is `IInv`:
  backend (`ServerInv`), queues (`DeviceInv`), copies (`CopiesInv`) and the rest of
  the screens (`ViewInv`).  The two index properties are not inductive by themselves:
  a screen's copy may come from the backend or from a queued write of the own
  device, a queued write becomes the backend's array, and a snapshot remembered by a
  listener is of the same kind; all of them have to be sound and without duplicates at
  once, and every new array is one of them with one room appended that it did not
  hold.
  Further, `CopiesAreBacked` (`IndexBacked`) and `IndexedRoomsHaveMessages`
  (`IndexedRoomHasMessage`), with `BInv == IInv /\ IndexBacked /\
  IndexedRoomHasMessage`.  The argument is about positions in the queue: the backend
  applies a prefix, the end of a process keeps a prefix, so a message queued before
  an index arrives and survives before it.
* **MessageProofs**.  `ReceiptsAreTheReaders` (`ReceiptsByReader`): a device never queues a
  message that it reads itself, so an entry that it marks comes from the backend; this
  is `Rightful`, and with `IInv` it is inductive (`RInv`).  `RowsAreBacked` (`RowsBacked`):
  `Visible`, what a device knows of a room, only grows until its process ends; table and data
  source are always parts of it (`TableInv`).  That is why an empty snapshot, which reloads
  nothing, is harmless on the room's own listener and only there: it finds `Visible` empty,
  and so the table.
  `ImplementsLife` (`MessagesLive`): each step of users, listeners, uploads
  and clients is a step of `MessageLife` or a stutter, by one lemma per action.  The
  mapping tells the phase of a message by where it is found, so the invariant has to say
  that it is nowhere else: `OnePlace`, a message on its way is among the uploads of one
  screen or once in one queue, and not in the backend.  Without it a message might be
  stored twice, and the second time would erase its read mark (CR:244), a step back that
  `MessageLife` does not have.  `RInv` says which messages may be marked.

  `MissingRoomsWereDropped` (`MissingRoomWasDropped`, of `ChatRoomAudit`).  A room of a member is
  `Covered` if the member's index has it, a queued index has it, or it was recorded as
  dropped; no step takes that away, for what removes a room from an index or a queue is
  what `dropped` records.  The property speaks of stored messages only, but a device
  leaves out an index that its screen's copy already has, so `AuditInv` says the same of
  queued messages and of every room of a screen's copies.

  `TransfersLive` (`MessagesLive`, of `ARTransfer`), `AmountsFollow` (`AmountFollowsPicture`),
  `AmountsAreApproved` (`AmountApproved`).  The last two compare numbers of messages, which no
  step keeps in relation by itself: what does is a pairing.  `PairedBy(f)` gives each amount
  a picture of its own, by the same user in the same room, which it stays `Behind`: wherever
  the amount is queued the picture is stored or queued before it, and an amount in the
  backend has its picture there.  A commit takes the front of a queue and the end of a
  process keeps a prefix, so neither lets an amount overtake.  `Granted(g)` gives each amount
  an approved screen of its own whose transfer has ended.  `ArInv` says that such an f and
  such a g exist; the step that composes an amount extends both, and it can, because
  its screen's transfer is still `"uploading"` and its picture still among the uploads, so
  neither was given away.  The inequality of the numbers follows from the injection.
* **RecordProofs**.  `FramesAlwaysAdvance` (`FramesAdvance`).  The invariant `TimeInv`
  bounds every written frame by the time the next one would get (`NextTime`), which
  the pausing frame and the resumption shift.  That difference is what makes the
  proof necessary: the code replaces `pausedFrameTime` by an adjusted time, and only
  because `resumeFrameTime` is reset with it can the sum not run backwards.
  `TypeCorrect` (`TypeOK`, which no run lists) adds the rest: files are only ever added, so
  completions that come late, and the current writer, name files that exist.
* **FirestoreWritesProofs**.  `TypeCorrect` (`TypeOK`), `PipelineCorrect` (`PipelineIsPrefix`),
  `ResponsesCorrect` (`ResponsesMatch`), `NeverBehindCorrect` (`NeverBehind`), and three facts
  that no run lists: `IdleCorrect` (`IdleMeansDrained`), `StartCorrect` (`StartingWaits`),
  `CallbacksCorrect` (`CallbacksAreQueued`), for any number of writes and any capacity of the
  pipeline.  `IInv` says: ids and writes of the queue increase and stay below the next id
  and the calls that wait (`QueueOrdered`, `CallsOrdered`); the pipeline is the beginning of
  the queue, filled (`PipelineFilled`); what is under way on the stream is the pipeline,
  served part first (`StreamInv`); the backend's document is not older than any
  write served on this stream (`LatestServed`), and acknowledged writes are older than all
  that are queued (`AcknowledgedBehind`).  The last two carry `NeverBehind`: a write sent
  again is newer than every acknowledged one, though it may be older than `latest`.

  `ImplementsQueue` (`IsWriteQueue`): each step of the client is a step
  of `WriteQueue` or a stutter, by one lemma per action.  `Outbox` is the queue on the
  disk followed by the calls, `Applied` the responses not yet read, `Confirmed` the newest
  acknowledged write.  It needs `IInv` for a result (the front of the pipeline is the oldest
  write) and for the backend's step (what it serves is the first write not served).
* **FirestoreListenProofs**.  `TypeCorrect` (`TypeOK`), `CacheCorrect` (`CacheHoldsSnapshot`),
  `ViewCorrect` (`ViewIsLocal`), `ListenersCorrect` (`ListenersAgree`) and the action property
  `NeverShownOlder` (`NeverBack`), for any documents, listeners and numbers of writes and
  versions.  `CacheHoldsSnapshot` is about the last snapshot, but the next one is made of
  what is on its way.  So `Coverage` follows each version from the backend to the cache: one
  that was sent is in the cache, in the aggregator (`updates`) or in the inbox, and
  `StreamShape` and `InboxShape` say in which order a stream brings the answer to the
  request, documents and snapshot.  `NeverBack` compares the write shown before with the one
  shown now, which may come from the backend, the cache or the queue: `Writes` says that a
  write is of one document and that the queue is in the order of issue, `AppliedLast` that
  the backend has applied the oldest of them, and none of these again later,
  `RepeatedIsKnown` and `Held` that a write which the backend has stored
  twice, or which the view holds back, is still queued, refused, or behind the cache.
  Without these a write sent again could show an old version as the newest.
* **ChatListProofs**.  `RowsFindCounts` (`RowsHaveCounts`) and `AlertsFit` (`AlertsFitRows`).  `IInv`:
  messages are numbered as they appear (`Numbered`); each is at one place of one room, and
  one without a server time is the user's own (`Places`); the two arrays grow together until
  the list appears again, and the counts are never fewer (`Rows`); and `Counts`, the property
  without its `CHOOSE`.  A message that gets its server time goes to the end of
  its room, so what stands before a row's message never changes; what is
  read only grows, so a count made earlier stays between the bounds.
* **DirectoryProofs**.  `EntriesStayMutual` (`EntriesAreMutual`) and `EntriesKeep`
  (`EntriesKeepFriend`).  Both speak of the backend, but what reaches it comes from queues
  and from directories loaded long before, so `DInv` speaks of all three: they agree on the
  friend of an entry (`Agreed`); the write that makes an entry is first in its device's
  queue to name it, and nobody else knows the entry (`Fresh`), so it never overwrites
  a removal; and whatever names a given entry comes after the giver's own entry, in the
  backend or further ahead in the giver's queue (`QueueMutual`, `DirectoryMutual`).  All
  steps but the arrival of entries and the backend's are of one kind (`Writing`):
  removals of loaded items and at most one addition are queued, or an end of the queue
  is lost.  The assumption on `past` says that identifiers were used once and that
  nobody was given to themselves, as the table lists the other users (CMG:79).
  `TypeCorrect` (`TypeOK`) and `LoadsCorrect` (`LoadsAgree`) are about the loads, which
  are bags: of loads, and in each of friends.  A few lemmas say what adding
  and taking one does to the copies in a bag (`PlusIs`, `WithoutIs`, `MovedIs`).  The
  strengthening is `Settled`: of a user whose loads all succeeded on equal data, what each
  load has and what it waits for make up the friends of the directory, no
  load waits for nobody, and the table holds the friends when no load is left.  The friends
  themselves stay the same because a device knows the same before and after the backend
  applies its own write (`CommitLocal`), and because an identifier that another user
  takes is one that nothing is said of yet (`WritingFriends`).
* **SessionProofs**.  All five properties of the run: `HomeCorrect`, `ExistsCorrect`, `LogoutCorrect`,
  `AccountsCorrect`, `IdentityCorrect`.  The strengthening is `OneOrMaking`: a name that was not
  raced has at most one stored document or one attempt that is making one, never
  both.  `IdentityCorrect` follows from it, from `Named` and from `SignedInExists`: the old and
  the new identifier are both stored under one name, hence equal.

Only model-checked: all liveness, which is out of the provers' reach (`ReadEventually`,
`TrafficStops`, `LimitedEnds`, `NewestListed`, `SavedWritesLeave`, `Converges`, `FirstEvent`).
Every other property that a run shows to hold is a theorem.  No module declares a
RECURSIVE operator.  Leaves that name a time limit (`SMTT(40)`, `ZenonT(40)`) are those the
provers find slowly.

## 7. What the modelling found

Violated by the code, each with a run:

* `ReadyMeansReady` (RA:802): after a frame that cannot be written the status says
  ready, while the failed writer stays and refuses the next recording.
* `RemovesItsContact` (CMG:180): *Remove* marks the entry at the number of the row in
  an array that is ordered otherwise, hence another friend's.

Met while modelling, and true of the code, without a statement that it contradicts:

* "Token Transfer is Successful!" (AR:73) is shown before the biometrics and the upload,
  and stays when either fails.
* A stale array overwrites the index and loses a room (CR:251);
  `MissingRoomWasDropped` says exactly when.
* The listener on the room "" empties the data source under a table that keeps its
  rows (CR:72, CR:191); `RowsBacked` excepts it.
* Screens that were left go on marking messages read (CR:201), after a logout too.
* A list that appears again has rows twice and numbers of other rooms (CM:229).
* A finished file drops whatever the current writer is (RA:519); `stop` before the
  first frame leaves the status at recording (RA:510); the delegate hears of no error
  whatever happened (RA:513); the block of a duration is not called if nothing was
  written (RA:425); a second pause without a frame between forgets the first (RA:822);
  a delegate that stops the recorder from the failed frame would wait for its own
  queue (RA:803).
* Two devices, or two taps, that look for the same display name at once each make a
  user (SI:92), and so does a device that is offline and was never told (SI:105);
  `OneAccount` says that there is no other way.
* The defaults name the new user before its document is on the disk (SI:344).  An app
  killed between has a user that does not exist (`lost`).
* A logout clears a flag and leaves the user in memory and every attempt under way,
  which may sign the device in behind the sign-in screen (LogoutVc:34).
* The client may take the error of one write for that of an older one that the backend
  has applied (grpc_stream.cc:307): it drops the older write's batch, and shows what
  was there before until the watch stream brings it.
* A listener may wait for its first event for ever if the watch stream breaks again and
  again after its first message (section 5).
* A message that is sent again is set again, and loses its read mark (CR:244);
  see section 8.
* A refused user is asked to try again with both buttons hidden (AR:121).
* In the contact manager: adding and then removing at once ends the app or removes
  another entry, as the directory is not loaded again; a directory of only deleted
  entries never shows the table (CMG:118); an older load's answer hides a friend just
  added (CMG:150).

## 8. What is not modelled

* `ContactPicker`, `Keypad`, `Camera`: section 2 says why they come last.
* The rest of the vendored code.  It is most of the repository's lines (BoringSSL, gRPC,
  LevelDB, Protobuf, the generated parts of Firebase), and third-party: its cryptography,
  transport and storage are taken to do what the Firestore client asks of them, as external
  definitions.  Of the Firestore client the paths of writes and listeners are modelled, as the
  app's guarantees rest on them; transactions, persistence to memory only, garbage
  collection of the cache and changes of the Firebase user are not, since the app uses none.
* Sending again, at the level of the app.  In `FirestoreWrites` a write is applied at least
  once; `BemaStore` applies and acknowledges in one step, as the chat rooms with both are
  beyond TLC.  What the app would see of it is that a `setData` of a message that is sent again
  erases a read mark made meanwhile, and an index that is sent again replaces a newer one.
* Several devices of one user, outside `Session`: elsewhere `User` is a device.  The application stores the signed-in
  user per device and nothing else there.
* Texts, pictures, amounts, layout, keyboard, navigation, wording.
* Audio samples, GIFs, photos, live photos and orientation of ARVideoKit.
* Firestore's own failures: rules that refuse a write, quotas, conflicts of
  transactions (none are used).  The `Users` collection is fixed in `Directory`.
* A message composed on one device is never rejected, and a picture that is stored in
  Storage but whose URL is not answered counts as failed.

## 9. Running it

    tlc -workers 2 -config ChatRoomCrashes.cfg MCChatRoom.tla
    tlapm ChatRoomProofs.tla

`PROJECT.json` names the module and the configuration of each run.  Every run ends
within about four minutes on two workers; the proofs take some ten minutes
together.
