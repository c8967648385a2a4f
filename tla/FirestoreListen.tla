--------------------------- MODULE FirestoreListen ---------------------------
(***************************************************************************)
(* How the Firestore client of one device keeps the listeners of the app   *)
(* up to date: EventManager with its QueryListeners, SyncEngine with the   *)
(* View of the query, LocalStore with its caches in LevelDB, RemoteStore   *)
(* with the watch stream, WatchChangeAggregator and OnlineStateTracker.    *)
(*                                                                         *)
(* One query is listened to, by several listeners that are never removed.  *)
(* Its documents are written by this device, whose writes are shown before *)
(* the backend has them, and by others.  Each handler runs on the worker   *)
(* queue and is one action.                                                *)
(*                                                                         *)
(* Simplifications:                                                        *)
(*   - nobody deletes a document and no write moves one out of the query   *)
(*     (the app does neither), so that the backend removes nothing from    *)
(*     the target; existence filters, resets and errors of a target are    *)
(*     left out with it;                                                   *)
(*   - a write is issued and saved in one step, and the write stream is    *)
(*     that of WriteQueue (FirestoreWrites implements it);                 *)
(*   - a stream that waits for credentials or for its backoff is Starting. *)
(***************************************************************************)
EXTENDS Naturals, FiniteSetsExt, SequencesExt

CONSTANTS
  Doc,           \* documents that match the query
  Outside,       \* a document that does not
  Listener,      \* the listeners the app may add
  MaxWrites,     \* bound: writes in one behaviour, of this device or another
  MaxVersions,   \* bound: versions of the backend in one behaviour
  Stamped        \* the writes with a server timestamp: until it is known their
                 \* data differs from what the backend will hold

ASSUME OutsideAssumption == Outside \notin Doc
ASSUME MaxWritesAssumption == MaxWrites \in Nat
ASSUME MaxVersionsAssumption == MaxVersions \in Nat \ {0}

VARIABLES
  history,    \* the versions of the backend: the document and the write of each
  issued,     \* how many writes there are, of this device or another
  refused,    \* the writes the backend has refused
  \* The disk of the device.
  cache,      \* remote_document_cache_: version (0: none) and committed flag
  lastRemoteSnapshotVersion,
  keys,       \* the keys the query cache matches to the target
  savedToken, \* the resume token of the target, 0 if it has none
  queue,      \* its writes that are neither acknowledged nor refused
  \* The write stream.
  applied,    \* the versions of the oldest of them, not heard of yet
  \* The process.
  running,
  view,       \* document_set_ of the view: write (0: absent) and local flag
  current,    \* current_ of the view
  synced,     \* synced_documents_ of the view
  token,      \* the resume token in memory
  listening,  \* the listeners that were added
  raised,     \* those that had their first event
  shown,      \* shown[l]: the documents of the last event of l
  onlineState,
  failures,   \* watch_stream_failures_
  timer,      \* online_state_timer_ is set
  watch,      \* the watch stream
  pending,    \* outstanding_responses_ of the target
  marked,     \* current_ of the target state
  updates,    \* pending_document_updates_: the version of each, 0 for none
  \* The backend's side of the watch stream.
  target,     \* the target: not asked for, asked for, added, current
  sent,       \* the version up to which the target was sent
  inbox       \* the responses the client has not read

backend    == <<history, issued, refused>>
docCache   == <<cache, lastRemoteSnapshotVersion, keys, savedToken>>
queryView  == <<view, current, synced>>
events     == <<listening, raised, shown>>
online     == <<onlineState, failures, timer>>
aggregator == <<pending, marked, updates>>
stream     == <<watch, aggregator, target, sent, inbox>>
vars == <<backend, docCache, queue, applied, running, queryView, token, events,
          online, stream>>

Version == 0 .. MaxVersions
Write   == 0 .. MaxWrites
ViewDoc == [write : Write, local : BOOLEAN]
Absent  == [write |-> 0, local |-> FALSE]

Pending(q) == {q[i].doc : i \in 1 .. Len(q)}

\* The newest version of a document up to version v, 0 if there is none.
VersionOf(d, v) == Max({n \in 1 .. v : history[n].doc = d} \cup {0})

WriteOf(v) == IF v = 0 THEN 0 ELSE history[v].write

-----------------------------------------------------------------------------
(* The local view: the cache under the writes that are queued.             *)

\* A document as LocalDocumentsView returns it.
LocalDoc(d, q, c) ==
  IF d \in Pending(q)
  THEN [write |-> q[Max({i \in 1 .. Len(q) : q[i].doc = d})].write,
        local |-> TRUE]
  ELSE [write |-> WriteOf(c[d].version), local |-> FALSE]

\* Document::data, compared: the estimate of a timestamp is not its value.
SameData(x, y) ==
  /\ x.write = y.write
  /\ x.write \in Stamped => x.local = y.local

\* Mutant: any local document is kept.
ShouldWaitAlways(d, new, c) ==
  /\ view[d].local
  /\ ~new.local
  /\ new.write # 0

\* ShouldWaitForSyncedDocument, and with equal data the same outcome: a local
\* document whose write was acknowledged is kept until the backend sends it.
ShouldWait(d, new, c) ==
  /\ view[d].local
  /\ ~new.local
  /\ new.write # 0
  /\ c[d].committed

\* The document set of the view after changes to the documents D.
ComputeDocumentChanges(D, q, c) ==
  [d \in Doc |->
     LET new == LocalDoc(d, q, c)
     IN  IF d \notin D \/ ShouldWait(d, new, c) THEN view[d] ELSE new]

\* Documents of a view v that are neither the backend's nor written here.
LimboDocuments(v, s) ==
  {d \in Doc : v[d].write # 0 /\ ~v[d].local /\ d \notin s}

FromCache(v, c, s) == ~c \/ LimboDocuments(v, s) # {}

-----------------------------------------------------------------------------
(* Events.                                                                 *)

\* Whether a listener gets its first event from these documents.
ShouldRaiseInitialEvent(v, fromCache, state) ==
  ~fromCache \/ state = "Offline" \/ \E d \in Doc : v[d].write # 0

\* OnViewSnapshots after ApplyChanges: v are the documents of the view, c and
\* s are current_ and synced_documents_.  A change of nothing but metadata
\* raises no event.
ApplyChanges(v, c, s) ==
  LET initial == ShouldRaiseInitialEvent(v, FromCache(v, c, s), onlineState)
      visible == \E d \in Doc : ~SameData(view[d], v[d])
      event   == {l \in listening : IF l \in raised THEN visible ELSE initial}
  IN  /\ view' = v
      /\ current' = c
      /\ synced' = s
      /\ raised' = raised \cup event
      /\ shown' = [l \in Listener |-> IF l \in event THEN v ELSE shown[l]]
      /\ UNCHANGED listening

\* Mutant: the listeners are not told.
SetAndBroadcastToViews(state) ==
  /\ onlineState' = state
  /\ current' = (current /\ state # "Offline")
  /\ UNCHANGED <<view, synced, events>>

\* SetAndBroadcast: a view is not current while the client is offline, and a
\* listener without an event does not wait any longer.
SetAndBroadcast(state) ==
  /\ onlineState' = state
  /\ IF state = "Offline"
     THEN /\ current' = FALSE
          /\ raised' = listening
          /\ shown' = [l \in Listener |->
                         IF l \in listening \ raised THEN view ELSE shown[l]]
     ELSE UNCHANGED <<current, raised, shown>>
  /\ UNCHANGED <<view, synced, listening>>

-----------------------------------------------------------------------------
(* The watch stream.                                                       *)

\* Mutant: the aggregator outlives its stream.
NoStreamKeepsAggregator ==
  /\ UNCHANGED aggregator
  /\ target' = "none"
  /\ sent' = 0
  /\ inbox' = <<>>

\* The messages of a stream that is not there, and a new aggregator.
NoStream ==
  /\ pending' = 0
  /\ marked' = FALSE
  /\ updates' = [d \in Doc |-> 0]
  /\ target' = "none"
  /\ sent' = 0
  /\ inbox' = <<>>

Message == [kind : {"Added", "Document", "Current", "Snapshot"},
            doc : Doc \cup {Outside}, version : Version]

TargetMessage(kind, v) == [kind |-> kind, doc |-> Outside, version |-> v]

DocumentMessage(d, v) == [kind |-> "Document", doc |-> d, version |-> v]

-----------------------------------------------------------------------------
\* Version 1 is older than every document of the query.
Init ==
  /\ history = <<[doc |-> Outside, write |-> 0]>>
  /\ issued = 0
  /\ refused = {}
  /\ cache = [d \in Doc |-> [version |-> 0, committed |-> FALSE]]
  /\ lastRemoteSnapshotVersion = 0
  /\ keys = {}
  /\ savedToken = 0
  /\ queue = <<>>
  /\ applied = <<>>
  /\ running = TRUE
  /\ view = [d \in Doc |-> Absent]
  /\ current = FALSE
  /\ synced = {}
  /\ token = 0
  /\ listening = {}
  /\ raised = {}
  /\ shown = [l \in Listener |-> [d \in Doc |-> Absent]]
  /\ onlineState = "Unknown"
  /\ failures = 0
  /\ timer = FALSE
  /\ watch = "Initial"
  /\ pending = 0
  /\ marked = FALSE
  /\ updates = [d \in Doc |-> 0]
  /\ target = "none"
  /\ sent = 0
  /\ inbox = <<>>

\* Bound: the backend has room for n versions beside the queued writes.
Room(n) == Len(history) + Len(queue) - Len(applied) + n <= MaxVersions

\* The first listener allocates the target, makes the view from what the
\* disk holds, and has the watch stream started.
Listen(l) ==
  /\ running
  /\ listening = {}
  /\ listening' = {l}
  /\ view' = [d \in Doc |-> LocalDoc(d, queue, cache)]
  /\ current' = FALSE
  /\ synced' = keys
  /\ token' = savedToken
  /\ raised' = IF ShouldRaiseInitialEvent(view', TRUE, onlineState)
               THEN {l} ELSE {}
  /\ shown' = [shown EXCEPT ![l] = view']
  /\ watch' = "Starting"
  /\ timer' = TRUE
  /\ UNCHANGED <<backend, docCache, queue, applied, running, onlineState,
                 failures, aggregator, target, sent, inbox>>

\* Any other listener begins with the snapshot the first one has had.
AddQueryListener(l) ==
  /\ listening # {}
  /\ l \notin listening
  /\ listening' = listening \cup {l}
  /\ IF ShouldRaiseInitialEvent(view, FromCache(view, current, synced),
                                onlineState)
     THEN /\ raised' = raised \cup {l}
          /\ shown' = [shown EXCEPT ![l] = view]
     ELSE UNCHANGED <<raised, shown>>
  /\ UNCHANGED <<backend, docCache, queue, applied, running, queryView, token,
                 online, stream>>

\* A write of this device: it is on the disk and shown before it is sent.
WriteMutations(d) ==
  /\ running
  /\ issued < MaxWrites
  /\ Room(1)
  /\ issued' = issued + 1
  /\ queue' = Append(queue, [doc |-> d, write |-> issued + 1])
  /\ IF listening = {} THEN UNCHANGED <<queryView, events>>
     ELSE ApplyChanges(ComputeDocumentChanges({d}, queue', cache), current,
                       synced)
  /\ UNCHANGED <<history, refused, docCache, applied, running, token, online,
                 stream>>

\* The backend has stored the oldest write.  Its version goes to the cache,
\* unless the watch stream was faster.
HandleSuccessfulWrite ==
  /\ running
  /\ applied # <<>>
  /\ LET d == Head(queue).doc
     IN  /\ cache' = IF cache[d].version < Head(applied)
                     THEN [cache EXCEPT ![d] = [version |-> Head(applied),
                                                committed |-> TRUE]]
                     ELSE cache
         /\ queue' = Tail(queue)
         /\ IF listening = {} THEN UNCHANGED <<queryView, events>>
            ELSE ApplyChanges(ComputeDocumentChanges({d}, queue', cache'),
                              current, synced)
  /\ applied' = Tail(applied)
  /\ UNCHANGED <<backend, lastRemoteSnapshotVersion, keys, savedToken, running,
                 token, online, stream>>

\* The backend will not take the oldest write, or the client believes so.
HandleRejectedWrite ==
  /\ running
  /\ queue # <<>>
  /\ Room(Len(applied))
  /\ LET d == Head(queue).doc
     IN  /\ queue' = Tail(queue)
         /\ refused' = refused \cup {Head(queue).write}
         /\ IF listening = {} THEN UNCHANGED <<queryView, events>>
            ELSE ApplyChanges(ComputeDocumentChanges({d}, queue', cache),
                              current, synced)
  /\ applied' = <<>>
  /\ UNCHANGED <<history, issued, docCache, running, token, online, stream>>

\* The watch stream opens and the target is asked for, from its token on.
OnWatchStreamOpen ==
  /\ watch = "Starting"
  /\ watch' = "Open"
  /\ pending' = pending + 1
  /\ target' = "requested"
  /\ sent' = token
  /\ UNCHANGED <<backend, docCache, queue, applied, running, queryView, token,
                 events, online, marked, updates, inbox>>

\* Mutant: the timer is only set by the first start of all.
OnWatchStreamCloseNoTimer ==
  /\ watch # "Initial"
  /\ watch' = "Starting"
  /\ NoStream
  /\ IF onlineState = "Online"
     THEN /\ SetAndBroadcast("Unknown")
          /\ timer' = FALSE
          /\ UNCHANGED failures
     ELSE /\ SetAndBroadcast("Offline")
          /\ failures' = 1
          /\ timer' = FALSE
  /\ UNCHANGED <<backend, docCache, queue, applied, running, token>>

\* It fails, and is started again at once.  A second failure in a row, without
\* a message between, sets the client offline; only the first start after a
\* message sets the timer.
OnWatchStreamClose ==
  /\ watch # "Initial"
  /\ watch' = "Starting"
  /\ NoStream
  /\ IF onlineState = "Online"
     THEN /\ SetAndBroadcast("Unknown")
          /\ timer' = TRUE
          /\ UNCHANGED failures
     ELSE /\ SetAndBroadcast("Offline")
          /\ failures' = 1
          /\ timer' = FALSE
  /\ UNCHANGED <<backend, docCache, queue, applied, running, token>>

\* No message within the time: the client is offline.
OnlineStateTimeout ==
  /\ timer
  /\ timer' = FALSE
  /\ SetAndBroadcast("Offline")
  /\ UNCHANGED <<backend, docCache, queue, applied, running, token, failures,
                 stream>>

\* What every message begins with: UpdateState(Online).
Receive(kind) ==
  /\ inbox # <<>>
  /\ Head(inbox).kind = kind
  /\ inbox' = Tail(inbox)
  /\ timer' = FALSE
  /\ failures' = 0
  /\ onlineState' = "Online"

TargetAdded ==
  /\ Receive("Added")
  /\ pending' = pending - 1
  /\ UNCHANGED <<backend, docCache, queue, applied, running, queryView, token,
                 events, marked, updates, watch, target, sent>>

HandleDocumentChange ==
  /\ Receive("Document")
  /\ updates' = IF pending = 0
                THEN [updates EXCEPT ![Head(inbox).doc] = Head(inbox).version]
                ELSE updates
  /\ UNCHANGED <<backend, docCache, queue, applied, running, queryView, token,
                 events, pending, marked, watch, target, sent>>

\* Mutant: the token counts as soon as it arrives.
TargetCurrentToken ==
  /\ Receive("Current")
  /\ marked' = (pending = 0 \/ marked)
  /\ token' = Head(inbox).version
  /\ UNCHANGED <<backend, docCache, queue, applied, running, queryView, events,
                 pending, updates, watch, target, sent>>

TargetCurrent ==
  /\ Receive("Current")
  /\ marked' = (pending = 0 \/ marked)
  /\ UNCHANGED <<backend, docCache, queue, applied, running, queryView, token,
                 events, pending, updates, watch, target, sent>>

\* Mutant: the watch stream is always right.
AcceptedAlways(d) == updates[d] # 0

\* Mutant: the version of an acknowledgement is never sent again.
AcceptedNewer(d) == updates[d] > cache[d].version

\* Whether a document of a snapshot is newer than that in the cache.
Accepted(d) ==
  \/ updates[d] > cache[d].version
  \/ updates[d] = cache[d].version /\ cache[d].committed

\* A snapshot of the backend at version v: the documents received up to here
\* go to the cache, and the view is told.  A snapshot older than the last one
\* is not raised.  It comes after the answer to the request, so that the target
\* is active.  The token is saved with documents, or when it is old.
RaiseWatchSnapshot ==
  LET v    == Head(inbox).version
      docs == {d \in Doc : updates[d] # 0}
      new  == {d \in docs : Accepted(d)}
  IN  /\ Receive("Snapshot")
      /\ IF v < lastRemoteSnapshotVersion
         THEN UNCHANGED <<docCache, queryView, events, token, updates>>
         ELSE /\ lastRemoteSnapshotVersion' = v
              /\ cache' = [d \in Doc |->
                             IF d \in new
                             THEN [version |-> updates[d], committed |-> FALSE]
                             ELSE cache[d]]
              /\ keys' = keys \cup (docs \ synced)
              /\ token' = v
              /\ savedToken' \in IF token = 0 \/ docs # {} THEN {v}
                                 ELSE {v, savedToken}
              /\ updates' = [d \in Doc |-> 0]
              /\ ApplyChanges(ComputeDocumentChanges(new, queue, cache'),
                              marked, synced \cup docs)
      /\ UNCHANGED <<backend, queue, applied, running, pending, marked, watch,
                     target, sent>>

OnWatchStreamChange ==
  TargetAdded \/ HandleDocumentChange \/ TargetCurrent \/ RaiseWatchSnapshot

\* The process ends, its streams with it: the disk is left.
Crash ==
  /\ running
  /\ Room(Len(applied))
  /\ running' = FALSE
  /\ applied' = <<>>
  /\ view' = [d \in Doc |-> Absent]
  /\ current' = FALSE
  /\ synced' = {}
  /\ token' = 0
  /\ listening' = {}
  /\ raised' = {}
  /\ shown' = [l \in Listener |-> [d \in Doc |-> Absent]]
  /\ onlineState' = "Unknown"
  /\ failures' = 0
  /\ timer' = FALSE
  /\ watch' = "Initial"
  /\ NoStream
  /\ UNCHANGED <<backend, docCache, queue>>

Start ==
  /\ ~running
  /\ running' = TRUE
  /\ UNCHANGED <<backend, docCache, queue, applied, queryView, token, events,
                 online, stream>>

-----------------------------------------------------------------------------
(* The backend, from how the client uses it.                               *)

Store(d, w) == history' = Append(history, [doc |-> d, write |-> w])

\* It applies the oldest write of this device that it has not applied.
ApplyWrite ==
  /\ running
  /\ Len(applied) < Len(queue)
  /\ LET next == queue[Len(applied) + 1]
     IN  Store(next.doc, next.write)
  /\ applied' = Append(applied, Len(history'))
  /\ UNCHANGED <<issued, refused, docCache, queue, running, queryView, token,
                 events, online, stream>>

\* The write stream breaks: writes it has applied will be sent again.
LoseAnswers ==
  /\ applied # <<>>
  /\ Room(Len(applied))
  /\ applied' = <<>>
  /\ UNCHANGED <<backend, docCache, queue, running, queryView, token, events,
                 online, stream>>

\* Another device writes.
OtherWrite(d) ==
  /\ issued < MaxWrites
  /\ Room(1)
  /\ issued' = issued + 1
  /\ Store(d, issued + 1)
  /\ UNCHANGED <<refused, docCache, queue, applied, running, queryView, token,
                 events, online, stream>>

\* The target is added to the stream.
AddTarget ==
  /\ target = "requested"
  /\ target' = "added"
  /\ inbox' = Append(inbox, TargetMessage("Added", 0))
  /\ UNCHANGED <<backend, docCache, queue, applied, running, queryView, token,
                 events, online, aggregator, watch, sent>>

\* The documents that have changed since the last time, then, the first time,
\* that the target is current, and the version this is a snapshot of.
SendSnapshot ==
  LET v    == Len(history)
      docs == {d \in Doc : VersionOf(d, v) > sent}
      first == IF target = "added" THEN <<TargetMessage("Current", v)>>
                                   ELSE <<>>
  IN  /\ \/ target = "added"
         \/ target = "current" /\ v > sent
      /\ \A i \in 1 .. Len(inbox) : inbox[i].kind = "Added"
      /\ target' = "current"
      /\ sent' = v
      /\ inbox' = inbox
           \o [i \in 1 .. Cardinality(docs) |->
                 LET d == SetToSeq(docs)[i]
                 IN  DocumentMessage(d, VersionOf(d, v))]
           \o first \o <<TargetMessage("Snapshot", v)>>
      /\ UNCHANGED <<backend, docCache, queue, applied, running, queryView,
                     token, events, online, aggregator, watch>>

-----------------------------------------------------------------------------
Backend ==
  \/ ApplyWrite \/ AddTarget \/ SendSnapshot \/ \E d \in Doc : OtherWrite(d)

Client ==
  \/ \E l \in Listener : Listen(l) \/ AddQueryListener(l)
  \/ \E d \in Doc : WriteMutations(d)
  \/ HandleSuccessfulWrite \/ HandleRejectedWrite
  \/ OnWatchStreamOpen \/ OnWatchStreamChange \/ OnlineStateTimeout

Fault == OnWatchStreamClose \/ LoseAnswers \/ Crash \/ Start

Next == Backend \/ Client \/ Fault

Spec == Init /\ [][Next]_vars

\* The worker queue runs, timers elapse, and a backend that has answered goes
\* on, unless its stream breaks.
Fairness ==
  /\ WF_vars(HandleSuccessfulWrite)
  /\ WF_vars(OnWatchStreamChange)
  /\ WF_vars(OnlineStateTimeout)
  /\ WF_vars(SendSnapshot)

\* The backend can be reached.
Reachable ==
  /\ WF_vars(OnWatchStreamOpen)
  /\ WF_vars(AddTarget)
  /\ WF_vars(ApplyWrite)

FairSpec == Spec /\ Fairness

-----------------------------------------------------------------------------
(* Properties.                                                             *)

TypeOK ==
  /\ history \in Seq([doc : Doc \cup {Outside}, write : Write])
  /\ Len(history) \in 1 .. MaxVersions
  /\ issued \in Write
  /\ refused \subseteq Write
  /\ cache \in [Doc -> [version : Version, committed : BOOLEAN]]
  /\ lastRemoteSnapshotVersion \in Version
  /\ keys \subseteq Doc
  /\ savedToken \in Version
  /\ queue \in Seq([doc : Doc, write : Write])
  /\ applied \in Seq(Version)
  /\ running \in BOOLEAN
  /\ view \in [Doc -> ViewDoc]
  /\ current \in BOOLEAN
  /\ synced \subseteq Doc
  /\ token \in Version
  /\ listening \subseteq Listener
  /\ raised \subseteq listening
  /\ shown \in [Listener -> [Doc -> ViewDoc]]
  /\ onlineState \in {"Unknown", "Online", "Offline"}
  /\ failures \in 0 .. 1
  /\ timer \in BOOLEAN
  /\ watch \in {"Initial", "Starting", "Open"}
  /\ pending \in 0 .. 1
  /\ marked \in BOOLEAN
  /\ updates \in [Doc -> Version]
  /\ target \in {"none", "requested", "added", "current"}
  /\ sent \in Version
  /\ inbox \in Seq(Message)

\* The cache holds the backend as it was at the last snapshot, but for
\* documents that are newer: however messages are cut off by a broken stream,
\* acknowledged writes race the watch stream, and an old token is resumed, no
\* version up to that snapshot is missed or undone.
CacheHoldsSnapshot ==
  \A d \in Doc :
    /\ cache[d].version >= VersionOf(d, lastRemoteSnapshotVersion)
    /\ cache[d].version # 0 => history[cache[d].version].doc = d

\* The incremental view is what a query of the disk would return now, except
\* for a document whose acknowledged write is held back until it is sent.
ViewIsLocal ==
  listening # {} =>
    \A d \in Doc :
      \/ view[d] = LocalDoc(d, queue, cache)
      \/ view[d].local /\ cache[d].committed /\ d \notin Pending(queue)

\* All listeners have been told the same data, whenever they were added and
\* whatever events were left out, and who was told nothing has missed nothing.
ListenersAgree ==
  \A l \in listening, d \in Doc :
    IF l \in raised THEN SameData(shown[l][d], view[d])
    ELSE view[d] = Absent /\ FromCache(view, current, synced)
         /\ onlineState # "Offline"

\* Where a write w of d stands in the next state: in the order of the backend,
\* then in the queue.
NextPosition(d, w) ==
  Max({0} \cup {n \in 1 .. Len(history') :
                  history'[n].doc = d /\ history'[n].write = w}
          \cup {MaxVersions + i : i \in {j \in 1 .. Len(queue') :
                                         queue'[j].write = w}})

\* What a listener is shown of a document is never replaced by an older write,
\* unless the newer one was refused.
NeverBack ==
  [][\A l \in raised \cap raised', d \in Doc :
       LET old == shown[l][d].write
           new == shown'[l][d].write
       IN  new # old /\ old \notin refused'
             => NextPosition(d, new) > NextPosition(d, old)]_vars

UpToDate(l) ==
  /\ l \in raised
  /\ ~FromCache(view, current, synced)
  /\ \A d \in Doc :
       SameData(shown[l][d], [write |-> WriteOf(VersionOf(d, Len(history))),
                              local |-> FALSE])

\* Once the backend can be reached and nothing breaks any more, every listener
\* is shown what the backend holds, as a result that is not from the cache.
Converges ==
  Reachable /\ (<>[][~Fault]_vars) =>
    \A l \in Listener : <>[](l \in listening => UpToDate(l))

\* A listener gets its first event though the backend is never reached, and
\* however often the stream fails, as long as it does not break again and again
\* after a message and before a snapshot.
FirstEvent ==
  (<>[][~(OnWatchStreamClose /\ onlineState = "Online")]_vars) =>
    \A l \in Listener : l \in listening ~> l \in raised \/ ~running

=============================================================================
