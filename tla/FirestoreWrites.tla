--------------------------- MODULE FirestoreWrites ---------------------------
(***************************************************************************)
(* How the Firestore client of one device gets the writes of the app to    *)
(* the backend: SyncEngine, LocalStore, the mutation queue in LevelDB,     *)
(* RemoteStore and its WriteStream.                                        *)
(*                                                                         *)
(* Everything but the calls of the app runs on one serial worker queue, so *)
(* each handler is one action.  The process may end between any two of     *)
(* them.  A stream may break at any time, with requests and responses      *)
(* under way.                                                              *)
(*                                                                         *)
(* Simplifications:                                                        *)
(*   - one user: the app never signs in to Firebase;                       *)
(*   - every write replaces the same document, so that the order in which  *)
(*     the backend applies the writes can be seen;                         *)
(*   - a request does not outlive its stream in the backend;               *)
(*   - the stream token is stored but never sent, and is left out;         *)
(*   - delays (backoff, idle) are steps that may come at any time.         *)
(***************************************************************************)
EXTENDS Naturals, SequencesExt

CONSTANTS
  MaxWrites,           \* bound: calls of the app in one behaviour
  kMaxPendingWrites    \* the capacity of the write pipeline

ASSUME MaxWritesAssumption == MaxWrites \in Nat
ASSUME PendingAssumption == kMaxPendingWrites \in Nat \ {0}

VARIABLES
  issued,         \* how many writes the app has issued
  calls,          \* the writes the worker queue has not run yet
  queue,          \* the mutation batches on the disk, by batch id
  nextBatchId,    \* next_batch_id_ of the mutation queue
  callbacks,      \* mutation_callbacks_: the batches the app waits for
  pipeline,       \* write_pipeline_
  stream,         \* state_ of the write stream
  handshake,      \* handshake_complete_
  tokens,         \* requests for credentials: of this start or an earlier one
  idle,           \* the idle timer of the stream is set
  enabled,        \* is_network_enabled_
  running,        \* the app's process is alive
  requests,       \* sent on this stream, not served yet
  responses,      \* sent by the backend, not read yet
  refused,        \* the backend has ended the stream over a request
  latest,         \* the write the document of the backend holds, 0 at first
  acknowledged    \* the writes whose acknowledgement the client has read

app     == <<issued, calls, running>>
disk    == <<queue, nextBatchId>>
network == <<requests, responses, refused>>
conn    == <<stream, handshake, tokens, idle>>
vars == <<app, disk, callbacks, pipeline, conn, enabled, network, latest,
          acknowledged>>

Write == 1 .. MaxWrites
Batch == [id : Nat \ {0}, write : Write]

\* The first request of a stream, and its answer.
Hello == [id |-> 0, write |-> 0]

Started == {"Starting", "Open", "Backoff"}

-----------------------------------------------------------------------------
(* The mutation queue and the pipeline.                                    *)

\* How many batches of q have an id up to that of the last batch of p: where
\* GetNextMutationBatch goes on.
Passed(q, p) ==
  IF p = <<>> THEN 0
  ELSE CHOOSE n \in 0 .. Len(q) :
         /\ \A i \in 1 .. n : q[i].id <= p[Len(p)].id
         /\ \A i \in n + 1 .. Len(q) : q[i].id > p[Len(p)].id

\* The batches that FillWritePipeline adds to the pipeline p from the queue q.
NextBatches(q, p) ==
  LET from == Passed(q, p)
      room == kMaxPendingWrites - Len(p)
      to   == IF from + room < Len(q) THEN from + room ELSE Len(q)
  IN  SubSeq(q, from + 1, to)

\* Mutant: ids are counted, though the oldest batches are gone.
LoadBatchCount(q) == Len(q) + 1

\* next_batch_id_ after a start: one more than the largest id on the disk.
LoadNextBatchId(q) == IF q = <<>> THEN 1 ELSE q[Len(q)].id + 1

\* RemoveMutationBatch: the batch with this id is deleted.
Without(q, id) ==
  LET n == CHOOSE i \in 1 .. Len(q) : q[i].id = id
  IN  SubSeq(q, 1, n - 1) \o SubSeq(q, n + 1, Len(q))

\* The callbacks of the batch with this id.
Waiting(id) == {b \in callbacks : b.id = id}

-----------------------------------------------------------------------------
(* The stream.                                                             *)

\* A stream that is closed invalidates the credentials it has asked for.
Stale(t) == IF t = {} THEN {} ELSE {"stale"}

\* Mutant: a stream that had an error is not started again.
StartIfNeededOnce(p, s, t) ==
  LET start == enabled' /\ s = "Initial" /\ p # <<>>
  IN  /\ pipeline' = p
      /\ stream' = IF start THEN "Starting" ELSE s
      /\ tokens' = IF start THEN t \cup {"current"} ELSE t

\* The pipeline becomes p.  A stream in the state s, with the requests t for
\* credentials, is started if there is something to write, after a backoff if
\* it had an error.
StartIfNeeded(p, s, t) ==
  LET start == enabled' /\ s \notin Started /\ p # <<>>
  IN  /\ pipeline' = p
      /\ stream' = IF ~start THEN s ELSE IF s = "Error" THEN "Backoff"
                                                       ELSE "Starting"
      /\ tokens' = IF start /\ s # "Error" THEN t \cup {"current"} ELSE t

\* What FillWritePipeline adds.
Added(q, p) == IF enabled' THEN NextBatches(q, p) ELSE <<>>

\* Mutant: the handshake is not waited for.
FillWritePipelineEarly(q, p) ==
  LET new == Added(q, p)
      sending == stream = "Open" /\ new # <<>>
  IN  /\ StartIfNeeded(p \o new, stream, tokens)
      /\ requests' = IF sending THEN requests \o new ELSE requests
      /\ idle' = IF sending THEN FALSE
                 ELSE idle \/ (stream = "Open" /\ enabled' /\ p \o new = <<>>)

\* FillWritePipeline of the queue q and the pipeline p, on the stream as it is.
FillWritePipeline(q, p) ==
  LET new == Added(q, p)
      sending == stream = "Open" /\ handshake /\ new # <<>>
  IN  /\ StartIfNeeded(p \o new, stream, tokens)
      /\ requests' = IF sending THEN requests \o new ELSE requests
      /\ idle' = IF sending THEN FALSE
                 ELSE idle \/ (stream = "Open" /\ enabled' /\ p \o new = <<>>)

\* Mutant: responses of the old stream are read on the new one.
ClosedResponsesKept ==
  /\ requests' = <<>>
  /\ responses' = responses
  /\ refused' = FALSE
  /\ handshake' = FALSE
  /\ idle' = FALSE

\* What is left of a stream that is closed, in either way.
Closed ==
  /\ requests' = <<>>
  /\ responses' = <<>>
  /\ refused' = FALSE
  /\ handshake' = FALSE
  /\ idle' = FALSE

-----------------------------------------------------------------------------
Init ==
  /\ issued = 0
  /\ calls = <<>>
  /\ queue = <<>>
  /\ nextBatchId = 1
  /\ callbacks = {}
  /\ pipeline = <<>>
  /\ stream = "Initial"
  /\ handshake = FALSE
  /\ tokens = {}
  /\ idle = FALSE
  /\ enabled = TRUE
  /\ running = TRUE
  /\ requests = <<>>
  /\ responses = <<>>
  /\ refused = FALSE
  /\ latest = 0
  /\ acknowledged = {}

\* The app calls setData or updateData: the worker queue has one task more.
CallWrite ==
  /\ running
  /\ issued < MaxWrites
  /\ issued' = issued + 1
  /\ calls' = Append(calls, issued + 1)
  /\ UNCHANGED <<running, disk, callbacks, pipeline, conn, enabled, network,
                 latest, acknowledged>>

\* The worker runs the oldest call: the batch is on the disk, its callback is
\* kept, and the pipeline is filled.
WriteMutations ==
  /\ running
  /\ calls # <<>>
  /\ LET batch == [id |-> nextBatchId, write |-> Head(calls)]
     IN  /\ calls' = Tail(calls)
         /\ queue' = Append(queue, batch)
         /\ nextBatchId' = nextBatchId + 1
         /\ callbacks' = callbacks \cup {batch}
  /\ UNCHANGED <<issued, running, enabled, handshake, responses, refused,
                 latest, acknowledged>>
  /\ FillWritePipeline(queue', pipeline)

\* Credentials arrive.  Those of an earlier start are thrown away; with those
\* of this start the stream opens at once and sends its first request.
TokenArrives(t) ==
  /\ running
  /\ t \in tokens
  /\ tokens' = tokens \ {t}
  /\ IF t = "current"
     THEN stream' = "Open" /\ requests' = <<Hello>>
     ELSE UNCHANGED <<stream, requests>>
  /\ UNCHANGED <<app, disk, callbacks, pipeline, handshake, idle, enabled,
                 responses, refused, latest, acknowledged>>

\* The stream ends with an error.  A permanent error after the handshake
\* rejects the batch at the front of the pipeline; any other error changes
\* nothing but the stream.
OnStreamFinish(permanent, t) ==
  /\ IF permanent /\ handshake /\ pipeline # <<>>
     THEN LET id == Head(pipeline).id
              q  == Without(queue, id)
              p  == Tail(pipeline)
          IN  /\ queue' = q
              /\ callbacks' = callbacks \ Waiting(id)
              /\ StartIfNeeded(p \o Added(q, p), "Initial", Stale(t))
     ELSE /\ UNCHANGED <<queue, callbacks>>
          /\ StartIfNeeded(pipeline, "Error", Stale(t))
  /\ Closed
  /\ UNCHANGED <<app, nextBatchId, latest, acknowledged>>

\* No credentials: the stream fails before it is open.
TokenFails ==
  /\ running
  /\ "current" \in tokens
  /\ UNCHANGED enabled
  /\ OnStreamFinish(FALSE, tokens \ {"current"})

\* An open stream fails: the connection breaks, the reachability of the network
\* changes, or the backend ends it with an error that is worth a retry.
\* Responses that were not read are lost.
StreamBreaks ==
  /\ running
  /\ stream = "Open"
  /\ UNCHANGED enabled
  /\ OnStreamFinish(FALSE, tokens)

\* The client learns that the backend has refused a request.  A write that
\* fails before the responses are all read finishes the call too: they are
\* lost, and the error is taken for one of the front of the pipeline.
StreamRefused ==
  /\ running
  /\ stream = "Open"
  /\ refused
  /\ UNCHANGED enabled
  /\ OnStreamFinish(TRUE, tokens)

BackoffElapses ==
  /\ running
  /\ stream = "Backoff"
  /\ stream' = "Starting"
  /\ tokens' = tokens \cup {"current"}
  /\ UNCHANGED <<app, disk, callbacks, pipeline, handshake, idle, enabled,
                 network, latest, acknowledged>>

\* The answer to the first request: the whole pipeline is sent.
OnWriteStreamHandshakeComplete ==
  /\ running
  /\ responses # <<>>
  /\ ~handshake
  /\ responses' = Tail(responses)
  /\ handshake' = TRUE
  /\ requests' = requests \o pipeline
  /\ idle' = (idle /\ pipeline = <<>>)
  /\ UNCHANGED <<app, disk, callbacks, pipeline, stream, tokens, enabled,
                 refused, latest, acknowledged>>

\* Any other response acknowledges the batch at the front of the pipeline.
OnWriteStreamMutationResult ==
  /\ running
  /\ responses # <<>>
  /\ handshake
  /\ pipeline # <<>>
  /\ LET batch == Head(pipeline)
     IN  /\ queue' = Without(queue, batch.id)
         /\ callbacks' = callbacks \ Waiting(batch.id)
         /\ acknowledged' = acknowledged \cup {batch.write}
  /\ responses' = Tail(responses)
  /\ UNCHANGED <<app, nextBatchId, handshake, enabled, refused, latest>>
  /\ FillWritePipeline(queue', Tail(pipeline))

\* The idle timer fires: the stream is stopped.
IdleTimeout ==
  /\ running
  /\ idle
  /\ stream' = "Initial"
  /\ tokens' = Stale(tokens)
  /\ Closed
  /\ UNCHANGED <<app, disk, callbacks, pipeline, enabled, latest,
                 acknowledged>>

\* Both streams are stopped and the pipeline is emptied.
DisableNetwork ==
  /\ running
  /\ enabled' = FALSE
  /\ pipeline' = <<>>
  /\ stream' = IF stream \in Started THEN "Initial" ELSE stream
  /\ tokens' = IF stream \in Started THEN Stale(tokens) ELSE tokens
  /\ Closed
  /\ UNCHANGED <<app, disk, callbacks, latest, acknowledged>>

EnableNetwork ==
  /\ running
  /\ enabled' = TRUE
  /\ UNCHANGED <<app, disk, callbacks, handshake, responses, refused, latest,
                 acknowledged>>
  /\ FillWritePipeline(queue, pipeline)

\* Mutant: the newest batch was not on the disk yet.
CrashLosesBatch ==
  /\ running
  /\ queue # <<>>
  /\ running' = FALSE
  /\ queue' = Front(queue)
  /\ calls' = <<>>
  /\ callbacks' = {}
  /\ pipeline' = <<>>
  /\ stream' = "Initial"
  /\ tokens' = {}
  /\ enabled' = FALSE
  /\ Closed
  /\ UNCHANGED <<issued, nextBatchId, latest, acknowledged>>

\* The process ends: only the disk is left of the device.
Crash ==
  /\ running
  /\ running' = FALSE
  /\ calls' = <<>>
  /\ callbacks' = {}
  /\ pipeline' = <<>>
  /\ stream' = "Initial"
  /\ tokens' = {}
  /\ enabled' = FALSE
  /\ Closed
  /\ UNCHANGED <<issued, disk, latest, acknowledged>>

\* The process starts: LocalStore, then RemoteStore, which fills its pipeline.
Initialize ==
  /\ ~running
  /\ running' = TRUE
  /\ enabled' = TRUE
  /\ nextBatchId' = LoadNextBatchId(queue)
  /\ UNCHANGED <<issued, calls, queue, callbacks, handshake, responses,
                 refused, latest, acknowledged>>
  /\ FillWritePipeline(queue, <<>>)

-----------------------------------------------------------------------------
(* The backend, from how the client uses it.                               *)

\* It serves the requests of a stream in order.
Serve ==
  /\ requests # <<>>
  /\ ~refused
  /\ requests' = Tail(requests)
  /\ responses' = Append(responses, Head(requests))
  /\ latest' = IF Head(requests) = Hello THEN latest ELSE Head(requests).write
  /\ UNCHANGED <<app, disk, callbacks, pipeline, conn, enabled, refused,
                 acknowledged>>

\* It ends the stream over a request that it will never accept.
Refuse ==
  /\ requests # <<>>
  /\ ~refused
  /\ refused' = TRUE
  /\ UNCHANGED <<app, disk, callbacks, pipeline, conn, enabled, requests,
                 responses, latest, acknowledged>>

-----------------------------------------------------------------------------
Client ==
  \/ WriteMutations \/ TokenArrives("current") \/ TokenArrives("stale")
  \/ TokenFails \/ StreamBreaks \/ StreamRefused \/ BackoffElapses
  \/ OnWriteStreamHandshakeComplete \/ OnWriteStreamMutationResult
  \/ IdleTimeout \/ DisableNetwork \/ EnableNetwork \/ Initialize

Next == CallWrite \/ Client \/ Crash \/ Serve \/ Refuse

Spec == Init /\ [][Next]_vars

\* The worker queue runs what it holds and its timers elapse.  The network is
\* not reliable, but answers that are possible again and again are got: of the
\* credentials, of the handshake, and of a write.
Fairness ==
  /\ WF_vars(WriteMutations)
  /\ WF_vars(BackoffElapses)
  /\ SF_vars(TokenArrives("current"))
  /\ SF_vars(OnWriteStreamHandshakeComplete)
  /\ SF_vars(OnWriteStreamMutationResult)
  /\ SF_vars(Serve /\ handshake)
  /\ SF_vars(Serve /\ ~handshake)
  /\ WF_vars(StreamRefused)

FairSpec == Spec /\ Fairness

-----------------------------------------------------------------------------
(* Properties.                                                             *)

TypeOK ==
  /\ issued \in 0 .. MaxWrites
  /\ calls \in Seq(Write)
  /\ queue \in Seq(Batch)
  /\ nextBatchId \in Nat \ {0}
  /\ callbacks \subseteq Batch
  /\ pipeline \in Seq(Batch)
  /\ stream \in {"Initial", "Error"} \cup Started
  /\ handshake \in BOOLEAN
  /\ tokens \subseteq {"current", "stale"}
  /\ idle \in BOOLEAN
  /\ enabled \in BOOLEAN
  /\ running \in BOOLEAN
  /\ requests \in Seq(Batch \cup {Hello})
  /\ responses \in Seq(Batch \cup {Hello})
  /\ refused \in BOOLEAN
  /\ latest \in 0 .. MaxWrites
  /\ acknowledged \subseteq Write

\* The pipeline holds the oldest batches of the queue, as many as it may while
\* the network is enabled: no batch is skipped, sent out of turn, or left
\* behind when a slot is free.
PipelineIsPrefix ==
  /\ IsPrefix(pipeline, queue)
  /\ Len(pipeline) = IF ~enabled THEN 0
                     ELSE IF Len(queue) < kMaxPendingWrites THEN Len(queue)
                     ELSE kMaxPendingWrites

\* A response is correlated with the front of the pipeline by nothing but its
\* position.  What the stream has under way is what the pipeline holds, in the
\* same order, so that no result comes for an empty pipeline or for another
\* batch.
ResponsesMatch ==
  responses \o requests =
    IF stream # "Open" THEN <<>> ELSE IF handshake THEN pipeline ELSE <<Hello>>

\* The stream is never stopped for being idle while something waits in the
\* pipeline, nor the idle timer left on a stream that is not open.
IdleMeansDrained == idle => stream = "Open" /\ handshake /\ pipeline = <<>>

\* Credentials of this start find a stream that still waits for them, and a
\* stream that starts does wait for some.
StartingWaits == stream = "Starting" <=> "current" \in tokens

\* While the app runs, its callbacks are those of batches that are still
\* queued: none is forgotten when its batch leaves, and none would be run by
\* a later batch with the same id.
CallbacksAreQueued ==
  \A b \in callbacks : \E i \in 1 .. Len(queue) : queue[i] = b

\* However often streams break and writes are sent again, the backend never
\* goes back behind a write whose acknowledgement the client has read.
NeverBehind == \A w \in acknowledged : w <= latest

\* The queue of the abstract device: what is on the disk, then what is not.
Outbox == [i \in 1 .. Len(queue) |-> queue[i].write] \o calls

Applied == IF handshake THEN Len(responses) ELSE 0

Confirmed ==
  IF acknowledged = {} THEN 0
  ELSE CHOOSE w \in acknowledged : \A v \in acknowledged : v <= w

Abstract == INSTANCE WriteQueue WITH
  outbox <- Outbox, saved <- Len(queue), applied <- Applied,
  confirmed <- Confirmed

\* The client is a queue whose oldest writes are applied at least once.
IsWriteQueue == Abstract!Spec

Saved(w) == \E i \in 1 .. Len(queue) : queue[i].write = w

\* A write that is on the disk is acknowledged or refused in the end, if the
\* network is enabled again and again.
SavedWritesLeave ==
  []<>enabled => \A w \in Write : Saved(w) ~> ~Saved(w)

=============================================================================
