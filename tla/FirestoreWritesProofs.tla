------------------------ MODULE FirestoreWritesProofs ------------------------
(***************************************************************************)
(* Proofs about FirestoreWrites, for every number of writes and every      *)
(* capacity of the pipeline.                                               *)
(***************************************************************************)
EXTENDS FirestoreWrites, SequenceTheorems, TLAPS

-----------------------------------------------------------------------------
(* The invariant.  Sequences are compared element by element.              *)

\* The pipeline of a queue: its oldest batches.
FullLen(q) == IF Len(q) < kMaxPendingWrites THEN Len(q) ELSE kMaxPendingWrites

Begins(p, q) ==
  /\ Len(p) <= Len(q)
  /\ \A i \in 1 .. Len(p) : p[i] = q[i]

Sorted(q) ==
  \A i, j \in 1 .. Len(q) :
    i < j => q[i].id < q[j].id /\ q[i].write < q[j].write

\* Ids and writes are given in order, so the batches are in order.
QueueOrdered ==
  /\ Sorted(queue)
  /\ \A i \in 1 .. Len(queue) :
       queue[i].id < nextBatchId /\ queue[i].write <= issued

CallsOrdered ==
  /\ \A i, j \in 1 .. Len(calls) : i < j => calls[i] < calls[j]
  /\ \A j \in 1 .. Len(calls) :
       /\ calls[j] <= issued
       /\ \A i \in 1 .. Len(queue) : queue[i].write < calls[j]

PipelineFilled ==
  /\ Begins(pipeline, queue)
  /\ Len(pipeline) = IF enabled THEN FullLen(queue) ELSE 0

\* A stream in the state s waits for credentials t only while it starts, and
\* was started for something in the pipeline p.
StreamFits(p, s, h, t, e) ==
  /\ ~e => s \notin Started
  /\ s = "Starting" <=> "current" \in t
  /\ s \in Started /\ ~h => p # <<>>

\* Under way on a stream: nothing if it is not open, the first request or its
\* answer until the handshake, and then the pipeline.
UnderWay(p, s, h, req, resp) ==
  /\ s # "Open" => resp = <<>> /\ req = <<>> /\ ~h
  /\ s = "Open" /\ ~h => \/ resp = <<>> /\ req = <<Hello>>
                         \/ resp = <<Hello>> /\ req = <<>>
  /\ s = "Open" /\ h =>
       /\ Len(resp) + Len(req) = Len(p)
       /\ \A i \in 1 .. Len(resp) : resp[i] = p[i]
       /\ \A i \in 1 .. Len(req) : req[i] = p[Len(resp) + i]

IdleFits(p, s, h, i) == i => s = "Open" /\ h /\ p = <<>>

StreamInv ==
  /\ ~running => ~enabled /\ calls = <<>> /\ callbacks = {}
  /\ StreamFits(pipeline, stream, handshake, tokens, enabled)
  /\ UnderWay(pipeline, stream, handshake, requests, responses)
  /\ IdleFits(pipeline, stream, handshake, idle)

\* The backend holds the last write it has served on this stream.
LatestServed ==
  handshake /\ responses # <<>> => latest = responses[Len(responses)].write

\* What is acknowledged is behind the document and behind all that waits.
AcknowledgedBehind ==
  \A w \in acknowledged :
    /\ w <= latest
    /\ w <= issued
    /\ \A i \in 1 .. Len(queue) : w < queue[i].write
    /\ \A j \in 1 .. Len(calls) : w < calls[j]

IInv ==
  /\ TypeOK
  /\ QueueOrdered
  /\ CallsOrdered
  /\ PipelineFilled
  /\ StreamInv
  /\ LatestServed
  /\ AcknowledgedBehind
  /\ CallbacksAreQueued

-----------------------------------------------------------------------------
(* Lemmas about queues and pipelines.                                      *)

LEMMA BatchTypes ==
  ASSUME NEW q \in Seq(Batch)
  PROVE  /\ Len(q) \in Nat
         /\ \A i \in 1 .. Len(q) :
              q[i] \in Batch /\ q[i].id \in Nat /\ q[i].write \in Nat
<1>1. Len(q) \in Nat /\ \A i \in 1 .. Len(q) : q[i] \in Batch
  BY ElementOfSeq, LenProperties
<1>2. \A b \in Batch : b.id \in Nat /\ b.write \in Nat
  BY MaxWritesAssumption DEF Batch, Write
<1>3. QED
  BY <1>1, <1>2

\* GetNextMutationBatch goes on right behind the pipeline.
LEMMA PassedIsLen ==
  ASSUME NEW q \in Seq(Batch), NEW p \in Seq(Batch), Sorted(q), Begins(p, q)
  PROVE  Passed(q, p) = Len(p)
<1>1. CASE p = <<>>
  BY <1>1 DEF Passed
<1>2. CASE p # <<>>
  <2> DEFINE last == p[Len(p)].id
             P(n) == /\ \A i \in 1 .. n : q[i].id <= last
                     /\ \A i \in n + 1 .. Len(q) : q[i].id > last
  <2>1. Len(p) \in 1 .. Len(q)
    BY <1>2, LenProperties, EmptySeq DEF Begins
  <2>2. last = q[Len(p)].id
    BY <2>1 DEF Begins
  <2>3. P(Len(p))
    <3>1. ASSUME NEW i \in 1 .. Len(p) PROVE q[i].id <= last
      <4>1. i \in 1 .. Len(q) /\ (i = Len(p) \/ i < Len(p))
        BY <2>1, BatchTypes
      <4>2. QED
        BY <4>1, <2>1, <2>2, BatchTypes DEF Sorted
    <3>2. ASSUME NEW i \in Len(p) + 1 .. Len(q) PROVE q[i].id > last
      <4>1. i \in 1 .. Len(q) /\ Len(p) < i
        BY <2>1, BatchTypes
      <4>2. QED
        BY <4>1, <2>1, <2>2, BatchTypes DEF Sorted
    <3>3. QED
      BY <3>1, <3>2
  <2>4. ASSUME NEW n \in 0 .. Len(q), P(n)
        PROVE  n = Len(p)
    <3>1. CASE n < Len(p)
      <4>1. Len(p) \in n + 1 .. Len(q)
        BY <3>1, <2>1
      <4>2. QED
        BY <4>1, <2>2, <2>4, BatchTypes
    <3>2. CASE n > Len(p)
      <4>1. n \in 1 .. n /\ n \in Len(p) + 1 .. Len(q) /\ n \in 1 .. Len(q)
        BY <3>2, <2>1
      <4>2. QED
        BY <4>1, <2>3, <2>4, BatchTypes, <2>2, <2>1
    <3>3. QED
      BY <3>1, <3>2, <2>1, BatchTypes
  <2>5. Len(p) \in 0 .. Len(q)
    BY <2>1
  <2>6. Passed(q, p) = CHOOSE n \in 0 .. Len(q) : P(n)
    BY <1>2 DEF Passed
  <2> HIDE DEF P
  <2>7. QED
    BY <2>3, <2>4, <2>5, <2>6
<1>3. QED
  BY <1>1, <1>2

\* FillWritePipeline fills the pipeline with the oldest batches of the queue.
LEMMA Refilled ==
  ASSUME NEW q \in Seq(Batch), NEW p \in Seq(Batch),
         Sorted(q), Begins(p, q), Len(p) <= kMaxPendingWrites
  PROVE  LET new == NextBatches(q, p)
         IN  /\ new \in Seq(Batch)
             /\ p \o new \in Seq(Batch)
             /\ Len(new) = FullLen(q) - Len(p)
             /\ Len(p \o new) = FullLen(q)
             /\ \A i \in 1 .. Len(p) : (p \o new)[i] = p[i]
             /\ \A i \in 1 .. Len(new) : (p \o new)[Len(p) + i] = new[i]
             /\ Begins(p \o new, q)
<1> DEFINE new == NextBatches(q, p)
           room == kMaxPendingWrites - Len(p)
           to == IF Len(p) + room < Len(q) THEN Len(p) + room ELSE Len(q)
<1>1. /\ Len(p) \in Nat /\ Len(q) \in Nat
      /\ kMaxPendingWrites \in Nat /\ kMaxPendingWrites > 0
  BY PendingAssumption, LenProperties
<1>2. new = SubSeq(q, Len(p) + 1, to)
  BY PassedIsLen DEF NextBatches
<1>3. to = FullLen(q) /\ to \in 0 .. Len(q) /\ Len(p) <= to
  BY <1>1 DEF FullLen, Begins
<1>4. /\ new \in Seq(Batch)
      /\ Len(new) = to - Len(p)
      /\ \A i \in 1 .. to - Len(p) : new[i] = q[Len(p) + i]
  <2>1. CASE Len(p) = to
    <3>1. new = <<>>
      BY <2>1, <1>1, <1>2, <1>3, SubSeqProperties, EmptySeq
    <3>2. QED
      BY <2>1, <3>1, <1>1
  <2>2. CASE Len(p) < to
    <3>1. Len(p) + 1 \in 1 .. Len(q) /\ Len(p) + 1 <= to
      BY <2>2, <1>1, <1>3
    <3>2. QED
      BY <3>1, <1>1, <1>2, <1>3, SubSeqProperties
  <2>3. QED
    BY <2>1, <2>2, <1>1, <1>3
<1> HIDE DEF new, to
<1>5. /\ p \o new \in Seq(Batch)
      /\ Len(p \o new) = to
      /\ \A i \in 1 .. Len(p) : (p \o new)[i] = p[i]
      /\ \A i \in 1 .. to - Len(p) : (p \o new)[Len(p) + i] = new[i]
  BY SMTT(40), <1>4, <1>1, <1>3, ConcatProperties
<1>6. Begins(p \o new, q)
  <2>1. ASSUME NEW i \in 1 .. to PROVE (p \o new)[i] = q[i]
    <3>1. CASE i <= Len(p)
      BY <3>1, <1>5, <1>1, <1>3 DEF Begins
    <3>2. CASE i > Len(p)
      <4>1. PICK k \in 1 .. to - Len(p) : Len(p) + k = i
        <5>1. i - Len(p) \in 1 .. to - Len(p) /\ Len(p) + (i - Len(p)) = i
          BY <3>2, <1>1, <1>3
        <5>2. QED
          BY <5>1
      <4>2. (p \o new)[Len(p) + k] = new[k] /\ new[k] = q[Len(p) + k]
        BY <4>1, <1>4, <1>5, Zenon
      <4>3. QED
        BY <4>1, <4>2
    <3>3. i \in Int /\ Len(p) \in Int
      BY <1>1, <1>3
    <3>4. i <= Len(p) \/ i > Len(p)
      BY <3>3
    <3>5. QED
      BY <3>1, <3>2, <3>4
  <2>2. QED
    BY <2>1, <1>3, <1>5 DEF Begins
<1>7. QED
  BY <1>3, <1>4, <1>5, <1>6 DEF new

\* Removing the oldest batch by its id leaves the others in place.
LEMMA WithoutOldest ==
  ASSUME NEW q \in Seq(Batch), Sorted(q), q # <<>>
  PROVE  /\ Without(q, q[1].id) = Tail(q)
         /\ Tail(q) \in Seq(Batch)
         /\ Len(q) > 0
         /\ Len(Tail(q)) = Len(q) - 1
         /\ \A i \in 1 .. Len(q) - 1 : Tail(q)[i] = q[i + 1]
         /\ Sorted(Tail(q))
<1>1. /\ Len(q) \in Nat /\ Len(q) > 0
      /\ Tail(q) \in Seq(Batch)
      /\ Len(Tail(q)) = Len(q) - 1
      /\ \A i \in 1 .. Len(q) - 1 : Tail(q)[i] = q[i + 1]
  BY HeadTailProperties, LenProperties, EmptySeq
<1>2. (CHOOSE i \in 1 .. Len(q) : q[i].id = q[1].id) = 1
  <2>1. ASSUME NEW i \in 1 .. Len(q), q[i].id = q[1].id PROVE i = 1
    BY <2>1, <1>1, BatchTypes DEF Sorted
  <2>2. QED
    BY <2>1, <1>1
<1>3. Without(q, q[1].id) = SubSeq(q, 1, 0) \o SubSeq(q, 2, Len(q))
  <2>1. Without(q, q[1].id) = SubSeq(q, 1, 1 - 1) \o SubSeq(q, 1 + 1, Len(q))
    BY <1>2, Zenon DEF Without
  <2>2. 1 - 1 = 0 /\ 1 + 1 = 2
    OBVIOUS
  <2>3. QED
    BY <2>1, <2>2, Zenon
<1>4. SubSeq(q, 1, 0) = <<>>
  BY SubSeqEmpty
<1>5. SubSeq(q, 2, Len(q)) = Tail(q)
  BY TailIsSubSeq
<1>6. Without(q, q[1].id) = Tail(q)
  BY <1>1, <1>3, <1>4, <1>5, ConcatEmptySeq
<1>7. Sorted(Tail(q))
  BY <1>1 DEF Sorted
<1>8. QED
  BY <1>1, <1>6, <1>7

-----------------------------------------------------------------------------
(* Lemmas about the steps.                                                 *)

\* What FillWritePipeline makes of a pipeline that begins the queue.
LEMMA AddedFills ==
  ASSUME NEW q \in Seq(Batch), NEW p \in Seq(Batch),
         Sorted(q), Begins(p, q), Len(p) <= kMaxPendingWrites,
         enabled' \in BOOLEAN, ~enabled' => p = <<>>
  PROVE  LET new == Added(q, p)
         IN  /\ new \in Seq(Batch)
             /\ p \o new \in Seq(Batch)
             /\ Len(p \o new) = Len(p) + Len(new)
             /\ Len(p \o new) = IF enabled' THEN FullLen(q) ELSE 0
             /\ \A i \in 1 .. Len(p) : (p \o new)[i] = p[i]
             /\ \A i \in 1 .. Len(new) : (p \o new)[Len(p) + i] = new[i]
             /\ Begins(p \o new, q)
             /\ ~enabled' => p \o new = <<>>
<1> DEFINE Fills(new) ==
      /\ new \in Seq(Batch)
      /\ p \o new \in Seq(Batch)
      /\ Len(p \o new) = Len(p) + Len(new)
      /\ Len(p \o new) = IF enabled' THEN FullLen(q) ELSE 0
      /\ \A i \in 1 .. Len(p) : (p \o new)[i] = p[i]
      /\ \A i \in 1 .. Len(new) : (p \o new)[Len(p) + i] = new[i]
      /\ Begins(p \o new, q)
      /\ ~enabled' => p \o new = <<>>
<1>1. CASE enabled'
  <2>1. /\ NextBatches(q, p) \in Seq(Batch)
        /\ Len(p \o NextBatches(q, p)) = Len(p) + Len(NextBatches(q, p))
    BY Refilled, ConcatProperties
  <2>2. Fills(NextBatches(q, p))
    BY <1>1, <2>1, Refilled
  <2>3. Added(q, p) = NextBatches(q, p)
    BY <1>1 DEF Added
  <2> HIDE DEF Fills
  <2>4. Fills(Added(q, p))
    BY <2>2, <2>3
  <2>5. QED
    BY <2>4 DEF Fills
<1>2. CASE ~enabled'
  <2>1. p = <<>> /\ Added(q, p) = <<>> /\ <<>> \in Seq(Batch)
    BY <1>2, EmptySeq DEF Added
  <2>2. <<>> \o <<>> = <<>> /\ Len(<<>>) = 0
    BY <2>1, ConcatEmptySeq, EmptySeq
  <2>3. Begins(<<>>, q)
    BY <2>2, LenProperties DEF Begins
  <2>4. Fills(<<>>)
    BY <1>2, <2>1, <2>2, <2>3
  <2> HIDE DEF Fills
  <2>5. Fills(Added(q, p))
    BY <2>1, <2>4
  <2>6. QED
    BY <2>5 DEF Fills
<1>3. QED
  BY <1>1, <1>2

LEMMA AppendBatch ==
  ASSUME NEW q \in Seq(Batch), NEW b \in Batch
  PROVE  /\ Append(q, b) \in Seq(Batch)
         /\ Len(Append(q, b)) = Len(q) + 1
         /\ \A i \in 1 .. Len(q) : Append(q, b)[i] = q[i]
         /\ Append(q, b)[Len(q) + 1] = b
  BY AppendProperties, LenProperties

\* What the invariant says of lengths and elements.
LEMMA InvTypes ==
  ASSUME IInv
  PROVE  /\ Len(queue) \in Nat /\ Len(calls) \in Nat /\ Len(pipeline) \in Nat
         /\ Len(requests) \in Nat /\ Len(responses) \in Nat
         /\ Len(pipeline) <= Len(queue)
         /\ Len(pipeline) <= kMaxPendingWrites
         /\ \A i \in 1 .. Len(queue) :
              /\ queue[i] \in Batch
              /\ queue[i].id \in Nat /\ queue[i].id > 0
              /\ queue[i].write \in Nat /\ queue[i].write \in Write
         /\ \A i \in 1 .. Len(calls) : calls[i] \in Nat /\ calls[i] \in Write
         /\ nextBatchId \in Nat /\ nextBatchId > 0 /\ issued \in Nat
         /\ latest \in Nat
         /\ acknowledged \subseteq Nat
         /\ ~enabled => pipeline = <<>>
<1>1. /\ queue \in Seq(Batch) /\ calls \in Seq(Write) /\ pipeline \in Seq(Batch)
      /\ requests \in Seq(Batch \cup {Hello})
      /\ responses \in Seq(Batch \cup {Hello})
  BY DEF IInv, TypeOK
<1>2. /\ Len(queue) \in Nat /\ Len(calls) \in Nat /\ Len(pipeline) \in Nat
      /\ Len(requests) \in Nat /\ Len(responses) \in Nat
  BY <1>1, LenProperties
<1>3. /\ Len(pipeline) <= Len(queue) /\ Len(pipeline) <= kMaxPendingWrites
      /\ ~enabled => pipeline = <<>>
  <2>1. Begins(pipeline, queue)
        /\ Len(pipeline) = IF enabled THEN FullLen(queue) ELSE 0
    BY DEF IInv, PipelineFilled
  <2>2. QED
    BY <1>1, <1>2, <2>1, PendingAssumption, EmptySeq DEF Begins, FullLen
<1>4. \A b \in Batch : /\ b.id \in Nat /\ b.id > 0
                       /\ b.write \in Nat /\ b.write \in Write
  BY MaxWritesAssumption DEF Batch, Write
<1>5. \A i \in 1 .. Len(queue) : queue[i] \in Batch
  BY <1>1, ElementOfSeq
<1>6. \A i \in 1 .. Len(calls) : calls[i] \in Nat /\ calls[i] \in Write
  BY <1>1, ElementOfSeq, MaxWritesAssumption DEF Write
<1>7. /\ nextBatchId \in Nat /\ nextBatchId > 0 /\ issued \in Nat
      /\ latest \in Nat /\ acknowledged \subseteq Nat
  BY MaxWritesAssumption DEF IInv, TypeOK, Write
<1>8. QED
  BY <1>2, <1>3, <1>4, <1>5, <1>6, <1>7

\* The batch at the front of the pipeline is the oldest of the queue.
LEMMA FrontIsOldest ==
  ASSUME IInv, pipeline # <<>>
  PROVE  LET b == Head(pipeline)
             q == Tail(queue)
             p == Tail(pipeline)
         IN  /\ queue # <<>> /\ b = queue[1] /\ b \in Batch
             /\ Without(queue, b.id) = q
             /\ q \in Seq(Batch) /\ Sorted(q)
             /\ Len(q) = Len(queue) - 1
             /\ \A i \in 1 .. Len(q) : q[i] = queue[i + 1]
             /\ p \in Seq(Batch)
             /\ Len(p) = Len(pipeline) - 1
             /\ \A i \in 1 .. Len(p) : p[i] = pipeline[i + 1]
             /\ Begins(p, q)
             /\ \A c \in callbacks \ Waiting(b.id) :
                  \E i \in 1 .. Len(q) : q[i] = c
             /\ Len(p) <= kMaxPendingWrites
<1> DEFINE b == Head(pipeline)
           q == Tail(queue)
           p == Tail(pipeline)
<1>1. /\ queue \in Seq(Batch) /\ pipeline \in Seq(Batch) /\ Sorted(queue)
      /\ Begins(pipeline, queue)
  BY DEF IInv, TypeOK, QueueOrdered, PipelineFilled
<1>2. /\ Len(pipeline) \in Nat /\ Len(pipeline) > 0
      /\ Len(queue) \in Nat /\ Len(queue) > 0
      /\ Len(pipeline) <= kMaxPendingWrites /\ Len(pipeline) <= Len(queue)
      /\ kMaxPendingWrites \in Nat
  BY <1>1, InvTypes, EmptySeq, PendingAssumption
<1>3. queue # <<>>
  BY <1>2, EmptySeq
<1>4. b = pipeline[1] /\ b = queue[1]
  <2>1. pipeline[1] = queue[1]
    BY <1>1, <1>2 DEF Begins
  <2>2. Head(pipeline) = pipeline[1]
    OBVIOUS
  <2>3. QED
    BY <2>1, <2>2
<1>5. /\ p \in Seq(Batch)
      /\ Len(p) = Len(pipeline) - 1
      /\ \A i \in 1 .. Len(p) : p[i] = pipeline[i + 1]
  BY <1>1, HeadTailProperties
<1>6. /\ Without(queue, b.id) = q
      /\ q \in Seq(Batch) /\ Sorted(q)
      /\ Len(q) = Len(queue) - 1
      /\ \A i \in 1 .. Len(queue) - 1 : q[i] = queue[i + 1]
  BY <1>1, <1>3, <1>4, WithoutOldest
<1> HIDE DEF b, q, p
<1>7. Begins(p, q)
  <2>1. ASSUME NEW i \in 1 .. Len(p) PROVE p[i] = q[i]
    <3>1. /\ i + 1 \in 1 .. Len(pipeline)
          /\ i \in 1 .. Len(queue) - 1
      BY <1>2, <1>5
    <3>2. pipeline[i + 1] = queue[i + 1]
      BY <1>1, <3>1 DEF Begins
    <3>3. QED
      BY <1>5, <1>6, <3>1, <3>2
  <2>2. QED
    BY <1>2, <1>5, <1>6, <2>1 DEF Begins
<1>8. ASSUME NEW c \in callbacks \ Waiting(b.id)
      PROVE  \E i \in 1 .. Len(q) : q[i] = c
  <2>1. PICK k \in 1 .. Len(queue) : queue[k] = c
    BY DEF IInv, CallbacksAreQueued
  <2>2. k # 1
    BY <2>1, <1>4 DEF Waiting
  <2>3. PICK i \in 1 .. Len(q) : i + 1 = k
    <3>1. k - 1 \in 1 .. Len(q) /\ (k - 1) + 1 = k
      BY <2>1, <2>2, <1>2, <1>6
    <3>2. QED
      BY <3>1
  <2>4. q[i] = c
    BY <2>1, <2>3, <1>6
  <2>5. QED
    BY <2>3, <2>4
<1>9. b \in Batch
  BY <1>1, <1>2, <1>4, ElementOfSeq
<1>10. QED
  BY <1>2, <1>3, <1>4, <1>5, <1>6, <1>7, <1>8, <1>9 DEF b, q, p

\* Starting a stream keeps what the invariant says of streams.
LEMMA StartKeepsStream ==
  ASSUME NEW p, NEW s \in {"Initial", "Error"} \cup Started, NEW h \in BOOLEAN,
         NEW t \in SUBSET {"current", "stale"},
         enabled' \in BOOLEAN,
         ~enabled' => s \notin Started,
         s = "Starting" <=> "current" \in t,
         s \in Started /\ ~h => p # <<>>,
         StartIfNeeded(p, s, t)
  PROVE  /\ pipeline' = p
         /\ stream' \in {"Initial", "Error"} \cup Started
         /\ tokens' \subseteq {"current", "stale"}
         /\ StreamFits(p, stream', h, tokens', enabled')
         /\ stream' = "Open" <=> s = "Open"
<1> DEFINE start == enabled' /\ s \notin Started /\ p # <<>>
<1>1. CASE ~start
  BY <1>1 DEF StartIfNeeded, Started, StreamFits
<1>2. CASE start /\ s = "Error"
  BY <1>2 DEF StartIfNeeded, Started, StreamFits
<1>3. CASE start /\ s = "Initial"
  <2>1. /\ pipeline' = p /\ stream' = "Starting"
        /\ tokens' = t \cup {"current"}
    BY <1>3 DEF StartIfNeeded
  <2>2. QED
    BY <1>3, <2>1 DEF Started, StreamFits
<1>4. start => s = "Error" \/ s = "Initial"
  OBVIOUS
<1> HIDE DEF start
<1>5. QED
  BY <1>1, <1>2, <1>3, <1>4

\* FillWritePipeline keeps the pipeline, the stream and what is under way in
\* order, whatever the queue and the pipeline p it starts from.
LEMMA FillKeeps ==
  ASSUME IInv, NEW p \in Seq(Batch),
         queue' \in Seq(Batch), Sorted(queue'), Begins(p, queue'),
         Len(p) <= kMaxPendingWrites,
         enabled' \in BOOLEAN, ~enabled' => p = <<>> /\ stream \notin Started,
         stream \in Started /\ ~handshake => p # <<>>,
         responses' \in Seq(Batch \cup {Hello}),
         handshake' = handshake,
         UnderWay(p, stream, handshake, requests, responses'),
         IdleFits(p, stream, handshake, idle),
         FillWritePipeline(queue', p)
  PROVE  /\ PipelineFilled'
         /\ pipeline' \in Seq(Batch)
         /\ stream' \in {"Initial", "Error"} \cup Started
         /\ tokens' \subseteq {"current", "stale"}
         /\ idle' \in BOOLEAN
         /\ requests' \in Seq(Batch \cup {Hello})
         /\ StreamFits(pipeline, stream, handshake, tokens, enabled)'
         /\ UnderWay(pipeline, stream, handshake, requests, responses)'
         /\ IdleFits(pipeline, stream, handshake, idle)'
<1> DEFINE new == Added(queue', p)
           sending == stream = "Open" /\ handshake /\ new # <<>>
<1>1. /\ new \in Seq(Batch)
      /\ p \o new \in Seq(Batch)
      /\ Len(p \o new) = Len(p) + Len(new)
      /\ Len(p \o new) = IF enabled' THEN FullLen(queue') ELSE 0
      /\ \A i \in 1 .. Len(p) : (p \o new)[i] = p[i]
      /\ \A i \in 1 .. Len(new) : (p \o new)[Len(p) + i] = new[i]
      /\ Begins(p \o new, queue')
  BY AddedFills
<1>2. /\ StartIfNeeded(p \o new, stream, tokens)
      /\ requests' = IF sending THEN requests \o new ELSE requests
      /\ idle' = IF sending THEN FALSE
                 ELSE idle \/ (stream = "Open" /\ enabled' /\ p \o new = <<>>)
  BY DEF FillWritePipeline
<1> HIDE DEF new
<1>3. /\ stream \in {"Initial", "Error"} \cup Started
      /\ tokens \subseteq {"current", "stale"} /\ handshake \in BOOLEAN
      /\ stream = "Starting" <=> "current" \in tokens
      /\ idle \in BOOLEAN
      /\ requests \in Seq(Batch \cup {Hello})
      /\ Len(p) \in Nat /\ Len(new) \in Nat
  BY <1>1, LenProperties DEF IInv, TypeOK, StreamInv, StreamFits
<1>4. p # <<>> => p \o new # <<>>
  BY <1>1, <1>3, EmptySeq
<1>5. /\ pipeline' = p \o new
      /\ stream' \in {"Initial", "Error"} \cup Started
      /\ tokens' \subseteq {"current", "stale"}
      /\ StreamFits(p \o new, stream', handshake, tokens', enabled')
      /\ stream' = "Open" <=> stream = "Open"
  BY <1>2, <1>3, <1>4, StartKeepsStream
<1>6. PipelineFilled'
  BY <1>1, <1>5 DEF PipelineFilled, Begins, FullLen
<1>7. /\ new \in Seq(Batch \cup {Hello})
      /\ requests \o new \in Seq(Batch \cup {Hello})
      /\ Len(requests \o new) = Len(requests) + Len(new)
      /\ \A i \in 1 .. Len(requests) : (requests \o new)[i] = requests[i]
      /\ \A i \in 1 .. Len(new) : (requests \o new)[Len(requests) + i] = new[i]
      /\ Len(requests) \in Nat /\ Len(responses') \in Nat
  <2>1. new \in Seq(Batch \cup {Hello})
    BY <1>1, SeqMonotonic, Batch \subseteq Batch \cup {Hello}
  <2>2. Len(requests) \in Nat /\ Len(responses') \in Nat
    BY <1>3, LenProperties
  <2>3. QED
    BY <2>1, <2>2, <1>3, ConcatProperties
<1>8. requests' \in Seq(Batch \cup {Hello}) /\ idle' \in BOOLEAN
  BY <1>2, <1>3, <1>7
<1>9. CASE stream = "Open" /\ handshake
  <2>1. requests' = requests \o new
    <3>1. CASE new = <<>>
      BY <1>2, <1>3, <3>1, ConcatEmptySeq
    <3>2. CASE new # <<>>
      BY <1>2, <1>9, <3>2
    <3>3. QED
      BY <3>1, <3>2
  <2>2. /\ Len(responses') + Len(requests) = Len(p)
        /\ \A i \in 1 .. Len(responses') : responses'[i] = p[i]
        /\ \A i \in 1 .. Len(requests) : requests[i] = p[Len(responses') + i]
    BY <1>9 DEF UnderWay
  <2>20. /\ Len(responses') \in Nat /\ Len(requests) \in Nat
         /\ Len(p) \in Nat /\ Len(new) \in Nat
         /\ Len(responses') + Len(requests) = Len(p)
    BY <2>2, <1>7, <1>3
  <2>21. Len(requests') = Len(requests) + Len(new)
    BY <2>1, <1>7
  <2>3. ASSUME NEW i \in 1 .. Len(requests')
        PROVE  requests'[i] = (p \o new)[Len(responses') + i]
    <3>1. CASE i \in 1 .. Len(requests)
      <4>1. Len(responses') + i \in 1 .. Len(p)
        BY <3>1, <2>2, <1>7, <1>3
      <4>2. (p \o new)[Len(responses') + i] = p[Len(responses') + i]
        BY <4>1, <1>1
      <4>3. QED
        BY <4>2, <3>1, <2>1, <2>2, <1>7
    <3>2. CASE i \notin 1 .. Len(requests)
      <4>1. PICK k \in 1 .. Len(new) : i = Len(requests) + k
        <5>1. i - Len(requests) \in 1 .. Len(new)
              /\ i = Len(requests) + (i - Len(requests))
          BY <3>2, <2>1, <1>7, <1>3
        <5>2. QED
          BY <5>1
      <4>2. Len(responses') + i = Len(p) + k
        <5> DEFINE a == Len(responses')
                   b == Len(requests)
                   c == Len(p)
        <5>1. /\ a \in Nat /\ b \in Nat /\ c \in Nat /\ a + b = c
              /\ k \in Nat /\ i = b + k
          BY <4>1, <2>20
        <5> HIDE DEF a, b, c
        <5>2. a + i = c + k
          BY <5>1
        <5>3. QED
          BY <5>2 DEF a, b, c
      <4>3. (requests \o new)[Len(requests) + k] = new[k]
            /\ (p \o new)[Len(p) + k] = new[k]
        BY <4>1, <1>1, <1>7, Zenon
      <4>4. QED
        BY <4>1, <4>2, <4>3, <2>1
    <3>3. QED
      BY <3>1, <3>2
  <2>4. ASSUME NEW i \in 1 .. Len(responses')
        PROVE  responses'[i] = (p \o new)[i]
    <3>1. i \in 1 .. Len(p)
      BY <2>2, <1>7, <1>3
    <3>2. QED
      BY <3>1, <2>2, <1>1
  <2>5. Len(responses') + Len(requests') = Len(p \o new)
    <3>1. Len(p \o new) = Len(p) + Len(new)
      BY <1>1
    <3>2. QED
      BY SMTT(40), <3>1, <2>20, <2>21
  <2>6. UnderWay(p \o new, stream', handshake, requests', responses')
    BY <1>5, <1>9, <2>3, <2>4, <2>5 DEF UnderWay
  <2>7. IdleFits(p \o new, stream', handshake, idle')
    <3>1. CASE new = <<>>
      <4>1. p \o new = p
        BY <3>1, ConcatEmptySeq
      <4>2. QED
        BY <3>1, <4>1, <1>2, <1>5, <1>9 DEF IdleFits
    <3>2. CASE new # <<>>
      BY <3>2, <1>2, <1>9 DEF IdleFits
    <3>3. QED
      BY <3>1, <3>2
  <2>8. QED
    BY <2>6, <2>7, <1>5, <1>6, <1>8, <1>1
<1>10. CASE ~(stream = "Open" /\ handshake)
  <2>1. requests' = requests /\ ~idle
    BY <1>2, <1>10 DEF IdleFits
  <2>2. UnderWay(p \o new, stream', handshake, requests', responses')
    BY <2>1, <1>5, <1>10 DEF UnderWay
  <2>3. ~idle'
    <3>1. stream = "Open" => p # <<>>
      BY <1>10 DEF Started
    <3>2. QED
      BY <3>1, <2>1, <1>2, <1>4, <1>10
  <2>4. QED
    BY <2>2, <2>3, <1>5, <1>6, <1>8, <1>1 DEF IdleFits
<1>11. QED
  BY <1>9, <1>10

LEMMA CallWriteKeeps ==
  ASSUME IInv, CallWrite
  PROVE  IInv'
<1>1. /\ calls' = Append(calls, issued + 1) /\ issued' = issued + 1
      /\ calls \in Seq(Write) /\ issued + 1 \in Write
  BY InvTypes, MaxWritesAssumption DEF CallWrite, IInv, TypeOK, Write
<1>2. /\ calls' \in Seq(Write) /\ Len(calls') = Len(calls) + 1
      /\ \A i \in 1 .. Len(calls) : calls'[i] = calls[i]
      /\ calls'[Len(calls) + 1] = issued + 1
  BY <1>1, AppendProperties, InvTypes
<1>3. TypeOK'
  BY <1>1, <1>2 DEF CallWrite, disk, conn, network, IInv, TypeOK, Write
<1>4. UNCHANGED <<queue, nextBatchId, callbacks, pipeline, stream, handshake,
                  tokens, idle, enabled, running, requests, responses, refused,
                  latest, acknowledged>>
  BY DEF CallWrite, disk, conn, network
<1>5. QueueOrdered'
  BY <1>1, <1>4, InvTypes DEF IInv, QueueOrdered, Sorted
<1>6. CallsOrdered'
  <2>1. ASSUME NEW j \in 1 .. Len(calls')
        PROVE  /\ calls'[j] <= issued'
               /\ \A i \in 1 .. Len(queue') : queue'[i].write < calls'[j]
               /\ \A i \in 1 .. Len(calls') : i < j => calls'[i] < calls'[j]
    <3>1. CASE j \in 1 .. Len(calls)
      BY <3>1, <1>1, <1>2, <1>4, InvTypes DEF IInv, CallsOrdered
    <3>2. CASE j = Len(calls) + 1
      BY SMTT(40), <3>2, <1>1, <1>2, <1>4, InvTypes
         DEF IInv, CallsOrdered, QueueOrdered
    <3>3. QED
      BY <3>1, <3>2, <1>2, InvTypes
  <2>2. QED
    BY <2>1 DEF CallsOrdered
<1>7. PipelineFilled'
  BY <1>4 DEF IInv, PipelineFilled, Begins, FullLen
<1>8. StreamInv'
  BY <1>4 DEF IInv, StreamInv, StreamFits, UnderWay, IdleFits, CallWrite
<1>9. LatestServed'
  BY <1>4 DEF IInv, LatestServed
<1>10. AcknowledgedBehind'
  <2>1. ASSUME NEW w \in acknowledged, NEW j \in 1 .. Len(calls')
        PROVE  w < calls'[j]
    <3>1. CASE j \in 1 .. Len(calls)
      BY <3>1, <1>2 DEF IInv, AcknowledgedBehind
    <3>2. CASE j = Len(calls) + 1
      BY <3>2, <1>2, InvTypes DEF IInv, AcknowledgedBehind
    <3>3. QED
      BY <3>1, <3>2, <1>2, InvTypes
  <2>2. ASSUME NEW w \in acknowledged PROVE w <= issued'
    BY <1>1, InvTypes DEF IInv, AcknowledgedBehind
  <2>3. QED
    BY <2>1, <2>2, <1>4 DEF IInv, AcknowledgedBehind
<1>11. CallbacksAreQueued'
  BY <1>4 DEF IInv, CallbacksAreQueued
<1>12. QED
  BY <1>3, <1>5, <1>6, <1>7, <1>8, <1>9, <1>10, <1>11 DEF IInv

\* A write that becomes a batch, behind all others on the disk.
LEMMA WriteMutationsKeeps ==
  ASSUME IInv, WriteMutations
  PROVE  IInv'
<1> DEFINE batch == [id |-> nextBatchId, write |-> Head(calls)]
<1>1. /\ calls # <<>> /\ calls' = Tail(calls)
      /\ queue' = Append(queue, batch)
      /\ nextBatchId' = nextBatchId + 1
      /\ callbacks' = callbacks \cup {batch}
      /\ UNCHANGED <<issued, running, enabled, handshake, responses, refused,
                     latest, acknowledged>>
      /\ FillWritePipeline(queue', pipeline)
      /\ running
  BY DEF WriteMutations
<1>2. /\ Len(calls) > 0 /\ Head(calls) = calls[1]
      /\ calls' \in Seq(Write) /\ Len(calls') = Len(calls) - 1
      /\ \A i \in 1 .. Len(calls') : calls'[i] = calls[i + 1]
  <2>1. calls \in Seq(Write)
    BY DEF IInv, TypeOK
  <2>2. Len(calls) > 0
    BY <1>1, <2>1, InvTypes, EmptySeq
  <2>3. QED
    BY <1>1, <2>1, <2>2, HeadTailProperties
<1>3. batch \in Batch /\ batch.id = nextBatchId /\ batch.write = calls[1]
  BY <1>2, InvTypes DEF Batch
<1>4. /\ queue' \in Seq(Batch) /\ Len(queue') = Len(queue) + 1
      /\ \A i \in 1 .. Len(queue) : queue'[i] = queue[i]
      /\ queue'[Len(queue) + 1] = batch
  BY <1>1, <1>3, AppendBatch DEF IInv, TypeOK
<1> HIDE DEF batch
<1>40. \A i \in 1 .. Len(queue') : i \in 1 .. Len(queue) \/ i = Len(queue) + 1
  <2>1. Len(queue) \in Nat
    BY InvTypes
  <2>2. QED
    BY <1>4, <2>1
<1>5. QueueOrdered'
  <2>1. ASSUME NEW i \in 1 .. Len(queue)
        PROVE  /\ queue[i].id < nextBatchId /\ queue[i].write <= issued
               /\ queue[i].write < calls[1]
    BY <1>2, InvTypes DEF IInv, QueueOrdered, CallsOrdered
  <2>2. ASSUME NEW i \in 1 .. Len(queue'), NEW j \in 1 .. Len(queue'), i < j
        PROVE  queue'[i].id < queue'[j].id /\ queue'[i].write < queue'[j].write
    <3>1. CASE j \in 1 .. Len(queue)
      <4>1. i \in 1 .. Len(queue)
        BY <3>1, <2>2
      <4>2. QED
        BY <4>1, <3>1, <2>2, <1>4 DEF IInv, QueueOrdered, Sorted
    <3>2. CASE j = Len(queue) + 1
      <4>1. i \in 1 .. Len(queue)
        BY <3>2, <2>2, InvTypes
      <4>2. queue'[j] = batch /\ queue'[i] = queue[i]
        BY <3>2, <4>1, <1>4
      <4>3. QED
        BY <4>1, <4>2, <2>1, <1>3
    <3>3. QED
      BY <3>1, <3>2, <1>4, InvTypes
  <2>3. ASSUME NEW i \in 1 .. Len(queue')
        PROVE  queue'[i].id < nextBatchId' /\ queue'[i].write <= issued'
    <3>1. CASE i \in 1 .. Len(queue)
      BY SMTT(40), <3>1, <2>1, <1>1, <1>4, InvTypes
    <3>2. CASE i = Len(queue) + 1
      <4>1. calls[1] <= issued
        BY <1>2, InvTypes DEF IInv, CallsOrdered
      <4>2. QED
        BY SMTT(40), <4>1, <3>2, <1>1, <1>3, <1>4, InvTypes
    <3>3. QED
      BY <3>1, <3>2, <1>4, InvTypes
  <2>4. QED
    BY <2>2, <2>3 DEF QueueOrdered, Sorted
<1>6. CallsOrdered'
  <2>1. ASSUME NEW j \in 1 .. Len(calls')
        PROVE  /\ calls'[j] <= issued' /\ calls[1] < calls'[j]
               /\ \A i \in 1 .. Len(calls') : i < j => calls'[i] < calls'[j]
               /\ \A i \in 1 .. Len(queue) : queue[i].write < calls'[j]
    <3>1. j + 1 \in 1 .. Len(calls) /\ calls'[j] = calls[j + 1]
      BY <1>2, InvTypes
    <3>2. ASSUME NEW i \in 1 .. Len(calls'), i < j PROVE calls'[i] < calls'[j]
      <4>1. i + 1 \in 1 .. Len(calls) /\ calls'[i] = calls[i + 1]
        BY <1>2, InvTypes
      <4>2. QED
        BY <4>1, <3>1, <3>2 DEF IInv, CallsOrdered
    <3>3. /\ calls[j + 1] <= issued /\ calls[1] < calls[j + 1]
          /\ \A i \in 1 .. Len(queue) : queue[i].write < calls[j + 1]
      <4>1. 1 \in 1 .. Len(calls) /\ 1 < j + 1
        BY <3>1, InvTypes
      <4>2. QED
        BY <3>1, <4>1 DEF IInv, CallsOrdered
    <3>4. QED
      BY <3>1, <3>2, <3>3, <1>1
  <2>2. ASSUME NEW j \in 1 .. Len(calls'), NEW i \in 1 .. Len(queue')
        PROVE  queue'[i].write < calls'[j]
    <3>1. i \in 1 .. Len(queue) \/ i = Len(queue) + 1
      BY <1>40
    <3>2. QED
      BY <3>1, <2>1, <1>3, <1>4
  <2>3. QED
    BY <2>1, <2>2 DEF CallsOrdered
<1>7. /\ PipelineFilled'
      /\ pipeline' \in Seq(Batch)
      /\ stream' \in {"Initial", "Error"} \cup Started
      /\ tokens' \subseteq {"current", "stale"}
      /\ idle' \in BOOLEAN
      /\ requests' \in Seq(Batch \cup {Hello})
      /\ StreamFits(pipeline, stream, handshake, tokens, enabled)'
      /\ UnderWay(pipeline, stream, handshake, requests, responses)'
      /\ IdleFits(pipeline, stream, handshake, idle)'
  <2>1. Begins(pipeline, queue')
    BY <1>4, InvTypes DEF IInv, PipelineFilled, Begins
  <2>2. /\ pipeline \in Seq(Batch) /\ Sorted(queue')
        /\ Len(pipeline) <= kMaxPendingWrites
        /\ enabled' \in BOOLEAN /\ (~enabled' => pipeline = <<>>)
        /\ responses' \in Seq(Batch \cup {Hello})
    BY <1>1, <1>5, InvTypes DEF QueueOrdered, Sorted, IInv, TypeOK
  <2>3. /\ ~enabled' => stream \notin Started
        /\ stream \in Started /\ ~handshake => pipeline # <<>>
        /\ UnderWay(pipeline, stream, handshake, requests, responses')
        /\ IdleFits(pipeline, stream, handshake, idle)
    BY <1>1 DEF IInv, StreamInv, StreamFits
  <2>4. QED
    BY <2>1, <2>2, <2>3, <1>1, <1>4, FillKeeps
<1>8. StreamInv'
  BY <1>1, <1>7 DEF StreamInv, IInv
<1>9. TypeOK'
  BY <1>1, <1>2, <1>3, <1>4, <1>7, InvTypes DEF IInv, TypeOK
<1>10. LatestServed'
  BY <1>1 DEF IInv, LatestServed
<1>11. AcknowledgedBehind'
  <2>1. ASSUME NEW w \in acknowledged, NEW i \in 1 .. Len(queue')
        PROVE  w < queue'[i].write
    <3>1. CASE i \in 1 .. Len(queue)
      <4>1. w < queue[i].write
        BY <3>1 DEF IInv, AcknowledgedBehind
      <4>2. QED
        BY <3>1, <4>1, <1>4
    <3>2. CASE i = Len(queue) + 1
      <4>1. w < calls[1]
        BY <1>2 DEF IInv, AcknowledgedBehind
      <4>2. QED
        BY <3>2, <4>1, <1>3, <1>4
    <3>3. QED
      BY <3>1, <3>2, <1>40
  <2>2. ASSUME NEW w \in acknowledged, NEW j \in 1 .. Len(calls')
        PROVE  w < calls'[j]
    <3>1. j + 1 \in 1 .. Len(calls) /\ calls'[j] = calls[j + 1]
      BY <1>2, InvTypes
    <3>2. QED
      BY <3>1 DEF IInv, AcknowledgedBehind
  <2>3. QED
    BY <2>1, <2>2, <1>1 DEF IInv, AcknowledgedBehind
<1>12. CallbacksAreQueued'
  <2>1. ASSUME NEW b \in callbacks'
        PROVE  \E i \in 1 .. Len(queue') : queue'[i] = b
    <3>1. CASE b = batch
      <4>1. Len(queue) + 1 \in 1 .. Len(queue')
        BY <1>4, InvTypes
      <4>2. QED
        BY <3>1, <4>1, <1>4
    <3>2. CASE b \in callbacks
      <4>1. PICK i \in 1 .. Len(queue) : queue[i] = b
        BY <3>2 DEF IInv, CallbacksAreQueued
      <4>2. i \in 1 .. Len(queue') /\ queue'[i] = b
        BY <4>1, <1>4, InvTypes
      <4>3. QED
        BY <4>2
    <3>3. QED
      BY <3>1, <3>2, <1>1 DEF batch
  <2>2. QED
    BY <2>1 DEF CallbacksAreQueued
<1>13. QED
  BY <1>5, <1>6, <1>7, <1>8, <1>9, <1>10, <1>11, <1>12 DEF IInv

\* A step that changes neither the queue nor the backend.
LEMMA QueueKept ==
  ASSUME IInv, UNCHANGED <<issued, calls, queue, nextBatchId, callbacks, latest,
                           acknowledged>>
  PROVE  /\ QueueOrdered' /\ CallsOrdered' /\ AcknowledgedBehind'
         /\ CallbacksAreQueued'
<1>1. QueueOrdered' /\ CallsOrdered'
  BY DEF IInv, QueueOrdered, Sorted, CallsOrdered
<1>2. AcknowledgedBehind'
  BY DEF IInv, AcknowledgedBehind
<1>3. CallbacksAreQueued'
  BY DEF IInv, CallbacksAreQueued
<1>4. QED
  BY <1>1, <1>2, <1>3

\* The batch at the front of the pipeline leaves the queue and the callbacks.
LEMMA FrontLeaves ==
  ASSUME IInv, pipeline # <<>>,
         queue' = Without(queue, Head(pipeline).id),
         callbacks' = callbacks \ Waiting(Head(pipeline).id),
         UNCHANGED <<issued, calls, nextBatchId>>
  PROVE  /\ queue' = Tail(queue) /\ queue' \in Seq(Batch)
         /\ Len(queue') = Len(queue) - 1
         /\ \A i \in 1 .. Len(queue') : queue'[i] = queue[i + 1]
         /\ QueueOrdered' /\ CallsOrdered' /\ CallbacksAreQueued'
         /\ callbacks' \subseteq Batch
<1>1. /\ queue' = Tail(queue) /\ queue' \in Seq(Batch) /\ Sorted(queue')
      /\ Len(queue') = Len(queue) - 1
      /\ \A i \in 1 .. Len(queue') : queue'[i] = queue[i + 1]
      /\ CallbacksAreQueued'
  BY FrontIsOldest DEF CallbacksAreQueued
<1>2. ASSUME NEW i \in 1 .. Len(queue')
      PROVE  i + 1 \in 1 .. Len(queue) /\ queue'[i] = queue[i + 1]
  BY <1>1, InvTypes
<1>3. QueueOrdered'
  <2>1. Sorted(queue)'
    BY <1>1 DEF Sorted
  <2>2. QED
    BY <2>1, <1>2 DEF IInv, QueueOrdered
<1>4. CallsOrdered'
  BY <1>2 DEF IInv, CallsOrdered
<1>5. callbacks' \subseteq Batch
  BY DEF IInv, TypeOK
<1>6. QED
  BY <1>1, <1>3, <1>4, <1>5

LEMMA TokenArrivesKeeps ==
  ASSUME IInv, NEW t, TokenArrives(t)
  PROVE  IInv'
<1>1. /\ t \in tokens /\ tokens' = tokens \ {t} /\ running
      /\ UNCHANGED <<issued, calls, running, queue, nextBatchId, callbacks,
                     pipeline, handshake, idle, enabled, responses, refused,
                     latest, acknowledged>>
      /\ IF t = "current" THEN stream' = "Open" /\ requests' = <<Hello>>
         ELSE UNCHANGED <<stream, requests>>
  BY DEF TokenArrives, app, disk
<1>2. /\ stream \in {"Initial", "Error"} \cup Started
      /\ (stream = "Starting" <=> "current" \in tokens)
      /\ StreamFits(pipeline, stream, handshake, tokens, enabled)
      /\ UnderWay(pipeline, stream, handshake, requests, responses)
      /\ IdleFits(pipeline, stream, handshake, idle)
  BY DEF IInv, TypeOK, StreamInv, StreamFits
<1>3. <<Hello>> \in Seq(Batch \cup {Hello})
  OBVIOUS
<1>4. /\ stream' \in {"Initial", "Error"} \cup Started
      /\ requests' \in Seq(Batch \cup {Hello})
      /\ tokens' \subseteq {"current", "stale"}
  BY <1>1, <1>2, <1>3 DEF IInv, TypeOK, Started
<1>5. TypeOK'
  BY <1>1, <1>4 DEF IInv, TypeOK
<1>6. StreamInv'
  <2>1. CASE t = "current"
    <3>1. stream = "Starting" /\ stream' = "Open" /\ requests' = <<Hello>>
      BY <2>1, <1>1, <1>2
    <3>2. /\ responses = <<>> /\ ~handshake /\ ~idle
      BY <3>1, <1>2 DEF UnderWay, IdleFits
    <3>3. StreamFits(pipeline, stream, handshake, tokens, enabled)'
      BY <2>1, <3>1, <1>1, <1>2 DEF StreamFits, Started
    <3>4. UnderWay(pipeline, stream, handshake, requests, responses)'
      BY <3>1, <3>2, <1>1 DEF UnderWay
    <3>5. QED
      BY <3>2, <3>3, <3>4, <1>1 DEF StreamInv, IdleFits, IInv
  <2>2. CASE t # "current"
    BY <2>2, <1>1, <1>2 DEF StreamInv, StreamFits, UnderWay, IdleFits, IInv
  <2>3. QED
    BY <2>1, <2>2
<1>7. PipelineFilled' /\ LatestServed'
  BY <1>1 DEF IInv, PipelineFilled, Begins, FullLen, LatestServed
<1>8. QED
  BY <1>1, <1>5, <1>6, <1>7, QueueKept DEF IInv

LEMMA OnStreamFinishKeeps ==
  ASSUME IInv, running, enabled' = enabled, NEW permanent \in BOOLEAN,
         NEW t \in SUBSET {"current", "stale"}, OnStreamFinish(permanent, t)
  PROVE  IInv'
<1>1. /\ UNCHANGED <<issued, calls, running, nextBatchId, latest, acknowledged>>
      /\ requests' = <<>> /\ responses' = <<>>
      /\ ~refused' /\ ~handshake' /\ ~idle'
      /\ refused' \in BOOLEAN /\ handshake' \in BOOLEAN /\ idle' \in BOOLEAN
      /\ handshake' = FALSE
  BY DEF OnStreamFinish, Closed, app
<1>2. Stale(t) \in SUBSET {"current", "stale"} /\ "current" \notin Stale(t)
  BY DEF Stale
<1>3. enabled' \in BOOLEAN /\ enabled \in BOOLEAN
  BY DEF IInv, TypeOK
<1>4. <<>> \in Seq(Batch \cup {Hello})
  OBVIOUS
<1>5. /\ queue' \in Seq(Batch) /\ callbacks' \subseteq Batch
      /\ QueueOrdered' /\ CallsOrdered' /\ CallbacksAreQueued'
      /\ PipelineFilled' /\ AcknowledgedBehind'
      /\ pipeline' \in Seq(Batch)
      /\ stream' \in {"Initial", "Error"} \cup Started
      /\ tokens' \subseteq {"current", "stale"}
      /\ StreamFits(pipeline', stream', FALSE, tokens', enabled')
      /\ stream' # "Open"
      /\ callbacks' \subseteq callbacks
  <2>1. CASE permanent /\ handshake /\ pipeline # <<>>
    <3> DEFINE q == Without(queue, Head(pipeline).id)
               p == Tail(pipeline)
    <3>1. /\ queue' = q /\ callbacks' = callbacks \ Waiting(Head(pipeline).id)
          /\ StartIfNeeded(p \o Added(q, p), "Initial", Stale(t))
      BY <2>1 DEF OnStreamFinish
    <3>2. /\ q = Tail(queue) /\ q \in Seq(Batch) /\ Sorted(q)
          /\ p \in Seq(Batch) /\ Begins(p, q) /\ Len(p) <= kMaxPendingWrites
      BY <2>1, FrontIsOldest
    <3>3. /\ queue' \in Seq(Batch) /\ callbacks' \subseteq Batch
          /\ QueueOrdered' /\ CallsOrdered' /\ CallbacksAreQueued'
          /\ Len(queue') = Len(queue) - 1
          /\ \A i \in 1 .. Len(queue') : queue'[i] = queue[i + 1]
      BY <2>1, <3>1, <1>1, FrontLeaves
    <3>4. ~enabled' => p = <<>>
      BY <2>1, InvTypes
    <3> HIDE DEF q, p
    <3>5. /\ p \o Added(q, p) \in Seq(Batch)
          /\ Len(p \o Added(q, p)) = IF enabled' THEN FullLen(q) ELSE 0
          /\ Begins(p \o Added(q, p), q)
      BY <3>2, <3>4, <1>3, AddedFills
    <3>6. /\ pipeline' = p \o Added(q, p)
          /\ stream' \in {"Initial", "Error"} \cup Started
          /\ tokens' \subseteq {"current", "stale"}
          /\ StreamFits(p \o Added(q, p), stream', FALSE, tokens', enabled')
          /\ stream' # "Open"
      <4>1. "Initial" \notin Started /\ "Initial" # "Starting"
        BY DEF Started
      <4>2. QED
        BY <3>1, <1>2, <1>3, <4>1, StartKeepsStream
    <3>7. PipelineFilled'
      BY <3>1, <3>5, <3>6 DEF PipelineFilled, Begins, FullLen
    <3>8. AcknowledgedBehind'
      <4>1. ASSUME NEW w \in acknowledged, NEW i \in 1 .. Len(queue')
            PROVE  w < queue'[i].write
        <5>1. i + 1 \in 1 .. Len(queue) /\ queue'[i] = queue[i + 1]
          BY <3>3, InvTypes
        <5>2. QED
          BY <5>1 DEF IInv, AcknowledgedBehind
      <4>2. QED
        BY <4>1, <1>1 DEF IInv, AcknowledgedBehind
    <3>9. QED
      BY <3>1, <3>3, <3>5, <3>6, <3>7, <3>8
  <2>2. CASE ~(permanent /\ handshake /\ pipeline # <<>>)
    <3>1. /\ UNCHANGED <<queue, callbacks>>
          /\ StartIfNeeded(pipeline, "Error", Stale(t))
      BY <2>2 DEF OnStreamFinish
    <3>2. /\ queue' \in Seq(Batch) /\ callbacks' \subseteq Batch
          /\ pipeline \in Seq(Batch)
      BY <3>1 DEF IInv, TypeOK
    <3>3. /\ QueueOrdered' /\ CallsOrdered' /\ CallbacksAreQueued'
          /\ AcknowledgedBehind'
      BY <3>1, <1>1, QueueKept
    <3>4. /\ pipeline' = pipeline
          /\ stream' \in {"Initial", "Error"} \cup Started
          /\ tokens' \subseteq {"current", "stale"}
          /\ StreamFits(pipeline, stream', FALSE, tokens', enabled')
          /\ stream' # "Open"
      <4>1. "Error" \notin Started /\ "Error" # "Starting"
        BY DEF Started
      <4>2. QED
        BY <3>1, <1>2, <1>3, <4>1, StartKeepsStream
    <3>5. PipelineFilled'
      BY <3>1, <3>4 DEF IInv, PipelineFilled, Begins, FullLen
    <3>6. QED
      BY <3>1, <3>2, <3>3, <3>4, <3>5
  <2>3. QED
    BY <2>1, <2>2
<1>6. StreamInv'
  <2>1. UnderWay(pipeline, stream, handshake, requests, responses)'
    BY <1>1, <1>5 DEF UnderWay
  <2>2. StreamFits(pipeline, stream, handshake, tokens, enabled)'
    BY <1>1, <1>5
  <2>3. QED
    BY <2>1, <2>2, <1>1, <1>5 DEF StreamInv, IdleFits
<1>7. TypeOK'
  BY <1>1, <1>3, <1>4, <1>5 DEF IInv, TypeOK
<1>8. LatestServed'
  BY <1>1 DEF LatestServed
<1>9. QED
  BY <1>5, <1>6, <1>7, <1>8 DEF IInv

LEMMA BackoffElapsesKeeps ==
  ASSUME IInv, BackoffElapses
  PROVE  IInv'
<1>1. /\ stream = "Backoff" /\ stream' = "Starting"
      /\ tokens' = tokens \cup {"current"}
      /\ UNCHANGED <<issued, calls, running, queue, nextBatchId, callbacks,
                     pipeline, handshake, idle, enabled, requests, responses,
                     refused, latest, acknowledged>>
  BY DEF BackoffElapses, app, disk, network
<1>2. TypeOK'
  BY <1>1 DEF IInv, TypeOK, Started
<1>3. StreamInv'
  BY <1>1 DEF IInv, StreamInv, StreamFits, UnderWay, IdleFits, Started
<1>4. PipelineFilled' /\ LatestServed'
  BY <1>1 DEF IInv, PipelineFilled, Begins, FullLen, LatestServed
<1>5. QED
  BY <1>1, <1>2, <1>3, <1>4, QueueKept DEF IInv

LEMMA HandshakeKeeps ==
  ASSUME IInv, OnWriteStreamHandshakeComplete
  PROVE  IInv'
<1>1. /\ responses # <<>> /\ ~handshake /\ responses' = Tail(responses)
      /\ handshake' = TRUE /\ requests' = requests \o pipeline
      /\ idle' = (idle /\ pipeline = <<>>)
      /\ UNCHANGED <<issued, calls, running, queue, nextBatchId, callbacks,
                     pipeline, stream, tokens, enabled, refused, latest,
                     acknowledged>>
  BY DEF OnWriteStreamHandshakeComplete, app, disk
<1>2. /\ StreamFits(pipeline, stream, handshake, tokens, enabled)
      /\ UnderWay(pipeline, stream, handshake, requests, responses)
      /\ IdleFits(pipeline, stream, handshake, idle)
      /\ pipeline \in Seq(Batch)
  BY DEF IInv, StreamInv, TypeOK
<1>3. /\ stream = "Open" /\ responses = <<Hello>> /\ requests = <<>> /\ ~idle
  BY <1>1, <1>2 DEF UnderWay, IdleFits
<1>4. responses' = <<>> /\ <<>> \in Seq(Batch \cup {Hello})
  BY <1>1, <1>3
<1>5. requests' = pipeline /\ pipeline \in Seq(Batch \cup {Hello})
  <2>1. requests' = pipeline
    BY <1>1, <1>2, <1>3, ConcatEmptySeq
  <2>2. QED
    BY <2>1, <1>2, SeqMonotonic, Batch \subseteq Batch \cup {Hello}
<1>6. TypeOK'
  BY <1>1, <1>4, <1>5, <1>3 DEF IInv, TypeOK
<1>7. StreamInv'
  <2>1. UnderWay(pipeline, stream, handshake, requests, responses)'
    <3>1. Len(<<>>) = 0
      OBVIOUS
    <3>2. \A i \in 1 .. Len(pipeline) : 0 + i = i
      BY InvTypes
    <3>3. Len(responses') + Len(requests') = Len(pipeline)
      BY <3>1, <1>4, <1>5, InvTypes
    <3>4. QED
      BY <3>1, <3>2, <3>3, <1>1, <1>3, <1>4, <1>5 DEF UnderWay
  <2>2. StreamFits(pipeline, stream, handshake, tokens, enabled)'
    BY <1>1, <1>2 DEF StreamFits
  <2>3. QED
    BY <2>1, <2>2, <1>1, <1>3 DEF StreamInv, IInv, IdleFits
<1>8. PipelineFilled' /\ LatestServed'
  BY <1>1, <1>4 DEF IInv, PipelineFilled, Begins, FullLen, LatestServed
<1>9. QED
  BY <1>1, <1>6, <1>7, <1>8, QueueKept DEF IInv

\* The result of the oldest batch: what it acknowledges is on the backend.
LEMMA MutationResultKeeps ==
  ASSUME IInv, OnWriteStreamMutationResult
  PROVE  IInv'
<1> DEFINE b == Head(pipeline)
           p == Tail(pipeline)
<1>1. /\ running /\ responses # <<>> /\ handshake /\ pipeline # <<>>
      /\ queue' = Without(queue, b.id)
      /\ callbacks' = callbacks \ Waiting(b.id)
      /\ acknowledged' = acknowledged \cup {b.write}
      /\ responses' = Tail(responses)
      /\ UNCHANGED <<issued, calls, running, nextBatchId, handshake, enabled,
                     refused, latest>>
      /\ FillWritePipeline(queue', p)
  BY DEF OnWriteStreamMutationResult, app
<1>2. /\ queue' \in Seq(Batch) /\ queue' = Tail(queue)
      /\ Len(queue') = Len(queue) - 1
      /\ \A i \in 1 .. Len(queue') : queue'[i] = queue[i + 1]
      /\ QueueOrdered' /\ CallsOrdered' /\ CallbacksAreQueued'
      /\ callbacks' \subseteq Batch
  BY <1>1, FrontLeaves
<1>3. /\ queue # <<>> /\ b = queue[1] /\ b \in Batch
      /\ p \in Seq(Batch) /\ Len(p) = Len(pipeline) - 1
      /\ \A i \in 1 .. Len(p) : p[i] = pipeline[i + 1]
      /\ Begins(p, queue') /\ Sorted(queue')
      /\ Len(p) <= kMaxPendingWrites
  BY <1>1, <1>2, FrontIsOldest
<1> HIDE DEF b, p
<1>4. /\ StreamFits(pipeline, stream, handshake, tokens, enabled)
      /\ UnderWay(pipeline, stream, handshake, requests, responses)
      /\ IdleFits(pipeline, stream, handshake, idle)
      /\ responses \in Seq(Batch \cup {Hello})
      /\ enabled \in BOOLEAN
  BY DEF IInv, StreamInv, TypeOK
<1>5. /\ stream = "Open" /\ ~idle /\ enabled
      /\ Len(responses) + Len(requests) = Len(pipeline)
      /\ \A i \in 1 .. Len(responses) : responses[i] = pipeline[i]
      /\ \A i \in 1 .. Len(requests) :
           requests[i] = pipeline[Len(responses) + i]
  BY <1>1, <1>4 DEF UnderWay, IdleFits, StreamFits, Started
<1>6. /\ Len(responses) \in Nat /\ Len(responses) > 0
      /\ responses' \in Seq(Batch \cup {Hello})
      /\ Len(responses') = Len(responses) - 1
      /\ \A i \in 1 .. Len(responses') : responses'[i] = responses[i + 1]
  <2>1. Len(responses) > 0
    BY <1>1, <1>4, InvTypes, EmptySeq
  <2>2. QED
    BY <2>1, <1>1, <1>4, InvTypes, HeadTailProperties
<1>7. UnderWay(p, stream, handshake, requests, responses')
  <2>1. Len(responses') + Len(requests) = Len(p)
    BY SMTT(40), <1>3, <1>5, <1>6, InvTypes
  <2>2. ASSUME NEW i \in 1 .. Len(responses') PROVE responses'[i] = p[i]
    <3>1. /\ i + 1 \in 1 .. Len(responses) /\ i \in 1 .. Len(p)
      BY <1>3, <1>5, <1>6, InvTypes
    <3>2. QED
      BY <3>1, <1>3, <1>5, <1>6
  <2>3. ASSUME NEW i \in 1 .. Len(requests)
        PROVE  requests[i] = p[Len(responses') + i]
    <3>1. /\ Len(responses') + i \in 1 .. Len(p)
          /\ Len(responses') + i + 1 = Len(responses) + i
      BY SMTT(40), <1>3, <1>5, <1>6, InvTypes
    <3>2. QED
      BY <3>1, <1>3, <1>5
  <2>4. QED
    BY <2>1, <2>2, <2>3, <1>1, <1>5 DEF UnderWay
<1>8. /\ PipelineFilled'
      /\ pipeline' \in Seq(Batch)
      /\ stream' \in {"Initial", "Error"} \cup Started
      /\ tokens' \subseteq {"current", "stale"}
      /\ idle' \in BOOLEAN
      /\ requests' \in Seq(Batch \cup {Hello})
      /\ StreamFits(pipeline, stream, handshake, tokens, enabled)'
      /\ UnderWay(pipeline, stream, handshake, requests, responses)'
      /\ IdleFits(pipeline, stream, handshake, idle)'
  <2>1. /\ enabled' \in BOOLEAN /\ enabled'
        /\ IdleFits(p, stream, handshake, idle)
        /\ ~(stream \in Started /\ ~handshake)
    BY <1>1, <1>4, <1>5 DEF IdleFits
  <2>2. QED
    BY <2>1, <1>1, <1>2, <1>3, <1>6, <1>7, FillKeeps
<1>9. StreamInv'
  BY <1>1, <1>8 DEF StreamInv
<1>10. TypeOK'
  <2>1. b.write \in Write
    BY <1>3 DEF Batch
  <2>2. QED
    BY <2>1, <1>1, <1>2, <1>6, <1>8 DEF IInv, TypeOK
<1>11. LatestServed'
  <2>1. ASSUME responses' # <<>>
        PROVE  latest' = responses'[Len(responses')].write
    <3>1. Len(responses') \in 1 .. Len(responses') /\ Len(responses') + 1 = Len(responses)
      BY <2>1, <1>6, LenProperties, EmptySeq
    <3>2. responses'[Len(responses')] = responses[Len(responses)]
      BY <3>1, <1>6
    <3>3. QED
      BY <3>2, <1>1 DEF IInv, LatestServed
  <2>2. QED
    BY <2>1 DEF LatestServed
<1>12. AcknowledgedBehind'
  <2>1. 1 \in 1 .. Len(queue) /\ Len(queue) \in Nat
    BY <1>3, InvTypes, EmptySeq DEF IInv, TypeOK
  <2>2. b.write <= latest
    <3>1. /\ Len(responses) \in 1 .. Len(responses)
          /\ Len(responses) \in 1 .. Len(pipeline)
          /\ Len(responses) \in 1 .. Len(queue)
          /\ Len(responses) = 1 \/ 1 < Len(responses)
      BY <1>5, <1>6, InvTypes
    <3>2. responses[Len(responses)] = queue[Len(responses)]
      BY <3>1, <1>5 DEF IInv, PipelineFilled, Begins
    <3>3. latest = queue[Len(responses)].write
      BY <3>2, <1>1 DEF IInv, LatestServed
    <3>4. b.write <= queue[Len(responses)].write
      BY SMTT(40), <3>1, <2>1, <1>3, InvTypes DEF IInv, QueueOrdered, Sorted
    <3>5. QED
      BY <3>3, <3>4
  <2>3. b.write <= issued
    BY <2>1, <1>3 DEF IInv, QueueOrdered
  <2>4. ASSUME NEW i \in 1 .. Len(queue')
        PROVE  /\ b.write < queue'[i].write
               /\ \A w \in acknowledged : w < queue'[i].write
    <3>1. i + 1 \in 1 .. Len(queue) /\ 1 < i + 1 /\ queue'[i] = queue[i + 1]
      BY <1>2, InvTypes
    <3>2. QED
      BY <3>1, <2>1, <1>3 DEF IInv, QueueOrdered, Sorted, AcknowledgedBehind
  <2>5. \A j \in 1 .. Len(calls) : b.write < calls[j]
    BY <2>1, <1>3 DEF IInv, CallsOrdered
  <2>6. ASSUME NEW w \in acknowledged'
        PROVE  /\ w <= latest' /\ w <= issued'
               /\ \A i \in 1 .. Len(queue') : w < queue'[i].write
               /\ \A j \in 1 .. Len(calls') : w < calls'[j]
    <3>1. CASE w = b.write
      BY <3>1, <2>2, <2>3, <2>4, <2>5, <1>1
    <3>2. CASE w \in acknowledged
      <4>1. /\ w <= latest /\ w <= issued
            /\ \A j \in 1 .. Len(calls) : w < calls[j]
        BY <3>2 DEF IInv, AcknowledgedBehind
      <4>2. QED
        BY <4>1, <3>2, <2>4, <1>1
    <3>3. QED
      BY <3>1, <3>2, <1>1
  <2>7. QED
    BY <2>6 DEF AcknowledgedBehind
<1>13. QED
  BY <1>2, <1>8, <1>9, <1>10, <1>11, <1>12 DEF IInv

LEMMA IdleTimeoutKeeps ==
  ASSUME IInv, IdleTimeout
  PROVE  IInv'
<1>1. /\ idle /\ stream' = "Initial" /\ tokens' = Stale(tokens)
      /\ requests' = <<>> /\ responses' = <<>> /\ refused' = FALSE
      /\ handshake' = FALSE /\ idle' = FALSE
      /\ UNCHANGED <<issued, calls, running, queue, nextBatchId, callbacks,
                     pipeline, enabled, latest, acknowledged>>
  BY DEF IdleTimeout, Closed, app, disk
<1>2. <<>> \in Seq(Batch \cup {Hello})
  OBVIOUS
<1>3. TypeOK'
  BY <1>1, <1>2 DEF IInv, TypeOK, Stale
<1>4. StreamInv'
  BY <1>1 DEF IInv, StreamInv, StreamFits, UnderWay, IdleFits, Started, Stale
<1>5. PipelineFilled' /\ LatestServed'
  BY <1>1 DEF IInv, PipelineFilled, Begins, FullLen, LatestServed
<1>6. QED
  BY <1>1, <1>3, <1>4, <1>5, QueueKept DEF IInv

LEMMA EmptyBegins ==
  ASSUME NEW q \in Seq(Batch)
  PROVE  Begins(<<>>, q) /\ Len(<<>>) = 0 /\ <<>> \in Seq(Batch)
<1>1. Len(<<>>) = 0 /\ <<>> \in Seq(Batch)
  OBVIOUS
<1>2. Len(q) \in Nat
  BY LenProperties
<1>3. QED
  BY <1>1, <1>2 DEF Begins

LEMMA DisableKeeps ==
  ASSUME IInv, DisableNetwork
  PROVE  IInv'
<1>1. /\ enabled' = FALSE /\ pipeline' = <<>> /\ running
      /\ stream' = IF stream \in Started THEN "Initial" ELSE stream
      /\ tokens' = IF stream \in Started THEN Stale(tokens) ELSE tokens
      /\ requests' = <<>> /\ responses' = <<>> /\ refused' = FALSE
      /\ handshake' = FALSE /\ idle' = FALSE
      /\ UNCHANGED <<issued, calls, running, queue, nextBatchId, callbacks,
                     latest, acknowledged>>
  BY DEF DisableNetwork, Closed, app, disk
<1>2. /\ <<>> \in Seq(Batch \cup {Hello})
      /\ <<>> \in Seq(Batch)
  OBVIOUS
<1>3. TypeOK'
  BY <1>1, <1>2 DEF IInv, TypeOK, Stale
<1>4. StreamInv'
  BY <1>1 DEF IInv, StreamInv, StreamFits, UnderWay, IdleFits, Started, Stale
<1>5. PipelineFilled' /\ LatestServed'
  <2>1. Begins(<<>>, queue) /\ Len(<<>>) = 0
    BY EmptyBegins DEF IInv, TypeOK
  <2>2. QED
    BY <2>1, <1>1 DEF PipelineFilled, Begins, LatestServed
<1>6. QED
  BY <1>1, <1>3, <1>4, <1>5, QueueKept DEF IInv

LEMMA EnableKeeps ==
  ASSUME IInv, EnableNetwork
  PROVE  IInv'
<1>1. /\ running /\ enabled' = TRUE /\ FillWritePipeline(queue, pipeline)
      /\ UNCHANGED <<issued, calls, running, queue, nextBatchId, callbacks,
                     handshake, responses, refused, latest, acknowledged>>
  BY DEF EnableNetwork, app, disk
<1>2. /\ StreamFits(pipeline, stream, handshake, tokens, enabled)
      /\ UnderWay(pipeline, stream, handshake, requests, responses)
      /\ IdleFits(pipeline, stream, handshake, idle)
      /\ queue \in Seq(Batch) /\ Sorted(queue) /\ Begins(pipeline, queue)
      /\ pipeline \in Seq(Batch)
      /\ responses \in Seq(Batch \cup {Hello})
      /\ Len(pipeline) <= kMaxPendingWrites
  BY InvTypes DEF IInv, StreamInv, TypeOK, QueueOrdered, PipelineFilled
<1>3. /\ PipelineFilled'
      /\ pipeline' \in Seq(Batch)
      /\ stream' \in {"Initial", "Error"} \cup Started
      /\ tokens' \subseteq {"current", "stale"}
      /\ idle' \in BOOLEAN
      /\ requests' \in Seq(Batch \cup {Hello})
      /\ StreamFits(pipeline, stream, handshake, tokens, enabled)'
      /\ UnderWay(pipeline, stream, handshake, requests, responses)'
      /\ IdleFits(pipeline, stream, handshake, idle)'
  <2>1. /\ stream \in Started /\ ~handshake => pipeline # <<>>
        /\ enabled' \in BOOLEAN /\ enabled'
    BY <1>1, <1>2 DEF StreamFits
  <2>2. /\ queue' = queue /\ responses' = responses /\ handshake' = handshake
    BY <1>1
  <2>3. QED
    BY <2>1, <2>2, <1>1, <1>2, FillKeeps
<1>4. TypeOK'
  BY <1>1, <1>3 DEF IInv, TypeOK
<1>5. StreamInv'
  BY <1>1, <1>3 DEF StreamInv
<1>6. LatestServed'
  BY <1>1 DEF IInv, LatestServed
<1>7. QED
  BY <1>1, <1>3, <1>4, <1>5, <1>6, QueueKept DEF IInv

LEMMA CrashKeeps ==
  ASSUME IInv, Crash
  PROVE  IInv'
<1>1. /\ running' = FALSE /\ calls' = <<>> /\ callbacks' = {}
      /\ pipeline' = <<>> /\ stream' = "Initial" /\ tokens' = {}
      /\ enabled' = FALSE
      /\ requests' = <<>> /\ responses' = <<>> /\ refused' = FALSE
      /\ handshake' = FALSE /\ idle' = FALSE
      /\ UNCHANGED <<issued, queue, nextBatchId, latest, acknowledged>>
  BY DEF Crash, Closed, disk
<1>2. /\ <<>> \in Seq(Batch \cup {Hello})
      /\ <<>> \in Seq(Batch) /\ <<>> \in Seq(Write) /\ Len(<<>>) = 0
      /\ 1 .. 0 = {}
  OBVIOUS
<1>3. TypeOK'
  BY <1>1, <1>2 DEF IInv, TypeOK
<1>4. StreamInv'
  BY <1>1 DEF StreamInv, StreamFits, UnderWay, IdleFits, Started
<1>5. PipelineFilled' /\ LatestServed'
  <2>1. Begins(<<>>, queue)
    BY EmptyBegins DEF IInv, TypeOK
  <2>2. QED
    BY <2>1, <1>1, <1>2 DEF PipelineFilled, Begins, LatestServed
<1>6. QueueOrdered' /\ CallsOrdered' /\ CallbacksAreQueued'
  BY <1>1, <1>2
     DEF IInv, QueueOrdered, Sorted, CallsOrdered, CallbacksAreQueued
<1>7. AcknowledgedBehind'
  BY <1>1, <1>2 DEF IInv, AcknowledgedBehind
<1>8. QED
  BY <1>3, <1>4, <1>5, <1>6, <1>7 DEF IInv

\* The ids that a process starts with are larger than those on the disk.
LEMMA InitializeKeeps ==
  ASSUME IInv, Initialize
  PROVE  IInv'
<1>1. /\ ~running /\ running' = TRUE /\ enabled' = TRUE
      /\ FillWritePipeline(queue, <<>>)
      /\ nextBatchId' = LoadNextBatchId(queue)
      /\ UNCHANGED <<issued, calls, queue, callbacks, handshake, responses,
                     refused, latest, acknowledged>>
  BY DEF Initialize
<1>2. pipeline = <<>> /\ ~enabled
  BY <1>1, InvTypes DEF IInv, StreamInv
<1>3. /\ StreamFits(pipeline, stream, handshake, tokens, enabled)
      /\ UnderWay(<<>>, stream, handshake, requests, responses)
      /\ IdleFits(<<>>, stream, handshake, idle)
      /\ queue \in Seq(Batch) /\ Sorted(queue)
      /\ responses \in Seq(Batch \cup {Hello})
  BY <1>2 DEF IInv, StreamInv, TypeOK, QueueOrdered
<1>4. /\ Begins(<<>>, queue) /\ Len(<<>>) <= kMaxPendingWrites
      /\ <<>> \in Seq(Batch)
  BY <1>3, EmptyBegins, PendingAssumption
<1>5. /\ PipelineFilled'
      /\ pipeline' \in Seq(Batch)
      /\ stream' \in {"Initial", "Error"} \cup Started
      /\ tokens' \subseteq {"current", "stale"}
      /\ idle' \in BOOLEAN
      /\ requests' \in Seq(Batch \cup {Hello})
      /\ StreamFits(pipeline, stream, handshake, tokens, enabled)'
      /\ UnderWay(pipeline, stream, handshake, requests, responses)'
      /\ IdleFits(pipeline, stream, handshake, idle)'
  <2>1. /\ stream \notin Started
        /\ enabled' \in BOOLEAN /\ enabled'
    BY <1>1, <1>2, <1>3 DEF StreamFits
  <2>2. /\ queue' = queue /\ responses' = responses /\ handshake' = handshake
    BY <1>1
  <2>3. QED
    BY <2>1, <2>2, <1>1, <1>3, <1>4, FillKeeps
<1>6. /\ nextBatchId' \in Nat \ {0}
      /\ \A i \in 1 .. Len(queue) : queue[i].id < nextBatchId'
  <2>1. CASE queue = <<>>
    <3>1. 1 .. Len(queue) = {}
      BY <2>1
    <3>2. QED
      BY <3>1, <2>1, <1>1 DEF LoadNextBatchId
  <2>2. CASE queue # <<>>
    <3>1. Len(queue) \in 1 .. Len(queue)
      BY <2>2, <1>3, InvTypes, EmptySeq
    <3>2. nextBatchId' = queue[Len(queue)].id + 1
      BY <2>2, <1>1 DEF LoadNextBatchId
    <3>3. ASSUME NEW i \in 1 .. Len(queue)
          PROVE  queue[i].id <= queue[Len(queue)].id
      <4>1. i = Len(queue) \/ i < Len(queue)
        BY InvTypes
      <4>2. queue[i].id \in Nat /\ queue[Len(queue)].id \in Nat
        BY <3>1, InvTypes
      <4>3. CASE i = Len(queue)
        BY <4>2, <4>3
      <4>4. CASE i < Len(queue)
        <5>1. queue[i].id < queue[Len(queue)].id
          BY <4>4, <3>1, <1>3 DEF Sorted
        <5>2. QED
          BY <4>2, <5>1
      <4>5. QED
        BY <4>1, <4>3, <4>4
    <3>4. queue[Len(queue)].id \in Nat
      BY <3>1, InvTypes
    <3>5. \A i \in 1 .. Len(queue) : queue[i].id \in Nat
      BY InvTypes
    <3>6. QED
      BY <3>2, <3>3, <3>4, <3>5
  <2>3. QED
    BY <2>1, <2>2
<1>7. QueueOrdered'
  BY <1>1, <1>6 DEF IInv, QueueOrdered, Sorted
<1>8. CallsOrdered' /\ AcknowledgedBehind' /\ CallbacksAreQueued'
  BY <1>1 DEF IInv, CallsOrdered, AcknowledgedBehind, CallbacksAreQueued
<1>9. TypeOK'
  BY <1>1, <1>5, <1>6 DEF IInv, TypeOK
<1>10. StreamInv'
  BY <1>1, <1>5 DEF StreamInv
<1>11. LatestServed'
  BY <1>1 DEF IInv, LatestServed
<1>12. QED
  BY <1>5, <1>7, <1>8, <1>9, <1>10, <1>11 DEF IInv

\* The backend serves the next batch of the pipeline: it goes forward.
LEMMA ServeKeeps ==
  ASSUME IInv, Serve
  PROVE  IInv'
<1>1. /\ requests # <<>> /\ requests' = Tail(requests)
      /\ responses' = Append(responses, Head(requests))
      /\ latest' = IF Head(requests) = Hello THEN latest
                   ELSE Head(requests).write
      /\ UNCHANGED <<issued, calls, running, queue, nextBatchId, callbacks,
                     pipeline, stream, handshake, tokens, idle, enabled,
                     refused, acknowledged>>
  BY DEF Serve, app, disk, conn
<1>2. /\ requests \in Seq(Batch \cup {Hello})
      /\ responses \in Seq(Batch \cup {Hello})
      /\ pipeline \in Seq(Batch)
      /\ StreamFits(pipeline, stream, handshake, tokens, enabled)
      /\ UnderWay(pipeline, stream, handshake, requests, responses)
      /\ IdleFits(pipeline, stream, handshake, idle)
  BY DEF IInv, TypeOK, StreamInv
<1>3. /\ Len(requests) \in Nat /\ Len(requests) > 0 /\ Len(responses) \in Nat
      /\ Head(requests) = requests[1] /\ requests[1] \in Batch \cup {Hello}
      /\ requests' \in Seq(Batch \cup {Hello})
      /\ Len(requests') = Len(requests) - 1
      /\ \A i \in 1 .. Len(requests') : requests'[i] = requests[i + 1]
  <2>1. Len(requests) > 0 /\ 1 \in 1 .. Len(requests)
    BY <1>1, <1>2, InvTypes, EmptySeq
  <2>2. QED
    BY <2>1, <1>1, <1>2, InvTypes, HeadTailProperties, ElementOfSeq
<1>4. /\ responses' \in Seq(Batch \cup {Hello})
      /\ Len(responses') = Len(responses) + 1
      /\ \A i \in 1 .. Len(responses) : responses'[i] = responses[i]
      /\ responses'[Len(responses) + 1] = requests[1]
  BY <1>1, <1>2, <1>3, AppendProperties
<1>5. stream = "Open"
  BY <1>1, <1>2 DEF UnderWay
<1>6. PipelineFilled' /\ QueueOrdered' /\ CallsOrdered' /\ CallbacksAreQueued'
  BY <1>1 DEF IInv, PipelineFilled, Begins, FullLen, QueueOrdered, Sorted,
              CallsOrdered, CallbacksAreQueued
<1>7. CASE ~handshake
  <2>1. requests = <<Hello>> /\ responses = <<>>
    BY <1>1, <1>2, <1>5, <1>7 DEF UnderWay
  <2>2. requests' = <<>> /\ responses' = <<Hello>> /\ latest' = latest
    BY <2>1, <1>1
  <2>3. TypeOK'
    BY <2>2, <1>1, <1>3, <1>4 DEF IInv, TypeOK
  <2>4. UnderWay(pipeline, stream, handshake, requests, responses)'
    BY <2>2, <1>1, <1>5, <1>7 DEF UnderWay
  <2>5. StreamInv'
    BY <2>4, <1>1, <1>2 DEF IInv, StreamInv, StreamFits, IdleFits
  <2>6. LatestServed' /\ AcknowledgedBehind'
    BY <2>2, <1>1, <1>7 DEF IInv, LatestServed, AcknowledgedBehind
  <2>7. QED
    BY <2>3, <2>5, <2>6, <1>6 DEF IInv
<1>8. CASE handshake
  <2>1. /\ Len(responses) + Len(requests) = Len(pipeline)
        /\ \A i \in 1 .. Len(responses) : responses[i] = pipeline[i]
        /\ \A i \in 1 .. Len(requests) :
             requests[i] = pipeline[Len(responses) + i]
    BY <1>2, <1>5, <1>8 DEF UnderWay
  <2>2. /\ Len(responses) + 1 \in 1 .. Len(pipeline)
        /\ Len(responses) + 1 \in 1 .. Len(queue)
        /\ requests[1] = pipeline[Len(responses) + 1]
    BY <2>1, <1>3, InvTypes
  <2>3. requests[1] = queue[Len(responses) + 1]
    BY <2>2 DEF IInv, PipelineFilled, Begins
  <2>4. /\ requests[1] \in Batch /\ requests[1] # Hello
        /\ latest' = queue[Len(responses) + 1].write /\ latest' \in Write
    <3>1. requests[1].id > 0 /\ requests[1] \in Batch /\ requests[1].write \in Write
      BY <2>2, <2>3, InvTypes
    <3>2. Hello.id = 0
      BY DEF Hello
    <3>3. requests[1] # Hello
      BY <3>1, <3>2
    <3>4. QED
      BY <3>1, <3>3, <2>3, <1>1, <1>3
  <2>5. TypeOK'
    <3>1. latest' \in 0 .. MaxWrites
      BY <2>4, MaxWritesAssumption DEF Write
    <3>2. /\ requests' \in Seq(Batch \cup {Hello})
          /\ responses' \in Seq(Batch \cup {Hello})
      BY <1>3, <1>4
    <3>3. UNCHANGED <<issued, calls, running, queue, nextBatchId, callbacks,
                      pipeline, stream, handshake, tokens, idle, enabled,
                      refused, acknowledged>>
      BY <1>1
    <3>4. QED
      BY <3>1, <3>2, <3>3 DEF IInv, TypeOK
  <2>6. UnderWay(pipeline, stream, handshake, requests, responses)'
    <3>1. Len(responses') + Len(requests') = Len(pipeline)
      <4>1. /\ Len(requests) \in Nat /\ Len(responses) \in Nat
            /\ Len(requests') = Len(requests) - 1
            /\ Len(responses') = Len(responses) + 1
        BY <1>3, <1>4
      <4>2. Len(responses) + Len(requests) = Len(pipeline)
        BY <2>1
      <4>3. QED
        BY <4>1, <4>2
    <3>2. ASSUME NEW i \in 1 .. Len(responses') PROVE responses'[i] = pipeline[i]
      <4>1. i \in 1 .. Len(responses) \/ i = Len(responses) + 1
        BY <1>3, <1>4
      <4>2. QED
        BY <4>1, <2>1, <2>2, <1>4
    <3>3. ASSUME NEW i \in 1 .. Len(requests')
          PROVE  requests'[i] = pipeline[Len(responses') + i]
      <4>1. i + 1 \in 1 .. Len(requests)
            /\ Len(responses) + (i + 1) = Len(responses') + i
        BY <1>3, <1>4
      <4>2. requests'[i] = requests[i + 1]
        BY <1>3
      <4>3. requests[i + 1] = pipeline[Len(responses) + (i + 1)]
        BY <4>1, <2>1, Zenon
      <4>4. QED
        BY <4>1, <4>2, <4>3
    <3>4. QED
      BY <3>1, <3>2, <3>3, <1>1, <1>5, <1>8 DEF UnderWay
  <2>7. StreamInv'
    BY <2>6, <1>1, <1>2 DEF IInv, StreamInv, StreamFits, IdleFits
  <2>8. LatestServed'
    BY <2>3, <2>4, <1>4 DEF LatestServed
  <2>9. AcknowledgedBehind'
    <3>1. ASSUME NEW w \in acknowledged PROVE w <= latest'
      <4>1. w < latest' /\ w \in Nat /\ latest' \in Nat
        BY <2>2, <2>4, InvTypes DEF IInv, AcknowledgedBehind
      <4>2. QED
        BY <4>1
    <3>2. QED
      BY <3>1, <1>1 DEF IInv, AcknowledgedBehind
  <2>10. QED
    BY <2>5, <2>7, <2>8, <2>9, <1>6 DEF IInv
<1>9. QED
  BY <1>7, <1>8

LEMMA RefuseKeeps ==
  ASSUME IInv, Refuse
  PROVE  IInv'
<1>1. /\ refused' = TRUE
      /\ UNCHANGED <<issued, calls, running, queue, nextBatchId, callbacks,
                     pipeline, stream, handshake, tokens, idle, enabled,
                     requests, responses, latest, acknowledged>>
  BY DEF Refuse, app, disk, conn
<1>2. TypeOK'
  BY <1>1 DEF IInv, TypeOK
<1>3. StreamInv' /\ PipelineFilled' /\ LatestServed'
  BY <1>1 DEF IInv, StreamInv, StreamFits, UnderWay, IdleFits, PipelineFilled,
              Begins, FullLen, LatestServed
<1>4. QED
  BY <1>1, <1>2, <1>3, QueueKept DEF IInv

-----------------------------------------------------------------------------
(* The theorems.                                                           *)

LEMMA InvInit == Init => IInv
<1> SUFFICES ASSUME Init PROVE IInv
  OBVIOUS
<1>1. /\ <<>> \in Seq(Batch) /\ <<>> \in Seq(Write)
      /\ <<>> \in Seq(Batch \cup {Hello}) /\ Len(<<>>) = 0 /\ 1 .. 0 = {}
  OBVIOUS
<1>2. TypeOK
  <2>1. /\ issued \in 0 .. MaxWrites /\ latest \in 0 .. MaxWrites
        /\ nextBatchId \in Nat \ {0}
    BY MaxWritesAssumption DEF Init
  <2>2. /\ calls \in Seq(Write) /\ queue \in Seq(Batch)
        /\ pipeline \in Seq(Batch)
        /\ requests \in Seq(Batch \cup {Hello})
        /\ responses \in Seq(Batch \cup {Hello})
    BY <1>1 DEF Init
  <2>3. /\ callbacks \subseteq Batch /\ acknowledged \subseteq Write
        /\ stream \in {"Initial", "Error"} \cup Started
        /\ tokens \subseteq {"current", "stale"}
        /\ handshake \in BOOLEAN /\ idle \in BOOLEAN /\ enabled \in BOOLEAN
        /\ running \in BOOLEAN /\ refused \in BOOLEAN
    BY DEF Init
  <2>4. QED
    BY <2>1, <2>2, <2>3 DEF TypeOK
<1>3. QueueOrdered /\ CallsOrdered /\ CallbacksAreQueued /\ AcknowledgedBehind
  BY <1>1 DEF Init, QueueOrdered, Sorted, CallsOrdered, CallbacksAreQueued,
              AcknowledgedBehind
<1>4. PipelineFilled /\ LatestServed
  BY <1>1, PendingAssumption
     DEF Init, PipelineFilled, Begins, FullLen, LatestServed
<1>5. StreamInv
  BY DEF Init, StreamInv, StreamFits, UnderWay, IdleFits, Started
<1>6. QED
  BY <1>2, <1>3, <1>4, <1>5 DEF IInv

LEMMA InvNext == IInv /\ [Next]_vars => IInv'
<1> SUFFICES ASSUME IInv, [Next]_vars PROVE IInv'
  OBVIOUS
<1>1. CASE CallWrite
  BY <1>1, CallWriteKeeps
<1>2. CASE WriteMutations
  BY <1>2, WriteMutationsKeeps
<1>3. CASE TokenArrives("current") \/ TokenArrives("stale")
  BY <1>3, TokenArrivesKeeps
<1>4. tokens \in SUBSET {"current", "stale"}
  BY DEF IInv, TypeOK
<1>5. CASE TokenFails
  <2>1. tokens \ {"current"} \in SUBSET {"current", "stale"}
    BY <1>4
  <2>2. QED
    BY <1>5, <2>1, OnStreamFinishKeeps DEF TokenFails
<1>6. CASE StreamBreaks
  BY <1>6, <1>4, OnStreamFinishKeeps DEF StreamBreaks
<1>7. CASE StreamRefused
  BY <1>7, <1>4, OnStreamFinishKeeps DEF StreamRefused
<1>8. CASE BackoffElapses
  BY <1>8, BackoffElapsesKeeps
<1>9. CASE OnWriteStreamHandshakeComplete
  BY <1>9, HandshakeKeeps
<1>10. CASE OnWriteStreamMutationResult
  BY <1>10, MutationResultKeeps
<1>11. CASE IdleTimeout
  BY <1>11, IdleTimeoutKeeps
<1>12. CASE DisableNetwork
  BY <1>12, DisableKeeps
<1>13. CASE EnableNetwork
  BY <1>13, EnableKeeps
<1>14. CASE Initialize
  BY <1>14, InitializeKeeps
<1>15. CASE Crash
  BY <1>15, CrashKeeps
<1>16. CASE Serve
  BY <1>16, ServeKeeps
<1>17. CASE Refuse
  BY <1>17, RefuseKeeps
<1>18. CASE UNCHANGED vars
  <2>1. UNCHANGED <<issued, calls, running, queue, nextBatchId, callbacks,
                    pipeline, stream, handshake, tokens, idle, enabled,
                    requests, responses, refused, latest, acknowledged>>
    BY <1>18 DEF vars, app, disk, conn, network
  <2>2. TypeOK'
    BY <2>1 DEF IInv, TypeOK
  <2>3. StreamInv' /\ PipelineFilled' /\ LatestServed'
    BY <2>1 DEF IInv, StreamInv, StreamFits, UnderWay, IdleFits,
                PipelineFilled, Begins, FullLen, LatestServed
  <2>4. QED
    BY <2>1, <2>2, <2>3, QueueKept DEF IInv
<1>19. QED
  BY <1>1, <1>2, <1>3, <1>5, <1>6, <1>7, <1>8, <1>9, <1>10, <1>11, <1>12,
     <1>13, <1>14, <1>15, <1>16, <1>17, <1>18 DEF Next, Client

LEMMA InvAlways == Spec => []IInv
  BY InvInit, InvNext, PTL DEF Spec

\* The client's variables keep their types.
THEOREM TypeCorrect == Spec => []TypeOK
<1>1. IInv => TypeOK
  BY DEF IInv
<1>2. QED
  BY <1>1, InvAlways, PTL

\* RemoteStore's pipeline is the front of LocalStore's queue, and is full
\* whenever it can be.
THEOREM PipelineCorrect == Spec => []PipelineIsPrefix
<1>1. ASSUME IInv PROVE PipelineIsPrefix
  <2>1. /\ queue \in Seq(Batch) /\ pipeline \in Seq(Batch)
        /\ Begins(pipeline, queue)
        /\ Len(pipeline) = IF enabled THEN FullLen(queue) ELSE 0
    BY <1>1 DEF IInv, TypeOK, PipelineFilled
  <2>2. IsPrefix(pipeline, queue)
    <3>1. Len(pipeline) \in Nat /\ Len(queue) \in Nat
      BY <2>1, LenProperties
    <3>2. SubSeq(queue, 1, Len(pipeline)) = pipeline
      <4>1. CASE pipeline = <<>>
        BY <4>1, <2>1, SubSeqEmpty
      <4>2. CASE pipeline # <<>>
        <5>1. /\ 1 \in 1 .. Len(queue) /\ Len(pipeline) \in 1 .. Len(queue)
              /\ Len(pipeline) > 0
          BY <4>2, <2>1, <3>1, EmptySeq DEF Begins
        <5>2. /\ SubSeq(queue, 1, Len(pipeline)) \in Seq(Batch)
              /\ Len(SubSeq(queue, 1, Len(pipeline))) = Len(pipeline)
              /\ \A i \in 1 .. Len(pipeline) :
                   SubSeq(queue, 1, Len(pipeline))[i] = queue[i]
          BY <5>1, <2>1, <3>1, SubSeqProperties
        <5>3. QED
          BY <5>2, <2>1, SeqEqual DEF Begins
      <4>3. QED
        BY <4>1, <4>2
    <3>3. QED
      BY <2>1, <3>1, <3>2 DEF IsPrefix, Begins
  <2>3. QED
    BY <2>1, <2>2 DEF PipelineIsPrefix, FullLen
<1>2. QED
  BY <1>1, InvAlways, PTL

\* WriteStream matches each result with the batch it is for.
THEOREM ResponsesCorrect == Spec => []ResponsesMatch
<1>1. ASSUME IInv PROVE ResponsesMatch
  <2>1. /\ requests \in Seq(Batch \cup {Hello})
        /\ responses \in Seq(Batch \cup {Hello})
        /\ pipeline \in Seq(Batch)
        /\ UnderWay(pipeline, stream, handshake, requests, responses)
    BY <1>1 DEF IInv, TypeOK, StreamInv
  <2>2. CASE stream # "Open"
    BY <2>1, <2>2, ConcatEmptySeq DEF UnderWay, ResponsesMatch
  <2>3. CASE stream = "Open" /\ ~handshake
    <3>1. <<Hello>> \in Seq(Batch \cup {Hello})
      OBVIOUS
    <3>2. QED
      BY <2>1, <2>3, <3>1, ConcatEmptySeq DEF UnderWay, ResponsesMatch
  <2>4. CASE stream = "Open" /\ handshake
    <3> DEFINE c == responses \o requests
    <3>1. /\ Len(responses) + Len(requests) = Len(pipeline)
          /\ \A i \in 1 .. Len(responses) : responses[i] = pipeline[i]
          /\ \A i \in 1 .. Len(requests) :
               requests[i] = pipeline[Len(responses) + i]
          /\ Len(responses) \in Nat /\ Len(requests) \in Nat
          /\ Len(pipeline) \in Nat
      BY <2>1, <2>4, LenProperties DEF UnderWay
    <3>2. /\ c \in Seq(Batch \cup {Hello})
          /\ Len(c) = Len(responses) + Len(requests)
          /\ \A i \in 1 .. Len(responses) : c[i] = responses[i]
          /\ \A i \in 1 .. Len(requests) : c[Len(responses) + i] = requests[i]
      BY <2>1, ConcatProperties
    <3> HIDE DEF c
    <3>3. ASSUME NEW i \in 1 .. Len(c) PROVE c[i] = pipeline[i]
      <4>1. CASE i \in 1 .. Len(responses)
        BY <4>1, <3>1, <3>2
      <4>2. CASE i \notin 1 .. Len(responses)
        <5>1. PICK k \in 1 .. Len(requests) : i = Len(responses) + k
          <6>1. i - Len(responses) \in 1 .. Len(requests)
                /\ i = Len(responses) + (i - Len(responses))
            BY <4>2, <3>1, <3>2
          <6>2. QED
            BY <6>1
        <5>2. c[Len(responses) + k] = requests[k]
              /\ requests[k] = pipeline[Len(responses) + k]
          BY <5>1, <3>1, <3>2, Zenon
        <5>3. QED
          BY <5>1, <5>2
      <4>3. QED
        BY <4>1, <4>2
    <3>4. pipeline \in Seq(Batch \cup {Hello})
      BY <2>1, SeqMonotonic, Batch \subseteq Batch \cup {Hello}
    <3>5. c = pipeline
      BY <3>1, <3>2, <3>3, <3>4, SeqEqual
    <3>6. QED
      BY <2>4, <3>5 DEF ResponsesMatch, c
  <2>5. QED
    BY <2>2, <2>3, <2>4
<1>2. QED
  BY <1>1, InvAlways, PTL

\* The idle timer of the write stream never stops a stream with work to do.
THEOREM IdleCorrect == Spec => []IdleMeansDrained
<1>1. IInv => IdleMeansDrained
  BY DEF IInv, StreamInv, IdleFits, IdleMeansDrained
<1>2. QED
  BY <1>1, InvAlways, PTL

\* The close count of the stream keeps late credentials from a later start.
THEOREM StartCorrect == Spec => []StartingWaits
<1>1. IInv => StartingWaits
  BY DEF IInv, StreamInv, StreamFits, StartingWaits
<1>2. QED
  BY <1>1, InvAlways, PTL

\* SyncEngine keeps the callbacks of the batches that are in the queue.
THEOREM CallbacksCorrect == Spec => []CallbacksAreQueued
<1>1. IInv => CallbacksAreQueued
  BY DEF IInv
<1>2. QED
  BY <1>1, InvAlways, PTL

\* An acknowledged write stays applied, however often others are sent again.
THEOREM NeverBehindCorrect == Spec => []NeverBehind
<1>1. IInv => NeverBehind
  BY DEF IInv, AcknowledgedBehind, NeverBehind
<1>2. QED
  BY <1>1, InvAlways, PTL

-----------------------------------------------------------------------------
(***************************************************************************)
(* The refinement: FirestoreWrites implements WriteQueue.                  *)
(***************************************************************************)

(* The queue of the abstract device.                                       *)

\* The writes of a queue of batches.
Writes(q) == [i \in 1 .. Len(q) |-> q[i].write]

\* The writes of the batches, then the calls.
LEMMA Joined ==
  ASSUME NEW q \in Seq(Batch), NEW c \in Seq(Write)
  PROVE  /\ Len(q) \in Nat /\ Len(c) \in Nat
         /\ Writes(q) \o c \in Seq(Write)
         /\ Len(Writes(q) \o c) = Len(q) + Len(c)
         /\ \A i \in 1 .. Len(q) : (Writes(q) \o c)[i] = q[i].write
         /\ \A i \in 1 .. Len(c) : (Writes(q) \o c)[Len(q) + i] = c[i]
<1>1. Len(q) \in Nat /\ Len(c) \in Nat
  BY LenProperties
<1>2. \A i \in 1 .. Len(q) : q[i].write \in Write
  <2>1. \A b \in Batch : b.write \in Write
    BY DEF Batch
  <2>2. \A i \in 1 .. Len(q) : q[i] \in Batch
    BY ElementOfSeq
  <2>3. QED
    BY <2>1, <2>2
<1>3. /\ Writes(q) \in [1 .. Len(q) -> Write]
      /\ \A i \in 1 .. Len(q) : Writes(q)[i] = q[i].write
  BY <1>2 DEF Writes
<1>4. Writes(q) \in Seq(Write)
  BY <1>1, <1>3, SeqDef
<1>5. Len(Writes(q)) = Len(q)
  <2>1. DOMAIN Writes(q) = 1 .. Len(q) /\ DOMAIN Writes(q) = 1 .. Len(Writes(q))
    BY <1>3, <1>4, LenProperties
  <2>2. Len(Writes(q)) \in Nat
    BY <1>4, LenProperties
  <2>3. QED
    BY <1>1, <2>1, <2>2
<1>6. /\ Writes(q) \o c \in Seq(Write)
      /\ Len(Writes(q) \o c) = Len(Writes(q)) + Len(c)
      /\ \A i \in 1 .. Len(Writes(q)) + Len(c) :
           (Writes(q) \o c)[i] = IF i <= Len(Writes(q)) THEN Writes(q)[i]
                                 ELSE c[i - Len(Writes(q))]
  BY <1>4, ConcatProperties
<1> HIDE DEF Writes
<1>7. ASSUME NEW i \in 1 .. Len(q) PROVE (Writes(q) \o c)[i] = q[i].write
  <2>1. i \in 1 .. Len(q) + Len(c) /\ i <= Len(q)
    BY <1>1
  <2>2. QED
    BY <1>3, <1>5, <1>6, <2>1
<1>8. ASSUME NEW i \in 1 .. Len(c) PROVE (Writes(q) \o c)[Len(q) + i] = c[i]
  <2>1. /\ Len(q) + i \in 1 .. Len(q) + Len(c) /\ ~(Len(q) + i <= Len(q))
        /\ Len(q) + i - Len(q) = i
    BY <1>1
  <2>2. QED
    BY <1>5, <1>6, <2>1
<1>9. QED
  BY <1>1, <1>5, <1>6, <1>7, <1>8

\* The abstract queue and its next value.
LEMMA OutboxIs ==
  /\ Outbox = Writes(queue) \o calls
  /\ Outbox' = Writes(queue') \o calls'
  BY DEF Outbox, Writes

\* It only depends on the two queues.
LEMMA OutboxKept ==
  ASSUME UNCHANGED <<queue, calls>>
  PROVE  Outbox' = Outbox
  BY OutboxIs

\* The oldest batch leaves.
LEMMA OutboxShrinks ==
  ASSUME IInv, queue # <<>>, queue' = Tail(queue), UNCHANGED calls
  PROVE  /\ Outbox' = Tail(Outbox) /\ Head(Outbox) = queue[1].write
         /\ Len(queue) \in Nat /\ Len(queue) > 0 /\ Len(queue') = Len(queue) - 1
<1>1. queue \in Seq(Batch) /\ calls \in Seq(Write)
  BY DEF IInv, TypeOK
<1>2. /\ Len(queue) \in Nat /\ Len(queue) > 0
      /\ queue' \in Seq(Batch) /\ Len(queue') = Len(queue) - 1
      /\ \A i \in 1 .. Len(queue') : queue'[i] = queue[i + 1]
  BY <1>1, HeadTailProperties, LenProperties, EmptySeq
<1> DEFINE o == Writes(queue) \o calls
           n == Writes(queue') \o calls
<1>3. /\ Len(calls) \in Nat /\ o \in Seq(Write)
      /\ Len(o) = Len(queue) + Len(calls)
      /\ \A i \in 1 .. Len(queue) : o[i] = queue[i].write
      /\ \A i \in 1 .. Len(calls) : o[Len(queue) + i] = calls[i]
  BY <1>1, Joined
<1>4. /\ n \in Seq(Write) /\ Len(n) = Len(queue) - 1 + Len(calls)
      /\ \A i \in 1 .. Len(queue') : n[i] = queue'[i].write
      /\ \A i \in 1 .. Len(calls) : n[Len(queue') + i] = calls[i]
  BY <1>1, <1>2, Joined
<1> HIDE DEF o, n
<1>5. /\ Len(o) > 0 /\ o # <<>>
  BY <1>2, <1>3, EmptySeq
<1>6. /\ Tail(o) \in Seq(Write) /\ Len(Tail(o)) = Len(o) - 1
      /\ \A i \in 1 .. Len(Tail(o)) : Tail(o)[i] = o[i + 1]
      /\ Head(o) = o[1]
  BY <1>3, <1>5, HeadTailProperties
<1>7. ASSUME NEW i \in 1 .. Len(n) PROVE n[i] = Tail(o)[i]
  <2>1. CASE i <= Len(queue')
    <3>1. i \in 1 .. Len(queue') /\ i + 1 \in 1 .. Len(queue)
          /\ i \in 1 .. Len(Tail(o))
      BY <1>2, <1>3, <1>4, <1>6, <2>1
    <3>2. QED
      BY <1>2, <1>3, <1>4, <1>6, <3>1
  <2>2. CASE i > Len(queue')
    <3>1. PICK k \in 1 .. Len(calls) : /\ i = Len(queue') + k
                                       /\ i + 1 = Len(queue) + k
      <4>1. /\ i - Len(queue') \in 1 .. Len(calls)
            /\ i = Len(queue') + (i - Len(queue'))
            /\ i + 1 = Len(queue) + (i - Len(queue'))
        BY <1>2, <1>3, <1>4, <2>2
      <4>2. QED
        BY <4>1
    <3>2. i \in 1 .. Len(Tail(o))
      BY <1>2, <1>3, <1>4, <1>6
    <3>3. n[i] = calls[k]
      BY <1>4, <3>1
    <3>4. Tail(o)[i] = calls[k]
      BY <1>3, <1>6, <3>1, <3>2
    <3>5. QED
      BY <3>3, <3>4
  <2>3. i <= Len(queue') \/ i > Len(queue')
    BY <1>2, <1>3, <1>4
  <2>4. QED
    BY <2>1, <2>2, <2>3, Zenon
<1>8. n = Tail(o)
  <2>1. Len(n) = Len(Tail(o))
    BY <1>2, <1>3, <1>4, <1>6
  <2>2. QED
    BY <1>4, <1>6, <1>7, <2>1, SeqEqual
<1>9. Head(o) = queue[1].write
  <2>1. 1 \in 1 .. Len(queue)
    BY <1>2
  <2>2. QED
    BY <1>3, <1>6, <2>1
<1>10. QED
  BY <1>2, <1>8, <1>9, OutboxIs DEF o, n

-----------------------------------------------------------------------------
(* The steps of the client.                                                *)

\* The newest acknowledged write.
LEMMA NewestIs ==
  ASSUME NEW S \in SUBSET Nat, NEW w \in S, \A v \in S : v <= w
  PROVE  (CHOOSE x \in S : \A v \in S : v <= x) = w
<1>1. \A x \in S : (\A v \in S : v <= x) => x = w
  OBVIOUS
<1>2. QED
  BY <1>1

\* A step that leaves what the abstract device consists of is a stutter.
LEMMA Stutters ==
  ASSUME UNCHANGED <<issued, calls, queue, latest, acknowledged>>,
         Applied' = Applied
  PROVE  UNCHANGED Abstract!vars
<1>1. Outbox' = Outbox
  BY OutboxKept
<1>2. Confirmed' = Confirmed
  BY DEF Confirmed
<1>3. QED
  BY <1>1, <1>2 DEF Abstract!vars

\* So is one that loses the answers under way, but for these.
LEMMA Loses ==
  ASSUME UNCHANGED <<issued, calls, queue, latest, acknowledged>>,
         ~handshake'
  PROVE  Abstract!LoseAnswers
<1>1. Outbox' = Outbox
  BY OutboxKept
<1>2. Confirmed' = Confirmed
  BY DEF Confirmed
<1>3. Applied' = 0
  BY DEF Applied
<1>4. QED
  BY <1>1, <1>2, <1>3 DEF Abstract!LoseAnswers

\* setData adds a write.
LEMMA CallWriteImplements ==
  ASSUME IInv, CallWrite
  PROVE  Abstract!Issue
<1>1. /\ issued < MaxWrites /\ issued' = issued + 1
      /\ calls' = Append(calls, issued + 1)
      /\ UNCHANGED <<queue, handshake, responses, latest, acknowledged>>
  BY DEF CallWrite, disk, conn, network
<1>2. /\ queue \in Seq(Batch) /\ calls \in Seq(Write)
      /\ issued + 1 \in Write
  BY <1>1, MaxWritesAssumption DEF IInv, TypeOK, Write
<1> DEFINE c == Append(calls, issued + 1)
<1>3. /\ c \in Seq(Write) /\ Len(c) = Len(calls) + 1
      /\ \A i \in 1 .. Len(calls) : c[i] = calls[i]
      /\ c[Len(calls) + 1] = issued + 1
  BY <1>2, AppendProperties
<1> HIDE DEF c
<1> DEFINE o == Writes(queue) \o calls
           n == Writes(queue) \o c
           e == Append(o, issued + 1)
<1>4. /\ Len(queue) \in Nat /\ Len(calls) \in Nat
      /\ o \in Seq(Write) /\ Len(o) = Len(queue) + Len(calls)
      /\ \A i \in 1 .. Len(queue) : o[i] = queue[i].write
      /\ \A i \in 1 .. Len(calls) : o[Len(queue) + i] = calls[i]
  BY <1>2, Joined
<1>5. /\ n \in Seq(Write) /\ Len(n) = Len(queue) + (Len(calls) + 1)
      /\ \A i \in 1 .. Len(queue) : n[i] = queue[i].write
      /\ \A i \in 1 .. Len(calls) + 1 : n[Len(queue) + i] = c[i]
  <2>1. queue \in Seq(Batch) /\ c \in Seq(Write)
    BY <1>2, <1>3
  <2>2. /\ n \in Seq(Write) /\ Len(n) = Len(queue) + Len(c)
        /\ \A i \in 1 .. Len(queue) : n[i] = queue[i].write
        /\ \A i \in 1 .. Len(c) : n[Len(queue) + i] = c[i]
    BY <2>1, Joined, Zenon
  <2> HIDE DEF n
  <2>3. Len(c) = Len(calls) + 1
    BY <1>3
  <2>4. QED
    BY <2>2, <2>3, Zenon
<1> HIDE DEF o, n
<1>6. /\ e \in Seq(Write) /\ Len(e) = Len(o) + 1
      /\ \A i \in 1 .. Len(o) : e[i] = o[i]
      /\ e[Len(o) + 1] = issued + 1
  BY <1>2, <1>4, AppendProperties
<1> HIDE DEF e
<1>7. ASSUME NEW i \in 1 .. Len(n) PROVE n[i] = e[i]
  <2>1. CASE i <= Len(queue)
    <3>1. i \in 1 .. Len(queue) /\ i \in 1 .. Len(o)
      BY <1>4, <1>5, <2>1
    <3>2. QED
      BY <1>4, <1>5, <1>6, <3>1
  <2>2. CASE i > Len(queue) /\ i <= Len(queue) + Len(calls)
    <3>1. PICK k \in 1 .. Len(calls) : i = Len(queue) + k
      <4>1. i - Len(queue) \in 1 .. Len(calls) /\ i = Len(queue) + (i - Len(queue))
        BY <1>4, <1>5, <2>2
      <4>2. QED
        BY <4>1
    <3>2. i \in 1 .. Len(o) /\ k \in 1 .. Len(calls) + 1
      BY <1>4, <3>1
    <3>3. n[i] = calls[k]
      BY <1>3, <1>5, <3>1, <3>2
    <3>4. e[i] = calls[k]
      BY <1>4, <1>6, <3>1, <3>2
    <3>5. QED
      BY <3>3, <3>4
  <2>3. CASE i = Len(queue) + (Len(calls) + 1)
    <3>1. Len(calls) + 1 \in 1 .. Len(calls) + 1 /\ i = Len(o) + 1
      BY <1>4, <2>3
    <3>2. n[i] = issued + 1
      BY <1>3, <1>5, <2>3, <3>1
    <3>3. QED
      BY <1>6, <3>1, <3>2
  <2>4. QED
    BY <1>4, <1>5, <2>1, <2>2, <2>3
<1>8. n = e
  <2>1. Len(n) = Len(e)
    BY <1>4, <1>5, <1>6
  <2>2. QED
    BY <1>5, <1>6, <1>7, <2>1, SeqEqual
<1>9. Outbox' = Append(Outbox, issued + 1)
  BY <1>1, <1>8, OutboxIs DEF o, n, e, c
<1>10. Applied' = Applied /\ Confirmed' = Confirmed /\ Len(queue)' = Len(queue)
  BY <1>1 DEF Applied, Confirmed
<1>11. QED
  BY <1>1, <1>9, <1>10 DEF Abstract!Issue

\* The worker saves the oldest call.
LEMMA WriteMutationsImplements ==
  ASSUME IInv, WriteMutations
  PROVE  Abstract!Save
<1> DEFINE batch == [id |-> nextBatchId, write |-> Head(calls)]
<1>1. /\ calls # <<>> /\ calls' = Tail(calls)
      /\ queue' = Append(queue, batch)
      /\ UNCHANGED <<issued, handshake, responses, latest, acknowledged>>
  BY DEF WriteMutations
<1>2. /\ queue \in Seq(Batch) /\ calls \in Seq(Write)
      /\ nextBatchId \in Nat \ {0}
  BY DEF IInv, TypeOK
<1>3. /\ Len(calls) \in Nat /\ Len(calls) > 0 /\ Head(calls) = calls[1]
      /\ calls' \in Seq(Write) /\ Len(calls') = Len(calls) - 1
      /\ \A i \in 1 .. Len(calls') : calls'[i] = calls[i + 1]
      /\ Head(calls) \in Write
  BY <1>1, <1>2, HeadTailProperties, LenProperties, EmptySeq
<1>4. batch \in Batch /\ batch.write = calls[1]
  BY <1>2, <1>3 DEF Batch
<1> HIDE DEF batch
<1>5. /\ queue' \in Seq(Batch) /\ Len(queue') = Len(queue) + 1
      /\ \A i \in 1 .. Len(queue) : queue'[i] = queue[i]
      /\ queue'[Len(queue) + 1] = batch
  BY <1>1, <1>2, <1>4, AppendBatch
<1> DEFINE o == Writes(queue) \o calls
           n == Writes(queue') \o calls'
<1>6. /\ Len(queue) \in Nat
      /\ o \in Seq(Write) /\ Len(o) = Len(queue) + Len(calls)
      /\ \A i \in 1 .. Len(queue) : o[i] = queue[i].write
      /\ \A i \in 1 .. Len(calls) : o[Len(queue) + i] = calls[i]
  BY <1>2, Joined
<1>7. /\ n \in Seq(Write) /\ Len(n) = Len(queue') + Len(calls')
      /\ \A i \in 1 .. Len(queue') : n[i] = queue'[i].write
      /\ \A i \in 1 .. Len(calls') : n[Len(queue') + i] = calls'[i]
  BY <1>3, <1>5, Joined
<1> HIDE DEF o, n
<1>8. ASSUME NEW i \in 1 .. Len(o) PROVE n[i] = o[i]
  <2>1. CASE i <= Len(queue)
    <3>1. i \in 1 .. Len(queue) /\ i \in 1 .. Len(queue')
      BY <1>3, <1>5, <1>6, <2>1
    <3>2. QED
      BY <1>5, <1>6, <1>7, <3>1
  <2>2. CASE i = Len(queue) + 1
    <3>1. 1 \in 1 .. Len(calls) /\ Len(queue) + 1 \in 1 .. Len(queue')
      BY <1>3, <1>5, <1>6
    <3>2. QED
      BY <1>4, <1>5, <1>6, <1>7, <2>2, <3>1
  <2>3. CASE i > Len(queue) + 1
    <3>1. PICK k \in 1 .. Len(calls') :
            i = Len(queue') + k /\ i = Len(queue) + (k + 1)
      <4>1. /\ i - Len(queue') \in 1 .. Len(calls')
            /\ i = Len(queue') + (i - Len(queue'))
            /\ i = Len(queue) + (i - Len(queue') + 1)
        BY <1>3, <1>5, <1>6, <2>3
      <4>2. QED
        BY <4>1
    <3>2. k + 1 \in 1 .. Len(calls)
      BY <1>3, <3>1
    <3>3. n[i] = calls[k + 1]
      BY <1>3, <1>7, <3>1
    <3>4. o[i] = calls[k + 1]
      BY <1>6, <3>1, <3>2
    <3>5. QED
      BY <3>3, <3>4
  <2>4. i \in Nat
    BY <1>3, <1>6
  <2>5. QED
    BY <1>6, <2>1, <2>2, <2>3, <2>4
<1>9. n = o
  <2>1. Len(n) = Len(o)
    BY <1>3, <1>5, <1>6, <1>7
  <2>2. QED
    BY <1>6, <1>7, <1>8, <2>1, SeqEqual
<1>10. Outbox' = Outbox
  BY <1>9, OutboxIs DEF o, n
<1>11. Len(queue) < Len(Outbox)
  BY <1>3, <1>6, OutboxIs DEF o
<1>12. Applied' = Applied /\ Confirmed' = Confirmed
  BY <1>1 DEF Applied, Confirmed
<1>13. QED
  BY <1>1, <1>5, <1>10, <1>11, <1>12 DEF Abstract!Save

\* A stream that ends gives up the oldest write, or none.
LEMMA FinishImplements ==
  ASSUME IInv, NEW permanent \in BOOLEAN, NEW t, OnStreamFinish(permanent, t)
  PROVE  Abstract!Refuse \/ Abstract!LoseAnswers
<1>1. UNCHANGED <<issued, calls, latest, acknowledged>> /\ ~handshake'
  BY DEF OnStreamFinish, Closed, app
<1>2. CASE permanent /\ handshake /\ pipeline # <<>>
  <2>1. queue' = Without(queue, Head(pipeline).id)
    BY <1>2 DEF OnStreamFinish
  <2>2. queue # <<>> /\ queue' = Tail(queue)
    BY <1>2, <2>1, FrontIsOldest
  <2>3. /\ Outbox' = Tail(Outbox) /\ Len(queue) > 0
        /\ Len(queue') = Len(queue) - 1
    BY <1>1, <2>2, OutboxShrinks
  <2>4. Applied' = 0 /\ Confirmed' = Confirmed
    BY <1>1 DEF Applied, Confirmed
  <2>5. QED
    BY <1>1, <2>3, <2>4 DEF Abstract!Refuse
<1>3. CASE ~(permanent /\ handshake /\ pipeline # <<>>)
  <2>1. queue' = queue
    BY <1>3 DEF OnStreamFinish
  <2>2. QED
    BY <1>1, <2>1, Loses
<1>4. QED
  BY <1>2, <1>3

\* The answer to the first request is not that of a write.
LEMMA HandshakeImplements ==
  ASSUME IInv, OnWriteStreamHandshakeComplete
  PROVE  UNCHANGED Abstract!vars
<1>1. /\ responses # <<>> /\ ~handshake /\ handshake'
      /\ responses' = Tail(responses)
      /\ UNCHANGED <<issued, calls, queue, latest, acknowledged>>
  BY DEF OnWriteStreamHandshakeComplete, app, disk
<1>2. responses = <<Hello>>
  BY <1>1 DEF IInv, StreamInv, UnderWay
<1>3. Applied' = Applied
  <2>1. responses' = <<>> /\ Len(responses') = 0
    BY <1>1, <1>2
  <2>2. QED
    BY <1>1, <2>1 DEF Applied
<1>4. QED
  BY <1>1, <1>3, Stutters

\* The result of the oldest write.
LEMMA ResultImplements ==
  ASSUME IInv, OnWriteStreamMutationResult
  PROVE  Abstract!Acknowledge
<1> DEFINE b == Head(pipeline)
<1>1. /\ responses # <<>> /\ handshake /\ handshake' /\ pipeline # <<>>
      /\ queue' = Without(queue, b.id)
      /\ acknowledged' = acknowledged \cup {b.write}
      /\ responses' = Tail(responses)
      /\ UNCHANGED <<issued, calls, latest>>
  BY DEF OnWriteStreamMutationResult, app
<1>2. queue # <<>> /\ queue' = Tail(queue) /\ b = queue[1]
  BY <1>1, FrontIsOldest
<1>3. /\ Outbox' = Tail(Outbox) /\ Head(Outbox) = queue[1].write
      /\ Len(queue) \in Nat /\ Len(queue) > 0
      /\ Len(queue') = Len(queue) - 1
  BY <1>1, <1>2, OutboxShrinks
<1>4. Applied > 0 /\ Applied' = Applied - 1
  <2>1. responses \in Seq(Batch \cup {Hello})
    BY DEF IInv, TypeOK
  <2>2. Len(responses) > 0 /\ Len(responses') = Len(responses) - 1
    BY <1>1, <2>1, HeadTailProperties, LenProperties, EmptySeq
  <2>3. QED
    BY <1>1, <2>2 DEF Applied
<1>5. Confirmed' = Head(Outbox)
  <2>1. /\ acknowledged \subseteq Nat /\ b.write \in Nat
        /\ \A w \in acknowledged : w < b.write
    BY <1>2, <1>3, InvTypes DEF IInv, AcknowledgedBehind
  <2>2. /\ acknowledged' \in SUBSET Nat /\ b.write \in acknowledged'
        /\ \A v \in acknowledged' : v <= b.write
    <3> DEFINE w == b.write
    <3>1. /\ acknowledged \subseteq Nat /\ w \in Nat
          /\ \A v \in acknowledged : v < w
          /\ acknowledged' = acknowledged \cup {w}
      BY <1>1, <2>1, Zenon
    <3> HIDE DEF w
    <3>2. /\ acknowledged' \in SUBSET Nat /\ w \in acknowledged'
          /\ \A v \in acknowledged' : v <= w
      BY <3>1
    <3>3. QED
      BY <3>2 DEF w
  <2>3. (CHOOSE x \in acknowledged' : \A v \in acknowledged' : v <= x) = b.write
    <3>1. \A S \in SUBSET Nat : \A w \in S :
            (\A v \in S : v <= w)
              => (CHOOSE x \in S : \A v \in S : v <= x) = w
      BY NewestIs
    <3>2. QED
      BY <2>2, <3>1, Zenon
  <2>4. QED
    BY <1>2, <1>3, <2>2, <2>3 DEF Confirmed
<1>6. QED
  BY <1>1, <1>3, <1>4, <1>5 DEF Abstract!Acknowledge

\* The end of the process keeps what is saved.
LEMMA CrashImplements ==
  ASSUME IInv, Crash
  PROVE  Abstract!Crash
<1>1. /\ calls' = <<>> /\ ~handshake'
      /\ UNCHANGED <<issued, queue, latest, acknowledged>>
  BY DEF Crash, Closed, disk
<1>2. queue \in Seq(Batch) /\ calls \in Seq(Write) /\ <<>> \in Seq(Write)
  BY EmptySeq DEF IInv, TypeOK
<1> DEFINE o == Writes(queue) \o calls
           n == Writes(queue) \o <<>>
           s == SubSeq(o, 1, Len(queue))
<1>3. /\ Len(queue) \in Nat /\ Len(calls) \in Nat /\ o \in Seq(Write)
      /\ Len(o) = Len(queue) + Len(calls)
      /\ \A i \in 1 .. Len(queue) : o[i] = queue[i].write
  BY <1>2, Joined
<1>4. /\ n \in Seq(Write) /\ Len(n) = Len(queue)
      /\ \A i \in 1 .. Len(queue) : n[i] = queue[i].write
  <2> DEFINE z == <<>>
  <2>1. Len(z) = 0
    OBVIOUS
  <2>2. z \in Seq(Write) /\ n = Writes(queue) \o z
    BY <1>2
  <2> HIDE DEF z, n
  <2>3. /\ n \in Seq(Write) /\ Len(n) = Len(queue) + Len(z)
        /\ \A i \in 1 .. Len(queue) : n[i] = queue[i].write
    BY <1>2, <2>2, Joined
  <2>4. QED
    BY <1>3, <2>1, <2>3
<1> HIDE DEF o, n
<1>5. /\ s \in Seq(Write) /\ Len(s) = Len(queue)
      /\ \A i \in 1 .. Len(queue) : s[i] = o[i]
  <2>1. \A i \in 1 .. Len(queue) : o[i] \in Write
    <3>1. \A i \in 1 .. Len(queue) : i \in 1 .. Len(o)
      BY <1>3
    <3>2. QED
      BY <1>3, <3>1, ElementOfSeq
  <2>2. /\ s \in Seq(Write)
        /\ Len(s) = IF 1 <= Len(queue) THEN Len(queue) - 1 + 1 ELSE 0
        /\ \A i \in 1 .. Len(queue) - 1 + 1 : s[i] = o[1 + i - 1]
    BY <1>3, <2>1, SubSeqProperties
  <2>3. QED
    BY <1>3, <2>2
<1> HIDE DEF s
<1>6. n = s
  BY <1>3, <1>4, <1>5, SeqEqual
<1>7. Outbox' = SubSeq(Outbox, 1, Len(queue))
  BY <1>1, <1>6, OutboxIs DEF o, n, s
<1>8. Applied' = 0 /\ Confirmed' = Confirmed /\ Len(queue)' = Len(queue)
  BY <1>1 DEF Applied, Confirmed
<1>9. QED
  BY <1>1, <1>7, <1>8 DEF Abstract!Crash

\* The backend serves the oldest write it has not served on this stream.
LEMMA ServeImplements ==
  ASSUME IInv, Serve
  PROVE  Abstract!Apply \/ UNCHANGED Abstract!vars
<1>1. /\ requests # <<>> /\ requests' = Tail(requests)
      /\ responses' = Append(responses, Head(requests))
      /\ latest' = IF Head(requests) = Hello THEN latest
                   ELSE Head(requests).write
      /\ UNCHANGED <<issued, calls, queue, handshake, stream, acknowledged>>
  BY DEF Serve, app, disk, conn
<1>2. /\ requests \in Seq(Batch \cup {Hello})
      /\ responses \in Seq(Batch \cup {Hello})
      /\ queue \in Seq(Batch) /\ calls \in Seq(Write)
      /\ UnderWay(pipeline, stream, handshake, requests, responses)
      /\ Begins(pipeline, queue)
  BY DEF IInv, TypeOK, StreamInv, PipelineFilled
<1>3. /\ Len(requests) \in Nat /\ Len(requests) > 0 /\ Len(responses) \in Nat
      /\ Len(pipeline) \in Nat /\ Len(queue) \in Nat
      /\ Len(pipeline) <= Len(queue)
      /\ Head(requests) = requests[1]
      /\ Head(requests) \in Batch \cup {Hello}
  BY <1>1, <1>2, InvTypes, EmptySeq, HeadTailProperties
<1>4. stream = "Open"
  BY <1>1, <1>2 DEF UnderWay
<1>5. CASE ~handshake
  <2>1. requests = <<Hello>>
    BY <1>1, <1>2, <1>4, <1>5 DEF UnderWay
  <2>2. latest' = latest /\ Applied' = Applied
    BY <1>1, <1>5, <2>1 DEF Applied
  <2>3. QED
    BY <1>1, <2>2, Stutters
<1>6. CASE handshake
  <2>1. /\ Len(responses) + Len(requests) = Len(pipeline)
        /\ \A i \in 1 .. Len(requests) :
             requests[i] = pipeline[Len(responses) + i]
    BY <1>2, <1>4, <1>6 DEF UnderWay
  <2>2. /\ Len(responses) + 1 \in 1 .. Len(pipeline)
        /\ Len(responses) + 1 \in 1 .. Len(queue)
        /\ Len(responses) < Len(queue)
        /\ 1 \in 1 .. Len(requests)
    BY <1>3, <2>1
  <2>3. requests[1] = queue[Len(responses) + 1]
    BY <1>2, <2>1, <2>2 DEF Begins
  <2>4. queue[Len(responses) + 1] \in Batch
    BY <1>2, <2>2, ElementOfSeq
  <2>5. Head(requests) # Hello
    <3>1. \A b \in Batch : b.id # 0
      BY DEF Batch
    <3>2. QED
      BY <1>3, <2>3, <2>4, <3>1 DEF Hello
  <2>6. latest' = queue[Len(responses) + 1].write
    BY <1>1, <1>3, <2>3, <2>5
  <2>7. Outbox[Len(responses) + 1] = queue[Len(responses) + 1].write
    BY <1>2, <2>2, Joined, OutboxIs
  <2>8. Applied = Len(responses) /\ Applied' = Len(responses) + 1
    <3>1. Len(responses') = Len(responses) + 1
      BY <1>1, <1>2, <1>3, AppendProperties
    <3>2. QED
      BY <1>1, <1>6, <3>1 DEF Applied
  <2>9. Outbox' = Outbox /\ Confirmed' = Confirmed /\ Len(queue)' = Len(queue)
    BY <1>1, OutboxKept DEF Confirmed
  <2>10. Abstract!Apply
    BY <1>1, <2>2, <2>6, <2>7, <2>8, <2>9 DEF Abstract!Apply
  <2>11. QED
    BY <2>10
<1>7. QED
  BY <1>5, <1>6

-----------------------------------------------------------------------------
(* The theorem.                                                            *)

LEMMA InitImplements == Init => Abstract!Init
<1> SUFFICES ASSUME Init PROVE Abstract!Init
  OBVIOUS
<1>1. queue \in Seq(Batch) /\ calls \in Seq(Write) /\ Len(queue) = 0
  BY EmptySeq DEF Init
<1>2. Outbox \in Seq(Write) /\ Len(Outbox) = 0
  <2>1. Len(calls) = 0
    BY DEF Init
  <2>2. /\ Writes(queue) \o calls \in Seq(Write)
        /\ Len(Writes(queue) \o calls) = Len(queue) + Len(calls)
    BY <1>1, Joined, Zenon
  <2>3. Outbox \in Seq(Write) /\ Len(Outbox) = Len(queue) + Len(calls)
    BY <2>2, OutboxIs, Zenon
  <2>4. QED
    BY <1>1, <2>1, <2>3
<1>3. Outbox = <<>>
  BY <1>2, EmptySeq
<1>4. QED
  BY <1>1, <1>3 DEF Init, Applied, Confirmed, Abstract!Init

LEMMA NextImplements ==
  ASSUME IInv, [Next]_vars
  PROVE  [Abstract!Next]_(Abstract!vars)
<1>1. CASE CallWrite
  BY <1>1, CallWriteImplements DEF Abstract!Next
<1>2. CASE WriteMutations
  BY <1>2, WriteMutationsImplements DEF Abstract!Next
<1>3. CASE TokenFails \/ StreamBreaks \/ StreamRefused
  <2>1. CASE TokenFails
    <3>1. OnStreamFinish(FALSE, tokens \ {"current"})
      BY <2>1 DEF TokenFails
    <3>2. QED
      BY <3>1, FinishImplements DEF Abstract!Next
  <2>2. CASE StreamBreaks
    <3>1. OnStreamFinish(FALSE, tokens)
      BY <2>2 DEF StreamBreaks
    <3>2. QED
      BY <3>1, FinishImplements DEF Abstract!Next
  <2>3. CASE StreamRefused
    <3>1. OnStreamFinish(TRUE, tokens)
      BY <2>3 DEF StreamRefused
    <3>2. QED
      BY <3>1, FinishImplements DEF Abstract!Next
  <2>4. QED
    BY <1>3, <2>1, <2>2, <2>3
<1>4. CASE \/ TokenArrives("current") \/ TokenArrives("stale")
           \/ BackoffElapses \/ EnableNetwork \/ Initialize \/ Refuse
  <2>1. /\ UNCHANGED <<issued, queue, latest, acknowledged>>
        /\ UNCHANGED <<handshake, responses, calls>>
    BY <1>4 DEF TokenArrives, BackoffElapses, EnableNetwork, Initialize, Refuse,
                app, disk, network, conn
  <2>2. QED
    BY <2>1, Stutters DEF Applied
<1>5. CASE IdleTimeout \/ DisableNetwork
  <2>1. /\ UNCHANGED <<issued, queue, calls, latest, acknowledged>>
        /\ ~handshake'
    BY <1>5 DEF IdleTimeout, DisableNetwork, Closed, app, disk
  <2>2. QED
    BY <2>1, Loses DEF Abstract!Next
<1>6. CASE OnWriteStreamHandshakeComplete
  BY <1>6, HandshakeImplements
<1>7. CASE OnWriteStreamMutationResult
  BY <1>7, ResultImplements DEF Abstract!Next
<1>8. CASE Crash
  BY <1>8, CrashImplements DEF Abstract!Next
<1>9. CASE Serve
  BY <1>9, ServeImplements DEF Abstract!Next
<1>10. CASE UNCHANGED vars
  <2>1. UNCHANGED <<issued, calls, queue, latest, acknowledged, handshake,
                    responses>>
    BY <1>10 DEF vars, app, disk, conn, network
  <2>2. QED
    BY <2>1, Stutters DEF Applied
<1>11. QED
  BY <1>1, <1>2, <1>3, <1>4, <1>5, <1>6, <1>7, <1>8, <1>9, <1>10
     DEF Next, Client

\* The whole client, its streams, credentials and restarts, is a queue whose
\* oldest writes are applied at least once.
THEOREM ImplementsQueue == Spec => IsWriteQueue
<1>1. IInv /\ [Next]_vars => [Abstract!Next]_(Abstract!vars)
  BY NextImplements
<1>2. QED
  BY <1>1, InvAlways, InitImplements, PTL
     DEF Spec, IsWriteQueue, Abstract!Spec

=============================================================================
