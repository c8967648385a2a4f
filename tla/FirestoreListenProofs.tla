----------------------- MODULE FirestoreListenProofs -----------------------
(***************************************************************************)
(* Proofs about FirestoreListen, for every set of documents and listeners  *)
(* and every number of writes and versions.                                *)
(***************************************************************************)
EXTENDS FirestoreListen, SequenceTheorems, FiniteSetTheorems, TLAPS

-----------------------------------------------------------------------------
(* The invariant.                                                          *)

\* The disk and the write stream are never ahead of the backend.
Bounds ==
  /\ Len(history) + Len(queue) - Len(applied) <= MaxVersions
  /\ Len(applied) <= Len(queue)
  /\ token <= lastRemoteSnapshotVersion
  /\ savedToken <= lastRemoteSnapshotVersion
  /\ lastRemoteSnapshotVersion <= Len(history)
  /\ sent <= Len(history)

\* v is 0 or a version of d in the history h.
IsVersionOf(h, d, v) == v # 0 => v <= Len(h) /\ h[v].doc = d

\* What a message says of a document.
Tells(h, m) ==
  m.kind = "Document" =>
    m.doc \in Doc /\ m.version # 0 /\ IsVersionOf(h, m.doc, m.version)

\* What is held or announced of a document is a version of it.
VersionsOfDocs ==
  /\ \A d \in Doc : IsVersionOf(history, d, cache[d].version)
  /\ \A d \in Doc : cache[d].committed => cache[d].version # 0
  /\ \A d \in Doc : IsVersionOf(history, d, updates[d])
  /\ \A i \in 1 .. Len(inbox) : Tells(history, inbox[i])

\* A target is on an open stream, and active once the client has read that it
\* was added.
StreamShape ==
  /\ watch = "Initial" <=> listening = {}
  /\ target # "none" <=> watch = "Open"
  /\ target \in {"none", "requested"} => inbox = <<>>
  /\ pending = 1 <=> \/ target = "requested"
                     \/ inbox # <<>> /\ inbox[1].kind = "Added"

\* There is the answer to the request, then one snapshot.
InboxShape ==
  /\ \A i \in 2 .. Len(inbox) : inbox[i].kind # "Added"
  /\ \A i \in 1 .. Len(inbox) : inbox[i].kind = "Snapshot" <=>
       i = Len(inbox) /\ ~(i = 1 /\ inbox[1].kind = "Added")
  /\ target = "added" => \A i \in 1 .. Len(inbox) : inbox[i].kind = "Added"
  /\ \A i \in 1 .. Len(inbox) : inbox[i].kind = "Snapshot" =>
       inbox[i].version = sent

\* Nothing was sent that is not in the cache.
Quiet == \A i \in 1 .. Len(inbox) : inbox[i].kind = "Added"

IsDocument(i, d) == inbox[i].kind = "Document" /\ inbox[i].doc = d

\* No version up to the last snapshot is missing in the cache, and none that
\* was sent is missing in the cache, the aggregator and the inbox.
Coverage ==
  \A d \in Doc : \A n \in 1 .. Len(history) : history[n].doc = d =>
    /\ n <= lastRemoteSnapshotVersion => n <= cache[d].version
    /\ n <= sent =>
         /\ Quiet => n <= cache[d].version
         /\ \/ n <= cache[d].version \/ n <= updates[d]
            \/ \E i \in 1 .. Len(inbox) : IsDocument(i, d)
         /\ \A i \in 1 .. Len(inbox) : IsDocument(i, d) => n <= inbox[i].version

\* A write is of one document.  Those of the queue are in the order in which
\* they were issued.
Writes ==
  /\ \A n \in 1 .. Len(history) :
       /\ history[n].write <= issued
       /\ history[n].doc = Outside <=> history[n].write = 0
  /\ \A i \in 1 .. Len(queue) : queue[i].write # 0 /\ queue[i].write <= issued
  /\ \A i, j \in 1 .. Len(queue) : i < j => queue[i].write < queue[j].write
  /\ \A n, m \in 1 .. Len(history) :
       history[n].write = history[m].write => history[n].doc = history[m].doc
  /\ \A n \in 1 .. Len(history) : \A i \in 1 .. Len(queue) :
       history[n].write = queue[i].write => history[n].doc = queue[i].doc

\* The backend has applied the oldest writes, and no write again after that.
AppliedLast ==
  \A i \in 1 .. Len(applied) :
    /\ applied[i] \in 1 .. Len(history)
    /\ history[applied[i]].doc = queue[i].doc
    /\ history[applied[i]].write = queue[i].write
    /\ \A n \in 1 .. Len(history) :
         history[n].write = queue[i].write => n <= applied[i]

Among(q, w) == \E i \in 1 .. Len(q) : q[i].write = w

\* A write that the backend has stored more than once is queued, or refused, or
\* the cache is past all its versions.
RepeatedIsKnown ==
  \A n, m \in 1 .. Len(history) :
    n < m /\ history[n].write = history[m].write /\ history[n].doc \in Doc =>
      \/ history[n].write \in refused
      \/ Among(queue, history[n].write)
      \/ m <= cache[history[n].doc].version

\* So is a write that the view holds back.
Held ==
  \A d \in Doc : view[d].local =>
    /\ listening # {}
    /\ view[d].write # 0
    /\ view[d].write <= issued
    /\ \A i \in 1 .. Len(queue) : queue[i].write = view[d].write => queue[i].doc = d
    /\ \A n \in 1 .. Len(history) :
         history[n].write = view[d].write =>
           \/ d \in Pending(queue)
           \/ view[d].write \in refused
           \/ n <= cache[d].version

Safe ==
  /\ Bounds /\ VersionsOfDocs
  /\ StreamShape /\ InboxShape /\ Coverage
  /\ Writes /\ AppliedLast /\ RepeatedIsKnown /\ Held
  /\ ViewIsLocal /\ ListenersAgree

-----------------------------------------------------------------------------
(* Lemmas about the operators of the model.                                *)

\* Numbers have a smallest one.
LEMMA SmallestOf ==
  ASSUME NEW T \in SUBSET Nat, T # {}
  PROVE  \E x \in T : \A y \in T : ~(y < x)
<1> DEFINE less == {ss \in Nat \X Nat : ss[1] < ss[2]}
<1>1. IsWellFoundedOn(less, Nat)
  BY NatLessThanWellFounded, Zenon DEF OpToRel
<1>2. \A x, y \in Nat : <<y, x>> \in less <=> y < x
  OBVIOUS
<1> HIDE DEF less
<1>3. \E x \in T : \A y \in T : ~(<<y, x>> \in less)
  BY <1>1, WFMin, Zenon
<1>4. QED
  BY <1>2, <1>3

\* A bounded set of numbers has its greatest element.
LEMMA MaxOf ==
  ASSUME NEW n \in Nat, NEW S \in SUBSET (0 .. n), S # {}
  PROVE  Max(S) \in S /\ \A y \in S : y <= Max(S)
<1> DEFINE back == {n - i : i \in S}
<1>1. back \subseteq Nat /\ back # {}
  <2>1. \A i \in S : n - i \in Nat
    OBVIOUS
  <2>2. QED
    BY <2>1
<1> HIDE DEF back
<1>2. PICK x \in back : \A y \in back : ~(y < x)
  BY <1>1, SmallestOf
<1>3. PICK i \in S : x = n - i
  BY DEF back
<1>4. \A j \in S : i >= j
  <2>1. SUFFICES ASSUME NEW j \in S PROVE i >= j
    OBVIOUS
  <2>2. ~(n - j < n - i)
    BY <1>2, <1>3 DEF back
  <2>3. QED
    BY <2>2
<1>5. \E m \in S : \A y \in S : m >= y
  BY <1>4
<1>6. Max(S) \in S /\ \A y \in S : Max(S) >= y
  BY <1>5 DEF Max
<1>7. QED
  BY <1>6

Stored == [doc : Doc \cup {Outside}, write : Write]

Queued == [doc : Doc, write : Write]

\* VersionOf is a version of the document, the newest one.
LEMMA VersionOfIs ==
  ASSUME history \in Seq(Stored), NEW d, NEW v \in 0 .. Len(history)
  PROVE  /\ VersionOf(d, v) \in 0 .. v
         /\ VersionOf(d, v) # 0 => history[VersionOf(d, v)].doc = d
         /\ \A n \in 1 .. v : history[n].doc = d => n <= VersionOf(d, v)
<1> DEFINE S == {n \in 1 .. v : history[n].doc = d} \cup {0}
<1>1. Len(history) \in Nat
  BY LenProperties
<1>2. v \in Nat
  BY <1>1
<1>3. S \in SUBSET (0 .. v) /\ S # {}
  BY <1>2
<1>4. \A n \in S : n # 0 => n \in 1 .. v /\ history[n].doc = d
  OBVIOUS
<1>5. \A n \in 1 .. v : history[n].doc = d => n \in S
  OBVIOUS
<1>6. VersionOf(d, v) = Max(S)
  BY DEF VersionOf
<1> HIDE DEF S
<1>7. Max(S) \in S /\ \A y \in S : y <= Max(S)
  BY <1>2, <1>3, MaxOf
<1>8. QED
  BY <1>2, <1>3, <1>4, <1>5, <1>6, <1>7

\* The place in q of the last write of d.
LastFor(q, d) == Max({i \in 1 .. Len(q) : q[i].doc = d})

LEMMA LastForIs ==
  ASSUME NEW q \in Seq(Queued), NEW d \in Pending(q)
  PROVE  /\ LastFor(q, d) \in 1 .. Len(q)
         /\ q[LastFor(q, d)].doc = d
         /\ \A i \in 1 .. Len(q) : q[i].doc = d => i <= LastFor(q, d)
<1> DEFINE S == {i \in 1 .. Len(q) : q[i].doc = d}
<1>1. Len(q) \in Nat
  BY LenProperties
<1>2. S \in SUBSET (0 .. Len(q)) /\ S # {}
  BY <1>1 DEF Pending
<1>3. \A i : i \in S <=> i \in 1 .. Len(q) /\ q[i].doc = d
  OBVIOUS
<1>4. LastFor(q, d) = Max(S)
  BY DEF LastFor
<1> HIDE DEF S
<1>5. Max(S) \in S /\ \A y \in S : y <= Max(S)
  BY <1>1, <1>2, MaxOf
<1>6. QED
  BY <1>1, <1>3, <1>4, <1>5

LEMMA LastForUnique ==
  ASSUME NEW q \in Seq(Queued), NEW i \in 1 .. Len(q),
         \A j \in 1 .. Len(q) : q[j].doc = q[i].doc => j <= i
  PROVE  LastFor(q, q[i].doc) = i
<1>1. q[i].doc \in Pending(q)
  BY DEF Pending
<1>2. Len(q) \in Nat
  BY LenProperties
<1>3. QED
  BY <1>1, <1>2, LastForIs

\* LocalDoc, over any history h.
LocalOf(h, d, q, c) ==
  IF d \in Pending(q)
  THEN [write |-> q[LastFor(q, d)].write, local |-> TRUE]
  ELSE [write |-> IF c[d].version = 0 THEN 0 ELSE h[c[d].version].write,
        local |-> FALSE]

LEMMA LocalDocIs ==
  ASSUME NEW d, NEW q, NEW c
  PROVE  LocalDoc(d, q, c) = LocalOf(history, d, q, c)
BY DEF LocalDoc, LocalOf, LastFor, WriteOf

LEMMA LocalFields ==
  ASSUME NEW h, NEW d, NEW q, NEW c
  PROVE  /\ LocalOf(h, d, q, c).local <=> d \in Pending(q)
         /\ d \in Pending(q) =>
              LocalOf(h, d, q, c).write = q[LastFor(q, d)].write
         /\ d \notin Pending(q) /\ c[d].version # 0 =>
              LocalOf(h, d, q, c).write = h[c[d].version].write
         /\ d \notin Pending(q) /\ c[d].version = 0 =>
              LocalOf(h, d, q, c).write = 0
BY DEF LocalOf

Cached == [version : Version, committed : BOOLEAN]

LEMMA LocalType ==
  ASSUME NEW h \in Seq(Stored), NEW q \in Seq(Queued), NEW c \in [Doc -> Cached],
         NEW d \in Doc, c[d].version <= Len(h)
  PROVE  LocalOf(h, d, q, c) \in ViewDoc
<1>1. CASE d \in Pending(q)
  <2>1. LastFor(q, d) \in 1 .. Len(q)
    BY <1>1, LastForIs
  <2>2. q[LastFor(q, d)] \in Queued
    BY <2>1, ElementOfSeq
  <2>3. q[LastFor(q, d)].write \in Write
    BY <2>2 DEF Queued
  <2>4. QED
    BY <1>1, <2>3 DEF LocalOf, ViewDoc
<1>2. CASE d \notin Pending(q) /\ c[d].version # 0
  <2>1. c[d].version \in 1 .. Len(h)
    <3>1. c[d] \in Cached
      OBVIOUS
    <3>2. c[d].version \in Version
      BY <3>1 DEF Cached
    <3>3. QED
      BY <1>2, <3>2, MaxVersionsAssumption, LenProperties DEF Version
  <2>2. h[c[d].version] \in Stored
    BY <2>1, ElementOfSeq
  <2>3. h[c[d].version].write \in Write
    BY <2>2 DEF Stored
  <2>4. QED
    BY <1>2, <2>3 DEF LocalOf, ViewDoc
<1>3. CASE d \notin Pending(q) /\ c[d].version = 0
  BY <1>3, MaxWritesAssumption DEF LocalOf, ViewDoc, Write
<1>4. QED
  BY <1>1, <1>2, <1>3

\* Queueing a write changes the local view of its document only.
LEMMA LocalAppend ==
  ASSUME NEW q \in Seq(Queued), NEW x \in Queued, NEW h, NEW c, NEW d \in Doc
  PROVE  LET p == Append(q, x)
         IN  /\ d \in Pending(p) <=> d \in Pending(q) \/ d = x.doc
             /\ d # x.doc => LocalOf(h, d, p, c) = LocalOf(h, d, q, c)
             /\ d = x.doc =>
                  LocalOf(h, d, p, c) = [write |-> x.write, local |-> TRUE]
<1> DEFINE p == Append(q, x)
<1>1. /\ Len(q) \in Nat /\ Len(p) = Len(q) + 1 /\ p \in Seq(Queued)
      /\ \A i \in 1 .. Len(q) : p[i] = q[i]
      /\ p[Len(q) + 1] = x
  BY AppendProperties, LenProperties
<1> HIDE DEF p
<1>2. \A i \in 1 .. Len(p) : i \in 1 .. Len(q) \/ i = Len(q) + 1
  BY <1>1
<1>3. \A i \in 1 .. Len(q) : i \in 1 .. Len(p)
  BY <1>1
<1>4. Len(q) + 1 \in 1 .. Len(p)
  BY <1>1
<1>5. d \in Pending(p) <=> d \in Pending(q) \/ d = x.doc
  <2>1. d \in Pending(p) => d \in Pending(q) \/ d = x.doc
    BY <1>1, <1>2 DEF Pending
  <2>2. d \in Pending(q) => d \in Pending(p)
    BY <1>1, <1>3 DEF Pending
  <2>3. d = x.doc => d \in Pending(p)
    BY <1>1, <1>4 DEF Pending
  <2>4. QED
    BY <2>1, <2>2, <2>3
<1>6. ASSUME d # x.doc PROVE LocalOf(h, d, p, c) = LocalOf(h, d, q, c)
  <2>1. CASE d \in Pending(q)
    <3>1. /\ LastFor(q, d) \in 1 .. Len(q) /\ q[LastFor(q, d)].doc = d
          /\ \A i \in 1 .. Len(q) : q[i].doc = d => i <= LastFor(q, d)
      BY <2>1, LastForIs
    <3> DEFINE k == LastFor(q, d)
    <3> HIDE DEF k
    <3>2. k \in 1 .. Len(p) /\ p[k].doc = d /\ p[k] = q[k]
      BY <3>1, <1>1, <1>3 DEF k
    <3>3. \A j \in 1 .. Len(p) : p[j].doc = p[k].doc => j <= k
      BY <3>1, <3>2, <1>1, <1>2, <1>6 DEF k
    <3>4. LastFor(p, d) = k
      BY <3>2, <3>3, <1>1, LastForUnique
    <3>5. QED
      BY <3>2, <3>4, <2>1, <1>5 DEF LocalOf, k
  <2>2. CASE d \notin Pending(q)
    BY <2>2, <1>5, <1>6 DEF LocalOf
  <2>3. QED
    BY <2>1, <2>2
<1>7. ASSUME d = x.doc
      PROVE  LocalOf(h, d, p, c) = [write |-> x.write, local |-> TRUE]
  <2> DEFINE k == Len(q) + 1
  <2>1. k \in 1 .. Len(p) /\ p[k] = x /\ p[k].doc = d
    BY <1>1, <1>4, <1>7
  <2>2. \A j \in 1 .. Len(p) : p[j].doc = p[k].doc => j <= k
    BY <1>1
  <2> HIDE DEF k
  <2>3. LastFor(p, d) = k
    BY <2>1, <2>2, <1>1, LastForUnique
  <2>4. QED
    BY <2>1, <2>3, <1>5, <1>7 DEF LocalOf
<1>8. QED
  BY <1>5, <1>6, <1>7 DEF p

\* When the oldest write leaves the queue, the local view of its document is
\* another one only if the queue holds no other write of it.
LEMMA LocalTail ==
  ASSUME NEW q \in Seq(Queued), q # <<>>, NEW h, NEW c, NEW d \in Doc
  PROVE  /\ d \in Pending(Tail(q)) =>
              /\ d \in Pending(q)
              /\ LocalOf(h, d, Tail(q), c) = LocalOf(h, d, q, c)
         /\ d \notin Pending(Tail(q)) =>
              /\ d \in Pending(q) <=> d = Head(q).doc
              /\ d = Head(q).doc =>
                   LocalOf(h, d, q, c) = [write |-> Head(q).write, local |-> TRUE]
<1> DEFINE p == Tail(q)
<1>1. /\ Len(q) \in Nat /\ Len(q) # 0 /\ Len(p) = Len(q) - 1 /\ p \in Seq(Queued)
      /\ \A i \in 1 .. Len(p) : p[i] = q[i + 1]
      /\ Head(q) = q[1]
  BY HeadTailProperties, LenProperties, EmptySeq
<1> HIDE DEF p
<1>2. \A i \in 1 .. Len(p) : i + 1 \in 1 .. Len(q)
  BY <1>1
<1>3. \A i \in 1 .. Len(q) : i # 1 => i - 1 \in 1 .. Len(p) /\ p[i - 1] = q[i]
  <2>1. \A i \in 1 .. Len(q) : i # 1 => i - 1 \in 1 .. Len(p)
    BY <1>1
  <2>2. \A i \in 1 .. Len(q) : i - 1 \in 1 .. Len(p) => p[i - 1] = q[i]
    BY <1>1
  <2>3. QED
    BY <2>1, <2>2
<1>4. 1 \in 1 .. Len(q)
  BY <1>1
<1>5. ASSUME d \in Pending(p)
      PROVE  d \in Pending(q) /\ LocalOf(h, d, p, c) = LocalOf(h, d, q, c)
  <2> DEFINE k == LastFor(p, d)
  <2>1. /\ k \in 1 .. Len(p) /\ p[k].doc = d
        /\ \A i \in 1 .. Len(p) : p[i].doc = d => i <= k
    BY <1>1, <1>5, LastForIs
  <2> HIDE DEF k
  <2>2. k + 1 \in 1 .. Len(q) /\ q[k + 1] = p[k]
    BY <1>1, <2>1
  <2>3. \A j \in 1 .. Len(q) : q[j].doc = q[k + 1].doc => j <= k + 1
    <3>1. SUFFICES ASSUME NEW j \in 1 .. Len(q), q[j].doc = d PROVE j <= k + 1
      BY <2>1, <2>2
    <3>2. j = 1 \/ j - 1 <= k
      BY <3>1, <1>3, <2>1
    <3>3. QED
      BY <3>2, <2>1, <1>1
  <2>4. LastFor(q, d) = k + 1
    BY <2>1, <2>2, <2>3, LastForUnique
  <2>5. d \in Pending(q)
    BY <2>1, <2>2 DEF Pending
  <2>6. QED
    BY <1>5, <2>2, <2>4, <2>5 DEF LocalOf, k
<1>6. ASSUME d \notin Pending(p)
      PROVE  \A i \in 1 .. Len(q) : q[i].doc = d => i = 1
  BY <1>3, <1>6 DEF Pending
<1>7. ASSUME d \notin Pending(p)
      PROVE  d \in Pending(q) <=> d = Head(q).doc
  BY <1>1, <1>4, <1>6, <1>7 DEF Pending
<1>8. ASSUME d \notin Pending(p), d = Head(q).doc
      PROVE  LocalOf(h, d, q, c) = [write |-> Head(q).write, local |-> TRUE]
  <2>1. q[1].doc = d
    BY <1>1, <1>8
  <2>2. \A j \in 1 .. Len(q) : q[j].doc = q[1].doc => j <= 1
    BY <1>6, <1>8, <2>1
  <2>3. LastFor(q, d) = 1
    BY <2>1, <2>2, <1>4, LastForUnique
  <2>4. QED
    BY <2>3, <1>1, <1>7, <1>8 DEF LocalOf
<1>9. QED
  BY <1>5, <1>7, <1>8 DEF p

\* A new version of the backend changes no local view.
LEMMA LocalStore ==
  ASSUME NEW h \in Seq(Stored), NEW x \in Stored, NEW q, NEW c \in [Doc -> Cached],
         NEW d \in Doc, c[d].version <= Len(h)
  PROVE  LocalOf(Append(h, x), d, q, c) = LocalOf(h, d, q, c)
<1>1. c[d] \in Cached
  OBVIOUS
<1>2. c[d].version \in Version
  BY <1>1 DEF Cached
<1>3. c[d].version # 0 => c[d].version \in 1 .. Len(h)
  BY <1>2, MaxVersionsAssumption, LenProperties DEF Version
<1>4. c[d].version # 0 => Append(h, x)[c[d].version] = h[c[d].version]
  BY <1>3, AppendProperties
<1>5. QED
  BY <1>4 DEF LocalOf

-----------------------------------------------------------------------------
(* The types, part by part.                                                *)

BackendTypes ==
  /\ history \in Seq(Stored)
  /\ Len(history) \in 1 .. MaxVersions
  /\ issued \in Write
  /\ refused \subseteq Write

CacheTypes ==
  /\ cache \in [Doc -> Cached]
  /\ lastRemoteSnapshotVersion \in Version
  /\ keys \subseteq Doc
  /\ savedToken \in Version

QueueTypes ==
  /\ queue \in Seq(Queued)
  /\ applied \in Seq(Version)
  /\ running \in BOOLEAN

ViewTypes ==
  /\ view \in [Doc -> ViewDoc]
  /\ current \in BOOLEAN
  /\ synced \subseteq Doc
  /\ token \in Version

EventTypes ==
  /\ listening \subseteq Listener
  /\ raised \subseteq listening
  /\ shown \in [Listener -> [Doc -> ViewDoc]]

OnlineTypes ==
  /\ onlineState \in {"Unknown", "Online", "Offline"}
  /\ failures \in 0 .. 1
  /\ timer \in BOOLEAN

StreamTypes ==
  /\ watch \in {"Initial", "Starting", "Open"}
  /\ pending \in 0 .. 1
  /\ marked \in BOOLEAN
  /\ updates \in [Doc -> Version]
  /\ target \in {"none", "requested", "added", "current"}
  /\ sent \in Version
  /\ inbox \in Seq(Message)

LEMMA TypeParts ==
  TypeOK <=> /\ BackendTypes /\ CacheTypes /\ QueueTypes /\ ViewTypes
             /\ EventTypes /\ OnlineTypes /\ StreamTypes
BY DEF TypeOK, BackendTypes, CacheTypes, QueueTypes, ViewTypes, EventTypes,
       OnlineTypes, StreamTypes, Stored, Queued, Cached

\* Numbers, and members of the sequences.
LEMMA Ranges ==
  ASSUME TypeOK
  PROVE  /\ MaxVersions \in Nat /\ MaxWrites \in Nat
         /\ Len(history) \in Nat /\ Len(history) # 0
         /\ Len(history) <= MaxVersions
         /\ Len(queue) \in Nat /\ Len(applied) \in Nat /\ Len(inbox) \in Nat
         /\ DOMAIN inbox = 1 .. Len(inbox)
         /\ \A n \in 1 .. Len(history) :
              /\ history[n] \in Stored
              /\ history[n].doc \in Doc \cup {Outside}
              /\ history[n].write \in Nat /\ history[n].write <= MaxWrites
         /\ \A i \in 1 .. Len(queue) :
              /\ queue[i] \in Queued
              /\ queue[i].doc \in Doc
              /\ queue[i].write \in Nat /\ queue[i].write <= MaxWrites
         /\ \A i \in 1 .. Len(applied) : applied[i] \in Nat
         /\ \A i \in 1 .. Len(inbox) :
              inbox[i] \in Message /\ inbox[i].version \in Nat
         /\ \A d \in Doc :
              /\ cache[d] \in Cached
              /\ cache[d].version \in Nat /\ cache[d].committed \in BOOLEAN
              /\ view[d] \in ViewDoc
              /\ view[d].write \in Nat /\ view[d].local \in BOOLEAN
              /\ updates[d] \in Nat
         /\ lastRemoteSnapshotVersion \in Nat /\ savedToken \in Nat
         /\ token \in Nat /\ sent \in Nat /\ issued \in Nat
         /\ pending \in Nat
<1> USE MaxVersionsAssumption, MaxWritesAssumption
<1>1. /\ BackendTypes /\ CacheTypes /\ QueueTypes /\ ViewTypes
      /\ StreamTypes
  BY TypeParts
<1>2. /\ MaxVersions \in Nat /\ MaxWrites \in Nat
      /\ lastRemoteSnapshotVersion \in Nat /\ savedToken \in Nat
      /\ token \in Nat /\ sent \in Nat /\ issued \in Nat /\ pending \in Nat
  BY <1>1 DEF CacheTypes, ViewTypes, StreamTypes, BackendTypes, Version, Write
<1>3. /\ Len(history) \in Nat /\ Len(history) # 0 /\ Len(history) <= MaxVersions
      /\ \A n \in 1 .. Len(history) : history[n] \in Stored
  BY <1>1, ElementOfSeq DEF BackendTypes
<1>4. /\ Len(queue) \in Nat /\ Len(applied) \in Nat
      /\ \A i \in 1 .. Len(queue) : queue[i] \in Queued
      /\ \A i \in 1 .. Len(applied) : applied[i] \in Version
  BY <1>1, ElementOfSeq, LenProperties DEF QueueTypes
<1>5. /\ Len(inbox) \in Nat /\ DOMAIN inbox = 1 .. Len(inbox)
      /\ \A i \in 1 .. Len(inbox) : inbox[i] \in Message
  BY <1>1, ElementOfSeq, LenProperties DEF StreamTypes
<1>6. /\ \A x \in Stored : /\ x.doc \in Doc \cup {Outside}
                           /\ x.write \in Nat /\ x.write <= MaxWrites
      /\ \A x \in Queued : /\ x.doc \in Doc
                           /\ x.write \in Nat /\ x.write <= MaxWrites
  BY DEF Stored, Queued, Write
<1>7. /\ \A x \in Message : x.version \in Nat
      /\ \A x \in Cached : x.version \in Nat /\ x.committed \in BOOLEAN
      /\ \A x \in ViewDoc : x.write \in Nat /\ x.local \in BOOLEAN
      /\ \A x \in Version : x \in Nat
  BY DEF Message, Cached, ViewDoc, Version, Write
<1>8. \A d \in Doc : cache[d] \in Cached /\ view[d] \in ViewDoc /\ updates[d] \in Version
  BY <1>1 DEF CacheTypes, ViewTypes, StreamTypes
<1>9. QED
  BY <1>2, <1>3, <1>4, <1>5, <1>6, <1>7, <1>8

\* A document that is kept in the view although its local view is another.
Waits(d, q, c) ==
  /\ view[d].local
  /\ d \notin Pending(q)
  /\ LocalOf(history, d, q, c).write # 0
  /\ c[d].committed

LEMMA ComputeIs ==
  ASSUME NEW D, NEW q, NEW c
  PROVE  ComputeDocumentChanges(D, q, c) =
           [d \in Doc |-> IF d \notin D \/ Waits(d, q, c) THEN view[d]
                          ELSE LocalOf(history, d, q, c)]
<1>1. \A d : ShouldWait(d, LocalOf(history, d, q, c), c) <=> Waits(d, q, c)
  BY LocalFields DEF ShouldWait, Waits
<1>2. QED
  BY <1>1, LocalDocIs DEF ComputeDocumentChanges

LEMMA ComputeType ==
  ASSUME TypeOK, NEW D, NEW q \in Seq(Queued), NEW c \in [Doc -> Cached],
         \A d \in Doc : c[d].version <= Len(history)
  PROVE  ComputeDocumentChanges(D, q, c) \in [Doc -> ViewDoc]
<1>1. \A d \in Doc : LocalOf(history, d, q, c) \in ViewDoc
  BY LocalType, TypeParts DEF BackendTypes
<1>2. \A d \in Doc : view[d] \in ViewDoc
  BY TypeParts DEF ViewTypes
<1>3. QED
  BY <1>1, <1>2, ComputeIs

-----------------------------------------------------------------------------
(* What the steps leave alone.                                             *)

LEMMA Frames ==
  /\ ApplyWrite =>
       UNCHANGED <<issued, refused, cache,
                   lastRemoteSnapshotVersion, keys, savedToken,
                   queue, running, view, current, synced, token,
                   listening, raised, shown, onlineState,
                   failures, timer, watch, pending, marked,
                   updates, target, sent, inbox>>
  /\ \A d \in Doc : OtherWrite(d) =>
       UNCHANGED <<refused, cache, lastRemoteSnapshotVersion,
                   keys, savedToken, queue, applied, running,
                   view, current, synced, token, listening,
                   raised, shown, onlineState, failures, timer,
                   watch, pending, marked, updates, target, sent,
                   inbox>>
  /\ AddTarget =>
       UNCHANGED <<history, issued, refused, cache,
                   lastRemoteSnapshotVersion, keys, savedToken,
                   queue, applied, running, view, current, synced,
                   token, listening, raised, shown, onlineState,
                   failures, timer, watch, pending, marked,
                   updates, sent>>
  /\ SendSnapshot =>
       UNCHANGED <<history, issued, refused, cache,
                   lastRemoteSnapshotVersion, keys, savedToken,
                   queue, applied, running, view, current, synced,
                   token, listening, raised, shown, onlineState,
                   failures, timer, watch, pending, marked,
                   updates>>
  /\ \A l \in Listener : Listen(l) =>
       UNCHANGED <<history, issued, refused, cache,
                   lastRemoteSnapshotVersion, keys, savedToken,
                   queue, applied, running, onlineState, failures,
                   pending, marked, updates, target, sent, inbox>>
  /\ \A l \in Listener : AddQueryListener(l) =>
       UNCHANGED <<history, issued, refused, cache,
                   lastRemoteSnapshotVersion, keys, savedToken,
                   queue, applied, running, view, current, synced,
                   token, onlineState, failures, timer, watch,
                   pending, marked, updates, target, sent, inbox>>
  /\ \A d \in Doc : WriteMutations(d) =>
       UNCHANGED <<history, refused, cache,
                   lastRemoteSnapshotVersion, keys, savedToken,
                   applied, running, current, synced, token,
                   listening, onlineState, failures, timer, watch,
                   pending, marked, updates, target, sent, inbox>>
  /\ HandleSuccessfulWrite =>
       UNCHANGED <<history, issued, refused,
                   lastRemoteSnapshotVersion, keys, savedToken,
                   running, current, synced, token, listening,
                   onlineState, failures, timer, watch, pending,
                   marked, updates, target, sent, inbox>>
  /\ HandleRejectedWrite =>
       UNCHANGED <<history, issued, cache,
                   lastRemoteSnapshotVersion, keys, savedToken,
                   running, current, synced, token, listening,
                   onlineState, failures, timer, watch, pending,
                   marked, updates, target, sent, inbox>>
  /\ OnWatchStreamOpen =>
       UNCHANGED <<history, issued, refused, cache,
                   lastRemoteSnapshotVersion, keys, savedToken,
                   queue, applied, running, view, current, synced,
                   token, listening, raised, shown, onlineState,
                   failures, timer, marked, updates, inbox>>
  /\ TargetAdded =>
       UNCHANGED <<history, issued, refused, cache,
                   lastRemoteSnapshotVersion, keys, savedToken,
                   queue, applied, running, view, current, synced,
                   token, listening, raised, shown, watch, marked,
                   updates, target, sent>>
  /\ HandleDocumentChange =>
       UNCHANGED <<history, issued, refused, cache,
                   lastRemoteSnapshotVersion, keys, savedToken,
                   queue, applied, running, view, current, synced,
                   token, listening, raised, shown, watch,
                   pending, marked, target, sent>>
  /\ TargetCurrent =>
       UNCHANGED <<history, issued, refused, cache,
                   lastRemoteSnapshotVersion, keys, savedToken,
                   queue, applied, running, view, current, synced,
                   token, listening, raised, shown, watch,
                   pending, updates, target, sent>>
  /\ RaiseWatchSnapshot =>
       UNCHANGED <<history, issued, refused, queue, applied,
                   running, listening, watch, pending, marked,
                   target, sent>>
  /\ OnlineStateTimeout =>
       UNCHANGED <<history, issued, refused, cache,
                   lastRemoteSnapshotVersion, keys, savedToken,
                   queue, applied, running, view, synced, token,
                   listening, failures, watch, pending, marked,
                   updates, target, sent, inbox>>
  /\ OnWatchStreamClose =>
       UNCHANGED <<history, issued, refused, cache,
                   lastRemoteSnapshotVersion, keys, savedToken,
                   queue, applied, running, view, synced, token,
                   listening>>
  /\ LoseAnswers =>
       UNCHANGED <<history, issued, refused, cache,
                   lastRemoteSnapshotVersion, keys, savedToken,
                   queue, running, view, current, synced, token,
                   listening, raised, shown, onlineState,
                   failures, timer, watch, pending, marked,
                   updates, target, sent, inbox>>
  /\ Crash =>
       UNCHANGED <<history, issued, refused, cache,
                   lastRemoteSnapshotVersion, keys, savedToken,
                   queue>>
  /\ Start =>
       UNCHANGED <<history, issued, refused, cache,
                   lastRemoteSnapshotVersion, keys, savedToken,
                   queue, applied, view, current, synced, token,
                   listening, raised, shown, onlineState,
                   failures, timer, watch, pending, marked,
                   updates, target, sent, inbox>>
<1>1. ApplyWrite =>
       UNCHANGED <<issued, refused, cache,
                   lastRemoteSnapshotVersion, keys, savedToken,
                   queue, running, view, current, synced, token,
                   listening, raised, shown, onlineState,
                   failures, timer, watch, pending, marked,
                   updates, target, sent, inbox>>
  BY DEF ApplyWrite, Store, backend, docCache, queryView, events, online,
         aggregator, stream
<1>2. \A d \in Doc : OtherWrite(d) =>
       UNCHANGED <<refused, cache, lastRemoteSnapshotVersion,
                   keys, savedToken, queue, applied, running,
                   view, current, synced, token, listening,
                   raised, shown, onlineState, failures, timer,
                   watch, pending, marked, updates, target, sent,
                   inbox>>
  BY DEF OtherWrite, Store, backend, docCache, queryView, events, online,
         aggregator, stream
<1>3. AddTarget =>
       UNCHANGED <<history, issued, refused, cache,
                   lastRemoteSnapshotVersion, keys, savedToken,
                   queue, applied, running, view, current, synced,
                   token, listening, raised, shown, onlineState,
                   failures, timer, watch, pending, marked,
                   updates, sent>>
  BY DEF AddTarget, backend, docCache, queryView, events, online, aggregator,
         stream
<1>4. SendSnapshot =>
       UNCHANGED <<history, issued, refused, cache,
                   lastRemoteSnapshotVersion, keys, savedToken,
                   queue, applied, running, view, current, synced,
                   token, listening, raised, shown, onlineState,
                   failures, timer, watch, pending, marked,
                   updates>>
  BY DEF SendSnapshot, backend, docCache, queryView, events, online,
         aggregator, stream
<1>5. \A l \in Listener : Listen(l) =>
       UNCHANGED <<history, issued, refused, cache,
                   lastRemoteSnapshotVersion, keys, savedToken,
                   queue, applied, running, onlineState, failures,
                   pending, marked, updates, target, sent, inbox>>
  BY DEF Listen, backend, docCache, queryView, events, online, aggregator, stream
<1>6. \A l \in Listener : AddQueryListener(l) =>
       UNCHANGED <<history, issued, refused, cache,
                   lastRemoteSnapshotVersion, keys, savedToken,
                   queue, applied, running, view, current, synced,
                   token, onlineState, failures, timer, watch,
                   pending, marked, updates, target, sent, inbox>>
  BY DEF AddQueryListener, backend, docCache, queryView, events, online,
         aggregator, stream
<1>7. \A d \in Doc : WriteMutations(d) =>
       UNCHANGED <<history, refused, cache,
                   lastRemoteSnapshotVersion, keys, savedToken,
                   applied, running, current, synced, token,
                   listening, onlineState, failures, timer, watch,
                   pending, marked, updates, target, sent, inbox>>
  BY DEF WriteMutations, ApplyChanges, backend, docCache, queryView, events,
         online, aggregator, stream
<1>8. HandleSuccessfulWrite =>
       UNCHANGED <<history, issued, refused,
                   lastRemoteSnapshotVersion, keys, savedToken,
                   running, current, synced, token, listening,
                   onlineState, failures, timer, watch, pending,
                   marked, updates, target, sent, inbox>>
  BY DEF HandleSuccessfulWrite, ApplyChanges, backend, docCache, queryView,
         events, online, aggregator, stream
<1>9. HandleRejectedWrite =>
       UNCHANGED <<history, issued, cache,
                   lastRemoteSnapshotVersion, keys, savedToken,
                   running, current, synced, token, listening,
                   onlineState, failures, timer, watch, pending,
                   marked, updates, target, sent, inbox>>
  BY DEF HandleRejectedWrite, ApplyChanges, backend, docCache, queryView,
         events, online, aggregator, stream
<1>10. OnWatchStreamOpen =>
       UNCHANGED <<history, issued, refused, cache,
                   lastRemoteSnapshotVersion, keys, savedToken,
                   queue, applied, running, view, current, synced,
                   token, listening, raised, shown, onlineState,
                   failures, timer, marked, updates, inbox>>
  BY DEF OnWatchStreamOpen, backend, docCache, queryView, events, online,
         aggregator, stream
<1>11. TargetAdded =>
       UNCHANGED <<history, issued, refused, cache,
                   lastRemoteSnapshotVersion, keys, savedToken,
                   queue, applied, running, view, current, synced,
                   token, listening, raised, shown, watch, marked,
                   updates, target, sent>>
  BY DEF TargetAdded, Receive, backend, docCache, queryView, events, online,
         aggregator, stream
<1>12. HandleDocumentChange =>
       UNCHANGED <<history, issued, refused, cache,
                   lastRemoteSnapshotVersion, keys, savedToken,
                   queue, applied, running, view, current, synced,
                   token, listening, raised, shown, watch,
                   pending, marked, target, sent>>
  BY DEF HandleDocumentChange, Receive, backend, docCache, queryView, events,
         online, aggregator, stream
<1>13. TargetCurrent =>
       UNCHANGED <<history, issued, refused, cache,
                   lastRemoteSnapshotVersion, keys, savedToken,
                   queue, applied, running, view, current, synced,
                   token, listening, raised, shown, watch,
                   pending, updates, target, sent>>
  BY DEF TargetCurrent, Receive, backend, docCache, queryView, events, online,
         aggregator, stream
<1>14. RaiseWatchSnapshot =>
       UNCHANGED <<history, issued, refused, queue, applied,
                   running, listening, watch, pending, marked,
                   target, sent>>
  BY DEF RaiseWatchSnapshot, Receive, ApplyChanges, backend, docCache,
         queryView, events, online, aggregator, stream
<1>15. OnlineStateTimeout =>
       UNCHANGED <<history, issued, refused, cache,
                   lastRemoteSnapshotVersion, keys, savedToken,
                   queue, applied, running, view, synced, token,
                   listening, failures, watch, pending, marked,
                   updates, target, sent, inbox>>
  BY DEF OnlineStateTimeout, SetAndBroadcast, backend, docCache, queryView,
         events, online, aggregator, stream
<1>16. OnWatchStreamClose =>
       UNCHANGED <<history, issued, refused, cache,
                   lastRemoteSnapshotVersion, keys, savedToken,
                   queue, applied, running, view, synced, token,
                   listening>>
  BY DEF OnWatchStreamClose, NoStream, SetAndBroadcast, backend, docCache,
         queryView, events, online, aggregator, stream
<1>17. LoseAnswers =>
       UNCHANGED <<history, issued, refused, cache,
                   lastRemoteSnapshotVersion, keys, savedToken,
                   queue, running, view, current, synced, token,
                   listening, raised, shown, onlineState,
                   failures, timer, watch, pending, marked,
                   updates, target, sent, inbox>>
  BY DEF LoseAnswers, backend, docCache, queryView, events, online,
         aggregator, stream
<1>18. Crash =>
       UNCHANGED <<history, issued, refused, cache,
                   lastRemoteSnapshotVersion, keys, savedToken,
                   queue>>
  BY DEF Crash, NoStream, backend, docCache, queryView, events, online,
         aggregator, stream
<1>19. Start =>
       UNCHANGED <<history, issued, refused, cache,
                   lastRemoteSnapshotVersion, keys, savedToken,
                   queue, applied, view, current, synced, token,
                   listening, raised, shown, onlineState,
                   failures, timer, watch, pending, marked,
                   updates, target, sent, inbox>>
  BY DEF Start, backend, docCache, queryView, events, online, aggregator, stream
<1>20. QED
  BY <1>1, <1>2, <1>3, <1>4, <1>5, <1>6, <1>7, <1>8, <1>9, <1>10, <1>11, <1>12,
     <1>13, <1>14, <1>15, <1>16, <1>17, <1>18, <1>19

-----------------------------------------------------------------------------
(* The types are kept.                                                     *)

IInv == TypeOK /\ Safe

\* What ApplyChanges leaves, for the three writers.
LEMMA ApplyTypes ==
  ASSUME TypeOK, NEW v \in [Doc -> ViewDoc], NEW c \in BOOLEAN,
         NEW s \in SUBSET Doc, ApplyChanges(v, c, s)
  PROVE  /\ view' \in [Doc -> ViewDoc] /\ current' \in BOOLEAN
         /\ synced' \subseteq Doc
         /\ EventTypes'
<1>1. EventTypes
  BY TypeParts
<1>2. view' = v /\ current' = c /\ synced' = s /\ listening' = listening
  BY DEF ApplyChanges
<1>3. raised' \subseteq listening
  BY <1>1 DEF ApplyChanges, EventTypes
<1>4. shown' \in [Listener -> [Doc -> ViewDoc]]
  BY <1>1 DEF ApplyChanges, EventTypes
<1>5. QED
  BY <1>1, <1>2, <1>3, <1>4 DEF EventTypes

\* The three writes of this device are applied to the view.
LEMMA ViewSteps ==
  ASSUME IInv, NEW d \in Doc,
         NEW q \in Seq(Queued), NEW c \in [Doc -> Cached],
         \A e \in Doc : c[e].version <= Len(history),
         IF listening = {} THEN UNCHANGED <<queryView, events>>
         ELSE ApplyChanges(ComputeDocumentChanges({d}, q, c), current, synced)
  PROVE  /\ view' \in [Doc -> ViewDoc] /\ current' \in BOOLEAN
         /\ synced' \subseteq Doc
         /\ EventTypes'
<1>1. ViewTypes /\ EventTypes
  BY TypeParts DEF IInv
<1>2. CASE listening = {}
  BY <1>1, <1>2 DEF ViewTypes, EventTypes, queryView, events
<1>3. CASE listening # {}
  <2>1. ComputeDocumentChanges({d}, q, c) \in [Doc -> ViewDoc]
    BY ComputeType DEF IInv
  <2>2. QED
    BY <1>1, <1>3, <2>1, ApplyTypes DEF ViewTypes, IInv
<1>4. QED
  BY <1>2, <1>3

LEMMA BackendTypesKept ==
  ASSUME IInv, [Next]_vars
  PROVE  BackendTypes'
<1>1. BackendTypes /\ QueueTypes /\ Bounds
  BY TypeParts DEF IInv, Safe
<1>2. ASSUME NEW x \in Stored, history' = Append(history, x),
             Len(history) + 1 <= MaxVersions
      PROVE  history' \in Seq(Stored) /\ Len(history') \in 1 .. MaxVersions
  <2>1. history' \in Seq(Stored) /\ Len(history') = Len(history) + 1
    BY <1>1, <1>2, AppendProperties DEF BackendTypes
  <2>2. QED
    BY <1>1, <1>2, <2>1, LenProperties DEF BackendTypes
<1>3. CASE ApplyWrite
  <2> DEFINE x == [doc |-> queue[Len(applied) + 1].doc,
                   write |-> queue[Len(applied) + 1].write]
  <2>1. Len(applied) + 1 \in 1 .. Len(queue)
    BY <1>3, Ranges DEF ApplyWrite, IInv
  <2>2. queue[Len(applied) + 1] \in Queued
    BY <2>1, Ranges DEF IInv
  <2>3. x \in Stored
    BY <2>2 DEF Stored, Queued
  <2>4. history' = Append(history, x)
    BY <1>3 DEF ApplyWrite, Store
  <2>5. Len(history) + 1 <= MaxVersions
    BY <1>1, <2>1, Ranges DEF Bounds, IInv
  <2> HIDE DEF x
  <2>6. UNCHANGED <<issued, refused>>
    BY <1>3, Frames
  <2>7. QED
    BY <1>1, <1>2, <2>3, <2>4, <2>5, <2>6 DEF BackendTypes
<1>4. CASE \E d \in Doc : OtherWrite(d)
  <2>1. PICK d \in Doc : OtherWrite(d)
    BY <1>4
  <2> DEFINE x == [doc |-> d, write |-> issued + 1]
  <2>2. issued + 1 \in Write
    BY <2>1, Ranges DEF OtherWrite, IInv, Write
  <2>3. x \in Stored
    BY <2>2 DEF Stored
  <2>4. history' = Append(history, x)
    BY <2>1 DEF OtherWrite, Store
  <2>5. Len(history) + 1 <= MaxVersions
    BY <2>1, <1>1, Ranges DEF Bounds, IInv, OtherWrite, Room
  <2> HIDE DEF x
  <2>6. issued' = issued + 1 /\ refused' = refused
    BY <2>1 DEF OtherWrite
  <2>7. QED
    BY <1>1, <1>2, <2>2, <2>3, <2>4, <2>5, <2>6 DEF BackendTypes
<1>5. CASE \E d \in Doc : WriteMutations(d)
  <2>1. PICK d \in Doc : WriteMutations(d)
    BY <1>5
  <2>2. issued' = issued + 1 /\ issued + 1 \in Write
    BY <2>1, Ranges DEF WriteMutations, IInv, Write
  <2>3. UNCHANGED <<history, refused>>
    BY <2>1, Frames
  <2>4. QED
    BY <1>1, <2>2, <2>3 DEF BackendTypes
<1>6. CASE HandleRejectedWrite
  <2>1. queue # <<>> /\ refused' = refused \cup {Head(queue).write}
    BY <1>6 DEF HandleRejectedWrite
  <2>2. Head(queue) \in Queued
    BY <1>1, <2>1, HeadTailProperties DEF QueueTypes
  <2>3. Head(queue).write \in Write
    BY <2>2 DEF Queued
  <2>4. UNCHANGED <<history, issued>>
    BY <1>6, Frames
  <2>5. QED
    BY <1>1, <2>1, <2>3, <2>4 DEF BackendTypes
<1>7. CASE UNCHANGED <<history, issued, refused>>
  BY <1>1, <1>7 DEF BackendTypes
<1>8. CASE UNCHANGED vars
  BY <1>7, <1>8 DEF vars, backend
<1>9. QED
  BY <1>3, <1>4, <1>5, <1>6, <1>7, <1>8, Frames
     DEF Next, Backend, Client, Fault, OnWatchStreamChange

\* What an acknowledgement does to the cache.
LEMMA Acknowledged ==
  ASSUME IInv, HandleSuccessfulWrite
  PROVE  /\ Len(applied) # 0 /\ Len(queue) # 0 /\ queue # <<>>
         /\ Head(queue) = queue[1] /\ queue[1] \in Queued
         /\ Head(applied) = applied[1] /\ applied[1] \in 1 .. Len(history)
         /\ history[applied[1]].doc = queue[1].doc
         /\ history[applied[1]].write = queue[1].write
         /\ applied[1] \in Version
         /\ cache' \in [Doc -> Cached]
         /\ \A d \in Doc : d # queue[1].doc => cache'[d] = cache[d]
         /\ IF cache[queue[1].doc].version < applied[1]
            THEN /\ cache'[queue[1].doc].version = applied[1]
                 /\ cache'[queue[1].doc].committed
            ELSE cache'[queue[1].doc] = cache[queue[1].doc]
<1>1. CacheTypes /\ QueueTypes /\ Bounds /\ AppliedLast
  BY TypeParts DEF IInv, Safe
<1>2. applied # <<>>
  BY DEF HandleSuccessfulWrite
<1>3. Len(applied) # 0 /\ Head(applied) = applied[1]
  BY <1>1, <1>2, EmptySeq, HeadTailProperties DEF QueueTypes
<1>4. Len(queue) # 0 /\ 1 \in 1 .. Len(applied) /\ 1 \in 1 .. Len(queue)
  BY <1>1, <1>3, Ranges DEF IInv, Bounds
<1>5. queue # <<>> /\ Head(queue) = queue[1] /\ queue[1] \in Queued
  BY <1>1, <1>4, EmptySeq, HeadTailProperties, Ranges DEF QueueTypes, IInv
<1>6. /\ applied[1] \in 1 .. Len(history)
      /\ history[applied[1]].doc = queue[1].doc
      /\ history[applied[1]].write = queue[1].write
  BY <1>1, <1>4 DEF AppliedLast
<1>7. applied[1] \in Version
  BY <1>1, <1>4, ElementOfSeq DEF QueueTypes
<1>8. queue[1].doc \in Doc
  BY <1>5 DEF Queued
<1> DEFINE x == [version |-> applied[1], committed |-> TRUE]
<1>9. x \in Cached /\ x.version = applied[1] /\ x.committed
  BY <1>7 DEF Cached
<1>10. cache' = IF cache[queue[1].doc].version < applied[1]
                THEN [cache EXCEPT ![queue[1].doc] = x] ELSE cache
  BY <1>3, <1>5 DEF HandleSuccessfulWrite
<1> HIDE DEF x
<1>11. cache \in [Doc -> Cached]
  BY <1>1 DEF CacheTypes
<1>12. QED
  BY <1>3, <1>4, <1>5, <1>6, <1>7, <1>8, <1>9, <1>10, <1>11

\* The documents of a snapshot that go to the cache.
New == {d \in Doc : updates[d] # 0 /\ Accepted(d)}

\* The message is the last of the inbox.
LEMMA Snapshot ==
  ASSUME IInv, RaiseWatchSnapshot
  PROVE  /\ Len(inbox) = 1 /\ inbox' = <<>> /\ sent' = sent
         /\ inbox[1].kind = "Snapshot"
         /\ lastRemoteSnapshotVersion' \in {lastRemoteSnapshotVersion, sent}
         /\ IF sent < lastRemoteSnapshotVersion
            THEN UNCHANGED <<docCache, queryView, events, token, updates>>
            ELSE   /\ lastRemoteSnapshotVersion' = sent
                   /\ cache' = [d \in Doc |->
                                  IF d \in New
                                  THEN [version |-> updates[d], committed |-> FALSE]
                                  ELSE cache[d]]
                   /\ keys' \subseteq Doc
                   /\ token' = sent
                   /\ savedToken' \in {sent, savedToken}
                   /\ updates' = [d \in Doc |-> 0]
                   /\ synced \cup {d \in Doc : updates[d] # 0} \in SUBSET Doc
                   /\ ApplyChanges(ComputeDocumentChanges(New, queue, cache'),
                                   marked,
                                   synced \cup {d \in Doc : updates[d] # 0})
<1>1. StreamTypes /\ CacheTypes /\ ViewTypes /\ InboxShape
  BY TypeParts DEF IInv, Safe
<1>2. inbox # <<>> /\ Head(inbox).kind = "Snapshot" /\ inbox' = Tail(inbox)
  BY DEF RaiseWatchSnapshot, Receive
<1>3. /\ Len(inbox) \in Nat /\ Len(inbox) # 0 /\ Head(inbox) = inbox[1]
      /\ inbox' \in Seq(Message) /\ Len(inbox') = Len(inbox) - 1
  BY <1>1, <1>2, EmptySeq, LenProperties, HeadTailProperties DEF StreamTypes
<1>4. 1 \in 1 .. Len(inbox)
  BY SMTT(40), <1>3
<1>5. Len(inbox) = 1 /\ inbox[1].version = sent
  BY <1>1, <1>2, <1>3, <1>4 DEF InboxShape
<1>6. inbox' = <<>>
  BY <1>3, <1>5, EmptySeq
<1>7. {d \in {e \in Doc : updates[e] # 0} : Accepted(d)} = New
  BY DEF New
<1>8. sent' = sent
  BY Frames
<1>9. CASE sent < lastRemoteSnapshotVersion
  <2>1. UNCHANGED <<docCache, queryView, events, token, updates>>
    BY <1>3, <1>5, <1>9 DEF RaiseWatchSnapshot
  <2>2. QED
    BY <1>2, <1>3, <1>5, <1>6, <1>8, <1>9, <2>1 DEF docCache
<1>10. CASE ~(sent < lastRemoteSnapshotVersion)
  <2>1. /\ lastRemoteSnapshotVersion' = sent
        /\ cache' = [d \in Doc |->
                       IF d \in New
                       THEN [version |-> updates[d], committed |-> FALSE]
                       ELSE cache[d]]
        /\ keys' = keys \cup ({d \in Doc : updates[d] # 0} \ synced)
        /\ token' = sent
        /\ savedToken' \in {sent, savedToken}
        /\ updates' = [d \in Doc |-> 0]
        /\ ApplyChanges(ComputeDocumentChanges(New, queue, cache'),
                        marked, synced \cup {d \in Doc : updates[d] # 0})
    BY <1>3, <1>5, <1>7, <1>10 DEF RaiseWatchSnapshot
  <2>2. keys' \subseteq Doc /\ synced \cup {d \in Doc : updates[d] # 0} \in SUBSET Doc
    BY <1>1, <2>1 DEF CacheTypes, ViewTypes
  <2>3. QED
    BY <1>2, <1>3, <1>5, <1>6, <1>8, <1>10, <2>1, <2>2
<1>11. QED
  BY <1>9, <1>10

\* What a snapshot that is raised does to the cache.
LEMMA SnapshotCache ==
  ASSUME IInv, RaiseWatchSnapshot, ~(sent < lastRemoteSnapshotVersion)
  PROVE  /\ cache' \in [Doc -> Cached]
         /\ \A d \in Doc :
              /\ d \in New => /\ cache'[d].version = updates[d]
                              /\ ~cache'[d].committed
                              /\ updates[d] # 0
                              /\ cache[d].version <= updates[d]
              /\ d \notin New => /\ cache'[d] = cache[d]
                                 /\ updates[d] <= cache[d].version
<1>1. CacheTypes /\ StreamTypes
  BY TypeParts DEF IInv
<1>2. cache' = [d \in Doc |-> IF d \in New
                              THEN [version |-> updates[d], committed |-> FALSE]
                              ELSE cache[d]]
  BY Snapshot
<1>3. \A d \in Doc : [version |-> updates[d], committed |-> FALSE] \in Cached
  BY <1>1 DEF StreamTypes, Cached
<1>4. \A d \in Doc : cache[d] \in Cached
  BY <1>1 DEF CacheTypes
<1>5. \A d \in Doc : /\ d \in New => /\ updates[d] # 0
                                     /\ cache[d].version <= updates[d]
                     /\ d \notin New => updates[d] <= cache[d].version
  <2>1. \A d \in Doc : cache[d].version \in Nat /\ updates[d] \in Nat
    BY Ranges DEF IInv
  <2>2. QED
    BY <2>1 DEF New, Accepted
<1>6. QED
  BY <1>2, <1>3, <1>4, <1>5

LEMMA CacheTypesKept ==
  ASSUME IInv, [Next]_vars
  PROVE  CacheTypes'
<1>1. CacheTypes /\ StreamTypes
  BY TypeParts DEF IInv
<1>2. CASE HandleSuccessfulWrite
  <2>1. cache' \in [Doc -> Cached]
    BY <1>2, Acknowledged
  <2>2. UNCHANGED <<lastRemoteSnapshotVersion, keys, savedToken>>
    BY <1>2, Frames
  <2>3. QED
    BY <1>1, <2>1, <2>2 DEF CacheTypes
<1>3. CASE RaiseWatchSnapshot
  <2>1. CASE sent < lastRemoteSnapshotVersion
    BY <1>1, <1>3, <2>1, Snapshot DEF CacheTypes, docCache
  <2>2. CASE ~(sent < lastRemoteSnapshotVersion)
    <3>1. cache' \in [Doc -> Cached]
      BY <1>3, <2>2, SnapshotCache
    <3>2. /\ lastRemoteSnapshotVersion' = sent
          /\ keys' \subseteq Doc
          /\ savedToken' \in {sent, savedToken}
      BY <1>3, <2>2, Snapshot
    <3>3. QED
      BY <1>1, <3>1, <3>2 DEF CacheTypes, StreamTypes
  <2>3. QED
    BY <2>1, <2>2
<1>4. CASE UNCHANGED <<cache, lastRemoteSnapshotVersion, keys, savedToken>>
  BY <1>1, <1>4 DEF CacheTypes
<1>5. CASE UNCHANGED vars
  BY <1>4, <1>5 DEF vars, docCache
<1>6. QED
  BY <1>2, <1>3, <1>4, <1>5, Frames
     DEF Next, Backend, Client, Fault, OnWatchStreamChange

LEMMA QueueTypesKept ==
  ASSUME IInv, [Next]_vars
  PROVE  QueueTypes'
<1>1. QueueTypes /\ BackendTypes /\ BackendTypes'
  BY TypeParts, BackendTypesKept DEF IInv
<1>2. CASE ApplyWrite
  <2>1. Len(history') \in Version
    BY <1>1, MaxVersionsAssumption DEF BackendTypes, Version
  <2>2. applied' = Append(applied, Len(history'))
    BY <1>2 DEF ApplyWrite
  <2>3. applied' \in Seq(Version)
    BY <1>1, <2>1, <2>2, AppendProperties DEF QueueTypes
  <2>4. UNCHANGED <<queue, running>>
    BY <1>2, Frames
  <2>5. QED
    BY <1>1, <2>3, <2>4 DEF QueueTypes
<1>3. CASE \E d \in Doc : WriteMutations(d)
  <2>1. PICK d \in Doc : WriteMutations(d)
    BY <1>3
  <2>2. [doc |-> d, write |-> issued + 1] \in Queued
    BY <2>1, Ranges DEF WriteMutations, IInv, Queued, Write
  <2>3. queue' = Append(queue, [doc |-> d, write |-> issued + 1])
    BY <2>1 DEF WriteMutations
  <2>4. queue' \in Seq(Queued)
    BY <1>1, <2>2, <2>3, AppendProperties DEF QueueTypes
  <2>5. UNCHANGED <<applied, running>>
    BY <2>1, Frames
  <2>6. QED
    BY <1>1, <2>4, <2>5 DEF QueueTypes
<1>4. CASE HandleSuccessfulWrite
  <2>1. queue # <<>> /\ applied # <<>>
    BY <1>4, Acknowledged DEF HandleSuccessfulWrite
  <2>2. queue' = Tail(queue) /\ applied' = Tail(applied) /\ running' = running
    BY <1>4 DEF HandleSuccessfulWrite
  <2>3. QED
    BY <1>1, <2>1, <2>2, HeadTailProperties DEF QueueTypes
<1>5. CASE HandleRejectedWrite
  <2>1. queue # <<>> /\ queue' = Tail(queue) /\ applied' = <<>> /\ running' = running
    BY <1>5 DEF HandleRejectedWrite
  <2>2. QED
    BY <1>1, <2>1, HeadTailProperties, EmptySeq DEF QueueTypes
<1>6. CASE LoseAnswers
  BY <1>1, <1>6, Frames, EmptySeq DEF QueueTypes, LoseAnswers
<1>7. CASE Crash
  BY <1>1, <1>7, Frames, EmptySeq DEF QueueTypes, Crash
<1>8. CASE Start
  BY <1>1, <1>8, Frames DEF QueueTypes, Start
<1>9. CASE UNCHANGED <<queue, applied, running>>
  BY <1>1, <1>9 DEF QueueTypes
<1>10. CASE UNCHANGED vars
  BY <1>9, <1>10 DEF vars
<1>11. QED
  BY <1>2, <1>3, <1>4, <1>5, <1>6, <1>7, <1>8, <1>9, <1>10, Frames
     DEF Next, Backend, Client, Fault, OnWatchStreamChange

\* The cache is never ahead of the backend.
LEMMA CachedVersions ==
  ASSUME IInv
  PROVE  \A d \in Doc : cache[d].version <= Len(history)
<1>1. \A d \in Doc : IsVersionOf(history, d, cache[d].version)
  BY DEF IInv, Safe, VersionsOfDocs
<1>2. QED
  BY <1>1, Ranges DEF IInv, IsVersionOf

LEMMA ViewTypesKept ==
  ASSUME IInv, [Next]_vars
  PROVE  ViewTypes' /\ EventTypes'
<1>1. ViewTypes /\ EventTypes /\ CacheTypes /\ StreamTypes /\ QueueTypes /\ BackendTypes
  BY TypeParts DEF IInv
<1>2. CASE \E l \in Listener : Listen(l)
  <2>1. PICK l \in Listener : Listen(l)
    BY <1>2
  <2>2. \A d \in Doc : LocalDoc(d, queue, cache) \in ViewDoc
    BY <1>1, LocalDocIs, LocalType, CachedVersions DEF BackendTypes, QueueTypes, CacheTypes
  <2>3. view' \in [Doc -> ViewDoc]
    BY <2>1, <2>2 DEF Listen
  <2>4. shown' \in [Listener -> [Doc -> ViewDoc]]
    BY <1>1, <2>1, <2>3 DEF Listen, EventTypes
  <2>5. /\ listening' = {l} /\ raised' \subseteq {l}
        /\ current' = FALSE /\ synced' = keys /\ token' = savedToken
    BY <2>1 DEF Listen
  <2>6. QED
    BY <1>1, <2>3, <2>4, <2>5 DEF ViewTypes, EventTypes, CacheTypes
<1>3. CASE \E l \in Listener : AddQueryListener(l)
  <2>1. PICK l \in Listener : AddQueryListener(l)
    BY <1>3
  <2>2. /\ listening' = listening \cup {l}
        /\ raised' \in {raised, raised \cup {l}}
        /\ shown' \in {shown, [shown EXCEPT ![l] = view]}
    BY <2>1 DEF AddQueryListener
  <2>3. UNCHANGED <<view, current, synced, token>>
    BY <2>1, Frames
  <2>4. shown' \in [Listener -> [Doc -> ViewDoc]]
    BY <1>1, <2>2 DEF EventTypes, ViewTypes
  <2>5. QED
    BY <1>1, <2>2, <2>3, <2>4 DEF ViewTypes, EventTypes
<1>4. CASE \E d \in Doc : WriteMutations(d)
  <2>1. PICK d \in Doc : WriteMutations(d)
    BY <1>4
  <2>2. IF listening = {} THEN UNCHANGED <<queryView, events>>
        ELSE ApplyChanges(ComputeDocumentChanges({d}, queue', cache), current, synced)
    BY <2>1 DEF WriteMutations
  <2>3. queue' \in Seq(Queued)
    BY QueueTypesKept DEF QueueTypes
  <2>4. token' = token
    BY <2>1, Frames
  <2>5. QED
    BY <1>1, <2>2, <2>3, <2>4, ViewSteps, CachedVersions DEF ViewTypes, CacheTypes
<1>5. CASE HandleSuccessfulWrite
  <2>1. IF listening = {} THEN UNCHANGED <<queryView, events>>
        ELSE ApplyChanges(ComputeDocumentChanges({queue[1].doc}, queue', cache'),
                          current, synced)
    BY <1>5, Acknowledged DEF HandleSuccessfulWrite
  <2>2. queue' \in Seq(Queued)
    BY QueueTypesKept DEF QueueTypes
  <2>3. cache' \in [Doc -> Cached] /\ \A d \in Doc : cache'[d].version <= Len(history)
    BY <1>5, Acknowledged, CachedVersions
  <2>4. token' = token /\ queue[1].doc \in Doc
    BY <1>5, Frames, Acknowledged DEF Queued
  <2>5. QED
    BY <1>1, <2>1, <2>2, <2>3, <2>4, ViewSteps DEF ViewTypes
<1>6. CASE HandleRejectedWrite
  <2>1. IF listening = {} THEN UNCHANGED <<queryView, events>>
        ELSE ApplyChanges(ComputeDocumentChanges({Head(queue).doc}, queue', cache),
                          current, synced)
    BY <1>6 DEF HandleRejectedWrite
  <2>2. queue' \in Seq(Queued)
    BY QueueTypesKept DEF QueueTypes
  <2>3. Head(queue) \in Queued
    BY <1>1, <1>6, HeadTailProperties DEF QueueTypes, HandleRejectedWrite
  <2>4. token' = token /\ Head(queue).doc \in Doc
    BY <1>6, <2>3, Frames DEF Queued
  <2>5. QED
    BY <1>1, <2>1, <2>2, <2>4, ViewSteps, CachedVersions DEF ViewTypes, CacheTypes
<1>7. CASE RaiseWatchSnapshot
  <2>1. CASE sent < lastRemoteSnapshotVersion
    BY <1>1, <1>7, <2>1, Snapshot DEF ViewTypes, EventTypes, queryView, events
  <2>2. CASE ~(sent < lastRemoteSnapshotVersion)
    <3> DEFINE docs == {d \in Doc : updates[d] # 0}
    <3>1. cache' \in [Doc -> Cached] /\ \A d \in Doc : cache'[d].version <= Len(history)
      <4>1. \A d \in Doc : updates[d] <= Len(history)
        BY Ranges DEF IInv, Safe, VersionsOfDocs, IsVersionOf
      <4>2. QED
        BY <1>7, <2>2, <4>1, SnapshotCache, CachedVersions
    <3>2. ComputeDocumentChanges(New, queue, cache') \in [Doc -> ViewDoc]
      BY <1>1, <3>1, ComputeType DEF IInv, QueueTypes
    <3>3. ApplyChanges(ComputeDocumentChanges(New, queue, cache'), marked, synced \cup docs)
      BY <1>7, <2>2, Snapshot
    <3>4. token' = sent /\ synced \cup docs \in SUBSET Doc
      BY <1>7, <2>2, Snapshot
    <3> HIDE DEF docs
    <3>5. QED
      BY <1>1, <3>2, <3>3, <3>4, ApplyTypes DEF ViewTypes, StreamTypes, IInv
  <2>3. QED
    BY <2>1, <2>2
<1>8. CASE OnlineStateTimeout \/ OnWatchStreamClose
  <2>1. PICK s : SetAndBroadcast(s)
    BY <1>8 DEF OnlineStateTimeout, OnWatchStreamClose
  <2>2. /\ raised' \in {raised, listening} /\ current' \in {current, FALSE}
        /\ \/ shown' = shown
           \/ shown' = [l \in Listener |->
                          IF l \in listening \ raised THEN view ELSE shown[l]]
    BY <2>1 DEF SetAndBroadcast
  <2>3. UNCHANGED <<view, synced, listening, token>>
    BY <1>8, Frames
  <2>4. shown' \in [Listener -> [Doc -> ViewDoc]]
    BY <1>1, <2>2 DEF EventTypes, ViewTypes
  <2>5. QED
    BY <1>1, <2>2, <2>3, <2>4 DEF ViewTypes, EventTypes
<1>9. CASE Crash
  <2>1. Absent \in ViewDoc
    BY MaxWritesAssumption DEF Absent, ViewDoc, Write
  <2>2. [d \in Doc |-> Absent] \in [Doc -> ViewDoc] /\ 0 \in Version
    BY <2>1, MaxVersionsAssumption DEF Version
  <2>3. QED
    BY <1>9, <2>2 DEF Crash, ViewTypes, EventTypes
<1>10. CASE UNCHANGED <<view, current, synced, token, listening, raised, shown>>
  BY <1>1, <1>10 DEF ViewTypes, EventTypes
<1>11. CASE UNCHANGED vars
  BY <1>10, <1>11 DEF vars, queryView, events
<1>12. QED
  BY <1>2, <1>3, <1>4, <1>5, <1>6, <1>7, <1>8, <1>9, <1>10, <1>11, Frames
     DEF Next, Backend, Client, Fault, OnWatchStreamChange

-----------------------------------------------------------------------------
(* The messages of a snapshot.                                             *)

\* SetToSeq lists every element of a finite set.
LEMMA Listing ==
  ASSUME NEW S, IsFiniteSet(S)
  PROVE  /\ Cardinality(S) \in Nat
         /\ SetToSeq(S) \in [1 .. Cardinality(S) -> S]
         /\ \A x \in S : \E i \in 1 .. Cardinality(S) : SetToSeq(S)[i] = x
<1> DEFINE n == Cardinality(S)
<1>1. n \in Nat /\ ExistsBijection(1 .. n, S)
  BY FS_CardinalityType
<1>2. PICK f : f \in Bijection(1 .. n, S)
  BY <1>1 DEF ExistsBijection
<1>3. f \in [1 .. n -> S] /\ IsInjective(f)
  BY <1>2 DEF Bijection, Injection
<1>4. SetToSeq(S) = CHOOSE g \in [1 .. n -> S] : IsInjective(g)
  BY DEF SetToSeq
<1>5. SetToSeq(S) \in [1 .. n -> S] /\ IsInjective(SetToSeq(S))
  BY <1>3, <1>4
<1>6. IsFiniteSet(1 .. n) /\ Cardinality(1 .. n) = n
  BY <1>1, FS_Interval
<1>7. SetToSeq(S) \in Injection(1 .. n, S)
  BY <1>5 DEF Injection
<1>8. SetToSeq(S) \in Surjection(1 .. n, S)
  BY <1>6, <1>7, FS_Injection
<1>9. QED
  BY <1>1, <1>5, <1>8 DEF Surjection

\* The documents of the query that the backend has are finitely many.
LEMMA ChangedFinite ==
  ASSUME TypeOK, NEW S \in SUBSET Doc,
         \A d \in S : \E n \in 1 .. Len(history) : history[n].doc = d
  PROVE  IsFiniteSet(S)
<1> DEFINE T == {history[n].doc : n \in 1 .. Len(history)}
<1>1. Len(history) \in Nat
  BY Ranges
<1>2. IsFiniteSet(1 .. Len(history))
  BY <1>1, FS_Interval
<1>3. IsFiniteSet(T)
  <2> DEFINE f == [n \in 1 .. Len(history) |-> history[n].doc]
  <2>1. f \in Surjection(1 .. Len(history), T)
    BY DEF Surjection
  <2>2. QED
    BY <1>2, <2>1, FS_Surjection
<1>4. S \in SUBSET T
  OBVIOUS
<1>5. QED
  BY <1>3, <1>4, FS_Subset

\* What the backend sends.
LEMMA SnapshotSent ==
  ASSUME IInv, SendSnapshot
  PROVE  LET v == Len(history)
         IN  /\ Quiet /\ target' = "current" /\ sent' = v
             /\ inbox' \in Seq(Message)
             /\ Len(inbox) < Len(inbox')
             /\ \A i \in 1 .. Len(inbox) : inbox'[i] = inbox[i]
             /\ inbox'[Len(inbox')] = TargetMessage("Snapshot", v)
             /\ \A i \in 1 .. Len(inbox') :
                  \/ i <= Len(inbox)
                  \/ i = Len(inbox')
                  \/ inbox'[i].kind = "Current"
                  \/ \E d \in Doc : /\ VersionOf(d, v) > sent
                                    /\ inbox'[i] = DocumentMessage(d, VersionOf(d, v))
             /\ \A d \in Doc : VersionOf(d, v) > sent =>
                  \E i \in 1 .. Len(inbox') :
                    inbox'[i] = DocumentMessage(d, VersionOf(d, v))
<1> DEFINE v == Len(history)
           docs == {d \in Doc : VersionOf(d, v) > sent}
           n == Cardinality(docs)
           order == SetToSeq(docs)
           batch == [i \in 1 .. n |-> DocumentMessage(order[i], VersionOf(order[i], v))]
           first == IF target = "added" THEN <<TargetMessage("Current", v)>>
                                        ELSE <<>>
           last == <<TargetMessage("Snapshot", v)>>
<1>1. StreamTypes /\ BackendTypes
  BY TypeParts DEF IInv
<1>2. v \in Nat /\ v \in Version
  BY <1>1, Ranges DEF IInv, Version
<1>3. \A d \in Doc : /\ VersionOf(d, v) \in 0 .. v
                     /\ VersionOf(d, v) # 0 => history[VersionOf(d, v)].doc = d
  BY <1>1, <1>2, VersionOfIs DEF BackendTypes
<1>4. \A d \in docs : /\ d \in Doc /\ VersionOf(d, v) \in 1 .. v
                      /\ VersionOf(d, v) > sent
                      /\ history[VersionOf(d, v)].doc = d
  BY <1>2, <1>3, Ranges DEF IInv
<1>5. IsFiniteSet(docs)
  BY <1>4, ChangedFinite DEF IInv
<1>6. n \in Nat /\ order \in [1 .. n -> docs]
      /\ \A d \in docs : \E i \in 1 .. n : order[i] = d
  BY <1>5, Listing
<1>7. /\ \A i \in 1 .. Len(inbox) : inbox[i].kind = "Added"
      /\ target' = "current" /\ sent' = v
      /\ inbox' = inbox \o batch \o first \o last
  <2>1. /\ \A i \in 1 .. Len(inbox) : inbox[i].kind = "Added"
        /\ target' = "current" /\ sent' = v
    BY DEF SendSnapshot
  <2>2. inbox' = inbox \o batch \o first \o last
    BY DEF SendSnapshot
  <2>3. QED
    BY <2>1, <2>2
<1>8. \A d \in docs : DocumentMessage(d, VersionOf(d, v)) \in Message
  <2>1. \A d \in docs : d \in Doc /\ VersionOf(d, v) \in Version
    BY <1>2, <1>4, MaxVersionsAssumption DEF Version
  <2>2. \A d \in Doc, w \in Version : DocumentMessage(d, w) \in Message
    BY DEF DocumentMessage, Message
  <2>3. QED
    BY <2>1, <2>2, Zenon
<1>9. /\ TargetMessage("Snapshot", v) \in Message
      /\ TargetMessage("Current", v) \in Message
      /\ TargetMessage("Current", v).kind = "Current"
  BY <1>2 DEF TargetMessage, Message
<1>10. \A d \in Doc : d \in docs <=> VersionOf(d, v) > sent
  OBVIOUS
<1>11. batch \in Seq(Message) /\ Len(batch) = n
       /\ \A i \in 1 .. n : batch[i] = DocumentMessage(order[i], VersionOf(order[i], v))
  <2>1. \A i \in 1 .. n : batch[i] \in Message
    BY <1>6, <1>8
  <2>2. batch \in [1 .. n -> Message]
    BY <2>1
  <2>3. QED
    BY <1>6, <2>2, SeqDef, LenProperties
<1>12. first \in Seq(Message) /\ last \in Seq(Message) /\ Len(last) = 1
       /\ last[1] = TargetMessage("Snapshot", v)
  BY <1>9
<1>13. Len(first) \in Nat /\ \A i \in 1 .. Len(first) : first[i].kind = "Current"
  BY <1>9
<1>14. inbox \in Seq(Message) /\ Len(inbox) \in Nat
  BY <1>1, Ranges DEF StreamTypes, IInv
<1> HIDE DEF docs, n, order, batch, first, last
<1> DEFINE a == inbox \o batch
           b == a \o first
<1>15. a \in Seq(Message) /\ Len(a) = Len(inbox) + n
       /\ \A i \in 1 .. Len(a) : a[i] = IF i <= Len(inbox) THEN inbox[i]
                                        ELSE batch[i - Len(inbox)]
  <2>1. inbox \in Seq(Message) /\ batch \in Seq(Message)
    BY <1>11, <1>14
  <2>2. /\ a \in Seq(Message) /\ Len(a) = Len(inbox) + Len(batch)
        /\ \A i \in 1 .. Len(inbox) + Len(batch) :
             a[i] = IF i <= Len(inbox) THEN inbox[i] ELSE batch[i - Len(inbox)]
    BY <2>1, ConcatProperties
  <2> HIDE DEF a
  <2>3. QED
    BY <1>11, <2>2
<1> HIDE DEF a
<1>16. b \in Seq(Message) /\ Len(b) = Len(inbox) + n + Len(first)
       /\ \A i \in 1 .. Len(b) : b[i] = IF i <= Len(a) THEN a[i]
                                        ELSE first[i - Len(a)]
  <2>1. /\ a \o first \in Seq(Message) /\ Len(a \o first) = Len(a) + Len(first)
        /\ \A i \in 1 .. Len(a) + Len(first) :
             (a \o first)[i] = IF i <= Len(a) THEN a[i] ELSE first[i - Len(a)]
    <3>1. a \in Seq(Message) /\ first \in Seq(Message)
      BY <1>12, <1>15
    <3>2. QED
      BY <3>1, ConcatProperties
  <2>2. QED
    BY <2>1, <1>15
<1> HIDE DEF b
<1>17. inbox' = b \o last
  BY <1>7 DEF a, b
<1>18. inbox' \in Seq(Message) /\ Len(inbox') = Len(inbox) + n + Len(first) + 1
       /\ \A i \in 1 .. Len(inbox') : inbox'[i] = IF i <= Len(b) THEN b[i]
                                                  ELSE last[i - Len(b)]
  <2>1. b \in Seq(Message) /\ last \in Seq(Message)
    BY <1>12, <1>16
  <2>2. /\ b \o last \in Seq(Message) /\ Len(b \o last) = Len(b) + Len(last)
        /\ \A i \in 1 .. Len(b) + Len(last) :
             (b \o last)[i] = IF i <= Len(b) THEN b[i] ELSE last[i - Len(b)]
    BY <2>1, ConcatProperties
  <2>3. QED
    BY <2>2, <1>12, <1>16, <1>15, <1>17
<1>19. Len(inbox) < Len(inbox')
  BY <1>6, <1>13, <1>14, <1>18
<1>20. \A i \in 1 .. Len(inbox) : inbox'[i] = inbox[i]
  BY <1>6, <1>13, <1>14, <1>15, <1>16, <1>18
<1>21. \A i \in 1 .. n : /\ Len(inbox) + i \in 1 .. Len(inbox')
                         /\ inbox'[Len(inbox) + i] = batch[i]
  BY SMTT(40), <1>6, <1>13, <1>14, <1>15, <1>16, <1>18
<1>22. \A i \in 1 .. Len(inbox') :
         i <= Len(inbox) + n \/ i = Len(inbox') \/ inbox'[i].kind = "Current"
  <2>1. SUFFICES ASSUME NEW i \in 1 .. Len(inbox'),
                        ~(i <= Len(inbox) + n), i # Len(inbox')
                 PROVE  inbox'[i].kind = "Current"
    OBVIOUS
  <2>2. i \in 1 .. Len(b) /\ ~(i <= Len(a)) /\ i - Len(a) \in 1 .. Len(first)
    BY <2>1, <1>6, <1>13, <1>14, <1>15, <1>16, <1>18
  <2>3. inbox'[i] = first[i - Len(a)]
    BY <2>1, <2>2, <1>16, <1>18
  <2>4. QED
    BY <2>2, <2>3, <1>13
<1>23. inbox'[Len(inbox')] = TargetMessage("Snapshot", v)
  <2>1. /\ Len(inbox') \in 1 .. Len(inbox') /\ ~(Len(inbox') <= Len(b))
        /\ Len(inbox') - Len(b) = 1
    BY <1>6, <1>13, <1>14, <1>16, <1>18
  <2>2. QED
    BY <2>1, <1>12, <1>18
<1>24. ASSUME NEW d \in Doc, VersionOf(d, v) > sent
       PROVE  \E i \in 1 .. Len(inbox') : inbox'[i] = DocumentMessage(d, VersionOf(d, v))
  <2>1. PICK i \in 1 .. n : order[i] = d
    BY <1>6, <1>10, <1>24
  <2>2. QED
    BY <2>1, <1>11, <1>21
<1>25. ASSUME NEW i \in 1 .. Len(inbox'), ~(i <= Len(inbox)), i <= Len(inbox) + n
       PROVE  \E d \in Doc : /\ VersionOf(d, v) > sent
                             /\ inbox'[i] = DocumentMessage(d, VersionOf(d, v))
  <2>1. i - Len(inbox) \in 1 .. n /\ i = Len(inbox) + (i - Len(inbox))
    BY <1>6, <1>14, <1>18, <1>13, <1>25
  <2>2. inbox'[i] = batch[i - Len(inbox)]
    BY <1>21, <2>1
  <2>3. order[i - Len(inbox)] \in docs
    BY <1>6, <2>1
  <2>4. QED
    BY <2>1, <2>2, <2>3, <1>4, <1>11
<1>26. QED
  BY <1>7, <1>18, <1>19, <1>20, <1>22, <1>23, <1>24, <1>25 DEF Quiet

\* The client reads the oldest message.
LEMMA Received ==
  ASSUME IInv, NEW k, Receive(k)
  PROVE  /\ Len(inbox) # 0 /\ inbox # <<>> /\ 1 \in 1 .. Len(inbox)
         /\ Head(inbox) = inbox[1] /\ inbox[1].kind = k
         /\ inbox' \in Seq(Message)
         /\ Len(inbox') \in Nat /\ Len(inbox') = Len(inbox) - 1
         /\ \A i \in 1 .. Len(inbox') :
              inbox'[i] = inbox[i + 1] /\ i + 1 \in 2 .. Len(inbox)
         /\ inbox' # <<>> => 1 \in 1 .. Len(inbox')
<1>1. StreamTypes
  BY TypeParts DEF IInv
<1>2. inbox # <<>> /\ Head(inbox).kind = k /\ inbox' = Tail(inbox)
  BY DEF Receive
<1>3. /\ Len(inbox) \in Nat /\ Len(inbox) # 0 /\ Head(inbox) = inbox[1]
      /\ inbox' \in Seq(Message) /\ Len(inbox') = Len(inbox) - 1
      /\ \A i \in 1 .. Len(inbox') : inbox'[i] = inbox[i + 1]
  BY <1>1, <1>2, EmptySeq, LenProperties, HeadTailProperties DEF StreamTypes
<1>4. inbox' # <<>> => Len(inbox') # 0
  BY <1>3, EmptySeq
<1>5. QED
  BY <1>2, <1>3, <1>4

\* The answer to the request is the first message.
LEMMA Answered ==
  ASSUME IInv, AddTarget
  PROVE  /\ Len(inbox) = 0 /\ Len(inbox') = 1 /\ inbox' \in Seq(Message)
         /\ inbox' # <<>> /\ inbox'[1] = TargetMessage("Added", 0)
         /\ inbox'[1].kind = "Added"
         /\ target = "requested" /\ target' = "added"
<1>1. target = "requested" /\ target' = "added"
      /\ inbox' = Append(inbox, TargetMessage("Added", 0))
  BY DEF AddTarget
<1>2. inbox = <<>> /\ StreamTypes
  BY <1>1, TypeParts DEF IInv, Safe, StreamShape
<1>3. TargetMessage("Added", 0) \in Message /\ TargetMessage("Added", 0).kind = "Added"
  BY MaxVersionsAssumption DEF TargetMessage, Message, Version
<1>4. Len(inbox) = 0
  BY <1>2, EmptySeq
<1>5. /\ inbox' \in Seq(Message) /\ Len(inbox') = Len(inbox) + 1
      /\ inbox'[Len(inbox) + 1] = TargetMessage("Added", 0)
  BY <1>1, <1>2, <1>3, AppendProperties DEF StreamTypes
<1>6. inbox' # <<>>
  BY <1>4, <1>5, EmptySeq
<1>7. QED
  BY <1>1, <1>3, <1>4, <1>5, <1>6

LEMMA OnlineTypesKept ==
  ASSUME IInv, [Next]_vars
  PROVE  OnlineTypes'
<1>1. OnlineTypes
  BY TypeParts DEF IInv
<1>2. CASE \E l \in Listener : Listen(l)
  BY <1>1, <1>2 DEF Listen, OnlineTypes
<1>3. CASE OnWatchStreamChange
  <2>1. PICK k : Receive(k)
    BY <1>3 DEF OnWatchStreamChange, TargetAdded, HandleDocumentChange,
                TargetCurrent, RaiseWatchSnapshot
  <2>2. timer' = FALSE /\ failures' = 0 /\ onlineState' = "Online"
    BY <2>1 DEF Receive
  <2>3. timer' \in BOOLEAN
    BY <2>2, Zenon
  <2>4. QED
    BY <2>2, <2>3 DEF OnlineTypes
<1>4. CASE OnlineStateTimeout
  <2>1. timer' = FALSE /\ onlineState' = "Offline" /\ failures' = failures
    BY <1>4 DEF OnlineStateTimeout, SetAndBroadcast
  <2>2. timer' \in BOOLEAN
    BY <2>1, Zenon
  <2>3. QED
    BY <1>1, <2>1, <2>2 DEF OnlineTypes
<1>5. CASE OnWatchStreamClose
  <2>1. /\ timer' = TRUE \/ timer' = FALSE
        /\ onlineState' \in {"Unknown", "Offline"}
        /\ failures' \in {failures, 1}
    BY <1>5 DEF OnWatchStreamClose, SetAndBroadcast
  <2>2. timer' \in BOOLEAN
    BY <2>1, Zenon
  <2>3. QED
    BY <1>1, <2>1, <2>2 DEF OnlineTypes
<1>6. CASE Crash
  <2>1. timer' = FALSE /\ onlineState' = "Unknown" /\ failures' = 0
    BY <1>6 DEF Crash
  <2>2. timer' \in BOOLEAN
    BY <2>1, Zenon
  <2>3. QED
    BY <2>1, <2>2 DEF OnlineTypes
<1>7. CASE UNCHANGED <<onlineState, failures, timer>>
  BY <1>1, <1>7 DEF OnlineTypes
<1>8. CASE UNCHANGED vars
  BY <1>7, <1>8 DEF vars, online
<1>9. QED
  BY <1>2, <1>3, <1>4, <1>5, <1>6, <1>7, <1>8, Frames
     DEF Next, Backend, Client, Fault

LEMMA StreamTypesKept ==
  ASSUME IInv, [Next]_vars
  PROVE  StreamTypes'
<1>1. /\ StreamTypes /\ BackendTypes /\ ViewTypes /\ StreamShape
      /\ VersionsOfDocs
  BY TypeParts DEF IInv, Safe
<1>2. CASE AddTarget
  <2>1. inbox' \in Seq(Message) /\ target' = "added"
    BY <1>2, Answered
  <2>2. QED
    BY <1>1, <1>2, <2>1, Frames DEF StreamTypes
<1>3. CASE SendSnapshot
  <2>1. inbox' \in Seq(Message) /\ target' = "current" /\ sent' = Len(history)
    BY <1>3, SnapshotSent
  <2>2. sent' \in Version
    BY <2>1, <1>1, MaxVersionsAssumption DEF BackendTypes, Version
  <2>3. QED
    BY <1>1, <1>3, <2>1, <2>2, Frames DEF StreamTypes
<1>4. CASE \E l \in Listener : Listen(l)
  <2>1. PICK l \in Listener : Listen(l)
    BY <1>4
  <2>2. watch' = "Starting"
    BY <2>1 DEF Listen
  <2>3. QED
    BY <1>1, <2>1, <2>2, Frames DEF StreamTypes
<1>5. CASE OnWatchStreamOpen
  <2>1. pending = 0
    BY <1>1, <1>5 DEF OnWatchStreamOpen, StreamShape, StreamTypes
  <2>2. pending' = pending + 1 /\ target' = "requested" /\ sent' = token /\ watch' = "Open"
    BY <1>5 DEF OnWatchStreamOpen
  <2>3. QED
    BY <1>1, <1>5, <2>1, <2>2, Frames DEF StreamTypes, ViewTypes
<1>6. CASE TargetAdded
  <2>1. Receive("Added") /\ pending' = pending - 1
    BY <1>6 DEF TargetAdded
  <2>2. inbox' \in Seq(Message) /\ inbox # <<>> /\ inbox[1].kind = "Added"
    BY <2>1, Received
  <2>3. pending = 1
    BY <1>1, <2>2 DEF StreamShape
  <2>4. QED
    BY <1>1, <1>6, <2>1, <2>2, <2>3, Frames DEF StreamTypes
<1>7. CASE HandleDocumentChange
  <2>1. Receive("Document") /\
        updates' = IF pending = 0
                   THEN [updates EXCEPT ![Head(inbox).doc] = Head(inbox).version]
                   ELSE updates
    BY <1>7 DEF HandleDocumentChange
  <2>2. inbox' \in Seq(Message) /\ Head(inbox) = inbox[1] /\ 1 \in 1 .. Len(inbox)
    BY <2>1, Received
  <2>3. inbox[1].version \in Version
    <3>1. inbox[1] \in Message
      BY <2>2, Ranges DEF IInv
    <3>2. QED
      BY <3>1 DEF Message
  <2>4. updates' \in [Doc -> Version]
    BY <1>1, <2>1, <2>2, <2>3 DEF StreamTypes
  <2>5. QED
    BY <1>1, <1>7, <2>2, <2>4, Frames DEF StreamTypes
<1>8. CASE TargetCurrent
  <2>1. Receive("Current") /\ marked' = (pending = 0 \/ marked)
    BY <1>8 DEF TargetCurrent
  <2>2. inbox' \in Seq(Message)
    BY <2>1, Received
  <2>3. QED
    BY <1>1, <1>8, <2>1, <2>2, Frames DEF StreamTypes
<1>9. CASE RaiseWatchSnapshot
  <2>1. inbox' = <<>> /\ (updates' = updates \/ updates' = [d \in Doc |-> 0])
    BY <1>9, Snapshot
  <2>2. inbox' \in Seq(Message) /\ 0 \in Version
    BY <2>1, EmptySeq, MaxVersionsAssumption DEF Version
  <2>3. QED
    BY <1>1, <1>9, <2>1, <2>2, Frames DEF StreamTypes
<1>10. CASE OnWatchStreamClose \/ Crash
  <2>1. NoStream /\ watch' \in {"Initial", "Starting"}
    BY <1>10 DEF OnWatchStreamClose, Crash
  <2>2. /\ pending' = 0 /\ marked' = FALSE /\ updates' = [d \in Doc |-> 0]
        /\ target' = "none" /\ sent' = 0 /\ inbox' = <<>>
    BY <2>1 DEF NoStream
  <2>3. marked' \in BOOLEAN
    BY <2>2, Zenon
  <2>4. inbox' \in Seq(Message) /\ 0 \in Version
    BY <2>2, EmptySeq, MaxVersionsAssumption DEF Version
  <2>5. QED
    BY <2>1, <2>2, <2>3, <2>4 DEF StreamTypes
<1>11. CASE UNCHANGED <<watch, pending, marked, updates, target, sent, inbox>>
  BY <1>1, <1>11 DEF StreamTypes
<1>12. CASE UNCHANGED vars
  BY <1>11, <1>12 DEF vars, stream, aggregator
<1>13. QED
  BY <1>2, <1>3, <1>4, <1>5, <1>6, <1>7, <1>8, <1>9, <1>10, <1>11, <1>12, Frames
     DEF Next, Backend, Client, Fault, OnWatchStreamChange

LEMMA TypesKept ==
  ASSUME IInv, [Next]_vars
  PROVE  TypeOK'
<1>1. /\ BackendTypes' /\ CacheTypes' /\ QueueTypes' /\ ViewTypes'
      /\ EventTypes' /\ OnlineTypes' /\ StreamTypes'
  BY BackendTypesKept, CacheTypesKept, QueueTypesKept, ViewTypesKept,
     OnlineTypesKept, StreamTypesKept
<1>2. QED
  BY <1>1, TypeParts, PTL

-----------------------------------------------------------------------------
(* The bounds are kept.                                                    *)

\* A version is stored after the others.
LEMMA Appended ==
  ASSUME TypeOK, TypeOK', NEW x \in Stored, history' = Append(history, x)
  PROVE  /\ Len(history') = Len(history) + 1
         /\ Len(history') \in 1 .. Len(history')
         /\ \A n \in 1 .. Len(history) :
              n \in 1 .. Len(history') /\ history'[n] = history[n]
         /\ \A n \in 1 .. Len(history') :
              n \in 1 .. Len(history) \/ n = Len(history')
         /\ history'[Len(history')] = x
<1>1. history \in Seq(Stored) /\ Len(history) \in Nat
  BY TypeParts, Ranges DEF BackendTypes
<1>2. /\ Len(history') = Len(history) + 1
      /\ \A n \in 1 .. Len(history) : history'[n] = history[n]
      /\ history'[Len(history) + 1] = x
  BY <1>1, AppendProperties
<1>3. QED
  BY <1>1, <1>2

\* The backend applies a write of the queue.
LEMMA Applied ==
  ASSUME IInv, ApplyWrite
  PROVE  LET k == Len(applied) + 1
         IN  /\ k \in 1 .. Len(queue)
             /\ queue[k] \in Queued /\ queue[k] \in Stored
             /\ queue[k].doc \in Doc
             /\ history' = Append(history, queue[k])
             /\ applied' = Append(applied, Len(history'))
             /\ Len(applied') = k /\ applied'[k] = Len(history')
             /\ \A i \in 1 .. Len(applied) : applied'[i] = applied[i]
<1> DEFINE k == Len(applied) + 1
<1>1. k \in 1 .. Len(queue) /\ applied \in Seq(Version)
  BY TypeParts, Ranges DEF ApplyWrite, IInv, QueueTypes
<1>2. queue[k] \in Queued
  BY <1>1, Ranges DEF IInv
<1>3. queue[k] = [doc |-> queue[k].doc, write |-> queue[k].write]
  BY <1>2 DEF Queued
<1>4. queue[k] \in Stored /\ queue[k].doc \in Doc
  BY <1>2 DEF Queued, Stored
<1>5. history' = Append(history, queue[k]) /\ applied' = Append(applied, Len(history'))
  BY <1>3 DEF ApplyWrite, Store
<1>6. history \in Seq(Stored) /\ Len(history) + 1 <= MaxVersions
  BY SMTT(40), <1>1, TypeParts, Ranges DEF BackendTypes, IInv, Safe, Bounds
<1>7. Len(history') \in Version
  BY <1>4, <1>5, <1>6, AppendProperties, LenProperties, MaxVersionsAssumption DEF Version
<1>8. /\ Len(applied') = k /\ applied'[k] = Len(history')
      /\ \A i \in 1 .. Len(applied) : applied'[i] = applied[i]
  BY <1>1, <1>5, <1>7, AppendProperties
<1>9. QED
  BY <1>1, <1>2, <1>4, <1>5, <1>8

LEMMA OtherWritten ==
  ASSUME IInv, NEW d \in Doc, OtherWrite(d)
  PROVE  LET x == [doc |-> d, write |-> issued + 1]
         IN  /\ x \in Stored /\ history' = Append(history, x)
             /\ issued' = issued + 1
<1>1. issued + 1 \in Write
  BY Ranges DEF OtherWrite, IInv, Write
<1>2. QED
  BY <1>1 DEF OtherWrite, Store, Stored

\* A write is queued after the others.
LEMMA Issued ==
  ASSUME IInv, NEW d \in Doc, WriteMutations(d)
  PROVE  LET x == [doc |-> d, write |-> issued + 1]
         IN  /\ x \in Queued /\ queue' = Append(queue, x)
             /\ issued' = issued + 1
             /\ Len(queue') = Len(queue) + 1
             /\ \A i \in 1 .. Len(queue) : queue'[i] = queue[i]
             /\ queue'[Len(queue) + 1] = x
<1> DEFINE x == [doc |-> d, write |-> issued + 1]
<1>1. issued + 1 \in Write
  BY SMTT(40), Ranges DEF WriteMutations, IInv, Write
<1>2. x \in Queued /\ queue' = Append(queue, x) /\ issued' = issued + 1
  BY <1>1 DEF WriteMutations, Queued
<1>3. queue \in Seq(Queued)
  BY TypeParts DEF IInv, QueueTypes
<1> HIDE DEF x
<1>4. /\ Len(queue') = Len(queue) + 1
      /\ \A i \in 1 .. Len(queue) : queue'[i] = queue[i]
      /\ queue'[Len(queue) + 1] = x
  BY <1>2, <1>3, AppendProperties
<1>5. QED
  BY <1>2, <1>4 DEF x

\* The oldest write leaves the queue.
LEMMA Left ==
  ASSUME IInv, HandleSuccessfulWrite \/ HandleRejectedWrite
  PROVE  /\ Len(queue) # 0 /\ queue # <<>> /\ 1 \in 1 .. Len(queue)
         /\ Head(queue) = queue[1] /\ queue[1] \in Queued
         /\ queue[1].doc \in Doc
         /\ queue' = Tail(queue)
         /\ Len(queue') = Len(queue) - 1 /\ Len(queue') \in Nat
         /\ \A i \in 1 .. Len(queue') :
              queue'[i] = queue[i + 1] /\ i + 1 \in 2 .. Len(queue)
         /\ \A i \in 2 .. Len(queue) :
              i - 1 \in 1 .. Len(queue') /\ queue'[i - 1] = queue[i]
<1>1. queue # <<>> /\ queue' = Tail(queue)
  BY Acknowledged DEF HandleSuccessfulWrite, HandleRejectedWrite
<1>2. queue \in Seq(Queued)
  BY TypeParts DEF IInv, QueueTypes
<1>3. /\ Len(queue) \in Nat /\ Len(queue) # 0 /\ Head(queue) = queue[1]
      /\ Len(queue') = Len(queue) - 1
      /\ \A i \in 1 .. Len(queue') : queue'[i] = queue[i + 1]
  <2> DEFINE p == Tail(queue)
  <2>1. /\ Len(queue) \in Nat /\ Len(queue) # 0 /\ Len(p) = Len(queue) - 1
        /\ \A i \in 1 .. Len(p) : p[i] = queue[i + 1]
        /\ Head(queue) = queue[1]
    BY <1>1, <1>2, HeadTailProperties, LenProperties, EmptySeq
  <2>2. queue' = p
    BY <1>1
  <2> HIDE DEF p
  <2>3. QED
    BY <2>1, <2>2
<1>4. 1 \in 1 .. Len(queue)
  BY <1>3
<1>5. queue[1] \in Queued /\ queue[1].doc \in Doc
  BY <1>4, Ranges DEF IInv
<1>6. \A i \in 2 .. Len(queue) :
        i - 1 \in 1 .. Len(queue') /\ queue'[i - 1] = queue[i]
  BY <1>3
<1>7. QED
  BY <1>1, <1>3, <1>4, <1>5, <1>6

LEMMA BoundsKept ==
  ASSUME IInv, [Next]_vars, TypeOK'
  PROVE  Bounds'
<1>1. Bounds /\ TypeOK
  BY DEF IInv, Safe
<1>2. CASE ApplyWrite
  <2>1. /\ Len(history') = Len(history) + 1 /\ Len(applied') = Len(applied) + 1
        /\ Len(applied) + 1 \in 1 .. Len(queue)
    BY <1>1, <1>2, Applied, Appended
  <2>2. QED
    BY <1>1, <1>2, <2>1, Ranges, Frames DEF Bounds
<1>3. CASE \E d \in Doc : OtherWrite(d)
  <2>1. PICK d \in Doc : OtherWrite(d)
    BY <1>3
  <2>2. Len(history') = Len(history) + 1 /\ Room(1)
    BY <1>1, <2>1, OtherWritten, Appended DEF OtherWrite
  <2>3. QED
    BY SMTT(40), <1>1, <2>1, <2>2, Ranges, Frames DEF Bounds, Room
<1>4. CASE \E d \in Doc : WriteMutations(d)
  <2>1. PICK d \in Doc : WriteMutations(d)
    BY <1>4
  <2>2. Len(queue') = Len(queue) + 1 /\ Room(1)
    BY <1>1, <2>1, Issued DEF WriteMutations
  <2>3. QED
    BY SMTT(40), <1>1, <2>1, <2>2, Ranges, Frames DEF Bounds, Room
<1>5. CASE HandleSuccessfulWrite
  <2>1. Len(queue') = Len(queue) - 1 /\ Len(applied) # 0
    BY <1>5, Left, Acknowledged
  <2>2. Len(applied') = Len(applied) - 1
    BY <1>5, <1>1, TypeParts, HeadTailProperties DEF HandleSuccessfulWrite, QueueTypes
  <2>3. QED
    BY <1>1, <1>5, <2>1, <2>2, Ranges, Frames DEF Bounds
<1>6. CASE HandleRejectedWrite
  <2>1. /\ Len(queue') = Len(queue) - 1 /\ Len(queue') \in Nat
        /\ Len(applied') = 0 /\ Room(Len(applied))
    BY <1>6, Left, EmptySeq DEF HandleRejectedWrite
  <2>2. QED
    BY <1>1, <1>6, <2>1, Ranges, Frames DEF Bounds, Room
<1>7. CASE LoseAnswers
  <2>1. Len(applied') = 0 /\ Room(Len(applied))
    BY <1>7, EmptySeq DEF LoseAnswers
  <2>2. QED
    BY <1>1, <1>7, <2>1, Ranges, Frames DEF Bounds, Room
<1>8. CASE Crash
  <2>1. Len(applied') = 0 /\ Room(Len(applied)) /\ token' = 0 /\ sent' = 0
    BY <1>8, EmptySeq DEF Crash, NoStream
  <2>2. QED
    BY <1>1, <1>8, <2>1, Ranges, Frames DEF Bounds, Room
<1>9. CASE SendSnapshot
  <2>1. sent' = Len(history)
    BY <1>9, SnapshotSent
  <2>2. QED
    BY <1>1, <1>9, <2>1, Ranges, Frames DEF Bounds
<1>10. CASE \E l \in Listener : Listen(l)
  BY <1>1, <1>10, Frames DEF Bounds, Listen
<1>11. CASE OnWatchStreamOpen
  <2>1. sent' = token
    BY <1>11 DEF OnWatchStreamOpen
  <2>2. QED
    BY <1>1, <1>11, <2>1, Ranges, Frames DEF Bounds
<1>12. CASE OnWatchStreamClose
  <2>1. sent' = 0
    BY <1>12 DEF OnWatchStreamClose, NoStream
  <2>2. QED
    BY <1>1, <1>12, <2>1, Ranges, Frames DEF Bounds
<1>13. CASE RaiseWatchSnapshot
  <2>1. CASE sent < lastRemoteSnapshotVersion
    BY <1>1, <1>13, <2>1, Snapshot, Frames DEF Bounds, docCache
  <2>2. CASE ~(sent < lastRemoteSnapshotVersion)
    <3>1. /\ lastRemoteSnapshotVersion' = sent /\ token' = sent
          /\ savedToken' \in {sent, savedToken}
      BY <1>13, <2>2, Snapshot
    <3>2. QED
      BY <1>1, <1>13, <2>2, <3>1, Ranges, Frames DEF Bounds
  <2>3. QED
    BY <2>1, <2>2
<1>14. CASE UNCHANGED <<history, queue, applied, token, savedToken,
                        lastRemoteSnapshotVersion, sent>>
  BY <1>1, <1>14 DEF Bounds
<1>15. CASE UNCHANGED vars
  BY <1>14, <1>15 DEF vars, backend, docCache, stream
<1>16. QED
  BY <1>2, <1>3, <1>4, <1>5, <1>6, <1>7, <1>8, <1>9, <1>10, <1>11, <1>12,
     <1>13, <1>14, <1>15, Frames
     DEF Next, Backend, Client, Fault, OnWatchStreamChange

-----------------------------------------------------------------------------
(* Versions stay versions of their documents.                              *)

LEMMA BackendGrows ==
  ASSUME IInv, [Next]_vars
  PROVE  \/ history' = history
         \/ \E x \in Stored : history' = Append(history, x)
<1>1. CASE ApplyWrite
  BY <1>1, Applied
<1>2. CASE \E d \in Doc : OtherWrite(d)
  BY <1>2, OtherWritten
<1>3. CASE UNCHANGED vars
  BY <1>3 DEF vars, backend
<1>4. QED
  BY <1>1, <1>2, <1>3, Frames
     DEF Next, Backend, Client, Fault, OnWatchStreamChange

\* Versions are never taken back.
LEMMA VersionsStay ==
  ASSUME IInv, [Next]_vars, TypeOK'
  PROVE  /\ Len(history) <= Len(history')
         /\ \A n \in 1 .. Len(history) :
              n \in 1 .. Len(history') /\ history'[n] = history[n]
         /\ \A d : \A v \in Nat :
              IsVersionOf(history, d, v) => IsVersionOf(history', d, v)
<1>1. Len(history) \in Nat /\ TypeOK
  BY Ranges DEF IInv
<1>2. /\ Len(history) <= Len(history')
      /\ \A n \in 1 .. Len(history) :
           n \in 1 .. Len(history') /\ history'[n] = history[n]
  <2>1. CASE history' = history
    BY <1>1, <2>1
  <2>2. CASE \E x \in Stored : history' = Append(history, x)
    BY <1>1, <2>2, Appended
  <2>3. QED
    BY <2>1, <2>2, BackendGrows
<1>3. ASSUME NEW d, NEW v \in Nat, IsVersionOf(history, d, v)
      PROVE  IsVersionOf(history', d, v)
  <2>1. v # 0 => v \in 1 .. Len(history) /\ history[v].doc = d
    BY <1>1, <1>3 DEF IsVersionOf
  <2>2. v # 0 => v \in 1 .. Len(history') /\ history'[v].doc = d
    BY <1>2, <2>1
  <2>3. Len(history') \in Nat
    BY <1>1, TypeParts, LenProperties DEF BackendTypes
  <2>4. QED
    BY <2>2, <2>3 DEF IsVersionOf
<1>4. QED
  BY <1>2, <1>3

LEMMA MessagesKept ==
  ASSUME IInv, [Next]_vars, TypeOK'
  PROVE  \A i \in 1 .. Len(inbox') : Tells(history', inbox'[i])
<1>1. \A i \in 1 .. Len(inbox) : Tells(history', inbox[i])
  <2>1. SUFFICES ASSUME NEW i \in 1 .. Len(inbox) PROVE Tells(history', inbox[i])
    OBVIOUS
  <2>2. Tells(history, inbox[i]) /\ inbox[i].version \in Nat
    BY Ranges DEF IInv, Safe, VersionsOfDocs
  <2>3. QED
    BY <2>2, VersionsStay DEF Tells
<1>2. CASE AddTarget
  <2>1. Len(inbox') = 1 /\ inbox'[1].kind = "Added"
    BY <1>2, Answered
  <2>2. QED
    BY <2>1 DEF Tells
<1>3. CASE SendSnapshot
  <2> DEFINE v == Len(history)
  <2>1. /\ inbox'[Len(inbox')].kind = "Snapshot"
        /\ \A i \in 1 .. Len(inbox) : inbox'[i] = inbox[i]
        /\ \A i \in 1 .. Len(inbox') :
             \/ i <= Len(inbox)
             \/ i = Len(inbox')
             \/ inbox'[i].kind = "Current"
             \/ \E d \in Doc : /\ VersionOf(d, v) > sent
                               /\ inbox'[i] = DocumentMessage(d, VersionOf(d, v))
    BY <1>3, SnapshotSent DEF TargetMessage
  <2>2. history' = history
    BY <1>3, Frames
  <2>3. ASSUME NEW d \in Doc, VersionOf(d, v) > sent
        PROVE  Tells(history, DocumentMessage(d, VersionOf(d, v)))
    <3>1. v \in Nat /\ v \in 0 .. Len(history) /\ sent \in Nat
      BY Ranges DEF IInv
    <3>2. VersionOf(d, v) \in 0 .. v /\ (VersionOf(d, v) # 0 => history[VersionOf(d, v)].doc = d)
      BY <3>1, VersionOfIs, TypeParts DEF BackendTypes, IInv
    <3>3. VersionOf(d, v) # 0 /\ VersionOf(d, v) <= Len(history)
      BY <2>3, <3>1, <3>2
    <3>4. QED
      BY <3>2, <3>3 DEF Tells, DocumentMessage, IsVersionOf
  <2>4. SUFFICES ASSUME NEW i \in 1 .. Len(inbox') PROVE Tells(history', inbox'[i])
    OBVIOUS
  <2>5. CASE i <= Len(inbox)
    BY <1>1, <2>1, <2>5, Ranges DEF IInv
  <2>6. CASE i = Len(inbox') \/ inbox'[i].kind = "Current"
    BY <2>1, <2>6 DEF Tells
  <2>7. QED
    BY <2>1, <2>2, <2>3, <2>5, <2>6
<1>4. CASE OnWatchStreamChange
  <2>1. PICK k : Receive(k)
    BY <1>4 DEF OnWatchStreamChange, TargetAdded, HandleDocumentChange,
                TargetCurrent, RaiseWatchSnapshot
  <2>2. \A i \in 1 .. Len(inbox') :
          inbox'[i] = inbox[i + 1] /\ i + 1 \in 2 .. Len(inbox)
    BY <2>1, Received
  <2>3. \A i \in 1 .. Len(inbox') : i + 1 \in 1 .. Len(inbox)
    BY <2>2
  <2>4. QED
    BY <1>1, <2>2, <2>3
<1>5. CASE OnWatchStreamClose \/ Crash
  <2>1. Len(inbox') = 0
    BY <1>5, EmptySeq DEF OnWatchStreamClose, Crash, NoStream
  <2>2. QED
    BY <2>1
<1>6. CASE inbox' = inbox
  BY <1>1, <1>6
<1>7. CASE UNCHANGED vars
  BY <1>6, <1>7 DEF vars, stream
<1>8. QED
  BY <1>2, <1>3, <1>4, <1>5, <1>6, <1>7, Frames
     DEF Next, Backend, Client, Fault

LEMMA VersionsOfDocsKept ==
  ASSUME IInv, [Next]_vars, TypeOK'
  PROVE  VersionsOfDocs'
<1>1. /\ \A d \in Doc : IsVersionOf(history, d, cache[d].version)
      /\ \A d \in Doc : cache[d].committed => cache[d].version # 0
      /\ \A d \in Doc : IsVersionOf(history, d, updates[d])
      /\ \A i \in 1 .. Len(inbox) : Tells(history, inbox[i])
      /\ TypeOK
  BY DEF IInv, Safe, VersionsOfDocs
<1>2. /\ \A d \in Doc : IsVersionOf(history', d, cache[d].version)
      /\ \A d \in Doc : IsVersionOf(history', d, updates[d])
  BY <1>1, VersionsStay, Ranges
<1>3. \A d \in Doc : /\ IsVersionOf(history', d, cache'[d].version)
                     /\ cache'[d].committed => cache'[d].version # 0
  <2>1. CASE HandleSuccessfulWrite
    <3>1. IsVersionOf(history, queue[1].doc, applied[1]) /\ applied[1] # 0
      BY <2>1, Acknowledged, Ranges DEF IsVersionOf, IInv
    <3>2. history' = history
      BY <2>1, Frames
    <3>3. SUFFICES ASSUME NEW d \in Doc
                   PROVE  /\ IsVersionOf(history', d, cache'[d].version)
                          /\ cache'[d].committed => cache'[d].version # 0
      OBVIOUS
    <3>4. \/ cache'[d] = cache[d]
          \/ d = queue[1].doc /\ cache'[d].version = applied[1]
      BY <2>1, Acknowledged
    <3>5. QED
      BY <1>1, <1>2, <3>1, <3>2, <3>4
  <2>2. CASE RaiseWatchSnapshot
    <3>1. CASE sent < lastRemoteSnapshotVersion
      BY <1>1, <1>2, <2>2, <3>1, Snapshot DEF docCache
    <3>2. CASE ~(sent < lastRemoteSnapshotVersion)
      BY <1>1, <1>2, <2>2, <3>2, SnapshotCache
    <3>3. QED
      BY <3>1, <3>2
  <2>3. CASE cache' = cache
    BY <1>1, <1>2, <2>3
  <2>4. CASE UNCHANGED vars
    BY <2>3, <2>4 DEF vars, docCache
  <2>5. QED
    BY <2>1, <2>2, <2>3, <2>4, Frames
       DEF Next, Backend, Client, Fault, OnWatchStreamChange
<1>4. \A d \in Doc : IsVersionOf(history', d, updates'[d])
  <2>1. CASE HandleDocumentChange
    <3>1. /\ Receive("Document")
          /\ updates' = IF pending = 0
                        THEN [updates EXCEPT ![Head(inbox).doc] = Head(inbox).version]
                        ELSE updates
      BY <2>1 DEF HandleDocumentChange
    <3>2. 1 \in 1 .. Len(inbox) /\ Head(inbox) = inbox[1] /\ inbox[1].kind = "Document"
      BY <3>1, Received
    <3>3. inbox[1].doc \in Doc /\ IsVersionOf(history, inbox[1].doc, inbox[1].version)
      BY <1>1, <3>2 DEF Tells
    <3>4. history' = history /\ updates \in [Doc -> Version]
      BY <1>1, <2>1, Frames, TypeParts DEF StreamTypes
    <3>5. QED
      BY <1>1, <3>1, <3>2, <3>3, <3>4
  <2>2. CASE RaiseWatchSnapshot
    <3>1. updates' = updates \/ updates' = [d \in Doc |-> 0]
      BY <2>2, Snapshot
    <3>2. QED
      BY <1>2, <3>1 DEF IsVersionOf
  <2>3. CASE OnWatchStreamClose \/ Crash
    <3>1. updates' = [d \in Doc |-> 0]
      BY <2>3 DEF OnWatchStreamClose, Crash, NoStream
    <3>2. QED
      BY <3>1 DEF IsVersionOf
  <2>4. CASE updates' = updates
    BY <1>2, <2>4
  <2>5. CASE UNCHANGED vars
    BY <2>4, <2>5 DEF vars, stream, aggregator
  <2>6. QED
    BY <2>1, <2>2, <2>3, <2>4, <2>5, Frames
       DEF Next, Backend, Client, Fault, OnWatchStreamChange
<1>5. QED
  BY <1>3, <1>4, MessagesKept DEF VersionsOfDocs

-----------------------------------------------------------------------------
(* The shape of the stream.                                                *)

\* The first message of a batch is not the answer to the request.
LEMMA BatchMessages ==
  ASSUME IInv, SendSnapshot
  PROVE  /\ Len(inbox') \in Nat /\ Len(inbox) < Len(inbox')
         /\ inbox'[Len(inbox')].kind = "Snapshot"
         /\ inbox'[Len(inbox')].version = Len(history)
         /\ \A i \in 1 .. Len(inbox) : inbox'[i] = inbox[i] /\ inbox[i].kind = "Added"
         /\ \A i \in 1 .. Len(inbox') :
              \/ i <= Len(inbox)
              \/ i = Len(inbox')
              \/ inbox'[i].kind \in {"Current", "Document"}
         /\ Len(inbox) <= 1
<1>1. /\ Quiet /\ inbox' \in Seq(Message)
      /\ Len(inbox) < Len(inbox')
      /\ \A i \in 1 .. Len(inbox) : inbox'[i] = inbox[i]
      /\ inbox'[Len(inbox')] = TargetMessage("Snapshot", Len(history))
  BY SnapshotSent
<1>2. \A i \in 1 .. Len(inbox') :
              \/ i <= Len(inbox)
              \/ i = Len(inbox')
              \/ inbox'[i].kind \in {"Current", "Document"}
  <2>1. SUFFICES ASSUME NEW i \in 1 .. Len(inbox'),
                        ~(i <= Len(inbox)), i # Len(inbox')
                 PROVE  inbox'[i].kind \in {"Current", "Document"}
    OBVIOUS
  <2>2. \/ inbox'[i].kind = "Current"
        \/ \E d \in Doc : inbox'[i] = DocumentMessage(d, VersionOf(d, Len(history)))
    BY <2>1, SnapshotSent
  <2>3. \A d, v : DocumentMessage(d, v).kind = "Document"
    BY DEF DocumentMessage
  <2>4. QED
    BY <2>2, <2>3, Zenon
<1>3. Len(inbox') \in Nat
  BY <1>1, LenProperties
<1>4. Len(inbox) <= 1
  <2>1. \A i \in 2 .. Len(inbox) : inbox[i].kind # "Added"
    BY DEF IInv, Safe, InboxShape
  <2>2. Len(inbox) \in Nat
    BY Ranges DEF IInv
  <2>3. \A i \in 1 .. Len(inbox) : inbox[i].kind = "Added"
    BY <1>1 DEF Quiet
  <2>4. ~(Len(inbox) >= 2)
    <3>1. Len(inbox) >= 2 => 2 \in 2 .. Len(inbox) /\ 2 \in 1 .. Len(inbox)
      BY <2>2
    <3>2. QED
      BY <2>1, <2>3, <3>1
  <2>5. QED
    BY <2>2, <2>4
<1>5. QED
  BY <1>1, <1>2, <1>3, <1>4 DEF Quiet, TargetMessage

\* After the answer, the target is active.
LEMMA Active ==
  ASSUME IInv, NEW k, Receive(k)
  PROVE  /\ watch = "Open" /\ target \notin {"none", "requested"}
         /\ pending = 1 <=> k = "Added"
         /\ inbox' # <<>> => inbox'[1].kind # "Added"
<1>1. StreamShape /\ InboxShape
  BY DEF IInv, Safe
<1>2. /\ inbox # <<>> /\ inbox[1].kind = k
      /\ inbox' # <<>> => 1 \in 1 .. Len(inbox')
      /\ \A i \in 1 .. Len(inbox') : inbox'[i] = inbox[i + 1] /\ i + 1 \in 2 .. Len(inbox)
  BY Received
<1>3. target \notin {"none", "requested"}
  BY <1>1, <1>2 DEF StreamShape
<1>4. QED
  BY <1>1, <1>2, <1>3 DEF StreamShape, InboxShape

LEMMA StreamShapeKept ==
  ASSUME IInv, [Next]_vars
  PROVE  StreamShape'
<1>1. StreamShape /\ InboxShape /\ TypeOK
  BY DEF IInv, Safe
<1>2. CASE AddTarget
  <2>1. /\ target = "requested" /\ target' = "added"
        /\ inbox' # <<>> /\ inbox'[1].kind = "Added"
    BY <1>2, Answered
  <2>2. QED
    BY <1>1, <1>2, <2>1, Frames DEF StreamShape
<1>3. CASE SendSnapshot
  <2>1. /\ target \in {"added", "current"} /\ target' = "current"
    BY <1>3, SnapshotSent DEF SendSnapshot
  <2>2. inbox' # <<>>
    BY <1>3, BatchMessages, EmptySeq, Ranges, <1>1
  <2>3. inbox'[1].kind = "Added" <=> Len(inbox) # 0
    BY <1>3, BatchMessages
  <2>4. inbox # <<>> /\ inbox[1].kind = "Added" <=> Len(inbox) # 0
    <3>1. inbox # <<>> <=> Len(inbox) # 0
      BY <1>1, EmptySeq, TypeParts DEF StreamTypes
    <3>2. QED
      BY <3>1, <1>3, BatchMessages
  <2>5. QED
    BY <1>1, <1>3, <2>1, <2>2, <2>3, <2>4, Frames DEF StreamShape
<1>4. CASE \E l \in Listener : Listen(l)
  <2>1. PICK l \in Listener : Listen(l)
    BY <1>4
  <2>2. listening = {} /\ listening' = {l} /\ watch' = "Starting"
    BY <2>1 DEF Listen
  <2>3. QED
    BY <1>1, <2>1, <2>2, Frames DEF StreamShape
<1>5. CASE \E l \in Listener : AddQueryListener(l)
  <2>1. PICK l \in Listener : AddQueryListener(l)
    BY <1>5
  <2>2. listening # {} /\ listening' # {}
    BY <2>1 DEF AddQueryListener
  <2>3. QED
    BY <1>1, <2>1, <2>2, Frames DEF StreamShape
<1>6. CASE OnWatchStreamOpen
  <2>1. /\ watch = "Starting" /\ watch' = "Open" /\ pending' = pending + 1
        /\ target' = "requested"
    BY <1>6 DEF OnWatchStreamOpen
  <2>2. target = "none" /\ inbox = <<>> /\ pending = 0
    BY <1>1, <2>1, TypeParts DEF StreamShape, StreamTypes
  <2>3. QED
    BY <1>1, <1>6, <2>1, <2>2, Frames DEF StreamShape
<1>7. CASE TargetAdded
  <2>1. Receive("Added") /\ pending' = pending - 1
    BY <1>7 DEF TargetAdded
  <2>2. /\ target \notin {"none", "requested"} /\ pending = 1
        /\ inbox' # <<>> => inbox'[1].kind # "Added"
    BY <2>1, Active
  <2>3. QED
    BY <1>1, <1>7, <2>1, <2>2, Frames DEF StreamShape
<1>8. CASE HandleDocumentChange \/ TargetCurrent \/ RaiseWatchSnapshot
  <2>1. PICK k \in {"Document", "Current", "Snapshot"} : Receive(k)
    BY <1>8 DEF HandleDocumentChange, TargetCurrent, RaiseWatchSnapshot
  <2>2. /\ target \notin {"none", "requested"} /\ pending # 1
        /\ inbox' # <<>> => inbox'[1].kind # "Added"
    BY <2>1, Active
  <2>3. UNCHANGED <<watch, listening, target, pending>>
    BY <1>8, Frames
  <2>4. QED
    BY <1>1, <2>2, <2>3 DEF StreamShape
<1>9. CASE OnWatchStreamClose
  <2>1. watch # "Initial" /\ watch' = "Starting" /\ NoStream
    BY <1>9 DEF OnWatchStreamClose
  <2>2. QED
    BY <1>1, <1>9, <2>1, Frames DEF StreamShape, NoStream
<1>10. CASE Crash
  <2>1. watch' = "Initial" /\ listening' = {} /\ NoStream
    BY <1>10 DEF Crash
  <2>2. QED
    BY <2>1 DEF StreamShape, NoStream
<1>11. CASE UNCHANGED <<watch, listening, target, pending, inbox>>
  BY <1>1, <1>11 DEF StreamShape
<1>12. CASE UNCHANGED vars
  BY <1>11, <1>12 DEF vars, stream, aggregator, events
<1>13. QED
  BY <1>2, <1>3, <1>4, <1>5, <1>6, <1>7, <1>8, <1>9, <1>10, <1>11, <1>12, Frames
     DEF Next, Backend, Client, Fault, OnWatchStreamChange

LEMMA InboxShapeKept ==
  ASSUME IInv, [Next]_vars
  PROVE  InboxShape'
<1>1. StreamShape /\ InboxShape /\ TypeOK
  BY DEF IInv, Safe
<1>2. CASE AddTarget
  <2>1. Len(inbox') = 1 /\ inbox'[1].kind = "Added"
    BY <1>2, Answered
  <2>2. /\ \A i \in 1 .. Len(inbox') : i = 1
        /\ \A i \in 2 .. Len(inbox') : FALSE
    BY <2>1
  <2>3. QED
    BY <2>1, <2>2 DEF InboxShape
<1>3. CASE SendSnapshot
  <2>1. target' = "current" /\ sent' = Len(history)
    BY <1>3, SnapshotSent
  <2>2. /\ Len(inbox') \in Nat /\ Len(inbox) <= 1 /\ Len(inbox) < Len(inbox')
        /\ \A i \in 1 .. Len(inbox) : inbox'[i].kind = "Added"
        /\ inbox'[Len(inbox')].kind = "Snapshot"
        /\ inbox'[Len(inbox')].version = Len(history)
        /\ \A i \in 1 .. Len(inbox') :
             \/ i <= Len(inbox)
             \/ i = Len(inbox')
             \/ inbox'[i].kind \in {"Current", "Document"}
    BY <1>3, BatchMessages
  <2>3. \A i \in 1 .. Len(inbox') :
          /\ i <= Len(inbox) => i = 1 /\ inbox'[i].kind = "Added" /\ i # Len(inbox')
          /\ i = Len(inbox') => /\ inbox'[i].kind = "Snapshot"
                                /\ inbox'[i].version = Len(history)
          /\ ~(i <= Len(inbox)) /\ i # Len(inbox') =>
               inbox'[i].kind \in {"Current", "Document"}
    <3>1. \A i \in 1 .. Len(inbox') : i <= Len(inbox) =>
            i = 1 /\ i \in 1 .. Len(inbox) /\ i # Len(inbox')
      <4>1. /\ Len(inbox') \in Nat /\ Len(inbox) <= 1
            /\ Len(inbox) < Len(inbox')
        BY <2>2
      <4>2. QED
        BY <4>1
    <3>2. QED
      BY <2>2, <3>1
  <2>4. \A i \in 2 .. Len(inbox') : i \in 1 .. Len(inbox') /\ i # 1
    BY <2>2
  <2>5. /\ \A i \in 2 .. Len(inbox') : inbox'[i].kind # "Added"
        /\ \A i \in 1 .. Len(inbox') : inbox'[i].kind = "Snapshot" <=> i = Len(inbox')
        /\ \A i \in 1 .. Len(inbox') : inbox'[i].kind = "Snapshot" =>
             inbox'[i].version = Len(history) /\ inbox'[i].kind # "Added"
    BY <2>3, <2>4
  <2>6. QED
    BY <2>1, <2>5 DEF InboxShape
<1>4. CASE OnWatchStreamChange
  <2>1. PICK k : Receive(k)
    BY <1>4 DEF OnWatchStreamChange, TargetAdded, HandleDocumentChange,
                TargetCurrent, RaiseWatchSnapshot
  <2>2. /\ Len(inbox') = Len(inbox) - 1 /\ Len(inbox') \in Nat
        /\ \A i \in 1 .. Len(inbox') :
             inbox'[i] = inbox[i + 1] /\ i + 1 \in 2 .. Len(inbox)
    BY <2>1, Received
  <2>3. UNCHANGED <<target, sent>>
    BY <1>4, Frames DEF OnWatchStreamChange
  <2>4. \A i \in 1 .. Len(inbox') :
          /\ i + 1 \in 1 .. Len(inbox)
          /\ inbox[i + 1].kind # "Added"
          /\ inbox[i + 1].kind = "Snapshot" <=> i + 1 = Len(inbox)
          /\ inbox[i + 1].kind = "Snapshot" => inbox[i + 1].version = sent
          /\ target # "added"
    BY SMTT(40), <1>1, <2>2, Ranges DEF InboxShape
  <2>5. \A i \in 1 .. Len(inbox') :
          /\ inbox'[i].kind # "Added"
          /\ inbox'[i].kind = "Snapshot" <=> i = Len(inbox')
          /\ inbox'[i].kind = "Snapshot" => inbox'[i].version = sent
          /\ target # "added"
    <3>1. \A i \in 1 .. Len(inbox') : i + 1 = Len(inbox) <=> i = Len(inbox')
      BY <2>2, <1>1, Ranges
    <3>2. QED
      BY <2>2, <2>4, <3>1
  <2>6. \A i \in 2 .. Len(inbox') : i \in 1 .. Len(inbox')
    BY <2>2
  <2>7. QED
    BY <2>3, <2>5, <2>6 DEF InboxShape
<1>5. CASE OnWatchStreamOpen
  <2>1. inbox = <<>> /\ inbox' = inbox /\ target' = "requested"
    BY <1>1, <1>5, Frames DEF OnWatchStreamOpen, StreamShape
  <2>2. Len(inbox') = 0
    BY <2>1, EmptySeq
  <2>3. QED
    BY <2>1, <2>2 DEF InboxShape
<1>6. CASE OnWatchStreamClose \/ Crash
  <2>1. Len(inbox') = 0
    BY <1>6, EmptySeq DEF OnWatchStreamClose, Crash, NoStream
  <2>2. QED
    BY <2>1 DEF InboxShape
<1>7. CASE UNCHANGED <<target, sent, inbox>>
  BY <1>1, <1>7 DEF InboxShape
<1>8. CASE UNCHANGED vars
  BY <1>7, <1>8 DEF vars, stream
<1>9. QED
  BY <1>2, <1>3, <1>4, <1>5, <1>6, <1>7, <1>8, Frames
     DEF Next, Backend, Client, Fault

-----------------------------------------------------------------------------
(* Nothing that was sent is missed.                                        *)

\* The newest versions are those nothing has been sent of.
LEMMA CacheGrows ==
  ASSUME IInv, [Next]_vars
  PROVE  \A d \in Doc : cache[d].version <= cache'[d].version
<1>1. \A d \in Doc : cache[d].version \in Nat
  BY Ranges DEF IInv
<1>2. CASE HandleSuccessfulWrite
  <2>1. SUFFICES ASSUME NEW d \in Doc PROVE cache[d].version <= cache'[d].version
    OBVIOUS
  <2>2. applied[1] \in Nat
    BY SMTT(40), <1>2, Acknowledged, Ranges DEF IInv
  <2>3. \/ cache'[d] = cache[d]
        \/ /\ cache'[d].version = applied[1]
           /\ cache[d].version < applied[1]
    BY <1>2, Acknowledged
  <2>4. QED
    BY <1>1, <2>2, <2>3
<1>3. CASE RaiseWatchSnapshot
  <2>1. CASE sent < lastRemoteSnapshotVersion
    BY <1>1, <1>3, <2>1, Snapshot DEF docCache
  <2>2. CASE ~(sent < lastRemoteSnapshotVersion)
    BY <1>1, <1>3, <2>2, SnapshotCache
  <2>3. QED
    BY <2>1, <2>2
<1>4. CASE cache' = cache
  BY <1>1, <1>4
<1>5. CASE UNCHANGED vars
  BY <1>4, <1>5 DEF vars, docCache
<1>6. QED
  BY <1>2, <1>3, <1>4, <1>5, Frames
     DEF Next, Backend, Client, Fault, OnWatchStreamChange

\* Before the last message of a batch there is another one.
LEMMA MoreToCome ==
  ASSUME IInv, NEW k \in {"Document", "Current"}, Receive(k)
  PROVE  ~Quiet' /\ pending = 0
<1>1. InboxShape /\ Len(inbox) \in Nat /\ pending \in 0 .. 1
  BY Ranges, TypeParts DEF IInv, Safe, StreamTypes
<1>2. /\ 1 \in 1 .. Len(inbox) /\ inbox[1].kind = k
      /\ Len(inbox') = Len(inbox) - 1
      /\ \A i \in 1 .. Len(inbox') :
           inbox'[i] = inbox[i + 1] /\ i + 1 \in 2 .. Len(inbox)
  BY Received
<1>3. Len(inbox) # 1
  BY <1>1, <1>2 DEF InboxShape
<1>4. 1 \in 1 .. Len(inbox')
  BY <1>1, <1>2, <1>3
<1>5. inbox'[1].kind # "Added"
  BY <1>1, <1>2, <1>4 DEF InboxShape
<1>6. pending = 0
  BY <1>1, Active
<1>7. QED
  BY <1>4, <1>5, <1>6 DEF Quiet

\* That the version n of d is not missed.
Covered(d, n) ==
  /\ n <= lastRemoteSnapshotVersion => n <= cache[d].version
  /\ n <= sent =>
       /\ Quiet => n <= cache[d].version
       /\ \/ n <= cache[d].version \/ n <= updates[d]
          \/ \E i \in 1 .. Len(inbox) : IsDocument(i, d)
       /\ \A i \in 1 .. Len(inbox) : IsDocument(i, d) => n <= inbox[i].version

LEMMA CoverageIs ==
  Coverage <=> \A d \in Doc : \A n \in 1 .. Len(history) :
                 history[n].doc = d => Covered(d, n)
BY DEF Coverage, Covered

\* The client reads one of the messages that are not the snapshot.
LEMMA CoveredReceive ==
  ASSUME IInv, NEW k \in {"Added", "Document", "Current"}, Receive(k),
         NEW d \in Doc, NEW n \in Nat, Covered(d, n),
         UNCHANGED <<sent, cache, lastRemoteSnapshotVersion>>,
         \/ k # "Document" /\ updates' = updates
         \/ k = "Document" /\ HandleDocumentChange
  PROVE  Covered(d, n)'
<1>1. /\ inbox[1].kind = k /\ 1 \in 1 .. Len(inbox)
      /\ Len(inbox') = Len(inbox) - 1
      /\ Head(inbox) = inbox[1]
      /\ \A i \in 1 .. Len(inbox') :
           inbox'[i] = inbox[i + 1] /\ i + 1 \in 2 .. Len(inbox)
      /\ Len(inbox') \in Nat /\ Len(inbox) \in Nat
  BY Received, Ranges DEF IInv
<1>2. \A i \in 1 .. Len(inbox') : i + 1 \in 1 .. Len(inbox)
  BY <1>1
<1>3. \A i \in 1 .. Len(inbox) : i # 1 =>
        i - 1 \in 1 .. Len(inbox') /\ inbox'[i - 1] = inbox[i]
  <2>1. \A i \in 1 .. Len(inbox) : i # 1 =>
          i - 1 \in 1 .. Len(inbox') /\ (i - 1) + 1 = i
    BY <1>1
  <2>2. QED
    BY <1>1, <2>1
<1>4. SUFFICES ASSUME n <= sent
               PROVE  /\ Quiet' => n <= cache[d].version
                      /\ \/ n <= cache[d].version \/ n <= updates'[d]
                         \/ \E i \in 1 .. Len(inbox') : IsDocument(i, d)'
                      /\ \A i \in 1 .. Len(inbox') :
                           IsDocument(i, d)' => n <= inbox'[i].version
  BY DEF Covered
<1>5. /\ Quiet => n <= cache[d].version
      /\ \/ n <= cache[d].version \/ n <= updates[d]
         \/ \E i \in 1 .. Len(inbox) : IsDocument(i, d)
      /\ \A i \in 1 .. Len(inbox) : IsDocument(i, d) => n <= inbox[i].version
  BY <1>4 DEF Covered
<1>6. Quiet' => Quiet
  <2>1. CASE k \in {"Document", "Current"}
    BY <2>1, MoreToCome
  <2>2. CASE k = "Added"
    BY <2>2, <1>1, <1>3 DEF Quiet
  <2>3. QED
    BY <2>1, <2>2
<1>7. \A i \in 1 .. Len(inbox') : IsDocument(i, d)' => n <= inbox'[i].version
  BY <1>1, <1>2, <1>5 DEF IsDocument
<1>8. ASSUME NEW i \in 1 .. Len(inbox), i # 1, IsDocument(i, d)
      PROVE  \E j \in 1 .. Len(inbox') : IsDocument(j, d)'
  BY <1>3, <1>8 DEF IsDocument
<1>9. CASE k # "Document"
  <2>1. ~IsDocument(1, d)
    BY <1>1, <1>9 DEF IsDocument
  <2>2. updates' = updates
    BY <1>9
  <2>3. QED
    BY <1>5, <1>6, <1>7, <1>8, <2>1, <2>2
<1>10. CASE k = "Document"
  <2>1. pending = 0
    BY <1>10, MoreToCome
  <2>2. updates' = [updates EXCEPT ![inbox[1].doc] = inbox[1].version]
    BY <1>1, <1>10, <2>1 DEF HandleDocumentChange
  <2>3. updates \in [Doc -> Version]
    BY TypeParts DEF IInv, StreamTypes
  <2>4. CASE d = inbox[1].doc
    <3>1. IsDocument(1, d)
      BY <1>1, <1>10, <2>4 DEF IsDocument
    <3>2. n <= inbox[1].version
      BY <1>1, <1>5, <3>1
    <3>3. n <= updates'[d]
      BY <2>2, <2>3, <2>4, <3>2
    <3>4. QED
      BY <1>5, <1>6, <1>7, <3>3
  <2>5. CASE d # inbox[1].doc
    <3>1. ~IsDocument(1, d)
      BY <2>5 DEF IsDocument
    <3>2. updates'[d] = updates[d]
      BY <2>2, <2>3, <2>5
    <3>3. QED
      BY <1>5, <1>6, <1>7, <1>8, <3>1, <3>2
  <2>6. QED
    BY <2>4, <2>5
<1>11. QED
  BY SMTT(40), <1>9, <1>10

LEMMA CoverageKept ==
  ASSUME IInv, [Next]_vars, TypeOK'
  PROVE  Coverage'
<1>1. /\ \A d \in Doc : \A n \in 1 .. Len(history) :
           history[n].doc = d => Covered(d, n)
      /\ Bounds /\ StreamShape /\ InboxShape /\ TypeOK
      /\ Len(history) \in Nat
      /\ sent \in Nat /\ lastRemoteSnapshotVersion \in Nat /\ token \in Nat
      /\ Len(inbox) \in Nat
      /\ \A d \in Doc : cache[d].version \in Nat /\ updates[d] \in Nat
  BY CoverageIs, Ranges DEF IInv, Safe
<1>2. SUFFICES ASSUME NEW d \in Doc, NEW n \in 1 .. Len(history'),
                      history'[n].doc = d
               PROVE  Covered(d, n)'
  BY DEF Coverage, Covered
<1>3. n \in Nat
  BY DEF TypeOK
<1>4. cache[d].version <= cache'[d].version /\ cache'[d].version \in Nat
  <2>1. \A e \in Doc : cache'[e].version \in Nat
    <3>1. CacheTypes'
      BY CacheTypesKept
    <3>2. cache'[d] \in Cached
      BY <3>1 DEF CacheTypes
    <3>3. \A e \in Doc : cache'[e] \in Cached
      BY <3>1 DEF CacheTypes
    <3>4. \A x \in Cached : x.version \in Nat
      BY DEF Cached, Version
    <3>5. QED
      BY <3>3, <3>4
  <2>2. QED
    BY <2>1, CacheGrows
\* What was already there stays covered unless more is sent or read.
<1>5. ASSUME UNCHANGED <<sent, inbox, updates, lastRemoteSnapshotVersion>>,
             n \in 1 .. Len(history) => Covered(d, n),
             n \notin 1 .. Len(history) =>
               n > sent /\ n > lastRemoteSnapshotVersion
      PROVE  Covered(d, n)'
  <2>1. CASE n \in 1 .. Len(history)
    <3>1. Covered(d, n)
      BY <1>5, <2>1
    <3>2. Quiet' <=> Quiet
      BY <1>5 DEF Quiet
    <3>3. \A i \in 1 .. Len(inbox) : IsDocument(i, d)' <=> IsDocument(i, d)
      BY <1>5 DEF IsDocument
    <3>4. QED
      BY <1>1, <1>3, <1>4, <1>5, <3>1, <3>2, <3>3 DEF Covered
  <2>2. CASE n \notin 1 .. Len(history)
    BY <1>1, <1>3, <1>5, <2>2 DEF Covered
  <2>3. QED
    BY <2>1, <2>2
<1>6. n \in 1 .. Len(history) => Covered(d, n)
  <2>1. n \in 1 .. Len(history) => history'[n] = history[n]
    BY VersionsStay
  <2>2. QED
    BY <1>1, <1>2, <2>1
<1>7. n \notin 1 .. Len(history) =>
        n > sent /\ n > lastRemoteSnapshotVersion
  BY <1>1, <1>3 DEF Bounds
<1>8. history' = history => n \in 1 .. Len(history) /\ Covered(d, n)
  BY <1>2, <1>6
<1>9. CASE AddTarget
  <2>1. /\ Len(inbox) = 0 /\ Len(inbox') = 1 /\ inbox'[1].kind = "Added"
    BY <1>9, Answered
  <2>2. Quiet /\ \A i \in 1 .. Len(inbox) : ~IsDocument(i, d)
    BY <2>1 DEF Quiet
  <2>3. \A i \in 1 .. Len(inbox') : ~IsDocument(i, d)'
    BY <2>1 DEF IsDocument
  <2>4. Covered(d, n) /\ UNCHANGED <<sent, lastRemoteSnapshotVersion, cache>>
    BY <1>8, <1>9, Frames
  <2>5. QED
    BY <2>2, <2>3, <2>4 DEF Covered
<1>10. CASE SendSnapshot
  <2> DEFINE v == Len(history)
             w == VersionOf(d, v)
  <2>1. /\ Quiet /\ sent' = v
        /\ w > sent => \E i \in 1 .. Len(inbox') : inbox'[i] = DocumentMessage(d, w)
    BY <1>10, SnapshotSent
  <2>2. ~Quiet'
    <3>1. /\ Len(inbox') \in Nat /\ Len(inbox) < Len(inbox')
          /\ inbox'[Len(inbox')].kind = "Snapshot"
      BY <1>10, BatchMessages
    <3>2. Len(inbox') \in 1 .. Len(inbox')
      BY <1>1, <3>1
    <3>3. QED
      BY <3>1, <3>2 DEF Quiet
  <2>3. /\ Covered(d, n) /\ UNCHANGED <<lastRemoteSnapshotVersion, cache, updates>>
        /\ n \in 1 .. v /\ history[n].doc = d
    BY <1>2, <1>8, <1>10, Frames
  <2>4. w \in 0 .. v /\ n <= w
    BY <1>1, <2>3, VersionOfIs, TypeParts DEF BackendTypes
  <2>5. n <= sent => n <= cache[d].version
    BY <2>1, <2>3 DEF Covered
  <2>6. n <= cache'[d].version \/ \E i \in 1 .. Len(inbox') : IsDocument(i, d)'
    <3>1. CASE w > sent
      BY <2>1, <3>1 DEF IsDocument, DocumentMessage
    <3>2. CASE ~(w > sent)
      BY <1>1, <1>3, <2>3, <2>4, <2>5, <3>2
    <3>3. QED
      BY <3>1, <3>2
  <2>7. ASSUME NEW i \in 1 .. Len(inbox'), IsDocument(i, d)'
        PROVE  n <= inbox'[i].version
    <3>1. inbox'[i].kind = "Document" /\ inbox'[i].doc = d
      BY <2>7 DEF IsDocument
    <3>2. ~(i <= Len(inbox)) /\ i # Len(inbox')
      <4>1. /\ \A j \in 1 .. Len(inbox) : inbox'[j].kind = "Added"
            /\ inbox'[Len(inbox')].kind = "Snapshot"
            /\ Len(inbox') \in Nat
        BY <1>10, BatchMessages
      <4>2. i <= Len(inbox) => i \in 1 .. Len(inbox)
        BY <1>1, <4>1
      <4>3. QED
        BY <3>1, <4>1, <4>2
    <3>3. PICK e \in Doc : inbox'[i] = DocumentMessage(e, VersionOf(e, v))
      BY <1>10, <3>1, <3>2, SnapshotSent
    <3>4. e = d /\ inbox'[i].version = w
      BY <3>1, <3>3 DEF DocumentMessage
    <3>5. QED
      BY <2>4, <3>4
  <2>8. n <= lastRemoteSnapshotVersion' => n <= cache'[d].version
    BY <2>3 DEF Covered
  <2>9. QED
    BY <2>2, <2>6, <2>7, <2>8 DEF Covered
<1>11. CASE OnWatchStreamOpen
  <2>1. /\ inbox = <<>> /\ sent' = token /\ token <= lastRemoteSnapshotVersion
        /\ UNCHANGED <<cache, lastRemoteSnapshotVersion, inbox, updates, history>>
    BY <1>1, <1>11, Frames DEF OnWatchStreamOpen, StreamShape, Bounds
  <2>2. Len(inbox') = 0
    BY <2>1, EmptySeq
  <2>3. n <= lastRemoteSnapshotVersion => n <= cache[d].version
    BY <1>8, <2>1 DEF Covered
  <2>4. n <= sent' => n <= cache[d].version
    BY <1>1, <1>3, <2>1, <2>3
  <2>5. QED
    BY <2>1, <2>2, <2>3, <2>4 DEF Covered
<1>12. CASE TargetAdded \/ HandleDocumentChange \/ TargetCurrent
  <2>1. PICK k \in {"Added", "Document", "Current"} :
          /\ Receive(k)
          /\ \/ k # "Document" /\ updates' = updates
             \/ k = "Document" /\ HandleDocumentChange
    BY <1>12, Frames DEF TargetAdded, HandleDocumentChange, TargetCurrent
  <2>2. UNCHANGED <<sent, cache, lastRemoteSnapshotVersion, history>>
    BY <1>12, Frames
  <2>3. Covered(d, n)
    BY <1>8, <2>2
  <2>4. QED
    BY <1>3, <2>1, <2>2, <2>3, CoveredReceive
<1>13. CASE RaiseWatchSnapshot
  <2>1. /\ Len(inbox) = 1 /\ inbox[1].kind = "Snapshot" /\ inbox' = <<>>
        /\ sent' = sent
    BY <1>13, Snapshot
  <2>2. Len(inbox') = 0 /\ \A i \in 1 .. Len(inbox) : ~IsDocument(i, d)
    BY <2>1, EmptySeq DEF IsDocument
  <2>3. Covered(d, n)
    BY <1>8, <1>13, Frames
  <2>4. n <= sent => n <= cache'[d].version
    <3>1. CASE sent < lastRemoteSnapshotVersion
      <4>1. n <= lastRemoteSnapshotVersion => n <= cache[d].version
        BY <2>3 DEF Covered
      <4>2. QED
        BY <1>1, <1>3, <1>4, <3>1, <4>1
    <3>2. CASE ~(sent < lastRemoteSnapshotVersion)
      <4>1. n <= sent => n <= cache[d].version \/ n <= updates[d]
        BY <2>2, <2>3 DEF Covered
      <4>2. updates[d] <= cache'[d].version
        BY <1>1, <1>13, <3>2, SnapshotCache
      <4>3. QED
        BY <1>1, <1>3, <1>4, <4>1, <4>2
    <3>3. QED
      BY <3>1, <3>2
  <2>5. lastRemoteSnapshotVersion' \in {lastRemoteSnapshotVersion, sent}
    BY <1>13, Snapshot
  <2>6. n <= lastRemoteSnapshotVersion => n <= cache'[d].version
    BY <1>1, <1>3, <1>4, <2>3 DEF Covered
  <2>7. QED
    BY <2>1, <2>2, <2>4, <2>5, <2>6 DEF Covered
<1>14. CASE OnWatchStreamClose \/ Crash
  <2>1. sent' = 0 /\ UNCHANGED <<cache, lastRemoteSnapshotVersion, history>>
    BY <1>14, Frames DEF OnWatchStreamClose, Crash, NoStream
  <2>2. ~(n <= sent')
    BY <2>1
  <2>3. n <= lastRemoteSnapshotVersion => n <= cache[d].version
    BY <1>8, <2>1 DEF Covered
  <2>4. QED
    BY <2>1, <2>2, <2>3 DEF Covered
<1>15. CASE UNCHANGED <<sent, inbox, updates, lastRemoteSnapshotVersion>>
  BY <1>5, <1>6, <1>7, <1>15
<1>16. CASE UNCHANGED vars
  BY <1>15, <1>16 DEF vars, docCache, stream, aggregator
<1>17. QED
  BY <1>9, <1>10, <1>11, <1>12, <1>13, <1>14, <1>15, <1>16, Frames
     DEF Next, Backend, Client, Fault, OnWatchStreamChange

-----------------------------------------------------------------------------
(* The order of the writes.                                                *)

LEMMA WritesKept ==
  ASSUME IInv, [Next]_vars, TypeOK'
  PROVE  Writes'
<1>1. /\ \A n \in 1 .. Len(history) :
           /\ history[n].write <= issued /\ history[n].write \in Nat
           /\ history[n].doc = Outside <=> history[n].write = 0
      /\ \A i \in 1 .. Len(queue) :
           /\ queue[i].write # 0 /\ queue[i].write <= issued
           /\ queue[i].write \in Nat /\ queue[i].doc # Outside
      /\ \A i, j \in 1 .. Len(queue) : i < j => queue[i].write < queue[j].write
      /\ \A n, m \in 1 .. Len(history) :
           history[n].write = history[m].write => history[n].doc = history[m].doc
      /\ \A n \in 1 .. Len(history) : \A i \in 1 .. Len(queue) :
           history[n].write = queue[i].write => history[n].doc = queue[i].doc
      /\ TypeOK /\ issued \in Nat /\ Len(queue) \in Nat
  BY Ranges, OutsideAssumption DEF IInv, Safe, Writes
<1>2. CASE ApplyWrite
  <2> DEFINE k == Len(applied) + 1
  <2>1. k \in 1 .. Len(queue) /\ queue[k] \in Stored /\ history' = Append(history, queue[k])
    BY <1>2, Applied
  <2>2. /\ \A n \in 1 .. Len(history) : history'[n] = history[n]
        /\ \A n \in 1 .. Len(history') : n \in 1 .. Len(history) \/ n = Len(history')
        /\ history'[Len(history')] = queue[k]
    BY <1>1, <2>1, Appended
  <2>3. issued' = issued /\ queue' = queue
    BY <1>2, Frames
  <2> HIDE DEF k
  <2>4. \A i \in 1 .. Len(queue) : queue[i].write = queue[k].write => i = k
    <3>1. SUFFICES ASSUME NEW i \in 1 .. Len(queue), i # k
                   PROVE  queue[i].write # queue[k].write
      OBVIOUS
    <3>2. i < k \/ k < i
      BY <2>1, <3>1
    <3>3. \/ queue[i].write < queue[k].write
          \/ queue[k].write < queue[i].write
      BY <1>1, <2>1, <3>1, <3>2
    <3>4. QED
      BY <1>1, <2>1, <3>1, <3>3
  <2>5. \A n \in 1 .. Len(history') :
          /\ history'[n].write <= issued
          /\ history'[n].doc = Outside <=> history'[n].write = 0
    BY <1>1, <2>1, <2>2
  <2>6. \A n, m \in 1 .. Len(history') :
          history'[n].write = history'[m].write => history'[n].doc = history'[m].doc
    BY <1>1, <2>1, <2>2
  <2>7. \A n \in 1 .. Len(history') : \A i \in 1 .. Len(queue) :
          history'[n].write = queue[i].write => history'[n].doc = queue[i].doc
    BY <1>1, <2>1, <2>2, <2>4
  <2>8. QED
    BY <1>1, <2>3, <2>5, <2>6, <2>7 DEF Writes
<1>3. CASE \E d \in Doc : OtherWrite(d)
  <2>1. PICK d \in Doc : OtherWrite(d)
    BY <1>3
  <2> DEFINE x == [doc |-> d, write |-> issued + 1]
  <2>2. x \in Stored /\ history' = Append(history, x) /\ issued' = issued + 1
    BY <1>1, <2>1, OtherWritten DEF IInv
  <2>3. x.doc = d /\ x.write = issued + 1 /\ d # Outside
    BY OutsideAssumption
  <2> HIDE DEF x
  <2>4. /\ \A n \in 1 .. Len(history) : history'[n] = history[n]
        /\ \A n \in 1 .. Len(history') : n \in 1 .. Len(history) \/ n = Len(history')
        /\ history'[Len(history')] = x
    BY <1>1, <2>2, Appended
  <2>5. queue' = queue
    BY <2>1, Frames
  <2>6. /\ \A n \in 1 .. Len(history') :
             /\ history'[n].write <= issued'
             /\ history'[n].doc = Outside <=> history'[n].write = 0
        /\ \A i \in 1 .. Len(queue') : queue'[i].write # 0 /\ queue'[i].write <= issued'
    BY <1>1, <2>2, <2>3, <2>4, <2>5
  <2>7. \A n, m \in 1 .. Len(history') :
          history'[n].write = history'[m].write => history'[n].doc = history'[m].doc
    <3>1. \A n \in 1 .. Len(history) : history'[n].write # x.write
      BY <1>1, <2>3, <2>4
    <3>2. QED
      BY SMTT(40), <1>1, <2>4, <3>1
  <2>8. \A n \in 1 .. Len(history') : \A i \in 1 .. Len(queue') :
          history'[n].write = queue'[i].write => history'[n].doc = queue'[i].doc
    <3>1. \A i \in 1 .. Len(queue) : queue[i].write # x.write
      BY <1>1, <2>3
    <3>2. SUFFICES ASSUME NEW n \in 1 .. Len(history'), NEW i \in 1 .. Len(queue),
                          history'[n].write = queue[i].write
                   PROVE  history'[n].doc = queue[i].doc
      BY <2>5
    <3>3. n \in 1 .. Len(history) /\ history'[n] = history[n]
      BY <2>4, <3>1, <3>2
    <3>4. QED
      BY <1>1, <3>2, <3>3
  <2>9. QED
    BY <1>1, <2>5, <2>6, <2>7, <2>8 DEF Writes
<1>4. CASE \E d \in Doc : WriteMutations(d)
  <2>1. PICK d \in Doc : WriteMutations(d)
    BY <1>4
  <2> DEFINE x == [doc |-> d, write |-> issued + 1]
  <2>2. /\ issued' = issued + 1 /\ Len(queue') = Len(queue) + 1
        /\ \A i \in 1 .. Len(queue) : queue'[i] = queue[i]
        /\ queue'[Len(queue) + 1] = x
    BY <2>1, Issued
  <2>3. x.doc = d /\ x.write = issued + 1
    OBVIOUS
  <2> HIDE DEF x
  <2>4. \A i \in 1 .. Len(queue') : i \in 1 .. Len(queue) \/ i = Len(queue) + 1
    BY <1>1, <2>2
  <2>5. history' = history
    BY <2>1, Frames
  <2>6. /\ \A n \in 1 .. Len(history') :
             /\ history'[n].write <= issued'
             /\ history'[n].doc = Outside <=> history'[n].write = 0
        /\ \A i \in 1 .. Len(queue') : queue'[i].write # 0 /\ queue'[i].write <= issued'
    BY <1>1, <2>2, <2>3, <2>4, <2>5
  <2>7. \A i, j \in 1 .. Len(queue') : i < j => queue'[i].write < queue'[j].write
    BY <1>1, <2>2, <2>3, <2>4
  <2>8. \A n \in 1 .. Len(history') : \A i \in 1 .. Len(queue') :
          history'[n].write = queue'[i].write => history'[n].doc = queue'[i].doc
    BY SMTT(40), <1>1, <2>2, <2>3, <2>4, <2>5
  <2>9. QED
    BY <1>1, <2>5, <2>6, <2>7, <2>8 DEF Writes
<1>5. CASE HandleSuccessfulWrite \/ HandleRejectedWrite
  <2>1. \A i \in 1 .. Len(queue') :
          queue'[i] = queue[i + 1] /\ i + 1 \in 2 .. Len(queue)
    BY <1>5, Left
  <2>2. \A i \in 1 .. Len(queue') : i + 1 \in 1 .. Len(queue)
    BY <2>1
  <2>3. history' = history /\ issued' = issued
    BY <1>5, Frames
  <2>4. \A i, j \in 1 .. Len(queue') : i < j => queue'[i].write < queue'[j].write
    <3>1. SUFFICES ASSUME NEW i \in 1 .. Len(queue'), NEW j \in 1 .. Len(queue'), i < j
                   PROVE  queue'[i].write < queue'[j].write
      OBVIOUS
    <3>2. /\ i + 1 \in 1 .. Len(queue) /\ j + 1 \in 1 .. Len(queue) /\ i + 1 < j + 1
          /\ queue'[i] = queue[i + 1] /\ queue'[j] = queue[j + 1]
      BY <2>1, <2>2, <3>1
    <3>3. queue[i + 1].write < queue[j + 1].write
      BY <1>1, <3>2
    <3>4. QED
      BY <3>2, <3>3
  <2>5. /\ \A n \in 1 .. Len(history') :
             /\ history'[n].write <= issued'
             /\ history'[n].doc = Outside <=> history'[n].write = 0
        /\ \A i \in 1 .. Len(queue') : queue'[i].write # 0 /\ queue'[i].write <= issued'
    BY SMTT(40), <1>1, <2>1, <2>2, <2>3
  <2>6. /\ \A n, m \in 1 .. Len(history') :
             history'[n].write = history'[m].write => history'[n].doc = history'[m].doc
        /\ \A n \in 1 .. Len(history') : \A i \in 1 .. Len(queue') :
             history'[n].write = queue'[i].write => history'[n].doc = queue'[i].doc
    BY SMTT(40), <1>1, <2>1, <2>2, <2>3
  <2>7. QED
    BY <2>4, <2>5, <2>6 DEF Writes
<1>6. CASE UNCHANGED <<history, issued, queue>>
  BY <1>6 DEF Writes, IInv, Safe
<1>7. CASE UNCHANGED vars
  BY <1>6, <1>7 DEF vars, backend
<1>8. QED
  BY <1>2, <1>3, <1>4, <1>5, <1>6, <1>7, Frames
     DEF Next, Backend, Client, Fault, OnWatchStreamChange

\* The new version is not of a write that was applied and is not heard of, nor
\* of one that has left the queue.
LEMMA NewVersion ==
  ASSUME IInv, [Next]_vars, TypeOK', history' # history
  PROVE  /\ \A n \in 1 .. Len(history) : history'[n] = history[n]
         /\ \A n \in 1 .. Len(history') :
              \/ n \in 1 .. Len(history)
              \/ /\ n = Len(history') /\ n = Len(history) + 1
                 /\ \/ history'[n].write = issued + 1 /\ applied' = applied
                    \/ /\ ApplyWrite
                       /\ Len(applied) + 1 \in 1 .. Len(queue)
                       /\ history'[n] = queue[Len(applied) + 1]
<1>1. CASE ApplyWrite
  <2>1. Len(applied) + 1 \in 1 .. Len(queue) /\ queue[Len(applied) + 1] \in Stored
        /\ history' = Append(history, queue[Len(applied) + 1])
    BY <1>1, Applied
  <2>2. QED
    BY <1>1, <2>1, Appended DEF IInv
<1>2. CASE \E d \in Doc : OtherWrite(d)
  <2>1. PICK d \in Doc : OtherWrite(d)
    BY <1>2
  <2> DEFINE x == [doc |-> d, write |-> issued + 1]
  <2>2. x \in Stored /\ history' = Append(history, x)
    BY <2>1, OtherWritten
  <2>3. x.write = issued + 1 /\ applied' = applied
    BY <2>1, Frames
  <2> HIDE DEF x
  <2>4. QED
    BY <2>2, <2>3, Appended DEF IInv
<1>3. CASE UNCHANGED vars
  BY <1>3 DEF vars, backend
<1>4. QED
  BY <1>1, <1>2, <1>3, Frames
     DEF Next, Backend, Client, Fault, OnWatchStreamChange

LEMMA AppliedLastKept ==
  ASSUME IInv, [Next]_vars, TypeOK'
  PROVE  AppliedLast'
<1>1. /\ \A i \in 1 .. Len(applied) :
           /\ applied[i] \in 1 .. Len(history)
           /\ history[applied[i]].doc = queue[i].doc
           /\ history[applied[i]].write = queue[i].write
           /\ \A n \in 1 .. Len(history) :
                history[n].write = queue[i].write => n <= applied[i]
      /\ Len(applied) <= Len(queue)
      /\ Len(applied) \in Nat /\ Len(queue) \in Nat
      /\ \A i \in 1 .. Len(queue) : queue[i].write \in Nat /\ queue[i].write <= issued
      /\ \A i, j \in 1 .. Len(queue) : i < j => queue[i].write < queue[j].write
      /\ issued \in Nat
  BY Ranges DEF IInv, Safe, AppliedLast, Bounds, Writes
<1>2. /\ \A n \in 1 .. Len(history) : n \in 1 .. Len(history') /\ history'[n] = history[n]
  BY VersionsStay
<1>3. \A i \in 1 .. Len(applied) : i \in 1 .. Len(queue)
  BY <1>1
\* What is unchanged of the two sequences stays right: no other write of the
\* backend is one of those that were applied.
<1>4. \A i \in 1 .. Len(applied) :
        /\ applied[i] \in 1 .. Len(history')
        /\ history'[applied[i]].doc = queue[i].doc
        /\ history'[applied[i]].write = queue[i].write
        /\ \A n \in 1 .. Len(history') :
             history'[n].write = queue[i].write => n <= applied[i]
  <2>1. CASE history' = history
    BY <1>1, <2>1
  <2>2. CASE history' # history
    <3>1. ASSUME NEW i \in 1 .. Len(applied), NEW n \in 1 .. Len(history'),
                 n \in 1 .. Len(history), history'[n].write = queue[i].write
          PROVE  n <= applied[i]
      BY <1>1, <1>2, <3>1
    <3>2. \A i \in 1 .. Len(applied) :
            /\ applied[i] \in 1 .. Len(history')
            /\ history'[applied[i]] = history[applied[i]]
      BY <1>1, <1>2
    <3>3. \A i \in 1 .. Len(applied) :
            /\ history[applied[i]].doc = queue[i].doc
            /\ history[applied[i]].write = queue[i].write
      BY <1>1
    <3>4. SUFFICES ASSUME NEW i \in 1 .. Len(applied), NEW n \in 1 .. Len(history'),
                          history'[n].write = queue[i].write
                   PROVE  n \in 1 .. Len(history)
      BY <3>1, <3>2, <3>3
    <3>5. CASE history'[n].write = issued + 1
      <4>1. i \in 1 .. Len(queue)
        BY <1>3
      <4>2. queue[i].write \in Nat /\ queue[i].write <= issued /\ issued \in Nat
        BY <1>1, <4>1
      <4>3. QED
        BY <3>4, <3>5, <4>2
    <3>6. CASE /\ Len(applied) + 1 \in 1 .. Len(queue)
               /\ history'[n] = queue[Len(applied) + 1]
      <4>1. queue[i].write < queue[Len(applied) + 1].write
        BY <1>1, <1>3, <3>6
      <4>2. queue[i].write \in Nat /\ queue[Len(applied) + 1].write \in Nat
        BY <1>1, <1>3, <3>6
      <4>3. QED
        BY <3>4, <3>6, <4>1, <4>2
    <3>7. QED
      BY <2>2, <3>5, <3>6, NewVersion
  <2>3. QED
    BY <2>1, <2>2
<1>5. CASE ApplyWrite
  <2> DEFINE k == Len(applied) + 1
  <2>1. /\ k \in 1 .. Len(queue) /\ queue[k] \in Stored
        /\ history' = Append(history, queue[k])
        /\ Len(applied') = k /\ applied'[k] = Len(history')
        /\ \A i \in 1 .. Len(applied) : applied'[i] = applied[i]
    BY <1>5, Applied
  <2>2. history'[Len(history')] = queue[k] /\ Len(history') \in 1 .. Len(history')
    BY <2>1, Appended DEF IInv
  <2>3. queue' = queue
    BY <1>5, Frames
  <2>4. \A i \in 1 .. Len(applied') : i \in 1 .. Len(applied) \/ i = k
    BY <1>1, <2>1
  <2> HIDE DEF k
  <2>5. \A i \in 1 .. Len(applied') :
          /\ applied'[i] \in 1 .. Len(history')
          /\ history'[applied'[i]].doc = queue[i].doc
          /\ history'[applied'[i]].write = queue[i].write
          /\ \A n \in 1 .. Len(history') :
               history'[n].write = queue[i].write => n <= applied'[i]
    <3>1. SUFFICES ASSUME NEW i \in 1 .. Len(applied')
                   PROVE  /\ applied'[i] \in 1 .. Len(history')
                          /\ history'[applied'[i]].doc = queue[i].doc
                          /\ history'[applied'[i]].write = queue[i].write
                          /\ \A n \in 1 .. Len(history') :
                               history'[n].write = queue[i].write => n <= applied'[i]
      OBVIOUS
    <3>2. CASE i \in 1 .. Len(applied)
      BY <1>4, <2>1, <3>2
    <3>3. CASE i = k
      <4>1. \A n \in 1 .. Len(history') : n <= Len(history')
        BY DEF TypeOK
      <4>2. applied'[i] = Len(history') /\ queue[i] = history'[Len(history')]
        BY <2>1, <2>2, <3>3
      <4>3. QED
        BY <2>2, <4>1, <4>2
    <3>4. QED
      BY <2>4, <3>2, <3>3
  <2>6. QED
    BY <2>3, <2>5 DEF AppliedLast
<1>6. CASE \E d \in Doc : WriteMutations(d)
  <2>1. \A i \in 1 .. Len(queue) : queue'[i] = queue[i]
    BY <1>6, Issued
  <2>2. applied' = applied
    BY <1>6, Frames
  <2>3. QED
    BY <1>3, <1>4, <2>1, <2>2 DEF AppliedLast
<1>7. CASE HandleSuccessfulWrite
  <2>1. \A i \in 1 .. Len(queue') : queue'[i] = queue[i + 1]
    BY <1>7, Left
  <2>2. /\ Len(applied') = Len(applied) - 1
        /\ \A i \in 1 .. Len(applied') : applied'[i] = applied[i + 1]
    <3>1. applied # <<>> /\ applied' = Tail(applied) /\ applied \in Seq(Version)
      BY <1>7, TypeParts DEF HandleSuccessfulWrite, QueueTypes, IInv
    <3> DEFINE p == Tail(applied)
    <3>2. Len(p) = Len(applied) - 1 /\ \A i \in 1 .. Len(p) : p[i] = applied[i + 1]
      BY <3>1, HeadTailProperties
    <3>3. applied' = p
      BY <3>1
    <3> HIDE DEF p
    <3>4. QED
      BY <3>2, <3>3
  <2>3. \A i \in 1 .. Len(applied') :
          /\ i + 1 \in 1 .. Len(applied) /\ i \in 1 .. Len(queue')
          /\ applied'[i] = applied[i + 1] /\ queue'[i] = queue[i + 1]
    <3>1. Len(queue') = Len(queue) - 1
      BY <1>7, Left
    <3>2. \A i \in 1 .. Len(applied') :
            i + 1 \in 1 .. Len(applied) /\ i \in 1 .. Len(queue')
      BY <1>1, <2>2, <3>1
    <3>3. QED
      BY <2>1, <2>2, <3>2
  <2>4. QED
    BY <1>4, <2>3 DEF AppliedLast
<1>8. CASE HandleRejectedWrite \/ LoseAnswers \/ Crash
  <2>1. Len(applied') = 0
    BY <1>8, EmptySeq DEF HandleRejectedWrite, LoseAnswers, Crash
  <2>2. QED
    BY <2>1 DEF AppliedLast
<1>9. CASE UNCHANGED <<applied, queue>>
  BY <1>4, <1>9 DEF AppliedLast
<1>10. CASE UNCHANGED vars
  BY <1>9, <1>10 DEF vars
<1>11. QED
  BY <1>5, <1>6, <1>7, <1>8, <1>9, <1>10, Frames
     DEF Next, Backend, Client, Fault, OnWatchStreamChange

\* A write leaves the queue when it is refused, or when the cache has it.
LEMMA QueueShrinks ==
  ASSUME IInv, [Next]_vars, TypeOK'
  PROVE  /\ refused \subseteq refused'
         /\ \A w : Among(queue, w) =>
              \/ Among(queue', w) \/ w \in refused'
              \/ /\ history' = history
                 /\ \E n \in 1 .. Len(history) : history[n].write = w
                 /\ \A n \in 1 .. Len(history) :
                      history[n].write = w => n <= cache'[history[n].doc].version
<1>1. CASE HandleSuccessfulWrite
  <2>1. \A i \in 2 .. Len(queue) :
              i - 1 \in 1 .. Len(queue') /\ queue'[i - 1] = queue[i]
    BY <1>1, Left
  <2>2. Len(applied) # 0 /\ 1 \in 1 .. Len(applied) /\ Len(queue) \in Nat
    BY <1>1, Acknowledged, Ranges DEF IInv
  <2>3. ASSUME NEW n \in 1 .. Len(history), history[n].write = queue[1].write
        PROVE  n <= cache'[history[n].doc].version
    <3>1. n <= applied[1]
      BY <2>2, <2>3 DEF IInv, Safe, AppliedLast
    <3>2. history[n].doc = queue[1].doc
      BY <1>1, <2>3, Acknowledged, Left DEF IInv, Safe, Writes
    <3>3. applied[1] <= cache'[queue[1].doc].version
      <4>1. applied[1] \in Nat /\ cache[queue[1].doc].version \in Nat
        BY <1>1, Left, <2>2, Ranges DEF IInv
      <4>2. QED
        BY <1>1, <4>1, Acknowledged
    <3>4. cache'[queue[1].doc].version \in Nat /\ applied[1] \in Nat
      <4>1. cache' \in [Doc -> Cached] /\ queue[1].doc \in Doc
        BY <1>1, Acknowledged, Left
      <4>2. cache'[queue[1].doc] \in Cached
        BY <4>1
      <4>3. QED
        BY SMTT(40), <4>2, <2>2, Ranges DEF Cached, Version, IInv
    <3>5. QED
      BY <3>1, <3>2, <3>3, <3>4
  <2>4. UNCHANGED <<history, refused>>
    BY <1>1, Frames
  <2>5. \A i \in 1 .. Len(queue) : i = 1 \/ i \in 2 .. Len(queue)
    BY <2>2
  <2>6. \E n \in 1 .. Len(history) : history[n].write = queue[1].write
    BY <1>1, Acknowledged
  <2>7. QED
    BY SMTT(40), <2>1, <2>3, <2>4, <2>5, <2>6 DEF Among
<1>2. CASE HandleRejectedWrite
  <2>1. /\ \A i \in 2 .. Len(queue) :
             i - 1 \in 1 .. Len(queue') /\ queue'[i - 1] = queue[i]
        /\ Head(queue) = queue[1]
    BY <1>2, Left
  <2>2. refused' = refused \cup {queue[1].write}
    BY <1>2, <2>1 DEF HandleRejectedWrite
  <2>3. \A i \in 1 .. Len(queue) : i = 1 \/ i \in 2 .. Len(queue)
    BY Ranges DEF IInv
  <2>4. QED
    BY <2>1, <2>2, <2>3 DEF Among
<1>3. CASE \E d \in Doc : WriteMutations(d)
  <2>1. /\ \A i \in 1 .. Len(queue) : queue'[i] = queue[i]
        /\ Len(queue') = Len(queue) + 1
    BY <1>3, Issued
  <2>2. refused' = refused /\ \A i \in 1 .. Len(queue) : i \in 1 .. Len(queue')
    BY <1>3, <2>1, Frames, Ranges DEF IInv
  <2>3. QED
    BY <2>1, <2>2 DEF Among
<1>4. CASE UNCHANGED <<queue, refused>>
  BY <1>4 DEF Among
<1>5. CASE UNCHANGED vars
  BY <1>4, <1>5 DEF vars, backend
<1>6. QED
  BY <1>1, <1>2, <1>3, <1>4, <1>5, Frames
     DEF Next, Backend, Client, Fault, OnWatchStreamChange

\* What is queued was queued before, or is the write that is issued.
LEMMA QueueFrom ==
  ASSUME IInv, [Next]_vars
  PROVE  /\ issued <= issued'
         /\ \A i \in 1 .. Len(queue') :
              \/ \E j \in 1 .. Len(queue) : queue'[i] = queue[j]
              \/ queue'[i].write = issued + 1
<1>1. issued \in Nat /\ Len(queue) \in Nat
  BY Ranges DEF IInv
<1>2. CASE \E d \in Doc : WriteMutations(d)
  <2>1. PICK d \in Doc : WriteMutations(d)
    BY <1>2
  <2>2. /\ issued' = issued + 1 /\ Len(queue') = Len(queue) + 1
        /\ \A i \in 1 .. Len(queue) : queue'[i] = queue[i]
        /\ queue'[Len(queue) + 1] = [doc |-> d, write |-> issued + 1]
    BY <2>1, Issued
  <2>3. \A i \in 1 .. Len(queue') : i \in 1 .. Len(queue) \/ i = Len(queue) + 1
    BY <1>1, <2>2
  <2>4. QED
    BY <1>1, <2>2, <2>3
<1>3. CASE HandleSuccessfulWrite \/ HandleRejectedWrite
  <2>1. \A i \in 1 .. Len(queue') :
          queue'[i] = queue[i + 1] /\ i + 1 \in 1 .. Len(queue)
    BY <1>1, <1>3, Left
  <2>2. issued' = issued
    BY <1>3, Frames
  <2>3. QED
    BY <1>1, <2>1, <2>2
<1>4. CASE \E d \in Doc : OtherWrite(d)
  <2>1. PICK d \in Doc : OtherWrite(d)
    BY <1>4
  <2>2. issued' = issued + 1 /\ queue' = queue
    BY <2>1, OtherWritten, Frames
  <2>3. QED
    BY <1>1, <2>2
<1>5. CASE UNCHANGED <<issued, queue>>
  BY <1>1, <1>5
<1>6. CASE UNCHANGED vars
  BY <1>5, <1>6 DEF vars, backend
<1>7. QED
  BY <1>2, <1>3, <1>4, <1>5, <1>6, Frames
     DEF Next, Backend, Client, Fault, OnWatchStreamChange

LEMMA RepeatedIsKnownKept ==
  ASSUME IInv, [Next]_vars, TypeOK'
  PROVE  RepeatedIsKnown'
<1>1. /\ TypeOK /\ RepeatedIsKnown
      /\ \A n, m \in 1 .. Len(history) :
           history[n].write = history[m].write => history[n].doc = history[m].doc
      /\ \A n \in 1 .. Len(history) :
           /\ history[n].write \in Nat /\ history[n].write <= issued
      /\ issued \in Nat
  BY Ranges DEF IInv, Safe, Writes
<1>2. SUFFICES ASSUME NEW n \in 1 .. Len(history'), NEW m \in 1 .. Len(history'),
                      n < m, history'[n].write = history'[m].write,
                      history'[n].doc \in Doc
               PROVE  \/ history'[n].write \in refused'
                      \/ Among(queue', history'[n].write)
                      \/ m <= cache'[history'[n].doc].version
  BY DEF RepeatedIsKnown
<1>3. n \in Nat /\ m \in Nat /\ Len(history) \in Nat
  BY <1>1, Ranges DEF TypeOK
<1>4. CASE m \notin 1 .. Len(history)
  <2>1. history' # history
    BY <1>4
  <2>2. /\ n \in 1 .. Len(history) /\ history'[n] = history[n]
        /\ \/ history'[m].write = issued + 1
           \/ /\ ApplyWrite
              /\ Len(applied) + 1 \in 1 .. Len(queue)
              /\ history'[m] = queue[Len(applied) + 1]
    <3>1. n \in 1 .. Len(history)
      BY <1>2, <1>3, <1>4, <2>1, NewVersion
    <3>2. QED
      BY <1>4, <2>1, <3>1, NewVersion
  <2>3. CASE history'[m].write = issued + 1
    BY <1>1, <1>2, <2>2, <2>3
  <2>4. CASE /\ ApplyWrite
             /\ Len(applied) + 1 \in 1 .. Len(queue)
             /\ history'[m] = queue[Len(applied) + 1]
    <3>1. queue' = queue
      BY <2>4, Frames
    <3>2. QED
      BY <1>2, <2>4, <3>1 DEF Among
  <2>5. QED
    BY <2>2, <2>3, <2>4
<1>5. CASE m \in 1 .. Len(history)
  <2> DEFINE w == history[n].write
             d == history[n].doc
  <2>1. /\ n \in 1 .. Len(history)
        /\ history'[n] = history[n] /\ history'[m] = history[m]
    <3>1. n \in 1 .. Len(history)
      BY <1>2, <1>3, <1>5
    <3>2. QED
      BY <1>5, <3>1, VersionsStay
  <2>2. history[m].write = w /\ history[m].doc = d
    BY <1>1, <1>2, <1>5, <2>1
  <2>3. w \in refused \/ Among(queue, w) \/ m <= cache[d].version
    BY <1>1, <1>2, <1>5, <2>1, <2>2 DEF RepeatedIsKnown
  <2>4. CASE w \in refused
    BY <2>1, <2>4, QueueShrinks
  <2>5. CASE Among(queue, w)
    BY <1>5, <2>1, <2>2, <2>5, QueueShrinks
  <2>6. CASE m <= cache[d].version
    <3>1. d \in Doc
      BY <1>2, <2>1
    <3>2. cache[d].version <= cache'[d].version /\ cache[d].version \in Nat
      BY <1>1, <3>1, CacheGrows, Ranges
    <3>3. cache' \in [Doc -> Cached]
      BY CacheTypesKept DEF CacheTypes
    <3>4. cache'[d] \in Cached
      BY <3>1, <3>3
    <3>5. cache'[d].version \in Nat
      BY <3>4 DEF Cached, Version
    <3>6. QED
      BY <1>3, <2>1, <2>6, <3>2, <3>5
  <2>7. QED
    BY <2>3, <2>4, <2>5, <2>6
<1>6. QED
  BY <1>4, <1>5

-----------------------------------------------------------------------------
(* The view.                                                               *)

\* What a step does to a document of the view: it is read again, or kept until
\* the backend sends its write, or it has not changed.
Recomputed(d) ==
  /\ listening' # {}
  /\ view'[d] = LocalOf(history', d, queue', cache')

KeptBack(d) ==
  /\ listening # {} /\ history' = history
  /\ view'[d] = view[d] /\ view[d].local
  /\ d \notin Pending(queue') /\ cache'[d].committed

Untouched(d) ==
  /\ listening # {}
  /\ view'[d] = view[d]
  /\ LocalOf(history', d, queue', cache') = LocalOf(history, d, queue, cache)
  /\ d \in Pending(queue') <=> d \in Pending(queue)
  /\ cache'[d] = cache[d]

\* One of the three writes of this device, of the document e.
LEMMA ViewOfWrite ==
  ASSUME IInv, NEW e \in Doc, NEW d \in Doc, history' = history,
         cache' \in [Doc -> Cached], queue' \in Seq(Queued),
         IF listening = {} THEN UNCHANGED <<queryView, events>>
         ELSE ApplyChanges(ComputeDocumentChanges({e}, queue', cache'), current,
                           synced),
         d # e => /\ d \in Pending(queue') <=> d \in Pending(queue)
                  /\ cache'[d] = cache[d]
                  /\ LocalOf(history', d, queue', cache')
                       = LocalOf(history, d, queue, cache)
  PROVE  /\ listening' = listening
         /\ \/ listening = {} /\ view'[d] = view[d]
            \/ Recomputed(d) \/ KeptBack(d) \/ Untouched(d)
<1>1. CASE listening = {}
  BY <1>1 DEF queryView, events
<1>2. CASE listening # {}
  <2> DEFINE q == queue'
             c == cache'
  <2>1. /\ listening' = listening
        /\ view' = ComputeDocumentChanges({e}, queue', cache')
    BY <1>2 DEF ApplyChanges
  <2>2. view' = [x \in Doc |-> IF x \notin {e} \/ Waits(x, queue', cache')
                               THEN view[x] ELSE LocalOf(history, x, queue', cache')]
    BY <2>1, ComputeIs
  <2>3. CASE d # e
    <3>1. view'[d] = view[d]
      BY <2>2, <2>3
    <3>2. QED
      BY <1>2, <2>1, <2>3, <3>1 DEF Untouched
  <2>4. CASE d = e /\ Waits(d, queue', cache')
    <3>1. view'[d] = view[d]
      BY <2>2, <2>4
    <3>2. QED
      BY <1>2, <2>1, <2>4, <3>1 DEF KeptBack, Waits
  <2>5. CASE d = e /\ ~Waits(d, queue', cache')
    BY <1>2, <2>1, <2>2, <2>5 DEF Recomputed
  <2>6. QED
    BY <2>1, <2>3, <2>4, <2>5
<1>3. QED
  BY <1>1, <1>2

LEMMA ViewChanges ==
  ASSUME IInv, [Next]_vars, NEW d \in Doc
  PROVE  \/ Recomputed(d)
         \/ KeptBack(d) /\ listening' = listening
         \/ Untouched(d) /\ (listening' = listening \/ listening \subseteq listening')
         \/ listening' = {} /\ ~view'[d].local
<1>1. /\ history \in Seq(Stored) /\ queue \in Seq(Queued)
      /\ cache \in [Doc -> Cached] /\ TypeOK
      /\ \A e \in Doc : cache[e].version <= Len(history)
  BY TypeParts, CachedVersions
     DEF IInv, BackendTypes, QueueTypes, CacheTypes
<1>2. listening = {} => ~view[d].local
  BY DEF IInv, Safe, Held
<1>3. queue' \in Seq(Queued) /\ cache' \in [Doc -> Cached]
  BY QueueTypesKept, CacheTypesKept DEF QueueTypes, CacheTypes
<1>4. CASE ApplyWrite
  <2>1. /\ queue[Len(applied) + 1] \in Stored
        /\ history' = Append(history, queue[Len(applied) + 1])
    BY <1>4, Applied
  <2>2. LocalOf(history', d, queue, cache) = LocalOf(history, d, queue, cache)
    BY <1>1, <2>1, LocalStore
  <2>3. UNCHANGED <<view, queue, cache, listening>>
    BY <1>4, Frames
  <2>4. QED
    BY <1>2, <2>2, <2>3 DEF Untouched
<1>5. CASE \E e \in Doc : OtherWrite(e)
  <2>1. PICK e \in Doc : OtherWrite(e)
    BY <1>5
  <2>2. \E x \in Stored : history' = Append(history, x)
    BY <2>1, OtherWritten
  <2>3. LocalOf(history', d, queue, cache) = LocalOf(history, d, queue, cache)
    BY <1>1, <2>2, LocalStore
  <2>4. UNCHANGED <<view, queue, cache, listening>>
    BY <2>1, Frames
  <2>5. QED
    BY <1>2, <2>3, <2>4 DEF Untouched
<1>6. CASE \E l \in Listener : Listen(l)
  <2>1. PICK l \in Listener : Listen(l)
    BY <1>6
  <2>2. UNCHANGED <<history, queue, cache>>
    BY <2>1, Frames
  <2>3. listening' = {l} /\ view' = [e \in Doc |-> LocalDoc(e, queue, cache)]
    BY <2>1 DEF Listen
  <2>4. QED
    BY <2>2, <2>3, LocalDocIs DEF Recomputed
<1>7. CASE \E e \in Doc : WriteMutations(e)
  <2>1. PICK e \in Doc : WriteMutations(e)
    BY <1>7
  <2> DEFINE x == [doc |-> e, write |-> issued + 1]
  <2>2. x \in Queued /\ queue' = Append(queue, x) /\ x.doc = e
    BY <2>1, Issued
  <2> HIDE DEF x
  <2>3. UNCHANGED <<history, cache>>
    BY <2>1, Frames
  <2>4. d # e => /\ d \in Pending(queue') <=> d \in Pending(queue)
                 /\ LocalOf(history, d, queue', cache) = LocalOf(history, d, queue, cache)
    BY <1>1, <2>2, LocalAppend
  <2>5. IF listening = {} THEN UNCHANGED <<queryView, events>>
        ELSE ApplyChanges(ComputeDocumentChanges({e}, queue', cache'), current, synced)
    BY <2>1, <2>3 DEF WriteMutations
  <2>6. QED
    BY <1>2, <1>3, <2>3, <2>4, <2>5, ViewOfWrite
<1>8. CASE HandleSuccessfulWrite \/ HandleRejectedWrite
  <2> DEFINE e == queue[1].doc
  <2>1. queue # <<>> /\ e \in Doc /\ Head(queue).doc = e /\ queue' = Tail(queue)
    BY <1>8, Left
  <2>2. history' = history /\ (d # e => cache'[d] = cache[d])
    BY <1>8, Acknowledged, Frames
  <2>3. IF listening = {} THEN UNCHANGED <<queryView, events>>
        ELSE ApplyChanges(ComputeDocumentChanges({e}, queue', cache'), current, synced)
    <3>1. CASE HandleSuccessfulWrite
      BY <2>1, <3>1 DEF HandleSuccessfulWrite
    <3>2. CASE HandleRejectedWrite
      BY <2>1, <3>2, Frames DEF HandleRejectedWrite
    <3>3. QED
      BY <1>8, <3>1, <3>2
  <2> HIDE DEF e
  <2>4. d # e => d \in Pending(queue') <=> d \in Pending(queue)
    BY <1>1, <2>1, LocalTail
  <2>5. d # e => LocalOf(history, d, queue', cache') = LocalOf(history, d, queue, cache)
    <3>1. SUFFICES ASSUME d # e
                   PROVE  LocalOf(history, d, queue', cache')
                            = LocalOf(history, d, queue, cache)
      OBVIOUS
    <3>2. CASE d \in Pending(queue')
      <4>1. /\ LocalOf(history, d, queue', cache) = LocalOf(history, d, queue, cache)
            /\ d \in Pending(queue)
        BY SMTT(40), <1>1, <2>1, <3>2, LocalTail
      <4>2. LocalOf(history, d, queue', cache') = LocalOf(history, d, queue', cache)
        BY <3>2 DEF LocalOf
      <4>3. QED
        BY <4>1, <4>2
    <3>3. CASE d \notin Pending(queue')
      BY <2>2, <2>4, <3>1, <3>3 DEF LocalOf
    <3>4. QED
      BY <3>2, <3>3
  <2>6. QED
    BY <1>2, <1>3, <2>1, <2>2, <2>3, <2>4, <2>5, ViewOfWrite
<1>9. CASE RaiseWatchSnapshot
  <2>1. UNCHANGED <<history, queue, listening>>
    BY <1>9, Frames
  <2>2. CASE sent < lastRemoteSnapshotVersion
    <3>1. UNCHANGED <<view, cache>>
      BY <1>9, <2>2, Snapshot DEF docCache, queryView
    <3>2. QED
      BY <1>2, <2>1, <3>1 DEF Untouched
  <2>3. CASE ~(sent < lastRemoteSnapshotVersion)
    <3>1. view' = ComputeDocumentChanges(New, queue, cache')
      BY <1>9, <2>3, Snapshot DEF ApplyChanges
    <3>2. view' = [x \in Doc |-> IF x \notin New \/ Waits(x, queue, cache')
                                 THEN view[x] ELSE LocalOf(history, x, queue, cache')]
      BY <3>1, ComputeIs
    <3>3. /\ d \in New => ~cache'[d].committed
          /\ d \notin New => cache'[d] = cache[d]
      BY <1>9, <2>3, SnapshotCache
    <3>4. listening # {}
      <4>1. watch = "Open"
        BY <1>9, Active DEF RaiseWatchSnapshot
      <4>2. QED
        BY <4>1 DEF IInv, Safe, StreamShape
    <3>5. CASE d \in New
      BY <2>1, <3>2, <3>3, <3>4, <3>5 DEF Waits, Recomputed
    <3>6. CASE d \notin New
      <4>1. LocalOf(history, d, queue, cache') = LocalOf(history, d, queue, cache)
        BY <3>3, <3>6 DEF LocalOf
      <4>2. QED
        BY <2>1, <3>2, <3>3, <3>4, <3>6, <4>1 DEF Untouched
    <3>7. QED
      BY <3>5, <3>6
  <2>4. QED
    BY <2>2, <2>3
<1>10. CASE \E l \in Listener : AddQueryListener(l)
  <2>1. PICK l \in Listener : AddQueryListener(l)
    BY <1>10
  <2>2. /\ UNCHANGED <<view, history, queue, cache>>
        /\ listening # {} /\ listening \subseteq listening'
    BY <2>1, Frames DEF AddQueryListener
  <2>3. QED
    BY <2>2 DEF Untouched
<1>11. CASE Crash
  BY <1>11 DEF Crash, Absent
<1>12. CASE UNCHANGED <<view, history, queue, cache, listening>>
  BY <1>2, <1>12 DEF Untouched
<1>13. CASE UNCHANGED vars
  BY <1>12, <1>13 DEF vars, backend, docCache, queryView, events
<1>14. QED
  BY <1>4, <1>5, <1>6, <1>7, <1>8, <1>9, <1>10, <1>11, <1>12, <1>13, Frames
     DEF Next, Backend, Client, Fault, OnWatchStreamChange

-----------------------------------------------------------------------------
(* The writes that the view holds.                                         *)

\* A write the view holds is queued for its document only.
LEMMA HeldQueue ==
  ASSUME IInv, [Next]_vars, NEW d \in Doc, view[d].local
  PROVE  \A i \in 1 .. Len(queue') :
           queue'[i].write = view[d].write => queue'[i].doc = d
<1>1. /\ view[d].write <= issued
      /\ \A i \in 1 .. Len(queue) :
           queue[i].write = view[d].write => queue[i].doc = d
  BY DEF IInv, Safe, Held
<1>2. view[d].write \in Nat /\ issued \in Nat
  BY Ranges DEF IInv
<1>3. \A i \in 1 .. Len(queue') :
        \/ \E j \in 1 .. Len(queue) : queue'[i] = queue[j]
        \/ queue'[i].write = issued + 1
  BY QueueFrom
<1>4. view[d].write # issued + 1
  BY <1>1, <1>2
<1>5. QED
  BY <1>1, <1>3, <1>4

\* Once it has left the queue and was not refused, the cache is past it.
LEMMA HeldWrite ==
  ASSUME IInv, [Next]_vars, TypeOK', NEW d \in Doc, view[d].local,
         d \notin Pending(queue'), view[d].write \notin refused'
  PROVE  /\ cache'[d].version # 0
         /\ \A n \in 1 .. Len(history') :
              history'[n].write = view[d].write => n <= cache'[d].version
<1> DEFINE w == view[d].write
<1>1. /\ w <= issued /\ w \in Nat /\ issued \in Nat
      /\ \A i \in 1 .. Len(queue) : queue[i].write = w => queue[i].doc = d
      /\ \A n \in 1 .. Len(history) : history[n].write = w =>
           d \in Pending(queue) \/ w \in refused \/ n <= cache[d].version
      /\ listening # {}
  BY Ranges DEF IInv, Safe, Held
<1>2. \A i \in 1 .. Len(queue') : queue'[i].write = w => queue'[i].doc = d
  BY HeldQueue
<1>3. ~Among(queue', w)
  BY <1>2 DEF Among, Pending
<1>4. cache[d].version <= cache'[d].version /\ cache[d].version \in Nat
  BY CacheGrows, Ranges DEF IInv
<1>5. cache'[d].version \in Nat
  <2>1. cache' \in [Doc -> Cached]
    BY CacheTypesKept DEF CacheTypes
  <2>2. cache'[d] \in Cached
    BY <2>1
  <2>3. QED
    BY <2>2 DEF Cached, Version
<1>6. \A n \in 1 .. Len(history) : n \in Nat /\ n # 0
  BY DEF TypeOK
<1>7. w \notin refused
  BY QueueShrinks
<1>8. \/ view[d] = LocalOf(history, d, queue, cache)
      \/ cache[d].committed /\ d \notin Pending(queue)
  BY <1>1, LocalDocIs DEF IInv, Safe, ViewIsLocal
<1>9. CASE d \in Pending(queue)
  <2> DEFINE k == LastFor(queue, d)
  <2>1. queue \in Seq(Queued)
    BY TypeParts DEF IInv, QueueTypes
  <2>2. k \in 1 .. Len(queue) /\ queue[k].doc = d
    BY <1>9, <2>1, LastForIs
  <2>3. queue[k].write = w
    BY <1>8, <1>9, LocalFields
  <2> HIDE DEF k
  <2>4. Among(queue, w)
    BY <2>2, <2>3 DEF Among
  <2>5. /\ history' = history
        /\ \E n \in 1 .. Len(history) : history[n].write = w
        /\ \A n \in 1 .. Len(history) :
             history[n].write = w => n <= cache'[history[n].doc].version
    BY <1>3, <2>4, QueueShrinks
  <2>6. \A n \in 1 .. Len(history) : history[n].write = w => history[n].doc = d
    BY <2>2, <2>3 DEF IInv, Safe, Writes
  <2>7. \A n \in 1 .. Len(history) : history[n].write = w => n <= cache'[d].version
    BY <2>5, <2>6
  <2>8. PICK n \in 1 .. Len(history) : history[n].write = w
    BY <2>5
  <2>9. cache'[d].version # 0
    BY <1>5, <1>6, <2>7, <2>8
  <2>10. QED
    BY <2>5, <2>7, <2>9
<1>10. CASE d \notin Pending(queue)
  <2>1. cache[d].committed
    BY <1>8, <1>10, LocalFields
  <2>2. cache[d].version # 0
    BY <2>1 DEF IInv, Safe, VersionsOfDocs
  <2>3. cache'[d].version # 0
    BY <1>4, <1>5, <2>2
  <2>4. ASSUME NEW n \in 1 .. Len(history), history[n].write = w
        PROVE  n <= cache'[d].version
    <3>1. n <= cache[d].version
      BY <1>1, <1>7, <1>10, <2>4
    <3>2. QED
      BY <1>4, <1>5, <1>6, <3>1
  <2>5. ASSUME NEW n \in 1 .. Len(history'), history'[n].write = w
        PROVE  n <= cache'[d].version
    <3>1. CASE n \in 1 .. Len(history)
      <4>1. history'[n] = history[n]
        BY <3>1, VersionsStay
      <4>2. QED
        BY <2>4, <2>5, <3>1, <4>1
    <3>2. CASE n \notin 1 .. Len(history)
      <4>1. \/ history'[n].write = issued + 1
            \/ /\ Len(applied) + 1 \in 1 .. Len(queue)
               /\ history'[n] = queue[Len(applied) + 1]
        BY <3>2, NewVersion
      <4>2. history'[n].write # issued + 1
        BY <1>1, <2>5
      <4>3. d \in Pending(queue)
        BY <1>1, <2>5, <4>1, <4>2 DEF Pending
      <4>4. QED
        BY <1>10, <4>3
    <3>3. QED
      BY <3>1, <3>2
  <2>6. QED
    BY <2>3, <2>5
<1>11. QED
  BY <1>9, <1>10

LEMMA HeldKept ==
  ASSUME IInv, [Next]_vars, TypeOK', Writes'
  PROVE  Held'
<1>1. SUFFICES ASSUME NEW d \in Doc, view'[d].local
               PROVE  /\ listening' # {}
                      /\ view'[d].write # 0
                      /\ view'[d].write <= issued'
                      /\ \A i \in 1 .. Len(queue') :
                           queue'[i].write = view'[d].write => queue'[i].doc = d
                      /\ \A n \in 1 .. Len(history') :
                           history'[n].write = view'[d].write =>
                             \/ d \in Pending(queue')
                             \/ view'[d].write \in refused'
                             \/ n <= cache'[d].version
  BY DEF Held
<1>2. CASE Recomputed(d)
  <2> DEFINE k == LastFor(queue', d)
  <2>1. d \in Pending(queue') /\ view'[d].write = queue'[k].write /\ listening' # {}
    BY <1>1, <1>2, LocalFields DEF Recomputed
  <2>2. queue' \in Seq(Queued)
    BY QueueTypesKept DEF QueueTypes
  <2>3. k \in 1 .. Len(queue') /\ queue'[k].doc = d
    BY <2>1, <2>2, LastForIs
  <2> HIDE DEF k
  <2>4. queue'[k].write # 0 /\ queue'[k].write <= issued'
    BY <2>3 DEF Writes
  <2>5. ASSUME NEW i \in 1 .. Len(queue'), queue'[i].write = queue'[k].write
        PROVE  i = k
    <3>1. queue'[i].write \in Nat
      <4>1. queue'[i] \in Queued
        BY <2>2, ElementOfSeq
      <4>2. QED
        BY <4>1 DEF Queued, Write
    <3>2. i < k \/ k < i \/ i = k
      BY <2>3
    <3>3. i < k => queue'[i].write < queue'[k].write
      BY <2>3 DEF Writes
    <3>4. k < i => queue'[k].write < queue'[i].write
      BY <2>3 DEF Writes
    <3>5. QED
      BY <2>5, <3>1, <3>2, <3>3, <3>4
  <2>6. QED
    BY <2>1, <2>3, <2>4, <2>5
<1>3. CASE view'[d] = view[d] /\ listening' # {}
  <2>1. view[d].local /\ view'[d] = view[d]
    BY <1>1, <1>3
  <2>2. view[d].write # 0 /\ view[d].write <= issued
    BY <2>1 DEF IInv, Safe, Held
  <2>3. view[d].write <= issued'
    <3>1. issued <= issued' /\ issued' \in Nat
      BY QueueFrom, BackendTypesKept DEF BackendTypes, Write
    <3>2. QED
      BY SMTT(40), <2>2, <3>1, Ranges DEF IInv
  <2>4. \A i \in 1 .. Len(queue') :
          queue'[i].write = view[d].write => queue'[i].doc = d
    BY <2>1, HeldQueue
  <2>5. \/ d \in Pending(queue')
        \/ view[d].write \in refused'
        \/ \A n \in 1 .. Len(history') :
             history'[n].write = view[d].write => n <= cache'[d].version
    BY <2>1, HeldWrite
  <2>6. QED
    BY <1>3, <2>1, <2>2, <2>3, <2>4, <2>5
<1>4. QED
  BY <1>1, <1>2, <1>3, ViewChanges DEF KeptBack, Untouched

LEMMA ViewIsLocalKept ==
  ASSUME IInv, [Next]_vars
  PROVE  ViewIsLocal'
<1>1. SUFFICES ASSUME listening' # {}, NEW d \in Doc
               PROVE  \/ view'[d] = LocalOf(history', d, queue', cache')
                      \/ /\ view'[d].local /\ cache'[d].committed
                         /\ d \notin Pending(queue')
  BY DEF ViewIsLocal, LocalDoc, LocalOf, LastFor, WriteOf
<1>2. CASE Recomputed(d)
  BY <1>2 DEF Recomputed
<1>3. CASE KeptBack(d)
  BY <1>3 DEF KeptBack
<1>4. CASE Untouched(d)
  <2>1. \/ view[d] = LocalOf(history, d, queue, cache)
        \/ view[d].local /\ cache[d].committed /\ d \notin Pending(queue)
    BY <1>4, LocalDocIs DEF IInv, Safe, ViewIsLocal, Untouched
  <2>2. QED
    BY <1>4, <2>1 DEF Untouched
<1>5. QED
  BY <1>1, <1>2, <1>3, <1>4, ViewChanges

-----------------------------------------------------------------------------
(* What the listeners are told.                                            *)

Told(l, d) ==
  IF l \in raised THEN SameData(shown[l][d], view[d])
  ELSE view[d] = Absent /\ FromCache(view, current, synced)
       /\ onlineState # "Offline"

LEMMA ListenersAgreeIs ==
  ListenersAgree <=> \A l \in listening, d \in Doc : Told(l, d)
BY DEF ListenersAgree, Told

\* A document that is not shown is in no way there.
LEMMA NotShown ==
  ASSUME TypeOK', Held', NEW d \in Doc, view'[d].write = 0
  PROVE  view'[d] = Absent
<1>1. view'[d] \in ViewDoc
  BY DEF TypeOK
<1>2. view'[d].local = FALSE
  BY <1>1 DEF Held, ViewDoc
<1>3. QED
  BY <1>1, <1>2 DEF ViewDoc, Absent

\* Every listener has the documents v after ApplyChanges.
LEMMA ToldChanges ==
  ASSUME IInv, TypeOK', Held', NEW v, NEW c, NEW s, ApplyChanges(v, c, s),
         onlineState' \in {onlineState, "Online"}
  PROVE  ListenersAgree'
<1> DEFINE initial == ShouldRaiseInitialEvent(v, FromCache(v, c, s), onlineState)
           visible == \E d \in Doc : ~SameData(view[d], v[d])
           event   == {l \in listening : IF l \in raised THEN visible ELSE initial}
<1>1. /\ view' = v /\ current' = c /\ synced' = s /\ listening' = listening
      /\ raised' = raised \cup event
      /\ shown' = [l \in Listener |-> IF l \in event THEN v ELSE shown[l]]
  BY DEF ApplyChanges
<1>2. SUFFICES ASSUME NEW l \in listening, NEW d \in Doc
               PROVE  IF l \in raised' THEN SameData(shown'[l][d], v[d])
                      ELSE view'[d] = Absent /\ FromCache(v, c, s)
                           /\ onlineState' # "Offline"
  BY SMTT(40), <1>1 DEF ListenersAgree, FromCache, LimboDocuments, SameData
<1>3. l \in Listener
  BY DEF IInv, TypeOK
<1>4. CASE l \in event
  <2>1. shown'[l] = v /\ l \in raised'
    BY <1>1, <1>3, <1>4
  <2>2. QED
    BY <2>1 DEF SameData
<1>5. CASE l \notin event /\ l \in raised
  <2>1. shown'[l] = shown[l] /\ l \in raised'
    BY <1>1, <1>3, <1>5
  <2>2. SameData(view[d], v[d])
    BY <1>5
  <2>3. SameData(shown[l][d], view[d])
    BY <1>5 DEF IInv, Safe, ListenersAgree
  <2>4. QED
    BY <2>1, <2>2, <2>3 DEF SameData
<1>6. CASE l \notin event /\ l \notin raised
  <2>1. l \notin raised' /\ ~initial
    BY <1>1, <1>6
  <2>2. /\ FromCache(v, c, s) /\ onlineState # "Offline"
        /\ v[d].write = 0
    BY <2>1 DEF ShouldRaiseInitialEvent
  <2>3. view'[d] = Absent
    BY <1>1, <2>2, NotShown
  <2>4. QED
    BY <2>1, <2>2, <2>3
<1>7. QED
  BY <1>4, <1>5, <1>6

LEMMA ListenersAgreeKept ==
  ASSUME IInv, [Next]_vars, TypeOK', Held'
  PROVE  ListenersAgree'
<1>1. /\ \A l \in listening, d \in Doc : Told(l, d)
      /\ listening \subseteq Listener /\ raised \subseteq listening
      /\ shown \in [Listener -> [Doc -> ViewDoc]]
  BY ListenersAgreeIs, TypeParts DEF IInv, Safe, EventTypes
<1>2. ASSUME UNCHANGED <<listening, raised, shown, view, current, synced>>,
             onlineState' \in {onlineState, "Online", "Unknown"}
      PROVE  ListenersAgree'
  BY <1>1, <1>2 DEF ListenersAgree, Told, FromCache, LimboDocuments, SameData
<1>3. CASE \E l \in Listener : Listen(l)
  <2>1. PICK l \in Listener : Listen(l)
    BY <1>3
  <2>2. /\ listening = {} /\ listening' = {l} /\ current' = FALSE
        /\ raised' = IF ShouldRaiseInitialEvent(view', TRUE, onlineState)
                     THEN {l} ELSE {}
        /\ shown' = [shown EXCEPT ![l] = view']
        /\ onlineState' = onlineState
    BY <2>1 DEF Listen
  <2>3. SUFFICES ASSUME NEW d \in Doc
                 PROVE  IF l \in raised' THEN SameData(shown'[l][d], view'[d])
                        ELSE view'[d] = Absent /\ onlineState' # "Offline"
    BY <2>2 DEF ListenersAgree, FromCache, SameData
  <2>4. CASE l \in raised'
    <3>1. shown'[l] = view'
      BY <1>1, <2>2
    <3>2. QED
      BY <2>4, <3>1 DEF SameData
  <2>5. CASE l \notin raised'
    <3>1. onlineState # "Offline" /\ view'[d].write = 0
      BY <2>2, <2>5 DEF ShouldRaiseInitialEvent
    <3>2. QED
      BY <2>2, <2>5, <3>1, NotShown
  <2>6. QED
    BY <2>4, <2>5
<1>4. CASE \E l \in Listener : AddQueryListener(l)
  <2>1. PICK l \in Listener : AddQueryListener(l)
    BY <1>4
  <2>2. /\ l \notin listening /\ listening' = listening \cup {l}
        /\ IF ShouldRaiseInitialEvent(view, FromCache(view, current, synced),
                                      onlineState)
           THEN /\ raised' = raised \cup {l}
                /\ shown' = [shown EXCEPT ![l] = view]
           ELSE UNCHANGED <<raised, shown>>
    BY <2>1 DEF AddQueryListener
  <2>3. UNCHANGED <<view, current, synced, onlineState>>
    BY <2>1, Frames
  <2>4. SUFFICES ASSUME NEW m \in listening', NEW d \in Doc
                 PROVE  IF m \in raised' THEN SameData(shown'[m][d], view[d])
                        ELSE view[d] = Absent /\ FromCache(view, current, synced)
                             /\ onlineState # "Offline"
    BY <2>3 DEF ListenersAgree, FromCache, LimboDocuments, SameData
  <2>5. CASE m # l
    <3>1. m \in listening /\ Told(m, d) /\ m \in Listener
      BY <1>1, <2>2, <2>5
    <3>2. (m \in raised' <=> m \in raised) /\ shown'[m] = shown[m]
      BY <1>1, <2>2, <2>5, <3>1
    <3>3. QED
      BY <3>1, <3>2 DEF Told
  <2>6. CASE m = l /\ ShouldRaiseInitialEvent(view, FromCache(view, current, synced),
                                              onlineState)
    <3>1. m \in raised' /\ shown'[m] = view
      BY <1>1, <2>2, <2>6
    <3>2. QED
      BY <3>1 DEF SameData
  <2>7. CASE m = l /\ ~ShouldRaiseInitialEvent(view, FromCache(view, current, synced),
                                               onlineState)
    <3>1. m \notin raised'
      BY <1>1, <2>2, <2>7
    <3>2. /\ view[d].write = 0 /\ FromCache(view, current, synced)
          /\ onlineState # "Offline"
      BY <2>7 DEF ShouldRaiseInitialEvent
    <3>3. view[d] = Absent
      BY <2>3, <3>2, NotShown
    <3>4. QED
      BY <3>1, <3>2, <3>3
  <2>8. QED
    BY <2>5, <2>6, <2>7
<1>5. CASE \/ \E d \in Doc : WriteMutations(d)
           \/ HandleSuccessfulWrite \/ HandleRejectedWrite
  <2>1. onlineState' = onlineState
    BY <1>5, Frames
  <2>2. CASE listening = {}
    <3>1. UNCHANGED <<listening, raised, shown, view, current, synced>>
      BY <1>5, <2>2 DEF WriteMutations, HandleSuccessfulWrite,
                        HandleRejectedWrite, queryView, events
    <3>2. QED
      BY <1>2, <2>1, <3>1
  <2>3. CASE listening # {}
    <3>1. \E v : ApplyChanges(v, current, synced)
      BY <1>5, <2>3 DEF WriteMutations, HandleSuccessfulWrite, HandleRejectedWrite
    <3>2. QED
      BY <2>1, <3>1, ToldChanges
  <2>4. QED
    BY <2>2, <2>3
<1>6. CASE RaiseWatchSnapshot
  <2>1. onlineState' = "Online"
    BY <1>6 DEF RaiseWatchSnapshot, Receive
  <2>2. CASE sent < lastRemoteSnapshotVersion
    <3>1. UNCHANGED <<listening, raised, shown, view, current, synced>>
      BY <1>6, <2>2, Snapshot DEF queryView, events
    <3>2. QED
      BY <1>2, <2>1, <3>1
  <2>3. CASE ~(sent < lastRemoteSnapshotVersion)
    BY <1>6, <2>1, <2>3, Snapshot, ToldChanges
  <2>4. QED
    BY <2>2, <2>3
<1>7. CASE OnlineStateTimeout \/ OnWatchStreamClose
  <2>1. PICK state \in {"Offline", "Unknown"} : SetAndBroadcast(state)
    BY <1>7 DEF OnlineStateTimeout, OnWatchStreamClose
  <2>2. CASE state = "Unknown"
    BY <1>2, <2>1, <2>2 DEF SetAndBroadcast
  <2>3. CASE state = "Offline"
    <3>1. /\ raised' = listening /\ UNCHANGED <<view, synced, listening>>
          /\ shown' = [l \in Listener |->
                         IF l \in listening \ raised THEN view ELSE shown[l]]
      BY <2>1, <2>3 DEF SetAndBroadcast
    <3>2. SUFFICES ASSUME NEW l \in listening, NEW d \in Doc
                   PROVE  SameData(shown'[l][d], view[d])
      BY <3>1 DEF ListenersAgree, SameData
    <3>3. CASE l \in raised
      <4>1. shown'[l] = shown[l] /\ Told(l, d)
        BY <1>1, <3>1, <3>3
      <4>2. QED
        BY <3>3, <4>1 DEF Told
    <3>4. CASE l \notin raised
      <4>1. shown'[l] = view
        BY <1>1, <3>1, <3>4
      <4>2. QED
        BY <4>1 DEF SameData
    <3>5. QED
      BY <3>3, <3>4
  <2>4. QED
    BY <2>2, <2>3
<1>8. CASE TargetAdded \/ HandleDocumentChange \/ TargetCurrent
  <2>1. onlineState' = "Online"
    BY <1>8 DEF TargetAdded, HandleDocumentChange, TargetCurrent, Receive
  <2>2. UNCHANGED <<listening, raised, shown, view, current, synced>>
    BY <1>8, Frames
  <2>3. QED
    BY <1>2, <2>1, <2>2
<1>9. CASE Crash
  <2>1. listening' = {}
    BY <1>9 DEF Crash
  <2>2. QED
    BY <2>1 DEF ListenersAgree
<1>10. CASE UNCHANGED <<listening, raised, shown, view, current, synced, onlineState>>
  BY <1>2, <1>10
<1>11. CASE UNCHANGED vars
  BY <1>10, <1>11 DEF vars, queryView, events, online
<1>12. QED
  BY <1>3, <1>4, <1>5, <1>6, <1>7, <1>8, <1>9, <1>10, <1>11, Frames
     DEF Next, Backend, Client, Fault, OnWatchStreamChange

-----------------------------------------------------------------------------
(* The invariant is inductive.                                             *)

LEMMA Initial ==
  ASSUME Init
  PROVE  IInv
<1> USE MaxVersionsAssumption, MaxWritesAssumption
<1> DEFINE first == [doc |-> Outside, write |-> 0]
<1>1. history = <<first>> /\ first \in Stored
  BY DEF Init, Stored, Write
<1>2. /\ history \in Seq(Stored) /\ Len(history) = 1 /\ history[1] = first
  BY <1>1
<1>3. /\ queue = <<>> /\ applied = <<>> /\ inbox = <<>>
      /\ Len(queue) = 0 /\ Len(applied) = 0 /\ Len(inbox) = 0
  BY EmptySeq DEF Init
<1>4. /\ \A i \in 1 .. Len(queue) : FALSE
      /\ \A i \in 1 .. Len(applied) : FALSE
      /\ \A i \in 1 .. Len(inbox) : FALSE
      /\ \A n \in 1 .. Len(history) : n = 1
  BY <1>2, <1>3
<1>5. first.doc = Outside /\ first.write = 0
  OBVIOUS
<1> HIDE DEF first
<1>6. TypeOK
  <2>1. /\ 0 \in Version /\ Absent \in ViewDoc
        /\ [version |-> 0, committed |-> FALSE] \in Cached
    BY DEF Version, Cached, ViewDoc, Absent, Write
  <2>2. BackendTypes
    BY <1>2 DEF Init, BackendTypes, Write
  <2>3. CacheTypes
    BY <2>1 DEF Init, CacheTypes
  <2>4. QueueTypes
    BY <1>3 DEF Init, QueueTypes
  <2>5. ViewTypes
    BY <2>1 DEF Init, ViewTypes
  <2>6. EventTypes
    <3>1. [d \in Doc |-> Absent] \in [Doc -> ViewDoc]
      BY <2>1
    <3>2. /\ listening = {} /\ raised = {}
          /\ shown = [l \in Listener |-> [d \in Doc |-> Absent]]
      BY DEF Init
    <3>3. QED
      BY <3>1, <3>2 DEF EventTypes
  <2>7. OnlineTypes
    <3>1. timer \in BOOLEAN
      BY Zenon DEF Init
    <3>2. QED
      BY <3>1 DEF Init, OnlineTypes
  <2>8. StreamTypes
    <3>1. marked \in BOOLEAN
      BY Zenon DEF Init
    <3>2. updates \in [Doc -> Version]
      BY <2>1 DEF Init
    <3>3. inbox \in Seq(Message)
      BY <1>3
    <3>4. /\ watch \in {"Initial", "Starting", "Open"} /\ pending \in 0 .. 1
          /\ target \in {"none", "requested", "added", "current"}
          /\ sent \in Version
      BY <2>1 DEF Init
    <3>5. QED
      BY <3>1, <3>2, <3>3, <3>4 DEF StreamTypes
  <2>9. QED
    BY <2>2, <2>3, <2>4, <2>5, <2>6, <2>7, <2>8, TypeParts
<1>7. Bounds
  BY <1>2, <1>3 DEF Init, Bounds
<1>8. VersionsOfDocs
  BY <1>4 DEF Init, VersionsOfDocs, IsVersionOf
<1>9. StreamShape /\ InboxShape
  <2>1. \A i \in 2 .. Len(inbox) : FALSE
    BY <1>3
  <2>2. QED
    BY <1>3, <1>4, <2>1 DEF Init, StreamShape, InboxShape
<1>10. Coverage
  <2>1. \A d \in Doc : d # Outside
    BY OutsideAssumption
  <2>2. QED
    BY <1>2, <1>4, <1>5, <2>1 DEF Coverage
<1>11. Writes
  <2>1. issued = 0
    BY DEF Init
  <2>2. QED
    BY <1>2, <1>4, <1>5, <2>1 DEF Writes
<1>12. AppliedLast
  BY <1>4 DEF AppliedLast
<1>13. RepeatedIsKnown
  <2>1. \A n, m \in 1 .. Len(history) : ~(n < m)
    BY <1>2
  <2>2. QED
    BY <2>1 DEF RepeatedIsKnown
<1>14. Held
  BY DEF Init, Held, Absent
<1>15. ViewIsLocal /\ ListenersAgree
  BY DEF Init, ViewIsLocal, ListenersAgree
<1>16. QED
  BY <1>6, <1>7, <1>8, <1>9, <1>10, <1>11, <1>12, <1>13, <1>14, <1>15 DEF IInv, Safe

LEMMA Inductive ==
  ASSUME IInv, [Next]_vars
  PROVE  IInv'
<1>1. TypeOK'
  BY TypesKept
<1>2. /\ Bounds' /\ VersionsOfDocs' /\ StreamShape' /\ InboxShape'
      /\ Coverage' /\ Writes'
  BY <1>1, BoundsKept, VersionsOfDocsKept, StreamShapeKept, InboxShapeKept,
     CoverageKept, WritesKept
<1>3. AppliedLast' /\ RepeatedIsKnown' /\ Held'
  BY <1>1, <1>2, AppliedLastKept, RepeatedIsKnownKept, HeldKept
<1>4. ViewIsLocal' /\ ListenersAgree'
  BY <1>1, <1>3, ViewIsLocalKept, ListenersAgreeKept
<1>5. QED
  BY <1>1, <1>2, <1>3, <1>4 DEF IInv, Safe

LEMMA Invariance == Spec => []IInv
<1>1. Init => IInv
  BY Initial
<1>2. IInv /\ [Next]_vars => IInv'
  BY Inductive
<1>3. QED
  BY <1>1, <1>2, PTL DEF Spec

\* The cache is never behind the last snapshot.
LEMMA CacheIsPast ==
  ASSUME IInv
  PROVE  CacheHoldsSnapshot
<1>1. SUFFICES ASSUME NEW d \in Doc
               PROVE  /\ cache[d].version >= VersionOf(d, lastRemoteSnapshotVersion)
                      /\ cache[d].version # 0 =>
                           history[cache[d].version].doc = d
  BY DEF CacheHoldsSnapshot
<1> DEFINE v == lastRemoteSnapshotVersion
           n == VersionOf(d, v)
<1>2. history \in Seq(Stored) /\ v \in 0 .. Len(history)
  BY TypeParts, Ranges DEF IInv, Safe, Bounds, BackendTypes
<1>3. n \in 0 .. v /\ (n # 0 => history[n].doc = d)
  BY <1>2, VersionOfIs
<1>4. n # 0 => n \in 1 .. Len(history) /\ n <= v
  BY <1>2, <1>3, Ranges DEF IInv
<1>5. n # 0 => n <= cache[d].version
  BY <1>3, <1>4 DEF IInv, Safe, Coverage
<1>6. cache[d].version \in Nat /\ n \in Nat
  BY <1>2, <1>3, Ranges DEF IInv
<1> HIDE DEF n
<1>7. cache[d].version >= n
  BY <1>5, <1>6
<1>8. cache[d].version # 0 => history[cache[d].version].doc = d
  BY DEF IInv, Safe, VersionsOfDocs, IsVersionOf
<1>9. QED
  BY <1>7, <1>8 DEF n

-----------------------------------------------------------------------------
(* The theorems.                                                           *)

\* Every variable of the listeners' client keeps its type: nothing it counts
\* runs past its bound, and no listener has an event before it was added.
THEOREM TypeCorrect == Spec => []TypeOK
<1>1. IInv => TypeOK
  BY DEF IInv
<1>2. QED
  BY <1>1, Invariance, PTL

\* No version up to the last snapshot is missing in the cache or undone in it,
\* whatever is cut off, raced or resumed.
THEOREM CacheCorrect == Spec => []CacheHoldsSnapshot
<1>1. IInv => CacheHoldsSnapshot
  BY CacheIsPast
<1>2. QED
  BY <1>1, Invariance, PTL

\* The view that is kept up to date change by change is the one a new query of
\* the disk would make, but for documents whose write waits to be sent back.
THEOREM ViewCorrect == Spec => []ViewIsLocal
<1>1. IInv => ViewIsLocal
  BY DEF IInv, Safe
<1>2. QED
  BY <1>1, Invariance, PTL

\* The listeners of the query have been told the same, at any time.
THEOREM ListenersCorrect == Spec => []ListenersAgree
<1>1. IInv => ListenersAgree
  BY DEF IInv, Safe
<1>2. QED
  BY <1>1, Invariance, PTL

-----------------------------------------------------------------------------
(* No listener goes back.                                                  *)

\* Where the write w of d stands in the versions h and the queue q.
Position(h, q, d, w) ==
  Max({0} \cup {n \in 1 .. Len(h) : h[n].doc = d /\ h[n].write = w}
          \cup {MaxVersions + i : i \in {j \in 1 .. Len(q) : q[j].write = w}})

LEMMA PositionIs ==
  ASSUME NEW h \in Seq(Stored), Len(h) <= MaxVersions, NEW q \in Seq(Queued),
         NEW d, NEW w
  PROVE  LET p == Position(h, q, d, w)
         IN  /\ p \in Nat
             /\ \/ p = 0
                \/ p \in 1 .. Len(h) /\ h[p].doc = d /\ h[p].write = w
                \/ \E i \in 1 .. Len(q) : q[i].write = w /\ p = MaxVersions + i
             /\ \A n \in 1 .. Len(h) : h[n].doc = d /\ h[n].write = w => n <= p
             /\ \A i \in 1 .. Len(q) : q[i].write = w => MaxVersions + i <= p
<1> DEFINE A == {n \in 1 .. Len(h) : h[n].doc = d /\ h[n].write = w}
           B == {j \in 1 .. Len(q) : q[j].write = w}
           S == {0} \cup A \cup {MaxVersions + i : i \in B}
           b == MaxVersions + Len(q)
<1>1. MaxVersions \in Nat /\ Len(h) \in Nat /\ Len(q) \in Nat
  BY MaxVersionsAssumption, LenProperties
<1>2. b \in Nat /\ Len(h) <= b
  BY <1>1
<1>3. \A i \in B : MaxVersions + i \in 0 .. b
  BY <1>1
<1>4. \A n \in A : n \in 0 .. b
  BY <1>1, <1>2
<1>5. 0 \in 0 .. b
  BY <1>2
<1>6. Position(h, q, d, w) = Max(S)
  BY DEF Position
<1>7. /\ \A x \in S : x = 0 \/ x \in A \/ \E i \in B : x = MaxVersions + i
      /\ \A x \in A : x \in S
      /\ \A i \in B : MaxVersions + i \in S
      /\ S # {}
  OBVIOUS
<1>8. S \in SUBSET (0 .. b)
  BY <1>3, <1>4, <1>5
<1> HIDE DEF S, b
<1>9. Max(S) \in S /\ \A y \in S : y <= Max(S)
  BY <1>2, <1>7, <1>8, MaxOf
<1>10. Max(S) \in Nat
  <2>1. Max(S) \in 0 .. b
    BY <1>8, <1>9
  <2>2. QED
    BY <1>2, <2>1
<1>11. QED
  BY <1>6, <1>7, <1>9, <1>10

\* Where the write of a document in the view stands when another one replaces
\* it: not in the queue for another document.
LEMMA OldInQueue ==
  ASSUME IInv, [Next]_vars, TypeOK', Writes', NEW d \in Doc, listening # {}
  PROVE  \A i \in 1 .. Len(queue') :
           queue'[i].write = view[d].write => queue'[i].doc = d
<1>1. CASE view[d].local
  BY <1>1, HeldQueue
<1>2. CASE ~view[d].local
  <2> DEFINE c == cache[d].version
  <2>1. view[d] = LocalOf(history, d, queue, cache)
    BY <1>2, LocalDocIs DEF IInv, Safe, ViewIsLocal
  <2>2. d \notin Pending(queue)
    BY <1>2, <2>1, LocalFields
  <2>3. CASE c = 0
    <3>1. view[d].write = 0
      BY <2>1, <2>2, <2>3, LocalFields
    <3>2. QED
      BY <3>1 DEF Writes
  <2>4. CASE c # 0
    <3>1. view[d].write = history[c].write
      BY <2>1, <2>2, <2>4, LocalFields
    <3>2. c \in 1 .. Len(history) /\ history[c].doc = d
      BY SMTT(40), <2>4, Ranges DEF IInv, Safe, VersionsOfDocs, IsVersionOf
    <3>3. c \in 1 .. Len(history') /\ history'[c] = history[c]
      BY <3>2, VersionsStay
    <3>4. \A i \in 1 .. Len(queue') :
            history'[c].write = queue'[i].write => history'[c].doc = queue'[i].doc
      BY <3>3 DEF Writes
    <3>5. QED
      BY <3>1, <3>2, <3>3, <3>4
  <2>5. QED
    BY <2>3, <2>4
<1>3. QED
  BY <1>1, <1>2

\* A write of the view that is neither queued nor refused is not past the
\* cache.
LEMMA OldInBackend ==
  ASSUME IInv, [Next]_vars, IInv', NEW d \in Doc, listening # {},
         d \notin Pending(queue'), view[d].write \notin refused'
  PROVE  /\ \A n \in 1 .. Len(history') :
              history'[n].doc = d /\ history'[n].write = view[d].write =>
                n <= cache'[d].version
         /\ cache'[d].version = 0 => view[d].write = 0
<1> DEFINE c == cache[d].version
           w == view[d].write
<1>1. TypeOK' /\ Writes' /\ RepeatedIsKnown'
  BY DEF IInv, Safe
<1>2. c <= cache'[d].version /\ c \in Nat /\ cache'[d].version \in Nat
  <2>1. cache' \in [Doc -> Cached]
    BY CacheTypesKept DEF CacheTypes
  <2>2. cache'[d] \in Cached
    BY <2>1
  <2>3. cache'[d].version \in Nat
    BY <2>2 DEF Cached, Version
  <2>4. QED
    BY <2>3, CacheGrows, Ranges DEF IInv
<1>3. CASE view[d].local
  BY <1>1, <1>3, HeldWrite
<1>4. CASE ~view[d].local
  <2>1. view[d] = LocalOf(history, d, queue, cache)
    BY <1>4, LocalDocIs DEF IInv, Safe, ViewIsLocal
  <2>2. d \notin Pending(queue)
    BY <1>4, <2>1, LocalFields
  <2>3. CASE c = 0
    <3>1. w = 0
      BY <2>1, <2>2, <2>3, LocalFields
    <3>2. \A n \in 1 .. Len(history') : history'[n].write = 0 => history'[n].doc # d
      BY <1>1, OutsideAssumption DEF Writes
    <3>3. QED
      BY <3>1, <3>2
  <2>4. CASE c # 0
    <3>1. w = history[c].write
      BY <2>1, <2>2, <2>4, LocalFields
    <3>2. c \in 1 .. Len(history) /\ history[c].doc = d
      BY SMTT(40), <2>4, Ranges DEF IInv, Safe, VersionsOfDocs, IsVersionOf
    <3>3. /\ c \in 1 .. Len(history') /\ history'[c].write = w
          /\ history'[c].doc = d
      BY <1>1, <3>1, <3>2, VersionsStay
    <3>4. ~Among(queue', w)
      <4>1. \A i \in 1 .. Len(queue') : queue'[i].write = w => queue'[i].doc = d
        BY <1>1, OldInQueue
      <4>2. QED
        BY <4>1 DEF Among, Pending
    <3>5. ASSUME NEW n \in 1 .. Len(history'), history'[n].write = w
          PROVE  n <= cache'[d].version
      <4>1. n \in Nat
        BY <1>1 DEF TypeOK
      <4>2. CASE c < n
        BY <3>3, <3>4, <3>5, <4>2, <1>1 DEF RepeatedIsKnown
      <4>3. CASE ~(c < n)
        BY <1>2, <4>1, <4>3
      <4>4. QED
        BY <4>2, <4>3
    <3>6. cache'[d].version # 0
      BY <1>2, <2>4
    <3>7. QED
      BY <3>5, <3>6
  <2>5. QED
    BY <2>3, <2>4
<1>5. QED
  BY <1>3, <1>4

\* A document of the view is only replaced by a later write, or after a refusal.
LEMMA ViewForward ==
  ASSUME IInv, [Next]_vars, IInv', NEW d \in Doc, listening # {}, listening' # {},
         view'[d].write # view[d].write, view[d].write \notin refused'
  PROVE  Position(history', queue', d, view'[d].write)
           > Position(history', queue', d, view[d].write)
<1> DEFINE old == view[d].write
           new == view'[d].write
           p == Position(history', queue', d, old)
           r == Position(history', queue', d, new)
           c == cache'[d].version
<1>1. /\ history' \in Seq(Stored) /\ Len(history') <= MaxVersions
      /\ queue' \in Seq(Queued) /\ MaxVersions \in Nat
      /\ cache' \in [Doc -> Cached]
      /\ TypeOK' /\ Writes' /\ VersionsOfDocs'
      /\ Len(history') \in Nat /\ Len(queue') \in Nat
  BY BackendTypesKept, QueueTypesKept, CacheTypesKept, MaxVersionsAssumption,
     LenProperties
     DEF BackendTypes, QueueTypes, CacheTypes, IInv, Safe
<1>2. /\ p \in Nat
      /\ \/ p = 0
         \/ p \in 1 .. Len(history') /\ history'[p].doc = d /\ history'[p].write = old
         \/ \E i \in 1 .. Len(queue') :
              queue'[i].write = old /\ p = MaxVersions + i
  BY <1>1, PositionIs
<1>3. /\ r \in Nat
      /\ \A n \in 1 .. Len(history') :
           history'[n].doc = d /\ history'[n].write = new => n <= r
      /\ \A i \in 1 .. Len(queue') :
           queue'[i].write = new => MaxVersions + i <= r
  BY <1>1, PositionIs
<1>4. view'[d] = LocalOf(history', d, queue', cache')
  BY ViewChanges DEF Recomputed, KeptBack, Untouched
<1>5. \A i \in 1 .. Len(queue') : queue'[i].write = old => queue'[i].doc = d
  BY <1>1, OldInQueue
<1> HIDE DEF p, r
<1>6. CASE d \in Pending(queue')
  <2> DEFINE k == LastFor(queue', d)
  <2>1. /\ k \in 1 .. Len(queue') /\ queue'[k].doc = d
        /\ \A i \in 1 .. Len(queue') : queue'[i].doc = d => i <= k
    BY <1>1, <1>6, LastForIs
  <2>2. queue'[k].write = new
    BY <1>4, <1>6, LocalFields
  <2> HIDE DEF k
  <2>3. MaxVersions + k <= r
    BY <1>3, <2>1, <2>2
  <2>4. p < MaxVersions + k
    <3>1. CASE \E i \in 1 .. Len(queue') :
                 queue'[i].write = old /\ p = MaxVersions + i
      <4>1. PICK i \in 1 .. Len(queue') : queue'[i].write = old /\ p = MaxVersions + i
        BY <3>1
      <4>2. i <= k /\ i # k
        BY <1>5, <2>1, <2>2, <4>1
      <4>3. QED
        BY <1>1, <2>1, <4>1, <4>2
    <3>2. CASE p = 0 \/ p \in 1 .. Len(history')
      BY <1>1, <2>1, <3>2
    <3>3. QED
      BY <1>2, <3>1, <3>2
  <2>5. QED
    BY <1>1, <1>2, <1>3, <2>1, <2>3, <2>4 DEF p, r
<1>7. CASE d \notin Pending(queue')
  <2>1. /\ \A n \in 1 .. Len(history') :
             history'[n].doc = d /\ history'[n].write = old => n <= c
        /\ c = 0 => old = 0
    BY <1>7, OldInBackend
  <2>2. /\ c # 0 => new = history'[c].write
        /\ c = 0 => new = 0
    BY <1>4, <1>7, LocalFields
  <2>3. c # 0
    BY <2>1, <2>2
  <2>4. c \in 1 .. Len(history') /\ history'[c].doc = d
    <3>1. cache'[d] \in Cached
      BY <1>1
    <3>2. c \in Nat
      BY <3>1 DEF Cached, Version
    <3>3. c <= Len(history') /\ history'[c].doc = d
      BY <1>1, <2>3 DEF VersionsOfDocs, IsVersionOf
    <3>4. QED
      BY <1>1, <2>3, <3>2, <3>3
  <2> HIDE DEF c
  <2>5. c <= r
    BY <1>3, <2>2, <2>3, <2>4
  <2>6. p < c
    <3>1. CASE p = 0
      BY <2>4, <3>1
    <3>2. CASE p \in 1 .. Len(history') /\ history'[p].doc = d /\ history'[p].write = old
      <4>1. p <= c /\ p # c
        BY <2>1, <2>2, <2>3, <3>2
      <4>2. QED
        BY <1>2, <2>4, <4>1
    <3>3. CASE \E i \in 1 .. Len(queue') : queue'[i].write = old
      BY <1>5, <1>7, <3>3 DEF Pending
    <3>4. QED
      BY <1>2, <3>1, <3>2, <3>3
  <2>7. QED
    BY <1>1, <1>2, <1>3, <2>4, <2>5, <2>6 DEF p, r
<1>8. QED
  BY <1>6, <1>7

LEMMA StepForward ==
  ASSUME IInv, [Next]_vars, IInv',
         NEW l \in raised \cap raised', NEW d \in Doc,
         shown'[l][d].write # shown[l][d].write,
         shown[l][d].write \notin refused'
  PROVE  NextPosition(d, shown'[l][d].write) > NextPosition(d, shown[l][d].write)
<1>1. l \in listening /\ l \in listening'
  BY DEF IInv, TypeOK
<1>2. shown[l][d].write = view[d].write
  BY <1>1 DEF IInv, Safe, ListenersAgree, SameData
<1>3. shown'[l][d].write = view'[d].write
  BY <1>1 DEF IInv, Safe, ListenersAgree, SameData
<1>4. Position(history', queue', d, view'[d].write)
        > Position(history', queue', d, view[d].write)
  BY <1>1, <1>2, <1>3, ViewForward
<1>5. \A w : NextPosition(d, w) = Position(history', queue', d, w)
  BY DEF NextPosition, Position
<1>6. QED
  BY <1>2, <1>3, <1>4, <1>5

\* Whatever races the acknowledgement, the watch stream and the writes of other
\* devices run, no listener is shown an older write after a newer one, unless
\* the newer was refused.
THEOREM NeverShownOlder == Spec => NeverBack
<1> DEFINE Forward ==
      \A l \in raised \cap raised', d \in Doc :
        LET old == shown[l][d].write
            new == shown'[l][d].write
        IN  new # old /\ old \notin refused'
              => NextPosition(d, new) > NextPosition(d, old)
<1>1. IInv /\ [Next]_vars /\ IInv' => Forward
  BY StepForward
<1>2. IInv /\ [Next]_vars => [Forward]_vars
  BY <1>1, Inductive
<1>3. NeverBack <=> [][Forward]_vars
  BY DEF NeverBack
<1> HIDE DEF Forward
<1>4. QED
  BY <1>2, <1>3, Invariance, PTL DEF Spec
=============================================================================
