--------------------------- MODULE DirectoryProofs ---------------------------
(***************************************************************************)
(* Proofs about Directory: the entries that the buttons write keep their   *)
(* friend and stay mutual, and the loads of a manager end with the friends *)
(* of the directory in its table, for every set of users, of managers and  *)
(* of identifiers, and every bound.                                        *)
(***************************************************************************)
EXTENDS Directory, SequenceTheorems, FiniteSetTheorems, TLAPS

Reference == [owner : User, by : User]

Item == [id : EntryId, friendId : User]

Positions(u) == 1 .. Len(outbox[u])

DocumentTypes ==
  /\ entry \in [EntryId -> Reference \cup {NoEntry}]
  /\ stored \in [EntryId -> Document \cup {NoEntry}]
  /\ outbox \in [User -> Seq(Write)]
  /\ directory \in [User -> Seq(Item)]

\* What the backend, a queued write or a loaded item says the friend of e is.
Names(e, f) ==
  \/ stored[e] # NoEntry /\ stored[e].friendId = f
  \/ \E u \in User : \E i \in Positions(u) :
       outbox[u][i].id = e /\ outbox[u][i].friendId = f
  \/ \E u \in User : \E k \in 1 .. Len(directory[u]) :
       directory[u][k].id = e /\ directory[u][k].friendId = f

\* They never disagree, and are only about identifiers that were taken.
Agreed ==
  \A e \in EntryId : \A f \in User :
    Names(e, f) => /\ entry[e] # NoEntry
                   /\ \A g \in User : Names(e, g) => f = g

\* The write that makes an entry is queued where the entry was taken, before
\* everything else that is said of it.
Fresh ==
  \A u \in User : \A i \in Positions(u) :
    LET e == outbox[u][i].id
    IN  ~outbox[u][i].isDeleted =>
          /\ stored[e] = NoEntry
          /\ entry[e].by = u
          /\ \A v \in User : \A j \in Positions(v) :
               outbox[v][j].id = e => v = u /\ i <= j
          /\ \A v \in User \ {u} : \A k \in 1 .. Len(directory[v]) :
               directory[v][k].id # e

Given(e) == entry[e].owner # entry[e].by

\* own is the entry of the user who has given e, and names the one it was
\* given to.
Partner(own, f, e) ==
  /\ entry[own] = [owner |-> entry[e].by, by |-> entry[e].by]
  /\ f = entry[e].owner

PartnerStored(e) ==
  \E own \in EntryId :
    stored[own] # NoEntry /\ Partner(own, stored[own].friendId, e)

PartnerAhead(u, i, e) ==
  \E j \in 1 .. i - 1 : Partner(outbox[u][j].id, outbox[u][j].friendId, e)

\* What is said of a given entry comes after its partner: in the backend, or
\* on the giver's device.
QueueMutual ==
  \A u \in User : \A i \in Positions(u) :
    LET e == outbox[u][i].id
    IN  Given(e) => \/ PartnerStored(e)
                    \/ entry[e].by = u /\ PartnerAhead(u, i, e)

DirectoryMutual ==
  \A u \in User : \A k \in 1 .. Len(directory[u]) :
    LET e == directory[u][k].id
    IN  entry[e].owner = u /\ (Given(e) => PartnerStored(e))

DInv ==
  /\ DocumentTypes /\ Agreed /\ Fresh
  /\ QueueMutual /\ DirectoryMutual /\ EntriesAreMutual

-----------------------------------------------------------------------------
(* Facts about sequences and numbers.                                      *)

\* Numbers have a smallest one.
LEMMA SmallestOf ==
  ASSUME NEW T \in SUBSET Nat, T # {}
  PROVE  \E x \in T : \A y \in T : ~(y < x)
<1> DEFINE less == {ss \in Nat \X Nat : ss[1] < ss[2]}
<1>1. IsWellFoundedOn(less, Nat)
  BY NatLessThanWellFounded, Zenon DEF OpToRel
<1>2. \A x, y \in Nat : <<y, x>> \in less <=> y < x
  OBVIOUS
<1> HIDE DEF less
<1>3. \E x \in T : \A y \in T : ~(<<y, x>> \in less)
  BY <1>1, WFMin, Zenon
<1>4. QED
  BY <1>2, <1>3

\* A set of positions has a last one.
LEMMA MaxIsIn ==
  ASSUME NEW n \in Nat, NEW S \in SUBSET (1 .. n), S # {}
  PROVE  Max(S) \in S
<1> DEFINE back == {n - i : i \in S}
<1>1. back \subseteq Nat /\ back # {}
  <2>1. \A i \in S : n - i \in Nat
    OBVIOUS
  <2>2. QED
    BY <2>1
<1> HIDE DEF back
<1>2. PICK x \in back : \A y \in back : ~(y < x)
  BY <1>1, SmallestOf
<1>3. PICK i \in S : x = n - i
  BY DEF back
<1>4. \A j \in S : i >= j
  <2>1. SUFFICES ASSUME NEW j \in S PROVE i >= j
    OBVIOUS
  <2>2. ~(n - j < n - i)
    BY <1>2, <1>3 DEF back
  <2>3. QED
    BY <2>2
<1>5. QED
  BY <1>4 DEF Max

LEMMA Ranges ==
  ASSUME DocumentTypes
  PROVE  /\ \A u \in User :
              /\ outbox[u] \in Seq(Write) /\ Len(outbox[u]) \in Nat
              /\ DOMAIN outbox[u] = 1 .. Len(outbox[u])
              /\ directory[u] \in Seq(Item) /\ Len(directory[u]) \in Nat
              /\ DOMAIN directory[u] = 1 .. Len(directory[u])
         /\ \A u \in User : \A i \in 1 .. Len(outbox[u]) :
              /\ outbox[u][i] \in Write
              /\ outbox[u][i].id \in EntryId /\ outbox[u][i].friendId \in User
              /\ outbox[u][i].isDeleted \in BOOLEAN
         /\ \A u \in User : \A k \in 1 .. Len(directory[u]) :
              /\ directory[u][k] \in Item
              /\ directory[u][k].id \in EntryId /\ directory[u][k].friendId \in User
         /\ \A e \in EntryId : stored[e] # NoEntry =>
              /\ stored[e] \in Document
              /\ stored[e].friendId \in User /\ stored[e].isDeleted \in BOOLEAN
<1>1. \A u \in User : outbox[u] \in Seq(Write) /\ directory[u] \in Seq(Item)
  BY DEF DocumentTypes
<1>2. /\ \A u \in User : \A i \in 1 .. Len(outbox[u]) : outbox[u][i] \in Write
      /\ \A u \in User : \A k \in 1 .. Len(directory[u]) : directory[u][k] \in Item
  BY <1>1, ElementOfSeq
<1>3. \A w \in Write : w.id \in EntryId /\ w.friendId \in User /\ w.isDeleted \in BOOLEAN
  BY DEF Write
<1>4. \A d \in Item : d.id \in EntryId /\ d.friendId \in User
  BY DEF Item
<1>5. \A e \in EntryId : stored[e] # NoEntry => stored[e] \in Document
  BY DEF DocumentTypes
<1>6. \A d \in Document : d.friendId \in User /\ d.isDeleted \in BOOLEAN
  BY DEF Document
<1>7. QED
  BY <1>1, <1>2, <1>3, <1>4, <1>5, <1>6, LenProperties

\* What a device knows of an entry was stored or queued there.
LEMMA LocalIs ==
  ASSUME DocumentTypes, NEW u \in User, NEW e \in EntryId, Local(u, e) # NoEntry
  PROVE  \/ stored[e] # NoEntry /\ Local(u, e) = stored[e]
         \/ \E i \in Positions(u) :
              outbox[u][i].id = e /\ Local(u, e).friendId = outbox[u][i].friendId
<1> DEFINE own == {i \in DOMAIN outbox[u] : outbox[u][i].id = e}
<1>1. CASE own = {}
  BY <1>1 DEF Local
<1>2. CASE own # {}
  <2>1. Len(outbox[u]) \in Nat /\ own \in SUBSET (1 .. Len(outbox[u]))
    BY Ranges
  <2>2. Max(own) \in own
    BY <1>2, <2>1, MaxIsIn
  <2>3. Local(u, e) = [friendId |-> outbox[u][Max(own)].friendId,
                       isDeleted |-> outbox[u][Max(own)].isDeleted]
    BY <1>2 DEF Local
  <2>4. PICK i : i = Max(own)
    OBVIOUS
  <2>5. i \in Positions(u) /\ outbox[u][i].id = e
    BY <2>1, <2>2, <2>4 DEF Positions
  <2> HIDE DEF own
  <2>6. Local(u, e).friendId = outbox[u][i].friendId
    BY <2>3, <2>4
  <2>7. QED
    BY <2>5, <2>6
<1>3. QED
  BY <1>1, <1>2

-----------------------------------------------------------------------------
(* Steps that queue writes or lose them, and clear what was loaded.        *)

\* The write i that u has queued now is the removal of a loaded item.
Removing(u, i) ==
  \E k \in 1 .. Len(directory[u]) :
    /\ outbox'[u][i].id = directory[u][k].id
    /\ outbox'[u][i].friendId = directory[u][k].friendId
    /\ outbox'[u][i].isDeleted

\* It makes the entry e, of the friend f.
Making(u, i, e, f) ==
  /\ outbox'[u][i].id = e
  /\ outbox'[u][i].friendId = f
  /\ ~outbox'[u][i].isDeleted

\* u adds c, with the entries own and other, of which the write p and the one
\* after it are the first ones.
Adds(u, c, own, other, p) ==
  /\ c \in User \ {u} /\ p \in Nat /\ Len(outbox[u]) < p
  /\ own \in EntryId /\ other \in EntryId /\ own # other
  /\ entry[own] = NoEntry /\ entry[other] = NoEntry
  /\ entry' = [entry EXCEPT ![own] = [owner |-> u, by |-> u],
                            ![other] = [owner |-> c, by |-> u]]

Writing(u, c, own, other, p) ==
  /\ stored' = stored
  /\ entry' = entry \/ Adds(u, c, own, other, p)
  /\ \A v \in User \ {u} : outbox'[v] = outbox[v]
  /\ \A i \in 1 .. Len(outbox'[u]) :
       /\ i <= Len(outbox[u]) => outbox'[u][i] = outbox[u][i]
       /\ i > Len(outbox[u]) =>
            \/ Removing(u, i)
            \/ /\ Adds(u, c, own, other, p)
               /\ \/ i = p /\ Making(u, i, own, c)
                  \/ i = p + 1 /\ Making(u, i, other, u) /\ Making(u, p, own, c)
  /\ \A v \in User : directory'[v] = directory[v] \/ Len(directory'[v]) = 0

\* EntriesAreMutual in these terms.
MutualEntries ==
  \A e \in EntryId : stored[e] # NoEntry /\ Given(e) => PartnerStored(e)

LEMMA MutualMeans == EntriesAreMutual <=> MutualEntries
  BY DEF EntriesAreMutual, MutualEntries, Given, PartnerStored, Partner

LEMMA MutualMeansNext == MutualEntries' => EntriesAreMutual'
  BY DEF EntriesAreMutual, MutualEntries, Given, PartnerStored, Partner

LEMMA KnownEntries ==
  ASSUME DInv
  PROVE  /\ \A e \in EntryId : stored[e] # NoEntry => entry[e] # NoEntry
         /\ \A u \in User : \A i \in Positions(u) : entry[outbox[u][i].id] # NoEntry
         /\ \A u \in User : \A k \in 1 .. Len(directory[u]) :
              entry[directory[u][k].id] # NoEntry
<1>1. DocumentTypes /\ Agreed
  BY DEF DInv
<1>2. ASSUME NEW e \in EntryId, stored[e] # NoEntry PROVE entry[e] # NoEntry
  BY <1>1, <1>2, Ranges DEF Agreed, Names
<1>3. ASSUME NEW u \in User, NEW i \in Positions(u)
      PROVE  entry[outbox[u][i].id] # NoEntry
  <2>1. outbox[u][i].id \in EntryId /\ outbox[u][i].friendId \in User
    BY <1>1, Ranges DEF Positions
  <2>2. Names(outbox[u][i].id, outbox[u][i].friendId)
    BY DEF Names
  <2>3. QED
    BY <1>1, <2>1, <2>2 DEF Agreed
<1>4. ASSUME NEW u \in User, NEW k \in 1 .. Len(directory[u])
      PROVE  entry[directory[u][k].id] # NoEntry
  <2>1. directory[u][k].id \in EntryId /\ directory[u][k].friendId \in User
    BY <1>1, Ranges
  <2>2. Names(directory[u][k].id, directory[u][k].friendId)
    BY DEF Names
  <2>3. QED
    BY <1>1, <2>1, <2>2 DEF Agreed
<1>5. QED
  BY <1>2, <1>3, <1>4

\* Entries that were taken stay as they are.
LEMMA EntriesStay ==
  ASSUME DInv, DocumentTypes', NEW u \in User, 
         NEW c, NEW own, NEW other, NEW p, Writing(u, c, own, other, p)
  PROVE  /\ \A e \in EntryId : entry[e] # NoEntry =>
              entry'[e] = entry[e] /\ (Adds(u, c, own, other, p) => e # own /\ e # other)
         /\ Adds(u, c, own, other, p) => /\ entry'[own] = [owner |-> u, by |-> u]
                    /\ entry'[other] = [owner |-> c, by |-> u]
                    /\ entry'[own] # NoEntry /\ entry'[other] # NoEntry
         /\ \A e \in EntryId : entry[e] # NoEntry =>
              /\ Given(e)' <=> Given(e)
              /\ PartnerStored(e) => PartnerStored(e)'
<1>1. entry \in [EntryId -> Reference \cup {NoEntry}] /\ u \in User
  BY DEF DInv, DocumentTypes
<1>2. \A e \in EntryId : entry[e] # NoEntry => entry'[e] = entry[e]
  BY <1>1 DEF Writing, Adds
<1>3. ASSUME Adds(u, c, own, other, p)
      PROVE  /\ entry'[own] = [owner |-> u, by |-> u]
             /\ entry'[other] = [owner |-> c, by |-> u]
  BY <1>1, <1>3 DEF Writing, Adds
<1>4. ASSUME Adds(u, c, own, other, p) PROVE entry'[own] # NoEntry /\ entry'[other] # NoEntry
  <2>1. c \in User
    BY <1>4 DEF Adds
  <2>2. [owner |-> u, by |-> u] \in Reference /\ [owner |-> c, by |-> u] \in Reference
    BY <2>1 DEF Reference
  <2>3. NoEntry \notin Reference
    BY DirectoryAssumption DEF Reference
  <2>4. QED
    BY <1>3, <1>4, <2>2, <2>3
<1>5. \A e \in EntryId : entry[e] # NoEntry =>
        (Adds(u, c, own, other, p) => e # own /\ e # other)
  BY DEF Writing, Adds
<1>6. ASSUME NEW e \in EntryId, entry[e] # NoEntry, PartnerStored(e)
      PROVE  PartnerStored(e)'
  <2>1. PICK x \in EntryId :
          stored[x] # NoEntry /\ Partner(x, stored[x].friendId, e)
    BY <1>6 DEF PartnerStored
  <2>2. entry[x] # NoEntry
    BY <2>1, KnownEntries
  <2>3. stored'[x] # NoEntry /\ Partner(x, stored[x].friendId, e)'
    BY <1>2, <1>6, <2>1, <2>2 DEF Writing, Partner
  <2>4. stored' = stored
    BY DEF Writing
  <2>5. QED
    BY <2>3, <2>4 DEF PartnerStored, Partner
<1>7. \A e \in EntryId : entry[e] # NoEntry => (Given(e)' <=> Given(e))
  BY <1>2 DEF Given
<1>8. QED
  BY <1>2, <1>3, <1>4, <1>5, <1>6, <1>7

\* What is queued now was queued before, is of an item, or makes an entry.
LEMMA QueuedNow ==
  ASSUME DInv, DocumentTypes', NEW u \in User, 
         NEW c, NEW own, NEW other, NEW p, Writing(u, c, own, other, p),
         NEW v \in User, NEW i \in 1 .. Len(outbox'[v])
  PROVE  /\ i \in Nat
         /\ \/ i \in Positions(v) /\ outbox'[v][i] = outbox[v][i]
            \/ /\ v = u /\ i > Len(outbox[u])
               /\ \/ Removing(u, i)
                  \/ Adds(u, c, own, other, p) /\ i = p /\ Making(u, i, own, c)
                  \/ /\ Adds(u, c, own, other, p) /\ i = p + 1
                     /\ Making(u, i, other, u) /\ Making(u, p, own, c)
<1>1. Len(outbox[v]) \in Nat /\ Len(outbox'[v]) \in Nat
  BY LenProperties DEF DInv, DocumentTypes
<1>2. CASE v # u
  BY <1>1, <1>2 DEF Writing, Positions
<1>3. CASE v = u /\ i <= Len(outbox[u])
  BY <1>1, <1>3 DEF Writing, Positions
<1>4. CASE v = u /\ i > Len(outbox[u])
  BY <1>1, <1>4 DEF Writing
<1>5. QED
  BY <1>1, <1>2, <1>3, <1>4

LEMMA LoadedNow ==
  ASSUME DInv, NEW u,  NEW c, NEW own, NEW other, NEW p,
         Writing(u, c, own, other, p),
         NEW v \in User, NEW k \in 1 .. Len(directory'[v])
  PROVE  k \in 1 .. Len(directory[v]) /\ directory'[v][k] = directory[v][k]
  BY DEF Writing

\* A fresh identifier is named by the two writes that make the entries alone.
LEMMA NamesNow ==
  ASSUME DInv, DocumentTypes', NEW u \in User, 
         NEW c, NEW own, NEW other, NEW p, Writing(u, c, own, other, p),
         NEW e \in EntryId, NEW f \in User, Names(e, f)'
  PROVE  \/ Names(e, f)
         \/ Adds(u, c, own, other, p) /\ e = own /\ f = c
         \/ Adds(u, c, own, other, p) /\ e = other /\ f = u
<1>1. CASE stored'[e] # NoEntry /\ stored'[e].friendId = f
  BY <1>1 DEF Names, Writing
<1>2. ASSUME NEW v \in User, NEW i \in 1 .. Len(outbox'[v]),
             outbox'[v][i].id = e, outbox'[v][i].friendId = f
      PROVE  \/ Names(e, f)
             \/ Adds(u, c, own, other, p) /\ e = own /\ f = c
             \/ Adds(u, c, own, other, p) /\ e = other /\ f = u
  <2>1. CASE i \in Positions(v) /\ outbox'[v][i] = outbox[v][i]
    BY <1>2, <2>1 DEF Names
  <2>2. CASE v = u /\ Removing(u, i)
    BY <1>2, <2>2 DEF Names, Removing
  <2>3. CASE /\ v = u /\ Adds(u, c, own, other, p)
             /\ Making(u, i, own, c) \/ Making(u, i, other, u)
    BY <1>2, <2>3 DEF Making
  <2>4. QED
    BY <2>1, <2>2, <2>3, QueuedNow
<1>3. ASSUME NEW v \in User, NEW k \in 1 .. Len(directory'[v]),
             directory'[v][k].id = e, directory'[v][k].friendId = f
      PROVE  Names(e, f)
  BY <1>3, LoadedNow DEF Names
<1>4. QED
  BY <1>1, <1>2, <1>3 DEF Names, Positions

LEMMA WritingAgreed ==
  ASSUME DInv, DocumentTypes', NEW u \in User,
         NEW c, NEW own, NEW other, NEW p, Writing(u, c, own, other, p)
  PROVE  Agreed'
<1>1. Agreed
  BY DEF DInv
<1>2. Adds(u, c, own, other, p) =>
        own # other /\ entry[own] = NoEntry /\ entry[other] = NoEntry
  BY DEF Writing, Adds
<1>3. ASSUME NEW e \in EntryId, NEW f \in User, Names(e, f)'
      PROVE  entry'[e] # NoEntry
  <2>1. CASE Names(e, f)
    <3>1. entry[e] # NoEntry
      BY <1>1, <2>1 DEF Agreed
    <3>2. QED
      BY <3>1, EntriesStay
  <2>2. CASE Adds(u, c, own, other, p) /\ e \in {own, other}
    <3>1. entry'[own] # NoEntry /\ entry'[other] # NoEntry
      BY <2>2, EntriesStay
    <3>2. QED
      BY <2>2, <3>1
  <2>3. QED
    BY <1>3, <2>1, <2>2, NamesNow
<1>4. ASSUME NEW e \in EntryId, NEW f \in User, NEW g \in User,
             Names(e, f)', Names(e, g)'
      PROVE  f = g
  <2>1. CASE entry[e] # NoEntry
    <3>1. Names(e, f) /\ Names(e, g)
      BY <1>2, <1>4, <2>1, NamesNow
    <3>2. QED
      BY <1>1, <3>1 DEF Agreed
  <2>2. CASE entry[e] = NoEntry
    <3>1. ~Names(e, f) /\ ~Names(e, g)
      BY <1>1, <2>2 DEF Agreed
    <3>2. QED
      BY <1>2, <1>4, <3>1, NamesNow
  <2>3. QED
    BY <2>1, <2>2
<1>5. QED
  BY <1>3, <1>4 DEF Agreed

LEMMA WritingFresh ==
  ASSUME DInv, DocumentTypes', NEW u \in User, 
         NEW c, NEW own, NEW other, NEW p, Writing(u, c, own, other, p)
  PROVE  Fresh'
<1> SUFFICES ASSUME NEW v \in User, NEW i \in 1 .. Len(outbox'[v]),
                    NEW e, e = outbox'[v][i].id, ~outbox'[v][i].isDeleted
             PROVE  /\ stored'[e] = NoEntry
                    /\ entry'[e].by = v
                    /\ \A w \in User : \A j \in 1 .. Len(outbox'[w]) :
                         outbox'[w][j].id = e => w = v /\ i <= j
                    /\ \A w \in User \ {v} : \A k \in 1 .. Len(directory'[w]) :
                         directory'[w][k].id # e
  BY DEF Fresh, Positions
<1>1. /\ DocumentTypes /\ Fresh /\ stored' = stored
      /\ Adds(u, c, own, other, p) =>
           own # other /\ entry[own] = NoEntry /\ entry[other] = NoEntry
                 /\ own \in EntryId /\ other \in EntryId /\ p \in Nat
                 /\ Len(outbox[u]) < p
  BY DEF DInv, Writing, Adds
<1>2. e \in EntryId /\ i \in Nat /\ Len(outbox[u]) \in Nat
  <2>1. outbox'[v][i] \in Write
    BY ElementOfSeq DEF DocumentTypes
  <2>2. QED
    BY <1>1, <2>1, QueuedNow, Ranges DEF Write
<1>3. CASE i \in Positions(v) /\ outbox'[v][i] = outbox[v][i]
  <2>1. /\ stored[e] = NoEntry /\ entry[e].by = v
        /\ \A w \in User : \A j \in Positions(w) :
             outbox[w][j].id = e => w = v /\ i <= j
        /\ \A w \in User \ {v} : \A k \in 1 .. Len(directory[w]) :
             directory[w][k].id # e
    BY <1>1, <1>3 DEF Fresh
  <2>2. entry[e] # NoEntry
    BY <1>3, KnownEntries
  <2>3. ASSUME NEW w \in User, NEW j \in 1 .. Len(outbox'[w]), outbox'[w][j].id = e
        PROVE  w = v /\ i <= j
    <3>1. CASE j \in Positions(w) /\ outbox'[w][j] = outbox[w][j]
      BY <2>1, <2>3, <3>1
    <3>2. CASE w = u /\ j > Len(outbox[u]) /\ Removing(u, j)
      <4>1. u = v
        BY <2>1, <2>3, <3>2 DEF Removing
      <4>2. j \in Nat /\ i <= Len(outbox[u])
        BY <1>2, <1>3, <2>3, <4>1, QueuedNow DEF Positions
      <4>3. QED
        BY <1>2, <3>2, <4>1, <4>2
    <3>3. CASE /\ Adds(u, c, own, other, p) /\ w = u
               /\ Making(u, j, own, c) \/ Making(u, j, other, u)
      BY <1>1, <2>2, <2>3, <3>3 DEF Making
    <3>4. QED
      BY <3>1, <3>2, <3>3, QueuedNow
  <2>4. ASSUME NEW w \in User \ {v}, NEW k \in 1 .. Len(directory'[w])
        PROVE  directory'[w][k].id # e
    BY <2>1, <2>4, LoadedNow
  <2>5. entry'[e] = entry[e]
    BY <1>2, <2>2, EntriesStay
  <2>6. QED
    BY <1>1, <2>1, <2>3, <2>4, <2>5
<1>4. CASE v = u /\ Removing(u, i)
  BY <1>4 DEF Removing
<1>5. CASE /\ v = u /\ i > Len(outbox[u]) /\ Adds(u, c, own, other, p)
           /\ \/ i = p /\ Making(u, i, own, c)
              \/ i = p + 1 /\ Making(u, i, other, u)
  <2>1. e \in {own, other} /\ entry[e] = NoEntry
    BY <1>1, <1>5 DEF Making
  <2>2. stored[e] = NoEntry
    BY <1>2, <2>1, KnownEntries
  <2>3. entry'[e].by = u
    <3>1. /\ entry'[own] = [owner |-> u, by |-> u]
          /\ entry'[other] = [owner |-> c, by |-> u]
      BY <1>5, EntriesStay
    <3>2. QED
      BY <2>1, <3>1
  <2>4. ASSUME NEW w \in User, NEW j \in 1 .. Len(outbox'[w]), outbox'[w][j].id = e
        PROVE  w = u /\ i <= j
    <3>1. ~(j \in Positions(w) /\ outbox'[w][j] = outbox[w][j])
      BY <2>1, <2>4, KnownEntries
    <3>2. ~Removing(u, j) \/ w # u
      BY <2>1, <2>4, KnownEntries DEF Removing
    <3>3. /\ w = u
          /\ \/ j = p /\ Making(u, j, own, c)
             \/ j = p + 1 /\ Making(u, j, other, u)
      BY <3>1, <3>2, QueuedNow
    <3>4. i = j
      BY <1>1, <1>5, <2>4, <3>3 DEF Making
    <3>5. QED
      BY <1>2, <3>3, <3>4
  <2>5. ASSUME NEW w \in User, NEW k \in 1 .. Len(directory'[w])
        PROVE  directory'[w][k].id # e
    BY SMTT(40), <2>1, <2>5, LoadedNow, KnownEntries
  <2>6. QED
    BY <1>1, <1>5, <2>2, <2>3, <2>4, <2>5
<1>6. QED
  BY <1>3, <1>4, <1>5, QueuedNow

LEMMA WritingQueueMutual ==
  ASSUME DInv, DocumentTypes', NEW u \in User,
         NEW c, NEW own, NEW other, NEW p, Writing(u, c, own, other, p)
  PROVE  QueueMutual'
<1> SUFFICES ASSUME NEW v \in User, NEW i \in 1 .. Len(outbox'[v]),
                    NEW e, e = outbox'[v][i].id, Given(e)'
             PROVE  \/ PartnerStored(e)'
                    \/ entry'[e].by = v /\ PartnerAhead(v, i, e)'
  BY DEF QueueMutual, Positions
<1>1. DocumentTypes /\ QueueMutual /\ DirectoryMutual
  BY DEF DInv
<1>2. e \in EntryId /\ i \in Nat /\ Len(outbox[u]) \in Nat
  <2>1. outbox'[v][i] \in Write
    BY ElementOfSeq DEF DocumentTypes
  <2>2. QED
    BY <1>1, <2>1, QueuedNow, Ranges DEF Write
<1>3. CASE i \in Positions(v) /\ outbox'[v][i] = outbox[v][i]
  <2>1. entry[e] # NoEntry
    BY <1>3, KnownEntries
  <2>2. Given(e)
    BY <1>2, <2>1, EntriesStay
  <2>3. CASE PartnerStored(e)
    BY <1>2, <2>1, <2>3, EntriesStay
  <2>4. CASE entry[e].by = v /\ PartnerAhead(v, i, e)
    <3>1. PICK j \in 1 .. i - 1 :
            Partner(outbox[v][j].id, outbox[v][j].friendId, e)
      BY <2>4 DEF PartnerAhead
    <3>2. j \in Positions(v) /\ Len(outbox[v]) \in Nat
      BY <1>1, <1>2, <1>3, Ranges DEF Positions
    <3>3. j \in 1 .. Len(outbox'[v])
      BY <1>2
    <3>4. outbox'[v][j] = outbox[v][j]
      BY <1>2, <3>2, <3>3, QueuedNow DEF Positions
    <3>5. outbox[v][j].id \in EntryId /\ entry[outbox[v][j].id] # NoEntry
      BY <1>1, <3>2, Ranges, KnownEntries DEF Positions
    <3>6. entry'[outbox[v][j].id] = entry[outbox[v][j].id] /\ entry'[e] = entry[e]
      BY <1>2, <2>1, <3>5, EntriesStay
    <3>7. Partner(outbox[v][j].id, outbox[v][j].friendId, e)'
      BY <3>1, <3>4, <3>6 DEF Partner
    <3>8. PartnerAhead(v, i, e)'
      BY <3>7 DEF PartnerAhead
    <3>9. QED
      BY <2>4, <3>6, <3>8
  <2>5. QED
    BY <1>1, <1>3, <2>2, <2>3, <2>4 DEF QueueMutual
<1>4. CASE v = u /\ Removing(u, i)
  <2>1. PICK k \in 1 .. Len(directory[u]) : e = directory[u][k].id
    BY <1>4 DEF Removing
  <2>2. entry[e] # NoEntry
    BY <2>1, KnownEntries
  <2>3. Given(e)
    BY <1>2, <2>2, EntriesStay
  <2>4. PartnerStored(e)
    BY <1>1, <2>1, <2>3 DEF DirectoryMutual
  <2>5. QED
    BY <1>2, <2>2, <2>4, EntriesStay
<1>5. CASE v = u /\ Adds(u, c, own, other, p) /\ i = p /\ Making(u, i, own, c)
  <2>1. entry'[own] = [owner |-> u, by |-> u]
    BY <1>5, EntriesStay
  <2>2. QED
    BY <1>5, <2>1 DEF Given, Making
<1>6. CASE /\ v = u /\ Adds(u, c, own, other, p)
           /\ i = p + 1 /\ Making(u, i, other, u) /\ Making(u, p, own, c)
  <2>1. /\ entry'[own] = [owner |-> u, by |-> u]
        /\ entry'[other] = [owner |-> c, by |-> u]
    BY <1>6, EntriesStay
  <2>2. p \in 1 .. i - 1
    BY <1>2, <1>6 DEF Adds
  <2>3. Partner(outbox[u][p].id, outbox[u][p].friendId, e)'
    BY <1>6, <2>1 DEF Partner, Making
  <2>4. PartnerAhead(u, i, e)'
    BY <2>2, <2>3 DEF PartnerAhead
  <2>5. QED
    BY <1>6, <2>1, <2>4 DEF Making
<1>7. QED
  BY <1>3, <1>4, <1>5, <1>6, QueuedNow

LEMMA WritingOthersMutual ==
  ASSUME DInv, DocumentTypes', NEW u \in User,
         NEW c, NEW own, NEW other, NEW p, Writing(u, c, own, other, p)
  PROVE  DirectoryMutual' /\ EntriesAreMutual'
<1>1. DocumentTypes /\ DirectoryMutual /\ EntriesAreMutual
  BY DEF DInv
<1>2. ASSUME NEW v \in User, NEW k \in 1 .. Len(directory'[v]),
             NEW e, e = directory'[v][k].id
      PROVE  entry'[e].owner = v /\ (Given(e)' => PartnerStored(e)')
  <2>1. k \in 1 .. Len(directory[v]) /\ e = directory[v][k].id
    BY <1>2, LoadedNow
  <2>2. e \in EntryId /\ entry[e] # NoEntry
    BY <1>1, <2>1, Ranges, KnownEntries
  <2>3. entry[e].owner = v /\ (Given(e) => PartnerStored(e))
    BY <1>1, <2>1 DEF DirectoryMutual
  <2>4. entry'[e] = entry[e] /\ (Given(e)' <=> Given(e))
    BY <2>2, EntriesStay
  <2>5. PartnerStored(e) => PartnerStored(e)'
    BY <2>2, EntriesStay
  <2>6. QED
    BY <2>3, <2>4, <2>5
<1>3. ASSUME NEW e \in EntryId, stored'[e] # NoEntry, Given(e)'
      PROVE  PartnerStored(e)'
  <2>1. stored[e] # NoEntry /\ entry[e] # NoEntry
    BY <1>3, KnownEntries DEF Writing
  <2>2. Given(e)
    BY <1>3, <2>1, EntriesStay
  <2>3. PartnerStored(e)
    BY <1>1, <2>1, <2>2, MutualMeans DEF MutualEntries
  <2>4. QED
    BY <2>1, <2>3, EntriesStay
<1>4. EntriesAreMutual'
  BY <1>3, MutualMeansNext DEF MutualEntries
<1>5. DirectoryMutual'
  BY <1>2 DEF DirectoryMutual
<1>6. QED
  BY <1>4, <1>5

LEMMA WritingStep ==
  ASSUME DInv, DocumentTypes', NEW u \in User,
         NEW c, NEW own, NEW other, NEW p, Writing(u, c, own, other, p)
  PROVE  DInv'
<1>1. Agreed'
  BY WritingAgreed
<1>2. Fresh'
  BY WritingFresh
<1>3. QueueMutual'
  BY WritingQueueMutual
<1>4. DirectoryMutual' /\ EntriesAreMutual'
  BY WritingOthersMutual
<1>5. QED
  BY <1>1, <1>2, <1>3, <1>4 DEF DInv

-----------------------------------------------------------------------------
(* The backend applies a write.                                            *)

\* What a step may do to the documents in the backend.
Keeps ==
  \A e \in EntryId : stored[e] # NoEntry =>
    /\ stored'[e] # NoEntry
    /\ stored'[e].friendId = stored[e].friendId
    /\ stored[e].isDeleted => stored'[e].isDeleted

\* Where a write is after the first one of u has gone.
Before(u, v, i) == IF v = u THEN i + 1 ELSE i

LEMMA CommitFacts ==
  ASSUME DInv, NEW u \in User, Commit(u)
  PROVE  /\ 1 \in Positions(u) /\ outbox[u][1] \in Write
         /\ stored' = [stored EXCEPT ![outbox[u][1].id] =
                         [friendId |-> outbox[u][1].friendId,
                          isDeleted |-> outbox[u][1].isDeleted]]
         /\ entry' = entry /\ directory' = directory
         /\ outbox' \in [User -> Seq(Write)]
         /\ \A v \in User : \A i \in 1 .. Len(outbox'[v]) :
              /\ i \in Nat /\ Before(u, v, i) \in Positions(v)
              /\ outbox'[v][i] = outbox[v][Before(u, v, i)]
         /\ \A v \in User : \A j \in Positions(v) :
              \/ v = u /\ j = 1
              \/ \E i \in 1 .. Len(outbox'[v]) : j = Before(u, v, i)
<1>1. /\ outbox \in [User -> Seq(Write)] /\ outbox[u] \in Seq(Write)
      /\ outbox[u] # <<>> /\ outbox' = [outbox EXCEPT ![u] = Tail(outbox[u])]
  BY DEF DInv, DocumentTypes, Commit
<1>2. \A v \in User : Len(outbox[v]) \in Nat
  BY <1>1, LenProperties
<1>3. /\ Len(outbox[u]) >= 1 /\ Head(outbox[u]) = outbox[u][1] /\ Head(outbox[u]) \in Write
      /\ Tail(outbox[u]) \in Seq(Write) /\ Len(Tail(outbox[u])) = Len(outbox[u]) - 1
      /\ \A i \in 1 .. Len(Tail(outbox[u])) : Tail(outbox[u])[i] = outbox[u][i + 1]
  BY <1>1, <1>2, HeadTailProperties, EmptySeq
<1>4. /\ outbox'[u] = Tail(outbox[u])
      /\ \A v \in User \ {u} : outbox'[v] = outbox[v]
      /\ outbox' \in [User -> Seq(Write)]
  BY <1>1, <1>3
<1>5. \A v \in User : \A i \in 1 .. Len(outbox'[v]) :
        /\ i \in Nat /\ Before(u, v, i) \in Positions(v)
        /\ outbox'[v][i] = outbox[v][Before(u, v, i)]
  <2>1. SUFFICES ASSUME NEW v \in User, NEW i \in 1 .. Len(outbox'[v])
                 PROVE  /\ i \in Nat /\ Before(u, v, i) \in Positions(v)
                        /\ outbox'[v][i] = outbox[v][Before(u, v, i)]
    OBVIOUS
  <2>2. CASE v = u
    <3>1. i \in 1 .. Len(outbox[u]) - 1 /\ outbox'[v][i] = outbox[u][i + 1]
      BY <1>3, <1>4, <2>2
    <3>2. i \in Nat /\ i + 1 \in 1 .. Len(outbox[u])
      BY <1>2, <3>1
    <3>3. QED
      BY <2>2, <3>1, <3>2 DEF Before, Positions
  <2>3. CASE v # u
    BY <1>2, <1>4, <2>3 DEF Before, Positions
  <2>4. QED
    BY <2>2, <2>3
<1>6. ASSUME NEW v \in User, NEW j \in Positions(v), ~(v = u /\ j = 1)
      PROVE  \E i \in 1 .. Len(outbox'[v]) : j = Before(u, v, i)
  <2>1. CASE v = u
    <3>1. j - 1 \in 1 .. Len(outbox'[v]) /\ j = (j - 1) + 1
      BY <1>2, <1>3, <1>4, <1>6, <2>1 DEF Positions
    <3>2. QED
      BY <2>1, <3>1 DEF Before
  <2>2. CASE v # u
    BY <1>4, <1>6, <2>2 DEF Before, Positions
  <2>3. QED
    BY <2>1, <2>2
<1>7. 1 \in Positions(u)
  BY <1>2, <1>3 DEF Positions
<1>8. /\ stored' = [stored EXCEPT ![outbox[u][1].id] =
                      [friendId |-> outbox[u][1].friendId,
                       isDeleted |-> outbox[u][1].isDeleted]]
      /\ entry' = entry /\ directory' = directory
  BY <1>3 DEF Commit, screen
<1>9. QED
  BY <1>3, <1>4, <1>5, <1>6, <1>7, <1>8

\* The document that is written: it was not there if the write makes it, and
\* names the friend it named.
LEMMA CommitKeeps ==
  ASSUME DInv, NEW u \in User, Commit(u)
  PROVE  /\ Keeps
         /\ \A e \in EntryId : stored'[e] # NoEntry =>
              \/ stored[e] # NoEntry /\ stored'[e] = stored[e]
              \/ e = outbox[u][1].id /\ stored'[e].friendId = outbox[u][1].friendId
         /\ stored'[outbox[u][1].id] # NoEntry
         /\ stored'[outbox[u][1].id].friendId = outbox[u][1].friendId
         /\ stored' \in [EntryId -> Document \cup {NoEntry}]
<1> DEFINE w == outbox[u][1]
           document == [friendId |-> w.friendId, isDeleted |-> w.isDeleted]
<1>1. /\ DocumentTypes /\ Agreed /\ Fresh
      /\ 1 \in Positions(u) /\ w \in Write
      /\ stored' = [stored EXCEPT ![w.id] = document]
  BY CommitFacts DEF DInv
<1>2. /\ w.id \in EntryId /\ w.friendId \in User /\ w.isDeleted \in BOOLEAN
      /\ document \in Document
  BY <1>1 DEF Write, Document
<1>3. document # NoEntry
  BY <1>2, DirectoryAssumption DEF Document
<1>4. /\ stored'[w.id] = document
      /\ \A e \in EntryId : e # w.id => stored'[e] = stored[e]
      /\ stored' \in [EntryId -> Document \cup {NoEntry}]
  BY <1>1, <1>2 DEF DocumentTypes
<1>5. ASSUME stored[w.id] # NoEntry
      PROVE  /\ stored[w.id].friendId = w.friendId
             /\ w.isDeleted
  <2>1. w.isDeleted
    BY <1>1, <1>5 DEF Fresh
  <2>2. stored[w.id].friendId \in User
    BY <1>1, <1>2, <1>5, Ranges
  <2>3. Names(w.id, stored[w.id].friendId) /\ Names(w.id, w.friendId)
    BY <1>1, <1>5 DEF Names
  <2>4. QED
    BY <1>1, <1>2, <2>1, <2>2, <2>3 DEF Agreed
<1>6. Keeps
  BY <1>3, <1>4, <1>5 DEF Keeps
<1>7. QED
  BY <1>2, <1>3, <1>4, <1>6

LEMMA CommitPartners ==
  ASSUME DInv, NEW u \in User, Commit(u), NEW e, PartnerStored(e)
  PROVE  PartnerStored(e)'
<1>1. PICK x \in EntryId : stored[x] # NoEntry /\ Partner(x, stored[x].friendId, e)
  BY DEF PartnerStored
<1>2. stored'[x] # NoEntry /\ stored'[x].friendId = stored[x].friendId
  BY <1>1, CommitKeeps DEF Keeps
<1>3. entry' = entry
  BY CommitFacts
<1>4. Partner(x, stored[x].friendId, e)'
  BY <1>1, <1>2, <1>3 DEF Partner
<1>5. QED
  BY <1>2, <1>4 DEF PartnerStored

LEMMA CommitStep ==
  ASSUME DInv, NEW u \in User, Commit(u)
  PROVE  DInv'
<1> DEFINE w == outbox[u][1]
<1>1. /\ DocumentTypes /\ Agreed /\ Fresh /\ QueueMutual /\ DirectoryMutual
      /\ EntriesAreMutual /\ 1 \in Positions(u)
      /\ entry' = entry /\ directory' = directory
  BY CommitFacts DEF DInv
<1>2. DocumentTypes'
  BY <1>1, CommitFacts, CommitKeeps DEF DocumentTypes
<1>3. ASSUME NEW e \in EntryId, NEW f \in User, Names(e, f)'
      PROVE  Names(e, f)
  <2>1. CASE stored'[e] # NoEntry /\ stored'[e].friendId = f
    <3>1. CASE stored[e] # NoEntry /\ stored'[e] = stored[e]
      BY <2>1, <3>1 DEF Names
    <3>2. CASE e = w.id /\ stored'[e].friendId = w.friendId
      BY <1>1, <2>1, <3>2 DEF Names
    <3>3. QED
      BY <2>1, <3>1, <3>2, CommitKeeps
  <2>2. ASSUME NEW v \in User, NEW i \in 1 .. Len(outbox'[v]),
               outbox'[v][i].id = e, outbox'[v][i].friendId = f
        PROVE  Names(e, f)
    <3>1. PICK n : n = Before(u, v, i)
      OBVIOUS
    <3>2. n \in Positions(v) /\ outbox'[v][i] = outbox[v][n]
      BY <3>1, CommitFacts
    <3>3. QED
      BY <2>2, <3>2 DEF Names
  <2>3. CASE \E v \in User : \E k \in 1 .. Len(directory[v]) :
               directory[v][k].id = e /\ directory[v][k].friendId = f
    BY <2>3 DEF Names
  <2>4. QED
    BY <1>1, <1>3, <2>1, <2>2, <2>3 DEF Names, Positions
<1>4. Agreed'
  BY <1>1, <1>3 DEF Agreed
<1>5. ASSUME NEW v \in User, NEW i \in 1 .. Len(outbox'[v]),
             NEW e, e = outbox'[v][i].id, ~outbox'[v][i].isDeleted
      PROVE  /\ stored'[e] = NoEntry
             /\ entry[e].by = v
             /\ \A x \in User : \A j \in 1 .. Len(outbox'[x]) :
                  outbox'[x][j].id = e => x = v /\ i <= j
             /\ \A x \in User \ {v} : \A k \in 1 .. Len(directory[x]) :
                  directory[x][k].id # e
  <2>1. PICK n : n = Before(u, v, i)
    OBVIOUS
  <2>2. n \in Positions(v) /\ outbox'[v][i] = outbox[v][n] /\ i \in Nat
    BY <1>5, <2>1, CommitFacts
  <2>3. /\ stored[e] = NoEntry /\ entry[e].by = v
        /\ \A x \in User : \A j \in Positions(x) :
             outbox[x][j].id = e => x = v /\ n <= j
        /\ \A x \in User \ {v} : \A k \in 1 .. Len(directory[x]) :
             directory[x][k].id # e
    BY <1>1, <1>5, <2>2 DEF Fresh
  <2>4. w.id # e
    <3>1. ~(v = u /\ n <= 1)
      BY <2>1, <2>2, CommitFacts DEF Before
    <3>2. QED
      BY <1>1, <2>3, <3>1
  <2>5. e \in EntryId
    BY <1>1, <1>5, <2>2, Ranges DEF Positions
  <2>6. stored'[e] = NoEntry
    BY <2>3, <2>4, <2>5, CommitKeeps
  <2>7. ASSUME NEW x \in User, NEW j \in 1 .. Len(outbox'[x]), outbox'[x][j].id = e
        PROVE  x = v /\ i <= j
    <3>1. PICK m : m = Before(u, x, j)
      OBVIOUS
    <3>2. m \in Positions(x) /\ outbox[x][m].id = e /\ j \in Nat
      BY <2>7, <3>1, CommitFacts
    <3>3. x = v /\ n <= m
      BY <2>3, <3>2
    <3>4. QED
      BY <2>1, <2>2, <3>1, <3>2, <3>3 DEF Before
  <2>8. QED
    BY <2>3, <2>6, <2>7
<1>6. Fresh'
  BY <1>1, <1>5 DEF Fresh, Positions
<1>7. ASSUME NEW v \in User, NEW i \in 1 .. Len(outbox'[v]),
             NEW e, e = outbox'[v][i].id, Given(e)
      PROVE  \/ PartnerStored(e)'
             \/ entry[e].by = v /\ PartnerAhead(v, i, e)'
  <2>1. PICK n : n = Before(u, v, i)
    OBVIOUS
  <2>2. n \in Positions(v) /\ outbox'[v][i] = outbox[v][n] /\ i \in Nat
    BY <1>7, <2>1, CommitFacts
  <2>3. CASE PartnerStored(e)
    BY <2>3, CommitPartners
  <2>4. CASE entry[e].by = v /\ PartnerAhead(v, n, e)
    <3>1. PICK j \in 1 .. n - 1 :
            Partner(outbox[v][j].id, outbox[v][j].friendId, e)
      BY <2>4 DEF PartnerAhead
    <3>2. Len(outbox[v]) \in Nat /\ n \in Nat
      BY <1>1, <2>2, Ranges DEF Positions
    <3>3. j \in Positions(v)
      BY <2>2, <3>2 DEF Positions
    <3>4. CASE v = u /\ j = 1
      <4>1. w.id \in EntryId
        BY <1>1, Ranges DEF Positions
      <4>2. stored'[w.id] # NoEntry /\ stored'[w.id].friendId = w.friendId
        BY CommitKeeps
      <4>3. Partner(w.id, w.friendId, e)
        BY <3>1, <3>4
      <4>4. QED
        BY <1>1, <4>1, <4>2, <4>3 DEF PartnerStored, Partner
    <3>5. ASSUME NEW k \in 1 .. Len(outbox'[v]), j = Before(u, v, k)
          PROVE  PartnerAhead(v, i, e)'
      <4>1. outbox'[v][k] = outbox[v][j] /\ k \in Nat
        BY <3>5, CommitFacts
      <4>2. k \in 1 .. i - 1
        BY <2>1, <2>2, <3>2, <3>5, <4>1 DEF Before
      <4>3. Partner(outbox[v][k].id, outbox[v][k].friendId, e)'
        BY <1>1, <3>1, <4>1 DEF Partner
      <4>4. QED
        BY <4>2, <4>3 DEF PartnerAhead
    <3>6. \/ v = u /\ j = 1
          \/ \E k \in 1 .. Len(outbox'[v]) : j = Before(u, v, k)
      BY <3>3, CommitFacts
    <3>7. QED
      BY <2>4, <3>4, <3>5, <3>6
  <2>5. QED
    BY <1>1, <1>7, <2>2, <2>3, <2>4 DEF QueueMutual
<1>8. QueueMutual'
  BY <1>1, <1>7 DEF QueueMutual, Positions, Given
<1>9. DirectoryMutual'
  BY <1>1, CommitPartners DEF DirectoryMutual, Given
<1>10. ASSUME NEW e \in EntryId, stored'[e] # NoEntry, Given(e)
       PROVE  PartnerStored(e)'
  <2>1. CASE stored[e] # NoEntry
    BY <1>1, <1>10, <2>1, MutualMeans, CommitPartners DEF MutualEntries
  <2>2. CASE e = w.id
    <3>1. ~PartnerAhead(u, 1, e)
      BY DEF PartnerAhead
    <3>2. PartnerStored(e)
      BY <1>1, <1>10, <2>2, <3>1 DEF QueueMutual
    <3>3. QED
      BY <3>2, CommitPartners
  <2>3. QED
    BY <1>10, <2>1, <2>2, CommitKeeps
<1>11. EntriesAreMutual'
  BY <1>1, <1>10, MutualMeansNext DEF MutualEntries, Given
<1>12. QED
  BY <1>2, <1>4, <1>6, <1>8, <1>9, <1>11 DEF DInv

-----------------------------------------------------------------------------
(* The entries of a directory arrive.                                      *)

\* Items that were there before, or that the device knows now.
LEMMA LoadedItems ==
  ASSUME DInv, NEW u \in User, DirectoryLoaded(u)
  PROVE  /\ entry' = entry /\ stored' = stored /\ outbox' = outbox
         /\ directory' \in [User -> Seq(Item)]
         /\ \A v \in User : \A k \in 1 .. Len(directory'[v]) :
              \/ /\ k \in 1 .. Len(directory[v])
                 /\ directory'[v][k] = directory[v][k]
              \/ /\ v = u /\ directory'[v][k].id \in Entries(u)
                 /\ directory'[v][k].friendId = Local(u, directory'[v][k].id).friendId
<1>1. entry' = entry /\ stored' = stored /\ outbox' = outbox
  BY DEF DirectoryLoaded, documents
<1>2. DocumentTypes /\ directory \in [User -> Seq(Item)]
  BY DEF DInv, DocumentTypes
<1>3. CASE directory' = directory
  BY <1>1, <1>2, <1>3
<1>4. ASSUME NEW order \in Orders(Live(u)),
             directory' = [directory EXCEPT ![u] = directory[u] \o Listed(u, order)]
      PROVE  /\ directory' \in [User -> Seq(Item)]
             /\ \A v \in User : \A k \in 1 .. Len(directory'[v]) :
                  \/ /\ k \in 1 .. Len(directory[v])
                     /\ directory'[v][k] = directory[v][k]
                  \/ /\ v = u /\ directory'[v][k].id \in Entries(u)
                     /\ directory'[v][k].friendId
                          = Local(u, directory'[v][k].id).friendId
  <2> DEFINE n == Cardinality(Live(u))
             items == Listed(u, order)
  <2>1. IsFiniteSet(Live(u))
    <3>1. Live(u) \subseteq EntryId
      BY DEF Live, Entries
    <3>2. QED
      BY <3>1, DirectoryAssumption, FS_Subset
  <2>2. n \in Nat
    BY <2>1, FS_CardinalityType
  <2>3. order \in [1 .. n -> Live(u)]
    BY DEF Orders
  <2>4. ASSUME NEW e \in Live(u)
        PROVE  /\ e \in Entries(u) /\ e \in EntryId
               /\ Local(u, e).friendId \in User
    <3>1. e \in Entries(u) /\ e \in EntryId /\ Local(u, e) # NoEntry
      BY DEF Live, Entries
    <3>2. Local(u, e).friendId \in User
      BY <1>2, <3>1, LocalIs, Ranges DEF Positions
    <3>3. QED
      BY <3>1, <3>2
  <2> HIDE DEF n
  <2>5. items = [k \in 1 .. n |->
                   [id |-> order[k], friendId |-> Local(u, order[k]).friendId]]
    BY <2>3 DEF Listed
  <2>6. /\ items \in Seq(Item) /\ Len(items) = n
        /\ \A k \in 1 .. n : items[k] = [id |-> order[k],
                                         friendId |-> Local(u, order[k]).friendId]
    <3>1. ASSUME NEW k \in 1 .. n
          PROVE  [id |-> order[k], friendId |-> Local(u, order[k]).friendId] \in Item
      BY <2>3, <2>4 DEF Item
    <3>2. items \in [1 .. n -> Item]
      BY <2>5, <3>1
    <3>3. QED
      BY <2>2, <2>5, <3>2, IsASeq, LenProperties
  <2> HIDE DEF items
  <2>7. directory[u] \in Seq(Item) /\ Len(directory[u]) \in Nat
    BY <1>2, Ranges
  <2>8. /\ directory[u] \o items \in Seq(Item)
        /\ Len(directory[u] \o items) = Len(directory[u]) + n
        /\ \A k \in 1 .. Len(directory[u]) + n : (directory[u] \o items)[k] =
             IF k <= Len(directory[u]) THEN directory[u][k]
                                       ELSE items[k - Len(directory[u])]
    BY <2>6, <2>7, ConcatProperties
  <2>9. /\ directory' \in [User -> Seq(Item)]
        /\ directory'[u] = directory[u] \o items
        /\ \A v \in User \ {u} : directory'[v] = directory[v]
    BY <1>2, <1>4, <2>8 DEF items
  <2>10. ASSUME NEW v \in User, NEW k \in 1 .. Len(directory'[v])
         PROVE  \/ /\ k \in 1 .. Len(directory[v])
                   /\ directory'[v][k] = directory[v][k]
                \/ /\ v = u /\ directory'[v][k].id \in Entries(u)
                   /\ directory'[v][k].friendId
                        = Local(u, directory'[v][k].id).friendId
    <3>1. CASE v # u
      BY <2>9, <2>10, <3>1
    <3>2. CASE v = u /\ k <= Len(directory[u])
      BY <2>2, <2>7, <2>8, <2>9, <2>10, <3>2
    <3>3. CASE v = u /\ ~(k <= Len(directory[u]))
      <4>1. PICK j : j = k - Len(directory[u])
        OBVIOUS
      <4>2. j \in 1 .. n
        BY <2>2, <2>7, <2>8, <2>9, <2>10, <3>3, <4>1
      <4>3. directory'[v][k] = [id |-> order[j],
                                friendId |-> Local(u, order[j]).friendId]
        BY <2>2, <2>6, <2>7, <2>8, <2>9, <2>10, <3>3, <4>1, <4>2
      <4>4. order[j] \in Entries(u)
        BY <2>3, <2>4, <4>2
      <4>5. QED
        BY <3>3, <4>3, <4>4
    <3>4. QED
      BY <3>1, <3>2, <3>3
  <2>11. QED
    BY <2>9, <2>10
<1>5. QED
  BY <1>1, <1>3, <1>4 DEF DirectoryLoaded

\* What the device knows of an entry of its own directory.
LEMMA KnownEntry ==
  ASSUME DInv, NEW u \in User, NEW e \in Entries(u)
  PROVE  /\ e \in EntryId /\ entry[e].owner = u
         /\ Local(u, e).friendId \in User /\ Names(e, Local(u, e).friendId)
         /\ Given(e) => PartnerStored(e)
<1>1. /\ DocumentTypes /\ QueueMutual /\ MutualEntries
      /\ e \in EntryId /\ entry[e].owner = u /\ Local(u, e) # NoEntry
  BY MutualMeans DEF DInv, Entries
<1>2. CASE stored[e] # NoEntry /\ Local(u, e) = stored[e]
  BY <1>1, <1>2, Ranges DEF Names, MutualEntries
<1>3. ASSUME NEW i \in Positions(u), outbox[u][i].id = e,
             Local(u, e).friendId = outbox[u][i].friendId
      PROVE  /\ Local(u, e).friendId \in User /\ Names(e, Local(u, e).friendId)
             /\ Given(e) => PartnerStored(e)
  <2>1. outbox[u][i].friendId \in User
    BY <1>1, Ranges DEF Positions
  <2>2. Names(e, outbox[u][i].friendId)
    BY <1>3 DEF Names
  <2>3. Given(e) => PartnerStored(e)
    BY <1>1, <1>3 DEF QueueMutual, Given
  <2>4. QED
    BY <1>3, <2>1, <2>2, <2>3
<1>4. QED
  BY <1>1, <1>2, <1>3, LocalIs

LEMMA LoadedStep ==
  ASSUME DInv, NEW u \in User, DirectoryLoaded(u)
  PROVE  DInv'
<1>1. /\ DocumentTypes /\ Agreed /\ Fresh /\ QueueMutual /\ DirectoryMutual
      /\ EntriesAreMutual
      /\ entry' = entry /\ stored' = stored /\ outbox' = outbox
  BY LoadedItems DEF DInv
<1>2. DocumentTypes'
  BY <1>1, LoadedItems DEF DocumentTypes
<1>3. ASSUME NEW v \in User, NEW k \in 1 .. Len(directory'[v]),
             NEW d, d = directory'[v][k]
      PROVE  \/ k \in 1 .. Len(directory[v]) /\ d = directory[v][k]
             \/ /\ v = u /\ d.id \in Entries(u)
                /\ d.friendId = Local(u, d.id).friendId
  BY <1>3, LoadedItems
<1>4. ASSUME NEW e \in EntryId, NEW f \in User, Names(e, f)'
      PROVE  Names(e, f)
  <2>1. CASE \/ stored[e] # NoEntry /\ stored[e].friendId = f
             \/ \E v \in User : \E i \in 1 .. Len(outbox[v]) :
                  outbox[v][i].id = e /\ outbox[v][i].friendId = f
    BY <2>1 DEF Names, Positions
  <2>2. ASSUME NEW v \in User, NEW k \in 1 .. Len(directory'[v]),
               directory'[v][k].id = e, directory'[v][k].friendId = f
        PROVE  Names(e, f)
    <3>1. CASE k \in 1 .. Len(directory[v]) /\ directory'[v][k] = directory[v][k]
      BY <2>2, <3>1 DEF Names
    <3>2. CASE e \in Entries(u) /\ f = Local(u, e).friendId
      BY <3>2, KnownEntry
    <3>3. QED
      BY <2>2, <3>1, <3>2, <1>3
  <2>3. QED
    BY <1>1, <1>4, <2>1, <2>2 DEF Names, Positions
<1>5. Agreed'
  BY <1>1, <1>4 DEF Agreed
<1>6. ASSUME NEW v \in User, NEW i \in Positions(v),
             NEW e, e = outbox[v][i].id, ~outbox[v][i].isDeleted,
             NEW x \in User \ {v}, NEW k \in 1 .. Len(directory'[x])
      PROVE  directory'[x][k].id # e
  <2>1. /\ stored[e] = NoEntry
        /\ \A y \in User : \A j \in Positions(y) :
             outbox[y][j].id = e => y = v /\ i <= j
        /\ \A y \in User \ {v} : \A j \in 1 .. Len(directory[y]) :
             directory[y][j].id # e
    BY <1>1, <1>6 DEF Fresh
  <2>2. CASE k \in 1 .. Len(directory[x]) /\ directory'[x][k] = directory[x][k]
    BY <1>6, <2>1, <2>2
  <2>3. CASE x = u /\ directory'[x][k].id \in Entries(u)
    <3>1. SUFFICES ASSUME e \in Entries(u) PROVE FALSE
      BY <2>3
    <3>2. Local(u, e) # NoEntry /\ e \in EntryId
      BY <3>1 DEF Entries
    <3>3. PICK i0 \in Positions(u) : outbox[u][i0].id = e
      BY <1>1, <2>1, <3>2, LocalIs
    <3>4. QED
      BY <1>6, <2>1, <2>3, <3>3
  <2>4. QED
    BY <1>3, <1>6, <2>2, <2>3
<1>7. Fresh'
  BY <1>1, <1>6 DEF Fresh, Positions
<1>8. QueueMutual'
  <2>1. SUFFICES ASSUME NEW v \in User, NEW i \in Positions(v),
                        NEW e, e = outbox[v][i].id, Given(e)
                 PROVE  \/ PartnerStored(e)'
                        \/ entry[e].by = v /\ PartnerAhead(v, i, e)'
    BY <1>1 DEF QueueMutual, Positions, Given
  <2>2. \/ PartnerStored(e)
        \/ entry[e].by = v /\ PartnerAhead(v, i, e)
    BY <1>1, <2>1 DEF QueueMutual
  <2>3. PartnerStored(e) => PartnerStored(e)'
    BY <1>1 DEF PartnerStored, Partner
  <2>4. PartnerAhead(v, i, e) => PartnerAhead(v, i, e)'
    BY <1>1 DEF PartnerAhead, Partner
  <2>5. QED
    BY <2>2, <2>3, <2>4
<1>9. ASSUME NEW v \in User, NEW k \in 1 .. Len(directory'[v]),
             NEW e, e = directory'[v][k].id
      PROVE  entry[e].owner = v /\ (Given(e) => PartnerStored(e))
  <2>1. CASE k \in 1 .. Len(directory[v]) /\ directory'[v][k] = directory[v][k]
    BY <1>1, <1>9, <2>1 DEF DirectoryMutual
  <2>2. CASE v = u /\ e \in Entries(u)
    BY <2>2, KnownEntry
  <2>3. QED
    BY <1>3, <1>9, <2>1, <2>2
<1>10. DirectoryMutual'
  BY <1>1, <1>9 DEF DirectoryMutual, Given, PartnerStored, Partner
<1>11. EntriesAreMutual'
  BY <1>1 DEF EntriesAreMutual
<1>12. QED
  BY <1>2, <1>5, <1>7, <1>8, <1>10, <1>11 DEF DInv

-----------------------------------------------------------------------------
(* What a press writes.                                                    *)

\* Writes of a press on the row of c: removals of loaded items, and the two
\* entries, the own one first.
Removal(u, w) ==
  \E k \in 1 .. Len(directory[u]) :
    w = [id |-> directory[u][k].id, friendId |-> directory[u][k].friendId,
         isDeleted |-> TRUE]

Pressed(u, c, own, other, writes) ==
  \E q \in Nat \ {0} : \A i \in 1 .. Len(writes) :
    \/ Removal(u, writes[i])
    \/ i = q /\ writes[i] = NewEntry(own, c)
    \/ /\ i = q + 1
       /\ writes[i] = NewEntry(other, u) /\ writes[q] = NewEntry(own, c)

Effect(ws, fs, ms, fl) ==
  [writes |-> ws, friends |-> fs, marked |-> ms, failed |-> fl]

LEMMA AddEffect ==
  ASSUME NEW u, NEW c, NEW own, NEW other, NEW ws, NEW fs, NEW ms, NEW fl
  PROVE  addlist(u, c, own, other, Effect(ws, fs, ms, fl))
           = Effect(ws \o <<NewEntry(own, c), NewEntry(other, u)>>,
                    fs (+) SetToBag({c}), ms, fl)
<1> DEFINE added == <<NewEntry(own, c), NewEntry(other, u)>>
<1>1. addlist(u, c, own, other, Effect(ws, fs, ms, fl))
        = [Effect(ws, fs, ms, fl) EXCEPT
             !.writes = Effect(ws, fs, ms, fl).writes \o added,
             !.friends = Effect(ws, fs, ms, fl).friends (+) SetToBag({c})]
  BY DEF addlist
<1> HIDE DEF added
<1>2. ASSUME NEW more, NEW friends
      PROVE  [Effect(ws, fs, ms, fl) EXCEPT !.writes = more, !.friends = friends]
               = Effect(more, friends, ms, fl)
  <2>1. [Effect(ws, fs, ms, fl) EXCEPT !.writes = more] = Effect(more, fs, ms, fl)
    BY DEF Effect
  <2>2. [Effect(more, fs, ms, fl) EXCEPT !.friends = friends]
          = Effect(more, friends, ms, fl)
    BY DEF Effect
  <2>3. QED
    BY <2>1, <2>2
<1>3. Effect(ws, fs, ms, fl).writes = ws /\ Effect(ws, fs, ms, fl).friends = fs
  BY DEF Effect
<1>4. QED
  BY <1>1, <1>2, <1>3 DEF added

\* An effect whose writes are ws, or one removal more.
AfterRemoval(u, ws, effect) ==
  \E fs, ms, fl :
    /\ fl \in BOOLEAN
    /\ \/ effect = Effect(ws, fs, ms, fl)
       \/ \E w : Removal(u, w) /\ effect = Effect(Append(ws, w), fs, ms, fl)

LEMMA RemoveEffect ==
  ASSUME DocumentTypes, NEW u \in User, NEW c, NEW ws, NEW fs, NEW ms,
         NEW effect, effect = Effect(ws, fs, ms, FALSE)
  PROVE  AfterRemoval(u, ws, removeList(u, c, effect))
<1> DEFINE k == Row(u, c)
           d == directory[u][k]
           w == [id |-> d.id, friendId |-> d.friendId, isDeleted |-> TRUE]
<1>1. CASE k \notin DOMAIN directory[u]
  <2>1. removeList(u, c, effect) = Effect(ws, fs, ms, TRUE)
    BY <1>1 DEF removeList, Effect
  <2>2. QED
    BY <2>1 DEF AfterRemoval
<1>2. CASE k \in DOMAIN directory[u]
  <2>1. removeList(u, c, effect)
          = Effect(Append(ws, w), fs (-) SetToBag({c}), ms \cup {<<c, d.friendId>>},
                   ~BagIn(c, fs))
    BY <1>2 DEF removeList, Effect
  <2>2. Removal(u, w)
    BY <1>2, Ranges DEF Removal
  <2>3. ASSUME NEW friends, NEW marks, NEW failed \in BOOLEAN,
               removeList(u, c, effect) = Effect(Append(ws, w), friends, marks, failed)
        PROVE  AfterRemoval(u, ws, removeList(u, c, effect))
    BY <2>2, <2>3 DEF AfterRemoval
  <2>4. QED
    BY <2>1, <2>3
<1>3. QED
  BY <1>1, <1>2

Removals(u, ws) == \A i \in 1 .. Len(ws) : Removal(u, ws[i])

\* What handlers that only remove have done, and what any handlers have.
Removed(u, effect) ==
  \E ws, fs, ms, fl :
    /\ ws \in Seq(Write) /\ fl \in BOOLEAN /\ effect = Effect(ws, fs, ms, fl)
    /\ Removals(u, ws)

Done(u, c, own, other, effect) ==
  \E ws, fs, ms, fl :
    /\ ws \in Seq(Write) /\ fl \in BOOLEAN /\ effect = Effect(ws, fs, ms, fl)
    /\ Pressed(u, c, own, other, ws)

LEMMA RemovalIsWrite ==
  ASSUME DocumentTypes, NEW u \in User, NEW w, Removal(u, w)
  PROVE  w \in Write
<1>1. PICK k \in 1 .. Len(directory[u]) :
        w = [id |-> directory[u][k].id, friendId |-> directory[u][k].friendId,
             isDeleted |-> TRUE]
  BY DEF Removal
<1>2. directory[u][k].id \in EntryId /\ directory[u][k].friendId \in User
  BY Ranges
<1>3. QED
  BY <1>1, <1>2 DEF Write

LEMMA NothingDone ==
  ASSUME NEW u \in User
  PROVE  Removed(u, NoEffect(u)) /\ NoEffect(u).failed = FALSE
<1>1. NoEffect(u) = Effect(<<>>, allFriends[u], {}, FALSE)
  BY DEF NoEffect, Effect
<1>2. <<>> \in Seq(Write) /\ Len(<<>>) = 0
  BY EmptySeq
<1>3. Removals(u, <<>>)
  BY <1>2 DEF Removals
<1>4. Effect(<<>>, allFriends[u], {}, FALSE).failed = FALSE
  BY DEF Effect
<1>5. QED
  BY <1>1, <1>2, <1>3, <1>4 DEF Removed

LEMMA RemovedIsDone ==
  ASSUME NEW u, NEW c, NEW own, NEW other, NEW effect, Removed(u, effect)
  PROVE  Done(u, c, own, other, effect)
<1>1. \A ws : Removals(u, ws) => Pressed(u, c, own, other, ws)
  BY DEF Removals, Pressed
<1>2. QED
  BY <1>1 DEF Removed, Done

LEMMA RemoveRemoves ==
  ASSUME DocumentTypes, NEW u \in User, NEW c, NEW effect,
         Removed(u, effect), ~effect.failed
  PROVE  Removed(u, removeList(u, c, effect))
<1>1. PICK ws, fs, ms, fl :
        /\ ws \in Seq(Write) /\ fl \in BOOLEAN /\ effect = Effect(ws, fs, ms, fl)
        /\ Removals(u, ws)
  BY DEF Removed
<1>2. effect = Effect(ws, fs, ms, FALSE)
  BY <1>1 DEF Effect
<1>3. ASSUME NEW friends, NEW marks, NEW failed \in BOOLEAN,
             removeList(u, c, effect) = Effect(ws, friends, marks, failed)
      PROVE  Removed(u, removeList(u, c, effect))
  BY <1>1, <1>3 DEF Removed
<1>4. ASSUME NEW friends, NEW marks, NEW failed \in BOOLEAN, NEW w, Removal(u, w),
             removeList(u, c, effect) = Effect(Append(ws, w), friends, marks, failed)
      PROVE  Removed(u, removeList(u, c, effect))
  <2>1. w \in Write
    BY <1>4, RemovalIsWrite
  <2>2. /\ Append(ws, w) \in Seq(Write) /\ Len(Append(ws, w)) = Len(ws) + 1
        /\ Len(ws) \in Nat
        /\ \A i \in 1 .. Len(ws) : Append(ws, w)[i] = ws[i]
        /\ Append(ws, w)[Len(ws) + 1] = w
    BY <1>1, <2>1, AppendProperties
  <2>3. Removals(u, Append(ws, w))
    BY <1>1, <1>4, <2>2 DEF Removals
  <2>4. QED
    BY <1>4, <2>2, <2>3 DEF Removed
<1>5. AfterRemoval(u, ws, removeList(u, c, effect))
  BY <1>2, RemoveEffect
<1>6. QED
  BY <1>3, <1>4, <1>5 DEF AfterRemoval

LEMMA RemoveDone ==
  ASSUME DocumentTypes, NEW u \in User, NEW c, NEW own, NEW other, NEW effect,
         Done(u, c, own, other, effect), ~effect.failed
  PROVE  Done(u, c, own, other, removeList(u, c, effect))
<1>1. PICK ws, fs, ms, fl :
        /\ ws \in Seq(Write) /\ fl \in BOOLEAN /\ effect = Effect(ws, fs, ms, fl)
        /\ Pressed(u, c, own, other, ws)
  BY DEF Done
<1>2. effect = Effect(ws, fs, ms, FALSE)
  BY <1>1 DEF Effect
<1>3. ASSUME NEW friends, NEW marks, NEW failed \in BOOLEAN,
             removeList(u, c, effect) = Effect(ws, friends, marks, failed)
      PROVE  Done(u, c, own, other, removeList(u, c, effect))
  BY <1>1, <1>3 DEF Done
<1>4. ASSUME NEW friends, NEW marks, NEW failed \in BOOLEAN, NEW w, Removal(u, w),
             removeList(u, c, effect) = Effect(Append(ws, w), friends, marks, failed)
      PROVE  Done(u, c, own, other, removeList(u, c, effect))
  <2>1. w \in Write
    BY <1>4, RemovalIsWrite
  <2>2. /\ Append(ws, w) \in Seq(Write) /\ Len(Append(ws, w)) = Len(ws) + 1
        /\ Len(ws) \in Nat
        /\ \A i \in 1 .. Len(ws) : Append(ws, w)[i] = ws[i]
        /\ Append(ws, w)[Len(ws) + 1] = w
    BY <1>1, <2>1, AppendProperties
  <2>3. PICK q \in Nat \ {0} : \A i \in 1 .. Len(ws) :
          \/ Removal(u, ws[i])
          \/ i = q /\ ws[i] = NewEntry(own, c)
          \/ i = q + 1 /\ ws[i] = NewEntry(other, u) /\ ws[q] = NewEntry(own, c)
    BY <1>1 DEF Pressed
  <2>4. ASSUME NEW i \in 1 .. Len(Append(ws, w)), NEW all, all = Append(ws, w)
        PROVE  \/ Removal(u, all[i])
               \/ i = q /\ all[i] = NewEntry(own, c)
               \/ /\ i = q + 1
                  /\ all[i] = NewEntry(other, u) /\ all[q] = NewEntry(own, c)
    <3>1. CASE i = Len(ws) + 1
      BY <1>4, <2>2, <2>4, <3>1
    <3>2. CASE i \in 1 .. Len(ws)
      <4>1. all[i] = ws[i]
        BY <2>2, <2>4, <3>2
      <4>2. i = q + 1 => all[q] = ws[q]
        BY <2>2, <2>4, <3>2
      <4>3. QED
        BY <2>3, <3>2, <4>1, <4>2
    <3>3. QED
      BY <2>2, <2>4, <3>1, <3>2
  <2>5. Pressed(u, c, own, other, Append(ws, w))
    BY <2>4 DEF Pressed
  <2>6. QED
    BY <1>4, <2>2, <2>5 DEF Done
<1>5. AfterRemoval(u, ws, removeList(u, c, effect))
  BY <1>2, RemoveEffect
<1>6. QED
  BY <1>3, <1>4, <1>5 DEF AfterRemoval

LEMMA AddDone ==
  ASSUME NEW u \in User, NEW c \in User,
         NEW own \in EntryId, NEW other \in EntryId, NEW effect, Removed(u, effect)
  PROVE  Done(u, c, own, other, addlist(u, c, own, other, effect))
<1>1. PICK ws, fs, ms, fl :
        /\ ws \in Seq(Write) /\ fl \in BOOLEAN /\ effect = Effect(ws, fs, ms, fl)
        /\ Removals(u, ws)
  BY DEF Removed
<1> DEFINE first == NewEntry(own, c)
           second == NewEntry(other, u)
           all == ws \o <<first, second>>
<1>2. first \in Write /\ second \in Write
  BY DEF NewEntry, Write
<1> HIDE DEF first, second
<1>3. Len(ws) \in Nat
  BY <1>1, LenProperties
<1>4. /\ <<first, second>> \in Seq(Write) /\ Len(<<first, second>>) = 2
      /\ <<first, second>>[1] = first /\ <<first, second>>[2] = second
  BY <1>2
<1>5. /\ all \in Seq(Write) /\ Len(all) = Len(ws) + 2
      /\ \A i \in 1 .. Len(ws) + 2 :
           all[i] = IF i <= Len(ws) THEN ws[i] ELSE <<first, second>>[i - Len(ws)]
  BY <1>1, <1>4, ConcatProperties
<1>6. /\ \A i \in 1 .. Len(ws) : all[i] = ws[i]
      /\ all[Len(ws) + 1] = first /\ all[Len(ws) + 2] = second
  BY <1>3, <1>4, <1>5
<1> HIDE DEF all
<1>7. \A i \in 1 .. Len(all) :
        \/ Removal(u, all[i])
        \/ i = Len(ws) + 1 /\ all[i] = first
        \/ i = Len(ws) + 2 /\ all[i] = second /\ all[Len(ws) + 1] = first
  BY <1>1, <1>3, <1>5, <1>6 DEF Removals
<1>8. Pressed(u, c, own, other, all)
  <2>1. Len(ws) + 1 \in Nat \ {0} /\ Len(ws) + 2 = Len(ws) + 1 + 1
    BY <1>3
  <2>2. QED
    BY <1>7, <2>1 DEF Pressed, first, second
<1>9. addlist(u, c, own, other, effect)
        = Effect(all, fs (+) SetToBag({c}), ms, fl)
  BY <1>1, AddEffect DEF all, first, second
<1>10. QED
  BY <1>1, <1>5, <1>8, <1>9 DEF Done

LEMMA HandleDone ==
  ASSUME DocumentTypes, NEW u \in User, NEW c \in User,
         NEW own \in EntryId, NEW other \in EntryId, NEW h, NEW effect
  PROVE  /\ Removed(u, effect) =>
              /\ Done(u, c, own, other, Handle(u, c, own, other, effect, h))
              /\ h # "addlist" => Removed(u, Handle(u, c, own, other, effect, h))
         /\ Done(u, c, own, other, effect) /\ h # "addlist" =>
              Done(u, c, own, other, Handle(u, c, own, other, effect, h))
<1>1. CASE effect.failed
  BY <1>1, RemovedIsDone DEF Handle
<1>2. CASE ~effect.failed /\ h = "addlist"
  <2>1. Handle(u, c, own, other, effect, h) = addlist(u, c, own, other, effect)
    BY <1>2 DEF Handle
  <2>2. QED
    BY <1>2, <2>1, AddDone
<1>3. CASE ~effect.failed /\ h # "addlist"
  <2>1. Handle(u, c, own, other, effect, h) = removeList(u, c, effect)
    BY <1>3 DEF Handle
  <2>2. Removed(u, effect) => Removed(u, removeList(u, c, effect))
    BY <1>3, RemoveRemoves
  <2>3. Done(u, c, own, other, effect) =>
          Done(u, c, own, other, removeList(u, c, effect))
    BY <1>3, RemoveDone
  <2>4. Removed(u, removeList(u, c, effect)) =>
          Done(u, c, own, other, removeList(u, c, effect))
    BY RemovedIsDone
  <2>5. QED
    BY <2>1, <2>2, <2>3, <2>4
<1>4. QED
  BY <1>1, <1>2, <1>3

\* A press never adds twice.
LEMMA RunDone ==
  ASSUME DocumentTypes, NEW u \in User, NEW c \in User,
         NEW own \in EntryId, NEW other \in EntryId,
         NEW handlers \in Handlers(u, c)
  PROVE  Done(u, c, own, other, Run(u, c, handlers, own, other))
<1> DEFINE first == Handle(u, c, own, other, NoEffect(u), handlers[1])
<1>1. /\ Done(u, c, own, other, first)
      /\ handlers[1] # "addlist" => Removed(u, first)
  BY NothingDone, HandleDone
<1> HIDE DEF first
<1>2. CASE Len(handlers) = 1
  BY <1>1, <1>2 DEF Run, first
<1>3. ASSUME NEW g, NEW h, handlers = <<g, h>>, g # h
      PROVE  Done(u, c, own, other, Run(u, c, handlers, own, other))
  <2>1. Run(u, c, handlers, own, other) = Handle(u, c, own, other, first, h)
    BY <1>3 DEF Run, first
  <2>2. g # "addlist" => Removed(u, first)
    BY <1>1, <1>3
  <2>3. CASE g # "addlist"
    BY <2>1, <2>2, <2>3, HandleDone
  <2>4. CASE h # "addlist"
    BY <1>1, <2>1, <2>4, HandleDone
  <2>5. QED
    BY <1>3, <2>3, <2>4
<1>4. \/ Len(handlers) = 1
      \/ \E g, h : handlers = <<g, h>> /\ g # h
  BY DEF Handlers
<1>5. QED
  BY <1>2, <1>3, <1>4

-----------------------------------------------------------------------------
(* Presses, and the ends of the app.                                       *)

\* The device's queue after writes that may be lost with the process.
LEMMA QueueAfter ==
  ASSUME DocumentTypes, NEW u \in User, NEW ws \in Seq(Write),
         NEW n \in 0 .. Len(outbox[u]) + Len(ws),
         \/ outbox' = [outbox EXCEPT ![u] = SubSeq(outbox[u] \o ws, 1, n)]
         \/ outbox' = [outbox EXCEPT ![u] = outbox[u] \o ws]
  PROVE  /\ outbox' \in [User -> Seq(Write)]
         /\ \A v \in User \ {u} : outbox'[v] = outbox[v]
         /\ Len(outbox'[u]) \in 0 .. Len(outbox[u]) + Len(ws)
         /\ \A i \in 1 .. Len(outbox'[u]) :
              outbox'[u][i] = IF i <= Len(outbox[u]) THEN outbox[u][i]
                              ELSE ws[i - Len(outbox[u])]
<1> DEFINE all == outbox[u] \o ws
<1>1. /\ outbox \in [User -> Seq(Write)]
      /\ outbox[u] \in Seq(Write) /\ Len(outbox[u]) \in Nat /\ Len(ws) \in Nat
  BY LenProperties DEF DocumentTypes
<1>2. /\ all \in Seq(Write) /\ Len(all) = Len(outbox[u]) + Len(ws)
      /\ \A i \in 1 .. Len(outbox[u]) + Len(ws) :
           all[i] = IF i <= Len(outbox[u]) THEN outbox[u][i]
                    ELSE ws[i - Len(outbox[u])]
  BY <1>1, ConcatProperties
<1> HIDE DEF all
<1>3. CASE outbox' = [outbox EXCEPT ![u] = all]
  BY <1>1, <1>2, <1>3
<1>4. CASE outbox' = [outbox EXCEPT ![u] = SubSeq(all, 1, n)]
  <2>1. /\ SubSeq(all, 1, n) \in Seq(Write) /\ Len(SubSeq(all, 1, n)) = n
        /\ \A i \in 1 .. n : SubSeq(all, 1, n)[i] = all[i]
    <3>1. n \in Nat /\ n <= Len(all)
      BY <1>1, <1>2
    <3>2. \A i \in 1 .. n : all[i] \in Write
      BY <1>2, <3>1, ElementOfSeq
    <3>3. SubSeq(all, 1, n) = [i \in 1 .. n |-> all[i]]
      BY <1>2, <3>1
    <3>4. QED
      BY <3>1, <3>2, <3>3, IsASeq, LenProperties
  <2>2. outbox'[u] = SubSeq(all, 1, n) /\ outbox' \in [User -> Seq(Write)]
    BY <1>1, <1>4, <2>1
  <2>3. QED
    BY <1>1, <1>2, <1>4, <2>1, <2>2
<1>5. QED
  BY <1>3, <1>4 DEF all

Cleared ==
  /\ directory' \in [User -> Seq(Item)]
  /\ \A v \in User : directory'[v] = directory[v] \/ Len(directory'[v]) = 0

LEMMA CloseClears ==
  ASSUME DocumentTypes, NEW u \in User,
         directory' = directory \/ directory' = [directory EXCEPT ![u] = <<>>]
  PROVE  Cleared
<1>1. directory \in [User -> Seq(Item)]
  BY DEF DocumentTypes
<1>2. <<>> \in Seq(Item) /\ Len(<<>>) = 0
  BY EmptySeq
<1>3. QED
  BY <1>1, <1>2 DEF Cleared

LEMMA FinishFacts ==
  ASSUME DocumentTypes, NEW u \in User, NEW ws \in Seq(Write), NEW effect,
         effect.writes = ws, Finish(u, effect)
  PROVE  /\ stored' = stored /\ Cleared
         /\ outbox' \in [User -> Seq(Write)]
         /\ \A v \in User \ {u} : outbox'[v] = outbox[v]
         /\ Len(outbox'[u]) \in 0 .. Len(outbox[u]) + Len(ws)
         /\ \A i \in 1 .. Len(outbox'[u]) :
              outbox'[u][i] = IF i <= Len(outbox[u]) THEN outbox[u][i]
                              ELSE ws[i - Len(outbox[u])]
<1>1. Len(outbox[u]) \in Nat /\ Len(ws) \in Nat /\ outbox[u] \in Seq(Write)
  BY LenProperties DEF DocumentTypes
<1>2. stored' = stored
  BY DEF Finish
<1>3. CASE effect.failed
  <2>1. Ends(u, outbox[u] \o ws)
    BY <1>3 DEF Finish
  <2>2. directory' = [directory EXCEPT ![u] = <<>>]
    BY <2>1 DEF Ends, Close, Reset
  <2>3. Len(outbox[u] \o ws) = Len(outbox[u]) + Len(ws)
    BY <1>1, ConcatProperties
  <2>4. PICK n \in 0 .. Len(outbox[u]) + Len(ws) :
          outbox' = [outbox EXCEPT ![u] = SubSeq(outbox[u] \o ws, 1, n)]
    BY <2>1, <2>3 DEF Ends
  <2>5. QED
    BY <1>2, <2>2, <2>4, CloseClears, QueueAfter
<1>4. CASE ~effect.failed
  <2>1. outbox' = [outbox EXCEPT ![u] = outbox[u] \o ws] /\ directory' = directory
    BY <1>4 DEF Finish
  <2>2. 0 \in 0 .. Len(outbox[u]) + Len(ws)
    BY <1>1
  <2>3. QED
    BY <1>2, <2>1, <2>2, CloseClears, QueueAfter
<1>5. QED
  BY <1>3, <1>4

\* Positions in the writes of a press, and in the queue after it.
LEMMA QueuedRemoval ==
  ASSUME NEW u, NEW ws, NEW i, NEW j, outbox'[u][i] = ws[j], Removal(u, ws[j])
  PROVE  Removing(u, i)
  BY DEF Removal, Removing

LEMMA QueuedEntry ==
  ASSUME NEW u, NEW i, NEW e, NEW f, outbox'[u][i] = NewEntry(e, f)
  PROVE  Making(u, i, e, f)
  BY DEF NewEntry, Making

LEMMA RemovesWriting ==
  ASSUME DocumentTypes, NEW u \in User, NEW c \in User, PressRemoves(u, c)
  PROVE  DocumentTypes' /\ \E own, other, p : Writing(u, c, own, other, p)
<1>1. /\ Finish(u, removeList(u, c, NoEffect(u))) /\ entry' = entry
  BY DEF PressRemoves
<1>2. Removed(u, removeList(u, c, NoEffect(u)))
  BY NothingDone, RemoveRemoves
<1>3. PICK ws, fs, ms, fl :
        /\ ws \in Seq(Write) /\ removeList(u, c, NoEffect(u)) = Effect(ws, fs, ms, fl)
        /\ Removals(u, ws)
  BY <1>2 DEF Removed
<1>4. removeList(u, c, NoEffect(u)).writes = ws
  BY <1>3 DEF Effect
<1>5. /\ stored' = stored /\ Cleared
      /\ outbox' \in [User -> Seq(Write)]
      /\ \A v \in User \ {u} : outbox'[v] = outbox[v]
      /\ Len(outbox'[u]) \in 0 .. Len(outbox[u]) + Len(ws)
      /\ \A i \in 1 .. Len(outbox'[u]) :
           outbox'[u][i] = IF i <= Len(outbox[u]) THEN outbox[u][i]
                           ELSE ws[i - Len(outbox[u])]
  BY <1>1, <1>3, <1>4, FinishFacts
<1>6. Len(outbox[u]) \in Nat /\ Len(ws) \in Nat
  BY <1>3, LenProperties DEF DocumentTypes
<1>7. ASSUME NEW i \in 1 .. Len(outbox'[u]), i > Len(outbox[u])
      PROVE  Removing(u, i)
  <2>1. PICK j : j = i - Len(outbox[u])
    OBVIOUS
  <2>2. j \in 1 .. Len(ws)
    BY <1>5, <1>6, <1>7, <2>1
  <2>3. outbox'[u][i] = ws[j]
    BY <1>5, <1>6, <1>7, <2>1
  <2>4. QED
    BY <1>3, <2>2, <2>3, QueuedRemoval DEF Removals
<1>8. ASSUME NEW i \in 1 .. Len(outbox'[u]), i <= Len(outbox[u])
      PROVE  outbox'[u][i] = outbox[u][i]
  BY <1>5, <1>8
<1>9. Writing(u, c, c, c, c)
  BY <1>1, <1>5, <1>7, <1>8 DEF Writing, Cleared
<1>10. DocumentTypes'
  BY <1>1, <1>5 DEF DocumentTypes, Cleared
<1>11. QED
  BY <1>9, <1>10

LEMMA AddsWriting ==
  ASSUME DocumentTypes, NEW u \in User, NEW c \in User \ {u}, PressAdds(u, c)
  PROVE  DocumentTypes' /\ \E own, other, p : Writing(u, c, own, other, p)
<1>1. PICK handlers \in Handlers(u, c) :
        \E own, other \in {e \in EntryId : entry[e] = NoEntry} :
          /\ own # other
          /\ entry' = [entry EXCEPT ![own] = [owner |-> u, by |-> u],
                                    ![other] = [owner |-> c, by |-> u]]
          /\ Finish(u, Run(u, c, handlers, own, other))
  BY DEF PressAdds
<1>2. PICK own \in EntryId, other \in EntryId :
        /\ entry[own] = NoEntry /\ entry[other] = NoEntry /\ own # other
        /\ entry' = [entry EXCEPT ![own] = [owner |-> u, by |-> u],
                                  ![other] = [owner |-> c, by |-> u]]
        /\ Finish(u, Run(u, c, handlers, own, other))
  BY <1>1
<1>3. Done(u, c, own, other, Run(u, c, handlers, own, other))
  BY RunDone
<1>4. PICK ws, fs, ms, fl :
        /\ ws \in Seq(Write)
        /\ Run(u, c, handlers, own, other) = Effect(ws, fs, ms, fl)
        /\ Pressed(u, c, own, other, ws)
  BY <1>3 DEF Done
<1>5. Run(u, c, handlers, own, other).writes = ws
  BY <1>4 DEF Effect
<1>6. /\ stored' = stored /\ Cleared
      /\ outbox' \in [User -> Seq(Write)]
      /\ \A v \in User \ {u} : outbox'[v] = outbox[v]
      /\ Len(outbox'[u]) \in 0 .. Len(outbox[u]) + Len(ws)
      /\ \A i \in 1 .. Len(outbox'[u]) :
           outbox'[u][i] = IF i <= Len(outbox[u]) THEN outbox[u][i]
                           ELSE ws[i - Len(outbox[u])]
  BY <1>2, <1>4, <1>5, FinishFacts
<1>7. PICK q \in Nat \ {0} : \A i \in 1 .. Len(ws) :
        \/ Removal(u, ws[i])
        \/ i = q /\ ws[i] = NewEntry(own, c)
        \/ i = q + 1 /\ ws[i] = NewEntry(other, u) /\ ws[q] = NewEntry(own, c)
  BY <1>4 DEF Pressed
<1>8. Len(outbox[u]) \in Nat /\ Len(ws) \in Nat
  BY <1>4, LenProperties DEF DocumentTypes
<1>9. PICK p : p = Len(outbox[u]) + q
  OBVIOUS
<1>10. Adds(u, c, own, other, p)
  BY <1>2, <1>7, <1>8, <1>9 DEF Adds
<1>11. ASSUME NEW i \in 1 .. Len(outbox'[u]), i > Len(outbox[u])
       PROVE  \/ Removing(u, i)
              \/ i = p /\ Making(u, i, own, c)
              \/ i = p + 1 /\ Making(u, i, other, u) /\ Making(u, p, own, c)
  <2>1. PICK j : j = i - Len(outbox[u])
    OBVIOUS
  <2>2. j \in 1 .. Len(ws) /\ outbox'[u][i] = ws[j]
    BY <1>6, <1>8, <1>11, <2>1
  <2>3. CASE Removal(u, ws[j])
    BY <2>2, <2>3, QueuedRemoval
  <2>4. CASE j = q /\ ws[j] = NewEntry(own, c)
    BY <1>7, <1>8, <1>9, <2>1, <2>2, <2>4, QueuedEntry
  <2>5. CASE j = q + 1 /\ ws[j] = NewEntry(other, u) /\ ws[q] = NewEntry(own, c)
    <3>1. i = p + 1 /\ p \in 1 .. Len(outbox'[u]) /\ p > Len(outbox[u])
      BY SMTT(40), <1>6, <1>7, <1>8, <1>9, <2>1, <2>2, <2>5
    <3>2. outbox'[u][p] = ws[q]
      BY <1>6, <1>7, <1>8, <1>9, <3>1
    <3>3. Making(u, i, other, u) /\ Making(u, p, own, c)
      BY <2>2, <2>5, <3>2, QueuedEntry
    <3>4. QED
      BY <3>1, <3>3
  <2>6. QED
    BY <1>7, <2>2, <2>3, <2>4, <2>5
<1>12. ASSUME NEW i \in 1 .. Len(outbox'[u]), i <= Len(outbox[u])
       PROVE  outbox'[u][i] = outbox[u][i]
  BY <1>6, <1>12
<1>13. Writing(u, c, own, other, p)
  BY <1>6, <1>10, <1>11, <1>12 DEF Writing, Cleared
<1>14. entry' \in [EntryId -> Reference \cup {NoEntry}]
  BY <1>2 DEF DocumentTypes, Reference
<1>15. stored' \in [EntryId -> Document \cup {NoEntry}]
  BY <1>6 DEF DocumentTypes
<1>16. DocumentTypes'
  BY <1>6, <1>14, <1>15 DEF DocumentTypes, Cleared
<1>17. QED
  BY <1>13, <1>16

LEMMA PressWriting ==
  ASSUME DocumentTypes, NEW u \in User, Press(u)
  PROVE  DocumentTypes' /\ \E c, own, other, p : Writing(u, c, own, other, p)
<1>1. PICK c \in User \ {u} : PressAdds(u, c) \/ PressRemoves(u, c)
  BY DEF Press
<1>2. QED
  BY <1>1, AddsWriting, RemovesWriting

\* Steps that queue nothing.
LEMMA QuietWriting ==
  ASSUME DocumentTypes, NEW u \in User, Cleared,
         entry' = entry, stored' = stored, outbox' = outbox
  PROVE  DocumentTypes' /\ \E c, own, other, p : Writing(u, c, own, other, p)
<1>1. DocumentTypes'
  BY DEF DocumentTypes, Cleared
<1>2. Len(outbox[u]) \in Nat
  BY LenProperties DEF DocumentTypes
<1>3. Writing(u, u, u, u, u)
  BY <1>2 DEF Writing, Cleared
<1>4. QED
  BY <1>1, <1>3

LEMMA KillWriting ==
  ASSUME DocumentTypes, NEW u \in User, Kill(u)
  PROVE  DocumentTypes' /\ \E c, own, other, p : Writing(u, c, own, other, p)
<1>1. entry' = entry /\ stored' = stored /\ Ends(u, outbox[u])
  BY DEF Kill
<1>2. Cleared
  BY <1>1, CloseClears DEF Ends, Close, Reset
<1>3. outbox[u] \in Seq(Write) /\ Len(outbox[u]) \in Nat
  BY LenProperties DEF DocumentTypes
<1>4. <<>> \in Seq(Write) /\ Len(<<>>) = 0 /\ outbox[u] \o <<>> = outbox[u]
  BY <1>3, EmptySeq, ConcatEmptySeq
<1>5. PICK n \in 0 .. Len(outbox[u]) :
        outbox' = [outbox EXCEPT ![u] = SubSeq(outbox[u], 1, n)]
  BY <1>1 DEF Ends
<1>6. /\ outbox' \in [User -> Seq(Write)]
      /\ \A v \in User \ {u} : outbox'[v] = outbox[v]
      /\ Len(outbox'[u]) \in 0 .. Len(outbox[u]) + Len(<<>>)
      /\ \A i \in 1 .. Len(outbox'[u]) :
           outbox'[u][i] = IF i <= Len(outbox[u]) THEN outbox[u][i]
                           ELSE <<>>[i - Len(outbox[u])]
  <2>1. n \in 0 .. Len(outbox[u]) + Len(<<>>)
    BY <1>3, <1>4
  <2>2. outbox' = [outbox EXCEPT ![u] = SubSeq(outbox[u] \o <<>>, 1, n)]
    BY <1>4, <1>5
  <2>3. QED
    BY <1>4, <2>1, <2>2, QueueAfter
<1>7. \A i \in 1 .. Len(outbox'[u]) :
        i <= Len(outbox[u]) /\ outbox'[u][i] = outbox[u][i]
  BY <1>3, <1>4, <1>6
<1>8. DocumentTypes'
  BY <1>1, <1>2, <1>6 DEF DocumentTypes, Cleared
<1>9. Writing(u, u, u, u, u)
  BY <1>1, <1>2, <1>3, <1>6, <1>7 DEF Writing, Cleared
<1>10. QED
  BY <1>8, <1>9

\* Every step but the arrival of entries and the backend's is of this kind.
LEMMA StepWriting ==
  ASSUME DocumentTypes, NEW u \in User,
         \/ ViewWillAppear(u) \/ BackButton(u) \/ Kill(u)
         \/ ContactsLoaded(u) \/ QueryFails(u) \/ FriendLoaded(u)
         \/ Press(u) \/ UNCHANGED vars
  PROVE  DocumentTypes' /\ \E c, own, other, p : Writing(u, c, own, other, p)
<1>1. CASE ViewWillAppear(u)
  BY <1>1, CloseClears, QuietWriting DEF ViewWillAppear, Reset, documents
<1>2. CASE BackButton(u)
  BY <1>2, CloseClears, QuietWriting DEF BackButton, Close, Reset, documents
<1>3. CASE Kill(u)
  BY <1>3, KillWriting
<1>4. CASE ContactsLoaded(u)
  BY <1>4, CloseClears, QuietWriting DEF ContactsLoaded, documents
<1>5. CASE QueryFails(u)
  BY <1>5, CloseClears, QuietWriting DEF QueryFails, documents
<1>6. CASE FriendLoaded(u)
  BY <1>6, CloseClears, QuietWriting DEF FriendLoaded, documents
<1>7. CASE Press(u)
  BY <1>7, PressWriting
<1>8. CASE UNCHANGED vars
  BY <1>8, CloseClears, QuietWriting DEF vars, documents, screen
<1>9. QED
  BY <1>1, <1>2, <1>3, <1>4, <1>5, <1>6, <1>7, <1>8

LEMMA StoredKeeps ==
  ASSUME stored' = stored
  PROVE  Keeps
  BY DEF Keeps

\* The invariant is inductive, and every step keeps the entries.
LEMMA StepKeeps ==
  ASSUME DInv, [Next]_vars
  PROVE  DInv' /\ Keeps
<1>1. DocumentTypes
  BY DEF DInv
<1>2. ASSUME NEW u \in User,
             \/ ViewWillAppear(u) \/ BackButton(u) \/ Kill(u)
             \/ ContactsLoaded(u) \/ QueryFails(u) \/ FriendLoaded(u)
             \/ Press(u) \/ UNCHANGED vars
      PROVE  DInv' /\ Keeps
  <2>1. DocumentTypes'
    BY <1>1, <1>2, StepWriting
  <2>2. PICK c, own, other, p : Writing(u, c, own, other, p)
    BY <1>1, <1>2, StepWriting
  <2>3. stored' = stored
    BY <2>2 DEF Writing
  <2>4. QED
    BY <2>1, <2>2, <2>3, WritingStep, StoredKeeps
<1>3. ASSUME NEW u \in User, DirectoryLoaded(u)
      PROVE  DInv' /\ Keeps
  BY <1>3, LoadedStep, LoadedItems, StoredKeeps
<1>4. ASSUME NEW u \in User, Commit(u)
      PROVE  DInv' /\ Keeps
  BY <1>4, CommitStep, CommitKeeps
<1>5. User # {}
  BY DirectoryAssumption, FS_EmptySet
<1>6. QED
  BY <1>2, <1>3, <1>4, <1>5 DEF Next

-----------------------------------------------------------------------------
(* The beginning.                                                          *)

\* What an addition has left of its two entries.
Left(owner, by, f) ==
  [entry |-> [owner |-> owner, by |-> by],
   document |-> [friendId |-> f, isDeleted |-> FALSE]]

LEMMA PastLeft ==
  ASSUME NEW p \in past
  PROVE  /\ p.own \in EntryId /\ p.other \in EntryId
         /\ p.user \in User /\ p.friend \in User
         /\ Past(p.own) = Left(p.user, p.user, p.friend)
         /\ Past(p.other) = Left(p.friend, p.user, p.user)
<1>1. p \in [own : EntryId, other : EntryId, user : User, friend : User]
  BY DirectoryAssumption
<1>2. /\ \A q \in past : q.own = p.own => q = p
      /\ \A q \in past : q.other = p.other => q = p
      /\ \A q \in past : q.other # p.own /\ q.own # p.other
  BY DirectoryAssumption
<1>3. /\ {q \in past : q.own = p.own} = {p} /\ {q \in past : q.other = p.own} = {}
      /\ {q \in past : q.other = p.other} = {p} /\ {q \in past : q.own = p.other} = {}
  BY <1>2
<1>4. Past(p.own) = Left(p.user, p.user, p.friend)
  BY ZenonT(40), <1>3 DEF Past, Left
<1>5. Past(p.other) = Left(p.friend, p.user, p.user)
  BY ZenonT(40), <1>3 DEF Past, Left
<1>6. QED
  BY <1>1, <1>4, <1>5

LEMMA PastIs ==
  ASSUME NEW e \in EntryId
  PROVE  \/ Past(e) = [entry |-> NoEntry, document |-> NoEntry]
         \/ \E p \in past : e = p.own \/ e = p.other
<1>1. CASE \A p \in past : e # p.own /\ e # p.other
  <2>1. {q \in past : q.own = e} = {} /\ {q \in past : q.other = e} = {}
    BY <1>1
  <2>2. Past(e) = [entry |-> NoEntry, document |-> NoEntry]
    BY <2>1 DEF Past
  <2>3. QED
    BY <2>2
<1>2. QED
  BY <1>1

LEMMA LeftFields ==
  ASSUME NEW owner, NEW by, NEW f
  PROVE  /\ Left(owner, by, f).entry = [owner |-> owner, by |-> by]
         /\ Left(owner, by, f).document = [friendId |-> f, isDeleted |-> FALSE]
BY DEF Left

LEMMA Taken ==
  ASSUME NEW owner \in User, NEW by \in User
  PROVE  /\ [owner |-> owner, by |-> by] \in Reference
         /\ [owner |-> owner, by |-> by] # NoEntry
<1>1. NoEntry \notin Reference
  BY DirectoryAssumption DEF Reference
<1>2. QED
  BY <1>1 DEF Reference

LEMMA Written ==
  ASSUME NEW f \in User
  PROVE  /\ [friendId |-> f, isDeleted |-> FALSE] \in Document
         /\ [friendId |-> f, isDeleted |-> FALSE] # NoEntry
<1>1. [friendId |-> f, isDeleted |-> FALSE] \in [friendId : User, isDeleted : BOOLEAN]
  OBVIOUS
<1>2. NoEntry \notin Document
  BY DirectoryAssumption DEF Document
<1>3. QED
  BY <1>1, <1>2, Zenon DEF Document

LEMMA InitInv == Init => DInv
<1> SUFFICES ASSUME Init PROVE DInv
  OBVIOUS
<1>1. \A e \in EntryId : entry[e] = Past(e).entry /\ stored[e] = Past(e).document
  BY DEF Init
<1>2. \A u \in User : outbox[u] = <<>> /\ directory[u] = <<>>
  BY DEF Init
<1>3. \A u \in User : Len(outbox[u]) = 0 /\ Len(directory[u]) = 0
  BY <1>2
<1>4. ASSUME NEW p \in past
      PROVE  /\ p.own \in EntryId /\ p.other \in EntryId
             /\ p.user \in User /\ p.friend \in User
             /\ entry[p.own] = [owner |-> p.user, by |-> p.user]
             /\ entry[p.other] = [owner |-> p.friend, by |-> p.user]
             /\ stored[p.own] = [friendId |-> p.friend, isDeleted |-> FALSE]
             /\ entry[p.own] \in Reference /\ entry[p.other] \in Reference
             /\ entry[p.own] # NoEntry /\ entry[p.other] # NoEntry
             /\ stored[p.own] \in Document /\ stored[p.other] \in Document
             /\ stored[p.own] # NoEntry
  <2>1. /\ p.own \in EntryId /\ p.other \in EntryId
        /\ p.user \in User /\ p.friend \in User
        /\ Past(p.own) = Left(p.user, p.user, p.friend)
        /\ Past(p.other) = Left(p.friend, p.user, p.user)
    BY <1>4, PastLeft
  <2>2. /\ entry[p.own] = Left(p.user, p.user, p.friend).entry
        /\ entry[p.other] = Left(p.friend, p.user, p.user).entry
        /\ stored[p.own] = Left(p.user, p.user, p.friend).document
        /\ stored[p.other] = Left(p.friend, p.user, p.user).document
    BY <1>1, <2>1
  <2>3. /\ entry[p.own] = [owner |-> p.user, by |-> p.user]
        /\ stored[p.own] = [friendId |-> p.friend, isDeleted |-> FALSE]
    BY <2>2, LeftFields
  <2>4. /\ entry[p.other] = [owner |-> p.friend, by |-> p.user]
        /\ stored[p.other] = [friendId |-> p.user, isDeleted |-> FALSE]
    BY <2>2, LeftFields
  <2>5. /\ entry[p.own] \in Reference /\ entry[p.own] # NoEntry
        /\ entry[p.other] \in Reference /\ entry[p.other] # NoEntry
    BY <2>1, <2>3, <2>4, Taken, Zenon
  <2>6. /\ stored[p.own] \in Document /\ stored[p.own] # NoEntry
        /\ stored[p.other] \in Document
    BY <2>1, <2>3, <2>4, Written, Zenon
  <2>7. QED
    BY <2>1, <2>3, <2>4, <2>5, <2>6
<1>5. \A e \in EntryId :
        \/ entry[e] = NoEntry /\ stored[e] = NoEntry
        \/ \E p \in past : e = p.own \/ e = p.other
  BY <1>1, PastIs
<1>6. DocumentTypes
  <2>1. \A e \in EntryId : /\ entry[e] \in Reference \cup {NoEntry}
                           /\ stored[e] \in Document \cup {NoEntry}
    BY <1>4, <1>5
  <2>2. <<>> \in Seq(Write) /\ <<>> \in Seq(Item)
    BY EmptySeq
  <2>3. QED
    BY <2>1, <2>2 DEF DocumentTypes, Init
<1>7. Agreed
  <2>1. ASSUME NEW e \in EntryId, NEW f \in User, Names(e, f)
        PROVE  stored[e] # NoEntry /\ stored[e].friendId = f
    BY <1>3, <2>1 DEF Names, Positions
  <2>2. \A e \in EntryId : stored[e] # NoEntry => entry[e] # NoEntry
    BY <1>4, <1>5
  <2>3. QED
    BY <2>1, <2>2 DEF Agreed
<1>8. Fresh /\ QueueMutual /\ DirectoryMutual
  BY <1>3 DEF Fresh, QueueMutual, DirectoryMutual, Positions
<1>9. ASSUME NEW e \in EntryId, stored[e] # NoEntry, Given(e)
      PROVE  PartnerStored(e)
  <2>1. PICK p \in past : e = p.own \/ e = p.other
    BY <1>5, <1>9
  <2>2. entry[p.own] = [owner |-> p.user, by |-> p.user]
    BY <1>4
  <2>3. ~Given(p.own)
    BY <2>2 DEF Given
  <2>4. e = p.other
    BY <1>9, <2>1, <2>3
  <2>5. /\ entry[p.other] = [owner |-> p.friend, by |-> p.user]
        /\ stored[p.own] = [friendId |-> p.friend, isDeleted |-> FALSE]
        /\ stored[p.own] # NoEntry /\ p.own \in EntryId
    BY <1>4
  <2>6. entry[p.other].owner = p.friend /\ entry[p.other].by = p.user
    BY <2>5
  <2>7. stored[p.own].friendId = p.friend
    BY <2>5
  <2>8. Partner(p.own, stored[p.own].friendId, p.other)
    BY <2>2, <2>6, <2>7 DEF Partner
  <2>9. QED
    BY <2>4, <2>5, <2>8 DEF PartnerStored
<1>10. EntriesAreMutual
  BY <1>9, MutualMeans DEF MutualEntries
<1>11. QED
  BY <1>6, <1>7, <1>8, <1>10 DEF DInv

-----------------------------------------------------------------------------
\* The invariant holds of every behaviour: what is said of an entry, in the
\* backend, in a queue or in a loaded directory, agrees, and what is said of an
\* entry in somebody else's directory comes after the giver's own entry.
THEOREM InvariantHolds == Spec => []DInv
<1>1. Init => DInv
  BY InitInv
<1>2. DInv /\ [Next]_vars => DInv'
  BY StepKeeps
<1>3. QED
  BY <1>1, <1>2, PTL DEF Spec

\* Whom somebody else has put into a directory finds that user's own directory
\* naming them back: addlist writes the own entry first, and a device's writes
\* reach the backend in their order, also those of an app that has ended.
THEOREM EntriesStayMutual == Spec => []EntriesAreMutual
<1>1. DInv => EntriesAreMutual
  BY DEF DInv
<1>2. QED
  BY <1>1, InvariantHolds, PTL

\* An entry names the same friend for ever, and a removed one stays removed,
\* although addlist and removeList replace the whole document, with data that
\* may have been read long before.
THEOREM EntriesKeep == Spec => EntriesKeepFriend
<1>1. DInv /\ [Next]_vars => [Keeps]_vars
  BY StepKeeps
<1>2. QED
  BY <1>1, InvariantHolds, PTL DEF Spec, EntriesKeepFriend, Keeps

-----------------------------------------------------------------------------
(***************************************************************************)
(* The manager: what has been loaded, and what the table knows of it.      *)
(***************************************************************************)

\* An entry is never of its owner.
NotSelf ==
  \A e \in EntryId : \A f \in User : Names(e, f) => entry[e].owner # f

Screens ==
  /\ opens \in [User -> 0 .. MaxOpen]
  /\ presses \in 0 .. MaxPress
  /\ open \subseteq Manager
  /\ allContact \in [User -> {"none", "asked", "loaded"}]
  /\ \A u \in User : allContact[u] # "none" => u \in open
  /\ laidOut \subseteq open
  /\ targets \in [User -> SUBSET {"addlist", "removeList"}]
  /\ removals \subseteq User \X User
  /\ undisturbed \subseteq open

\* A bag of other users.
FriendBag(u, b) == IsABag(b) /\ DOMAIN b \subseteq User \ {u}

Load(w, t) == [asking |-> FALSE, waiting |-> w, tempFriend |-> t]

LoadOf(u, l) ==
  \/ l = Asking
  \/ \E w, t : l = Load(w, t) /\ FriendBag(u, w) /\ FriendBag(u, t)

\* The loads that are under way, and the friends the table knows.
LoadsOf(u, ls, af) ==
  /\ IsABag(ls)
  /\ \A l \in DOMAIN ls : LoadOf(u, l)
  /\ FriendBag(u, af)

Loads ==
  /\ DOMAIN loads = User
  /\ DOMAIN allFriends = User
  /\ \A u \in User : LoadsOf(u, loads[u], allFriends[u])

\* What a load has and what it waits for make up the friends.  The last one
\* leaves them all, and without friends none leaves anything.
LoadAgrees(l, friends) ==
  \/ l = Asking
  \/ \E w, t : l = Load(w, t) /\ w # EmptyBag /\ w (+) t = friends

SettledOn(ls, af, friends) ==
  /\ \A l \in DOMAIN ls : LoadAgrees(l, friends)
  /\ friends = EmptyBag => af = EmptyBag
  /\ ls = EmptyBag => af = friends

Settled(u) == SettledOn(loads[u], allFriends[u], Friends(u))

MInv == /\ DInv /\ NotSelf /\ Screens /\ Loads
        /\ \A u \in undisturbed : Settled(u)

-----------------------------------------------------------------------------
(* Bags.                                                                   *)

Copies(e, b) == IF e \in DOMAIN b THEN b[e] ELSE 0

\* Two bags with the same copies are equal.
LEMMA SameBag ==
  ASSUME NEW a, NEW b, IsABag(a), IsABag(b),
         \A e : Copies(e, a) = Copies(e, b)
  PROVE  a = b
<1>1. /\ a \in [DOMAIN a -> {n \in Nat : n > 0}]
      /\ b \in [DOMAIN b -> {n \in Nat : n > 0}]
  BY DEF IsABag
<1>2. \A e : /\ e \in DOMAIN a => Copies(e, a) = a[e]
             /\ e \notin DOMAIN a => Copies(e, a) = 0
             /\ e \in DOMAIN b => Copies(e, b) = b[e]
             /\ e \notin DOMAIN b => Copies(e, b) = 0
  BY DEF Copies
<1>3. /\ \A e \in DOMAIN a : a[e] \in Nat /\ a[e] > 0
      /\ \A e \in DOMAIN b : b[e] \in Nat /\ b[e] > 0
  BY <1>1
<1>4. \A e : e \in DOMAIN a <=> e \in DOMAIN b
  BY <1>2, <1>3
<1>5. DOMAIN a = DOMAIN b
  BY <1>4
<1>6. \A e \in DOMAIN a : a[e] = b[e]
  BY <1>2, <1>5
<1>7. QED
  BY <1>1, <1>5, <1>6

LEMMA EmptyBagIs ==
  /\ IsABag(EmptyBag) /\ DOMAIN EmptyBag = {}
  /\ \A e : Copies(e, EmptyBag) = 0
BY DEF EmptyBag, SetToBag, IsABag, Copies

\* A bag without members is the empty one.
LEMMA NoMembers ==
  ASSUME NEW b, IsABag(b), DOMAIN b = {}
  PROVE  b = EmptyBag
<1>1. \A e : Copies(e, b) = 0
  BY DEF Copies
<1>2. QED
  BY <1>1, EmptyBagIs, SameBag

LEMMA OneIs ==
  ASSUME NEW x
  PROVE  /\ IsABag(SetToBag({x})) /\ DOMAIN SetToBag({x}) = {x}
         /\ Copies(x, SetToBag({x})) = 1
         /\ \A e : e # x => Copies(e, SetToBag({x})) = 0
BY DEF SetToBag, IsABag, Copies

LEMMA CopiesAre ==
  ASSUME NEW b, IsABag(b), NEW e
  PROVE  /\ Copies(e, b) \in Nat
         /\ e \in DOMAIN b <=> Copies(e, b) > 0
<1>1. b \in [DOMAIN b -> {n \in Nat : n > 0}]
  BY DEF IsABag
<1>2. QED
  BY <1>1 DEF Copies

LEMMA PlusIs ==
  ASSUME NEW a, NEW b, IsABag(a), IsABag(b)
  PROVE  /\ IsABag(a (+) b)
         /\ DOMAIN (a (+) b) = DOMAIN a \cup DOMAIN b
         /\ \A e : Copies(e, a (+) b) = Copies(e, a) + Copies(e, b)
<1> DEFINE c == a (+) b
<1>1. c = [e \in DOMAIN a \cup DOMAIN b |->
             (IF e \in DOMAIN a THEN a[e] ELSE 0)
           + (IF e \in DOMAIN b THEN b[e] ELSE 0)]
  BY DEF (+)
<1>2. /\ \A e \in DOMAIN a : a[e] \in Nat /\ a[e] > 0
      /\ \A e \in DOMAIN b : b[e] \in Nat /\ b[e] > 0
  BY DEF IsABag
<1> HIDE DEF c
<1>3. DOMAIN c = DOMAIN a \cup DOMAIN b
  BY <1>1
<1>4. \A e \in DOMAIN c : c[e] = (IF e \in DOMAIN a THEN a[e] ELSE 0)
                                 + (IF e \in DOMAIN b THEN b[e] ELSE 0)
  BY <1>1
<1>5. \A e \in DOMAIN c : c[e] \in Nat /\ c[e] > 0
  BY <1>2, <1>3, <1>4
<1>6. c \in [DOMAIN c -> {n \in Nat : n > 0}]
  BY <1>1, <1>3, <1>5
<1>7. \A e : Copies(e, c) = Copies(e, a) + Copies(e, b)
  BY <1>2, <1>3, <1>4 DEF Copies
<1>8. QED
  BY <1>3, <1>6, <1>7 DEF IsABag, c

\* What is left of a bag without one x.
LEMMA WithoutIs ==
  ASSUME NEW b, IsABag(b), NEW x
  PROVE  /\ IsABag(b (-) SetToBag({x}))
         /\ DOMAIN (b (-) SetToBag({x})) \subseteq DOMAIN b
         /\ \A e : e # x => Copies(e, b (-) SetToBag({x})) = Copies(e, b)
         /\ x \in DOMAIN b =>
              Copies(x, b (-) SetToBag({x})) + 1 = Copies(x, b)
<1> DEFINE o == SetToBag({x})
           c == b (-) o
           all == [e \in DOMAIN b |-> IF e \in DOMAIN o THEN b[e] - o[e] ELSE b[e]]
           D == {d \in DOMAIN all : all[d] > 0}
<1>1. c = [d \in D |-> all[d]]
  BY DEF (-)
<1>2. \A e \in DOMAIN b : b[e] \in Nat /\ b[e] > 0
  BY DEF IsABag
<1>3. DOMAIN o = {x} /\ o[x] = 1
  BY DEF SetToBag
<1> HIDE DEF o, c
<1>4. /\ DOMAIN all = DOMAIN b
      /\ \A e \in DOMAIN b : all[e] = IF e = x THEN b[e] - 1 ELSE b[e]
  BY <1>3
<1> HIDE DEF all
<1>5. \A e \in DOMAIN b : all[e] \in Nat
  BY <1>2, <1>4
<1>6. /\ DOMAIN c = D /\ D \subseteq DOMAIN b
      /\ \A e \in D : c[e] = all[e]
  BY <1>1, <1>4
<1>7. IsABag(c)
  <2>1. \A e \in D : c[e] \in Nat /\ c[e] > 0
    BY <1>4, <1>5, <1>6
  <2>2. c \in [D -> {n \in Nat : n > 0}]
    BY <1>1, <1>6, <2>1
  <2>3. QED
    BY <1>6, <2>2 DEF IsABag
<1>8. \A e : e # x => Copies(e, c) = Copies(e, b)
  BY <1>2, <1>4, <1>6 DEF Copies
<1>9. x \in DOMAIN b => Copies(x, c) + 1 = Copies(x, b)
  BY <1>2, <1>4, <1>5, <1>6 DEF Copies
<1>10. QED
  BY <1>6, <1>7, <1>8, <1>9 DEF c, o

\* A friend that arrives leaves one bag and joins the other.
LEMMA MovedIs ==
  ASSUME NEW w, NEW t, IsABag(w), IsABag(t), NEW f \in DOMAIN w
  PROVE  (w (-) SetToBag({f})) (+) (t (+) SetToBag({f})) = w (+) t
<1> DEFINE o == SetToBag({f})
           v == w (-) o
           s == t (+) o
<1>1. /\ IsABag(v) /\ \A e : e # f => Copies(e, v) = Copies(e, w)
      /\ Copies(f, v) + 1 = Copies(f, w)
  BY WithoutIs
<1>2. /\ IsABag(s) /\ \A e : Copies(e, s) = Copies(e, t) + Copies(e, o)
  BY OneIs, PlusIs
<1>3. Copies(f, o) = 1 /\ \A e : e # f => Copies(e, o) = 0
  BY OneIs
<1> HIDE DEF o, v, s
<1>4. /\ IsABag(v (+) s) /\ IsABag(w (+) t)
      /\ \A e : Copies(e, v (+) s) = Copies(e, v) + Copies(e, s)
      /\ \A e : Copies(e, w (+) t) = Copies(e, w) + Copies(e, t)
  BY <1>1, <1>2, PlusIs
<1>5. ASSUME NEW e PROVE Copies(e, v (+) s) = Copies(e, w (+) t)
  <2>1. /\ Copies(e, v) \in Nat /\ Copies(e, t) \in Nat
        /\ Copies(e, w) \in Nat
    BY <1>1, CopiesAre
  <2>2. CASE e = f
    BY <1>1, <1>2, <1>3, <1>4, <2>1, <2>2
  <2>3. CASE e # f
    BY <1>1, <1>2, <1>3, <1>4, <2>1, <2>3
  <2>4. QED
    BY <2>2, <2>3
<1>6. v (+) s = w (+) t
  BY <1>4, <1>5, SameBag
<1>7. QED
  BY <1>6 DEF v, s, o

\* When the last one has arrived, the friends are there.
LEMMA NothingMissing ==
  ASSUME NEW t, IsABag(t)
  PROVE  EmptyBag (+) t = t /\ t (+) EmptyBag = t
<1>1. /\ IsABag(EmptyBag (+) t) /\ IsABag(t (+) EmptyBag)
      /\ \A e : Copies(e, EmptyBag (+) t) = Copies(e, EmptyBag) + Copies(e, t)
      /\ \A e : Copies(e, t (+) EmptyBag) = Copies(e, t) + Copies(e, EmptyBag)
  BY EmptyBagIs, PlusIs
<1>2. \A e : Copies(e, EmptyBag) = 0 /\ Copies(e, t) \in Nat
  BY EmptyBagIs, CopiesAre
<1>3. \A e : /\ Copies(e, EmptyBag (+) t) = Copies(e, t)
             /\ Copies(e, t (+) EmptyBag) = Copies(e, t)
  BY <1>1, <1>2
<1>4. QED
  BY <1>1, <1>3, SameBag

-----------------------------------------------------------------------------
(* What a device knows of its directory.                                   *)

\* The last write of a queue that is about e, or else the document.
LocalOf(queue, document, e) ==
  LET own == {i \in DOMAIN queue : queue[i].id = e}
      last == queue[Max(own)]
  IN  IF own = {} THEN document
      ELSE [friendId |-> last.friendId, isDeleted |-> last.isDeleted]

LEMMA MaxIs ==
  ASSUME NEW n \in Nat, NEW S \in SUBSET (1 .. n), NEW i \in S,
         \A j \in S : j <= i
  PROVE  Max(S) = i
<1>1. \A j \in S : i >= j
  OBVIOUS
<1>2. \A x \in S : (\A j \in S : x >= j) => x = i
  OBVIOUS
<1>3. QED
  BY <1>1, <1>2 DEF Max

LastOf(q, e, i) ==
  /\ i \in 1 .. Len(q) /\ q[i].id = e
  /\ \A j \in 1 .. Len(q) : q[j].id = e => j <= i

LEMMA LocalOfLast ==
  ASSUME NEW q \in Seq(Write), NEW d, NEW e, NEW i, LastOf(q, e, i)
  PROVE  LocalOf(q, d, e) = [friendId |-> q[i].friendId, isDeleted |-> q[i].isDeleted]
<1> DEFINE own == {j \in DOMAIN q : q[j].id = e}
<1>1. Len(q) \in Nat /\ DOMAIN q = 1 .. Len(q)
  BY LenProperties
<1>2. own \in SUBSET (1 .. Len(q)) /\ i \in own /\ \A j \in own : j <= i
  BY <1>1 DEF LastOf
<1>3. own # {} /\ LocalOf(q, d, e) = IF own = {} THEN d
        ELSE [friendId |-> q[Max(own)].friendId, isDeleted |-> q[Max(own)].isDeleted]
  BY <1>2 DEF LocalOf
<1> HIDE DEF own
<1>4. Max(own) = i
  BY <1>1, <1>2, MaxIs
<1>5. QED
  BY <1>3, <1>4

LEMMA LocalOfNone ==
  ASSUME NEW q \in Seq(Write), NEW d, NEW e,
         \A j \in 1 .. Len(q) : q[j].id # e
  PROVE  LocalOf(q, d, e) = d
<1>1. DOMAIN q = 1 .. Len(q)
  BY LenProperties
<1>2. {i \in DOMAIN q : q[i].id = e} = {}
  BY <1>1
<1>3. QED
  BY <1>2 DEF LocalOf

\* A queue that holds a write about e holds a last one.
LEMMA LastWrite ==
  ASSUME NEW q \in Seq(Write), NEW e, NEW k \in 1 .. Len(q), q[k].id = e
  PROVE  \E i \in 1 .. Len(q) :
           q[i].id = e /\ \A j \in 1 .. Len(q) : q[j].id = e => j <= i
<1> DEFINE n == Len(q)
           back == {n - i : i \in {j \in 1 .. n : q[j].id = e}}
<1>1. n \in Nat
  BY LenProperties
<1> HIDE DEF n
<1>2. back \in SUBSET Nat /\ back # {}
  <2>1. k \in 1 .. n
    BY DEF n
  <2>2. \A i \in 1 .. n : n - i \in Nat
    BY <1>1
  <2>3. QED
    BY <2>1, <2>2
<1>3. \A x : x \in back <=> \E i \in 1 .. n : q[i].id = e /\ x = n - i
  OBVIOUS
<1> HIDE DEF back
<1>4. PICK x \in back : \A y \in back : ~(y < x)
  BY <1>2, SmallestOf
<1>5. PICK i \in 1 .. n : q[i].id = e /\ x = n - i
  BY <1>3
<1>6. ASSUME NEW j \in 1 .. n, q[j].id = e PROVE j <= i
  <2>1. n - j \in back
    BY <1>3, <1>6
  <2>2. ~(n - j < n - i)
    BY <1>4, <1>5, <2>1
  <2>3. QED
    BY <1>1, <2>2
<1>7. QED
  BY <1>5, <1>6 DEF n

LEMMA LocalNow ==
  ASSUME NEW u, NEW e
  PROVE  /\ Local(u, e) = LocalOf(outbox[u], stored[e], e)
         /\ Local(u, e)' = LocalOf(outbox'[u], stored'[e], e)
BY DEF Local, LocalOf

LEMMA LocalLast ==
  ASSUME NEW u, NEW e, outbox[u] \in Seq(Write), NEW i \in 1 .. Len(outbox[u]),
         outbox[u][i].id = e,
         \A j \in 1 .. Len(outbox[u]) : outbox[u][j].id = e => j <= i
  PROVE  Local(u, e) = [friendId |-> outbox[u][i].friendId,
                        isDeleted |-> outbox[u][i].isDeleted]
<1>1. PICK q, d : q = outbox[u] /\ d = stored[e]
  OBVIOUS
<1>2. q \in Seq(Write) /\ LastOf(q, e, i)
  BY <1>1 DEF LastOf
<1>3. LocalOf(q, d, e) = [friendId |-> q[i].friendId, isDeleted |-> q[i].isDeleted]
  BY <1>2, LocalOfLast
<1>4. QED
  BY <1>1, <1>3, LocalNow

LEMMA LocalLastNext ==
  ASSUME NEW u, NEW e, outbox'[u] \in Seq(Write), NEW i \in 1 .. Len(outbox'[u]),
         outbox'[u][i].id = e,
         \A j \in 1 .. Len(outbox'[u]) : outbox'[u][j].id = e => j <= i
  PROVE  Local(u, e)' = [friendId |-> outbox'[u][i].friendId,
                         isDeleted |-> outbox'[u][i].isDeleted]
<1>1. PICK q, d : q = outbox'[u] /\ d = stored'[e]
  OBVIOUS
<1>2. q \in Seq(Write) /\ LastOf(q, e, i)
  BY <1>1 DEF LastOf
<1>3. LocalOf(q, d, e) = [friendId |-> q[i].friendId, isDeleted |-> q[i].isDeleted]
  BY <1>2, LocalOfLast
<1>4. QED
  BY <1>1, <1>3, LocalNow

\* The backend's step changes nothing for the device whose write it applies,
\* and for the others no more than that document.
LEMMA CommitLocal ==
  ASSUME DInv, NEW u \in User, Commit(u), NEW v \in User, NEW e \in EntryId,
         v = u \/ e # outbox[u][1].id
  PROVE  Local(v, e)' = Local(v, e)
<1>1. /\ 1 \in Positions(u) /\ outbox[u][1] \in Write
      /\ stored' = [stored EXCEPT ![outbox[u][1].id] =
                      [friendId |-> outbox[u][1].friendId,
                       isDeleted |-> outbox[u][1].isDeleted]]
      /\ outbox' \in [User -> Seq(Write)]
      /\ \A x \in User : \A i \in 1 .. Len(outbox'[x]) :
           /\ i \in Nat /\ Before(u, x, i) \in Positions(x)
           /\ outbox'[x][i] = outbox[x][Before(u, x, i)]
      /\ \A x \in User : \A j \in Positions(x) :
           \/ x = u /\ j = 1
           \/ \E i \in 1 .. Len(outbox'[x]) : j = Before(u, x, i)
  BY CommitFacts
<1>2. /\ outbox \in [User -> Seq(Write)]
      /\ stored \in [EntryId -> Document \cup {NoEntry}]
  BY DEF DInv, DocumentTypes
<1>3. outbox[v] \in Seq(Write) /\ outbox'[v] \in Seq(Write)
  BY <1>1, <1>2
<1>4. e # outbox[u][1].id => stored'[e] = stored[e]
  BY <1>1, <1>2
<1>5. CASE \A j \in 1 .. Len(outbox[v]) : outbox[v][j].id # e
  <2>1. ASSUME NEW i \in 1 .. Len(outbox'[v]) PROVE outbox'[v][i].id # e
    <3>1. /\ Before(u, v, i) \in 1 .. Len(outbox[v])
          /\ outbox'[v][i] = outbox[v][Before(u, v, i)]
      BY <1>1 DEF Positions
    <3>2. QED
      BY <1>5, <3>1
  <2>2. stored'[e] = stored[e]
    BY <1>1, <1>4, <1>5 DEF Positions
  <2>3. QED
    BY <1>3, <1>5, <2>1, <2>2, LocalNow, LocalOfNone
<1>6. ASSUME NEW k \in 1 .. Len(outbox[v]), outbox[v][k].id = e
      PROVE  Local(v, e)' = Local(v, e)
  <2>1. PICK i \in 1 .. Len(outbox[v]) :
          /\ outbox[v][i].id = e
          /\ \A j \in 1 .. Len(outbox[v]) : outbox[v][j].id = e => j <= i
    BY <1>3, <1>6, LastWrite
  <2>2. Local(v, e) = [friendId |-> outbox[v][i].friendId,
                       isDeleted |-> outbox[v][i].isDeleted]
    BY <1>3, <2>1, LocalLast
  <2>3. CASE v = u /\ i = 1
    <3>1. \A j \in 1 .. Len(outbox'[v]) : outbox'[v][j].id # e
      <4>1. SUFFICES ASSUME NEW j \in 1 .. Len(outbox'[v]), outbox'[v][j].id = e
                     PROVE  FALSE
        OBVIOUS
      <4>2. /\ j \in Nat /\ j + 1 \in 1 .. Len(outbox[v])
            /\ outbox[v][j + 1].id = e
        BY <1>1, <2>3, <4>1 DEF Before, Positions
      <4>3. j + 1 <= 1
        BY <2>1, <2>3, <4>2
      <4>4. QED
        BY <4>1, <4>3
    <3>2. stored'[e] = [friendId |-> outbox[v][i].friendId,
                        isDeleted |-> outbox[v][i].isDeleted]
      BY <1>1, <1>2, <2>1, <2>3
    <3>3. QED
      BY SMTT(40), <1>3, <2>2, <3>1, <3>2, LocalNow, LocalOfNone
  <2>4. CASE ~(v = u /\ i = 1)
    <3>1. PICK j \in 1 .. Len(outbox'[v]) : i = Before(u, v, j)
      BY <1>1, <2>1, <2>4 DEF Positions
    <3>2. outbox'[v][j] = outbox[v][i]
      BY <1>1, <3>1
    <3>3. ASSUME NEW h \in 1 .. Len(outbox'[v]), outbox'[v][h].id = e
          PROVE  h <= j
      <4>1. /\ Before(u, v, h) \in 1 .. Len(outbox[v]) /\ h \in Nat
            /\ outbox[v][Before(u, v, h)].id = e
        BY <1>1, <3>3 DEF Positions
      <4>2. Before(u, v, h) <= Before(u, v, j)
        BY <2>1, <3>1, <4>1
      <4>3. j \in Nat
        BY <1>1, <3>1
      <4>4. QED
        BY <4>1, <4>2, <4>3 DEF Before
    <3>4. Local(v, e)' = [friendId |-> outbox[v][i].friendId,
                          isDeleted |-> outbox[v][i].isDeleted]
      <4>1. /\ j \in 1 .. Len(outbox'[v]) /\ outbox'[v][j].id = e
            /\ \A h \in 1 .. Len(outbox'[v]) : outbox'[v][h].id = e => h <= j
        BY <2>1, <3>2, <3>3
      <4>2. Local(v, e)' = [friendId |-> outbox'[v][j].friendId,
                            isDeleted |-> outbox'[v][j].isDeleted]
        BY <1>3, <4>1, LocalLastNext
      <4>3. QED
        BY <3>2, <4>2
    <3>5. QED
      BY <2>2, <3>4
  <2>5. QED
    BY <2>3, <2>4
<1>7. QED
  BY <1>5, <1>6

\* The friends are those of the entries.
LEMMA FriendsSame ==
  ASSUME NEW u, Entries(u)' = Entries(u),
         \A e \in Entries(u) : Local(u, e)' = Local(u, e)
  PROVE  Friends(u)' = Friends(u)
<1>1. Live(u)' = Live(u)
  BY DEF Live
<1>2. \A f : {e \in Live(u)' : Local(u, e)'.friendId = f}
               = {e \in Live(u) : Local(u, e).friendId = f}
  BY <1>1 DEF Live
<1>3. QED
  BY <1>2 DEF Friends

-----------------------------------------------------------------------------
(* Entries are never of their owner, and friends are other users.          *)

LEMMA WritingNotSelf ==
  ASSUME DInv, NotSelf, DocumentTypes', NEW u \in User,
         NEW c, NEW own, NEW other, NEW p, Writing(u, c, own, other, p)
  PROVE  NotSelf'
<1> SUFFICES ASSUME NEW e \in EntryId, NEW f \in User, Names(e, f)'
             PROVE  entry'[e].owner # f
  BY DEF NotSelf
<1>1. CASE Names(e, f)
  <2>1. entry[e].owner # f /\ entry[e] # NoEntry
    BY <1>1 DEF NotSelf, DInv, Agreed
  <2>2. QED
    BY <2>1, EntriesStay
<1>2. CASE Adds(u, c, own, other, p) /\ e = own /\ f = c
  <2>1. entry'[own] = [owner |-> u, by |-> u]
    BY <1>2, EntriesStay
  <2>2. c # u
    BY <1>2 DEF Adds
  <2>3. QED
    BY <1>2, <2>1, <2>2
<1>3. CASE Adds(u, c, own, other, p) /\ e = other /\ f = u
  <2>1. entry'[other] = [owner |-> c, by |-> u]
    BY <1>3, EntriesStay
  <2>2. c # u
    BY <1>3 DEF Adds
  <2>3. QED
    BY <1>3, <2>1, <2>2
<1>4. QED
  BY <1>1, <1>2, <1>3, NamesNow

LEMMA LoadedNotSelf ==
  ASSUME DInv, NotSelf, NEW u \in User, DirectoryLoaded(u)
  PROVE  NotSelf'
<1> SUFFICES ASSUME NEW e \in EntryId, NEW f \in User, Names(e, f)'
             PROVE  entry'[e].owner # f
  BY DEF NotSelf
<1>1. entry' = entry /\ stored' = stored /\ outbox' = outbox
  BY LoadedItems
<1>2. ASSUME NEW v \in User, NEW k \in 1 .. Len(directory'[v]),
             directory'[v][k].id = e, directory'[v][k].friendId = f
      PROVE  Names(e, f)
  <2>1. CASE k \in 1 .. Len(directory[v]) /\ directory'[v][k] = directory[v][k]
    BY <1>2, <2>1 DEF Names
  <2>2. CASE /\ v = u /\ directory'[v][k].id \in Entries(u)
             /\ directory'[v][k].friendId = Local(u, directory'[v][k].id).friendId
    BY <1>2, <2>2, KnownEntry
  <2>3. QED
    BY <1>2, <2>1, <2>2, LoadedItems
<1>3. Names(e, f)
  BY <1>1, <1>2 DEF Names, Positions
<1>4. QED
  BY <1>1, <1>3 DEF NotSelf

LEMMA CommitNotSelf ==
  ASSUME DInv, NotSelf, NEW u \in User, Commit(u)
  PROVE  NotSelf'
<1>1. /\ entry' = entry /\ directory' = directory /\ 1 \in Positions(u)
      /\ \A v \in User : \A i \in 1 .. Len(outbox'[v]) :
           /\ Before(u, v, i) \in Positions(v)
           /\ outbox'[v][i] = outbox[v][Before(u, v, i)]
  BY CommitFacts
<1>2. \A e \in EntryId : stored'[e] # NoEntry =>
        \/ stored[e] # NoEntry /\ stored'[e] = stored[e]
        \/ e = outbox[u][1].id /\ stored'[e].friendId = outbox[u][1].friendId
  BY CommitKeeps
<1> SUFFICES ASSUME NEW e \in EntryId, NEW f \in User, Names(e, f)'
             PROVE  entry'[e].owner # f
  BY DEF NotSelf
<1>3. CASE stored'[e] # NoEntry /\ stored'[e].friendId = f
  <2>1. Names(e, f)
    <3>1. CASE stored[e] # NoEntry /\ stored'[e] = stored[e]
      BY <1>3, <3>1 DEF Names
    <3>2. CASE /\ e = outbox[u][1].id
               /\ stored'[e].friendId = outbox[u][1].friendId
      BY <1>1, <1>3, <3>2 DEF Names
    <3>3. QED
      BY <1>3, <1>2, <3>1, <3>2
  <2>2. QED
    BY <1>1, <2>1 DEF NotSelf
<1>4. ASSUME NEW v \in User, NEW i \in 1 .. Len(outbox'[v]),
             outbox'[v][i].id = e, outbox'[v][i].friendId = f
      PROVE  entry'[e].owner # f
  <2>1. /\ Before(u, v, i) \in Positions(v)
        /\ outbox'[v][i] = outbox[v][Before(u, v, i)]
    BY <1>1, <1>4
  <2>2. Names(e, f)
    BY <1>4, <2>1 DEF Names
  <2>3. QED
    BY <1>1, <2>2 DEF NotSelf
<1>5. ASSUME NEW v \in User, NEW k \in 1 .. Len(directory'[v]),
             directory'[v][k].id = e, directory'[v][k].friendId = f
      PROVE  entry'[e].owner # f
  <2>1. Names(e, f)
    BY <1>1, <1>5 DEF Names
  <2>2. QED
    BY <1>1, <2>1 DEF NotSelf
<1>6. QED
  BY <1>3, <1>4, <1>5 DEF Names, Positions

\* The entries that name f.
Naming(u, f) == {e \in Live(u) : Local(u, e).friendId = f}

LEMMA FriendsAre ==
  ASSUME DInv, NotSelf, NEW u \in User
  PROVE  /\ FriendBag(u, Friends(u))
         /\ Friends(u) = EmptyBag <=> Live(u) = {}
<1>1. /\ DOMAIN Friends(u) = {g \in User : Naming(u, g) # {}}
      /\ \A g \in DOMAIN Friends(u) : Friends(u)[g] = Cardinality(Naming(u, g))
      /\ Friends(u) = [f \in DOMAIN Friends(u) |-> Friends(u)[f]]
  BY DEF Friends, Naming
<1>2. \A g : Naming(u, g) \subseteq EntryId
  BY DEF Naming, Live, Entries
<1>3. ASSUME NEW g \in DOMAIN Friends(u)
      PROVE  Friends(u)[g] \in Nat /\ Friends(u)[g] > 0
  <2>1. IsFiniteSet(Naming(u, g)) /\ Naming(u, g) # {}
    BY <1>1, <1>2, DirectoryAssumption, FS_Subset
  <2>2. Cardinality(Naming(u, g)) \in Nat /\ Cardinality(Naming(u, g)) # 0
    BY <2>1, FS_CardinalityType, FS_EmptySet
  <2>3. QED
    BY <1>1, <2>2
<1>4. IsABag(Friends(u))
  BY <1>1, <1>3 DEF IsABag
<1>5. ASSUME NEW g \in DOMAIN Friends(u) PROVE g \in User \ {u}
  <2>1. PICK e \in Live(u) : Local(u, e).friendId = g
    BY <1>1 DEF Naming
  <2>2. e \in EntryId /\ entry[e].owner = u /\ Names(e, g) /\ g \in User
    BY <1>1, <2>1, KnownEntry DEF Live
  <2>3. QED
    BY <2>2 DEF NotSelf
<1>6. Live(u) = {} => DOMAIN Friends(u) = {}
  BY <1>1 DEF Naming
<1>7. ASSUME NEW e \in Live(u) PROVE DOMAIN Friends(u) # {}
  <2>1. Local(u, e).friendId \in User
    BY KnownEntry DEF Live
  <2>2. e \in Naming(u, Local(u, e).friendId)
    BY DEF Naming
  <2>3. QED
    BY <1>1, <2>1, <2>2
<1>8. QED
  BY <1>4, <1>5, <1>6, <1>7, NoMembers, EmptyBagIs DEF FriendBag

\* What another user's step leaves a user.
LEMMA WritingFriends ==
  ASSUME DInv, DocumentTypes', NEW u \in User,
         NEW c, NEW own, NEW other, NEW p, Writing(u, c, own, other, p),
         NEW v \in User \ {u}
  PROVE  Friends(v)' = Friends(v)
<1>1. outbox'[v] = outbox[v] /\ stored' = stored
  BY DEF Writing
<1>2. \A e : Local(v, e)' = Local(v, e)
  BY <1>1, LocalNow
<1>3. ASSUME NEW e \in EntryId, Local(v, e) # NoEntry
      PROVE  entry[e] # NoEntry /\ entry'[e] = entry[e]
  <2>1. entry[e] # NoEntry
    BY <1>3, LocalIs, KnownEntries DEF DInv
  <2>2. QED
    BY <2>1, EntriesStay
<1>4. Entries(v)' = Entries(v)
  BY <1>2, <1>3 DEF Entries
<1>5. QED
  BY <1>2, <1>4, FriendsSame

LEMMA CommitFriends ==
  ASSUME DInv, NEW u \in User, Commit(u), NEW v \in User,
         v = u \/ entry[outbox[u][1].id].owner # v
  PROVE  Friends(v)' = Friends(v)
<1>1. entry' = entry
  BY CommitFacts
<1>2. ASSUME NEW e \in EntryId, entry[e].owner = v PROVE Local(v, e)' = Local(v, e)
  BY <1>2, CommitLocal
<1>3. Entries(v)' = Entries(v)
  BY <1>1, <1>2 DEF Entries
<1>4. \A e \in Entries(v) : Local(v, e)' = Local(v, e)
  BY <1>2 DEF Entries
<1>5. QED
  BY <1>3, <1>4, FriendsSame

LEMMA QuietFriends ==
  ASSUME UNCHANGED documents, NEW v
  PROVE  Friends(v)' = Friends(v)
<1>1. entry' = entry /\ stored' = stored /\ outbox' = outbox
  BY DEF documents
<1>2. \A e : Local(v, e)' = Local(v, e)
  BY <1>1, LocalNow
<1>3. Entries(v)' = Entries(v)
  BY <1>1, <1>2 DEF Entries
<1>4. QED
  BY <1>2, <1>3, FriendsSame

-----------------------------------------------------------------------------
(* Loads, one operation after the other.                                   *)

LEMMA AskingIs ==
  /\ IsABag(EmptyBag) /\ \A u : FriendBag(u, EmptyBag)
  /\ \A u : LoadOf(u, Asking)
  /\ \A friends : LoadAgrees(Asking, friends)
  /\ IsABag(SetToBag({Asking})) /\ DOMAIN SetToBag({Asking}) = {Asking}
  /\ Asking.waiting = EmptyBag /\ Asking.tempFriend = EmptyBag
<1>1. IsABag(EmptyBag) /\ DOMAIN EmptyBag = {}
  BY EmptyBagIs
<1>2. \A u : FriendBag(u, EmptyBag)
  BY <1>1 DEF FriendBag
<1>3. IsABag(SetToBag({Asking})) /\ DOMAIN SetToBag({Asking}) = {Asking}
  BY OneIs
<1>4. Asking.waiting = EmptyBag /\ Asking.tempFriend = EmptyBag
  BY DEF Asking
<1>5. QED
  BY <1>1, <1>2, <1>3, <1>4 DEF LoadOf, LoadAgrees

\* A bag with a member is not empty.
LEMMA SomeMember ==
  ASSUME NEW b, NEW x \in DOMAIN b
  PROVE  b # EmptyBag
BY EmptyBagIs

\* The manager is opened, or closed.
LEMMA LoadsOpened ==
  ASSUME NEW u, NEW friends
  PROVE  /\ LoadsOf(u, SetToBag({Asking}), EmptyBag)
         /\ SettledOn(SetToBag({Asking}), EmptyBag, friends)
         /\ LoadsOf(u, EmptyBag, EmptyBag)
<1>1. SetToBag({Asking}) # EmptyBag
  BY AskingIs, SomeMember
<1>2. QED
  BY <1>1, AskingIs, EmptyBagIs DEF LoadsOf, SettledOn

\* Loads are added that have only been asked for.
LEMMA LoadsAsked ==
  ASSUME NEW u, NEW ls, NEW af, NEW friends, NEW n \in Nat, n > 0,
         LoadsOf(u, ls, af)
  PROVE  /\ LoadsOf(u, ls (+) [l \in {Asking} |-> n], af)
         /\ SettledOn(ls, af, friends) =>
              SettledOn(ls (+) [l \in {Asking} |-> n], af, friends)
<1> DEFINE more == [l \in {Asking} |-> n]
           all == ls (+) more
<1>1. IsABag(more) /\ DOMAIN more = {Asking}
  BY DEF IsABag
<1> HIDE DEF more
<1>2. IsABag(all) /\ DOMAIN all = DOMAIN ls \cup {Asking}
  BY <1>1, PlusIs DEF LoadsOf
<1> HIDE DEF all
<1>3. all # EmptyBag
  BY <1>2, SomeMember
<1>4. LoadsOf(u, all, af)
  BY <1>2, AskingIs DEF LoadsOf
<1>5. SettledOn(ls, af, friends) => SettledOn(all, af, friends)
  BY <1>2, <1>3, AskingIs DEF SettledOn
<1>6. QED
  BY <1>4, <1>5 DEF all, more

\* A load ends, without friends.
LEMMA LoadsEnded ==
  ASSUME NEW u, NEW ls, NEW af, NEW l, LoadsOf(u, ls, af)
  PROVE  /\ LoadsOf(u, ls (-) SetToBag({l}), af)
         /\ SettledOn(ls, af, EmptyBag) =>
              SettledOn(ls (-) SetToBag({l}), af, EmptyBag)
<1> DEFINE rest == ls (-) SetToBag({l})
<1>1. IsABag(rest) /\ DOMAIN rest \subseteq DOMAIN ls
  BY WithoutIs DEF LoadsOf
<1> HIDE DEF rest
<1>2. LoadsOf(u, rest, af)
  BY <1>1 DEF LoadsOf
<1>3. SettledOn(ls, af, EmptyBag) => SettledOn(rest, af, EmptyBag)
  BY <1>1 DEF SettledOn
<1>4. QED
  BY <1>2, <1>3 DEF rest

\* One load has taken the place of another.
LEMMA LoadsReplaced ==
  ASSUME NEW u, NEW ls, NEW af, NEW l, NEW next, NEW af2, NEW friends,
         LoadsOf(u, ls, af), LoadOf(u, next), FriendBag(u, af2)
  PROVE  /\ LoadsOf(u, (ls (-) SetToBag({l})) (+) SetToBag({next}), af2)
         /\ /\ SettledOn(ls, af, friends) /\ LoadAgrees(next, friends)
            /\ friends = EmptyBag => af2 = EmptyBag
            => SettledOn((ls (-) SetToBag({l})) (+) SetToBag({next}), af2, friends)
<1> DEFINE rest == ls (-) SetToBag({l})
           all == rest (+) SetToBag({next})
<1>1. IsABag(rest) /\ DOMAIN rest \subseteq DOMAIN ls
  BY WithoutIs DEF LoadsOf
<1> HIDE DEF rest
<1>2. IsABag(SetToBag({next})) /\ DOMAIN SetToBag({next}) = {next}
  BY OneIs
<1>3. IsABag(all) /\ DOMAIN all = DOMAIN rest \cup {next}
  BY <1>1, <1>2, PlusIs
<1> HIDE DEF all
<1>4. all # EmptyBag
  BY <1>3, SomeMember
<1>5. LoadsOf(u, all, af2)
  BY <1>1, <1>3 DEF LoadsOf
<1>6. ASSUME SettledOn(ls, af, friends), LoadAgrees(next, friends),
             friends = EmptyBag => af2 = EmptyBag
      PROVE  SettledOn(all, af2, friends)
  BY <1>1, <1>3, <1>4, <1>6 DEF SettledOn
<1>7. QED
  BY <1>5, <1>6 DEF all, rest

\* The entries have come, with friends.
LEMMA LoadsListed ==
  ASSUME NEW u, NEW ls, NEW af, NEW friends, LoadsOf(u, ls, af),
         FriendBag(u, friends), friends # EmptyBag
  PROVE  LET now == (ls (-) SetToBag({Asking})) (+) SetToBag({Waiting(friends)})
         IN  /\ LoadsOf(u, now, af)
             /\ SettledOn(ls, af, friends) => SettledOn(now, af, friends)
<1>1. Waiting(friends) = Load(friends, EmptyBag)
  BY DEF Waiting, Load
<1>2. LoadOf(u, Waiting(friends))
  BY <1>1, AskingIs DEF LoadOf
<1>3. friends (+) EmptyBag = friends
  BY NothingMissing DEF FriendBag
<1>4. LoadAgrees(Waiting(friends), friends)
  BY <1>1, <1>3 DEF LoadAgrees
<1>5. FriendBag(u, af)
  BY DEF LoadsOf
<1>6. QED
  BY <1>2, <1>4, <1>5, LoadsReplaced

\* A friend's document has come.
After(l, f) ==
  [l EXCEPT !.waiting = @ (-) SetToBag({f}), !.tempFriend = @ (+) SetToBag({f})]

With(l, w, t) == [l EXCEPT !.waiting = w, !.tempFriend = t]

LEMMA LoadWith ==
  ASSUME NEW l, NEW w, NEW t, NEW v, NEW s, l = Load(w, t)
  PROVE  With(l, v, s) = Load(v, s)
<1>1. ASSUME NEW b
      PROVE  [[asking |-> b, waiting |-> w, tempFriend |-> t]
                 EXCEPT !.waiting = v, !.tempFriend = s]
               = [asking |-> b, waiting |-> v, tempFriend |-> s]
  <2>1. [[asking |-> b, waiting |-> w, tempFriend |-> t] EXCEPT !.waiting = v]
          = [asking |-> b, waiting |-> v, tempFriend |-> t]
    OBVIOUS
  <2>2. [[asking |-> b, waiting |-> v, tempFriend |-> t] EXCEPT !.tempFriend = s]
          = [asking |-> b, waiting |-> v, tempFriend |-> s]
    OBVIOUS
  <2>3. QED
    BY <2>1, <2>2
<1>2. QED
  BY <1>1 DEF Load, With

LEMMA LoadsFriend ==
  ASSUME NEW u, NEW ls, NEW af, NEW friends, LoadsOf(u, ls, af),
         NEW l \in DOMAIN ls, NEW f \in DOMAIN l.waiting
  PROVE  LET next == After(l, f)
             rest == ls (-) SetToBag({l})
             now == IF next.waiting = EmptyBag THEN rest ELSE rest (+) SetToBag({next})
         IN  /\ LoadsOf(u, now, next.tempFriend)
             /\ SettledOn(ls, af, friends) => SettledOn(now, next.tempFriend, friends)
<1>1. l # Asking
  BY AskingIs, EmptyBagIs
<1>2. PICK w, t : l = Load(w, t) /\ FriendBag(u, w) /\ FriendBag(u, t)
  BY <1>1 DEF LoadsOf, LoadOf
<1>3. l.waiting = w /\ l.tempFriend = t
  BY <1>2 DEF Load
<1> DEFINE v == w (-) SetToBag({f})
           s == t (+) SetToBag({f})
<1>4. After(l, f) = Load(v, s)
  <2>1. After(l, f) = With(l, v, s)
    BY <1>3 DEF After, With
  <2>2. l = Load(w, t)
    BY <1>2
  <2> HIDE DEF v, s
  <2>3. With(l, v, s) = Load(v, s)
    BY <2>2, LoadWith
  <2>4. QED
    BY <2>1, <2>3
<1>5. /\ f \in DOMAIN w /\ IsABag(w) /\ IsABag(t)
      /\ DOMAIN w \subseteq User \ {u} /\ DOMAIN t \subseteq User \ {u}
  BY <1>2, <1>3 DEF FriendBag
<1>6. /\ IsABag(SetToBag({f})) /\ DOMAIN SetToBag({f}) = {f}
  BY OneIs
<1>7. IsABag(v) /\ DOMAIN v \subseteq DOMAIN w
  BY <1>5, WithoutIs
<1>8. IsABag(s) /\ DOMAIN s = DOMAIN t \cup {f}
  BY <1>5, <1>6, PlusIs
<1>9. v (+) s = w (+) t
  BY <1>5, MovedIs
<1>10. f \in DOMAIN (w (+) t)
  BY <1>5, PlusIs
<1>11. EmptyBag (+) s = s
  BY <1>8, NothingMissing
<1> HIDE DEF v, s
<1>12. FriendBag(u, v) /\ FriendBag(u, s)
  BY <1>5, <1>7, <1>8 DEF FriendBag
<1>13. LoadOf(u, Load(v, s))
  BY <1>12 DEF LoadOf
<1>14. Load(v, s).waiting = v /\ Load(v, s).tempFriend = s
  BY DEF Load
<1> DEFINE rest == ls (-) SetToBag({l})
<1>15. /\ LoadsOf(u, rest, s)
       /\ LoadsOf(u, rest (+) SetToBag({Load(v, s)}), s)
  BY <1>12, <1>13, LoadsEnded, LoadsReplaced DEF LoadsOf
<1>16. ASSUME SettledOn(ls, af, friends)
       PROVE  /\ v = EmptyBag => SettledOn(rest, s, friends)
              /\ v # EmptyBag => SettledOn(rest (+) SetToBag({Load(v, s)}), s, friends)
  <2>1. PICK x, y : l = Load(x, y) /\ x (+) y = friends
    BY <1>1, <1>16 DEF SettledOn, LoadAgrees
  <2>2. x = w /\ y = t
    BY <1>3, <2>1 DEF Load
  <2>3. v (+) s = friends /\ friends # EmptyBag
    BY <1>9, <1>10, <2>1, <2>2, SomeMember
  <2>4. CASE v = EmptyBag
    <3>1. s = friends
      BY <1>11, <2>3, <2>4
    <3>2. DOMAIN rest \subseteq DOMAIN ls
      BY WithoutIs DEF LoadsOf
    <3> HIDE DEF rest
    <3>3. QED
      BY <1>16, <2>3, <2>4, <3>1, <3>2 DEF SettledOn
  <2>5. CASE v # EmptyBag
    <3>1. LoadAgrees(Load(v, s), friends)
      BY <2>3, <2>5 DEF LoadAgrees
    <3>2. QED
      BY <1>12, <1>13, <1>16, <2>3, <2>5, <3>1, LoadsReplaced
  <2>6. QED
    BY <2>4, <2>5
<1>17. QED
  BY <1>4, <1>14, <1>15, <1>16

-----------------------------------------------------------------------------
(* What the handlers of a press make of the friends and the removals.      *)

Sound(u, effect) ==
  \E ws, fs, ms, fl :
    /\ effect = Effect(ws, fs, ms, fl)
    /\ FriendBag(u, fs) /\ ms \subseteq User \X User

LEMMA SoundEffect ==
  ASSUME NEW u, NEW effect, Sound(u, effect)
  PROVE  FriendBag(u, effect.friends) /\ effect.marked \subseteq User \X User
BY DEF Sound, Effect

LEMMA OneMore ==
  ASSUME NEW u, NEW c \in User \ {u}, NEW fs, FriendBag(u, fs)
  PROVE  FriendBag(u, fs (+) SetToBag({c})) /\ FriendBag(u, fs (-) SetToBag({c}))
<1>1. IsABag(SetToBag({c})) /\ DOMAIN SetToBag({c}) = {c}
  BY OneIs
<1>2. IsABag(fs) /\ DOMAIN fs \subseteq User \ {u}
  BY DEF FriendBag
<1>3. /\ IsABag(fs (+) SetToBag({c}))
      /\ DOMAIN (fs (+) SetToBag({c})) = DOMAIN fs \cup {c}
  BY <1>1, <1>2, PlusIs
<1>4. /\ IsABag(fs (-) SetToBag({c}))
      /\ DOMAIN (fs (-) SetToBag({c})) \subseteq DOMAIN fs
  BY <1>2, WithoutIs
<1>5. QED
  BY <1>2, <1>3, <1>4 DEF FriendBag

LEMMA SoundAdd ==
  ASSUME NEW u, NEW c \in User \ {u}, NEW own, NEW other, NEW effect, Sound(u, effect)
  PROVE  Sound(u, addlist(u, c, own, other, effect))
<1>1. PICK ws, fs, ms, fl : /\ effect = Effect(ws, fs, ms, fl)
                            /\ FriendBag(u, fs) /\ ms \subseteq User \X User
  BY DEF Sound
<1>2. addlist(u, c, own, other, effect)
        = Effect(ws \o <<NewEntry(own, c), NewEntry(other, u)>>,
                 fs (+) SetToBag({c}), ms, fl)
  BY <1>1, AddEffect
<1>3. FriendBag(u, fs (+) SetToBag({c}))
  BY <1>1, OneMore
<1>4. QED
  BY <1>1, <1>2, <1>3 DEF Sound

LEMMA SoundRemove ==
  ASSUME DocumentTypes, NEW u \in User, NEW c \in User \ {u}, NEW effect,
         Sound(u, effect)
  PROVE  Sound(u, removeList(u, c, effect))
<1>1. PICK ws, fs, ms, fl : /\ effect = Effect(ws, fs, ms, fl)
                            /\ FriendBag(u, fs) /\ ms \subseteq User \X User
  BY DEF Sound
<1> DEFINE k == Row(u, c)
           d == directory[u][k]
           w == [id |-> d.id, friendId |-> d.friendId, isDeleted |-> TRUE]
<1>2. CASE k \notin DOMAIN directory[u]
  <2>1. removeList(u, c, effect) = Effect(ws, fs, ms, TRUE)
    BY <1>1, <1>2 DEF removeList, Effect
  <2>2. QED
    BY <1>1, <2>1 DEF Sound
<1>3. CASE k \in DOMAIN directory[u]
  <2>1. removeList(u, c, effect)
          = Effect(Append(ws, w), fs (-) SetToBag({c}), ms \cup {<<c, d.friendId>>},
                   ~BagIn(c, fs))
    BY <1>1, <1>3 DEF removeList, Effect
  <2>2. d.friendId \in User
    BY <1>3, Ranges
  <2>3. ms \cup {<<c, d.friendId>>} \subseteq User \X User
    BY <1>1, <2>2
  <2>4. FriendBag(u, fs (-) SetToBag({c}))
    BY <1>1, OneMore
  <2> HIDE DEF d, w
  <2>5. QED
    BY <2>1, <2>3, <2>4 DEF Sound
<1>4. QED
  BY <1>2, <1>3

LEMMA SoundNothing ==
  ASSUME NEW u, FriendBag(u, allFriends[u])
  PROVE  Sound(u, NoEffect(u))
<1>1. NoEffect(u) = Effect(<<>>, allFriends[u], {}, FALSE)
  BY DEF NoEffect, Effect
<1>2. ASSUME NEW ws, NEW fs, NEW ms, NEW fl, FriendBag(u, fs), ms \subseteq User \X User
      PROVE  Sound(u, Effect(ws, fs, ms, fl))
  BY <1>2 DEF Sound
<1>3. QED
  BY <1>1, <1>2

LEMMA SoundHandle ==
  ASSUME DocumentTypes, NEW u \in User, NEW c \in User \ {u},
         NEW own, NEW other, NEW h, NEW effect, Sound(u, effect)
  PROVE  Sound(u, Handle(u, c, own, other, effect, h))
BY SoundAdd, SoundRemove DEF Handle

LEMMA SoundRun ==
  ASSUME DocumentTypes, NEW u \in User, NEW c \in User \ {u},
         NEW own, NEW other, NEW handlers, FriendBag(u, allFriends[u])
  PROVE  Sound(u, Run(u, c, handlers, own, other))
<1> DEFINE first == Handle(u, c, own, other, NoEffect(u), handlers[1])
<1>1. Sound(u, first)
  BY SoundNothing, SoundHandle
<1> HIDE DEF first
<1>2. Sound(u, Handle(u, c, own, other, first, handlers[2]))
  BY <1>1, SoundHandle
<1>3. QED
  BY <1>1, <1>2 DEF Run, first

-----------------------------------------------------------------------------
(* The manager of u after a step of its own.                               *)

Others(u) ==
  \A v \in User \ {u} :
    /\ loads'[v] = loads[v] /\ allFriends'[v] = allFriends[v]
    /\ v \in undisturbed' => v \in undisturbed

Own(u) ==
  /\ LoadsOf(u, loads'[u], allFriends'[u])
  /\ u \in undisturbed' => SettledOn(loads'[u], allFriends'[u], Friends(u)')

Managed(u) ==
  /\ Screens' /\ DOMAIN loads' = User /\ DOMAIN allFriends' = User
  /\ Others(u) /\ Own(u)

LEMMA ManagedStep ==
  ASSUME MInv, NEW u \in User, Managed(u),
         \A v \in User \ {u} : v \in undisturbed' => Friends(v)' = Friends(v)
  PROVE  Loads' /\ \A v \in undisturbed' : Settled(v)'
<1>1. \A v \in User : LoadsOf(v, loads[v], allFriends[v])
  BY DEF MInv, Loads
<1>2. \A v \in User : LoadsOf(v, loads'[v], allFriends'[v])
  BY <1>1 DEF Managed, Others, Own
<1>3. Loads'
  BY <1>2 DEF Managed, Loads
<1>4. undisturbed' \subseteq User
  BY DirectoryAssumption DEF Managed, Screens
<1>5. ASSUME NEW v \in undisturbed' PROVE Settled(v)'
  <2>1. CASE v = u
    BY <1>5, <2>1 DEF Managed, Own, Settled
  <2>2. CASE v # u
    <3>1. v \in User \ {u} /\ v \in undisturbed
      BY <1>4, <1>5, <2>2 DEF Managed, Others
    <3>2. SettledOn(loads[v], allFriends[v], Friends(v))
      BY <3>1 DEF MInv, Settled
    <3>3. /\ loads'[v] = loads[v] /\ allFriends'[v] = allFriends[v]
          /\ Friends(v)' = Friends(v)
      BY <1>5, <3>1 DEF Managed, Others
    <3>4. SettledOn(loads'[v], allFriends'[v], Friends(v)')
      BY <3>2, <3>3
    <3>5. QED
      BY <3>4 DEF Settled
  <2>3. QED
    BY <2>1, <2>2
<1>6. QED
  BY <1>3, <1>5

\* What changes a function at one user.
LEMMA Updated ==
  ASSUME NEW f, DOMAIN f = User, NEW u \in User, NEW x
  PROVE  /\ DOMAIN [f EXCEPT ![u] = x] = User
         /\ [f EXCEPT ![u] = x][u] = x
         /\ \A v \in User \ {u} : [f EXCEPT ![u] = x][v] = f[v]
OBVIOUS

LEMMA ManagerParts ==
  ASSUME MInv
  PROVE  /\ DInv /\ DocumentTypes /\ NotSelf /\ Screens
         /\ DOMAIN loads = User /\ DOMAIN allFriends = User
         /\ \A u \in User : LoadsOf(u, loads[u], allFriends[u])
         /\ \A u \in User : u \in undisturbed => SettledOn(loads[u], allFriends[u], Friends(u))
BY DEF MInv, Loads, DInv, Settled

\* A step that changes nothing of the screen.
LEMMA ScreenKept ==
  ASSUME MInv, NEW u \in User, UNCHANGED <<bounds, screen, removals>>,
         undisturbed' \subseteq undisturbed, Friends(u)' = Friends(u)
  PROVE  Managed(u)
<1>1. /\ opens' = opens /\ presses' = presses /\ open' = open
      /\ allContact' = allContact /\ loads' = loads /\ allFriends' = allFriends
      /\ laidOut' = laidOut /\ targets' = targets /\ removals' = removals
  BY DEF bounds, screen
<1>2. Screens'
  BY <1>1, ManagerParts DEF Screens
<1>3. Own(u)
  BY <1>1, ManagerParts DEF Own
<1>4. Others(u)
  BY <1>1 DEF Others
<1>5. QED
  BY <1>1, <1>2, <1>3, <1>4, ManagerParts DEF Managed

LEMMA CloseManaged ==
  ASSUME MInv, NEW u \in User, Close(u),
         opens' = opens, presses' \in 0 .. MaxPress, removals' \subseteq User \X User
  PROVE  Managed(u)
<1>1. /\ allFriends' = [allFriends EXCEPT ![u] = EmptyBag]
      /\ laidOut' = laidOut \ {u}
      /\ targets' = [targets EXCEPT ![u] = {}]
      /\ open' = open \ {u}
      /\ allContact' = [allContact EXCEPT ![u] = "none"]
      /\ loads' = [loads EXCEPT ![u] = EmptyBag]
      /\ undisturbed' = undisturbed \ {u}
  BY DEF Close, Reset
<1>2. Screens
  BY ManagerParts
<1>3. Screens'
  <2>1. allContact' \in [User -> {"none", "asked", "loaded"}]
    BY <1>1, <1>2 DEF Screens
  <2>2. \A v \in User : allContact'[v] # "none" => v \in open'
    BY <1>1, <1>2 DEF Screens
  <2>3. targets' \in [User -> SUBSET {"addlist", "removeList"}]
    BY <1>1, <1>2 DEF Screens
  <2>4. open' \subseteq Manager /\ laidOut' \subseteq open' /\ undisturbed' \subseteq open'
    BY <1>1, <1>2 DEF Screens
  <2>5. opens' \in [User -> 0 .. MaxOpen]
    BY <1>2 DEF Screens
  <2>6. QED
    BY <2>1, <2>2, <2>3, <2>4, <2>5 DEF Screens
<1>4. /\ DOMAIN loads' = User /\ loads'[u] = EmptyBag
      /\ \A v \in User \ {u} : loads'[v] = loads[v]
  BY <1>1, ManagerParts, Updated
<1>5. /\ DOMAIN allFriends' = User /\ allFriends'[u] = EmptyBag
      /\ \A v \in User \ {u} : allFriends'[v] = allFriends[v]
  BY <1>1, ManagerParts, Updated
<1>6. LoadsOf(u, EmptyBag, EmptyBag)
  BY LoadsOpened
<1>7. Own(u)
  BY <1>1, <1>4, <1>5, <1>6 DEF Own
<1>8. Others(u)
  BY <1>1, <1>4, <1>5 DEF Others
<1>9. QED
  BY <1>3, <1>4, <1>5, <1>7, <1>8 DEF Managed

LEMMA OpenManaged ==
  ASSUME MInv, NEW u \in User, ViewWillAppear(u)
  PROVE  Managed(u)
<1>1. /\ u \in Manager /\ opens[u] < MaxOpen
      /\ opens' = [opens EXCEPT ![u] = opens[u] + 1]
      /\ allFriends' = [allFriends EXCEPT ![u] = EmptyBag]
      /\ laidOut' = laidOut \ {u}
      /\ targets' = [targets EXCEPT ![u] = {}]
      /\ open' = open \cup {u}
      /\ allContact' = [allContact EXCEPT ![u] = "asked"]
      /\ loads' = [loads EXCEPT ![u] = SetToBag({Asking})]
      /\ undisturbed' = undisturbed \cup {u}
      /\ presses' = presses /\ removals' = removals
  BY DEF ViewWillAppear, Reset
<1>2. Screens
  BY ManagerParts
<1>3. Screens'
  <2>1. allContact' \in [User -> {"none", "asked", "loaded"}]
    BY <1>1, <1>2 DEF Screens
  <2>2. \A v \in User : allContact'[v] # "none" => v \in open'
    BY <1>1, <1>2 DEF Screens
  <2>3. targets' \in [User -> SUBSET {"addlist", "removeList"}]
    BY <1>1, <1>2 DEF Screens
  <2>4. open' \subseteq Manager /\ laidOut' \subseteq open' /\ undisturbed' \subseteq open'
    BY <1>1, <1>2 DEF Screens
  <2>5. opens' \in [User -> 0 .. MaxOpen]
    <3>1. opens[u] \in 0 .. MaxOpen /\ opens \in [User -> 0 .. MaxOpen]
      BY <1>2 DEF Screens
    <3>2. opens[u] + 1 \in 0 .. MaxOpen
      BY <1>1, <3>1, DirectoryAssumption
    <3>3. QED
      BY <1>1, <3>1, <3>2
  <2>6. presses' \in 0 .. MaxPress /\ removals' \subseteq User \X User
    BY <1>1, <1>2 DEF Screens
  <2>7. QED
    BY <2>1, <2>2, <2>3, <2>4, <2>5, <2>6 DEF Screens
<1>4. /\ DOMAIN loads' = User /\ loads'[u] = SetToBag({Asking})
      /\ \A v \in User \ {u} : loads'[v] = loads[v]
  BY <1>1, ManagerParts, Updated
<1>5. /\ DOMAIN allFriends' = User /\ allFriends'[u] = EmptyBag
      /\ \A v \in User \ {u} : allFriends'[v] = allFriends[v]
  BY <1>1, ManagerParts, Updated
<1>6. Own(u)
  BY <1>4, <1>5, LoadsOpened DEF Own
<1>7. Others(u)
  BY <1>1, <1>4, <1>5 DEF Others
<1>8. QED
  BY <1>3, <1>4, <1>5, <1>6, <1>7 DEF Managed

LEMMA ContactsManaged ==
  ASSUME MInv, NEW u \in User, ContactsLoaded(u)
  PROVE  Managed(u)
<1> DEFINE n == Cardinality(User) - 1
           now == loads[u] (+) [l \in {Asking} |-> n]
<1>1. /\ allContact[u] = "asked"
      /\ allContact' = [allContact EXCEPT ![u] = "loaded"]
      /\ loads' = [loads EXCEPT ![u] = now]
      /\ UNCHANGED <<documents, opens, presses, open, allFriends, laidOut, targets,
                     removals, undisturbed>>
  BY DEF ContactsLoaded, bounds, history
<1>2. n \in Nat /\ n > 0
  BY DirectoryAssumption, FS_CardinalityType
<1> HIDE DEF n
<1>3. Screens'
  BY <1>1, ManagerParts DEF Screens
<1>4. /\ LoadsOf(u, now, allFriends[u])
      /\ SettledOn(loads[u], allFriends[u], Friends(u)) =>
           SettledOn(now, allFriends[u], Friends(u))
  BY <1>2, ManagerParts, LoadsAsked
<1> HIDE DEF now
<1>5. /\ DOMAIN loads' = User /\ loads'[u] = now
      /\ \A v \in User \ {u} : loads'[v] = loads[v]
  BY <1>1, ManagerParts, Updated
<1>6. Friends(u)' = Friends(u)
  BY <1>1, QuietFriends
<1>7. Own(u)
  BY <1>1, <1>4, <1>5, <1>6, ManagerParts DEF Own
<1>8. Others(u)
  BY <1>1, <1>5 DEF Others
<1>9. QED
  BY <1>1, <1>3, <1>5, <1>7, <1>8, ManagerParts DEF Managed

LEMMA Reloaded ==
  ASSUME Screens, NEW u \in User, NEW friends, ReloadData(u, friends)
  PROVE  /\ laidOut' \subseteq open
         /\ targets' \in [User -> SUBSET {"addlist", "removeList"}]
<1>1. laidOut \subseteq open /\ targets \in [User -> SUBSET {"addlist", "removeList"}]
  BY DEF Screens
<1>2. CASE allContact[u] = "loaded"
  <2>1. u \in open
    BY <1>2 DEF Screens
  <2>2. Selectors(u, friends) \subseteq {"addlist", "removeList"}
    BY DEF Selectors, Selector
  <2>3. QED
    BY <1>1, <1>2, <2>1, <2>2 DEF ReloadData
<1>3. CASE allContact[u] # "loaded"
  BY <1>1, <1>3 DEF ReloadData
<1>4. QED
  BY <1>2, <1>3

LEMMA LoadedManaged ==
  ASSUME MInv, NEW u \in User, DirectoryLoaded(u)
  PROVE  Managed(u)
<1> DEFINE rest == loads[u] (-) SetToBag({Asking})
           more == rest (+) SetToBag({Waiting(Friends(u))})
           now == IF Live(u) = {} THEN rest ELSE more
<1>1. /\ UNCHANGED <<documents, opens, presses, open, allContact, allFriends,
                     removals, undisturbed>>
      /\ loads' = [loads EXCEPT ![u] = now]
      /\ ReloadData(u, allFriends[u]) \/ UNCHANGED <<laidOut, targets>>
  BY DEF DirectoryLoaded, bounds, history
<1>2. Screens'
  <2>1. /\ laidOut' \subseteq open
        /\ targets' \in [User -> SUBSET {"addlist", "removeList"}]
    <3>1. CASE ReloadData(u, allFriends[u])
      BY <3>1, ManagerParts, Reloaded
    <3>2. CASE UNCHANGED <<laidOut, targets>>
      BY <3>2, ManagerParts DEF Screens
    <3>3. QED
      BY <1>1, <3>1, <3>2
  <2>2. QED
    BY <1>1, <2>1, ManagerParts DEF Screens
<1>3. Friends(u)' = Friends(u)
  BY <1>1, QuietFriends
<1>4. FriendBag(u, Friends(u)) /\ (Friends(u) = EmptyBag <=> Live(u) = {})
  BY ManagerParts, FriendsAre
<1>5. /\ LoadsOf(u, rest, allFriends[u])
      /\ SettledOn(loads[u], allFriends[u], EmptyBag) =>
           SettledOn(rest, allFriends[u], EmptyBag)
  BY ManagerParts, LoadsEnded
<1>6. Live(u) # {} =>
        /\ LoadsOf(u, more, allFriends[u])
        /\ SettledOn(loads[u], allFriends[u], Friends(u)) =>
             SettledOn(more, allFriends[u], Friends(u))
  BY <1>4, ManagerParts, LoadsListed
<1> HIDE DEF rest, more
<1>7. /\ LoadsOf(u, now, allFriends[u])
      /\ SettledOn(loads[u], allFriends[u], Friends(u)) =>
           SettledOn(now, allFriends[u], Friends(u))
  BY <1>4, <1>5, <1>6
<1> HIDE DEF now
<1>8. /\ DOMAIN loads' = User /\ loads'[u] = now
      /\ \A v \in User \ {u} : loads'[v] = loads[v]
  BY <1>1, ManagerParts, Updated
<1>9. Own(u)
  BY <1>1, <1>3, <1>7, <1>8, ManagerParts DEF Own
<1>10. Others(u)
  BY <1>1, <1>8 DEF Others
<1>11. QED
  BY <1>1, <1>2, <1>8, <1>9, <1>10, ManagerParts DEF Managed

LEMMA FailsManaged ==
  ASSUME MInv, NEW u \in User, QueryFails(u)
  PROVE  Managed(u)
<1> DEFINE rest == loads[u] (-) SetToBag({Asking})
<1>1. /\ UNCHANGED <<opens, presses, open, allFriends, laidOut, targets, removals>>
      /\ undisturbed' = undisturbed \ {u}
      /\ \/ allContact' = [allContact EXCEPT ![u] = "none"] /\ loads' = loads
         \/ allContact' = allContact /\ loads' = [loads EXCEPT ![u] = rest]
  BY DEF QueryFails, bounds
<1>2. Screens'
  <2>1. /\ allContact' \in [User -> {"none", "asked", "loaded"}]
        /\ \A v \in User : allContact'[v] # "none" => allContact[v] # "none"
    BY <1>1, ManagerParts DEF Screens
  <2>2. QED
    BY <1>1, <2>1, ManagerParts DEF Screens
<1>3. LoadsOf(u, rest, allFriends[u]) /\ LoadsOf(u, loads[u], allFriends[u])
  BY ManagerParts, LoadsEnded
<1> HIDE DEF rest
<1>4. /\ DOMAIN loads' = User /\ loads'[u] \in {rest, loads[u]}
      /\ \A v \in User \ {u} : loads'[v] = loads[v]
  BY <1>1, ManagerParts, Updated
<1>5. Own(u)
  BY <1>1, <1>3, <1>4 DEF Own
<1>6. Others(u)
  BY <1>1, <1>4 DEF Others
<1>7. QED
  BY <1>1, <1>2, <1>4, <1>5, <1>6, ManagerParts DEF Managed

LEMMA FriendManaged ==
  ASSUME MInv, NEW u \in User, FriendLoaded(u)
  PROVE  Managed(u)
<1>1. PICK l \in DOMAIN loads[u] : \E f \in DOMAIN l.waiting :
        LET next == After(l, f)
            rest == loads[u] (-) SetToBag({l})
        IN  /\ loads' = [loads EXCEPT ![u] =
                   IF next.waiting = EmptyBag THEN rest ELSE rest (+) SetToBag({next})]
            /\ allFriends' = [allFriends EXCEPT ![u] = next.tempFriend]
            /\ ReloadData(u, next.tempFriend)
            /\ UNCHANGED <<documents, bounds, open, allContact, directory, history>>
  BY DEF FriendLoaded, After
<1>2. PICK f \in DOMAIN l.waiting :
        LET next == After(l, f)
            rest == loads[u] (-) SetToBag({l})
        IN  /\ loads' = [loads EXCEPT ![u] =
                   IF next.waiting = EmptyBag THEN rest ELSE rest (+) SetToBag({next})]
            /\ allFriends' = [allFriends EXCEPT ![u] = next.tempFriend]
            /\ ReloadData(u, next.tempFriend)
            /\ UNCHANGED <<documents, bounds, open, allContact, directory, history>>
  BY <1>1
<1> DEFINE next == After(l, f)
           rest == loads[u] (-) SetToBag({l})
           now == IF next.waiting = EmptyBag THEN rest ELSE rest (+) SetToBag({next})
           friends == next.tempFriend
<1>3. /\ loads' = [loads EXCEPT ![u] = now]
      /\ allFriends' = [allFriends EXCEPT ![u] = friends]
      /\ ReloadData(u, friends)
      /\ UNCHANGED <<documents, opens, presses, open, allContact, removals, undisturbed>>
  BY <1>2 DEF bounds, history
<1>4. /\ LoadsOf(u, now, friends)
      /\ SettledOn(loads[u], allFriends[u], Friends(u)) =>
           SettledOn(now, friends, Friends(u))
  BY ManagerParts, LoadsFriend
<1> HIDE DEF now, friends
<1>5. Screens'
  <2>1. /\ laidOut' \subseteq open
        /\ targets' \in [User -> SUBSET {"addlist", "removeList"}]
    BY <1>3, ManagerParts, Reloaded
  <2>2. QED
    BY <1>3, <2>1, ManagerParts DEF Screens
<1>6. Friends(u)' = Friends(u)
  BY <1>3, QuietFriends
<1>7. /\ DOMAIN loads' = User /\ loads'[u] = now
      /\ \A v \in User \ {u} : loads'[v] = loads[v]
  BY <1>3, ManagerParts, Updated
<1>8. /\ DOMAIN allFriends' = User /\ allFriends'[u] = friends
      /\ \A v \in User \ {u} : allFriends'[v] = allFriends[v]
  BY <1>3, ManagerParts, Updated
<1>9. Own(u)
  BY <1>3, <1>4, <1>6, <1>7, <1>8, ManagerParts DEF Own
<1>10. Others(u)
  BY <1>3, <1>7, <1>8 DEF Others
<1>11. QED
  BY <1>5, <1>7, <1>8, <1>9, <1>10 DEF Managed

LEMMA FinishManaged ==
  ASSUME MInv, NEW u \in User, NEW effect, Sound(u, effect), Finish(u, effect),
         presses' \in 0 .. MaxPress
  PROVE  Managed(u)
<1>1. removals' \subseteq User \X User
  <2>1. removals \subseteq User \X User /\ effect.marked \subseteq User \X User
    BY ManagerParts, SoundEffect DEF Screens
  <2>2. removals' = removals \cup effect.marked
    BY DEF Finish
  <2>3. QED
    BY <2>1, <2>2
<1>2. opens' = opens
  BY DEF Finish
<1>3. CASE effect.failed
  <2>1. Close(u)
    BY <1>3 DEF Finish, Ends
  <2>2. QED
    BY <1>1, <1>2, <2>1, CloseManaged
<1>4. CASE ~effect.failed
  <2>1. /\ allFriends' = [allFriends EXCEPT ![u] = effect.friends]
        /\ ReloadData(u, effect.friends)
        /\ undisturbed' = undisturbed \ {u}
        /\ UNCHANGED <<open, allContact, loads, directory>>
    BY <1>4 DEF Finish
  <2>2. FriendBag(u, effect.friends)
    BY SoundEffect
  <2>3. Screens'
    <3>1. /\ laidOut' \subseteq open
          /\ targets' \in [User -> SUBSET {"addlist", "removeList"}]
      BY <2>1, ManagerParts, Reloaded
    <3>2. QED
      BY <1>1, <1>2, <2>1, <3>1, ManagerParts DEF Screens
  <2>4. /\ DOMAIN allFriends' = User /\ allFriends'[u] = effect.friends
        /\ \A v \in User \ {u} : allFriends'[v] = allFriends[v]
    BY <2>1, ManagerParts, Updated
  <2>5. Own(u)
    BY <2>1, <2>2, <2>4, ManagerParts DEF Own, LoadsOf
  <2>6. Others(u)
    BY <2>1, <2>4 DEF Others
  <2>7. QED
    BY <2>1, <2>3, <2>4, <2>5, <2>6, ManagerParts DEF Managed
<1>5. QED
  BY <1>3, <1>4

LEMMA PressManaged ==
  ASSUME MInv, NEW u \in User, Press(u)
  PROVE  Managed(u)
<1>1. /\ presses < MaxPress /\ presses' = presses + 1
      /\ presses \in 0 .. MaxPress
  BY ManagerParts DEF Press, Screens
<1>2. presses' \in 0 .. MaxPress
  BY <1>1, DirectoryAssumption
<1>3. FriendBag(u, allFriends[u]) /\ DocumentTypes
  BY ManagerParts DEF LoadsOf
<1>4. PICK c \in User \ {u} : PressAdds(u, c) \/ PressRemoves(u, c)
  BY DEF Press
<1>5. CASE PressAdds(u, c)
  <2>1. \E handlers, own, other : Finish(u, Run(u, c, handlers, own, other))
    BY <1>5 DEF PressAdds
  <2>2. QED
    BY <1>2, <1>3, <2>1, SoundRun, FinishManaged
<1>6. CASE PressRemoves(u, c)
  <2>1. Finish(u, removeList(u, c, NoEffect(u)))
    BY <1>6 DEF PressRemoves
  <2>2. Sound(u, removeList(u, c, NoEffect(u)))
    BY <1>3, SoundNothing, SoundRemove
  <2>3. QED
    BY <1>2, <2>1, <2>2, FinishManaged
<1>7. QED
  BY <1>4, <1>5, <1>6

LEMMA CommitManaged ==
  ASSUME MInv, NEW u \in User, Commit(u)
  PROVE  /\ Managed(u)
         /\ \A v \in User \ {u} : v \in undisturbed' => Friends(v)' = Friends(v)
<1>1. /\ UNCHANGED <<bounds, screen, removals>>
      /\ undisturbed' = undisturbed \ ({entry[outbox[u][1].id].owner} \ {u})
  <2>1. outbox[u] # <<>> /\ outbox[u] \in Seq(Write)
    BY ManagerParts DEF Commit, DocumentTypes
  <2>2. Head(outbox[u]) = outbox[u][1]
    BY <2>1, HeadTailProperties
  <2>3. QED
    BY <2>2 DEF Commit
<1>2. Friends(u)' = Friends(u)
  BY ManagerParts, CommitFriends
<1>3. undisturbed' \subseteq undisturbed
  BY <1>1
<1>4. ASSUME NEW v \in User \ {u}, v \in undisturbed' PROVE Friends(v)' = Friends(v)
  <2>1. entry[outbox[u][1].id].owner # v
    BY <1>1, <1>4
  <2>2. QED
    BY <2>1, ManagerParts, CommitFriends
<1>5. QED
  BY <1>1, <1>2, <1>3, <1>4, ScreenKept

\* The steps that write, or queue nothing.
LEMMA WritingManaged ==
  ASSUME MInv, NEW u \in User,
         \/ ViewWillAppear(u) \/ BackButton(u) \/ Kill(u)
         \/ ContactsLoaded(u) \/ QueryFails(u) \/ FriendLoaded(u)
         \/ Press(u) \/ UNCHANGED vars
  PROVE  Managed(u)
<1>1. removals \subseteq User \X User /\ presses \in 0 .. MaxPress
  BY ManagerParts DEF Screens
<1>2. CASE BackButton(u)
  BY <1>1, <1>2, CloseManaged DEF BackButton, bounds
<1>3. CASE Kill(u)
  BY <1>1, <1>3, CloseManaged DEF Kill, Ends, bounds
<1>4. CASE UNCHANGED vars
  <2>1. UNCHANGED <<documents, bounds, screen, removals, undisturbed>>
    BY <1>4 DEF vars, history
  <2>2. Friends(u)' = Friends(u)
    BY <2>1, QuietFriends
  <2>3. QED
    BY <2>1, <2>2, ScreenKept
<1>5. QED
  BY <1>2, <1>3, <1>4, OpenManaged, ContactsManaged, FailsManaged, FriendManaged,
     PressManaged

LEMMA StepManages ==
  ASSUME MInv, [Next]_vars
  PROVE  MInv'
<1>1. DInv /\ NotSelf /\ DocumentTypes
  BY ManagerParts
<1>2. DInv'
  BY <1>1, StepKeeps
<1>3. ASSUME NEW u \in User, Managed(u), NotSelf',
             \A v \in User \ {u} : v \in undisturbed' => Friends(v)' = Friends(v)
      PROVE  MInv'
  <2>1. Loads' /\ \A v \in undisturbed' : Settled(v)'
    BY <1>3, ManagedStep
  <2>2. Screens'
    BY <1>3 DEF Managed
  <2>3. QED
    BY <1>2, <1>3, <2>1, <2>2 DEF MInv
<1>4. ASSUME NEW u \in User,
             \/ ViewWillAppear(u) \/ BackButton(u) \/ Kill(u)
             \/ ContactsLoaded(u) \/ QueryFails(u) \/ FriendLoaded(u)
             \/ Press(u) \/ UNCHANGED vars
      PROVE  MInv'
  <2>1. DocumentTypes'
    BY <1>1, <1>4, StepWriting
  <2>2. PICK c, own, other, p : Writing(u, c, own, other, p)
    BY <1>1, <1>4, StepWriting
  <2>3. NotSelf'
    BY <1>1, <2>1, <2>2, WritingNotSelf
  <2>4. \A v \in User \ {u} : Friends(v)' = Friends(v)
    BY <1>1, <2>1, <2>2, WritingFriends
  <2>5. Managed(u)
    BY <1>4, WritingManaged
  <2>6. QED
    BY <1>3, <2>3, <2>4, <2>5
<1>5. ASSUME NEW u \in User, DirectoryLoaded(u) PROVE MInv'
  <2>1. NotSelf'
    BY <1>1, <1>5, LoadedNotSelf
  <2>2. UNCHANGED documents
    BY <1>5 DEF DirectoryLoaded
  <2>3. \A v \in User \ {u} : Friends(v)' = Friends(v)
    BY <2>2, QuietFriends
  <2>4. Managed(u)
    BY <1>5, LoadedManaged
  <2>5. QED
    BY <1>3, <2>1, <2>3, <2>4
<1>6. ASSUME NEW u \in User, Commit(u) PROVE MInv'
  <2>1. NotSelf'
    BY <1>1, <1>6, CommitNotSelf
  <2>2. /\ Managed(u)
        /\ \A v \in User \ {u} : v \in undisturbed' => Friends(v)' = Friends(v)
    BY <1>6, CommitManaged
  <2>3. QED
    BY <1>3, <2>1, <2>2
<1>7. User # {}
  BY DirectoryAssumption, FS_EmptySet
<1>8. QED
  BY <1>4, <1>5, <1>6, <1>7 DEF Next

LEMMA InitManages == Init => MInv
<1> SUFFICES ASSUME Init PROVE MInv
  OBVIOUS
<1>1. DInv
  BY InitInv
<1>2. NotSelf
  <2>1. SUFFICES ASSUME NEW e \in EntryId, NEW f \in User, Names(e, f)
                 PROVE  entry[e].owner # f
    BY DEF NotSelf
  <2>2. \A u \in User : outbox[u] = <<>> /\ directory[u] = <<>>
    BY DEF Init
  <2>3. \A u \in User : Len(outbox[u]) = 0 /\ Len(directory[u]) = 0
    BY <2>2
  <2>4. stored[e] # NoEntry /\ stored[e].friendId = f
    BY <2>1, <2>3 DEF Names, Positions
  <2>5. entry[e] = Past(e).entry /\ stored[e] = Past(e).document
    BY DEF Init
  <2>6. PICK p \in past : e = p.own \/ e = p.other
    BY <2>4, <2>5, PastIs
  <2>7. /\ Past(p.own) = Left(p.user, p.user, p.friend)
        /\ Past(p.other) = Left(p.friend, p.user, p.user)
        /\ p.user # p.friend
    BY PastLeft, DirectoryAssumption
  <2>8. CASE e = p.own
    <3>1. entry[e] = [owner |-> p.user, by |-> p.user]
          /\ stored[e] = [friendId |-> p.friend, isDeleted |-> FALSE]
      BY <2>5, <2>7, <2>8, LeftFields
    <3>2. QED
      BY <2>4, <2>7, <3>1
  <2>9. CASE e = p.other
    <3>1. entry[e] = [owner |-> p.friend, by |-> p.user]
          /\ stored[e] = [friendId |-> p.user, isDeleted |-> FALSE]
      BY <2>5, <2>7, <2>9, LeftFields
    <3>2. QED
      BY <2>4, <2>7, <3>1
  <2>10. QED
    BY <2>6, <2>8, <2>9
<1>3. Screens
  BY DirectoryAssumption DEF Init, Screens
<1>4. Loads
  <2>1. \A u \in User : LoadsOf(u, EmptyBag, EmptyBag)
    BY LoadsOpened
  <2>2. QED
    BY <2>1 DEF Init, Loads
<1>5. undisturbed = {}
  BY DEF Init
<1>6. QED
  BY <1>1, <1>2, <1>3, <1>4, <1>5 DEF MInv

LEMMA ManagerInvariant == Spec => []MInv
<1>1. Init => MInv
  BY InitManages
<1>2. MInv /\ [Next]_vars => MInv'
  BY StepManages
<1>3. QED
  BY <1>1, <1>2, PTL DEF Spec

\* The documents, the queues and the manager of every user are what they should
\* be: what is loaded belongs to the user, and no bag of a load or of the table
\* holds the user or anybody who is none.
THEOREM TypeCorrect == Spec => []TypeOK
<1>1. MInv => TypeOK
  <2> SUFFICES ASSUME MInv PROVE TypeOK
    OBVIOUS
  <2>1. DocumentTypes /\ Screens /\ DirectoryMutual
    BY ManagerParts DEF DInv
  <2>2. ASSUME NEW u \in User
        PROVE  /\ IsABag(loads[u])
               /\ \A l \in BagToSet(loads[u]) :
                    UserBag(l.waiting) /\ UserBag(l.tempFriend)
               /\ UserBag(allFriends[u])
               /\ u \notin BagToSet(allFriends[u])
    <3>1. LoadsOf(u, loads[u], allFriends[u])
      BY ManagerParts
    <3>2. \A b : FriendBag(u, b) => UserBag(b) /\ u \notin BagToSet(b)
      BY DEF FriendBag, UserBag, BagToSet
    <3>3. ASSUME NEW l \in DOMAIN loads[u]
          PROVE  FriendBag(u, l.waiting) /\ FriendBag(u, l.tempFriend)
      <4>1. CASE l = Asking
        BY <4>1, AskingIs
      <4>2. ASSUME NEW w, NEW t, l = Load(w, t), FriendBag(u, w), FriendBag(u, t)
            PROVE  FriendBag(u, l.waiting) /\ FriendBag(u, l.tempFriend)
        <5>1. l.waiting = w /\ l.tempFriend = t
          BY <4>2 DEF Load
        <5>2. QED
          BY <4>2, <5>1
      <4>3. QED
        BY <3>1, <3>3, <4>1, <4>2 DEF LoadsOf, LoadOf
    <3>4. QED
      BY <3>1, <3>2, <3>3 DEF LoadsOf, BagToSet
  <2>3. ASSUME NEW u \in User, NEW d \in Range(directory[u])
        PROVE  entry[d.id].owner = u
    <3>1. DOMAIN directory[u] = 1 .. Len(directory[u])
      BY <2>1, Ranges
    <3>2. PICK k \in 1 .. Len(directory[u]) : d = directory[u][k]
      BY <3>1 DEF Range
    <3>3. QED
      BY <2>1, <3>2 DEF DirectoryMutual
  <2>4. /\ entry \in [EntryId -> [owner : User, by : User] \cup {NoEntry}]
        /\ stored \in [EntryId -> Document \cup {NoEntry}]
        /\ outbox \in [User -> Seq(Write)]
        /\ directory \in [User -> Seq([id : EntryId, friendId : User])]
    BY <2>1 DEF DocumentTypes, Reference, Item
  <2>5. QED
    BY <2>1, <2>2, <2>3, <2>4 DEF TypeOK, Screens
<1>2. QED
  BY <1>1, ManagerInvariant, PTL

\* The table ends up with the friends of the directory, however the answers of
\* the loads getAllFriend has started mix: each of them leaves either nothing
\* or all of them, and the last that still waits for somebody leaves them all.
THEOREM LoadsCorrect == Spec => []LoadsAgree
<1>1. MInv => LoadsAgree
  <2>1. SUFFICES ASSUME MInv, NEW u \in undisturbed, loads[u] = EmptyBag
                 PROVE  allFriends[u] = Friends(u)
    BY DEF LoadsAgree
  <2>2. SettledOn(loads[u], allFriends[u], Friends(u))
    BY <2>1 DEF MInv, Settled
  <2>3. QED
    BY <2>1, <2>2 DEF SettledOn
<1>2. QED
  BY <1>1, ManagerInvariant, PTL

=============================================================================
