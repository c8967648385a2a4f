--------------------------- MODULE ChatListProofs ---------------------------
(***************************************************************************)
(* Proofs about ChatList, for every set of rooms and every number of       *)
(* messages, appearances and changes of the index.                         *)
(***************************************************************************)
EXTENDS ChatList, SequenceTheorems, FiniteSetTheorems, TLAPS

-----------------------------------------------------------------------------
(* The invariant.                                                          *)

Types ==
  /\ stored \in [Room -> Seq(ChatId)]
  /\ unsent \in [Room -> Seq(ChatId)]
  /\ incoming \subseteq ChatId
  /\ appearances \in Nat
  /\ allMessage \in Seq(ChatId)
  /\ alertCount \in Seq(Nat)

\* The messages are numbered in the order in which they appear.
Numbered ==
  /\ \E n \in Nat : Known = 1 .. n
  /\ incoming \subseteq Known

\* No two places of the sequences of the rooms hold the same message.
OneEach(st) ==
  \A r, q \in Room : \A i \in 1 .. Len(st[r]), j \in 1 .. Len(st[q]) :
    st[r][i] = st[q][j] => r = q /\ i = j

Nowhere(m, st) == \A r \in Room : \A i \in 1 .. Len(st[r]) : st[r][i] # m

\* A message is at one place, and those without a server time are the user's.
Places ==
  /\ OneEach(stored)
  /\ OneEach(unsent)
  /\ \A r \in Room : \A i \in 1 .. Len(unsent[r]) :
       Nowhere(unsent[r][i], stored) /\ unsent[r][i] \notin incoming

\* Until the list appears a second time, rows and counts belong together.
Rows ==
  /\ Len(alertCount) >= Len(allMessage)
  /\ appearances <= 1 => Len(alertCount) = Len(allMessage)
  /\ appearances = 0 => listener = <<>> /\ allMessage = <<>> /\ alertCount = <<>>
  /\ \A k \in 1 .. Len(allMessage) : allMessage[k] \in Known

\* The messages of a room up to the place p.
UpTo(h, p) == {h[i] : i \in 1 .. p}

\* n is a count of unread messages among S, made before or when they were read.
Fits(n, S, read) == n >= Cardinality(S \ read) /\ n <= Cardinality(S)

Counts ==
  appearances <= 1 =>
    \A k \in 1 .. Len(allMessage), r \in Room :
      \A p \in 1 .. Len(stored[r]) :
        stored[r][p] = allMessage[k] /\ allMessage[k] \in incoming =>
          Fits(alertCount[k], UpTo(stored[r], p) \cap incoming, isRead)

IInv == Types /\ Numbered /\ Places /\ Rows /\ Counts

-----------------------------------------------------------------------------
(* The messages of the rooms.                                              *)

LEMMA Lengths ==
  ASSUME Types
  PROVE  /\ \A r \in Room :
              /\ stored[r] \in Seq(ChatId) /\ unsent[r] \in Seq(ChatId)
              /\ Len(stored[r]) \in Nat /\ Len(unsent[r]) \in Nat
              /\ \A i \in 1 .. Len(stored[r]) : stored[r][i] \in ChatId
              /\ \A i \in 1 .. Len(unsent[r]) : unsent[r][i] \in ChatId
         /\ Len(allMessage) \in Nat /\ Len(alertCount) \in Nat
         /\ DOMAIN allMessage = 1 .. Len(allMessage)
         /\ \A k \in 1 .. Len(allMessage) : allMessage[k] \in ChatId
         /\ \A k \in 1 .. Len(alertCount) : alertCount[k] \in Nat
<1>1. \A r \in Room : stored[r] \in Seq(ChatId) /\ unsent[r] \in Seq(ChatId)
  BY DEF Types
<1>2. \A r \in Room :
        /\ Len(stored[r]) \in Nat /\ Len(unsent[r]) \in Nat
        /\ \A i \in 1 .. Len(stored[r]) : stored[r][i] \in ChatId
        /\ \A i \in 1 .. Len(unsent[r]) : unsent[r][i] \in ChatId
  BY <1>1, LenProperties, ElementOfSeq
<1>3. /\ Len(allMessage) \in Nat /\ Len(alertCount) \in Nat
      /\ DOMAIN allMessage = 1 .. Len(allMessage)
      /\ \A k \in 1 .. Len(allMessage) : allMessage[k] \in ChatId
      /\ \A k \in 1 .. Len(alertCount) : alertCount[k] \in Nat
  BY LenProperties, ElementOfSeq DEF Types
<1>4. QED
  BY <1>1, <1>2, <1>3

LEMMA RangeOfConcat ==
  ASSUME NEW S, NEW s \in Seq(S), NEW t \in Seq(S)
  PROVE  \A m : m \in Range(s \o t) <=>
                  \/ \E i \in 1 .. Len(s) : s[i] = m
                  \/ \E i \in 1 .. Len(t) : t[i] = m
<1> DEFINE c == s \o t
<1>1. /\ Len(s) \in Nat /\ Len(t) \in Nat
      /\ c \in Seq(S) /\ Len(c) = Len(s) + Len(t)
      /\ \A i \in 1 .. Len(s) + Len(t) :
           c[i] = IF i <= Len(s) THEN s[i] ELSE t[i - Len(s)]
  BY LenProperties, ConcatProperties
<1> HIDE DEF c
<1>2. DOMAIN c = 1 .. Len(c)
  BY <1>1, LenProperties
<1>3. \A m : m \in Range(c) <=> \E i \in 1 .. Len(c) : c[i] = m
  BY <1>2 DEF Range
<1>4. ASSUME NEW i \in 1 .. Len(c)
      PROVE  \/ \E j \in 1 .. Len(s) : s[j] = c[i]
             \/ \E j \in 1 .. Len(t) : t[j] = c[i]
  <2>1. CASE i <= Len(s)
    <3>1. i \in 1 .. Len(s) /\ s[i] = c[i]
      BY <1>1, <1>4, <2>1
    <3>2. QED
      BY <3>1
  <2>2. CASE ~(i <= Len(s))
    <3>1. i - Len(s) \in 1 .. Len(t)
      BY <1>1, <1>4, <2>2
    <3>2. t[i - Len(s)] = c[i]
      BY <1>1, <1>4, <2>2
    <3>3. QED
      BY <3>1, <3>2
  <2>3. QED
    BY <2>1, <2>2
<1>5. ASSUME NEW j \in 1 .. Len(s) PROVE j \in 1 .. Len(c) /\ c[j] = s[j]
  BY <1>1, <1>5
<1>6. ASSUME NEW j \in 1 .. Len(t)
      PROVE  Len(s) + j \in 1 .. Len(c) /\ c[Len(s) + j] = t[j]
  <2>1. Len(s) + j \in 1 .. Len(s) + Len(t) /\ ~(Len(s) + j <= Len(s))
    BY <1>1, <1>6
  <2>2. c[Len(s) + j] = t[(Len(s) + j) - Len(s)]
    BY <1>1, <2>1
  <2>3. (Len(s) + j) - Len(s) = j
    BY <1>1, <1>6
  <2>4. QED
    BY <1>1, <2>1, <2>2, <2>3
<1>7. QED
  BY <1>3, <1>4, <1>5, <1>6 DEF c

\* The messages of the rooms, st with a server time and un without.
KnownOf(st, un) == UNION {Range(st[r] \o un[r]) : r \in Room}

LEMMA KnownOfAre ==
  ASSUME NEW st \in [Room -> Seq(ChatId)], NEW un \in [Room -> Seq(ChatId)]
  PROVE  \A m : m \in KnownOf(st, un) <=>
           \/ \E r \in Room : \E i \in 1 .. Len(st[r]) : st[r][i] = m
           \/ \E r \in Room : \E i \in 1 .. Len(un[r]) : un[r][i] = m
<1>1. ASSUME NEW r \in Room
      PROVE  \A m : m \in Range(st[r] \o un[r]) <=>
               \/ \E i \in 1 .. Len(st[r]) : st[r][i] = m
               \/ \E i \in 1 .. Len(un[r]) : un[r][i] = m
  <2>1. st[r] \in Seq(ChatId) /\ un[r] \in Seq(ChatId)
    BY <1>1
  <2>2. QED
    BY SMTT(60), <2>1, RangeOfConcat
<1>2. \A m : m \in KnownOf(st, un) <=> \E r \in Room : m \in Range(st[r] \o un[r])
  BY DEF KnownOf
<1>3. SUFFICES ASSUME NEW m
               PROVE  m \in KnownOf(st, un) <=>
                        \/ \E r \in Room : \E i \in 1 .. Len(st[r]) : st[r][i] = m
                        \/ \E r \in Room : \E i \in 1 .. Len(un[r]) : un[r][i] = m
  OBVIOUS
<1>4. CASE m \in KnownOf(st, un)
  <2>1. PICK r \in Room : m \in Range(st[r] \o un[r])
    BY <1>2, <1>4
  <2>2. \/ \E i \in 1 .. Len(st[r]) : st[r][i] = m
        \/ \E i \in 1 .. Len(un[r]) : un[r][i] = m
    BY <1>1, <2>1
  <2>3. QED
    BY <1>4, <2>2
<1>5. ASSUME NEW r \in Room,
             \/ \E i \in 1 .. Len(st[r]) : st[r][i] = m
             \/ \E i \in 1 .. Len(un[r]) : un[r][i] = m
      PROVE  m \in KnownOf(st, un)
  <2>1. m \in Range(st[r] \o un[r])
    BY <1>1, <1>5
  <2>2. QED
    BY <1>2, <2>1
<1>6. QED
  BY <1>4, <1>5

LEMMA InRoom ==
  ASSUME Types
  PROVE  \A r \in Room : \A m : m \in Range(Documents(r)) <=>
           \/ \E i \in 1 .. Len(stored[r]) : stored[r][i] = m
           \/ \E i \in 1 .. Len(unsent[r]) : unsent[r][i] = m
<1>1. ASSUME NEW r \in Room
      PROVE  \A m : m \in Range(stored[r] \o unsent[r]) <=>
               \/ \E i \in 1 .. Len(stored[r]) : stored[r][i] = m
               \/ \E i \in 1 .. Len(unsent[r]) : unsent[r][i] = m
  <2>1. stored[r] \in Seq(ChatId) /\ unsent[r] \in Seq(ChatId)
    BY <1>1 DEF Types
  <2>2. QED
    BY SMTT(60), <2>1, RangeOfConcat
<1>2. QED
  BY <1>1 DEF Documents

LEMMA KnownAre ==
  ASSUME Types
  PROVE  /\ \A r \in Room : \A i \in 1 .. Len(stored[r]) : stored[r][i] \in Known
         /\ \A r \in Room : \A i \in 1 .. Len(unsent[r]) : unsent[r][i] \in Known
BY InRoom DEF Known

\* A new message has a number of its own.
LEMMA NewNumber ==
  ASSUME Types, Numbered
  PROVE  /\ NewId \notin Known
         /\ NewId \in Nat
         /\ Known \cup {NewId} = 1 .. NewId
<1>1. PICK n \in Nat : Known = 1 .. n
  BY DEF Numbered
<1>2. Cardinality(Known) = n
  BY <1>1, FS_Interval
<1>3. QED
  BY <1>1, <1>2 DEF NewId

\* A message that is appended to a sequence.
LEMMA AppendIs ==
  ASSUME NEW S, NEW s \in Seq(S), NEW m \in S
  PROVE  LET t == Append(s, m)
         IN  /\ t \in Seq(S) /\ Len(s) \in Nat /\ Len(t) = Len(s) + 1
             /\ \A i \in 1 .. Len(s) : i \in 1 .. Len(t) /\ t[i] = s[i]
             /\ t[Len(s) + 1] = m /\ Len(s) + 1 \in 1 .. Len(t)
             /\ \A i \in 1 .. Len(t) : i \in 1 .. Len(s) \/ i = Len(s) + 1
<1> DEFINE t == Append(s, m)
<1>1. /\ t \in Seq(S) /\ Len(s) \in Nat /\ Len(t) = Len(s) + 1
      /\ \A i \in 1 .. Len(s) : t[i] = s[i]
      /\ t[Len(s) + 1] = m
  BY AppendProperties, LenProperties
<1> HIDE DEF t
<1>2. /\ \A i \in 1 .. Len(s) : i \in 1 .. Len(t)
      /\ Len(s) + 1 \in 1 .. Len(t)
      /\ \A i \in 1 .. Len(t) : i \in 1 .. Len(s) \/ i = Len(s) + 1
  BY <1>1
<1>3. QED
  BY <1>1, <1>2 DEF t

\* The oldest of a sequence is taken out.
LEMMA TailIs ==
  ASSUME NEW S, NEW s \in Seq(S), s # <<>>
  PROVE  LET t == Tail(s)
         IN  /\ t \in Seq(S) /\ Head(s) = s[1] /\ s[1] \in S /\ 1 \in 1 .. Len(s)
             /\ \A i \in 1 .. Len(t) : i + 1 \in 2 .. Len(s) /\ t[i] = s[i + 1]
             /\ \A i \in 1 .. Len(s) :
                  i # 1 => i - 1 \in 1 .. Len(t) /\ t[i - 1] = s[i]
<1> DEFINE t == Tail(s)
<1>1. /\ t \in Seq(S) /\ Head(s) = s[1] /\ s[1] \in S
      /\ Len(s) \in Nat /\ Len(s) # 0 /\ Len(t) = Len(s) - 1
      /\ \A i \in 1 .. Len(t) : t[i] = s[i + 1]
  BY HeadTailProperties, LenProperties, EmptySeq
<1> HIDE DEF t
<1>2. /\ 1 \in 1 .. Len(s)
      /\ \A i \in 1 .. Len(t) : i + 1 \in 2 .. Len(s)
      /\ \A i \in 1 .. Len(s) : i = 1 \/ i - 1 \in 1 .. Len(t)
  BY <1>1
<1>3. \A i \in 1 .. Len(s) : i - 1 \in 1 .. Len(t) => t[i - 1] = s[i]
  <2>1. \A i \in 1 .. Len(s) : (i - 1) + 1 = i
    BY <1>1
  <2>2. QED
    BY <1>1, <2>1
<1>4. QED
  BY <1>1, <1>2, <1>3 DEF t

\* A message that no room has is added to one.
IsAdded(st, next, r, x) ==
  /\ OneEach(next)
  /\ \A q \in Room : \A i \in 1 .. Len(next[q]) :
       \/ i \in 1 .. Len(st[q]) /\ next[q][i] = st[q][i]
       \/ q = r /\ i = Len(st[r]) + 1 /\ next[q][i] = x
  /\ \A q \in Room : \A i \in 1 .. Len(st[q]) :
       i \in 1 .. Len(next[q]) /\ next[q][i] = st[q][i]
  /\ \E i \in 1 .. Len(next[r]) : next[r][i] = x

LEMMA Added ==
  ASSUME NEW st \in [Room -> Seq(ChatId)], NEW r \in Room, NEW x \in ChatId,
         NEW next \in [Room -> Seq(ChatId)],
         \A q \in Room : q # r => next[q] = st[q],
         next[r] = Append(st[r], x),
         OneEach(st), Nowhere(x, st)
  PROVE  IsAdded(st, next, r, x)
<1>1. st[r] \in Seq(ChatId)
  OBVIOUS
<1> DEFINE t == Append(st[r], x)
           n == Len(st[r]) + 1
<1>2. /\ \A i \in 1 .. Len(st[r]) : i \in 1 .. Len(t) /\ t[i] = st[r][i]
      /\ t[n] = x /\ n \in 1 .. Len(t)
      /\ \A i \in 1 .. Len(t) : i \in 1 .. Len(st[r]) \/ i = n
  BY <1>1, AppendIs
<1>3. next[r] = t
  OBVIOUS
<1> HIDE DEF t, n
<1>4. \A q \in Room : \A i \in 1 .. Len(next[q]) :
        \/ i \in 1 .. Len(st[q]) /\ next[q][i] = st[q][i]
        \/ q = r /\ i = n /\ next[q][i] = x
  BY <1>2, <1>3
<1>5. \A q \in Room : \A i \in 1 .. Len(st[q]) :
        i \in 1 .. Len(next[q]) /\ next[q][i] = st[q][i]
  BY <1>2, <1>3
<1>6. \E i \in 1 .. Len(next[r]) : next[r][i] = x
  BY <1>2, <1>3
<1>7. OneEach(next)
  BY <1>4 DEF OneEach, Nowhere
<1>8. QED
  BY <1>4, <1>5, <1>6, <1>7 DEF IsAdded, n

\* The oldest message of a room is taken out.
IsTakenOut(st, next, x) ==
  /\ OneEach(next)
  /\ Nowhere(x, next)
  /\ \A q \in Room : \A i \in 1 .. Len(next[q]) :
       \E j \in 1 .. Len(st[q]) : next[q][i] = st[q][j]
  /\ \A q \in Room : \A i \in 1 .. Len(st[q]) :
       \/ st[q][i] = x
       \/ \E j \in 1 .. Len(next[q]) : next[q][j] = st[q][i]

LEMMA TakenOut ==
  ASSUME NEW st \in [Room -> Seq(ChatId)], NEW r \in Room, st[r] # <<>>,
         NEW next \in [Room -> Seq(ChatId)],
         \A q \in Room : q # r => next[q] = st[q],
         next[r] = Tail(st[r]),
         OneEach(st)
  PROVE  IsTakenOut(st, next, st[r][1])
<1>1. st[r] \in Seq(ChatId)
  OBVIOUS
<1> DEFINE t == Tail(st[r])
<1>2. /\ 1 \in 1 .. Len(st[r])
      /\ \A i \in 1 .. Len(t) : i + 1 \in 2 .. Len(st[r]) /\ t[i] = st[r][i + 1]
      /\ \A i \in 1 .. Len(st[r]) :
           i # 1 => i - 1 \in 1 .. Len(t) /\ t[i - 1] = st[r][i]
  BY <1>1, TailIs
<1>3. next[r] = t
  OBVIOUS
<1> HIDE DEF t
<1>4. Len(st[r]) \in Nat
  BY <1>1, LenProperties
<1>5. \A i \in Int : i \in 2 .. Len(st[r]) => i \in 1 .. Len(st[r]) /\ i # 1
  BY <1>4
<1>6. \A i \in 1 .. Len(next[r]) :
        /\ i + 1 \in 1 .. Len(st[r]) /\ i + 1 # 1
        /\ next[r][i] = st[r][i + 1]
  BY <1>2, <1>3, <1>5
<1>7. \A q \in Room : \A i \in 1 .. Len(next[q]) :
        \E j \in 1 .. Len(st[q]) : next[q][i] = st[q][j]
  BY <1>6
<1>8. \A q \in Room : \A i \in 1 .. Len(st[q]) :
        \/ st[q][i] = st[r][1]
        \/ \E j \in 1 .. Len(next[q]) : next[q][j] = st[q][i]
  <2>1. \A i \in 1 .. Len(st[r]) :
          i = 1 \/ \E j \in 1 .. Len(next[r]) : next[r][j] = st[r][i]
    BY <1>2, <1>3
  <2>2. \A q \in Room : q # r => next[q] = st[q]
    OBVIOUS
  <2>3. QED
    BY <2>1, <2>2
<1>9. Nowhere(st[r][1], next)
  <2>1. \A i \in 1 .. Len(next[r]) : next[r][i] # st[r][1]
    BY <1>2, <1>6 DEF OneEach
  <2>2. \A q \in Room : q # r => \A i \in 1 .. Len(next[q]) : next[q][i] # st[r][1]
    BY <1>2 DEF OneEach
  <2>3. QED
    BY <2>1, <2>2 DEF Nowhere
<1>10. OneEach(next)
  <2>1. SUFFICES ASSUME NEW p \in Room, NEW q \in Room,
                        NEW i \in 1 .. Len(next[p]), NEW j \in 1 .. Len(next[q]),
                        next[p][i] = next[q][j]
                 PROVE  p = q /\ i = j
    BY DEF OneEach
  <2>2. p = q
    BY <1>7, <2>1 DEF OneEach
  <2>3. CASE p = r
    <3>1. /\ i + 1 \in 1 .. Len(st[r]) /\ j + 1 \in 1 .. Len(st[r])
          /\ st[r][i + 1] = st[r][j + 1]
      BY <1>6, <2>1, <2>2, <2>3
    <3>2. i + 1 = j + 1
      BY <3>1 DEF OneEach
    <3>3. i = j
      BY <3>2
    <3>4. QED
      BY <2>2, <3>3
  <2>4. CASE p # r
    BY <2>1, <2>2, <2>4 DEF OneEach
  <2>5. QED
    BY <2>3, <2>4
<1>11. QED
  BY <1>7, <1>8, <1>9, <1>10 DEF IsTakenOut

\* Messages up to a place are finitely many.
LEMMA UpToFinite ==
  ASSUME NEW h, NEW p \in Nat
  PROVE  IsFiniteSet(UpTo(h, p))
<1> DEFINE f == [i \in 1 .. p |-> h[i]]
<1>1. f \in Surjection(1 .. p, UpTo(h, p))
  BY DEF Surjection, UpTo
<1>2. IsFiniteSet(1 .. p)
  BY FS_Interval
<1>3. QED
  BY <1>1, <1>2, FS_Surjection

\* A count keeps fitting when more is read.
LEMMA FitsStays ==
  ASSUME NEW n \in Nat, NEW S, IsFiniteSet(S), NEW read, NEW more,
         read \subseteq more, Fits(n, S, read)
  PROVE  Fits(n, S, more)
<1>1. IsFiniteSet(S \ read) /\ Cardinality(S \ read) \in Nat
  BY FS_Difference, FS_CardinalityType
<1>2. S \ more \in SUBSET (S \ read)
  OBVIOUS
<1>3. /\ Cardinality(S \ more) <= Cardinality(S \ read)
      /\ IsFiniteSet(S \ more)
  BY <1>1, <1>2, FS_Subset
<1>4. Cardinality(S \ more) \in Nat
  BY <1>3, FS_CardinalityType
<1>5. QED
  BY <1>1, <1>3, <1>4 DEF Fits

-----------------------------------------------------------------------------
(* The steps of the documents.                                             *)

\* A message gets to the end of one of the two sequences of a room.
LEMMA Received ==
  ASSUME IInv, NEW r \in Room, Receive(r)
  PROVE  /\ stored' \in [Room -> Seq(ChatId)]
         /\ \A q \in Room : q # r => stored'[q] = stored[q]
         /\ stored'[r] = Append(stored[r], NewId)
         /\ NewId \in ChatId
<1>1. stored \in [Room -> Seq(ChatId)] /\ NewId \in ChatId
      /\ stored' = [stored EXCEPT ![r] = Append(@, NewId)]
  BY DEF Receive, IInv, Types
<1>2. Append(stored[r], NewId) \in Seq(ChatId)
  BY <1>1, AppendIs
<1>3. QED
  BY <1>1, <1>2

LEMMA WasSent ==
  ASSUME IInv, NEW r \in Room, Send(r)
  PROVE  /\ unsent' \in [Room -> Seq(ChatId)]
         /\ \A q \in Room : q # r => unsent'[q] = unsent[q]
         /\ unsent'[r] = Append(unsent[r], NewId)
         /\ NewId \in ChatId
<1>1. unsent \in [Room -> Seq(ChatId)] /\ NewId \in ChatId
      /\ unsent' = [unsent EXCEPT ![r] = Append(@, NewId)]
  BY DEF Send, IInv, Types
<1>2. Append(unsent[r], NewId) \in Seq(ChatId)
  BY <1>1, AppendIs
<1>3. QED
  BY <1>1, <1>2

LEMMA Timed ==
  ASSUME IInv, NEW r \in Room, Sent(r)
  PROVE  /\ unsent[r] # <<>> /\ unsent[r][1] \in ChatId /\ 1 \in 1 .. Len(unsent[r])
         /\ stored' \in [Room -> Seq(ChatId)] /\ unsent' \in [Room -> Seq(ChatId)]
         /\ \A q \in Room : q # r => stored'[q] = stored[q] /\ unsent'[q] = unsent[q]
         /\ stored'[r] = Append(stored[r], unsent[r][1])
         /\ unsent'[r] = Tail(unsent[r])
<1>1. /\ stored \in [Room -> Seq(ChatId)] /\ unsent \in [Room -> Seq(ChatId)]
      /\ unsent[r] # <<>>
      /\ stored' = [stored EXCEPT ![r] = Append(@, Head(unsent[r]))]
      /\ unsent' = [unsent EXCEPT ![r] = Tail(@)]
  BY DEF Sent, IInv, Types
<1>2. /\ Head(unsent[r]) = unsent[r][1] /\ unsent[r][1] \in ChatId
      /\ 1 \in 1 .. Len(unsent[r]) /\ Tail(unsent[r]) \in Seq(ChatId)
  BY <1>1, TailIs
<1>3. Append(stored[r], unsent[r][1]) \in Seq(ChatId)
  BY <1>1, <1>2, AppendIs
<1>4. QED
  BY <1>1, <1>2, <1>3

LEMMA UnreadType ==
  ASSUME Types, NEW r \in Room
  PROVE  Unread(r) \in Nat
<1>1. Range(Documents(r)) \subseteq ChatId
  BY InRoom, Lengths
<1>2. IsFiniteSet(ChatId)
  BY ChatListBounds, FS_Interval DEF ChatId
<1>3. IsFiniteSet((Range(Documents(r)) \cap incoming) \ isRead)
  BY <1>1, <1>2, FS_Subset
<1>4. QED
  BY <1>3, FS_CardinalityType DEF Unread

\* A room with a message it did not have has a last one.
LEMMA LastDocument ==
  ASSUME Types, NEW r \in Room, Range(Documents(r)) # {}
  PROVE  /\ Last(Documents(r)) \in Range(Documents(r))
         /\ Last(Documents(r)) \in ChatId
         /\ \/ \E i \in 1 .. Len(unsent[r]) : unsent[r][i] = Last(Documents(r))
            \/ /\ unsent[r] = <<>> /\ Documents(r) = stored[r]
               /\ Len(stored[r]) \in 1 .. Len(stored[r])
               /\ Last(Documents(r)) = stored[r][Len(stored[r])]
<1> DEFINE c == Documents(r)
<1>1. /\ stored[r] \in Seq(ChatId) /\ unsent[r] \in Seq(ChatId)
      /\ Len(stored[r]) \in Nat /\ Len(unsent[r]) \in Nat
  BY Lengths
<1>2. /\ c \in Seq(ChatId) /\ Len(c) = Len(stored[r]) + Len(unsent[r])
      /\ \A i \in 1 .. Len(stored[r]) + Len(unsent[r]) :
           c[i] = IF i <= Len(stored[r]) THEN stored[r][i]
                  ELSE unsent[r][i - Len(stored[r])]
  BY <1>1, ConcatProperties DEF Documents
<1> HIDE DEF c
<1>3. DOMAIN c = 1 .. Len(c) /\ Len(c) \in Nat
  BY <1>2, LenProperties
<1>4. Range(c) # {}
  BY DEF c
<1>5. Len(c) # 0
  BY <1>3, <1>4 DEF Range
<1>6. Len(c) \in 1 .. Len(c)
  BY <1>3, <1>5
<1>7. Last(c) = c[Len(c)] /\ c[Len(c)] \in Range(c)
  BY <1>3, <1>6 DEF Last, Range
<1>8. Last(c) \in ChatId
  BY <1>2, <1>6, <1>7, ElementOfSeq
<1>9. CASE unsent[r] = <<>>
  <2>1. c = stored[r]
    BY <1>1, <1>9, ConcatEmptySeq DEF c, Documents
  <2>2. QED
    BY <1>6, <1>7, <1>8, <1>9, <2>1 DEF c
<1>10. CASE unsent[r] # <<>>
  <2>1. Len(unsent[r]) \in 1 .. Len(unsent[r])
    <3>1. Len(unsent[r]) # 0
      BY <1>1, <1>10, EmptySeq
    <3>2. QED
      BY <1>1, <3>1
  <2>2. ~(Len(c) <= Len(stored[r])) /\ Len(c) - Len(stored[r]) = Len(unsent[r])
    <3>1. /\ Len(c) = Len(stored[r]) + Len(unsent[r])
          /\ Len(stored[r]) \in Nat /\ Len(unsent[r]) \in Nat
      BY <1>1, <1>2
    <3>2. Len(unsent[r]) # 0
      BY <1>1, <1>10, EmptySeq
    <3>3. \A a, b \in Nat : b # 0 => ~(a + b <= a) /\ (a + b) - a = b
      OBVIOUS
    <3>4. QED
      BY <3>1, <3>2, <3>3
  <2>3. c[Len(c)] = unsent[r][Len(unsent[r])]
    BY <1>2, <1>6, <2>2
  <2>4. QED
    BY <1>7, <1>8, <2>1, <2>3 DEF c
<1>11. QED
  BY <1>9, <1>10

\* What a snapshot of a room adds.
LEMMA RowAdded ==
  ASSUME IInv, NEW i, RoomSnapshot(i)
  PROVE  LET r == listener[i].on
             m == Last(Documents(r))
         IN  /\ r \in Room /\ Range(Documents(r)) # {}
             /\ m \in ChatId /\ m \in Known
             /\ allMessage' = Append(allMessage, m)
             /\ alertCount' = Append(alertCount, Unread(r))
             /\ Unread(r) \in Nat
             /\ UNCHANGED <<stored, unsent, incoming, isRead, appearances>>
<1> DEFINE r == listener[i].on
           m == Last(Documents(r))
<1>1. /\ r \in Room /\ Range(Documents(r)) # {}
      /\ allMessage' = Append(allMessage, m)
      /\ alertCount' = Append(alertCount, Unread(r))
      /\ UNCHANGED <<stored, unsent, incoming, isRead, appearances>>
  BY DEF RoomSnapshot, docVars
<1> HIDE DEF r
<1>2. m \in Range(Documents(r)) /\ m \in ChatId /\ Unread(r) \in Nat
  BY <1>1, LastDocument, UnreadType DEF IInv
<1>3. m \in Known
  BY <1>1, <1>2 DEF Known
<1>4. QED
  BY <1>1, <1>2, <1>3 DEF r

-----------------------------------------------------------------------------
(* The invariant is inductive.                                             *)

LEMMA TypesKept ==
  ASSUME IInv, [Next]_vars
  PROVE  Types'
<1>1. Types
  BY DEF IInv
<1>2. CASE \E r \in Room : Receive(r)
  <2>1. PICK r \in Room : Receive(r)
    BY <1>2
  <2>2. UNCHANGED <<unsent, appearances, allMessage, alertCount>>
        /\ incoming' = incoming \cup {NewId}
    BY <2>1 DEF Receive, listVars
  <2>3. QED
    BY <1>1, <2>1, <2>2, Received DEF Types
<1>3. CASE \E r \in Room : Send(r)
  <2>1. PICK r \in Room : Send(r)
    BY <1>3
  <2>2. UNCHANGED <<stored, incoming, appearances, allMessage, alertCount>>
    BY <2>1 DEF Send, listVars
  <2>3. QED
    BY <1>1, <2>1, <2>2, WasSent DEF Types
<1>4. CASE \E r \in Room : Sent(r)
  <2>1. PICK r \in Room : Sent(r)
    BY <1>4
  <2>2. UNCHANGED <<incoming, appearances, allMessage, alertCount>>
    BY <2>1 DEF Sent, listVars
  <2>3. QED
    BY <1>1, <2>1, <2>2, Timed DEF Types
<1>5. CASE ViewWillAppear
  <2>1. /\ appearances' = appearances + 1 /\ allMessage' = <<>>
        /\ UNCHANGED <<stored, unsent, incoming, alertCount>>
    BY <1>5 DEF ViewWillAppear, docVars
  <2>2. allMessage' \in Seq(ChatId)
    BY <2>1
  <2>3. QED
    BY <1>1, <2>1, <2>2 DEF Types
<1>6. CASE \E i : RoomSnapshot(i)
  <2>1. PICK i : RoomSnapshot(i)
    BY <1>6
  <2>2. \E m \in ChatId, n \in Nat :
          allMessage' = Append(allMessage, m) /\ alertCount' = Append(alertCount, n)
    BY <2>1, RowAdded
  <2>3. allMessage' \in Seq(ChatId) /\ alertCount' \in Seq(Nat)
    BY <1>1, <2>2, AppendIs DEF Types
  <2>4. UNCHANGED <<stored, unsent, incoming, appearances>>
    BY <2>1, RowAdded
  <2>5. QED
    BY <1>1, <2>3, <2>4 DEF Types
<1>7. CASE UNCHANGED <<stored, unsent, incoming, appearances, allMessage, alertCount>>
  BY <1>1, <1>7 DEF Types
<1>8. CASE \/ \E r \in Room : Read(r)
           \/ IndexChanges \/ \E i : IndexSnapshot(i)
           \/ UNCHANGED vars
  BY <1>7, <1>8 DEF Read, IndexChanges, IndexSnapshot, vars, docVars, listVars
<1>9. QED
  BY <1>2, <1>3, <1>4, <1>5, <1>6, <1>8 DEF Next, Snapshot

\* A message that no room has had is nowhere.
LEMMA NewIsNowhere ==
  ASSUME IInv
  PROVE  Nowhere(NewId, stored) /\ Nowhere(NewId, unsent)
BY KnownAre, NewNumber DEF IInv, Nowhere

\* The oldest message without a server time is at no other place.
LEMMA OldestIsNowhere ==
  ASSUME IInv, NEW r \in Room, Sent(r)
  PROVE  Nowhere(unsent[r][1], stored) /\ unsent[r][1] \notin incoming
BY Timed DEF IInv, Places

\* The messages only grow in number.
LEMMA KnownGrows ==
  ASSUME IInv, [Next]_vars
  PROVE  /\ Known' = Known \/ Known' = Known \cup {NewId}
         /\ incoming' \subseteq Known'
<1>1. /\ stored \in [Room -> Seq(ChatId)] /\ unsent \in [Room -> Seq(ChatId)]
      /\ stored' \in [Room -> Seq(ChatId)] /\ unsent' \in [Room -> Seq(ChatId)]
  BY TypesKept DEF IInv, Types
<1>2. Known = KnownOf(stored, unsent) /\ Known' = KnownOf(stored', unsent')
  BY DEF Known, Documents, KnownOf
<1>3. \A m : m \in KnownOf(stored, unsent) <=>
        \/ \E r \in Room : \E i \in 1 .. Len(stored[r]) : stored[r][i] = m
        \/ \E r \in Room : \E i \in 1 .. Len(unsent[r]) : unsent[r][i] = m
  BY ZenonT(40), <1>1, KnownOfAre
<1>4. \A m : m \in KnownOf(stored', unsent') <=>
        \/ \E r \in Room : \E i \in 1 .. Len(stored'[r]) : stored'[r][i] = m
        \/ \E r \in Room : \E i \in 1 .. Len(unsent'[r]) : unsent'[r][i] = m
  BY <1>1, KnownOfAre
<1> DEFINE K == KnownOf(stored, unsent)
           L == KnownOf(stored', unsent')
<1> HIDE DEF K, L
<1>5. CASE \E r \in Room : Receive(r)
  <2>1. PICK r \in Room : Receive(r)
    BY <1>5
  <2>2. unsent' = unsent /\ incoming' = incoming \cup {NewId}
    BY <2>1 DEF Receive
  <2>3. /\ \A q \in Room : \A i \in 1 .. Len(stored'[q]) :
             \/ i \in 1 .. Len(stored[q]) /\ stored'[q][i] = stored[q][i]
             \/ stored'[q][i] = NewId
        /\ \A q \in Room : \A i \in 1 .. Len(stored[q]) :
             i \in 1 .. Len(stored'[q]) /\ stored'[q][i] = stored[q][i]
        /\ \E i \in 1 .. Len(stored'[r]) : stored'[r][i] = NewId
    <3>1. /\ OneEach(stored) /\ Nowhere(NewId, stored)
      BY NewIsNowhere DEF IInv, Places
    <3>2. /\ \A q \in Room : q # r => stored'[q] = stored[q]
          /\ stored'[r] = Append(stored[r], NewId) /\ NewId \in ChatId
      BY <2>1, Received
    <3>3. IsAdded(stored, stored', r, NewId)
      BY <1>1, <3>1, <3>2, Added
    <3>4. QED
      BY <3>3 DEF IsAdded
  <2>4. \A m : m \in L <=> m \in K \/ m = NewId
    <3>1. \A m : m \in L => m \in K \/ m = NewId
      <4>1. SUFFICES ASSUME NEW m, m \in L, m # NewId
                     PROVE  m \in K
        OBVIOUS
      <4>2. \/ \E q \in Room : \E i \in 1 .. Len(stored'[q]) : stored'[q][i] = m
            \/ \E q \in Room : \E i \in 1 .. Len(unsent'[q]) : unsent'[q][i] = m
        BY <1>4, <4>1 DEF L
      <4>3. \/ \E q \in Room : \E i \in 1 .. Len(stored[q]) : stored[q][i] = m
            \/ \E q \in Room : \E i \in 1 .. Len(unsent[q]) : unsent[q][i] = m
        BY <2>2, <2>3, <4>1, <4>2
      <4>4. QED
        BY <1>3, <4>3 DEF K
    <3>2. \A m : m \in K => m \in L
      BY <1>3, <1>4, <2>2, <2>3 DEF K, L
    <3>3. NewId \in L
      BY <1>4, <2>3 DEF L
    <3>4. QED
      BY <3>1, <3>2, <3>3
  <2>5. L = K \cup {NewId}
    BY <2>4
  <2>6. Known' = Known \cup {NewId}
    BY <1>2, <2>5 DEF K, L
  <2>7. QED
    BY <2>2, <2>6 DEF IInv, Numbered
<1>6. CASE \E r \in Room : Send(r)
  <2>1. PICK r \in Room : Send(r)
    BY <1>6
  <2>2. stored' = stored /\ incoming' = incoming
    BY <2>1 DEF Send
  <2>3. /\ \A q \in Room : \A i \in 1 .. Len(unsent'[q]) :
             \/ i \in 1 .. Len(unsent[q]) /\ unsent'[q][i] = unsent[q][i]
             \/ unsent'[q][i] = NewId
        /\ \A q \in Room : \A i \in 1 .. Len(unsent[q]) :
             i \in 1 .. Len(unsent'[q]) /\ unsent'[q][i] = unsent[q][i]
        /\ \E i \in 1 .. Len(unsent'[r]) : unsent'[r][i] = NewId
    <3>1. /\ OneEach(unsent) /\ Nowhere(NewId, unsent)
      BY NewIsNowhere DEF IInv, Places
    <3>2. /\ \A q \in Room : q # r => unsent'[q] = unsent[q]
          /\ unsent'[r] = Append(unsent[r], NewId) /\ NewId \in ChatId
      BY <2>1, WasSent
    <3>3. IsAdded(unsent, unsent', r, NewId)
      BY <1>1, <3>1, <3>2, Added
    <3>4. QED
      BY <3>3 DEF IsAdded
  <2>4. \A m : m \in L <=> m \in K \/ m = NewId
    <3>1. \A m : m \in L => m \in K \/ m = NewId
      <4>1. SUFFICES ASSUME NEW m, m \in L, m # NewId
                     PROVE  m \in K
        OBVIOUS
      <4>2. \/ \E q \in Room : \E i \in 1 .. Len(stored'[q]) : stored'[q][i] = m
            \/ \E q \in Room : \E i \in 1 .. Len(unsent'[q]) : unsent'[q][i] = m
        BY <1>4, <4>1 DEF L
      <4>3. \/ \E q \in Room : \E i \in 1 .. Len(stored[q]) : stored[q][i] = m
            \/ \E q \in Room : \E i \in 1 .. Len(unsent[q]) : unsent[q][i] = m
        BY <2>2, <2>3, <4>1, <4>2
      <4>4. QED
        BY <1>3, <4>3 DEF K
    <3>2. \A m : m \in K => m \in L
      BY SMTT(40), <1>3, <1>4, <2>2, <2>3 DEF K, L
    <3>3. NewId \in L
      BY <1>4, <2>3 DEF L
    <3>4. QED
      BY <3>1, <3>2, <3>3
  <2>5. L = K \cup {NewId}
    BY <2>4
  <2>6. Known' = Known \cup {NewId}
    BY <1>2, <2>5 DEF K, L
  <2>7. QED
    BY <2>2, <2>6 DEF IInv, Numbered
<1>7. CASE \E r \in Room : Sent(r)
  <2>1. PICK r \in Room : Sent(r)
    BY <1>7
  <2> DEFINE x == unsent[r][1]
  <2>2. /\ \A q \in Room : q # r => stored'[q] = stored[q]
        /\ \A q \in Room : q # r => unsent'[q] = unsent[q]
        /\ stored'[r] = Append(stored[r], x) /\ unsent'[r] = Tail(unsent[r])
        /\ unsent[r] # <<>> /\ 1 \in 1 .. Len(unsent[r]) /\ x \in ChatId
    BY <2>1, Timed
  <2>3. OneEach(stored) /\ OneEach(unsent) /\ Nowhere(x, stored)
    BY <2>1, OldestIsNowhere DEF IInv, Places
  <2> HIDE DEF x
  <2>4. /\ \A q \in Room : \A i \in 1 .. Len(stored'[q]) :
             \/ i \in 1 .. Len(stored[q]) /\ stored'[q][i] = stored[q][i]
             \/ stored'[q][i] = x
        /\ \A q \in Room : \A i \in 1 .. Len(stored[q]) :
             i \in 1 .. Len(stored'[q]) /\ stored'[q][i] = stored[q][i]
        /\ \E i \in 1 .. Len(stored'[r]) : stored'[r][i] = x
    <3>1. IsAdded(stored, stored', r, x)
      BY <1>1, <2>2, <2>3, Added
    <3>2. QED
      BY <3>1 DEF IsAdded
  <2>5. /\ \A q \in Room : \A i \in 1 .. Len(unsent'[q]) :
             \E j \in 1 .. Len(unsent[q]) : unsent'[q][i] = unsent[q][j]
        /\ \A q \in Room : \A i \in 1 .. Len(unsent[q]) :
             \/ unsent[q][i] = x
             \/ \E j \in 1 .. Len(unsent'[q]) : unsent'[q][j] = unsent[q][i]
    <3>1. IsTakenOut(unsent, unsent', x)
      BY <1>1, <2>2, <2>3, TakenOut DEF x
    <3>2. QED
      BY <3>1 DEF IsTakenOut
  <2>6. x \in K /\ x \in L
    <3>1. x \in K
      BY <1>3, <2>2 DEF K, x
    <3>2. x \in L
      BY <1>4, <2>4 DEF L
    <3>3. QED
      BY <3>1, <3>2
  <2>7. ASSUME NEW m, m \in L, m # x PROVE m \in K
    <3>1. \/ \E q \in Room : \E i \in 1 .. Len(stored'[q]) : stored'[q][i] = m
          \/ \E q \in Room : \E i \in 1 .. Len(unsent'[q]) : unsent'[q][i] = m
      BY <1>4, <2>7 DEF L
    <3>2. \/ \E q \in Room : \E i \in 1 .. Len(stored[q]) : stored[q][i] = m
          \/ \E q \in Room : \E i \in 1 .. Len(unsent[q]) : unsent[q][i] = m
      <4>1. CASE \E q \in Room : \E i \in 1 .. Len(stored'[q]) : stored'[q][i] = m
        BY <2>4, <2>7, <4>1
      <4>2. CASE \E q \in Room : \E i \in 1 .. Len(unsent'[q]) : unsent'[q][i] = m
        <5>1. PICK q \in Room : \E i \in 1 .. Len(unsent'[q]) : unsent'[q][i] = m
          BY <4>2
        <5>2. \E j \in 1 .. Len(unsent[q]) : unsent[q][j] = m
          BY SMTT(40), <2>5, <5>1
        <5>3. QED
          BY <5>2
      <4>3. QED
        BY <3>1, <4>1, <4>2
    <3>3. QED
      BY <1>3, <3>2 DEF K
  <2>8. ASSUME NEW m, m \in K, m # x PROVE m \in L
    <3>1. \/ \E q \in Room : \E i \in 1 .. Len(stored[q]) : stored[q][i] = m
          \/ \E q \in Room : \E i \in 1 .. Len(unsent[q]) : unsent[q][i] = m
      BY <1>3, <2>8 DEF K
    <3>2. \/ \E q \in Room : \E i \in 1 .. Len(stored'[q]) : stored'[q][i] = m
          \/ \E q \in Room : \E i \in 1 .. Len(unsent'[q]) : unsent'[q][i] = m
      <4>1. CASE \E q \in Room : \E i \in 1 .. Len(stored[q]) : stored[q][i] = m
        BY <2>4, <4>1
      <4>2. CASE \E q \in Room : \E i \in 1 .. Len(unsent[q]) : unsent[q][i] = m
        <5>1. PICK q \in Room : \E i \in 1 .. Len(unsent[q]) : unsent[q][i] = m
          BY <4>2
        <5>2. \E j \in 1 .. Len(unsent'[q]) : unsent'[q][j] = m
          BY <2>5, <2>8, <5>1
        <5>3. QED
          BY <5>2
      <4>3. QED
        BY <3>1, <4>1, <4>2
    <3>3. QED
      BY <1>4, <3>2 DEF L
  <2>9. K = L
    BY <2>6, <2>7, <2>8
  <2>10. Known' = Known /\ incoming' = incoming
    BY <1>2, <2>1, <2>9 DEF K, L, Sent
  <2>11. QED
    BY <2>10 DEF IInv, Numbered
<1>8. CASE UNCHANGED <<stored, unsent, incoming>>
  <2>1. Known' = Known
    BY <1>2, <1>8
  <2>2. QED
    BY <1>8, <2>1 DEF IInv, Numbered
<1>9. CASE \/ \E r \in Room : Read(r)
           \/ IndexChanges \/ ViewWillAppear
           \/ \E i : IndexSnapshot(i) \/ RoomSnapshot(i)
           \/ UNCHANGED vars
  BY <1>8, <1>9
     DEF Read, IndexChanges, ViewWillAppear, IndexSnapshot, RoomSnapshot, vars,
         docVars, listVars
<1>10. QED
  BY <1>5, <1>6, <1>7, <1>9 DEF Next, Snapshot

LEMMA NumberedKept ==
  ASSUME IInv, [Next]_vars
  PROVE  Numbered'
<1>1. incoming' \subseteq Known'
  BY KnownGrows
<1>2. \E n \in Nat : Known' = 1 .. n
  <2>1. CASE Known' = Known
    BY <2>1 DEF IInv, Numbered
  <2>2. CASE Known' = Known \cup {NewId}
    BY <2>2, NewNumber DEF IInv
  <2>3. QED
    BY <2>1, <2>2, KnownGrows
<1>3. QED
  BY <1>1, <1>2 DEF Numbered

LEMMA PlacesKept ==
  ASSUME IInv, [Next]_vars
  PROVE  Places'
<1>1. /\ stored \in [Room -> Seq(ChatId)] /\ unsent \in [Room -> Seq(ChatId)]
      /\ stored' \in [Room -> Seq(ChatId)] /\ unsent' \in [Room -> Seq(ChatId)]
  BY TypesKept DEF IInv, Types
<1>2. /\ OneEach(stored) /\ OneEach(unsent)
      /\ \A r \in Room : \A i \in 1 .. Len(unsent[r]) :
           Nowhere(unsent[r][i], stored) /\ unsent[r][i] \notin incoming
  BY DEF IInv, Places
<1>3. CASE \E r \in Room : Receive(r)
  <2>1. PICK r \in Room : Receive(r)
    BY <1>3
  <2>2. unsent' = unsent /\ incoming' = incoming \cup {NewId}
    BY <2>1 DEF Receive
  <2>3. Nowhere(NewId, stored) /\ Nowhere(NewId, unsent)
    BY NewIsNowhere
  <2>4. IsAdded(stored, stored', r, NewId)
    <3>1. /\ \A q \in Room : q # r => stored'[q] = stored[q]
          /\ stored'[r] = Append(stored[r], NewId) /\ NewId \in ChatId
      BY <2>1, Received
    <3>2. QED
      BY <1>1, <1>2, <2>3, <3>1, Added
  <2>5. \A q \in Room : \A i \in 1 .. Len(stored'[q]) :
          \/ i \in 1 .. Len(stored[q]) /\ stored'[q][i] = stored[q][i]
          \/ stored'[q][i] = NewId
    BY <2>4 DEF IsAdded
  <2>6. ASSUME NEW q \in Room, NEW i \in 1 .. Len(unsent[q])
        PROVE  Nowhere(unsent[q][i], stored') /\ unsent[q][i] \notin incoming'
    <3>1. unsent[q][i] # NewId
      BY <2>3, <2>6 DEF Nowhere
    <3>2. Nowhere(unsent[q][i], stored) /\ unsent[q][i] \notin incoming
      BY <1>2, <2>6
    <3>3. QED
      BY <2>2, <2>5, <3>1, <3>2 DEF Nowhere
  <2>7. QED
    BY <1>2, <2>2, <2>4, <2>6 DEF Places, IsAdded
<1>4. CASE \E r \in Room : Send(r)
  <2>1. PICK r \in Room : Send(r)
    BY <1>4
  <2>2. stored' = stored /\ incoming' = incoming
    BY <2>1 DEF Send
  <2>3. /\ Nowhere(NewId, stored) /\ Nowhere(NewId, unsent) /\ NewId \notin incoming
    BY NewIsNowhere, NewNumber DEF IInv, Numbered
  <2>4. IsAdded(unsent, unsent', r, NewId)
    <3>1. /\ \A q \in Room : q # r => unsent'[q] = unsent[q]
          /\ unsent'[r] = Append(unsent[r], NewId) /\ NewId \in ChatId
      BY <2>1, WasSent
    <3>2. QED
      BY <1>1, <1>2, <2>3, <3>1, Added
  <2>5. ASSUME NEW q \in Room, NEW i \in 1 .. Len(unsent'[q])
        PROVE  Nowhere(unsent'[q][i], stored) /\ unsent'[q][i] \notin incoming
    <3>1. \/ i \in 1 .. Len(unsent[q]) /\ unsent'[q][i] = unsent[q][i]
          \/ unsent'[q][i] = NewId
      BY <2>4, <2>5 DEF IsAdded
    <3>2. QED
      BY <1>2, <2>3, <3>1
  <2>6. QED
    BY <1>2, <2>2, <2>4, <2>5 DEF Places, IsAdded
<1>5. CASE \E r \in Room : Sent(r)
  <2>1. PICK r \in Room : Sent(r)
    BY <1>5
  <2> DEFINE x == unsent[r][1]
  <2>2. incoming' = incoming
    BY <2>1 DEF Sent
  <2>3. Nowhere(x, stored)
    BY <2>1, OldestIsNowhere
  <2>4. /\ \A q \in Room : q # r => stored'[q] = stored[q]
        /\ \A q \in Room : q # r => unsent'[q] = unsent[q]
        /\ stored'[r] = Append(stored[r], x) /\ unsent'[r] = Tail(unsent[r])
        /\ unsent[r] # <<>> /\ x \in ChatId
    BY <2>1, Timed
  <2> HIDE DEF x
  <2>5. IsAdded(stored, stored', r, x)
    BY <1>1, <1>2, <2>3, <2>4, Added
  <2>6. IsTakenOut(unsent, unsent', x)
    BY <1>1, <1>2, <2>4, TakenOut DEF x
  <2>7. ASSUME NEW q \in Room, NEW i \in 1 .. Len(unsent'[q])
        PROVE  Nowhere(unsent'[q][i], stored') /\ unsent'[q][i] \notin incoming
    <3>1. PICK j \in 1 .. Len(unsent[q]) : unsent'[q][i] = unsent[q][j]
      BY <2>6, <2>7 DEF IsTakenOut
    <3>2. Nowhere(unsent'[q][i], stored) /\ unsent'[q][i] \notin incoming
      BY <1>2, <3>1
    <3>3. unsent'[q][i] # x
      BY <2>6, <2>7 DEF IsTakenOut, Nowhere
    <3>4. QED
      BY <2>5, <3>2, <3>3 DEF IsAdded, Nowhere
  <2>8. QED
    BY <2>2, <2>5, <2>6, <2>7 DEF Places, IsAdded, IsTakenOut
<1>6. CASE UNCHANGED <<stored, unsent, incoming>>
  BY <1>2, <1>6 DEF Places
<1>7. CASE \/ \E r \in Room : Read(r)
           \/ IndexChanges \/ ViewWillAppear
           \/ \E i : IndexSnapshot(i) \/ RoomSnapshot(i)
           \/ UNCHANGED vars
  BY <1>6, <1>7
     DEF Read, IndexChanges, ViewWillAppear, IndexSnapshot, RoomSnapshot, vars,
         docVars, listVars
<1>8. QED
  BY <1>3, <1>4, <1>5, <1>7 DEF Next, Snapshot

\* A snapshot comes to a listener, and there is none before the list appears.
LEMMA SnapshotNeedsListener ==
  ASSUME IInv, NEW i, Snapshot(i)
  PROVE  appearances # 0
<1>1. i \in DOMAIN listener
  BY DEF Snapshot
<1>2. listener # <<>>
  BY <1>1
<1>3. QED
  BY <1>2 DEF IInv, Rows

LEMMA RowsKept ==
  ASSUME IInv, [Next]_vars
  PROVE  Rows'
<1>1. Types /\ Rows
  BY DEF IInv
<1>2. /\ Len(allMessage) \in Nat /\ Len(alertCount) \in Nat /\ appearances \in Nat
      /\ allMessage \in Seq(ChatId) /\ alertCount \in Seq(Nat)
  BY <1>1, Lengths DEF Types
<1>3. \A m \in Known : m \in Known'
  BY KnownGrows
<1>4. CASE ViewWillAppear
  <2>1. /\ appearances' = appearances + 1 /\ allMessage' = <<>>
        /\ alertCount' = alertCount
    BY <1>4 DEF ViewWillAppear
  <2>2. Len(allMessage') = 0
    BY <2>1
  <2>3. appearances' # 0
    BY <1>2, <2>1
  <2>4. appearances' <= 1 => Len(alertCount') = 0
    <3>1. appearances' <= 1 => appearances = 0
      BY <1>2, <2>1
    <3>2. appearances = 0 => alertCount = <<>>
      BY <1>1 DEF Rows
    <3>3. QED
      BY <2>1, <3>1, <3>2
  <2>5. Len(alertCount') >= 0
    BY <1>2, <2>1
  <2>6. \A k \in 1 .. Len(allMessage') : allMessage'[k] \in Known'
    BY <2>2
  <2>7. QED
    BY <2>2, <2>3, <2>4, <2>5, <2>6 DEF Rows
<1>5. CASE \E i : Snapshot(i) /\ RoomSnapshot(i)
  <2>1. PICK i : Snapshot(i) /\ RoomSnapshot(i)
    BY <1>5
  <2>2. PICK m \in Known \cap ChatId : allMessage' = Append(allMessage, m)
    BY <2>1, RowAdded
  <2>3. PICK n \in Nat : alertCount' = Append(alertCount, n)
    BY <2>1, RowAdded
  <2>4. appearances' = appearances /\ appearances # 0
    BY <2>1, RowAdded, SnapshotNeedsListener
  <2>5. Len(allMessage') = Len(allMessage) + 1
        /\ \A k \in 1 .. Len(allMessage') :
             \/ k \in 1 .. Len(allMessage) /\ allMessage'[k] = allMessage[k]
             \/ allMessage'[k] = m
    <3> DEFINE t == Append(allMessage, m)
    <3>1. /\ Len(t) = Len(allMessage) + 1
          /\ \A k \in 1 .. Len(allMessage) : t[k] = allMessage[k]
          /\ t[Len(allMessage) + 1] = m
          /\ \A k \in 1 .. Len(t) : k \in 1 .. Len(allMessage) \/ k = Len(allMessage) + 1
      BY <1>2, AppendIs
    <3> HIDE DEF t
    <3>2. QED
      BY <2>2, <3>1 DEF t
  <2>6. Len(alertCount') = Len(alertCount) + 1
    BY <1>2, <2>3, AppendIs
  <2>7. \A k \in 1 .. Len(allMessage') : allMessage'[k] \in Known'
    BY <1>1, <1>3, <2>2, <2>5 DEF Rows
  <2>8. /\ Len(alertCount') >= Len(allMessage')
        /\ appearances' <= 1 => Len(alertCount') = Len(allMessage')
    BY <1>1, <1>2, <2>4, <2>5, <2>6 DEF Rows
  <2>9. QED
    BY <2>4, <2>7, <2>8 DEF Rows
<1>6. CASE \E i : Snapshot(i) /\ IndexSnapshot(i)
  <2>1. PICK i : Snapshot(i) /\ IndexSnapshot(i)
    BY <1>6
  <2>2. UNCHANGED <<appearances, allMessage, alertCount>> /\ appearances # 0
    BY <2>1, SnapshotNeedsListener DEF IndexSnapshot
  <2>3. QED
    BY <1>1, <1>3, <2>2 DEF Rows
<1>7. CASE UNCHANGED listVars
  BY <1>1, <1>3, <1>7 DEF Rows, listVars
<1>8. CASE \/ \E r \in Room : Receive(r) \/ Send(r) \/ Sent(r) \/ Read(r)
           \/ IndexChanges \/ UNCHANGED vars
  BY <1>7, <1>8 DEF Receive, Send, Sent, Read, IndexChanges, vars
<1>9. QED
  BY <1>4, <1>5, <1>6, <1>8 DEF Next, Snapshot

\* The last message of a room, with a count of what is unread in it.
LEMMA NewRowFits ==
  ASSUME IInv, NEW r \in Room, Range(Documents(r)) # {},
         NEW q \in Room, NEW p \in 1 .. Len(stored[q]),
         stored[q][p] = Last(Documents(r))
  PROVE  Fits(Unread(r), UpTo(stored[q], p) \cap incoming, isRead)
<1>1. Types /\ Places
  BY DEF IInv
<1>2. ~ \E i \in 1 .. Len(unsent[r]) : unsent[r][i] = Last(Documents(r))
  BY <1>1 DEF Places, Nowhere
<1>3. /\ Documents(r) = stored[r]
      /\ Len(stored[r]) \in 1 .. Len(stored[r])
      /\ Last(Documents(r)) = stored[r][Len(stored[r])]
  BY <1>1, <1>2, LastDocument
<1>4. q = r /\ p = Len(stored[r])
  BY <1>1, <1>3 DEF Places, OneEach
<1>5. stored[r] \in Seq(ChatId) /\ Len(stored[r]) \in Nat
  BY <1>1, Lengths
<1>6. UpTo(stored[r], Len(stored[r])) = Range(Documents(r))
  BY <1>3, <1>5, LenProperties DEF UpTo, Range
<1> DEFINE S == UpTo(stored[r], Len(stored[r])) \cap incoming
<1>7. IsFiniteSet(S)
  <2>1. IsFiniteSet(UpTo(stored[r], Len(stored[r])))
    BY <1>5, UpToFinite
  <2>2. QED
    BY <2>1, FS_Intersection
<1>8. Unread(r) = Cardinality(S \ isRead)
  BY <1>6 DEF Unread
<1> HIDE DEF S
<1>9. Cardinality(S \ isRead) <= Cardinality(S)
  BY <1>7, FS_Subset
<1>10. IsFiniteSet(S \ isRead)
  BY <1>7, FS_Difference
<1>11. Cardinality(S \ isRead) \in Nat
  BY <1>10, FS_CardinalityType
<1>12. Fits(Unread(r), S, isRead)
  BY <1>8, <1>9, <1>11 DEF Fits
<1>13. QED
  BY <1>4, <1>12 DEF S

\* The rows, their counts and the rooms' messages after a message has got a
\* server time at the end of a room: none of them is about the new place.
LEMMA CountsAfterAdded ==
  ASSUME IInv, NEW r \in Room, NEW x, IsAdded(stored, stored', r, x),
         UNCHANGED <<allMessage, alertCount, isRead, appearances>>,
         Nowhere(x, stored),
         x \notin incoming' \/ x \notin Known,
         \A m \in incoming' : m # x => m \in incoming,
         incoming \subseteq incoming'
  PROVE  Counts'
<1>1. SUFFICES ASSUME appearances <= 1,
                      NEW k \in 1 .. Len(allMessage), NEW q \in Room,
                      NEW p \in 1 .. Len(stored'[q]),
                      stored'[q][p] = allMessage[k], allMessage[k] \in incoming'
               PROVE  Fits(alertCount[k], UpTo(stored'[q], p) \cap incoming', isRead)
  BY DEF Counts
<1>2. allMessage[k] \in Known
  BY DEF IInv, Rows
<1>3. allMessage[k] # x
  BY <1>1, <1>2
<1>4. p \in 1 .. Len(stored[q]) /\ stored[q][p] = allMessage[k]
  BY <1>1, <1>3 DEF IsAdded
<1>5. allMessage[k] \in incoming
  BY <1>1, <1>3
<1>6. Fits(alertCount[k], UpTo(stored[q], p) \cap incoming, isRead)
  BY <1>1, <1>4, <1>5 DEF IInv, Counts
<1>7. Len(stored[q]) \in Nat
  BY Lengths DEF IInv
<1>8. \A i \in 1 .. p : i \in 1 .. Len(stored[q])
  BY <1>4, <1>7
<1>9. \A i \in 1 .. p : stored'[q][i] = stored[q][i] /\ stored[q][i] # x
  BY <1>8 DEF IsAdded, Nowhere
<1>10. UpTo(stored'[q], p) = UpTo(stored[q], p) /\ x \notin UpTo(stored[q], p)
  BY <1>9 DEF UpTo
<1>11. UpTo(stored'[q], p) \cap incoming' = UpTo(stored[q], p) \cap incoming
  BY <1>10
<1>12. QED
  BY <1>6, <1>11

LEMMA CountsKept ==
  ASSUME IInv, [Next]_vars
  PROVE  Counts'
<1>1. Types /\ Numbered /\ Places /\ Rows /\ Counts
  BY DEF IInv
<1>2. /\ stored \in [Room -> Seq(ChatId)] /\ unsent \in [Room -> Seq(ChatId)]
      /\ stored' \in [Room -> Seq(ChatId)] /\ unsent' \in [Room -> Seq(ChatId)]
  BY <1>1, TypesKept DEF Types
<1>3. /\ Len(allMessage) \in Nat /\ Len(alertCount) \in Nat
      /\ allMessage \in Seq(ChatId) /\ alertCount \in Seq(Nat)
  BY <1>1, Lengths DEF Types
<1>4. CASE \E r \in Room : Receive(r)
  <2>1. PICK r \in Room : Receive(r)
    BY <1>4
  <2>2. /\ UNCHANGED <<allMessage, alertCount, isRead, appearances>>
        /\ incoming' = incoming \cup {NewId}
    BY <2>1 DEF Receive, listVars
  <2>3. Nowhere(NewId, stored) /\ NewId \notin Known
    BY <1>1, NewIsNowhere, NewNumber
  <2>4. IsAdded(stored, stored', r, NewId)
    <3>1. /\ \A q \in Room : q # r => stored'[q] = stored[q]
          /\ stored'[r] = Append(stored[r], NewId) /\ NewId \in ChatId
      BY <2>1, Received
    <3>2. OneEach(stored)
      BY <1>1 DEF Places
    <3>3. QED
      BY <1>2, <2>3, <3>1, <3>2, Added
  <2>5. QED
    BY <2>2, <2>3, <2>4, CountsAfterAdded
<1>5. CASE \E r \in Room : Sent(r)
  <2>1. PICK r \in Room : Sent(r)
    BY <1>5
  <2>2. UNCHANGED <<allMessage, alertCount, isRead, appearances, incoming>>
    BY <2>1 DEF Sent, listVars
  <2> DEFINE x == unsent[r][1]
  <2>3. Nowhere(x, stored) /\ x \notin incoming
    BY <2>1, OldestIsNowhere
  <2>4. IsAdded(stored, stored', r, x)
    <3>1. /\ \A q \in Room : q # r => stored'[q] = stored[q]
          /\ stored'[r] = Append(stored[r], x) /\ x \in ChatId
      BY <2>1, Timed
    <3>2. OneEach(stored)
      BY <1>1 DEF Places
    <3> HIDE DEF x
    <3>3. QED
      BY <1>2, <2>3, <3>1, <3>2, Added
  <2> HIDE DEF x
  <2>5. QED
    BY <2>2, <2>3, <2>4, CountsAfterAdded
<1>6. CASE \E r \in Room : Read(r)
  <2>1. isRead \subseteq isRead'
    BY <1>6 DEF Read
  <2>2. UNCHANGED <<stored, incoming, appearances, allMessage, alertCount>>
    BY <1>6 DEF Read, listVars
  <2>3. SUFFICES ASSUME appearances <= 1,
                        NEW k \in 1 .. Len(allMessage), NEW r \in Room,
                        NEW p \in 1 .. Len(stored[r]),
                        stored[r][p] = allMessage[k], allMessage[k] \in incoming
                 PROVE  Fits(alertCount[k], UpTo(stored[r], p) \cap incoming, isRead')
    BY <2>2 DEF Counts
  <2> DEFINE S == UpTo(stored[r], p) \cap incoming
  <2>4. IsFiniteSet(S)
    <3>1. p \in Nat
      OBVIOUS
    <3>2. IsFiniteSet(UpTo(stored[r], p))
      BY <3>1, UpToFinite
    <3>3. QED
      BY <3>2, FS_Intersection
  <2>5. Fits(alertCount[k], S, isRead)
    BY <1>1, <2>3 DEF Counts
  <2>6. alertCount[k] \in Nat
    <3>1. Len(alertCount) >= Len(allMessage)
      BY <1>1 DEF Rows
    <3>2. k \in 1 .. Len(alertCount)
      BY <1>3, <3>1
    <3>3. QED
      BY <1>1, <3>2, Lengths
  <2> HIDE DEF S
  <2>7. Fits(alertCount[k], S, isRead')
    BY <2>1, <2>4, <2>5, <2>6, FitsStays
  <2>8. QED
    BY <2>7 DEF S
<1>7. CASE ViewWillAppear
  <2>1. Len(allMessage') = 0
    BY <1>7 DEF ViewWillAppear
  <2>2. QED
    BY <2>1 DEF Counts
<1>8. CASE \E i : RoomSnapshot(i)
  <2>1. PICK i : RoomSnapshot(i)
    BY <1>8
  <2> DEFINE r == listener[i].on
             m == Last(Documents(r))
  <2>2. /\ r \in Room /\ Range(Documents(r)) # {}
        /\ m \in ChatId /\ Unread(r) \in Nat
        /\ allMessage' = Append(allMessage, m)
        /\ alertCount' = Append(alertCount, Unread(r))
        /\ UNCHANGED <<stored, unsent, incoming, isRead, appearances>>
    BY <2>1, RowAdded
  <2> HIDE DEF r
  <2>3. /\ \A k \in 1 .. Len(allMessage') :
             \/ k \in 1 .. Len(allMessage) /\ allMessage'[k] = allMessage[k]
             \/ k = Len(allMessage) + 1 /\ allMessage'[k] = m
    <3> DEFINE t == Append(allMessage, m)
    <3>1. /\ \A k \in 1 .. Len(allMessage) : t[k] = allMessage[k]
          /\ t[Len(allMessage) + 1] = m
          /\ \A k \in 1 .. Len(t) : k \in 1 .. Len(allMessage) \/ k = Len(allMessage) + 1
      BY <1>3, <2>2, AppendIs
    <3> HIDE DEF t
    <3>2. QED
      BY <2>2, <3>1 DEF t
  <2>4. /\ \A k \in 1 .. Len(alertCount) : alertCount'[k] = alertCount[k]
        /\ alertCount'[Len(alertCount) + 1] = Unread(r)
    BY <1>3, <2>2, AppendIs
  <2>5. SUFFICES ASSUME appearances <= 1,
                        NEW k \in 1 .. Len(allMessage'), NEW q \in Room,
                        NEW p \in 1 .. Len(stored[q]),
                        stored[q][p] = allMessage'[k], allMessage'[k] \in incoming
                 PROVE  Fits(alertCount'[k], UpTo(stored[q], p) \cap incoming, isRead)
    BY <2>2 DEF Counts
  <2>6. Len(alertCount) = Len(allMessage)
    BY <1>1, <2>5 DEF Rows
  <2>7. CASE k \in 1 .. Len(allMessage) /\ allMessage'[k] = allMessage[k]
    <3>1. alertCount'[k] = alertCount[k]
      BY <2>4, <2>6, <2>7
    <3>2. QED
      BY <1>1, <2>5, <2>7, <3>1 DEF Counts
  <2>8. CASE k = Len(allMessage) + 1 /\ allMessage'[k] = m
    <3>1. alertCount'[k] = Unread(r)
      BY <2>4, <2>6, <2>8
    <3>2. stored[q][p] = Last(Documents(r))
      BY <2>5, <2>8
    <3>3. QED
      BY <2>2, <3>1, <3>2, NewRowFits
  <2>9. QED
    BY <2>3, <2>7, <2>8
<1>9. CASE UNCHANGED <<stored, incoming, isRead, allMessage, alertCount, appearances>>
  BY <1>1, <1>9 DEF Counts
<1>10. CASE \/ \E r \in Room : Send(r)
            \/ IndexChanges \/ \E i : IndexSnapshot(i)
            \/ UNCHANGED vars
  BY <1>9, <1>10 DEF Send, IndexChanges, IndexSnapshot, vars, docVars, listVars
<1>11. QED
  BY <1>4, <1>5, <1>6, <1>7, <1>8, <1>10 DEF Next, Snapshot

LEMMA InitEstablishes == Init => IInv
<1>1. SUFFICES ASSUME Init PROVE IInv
  OBVIOUS
<1>2. /\ stored = [r \in Room |-> <<>>] /\ unsent = [r \in Room |-> <<>>]
      /\ incoming = {} /\ appearances = 0
      /\ allMessage = <<>> /\ alertCount = <<>> /\ listener = <<>>
  BY <1>1 DEF Init
<1>3. \A r \in Room : /\ stored[r] = <<>> /\ unsent[r] = <<>>
                      /\ Len(stored[r]) = 0 /\ Len(unsent[r]) = 0
  BY <1>2
<1>4. Types
  BY <1>2 DEF Types
<1>5. Numbered
  <2>1. \A r \in Room : Range(Documents(r)) = {}
    BY <1>3, <1>4, InRoom
  <2>2. Known = {}
    BY <2>1 DEF Known
  <2>3. 0 \in Nat /\ 1 .. 0 = {}
    OBVIOUS
  <2>4. QED
    BY <1>2, <2>2, <2>3 DEF Numbered
<1>6. Places
  BY <1>3 DEF Places, OneEach, Nowhere
<1>7. Rows
  BY <1>2 DEF Rows
<1>8. Counts
  BY <1>3 DEF Counts
<1>9. QED
  BY <1>4, <1>5, <1>6, <1>7, <1>8 DEF IInv

LEMMA Inductive == IInv /\ [Next]_vars => IInv'
BY TypesKept, NumberedKept, PlacesKept, RowsKept, CountsKept DEF IInv

\* The documents, the rows and the counts are as described in every state.
THEOREM InvariantHolds == Spec => []IInv
BY InitEstablishes, Inductive, PTL DEF Spec

-----------------------------------------------------------------------------
(* The results.                                                            *)

\* Every row finds its count, however often the list appears and however many
\* listeners pile up: ChatMainVC's cellForRowAt never reads alertCount behind
\* its end.
THEOREM RowsFindCounts == Spec => []RowsHaveCounts
<1>1. IInv => RowsHaveCounts
  BY DEF IInv, Rows, RowsHaveCounts
<1>2. QED
  BY <1>1, InvariantHolds, PTL

LEMMA PlacesOfMessages ==
  ASSUME IInv
  PROVE  AlertsFitRows
<1>1. SUFFICES ASSUME appearances <= 1,
                      NEW k \in DOMAIN allMessage, NEW r \in Room,
                      allMessage[k] \in Range(stored[r]) \cap incoming
      PROVE  LET place == CHOOSE n \in DOMAIN stored[r] : stored[r][n] = allMessage[k]
                 upTo == Range(SubSeq(stored[r], 1, place)) \cap incoming
             IN  /\ alertCount[k] >= Cardinality(upTo \ isRead)
                 /\ alertCount[k] <= Cardinality(upTo)
  BY DEF AlertsFitRows
<1>2. Types /\ Counts
  BY DEF IInv
<1>3. /\ stored[r] \in Seq(ChatId) /\ Len(stored[r]) \in Nat
      /\ DOMAIN stored[r] = 1 .. Len(stored[r])
      /\ k \in 1 .. Len(allMessage)
  BY <1>1, <1>2, Lengths, LenProperties
<1> DEFINE place == CHOOSE n \in DOMAIN stored[r] : stored[r][n] = allMessage[k]
<1>4. \E n \in DOMAIN stored[r] : stored[r][n] = allMessage[k]
  BY <1>1 DEF Range
<1>5. place \in 1 .. Len(stored[r]) /\ stored[r][place] = allMessage[k]
  BY <1>3, <1>4
<1> HIDE DEF place
<1>6. Range(SubSeq(stored[r], 1, place)) = UpTo(stored[r], place)
  <2> DEFINE t == SubSeq(stored[r], 1, place)
  <2>1. place \in Nat /\ 1 \in 1 .. Len(stored[r]) + 1 /\ place >= 1
        /\ place \in 0 .. Len(stored[r])
    BY <1>3, <1>5
  <2>2. t \in Seq(ChatId) /\ Len(t) = place /\ \A i \in 1 .. place : t[i] = stored[r][i]
    <3>1. stored[r] \in Seq(ChatId) /\ \A i \in 1 .. place : stored[r][i] \in ChatId
      BY <1>2, <1>3, <1>5, Lengths
    <3>2. t = [i \in 1 .. place |-> stored[r][i]]
      BY <1>3, <2>1
    <3>3. QED
      BY <2>1, <3>1, <3>2
  <2> HIDE DEF t
  <2>3. DOMAIN t = 1 .. place
    BY <2>2, LenProperties
  <2>4. Range(t) = UpTo(stored[r], place)
    BY <2>2, <2>3 DEF Range, UpTo
  <2>5. QED
    BY <2>4 DEF t
<1>7. Fits(alertCount[k], UpTo(stored[r], place) \cap incoming, isRead)
  BY <1>1, <1>2, <1>3, <1>5 DEF Counts
<1>8. QED
  BY <1>6, <1>7 DEF Fits, place

\* Until the list appears a second time, the number of a row fits the room of
\* the message beside it: both arrays are filled by the same snapshot, and a
\* message that got its server time later is behind it.
THEOREM AlertsFit == Spec => []AlertsFitRows
BY InvariantHolds, PlacesOfMessages, PTL
=============================================================================
