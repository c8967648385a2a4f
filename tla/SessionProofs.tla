---------------------------- MODULE SessionProofs ----------------------------
(***************************************************************************)
(* Proofs about Session, for all sets of devices, names, identifiers and   *)
(* attempts.                                                               *)
(***************************************************************************)
EXTENDS Session, SequenceTheorems, FiniteSetTheorems, TLAPS

-----------------------------------------------------------------------------
(* The invariant.                                                          *)

\* Documents have names, and a document that is being made has that of its
\* attempt.
Named ==
  /\ \A i \in Stored : displayName[i] # NoName
  /\ \A t \in Attempt : phase[t] = "uploading" =>
       document[t] \in Id /\ displayName[document[t]] = name[t]

\* The defaults do not say that nobody is signed in.
DefaultsHaveUser == \A d \in Device : SIGN_IN[d] => USER[d] # NoId

\* A device that is signed in shows its screens, or an attempt was late.
ShownUnlessLate ==
  \A d \in Device : running[d] /\ screen[d] # "home" /\ SIGN_IN[d] =>
    \E t \in Attempt : device[t] = d /\ phase[t] = "late"

\* A name that was not raced has one document, or one that is being made.
OneOrMaking ==
  \A n \in Name \ raced :
    /\ \A i, j \in Accounts(n) : i = j
    /\ \A t, u \in Attempt :
         /\ phase[t] = "uploading" /\ name[t] = n
         /\ phase[u] = "uploading" /\ name[u] = n
         => t = u
    /\ \A t \in Attempt : phase[t] = "uploading" /\ name[t] = n =>
         Accounts(n) = {}

IInv ==
  /\ TypeOK
  /\ Named
  /\ DefaultsHaveUser
  /\ HomeHasUser
  /\ ShownUnlessLate
  /\ OneOrMaking
  /\ SignedInExists

-----------------------------------------------------------------------------
(* Queues as sets.                                                         *)

\* A write that is appended is one element more.
LEMMA RangeAppend ==
  ASSUME NEW S, NEW s \in Seq(S), NEW e \in S
  PROVE  /\ Append(s, e) \in Seq(S)
         /\ Len(Append(s, e)) = Len(s) + 1
         /\ Range(Append(s, e)) = Range(s) \cup {e}
<1>1. /\ Append(s, e) \in Seq(S) /\ Len(Append(s, e)) = Len(s) + 1
      /\ Append(s, e)[Len(s) + 1] = e
      /\ \A i \in 1 .. Len(s) : Append(s, e)[i] = s[i]
  BY AppendProperties
<1>2. /\ Len(s) \in Nat /\ DOMAIN s = 1 .. Len(s)
      /\ DOMAIN Append(s, e) = 1 .. Len(Append(s, e))
  BY <1>1, LenProperties
<1>3. \A x \in Range(s) : x \in Range(Append(s, e))
  <2> SUFFICES ASSUME NEW x \in Range(s) PROVE x \in Range(Append(s, e))
    OBVIOUS
  <2>1. PICK i \in DOMAIN s : x = s[i]
    BY DEF Range
  <2>2. i \in 1 .. Len(s) /\ i \in DOMAIN Append(s, e)
    BY <1>1, <1>2, <2>1
  <2>3. QED
    BY <1>1, <2>1, <2>2 DEF Range
<1>4. e \in Range(Append(s, e))
  <2>1. Len(s) + 1 \in DOMAIN Append(s, e)
    BY <1>1, <1>2
  <2>2. QED
    BY <1>1, <2>1 DEF Range
<1>5. ASSUME NEW x \in Range(Append(s, e)) PROVE x \in Range(s) \/ x = e
  <2>1. PICK i \in DOMAIN Append(s, e) : x = Append(s, e)[i]
    BY <1>5 DEF Range
  <2>2. i \in 1 .. Len(s) \/ i = Len(s) + 1
    BY <1>1, <1>2, <2>1
  <2>3. QED
    BY <1>1, <1>2, <2>1, <2>2 DEF Range
<1>6. QED
  BY <1>1, <1>3, <1>4, <1>5

\* The oldest write and the others are all.
LEMMA RangeTail ==
  ASSUME NEW S, NEW s \in Seq(S), Len(s) > 0
  PROVE  /\ Tail(s) \in Seq(S) /\ Len(Tail(s)) = Len(s) - 1
         /\ Head(s) \in S
         /\ Range(s) = Range(Tail(s)) \cup {Head(s)}
<1>1. s # <<>> /\ Len(s) \in Nat /\ DOMAIN s = 1 .. Len(s)
  BY LenProperties, EmptySeq
<1>2. /\ Tail(s) \in Seq(S) /\ Len(Tail(s)) = Len(s) - 1
      /\ Head(s) \in S /\ Head(s) = s[1]
      /\ \A i \in 1 .. Len(Tail(s)) : Tail(s)[i] = s[i + 1]
  BY <1>1, HeadTailProperties
<1>3. DOMAIN Tail(s) = 1 .. Len(Tail(s))
  BY <1>2, LenProperties
<1>4. ASSUME NEW x \in Range(s) PROVE x \in Range(Tail(s)) \/ x = Head(s)
  <2>1. PICK i \in DOMAIN s : x = s[i]
    BY <1>4 DEF Range
  <2>2. CASE i = 1
    BY <2>1, <2>2, <1>2
  <2>3. CASE i # 1
    <3>1. i - 1 \in DOMAIN Tail(s) /\ (i - 1) + 1 = i
      BY <1>1, <1>2, <1>3, <2>1, <2>3
    <3>2. Tail(s)[i - 1] = s[i]
      BY <1>2, <1>3, <3>1
    <3>3. QED
      BY <2>1, <3>1, <3>2 DEF Range
  <2>4. QED
    BY <2>2, <2>3
<1>5. ASSUME NEW x \in Range(Tail(s)) PROVE x \in Range(s)
  <2>1. PICK i \in DOMAIN Tail(s) : x = Tail(s)[i]
    BY <1>5 DEF Range
  <2>2. i + 1 \in DOMAIN s /\ x = s[i + 1]
    BY <1>1, <1>2, <1>3, <2>1
  <2>3. QED
    BY <2>2 DEF Range
<1>6. Head(s) \in Range(s)
  <2>1. 1 \in DOMAIN s
    BY <1>1
  <2>2. QED
    BY <1>2, <2>1 DEF Range
<1>7. QED
  BY <1>2, <1>4, <1>5, <1>6

\* What is left after the end of the process was there before.
LEMMA RangePrefix ==
  ASSUME NEW S, NEW s \in Seq(S), NEW n \in 0 .. Len(s)
  PROVE  /\ SubSeq(s, 1, n) \in Seq(S) /\ Len(SubSeq(s, 1, n)) = n
         /\ Range(SubSeq(s, 1, n)) \subseteq Range(s)
<1>1. Len(s) \in Nat /\ DOMAIN s = 1 .. Len(s)
  BY LenProperties
<1>2. /\ SubSeq(s, 1, n) \in Seq(S) /\ Len(SubSeq(s, 1, n)) = n
      /\ \A i \in 1 .. n : SubSeq(s, 1, n)[i] = s[i]
  <2>1. /\ 1 \in 1 .. Len(s) + 1 /\ n \in 1 - 1 .. Len(s) /\ n \in Nat
    BY <1>1
  <2>2. /\ SubSeq(s, 1, n) \in Seq(S)
        /\ Len(SubSeq(s, 1, n)) = IF 1 <= n THEN n - 1 + 1 ELSE 0
        /\ \A i \in 1 .. n - 1 + 1 : SubSeq(s, 1, n)[i] = s[1 + i - 1]
    BY <2>1, SubSeqProperties
  <2>3. QED
    BY <2>1, <2>2
<1>3. DOMAIN SubSeq(s, 1, n) = 1 .. n
  BY <1>2, LenProperties
<1>4. ASSUME NEW x \in Range(SubSeq(s, 1, n)) PROVE x \in Range(s)
  <2>1. PICK i \in DOMAIN SubSeq(s, 1, n) : x = SubSeq(s, 1, n)[i]
    BY <1>4 DEF Range
  <2>2. i \in DOMAIN s /\ x = s[i]
    BY <1>1, <1>2, <1>3, <2>1
  <2>3. QED
    BY <2>2 DEF Range
<1>5. QED
  BY <1>2, <1>4

-----------------------------------------------------------------------------
(* The types of a step.                                                    *)

\* The parts of TypeOK: collection, devices and attempts.
StoreTypes ==
  /\ displayName \in [Id -> Name \cup {NoName}]
  /\ documents \subseteq Id
  /\ known \in [Device -> SUBSET documents]
  /\ outbox \in [Device -> Seq(Id)]
  /\ saved \in [Device -> Nat]
  /\ \A d \in Device : saved[d] \in 0 .. Len(outbox[d])

DeviceTypes ==
  /\ running \in [Device -> BOOLEAN]
  /\ screen \in [Device -> Screen]
  /\ userDetail \in [Device -> Id \cup {NoId}]
  /\ USER \in [Device -> Id \cup {NoId}]
  /\ SIGN_IN \in [Device -> BOOLEAN]

AttemptTypes ==
  /\ phase \in [Attempt -> Phase]
  /\ device \in [Attempt -> Device]
  /\ name \in [Attempt -> Name]
  /\ document \in [Attempt -> Id \cup {NoId}]
  /\ shown \subseteq Attempt

LEMMA Types ==
  TypeOK <=> /\ StoreTypes /\ DeviceTypes /\ AttemptTypes
             /\ raced \subseteq Name /\ lost \subseteq Id
  BY DEF TypeOK, StoreTypes, DeviceTypes, AttemptTypes

\* Stored documents have identifiers.
LEMMA StoredTypes ==
  ASSUME TypeOK
  PROVE  /\ Stored \subseteq Id
         /\ \A d \in Device : Pending(d) \subseteq Stored
         /\ \A n : Accounts(n) = {i \in Stored : displayName[i] = n}
<1>1. \A d \in Device : Pending(d) \subseteq Id
  <2> SUFFICES ASSUME NEW d \in Device PROVE Pending(d) \subseteq Id
    OBVIOUS
  <2>1. outbox[d] \in Seq(Id)
    BY DEF TypeOK
  <2>2. DOMAIN outbox[d] = 1 .. Len(outbox[d])
    BY <2>1, LenProperties
  <2>3. \A k \in 1 .. Len(outbox[d]) : outbox[d][k] \in Id
    BY <2>1, ElementOfSeq
  <2>4. QED
    BY <2>2, <2>3 DEF Pending, Range
<1>2. QED
  BY <1>1 DEF Stored, Accounts, Of, TypeOK

-----------------------------------------------------------------------------
(* The end of an attempt.                                                  *)

\* SignIn gives the device a user, wherever its screen is.
LEMMA SignInKeeps ==
  ASSUME IInv, NEW t \in Attempt, NEW i \in Id, running[device[t]],
         UnderWay(t), SignIn(t, i), UNCHANGED <<running, device>>
  PROVE  /\ USER' \in [Device -> Id \cup {NoId}]
         /\ userDetail' \in [Device -> Id \cup {NoId}]
         /\ SIGN_IN' \in [Device -> BOOLEAN]
         /\ screen' \in [Device -> Screen]
         /\ phase' \in [Attempt -> Phase]
         /\ DefaultsHaveUser' /\ HomeHasUser' /\ ShownUnlessLate'
         /\ \A u \in Attempt : phase'[u] = "uploading" =>
              phase[u] = "uploading" /\ u # t
         /\ USER' = [USER EXCEPT ![device[t]] = i]
<1> DEFINE d == device[t]
<1>1. /\ d \in Device /\ NoId \notin Id
      /\ DeviceTypes /\ AttemptTypes
  BY Types, IdAssumption DEF IInv, AttemptTypes
<1>2. /\ USER' = [USER EXCEPT ![d] = i]
      /\ SIGN_IN' = [SIGN_IN EXCEPT ![d] = TRUE]
      /\ userDetail' = [userDetail EXCEPT ![d] = i]
      /\ phase' = [phase EXCEPT ![t] = IF OnScreen(t) THEN "ended" ELSE "late"]
      /\ screen' = IF OnScreen(t) THEN [screen EXCEPT ![d] = "home"]
                                  ELSE screen
  BY DEF SignIn, End
<1>3. /\ USER' \in [Device -> Id \cup {NoId}]
      /\ userDetail' \in [Device -> Id \cup {NoId}]
      /\ SIGN_IN' \in [Device -> BOOLEAN]
      /\ screen' \in [Device -> Screen]
      /\ phase' \in [Attempt -> Phase]
  BY <1>1, <1>2 DEF DeviceTypes, AttemptTypes, Screen, Phase
<1>4. /\ USER'[d] = i /\ userDetail'[d] = i /\ SIGN_IN'[d]
      /\ \A e \in Device \ {d} :
           /\ USER'[e] = USER[e] /\ userDetail'[e] = userDetail[e]
           /\ SIGN_IN'[e] = SIGN_IN[e] /\ screen'[e] = screen[e]
      /\ \A u \in Attempt \ {t} : phase'[u] = phase[u]
  BY <1>1, <1>2 DEF DeviceTypes, AttemptTypes
<1>5. DefaultsHaveUser'
  BY <1>1, <1>4 DEF IInv, DefaultsHaveUser
<1>6. HomeHasUser'
  BY <1>1, <1>4 DEF IInv, HomeHasUser
<1>7. ShownUnlessLate'
  <2> SUFFICES ASSUME NEW e \in Device, running[e], screen'[e] # "home",
                      SIGN_IN'[e]
               PROVE  \E u \in Attempt : device[u] = e /\ phase'[u] = "late"
    BY DEF ShownUnlessLate
  <2>1. CASE e # d
    <3>1. PICK u \in Attempt : device[u] = e /\ phase[u] = "late"
      BY <1>4, <2>1 DEF IInv, ShownUnlessLate
    <3>2. u # t
      BY <2>1, <3>1
    <3>3. QED
      BY <1>4, <3>1, <3>2
  <2>2. CASE e = d
    <3>1. ~OnScreen(t)
      BY <1>1, <1>2, <2>2 DEF DeviceTypes
    <3>2. phase'[t] = "late"
      BY <1>1, <1>2, <3>1 DEF AttemptTypes
    <3>3. QED
      BY <2>2, <3>2
  <2>3. QED
    BY <2>1, <2>2
<1>8. ASSUME NEW u \in Attempt, phase'[u] = "uploading"
      PROVE  phase[u] = "uploading" /\ u # t
  <2>1. phase'[t] # "uploading"
    BY <1>1, <1>2 DEF AttemptTypes
  <2>2. QED
    BY <1>4, <1>8, <2>1
<1>9. QED
  BY <1>2, <1>3, <1>5, <1>6, <1>7, <1>8

-----------------------------------------------------------------------------
(* Answers.                                                                *)

\* Existing users sign in as one of the answers.
LEMMA ExistKeeps ==
  ASSUME IInv, NEW t \in Attempt, NEW ids, Asked(t), ExistUserSignIn(t, ids),
         ids \subseteq Stored, known' \in [Device -> SUBSET documents],
         raced \subseteq raced', raced' \subseteq Name
  PROVE  IInv'
<1>1. PICK i \in ids : SignIn(t, i)
  BY DEF ExistUserSignIn
<1>2. UNCHANGED <<displayName, documents, outbox, saved, running, device, name,
                  document, shown, lost>>
  BY DEF ExistUserSignIn
<1>3. TypeOK /\ i \in Id /\ UnderWay(t) /\ running[device[t]]
  BY StoredTypes DEF IInv, Asked, UnderWay
<1>4. /\ USER' \in [Device -> Id \cup {NoId}]
      /\ userDetail' \in [Device -> Id \cup {NoId}]
      /\ SIGN_IN' \in [Device -> BOOLEAN]
      /\ screen' \in [Device -> Screen]
      /\ phase' \in [Attempt -> Phase]
      /\ DefaultsHaveUser' /\ HomeHasUser' /\ ShownUnlessLate'
      /\ \A u \in Attempt : phase'[u] = "uploading" =>
           phase[u] = "uploading" /\ u # t
      /\ USER' = [USER EXCEPT ![device[t]] = i]
  BY <1>1, <1>2, <1>3, SignInKeeps
<1>5. TypeOK'
  BY <1>2, <1>3, <1>4 DEF TypeOK
<1>6. Stored' = Stored /\ \A n : Accounts(n)' = Accounts(n)
  BY <1>2 DEF Stored, Accounts, Of, Pending
<1>7. Named'
  BY <1>2, <1>4, <1>6 DEF IInv, Named
<1>8. OneOrMaking'
  BY <1>2, <1>4, <1>6 DEF IInv, OneOrMaking
<1>9. SignedInExists'
  <2> SUFFICES ASSUME NEW d \in Device, USER'[d] # NoId
               PROVE  USER'[d] \in Stored' \cup lost'
    BY DEF SignedInExists
  <2>1. USER'[d] = i \/ USER'[d] = USER[d]
    BY <1>3, <1>4 DEF TypeOK
  <2>2. QED
    BY <1>2, <1>6, <2>1 DEF IInv, SignedInExists
<1>10. QED
  BY <1>4, <1>5, <1>7, <1>8, <1>9 DEF IInv

\* A new document is made under the name of the attempt, unless its name was
\* raced only when there is none and none is being made.
LEMMA NewKeeps ==
  ASSUME IInv, NEW t \in Attempt, NEW ids, Asked(t), NewUserSignIn(t, ids),
         known' \in [Device -> SUBSET documents],
         raced \subseteq raced', raced' \subseteq Name,
         name[t] \notin raced' =>
           /\ Accounts(name[t]) = {}
           /\ \A u \in Attempt : ~(phase[u] = "uploading" /\ name[u] = name[t])
  PROVE  IInv'
<1>1. PICK i \in Id :
        /\ displayName[i] = NoName
        /\ displayName' = [displayName EXCEPT ![i] = name[t]]
        /\ document' = [document EXCEPT ![t] = i]
  BY DEF NewUserSignIn
<1>2. /\ phase' = [phase EXCEPT ![t] = "uploading"]
      /\ UNCHANGED <<documents, outbox, saved, running, screen, userDetail,
                     defaults, device, name, shown, lost>>
  BY DEF NewUserSignIn
<1>3. /\ TypeOK /\ phase[t] = "asking" /\ name[t] \in Name
      /\ name[t] # NoName
  BY NameAssumption DEF IInv, Asked, TypeOK
<1>4. UNCHANGED <<USER, SIGN_IN>>
  BY <1>2 DEF defaults
<1>5. TypeOK'
  BY <1>1, <1>2, <1>3, <1>4 DEF TypeOK, Phase
<1>6. Stored' = Stored /\ i \notin Stored
  BY <1>1, <1>2 DEF Stored, Pending, IInv, Named
<1>7. /\ displayName'[i] = name[t]
      /\ \A j \in Id \ {i} : displayName'[j] = displayName[j]
      /\ document'[t] = i
      /\ \A u \in Attempt \ {t} : document'[u] = document[u]
      /\ \A u \in Attempt \ {t} : phase'[u] = phase[u]
      /\ phase'[t] = "uploading"
  BY <1>1, <1>2, <1>3 DEF TypeOK
<1>8. \A n : Accounts(n)' = Accounts(n)
  <2>1. /\ \A n : Accounts(n)' = {j \in Stored' : displayName'[j] = n}
        /\ \A n : Accounts(n) = {j \in Stored : displayName[j] = n}
        /\ Stored \subseteq Id
    BY <1>3, StoredTypes DEF Accounts, Of, Stored
  <2>2. QED
    BY ZenonT(40), <2>1, <1>6, <1>7
<1>9. Named'
  <2>1. \A j \in Stored' : displayName'[j] # NoName
    BY <1>3, <1>6, <1>7, StoredTypes DEF IInv, Named
  <2>2. ASSUME NEW u \in Attempt, phase'[u] = "uploading"
        PROVE  document'[u] \in Id /\ displayName'[document'[u]] = name'[u]
    <3>1. CASE u = t
      BY <1>2, <1>7, <3>1
    <3>2. CASE u # t
      <4>1. document[u] \in Id /\ displayName[document[u]] = name[u]
        BY <1>7, <2>2, <3>2 DEF IInv, Named
      <4>2. name[u] # NoName
        BY <1>3, NameAssumption DEF TypeOK
      <4>3. document[u] # i
        BY <1>1, <4>1, <4>2
      <4>4. QED
        BY <1>2, <1>7, <3>2, <4>1, <4>3
    <3>3. QED
      BY <3>1, <3>2
  <2>3. QED
    BY <2>1, <2>2 DEF Named
<1>10. OneOrMaking'
  <2> SUFFICES ASSUME NEW n \in Name \ raced'
               PROVE  /\ \A j, k \in Accounts(n)' : j = k
                      /\ \A u, v \in Attempt :
                           /\ phase'[u] = "uploading" /\ name[u] = n
                           /\ phase'[v] = "uploading" /\ name[v] = n
                           => u = v
                      /\ \A u \in Attempt :
                           phase'[u] = "uploading" /\ name[u] = n =>
                             Accounts(n)' = {}
    BY <1>2 DEF OneOrMaking
  <2>1. CASE n = name[t]
    <3>1. /\ Accounts(n)' = {}
          /\ \A u \in Attempt : ~(phase[u] = "uploading" /\ name[u] = n)
      BY <1>8, <2>1
    <3>2. QED
      BY <1>7, <3>1
  <2>2. CASE n # name[t]
    <3>1. n \in Name \ raced
      OBVIOUS
    <3>2. QED
      BY <1>7, <1>8, <2>2, <3>1 DEF IInv, OneOrMaking
  <2>3. QED
    BY <2>1, <2>2
<1>11. DefaultsHaveUser' /\ HomeHasUser'
  BY <1>2, <1>4 DEF IInv, DefaultsHaveUser, HomeHasUser
<1>12. ShownUnlessLate'
  BY <1>2, <1>3, <1>4, <1>7 DEF IInv, ShownUnlessLate
<1>13. SignedInExists'
  BY <1>2, <1>4, <1>6 DEF IInv, SignedInExists
<1>14. QED
  BY <1>5, <1>9, <1>10, <1>11, <1>12, <1>13 DEF IInv

\* The backend's answer.
LEMMA AnsweredKeeps ==
  ASSUME IInv, NEW t \in Attempt, Answered(t)
  PROVE  IInv'
<1> DEFINE d == device[t]
<1> DEFINE n == name[t]
<1>1. /\ TypeOK /\ d \in Device /\ n \in Name /\ Stored \subseteq Id
      /\ Pending(d) \subseteq Stored
      /\ Accounts(n) = {i \in Stored : displayName[i] = n}
  BY StoredTypes DEF IInv, TypeOK
<1>2. PICK ids \in Answers(d, n) :
        /\ ExistUserSignIn(t, ids) \/ NewUserSignIn(t, ids)
        /\ known' = [known EXCEPT ![d] = @ \cup (ids \cap documents)]
  BY DEF Answered
<1>3. ids = {i \in documents \cup Pending(d) : displayName[i] = n}
  BY <1>2 DEF Answers, Of
<1>4. ids \subseteq Stored /\ documents \subseteq Stored
  BY <1>1, <1>3 DEF Stored
<1>5. known' \in [Device -> SUBSET documents]
  BY <1>1, <1>2 DEF TypeOK
<1>6. raced \subseteq raced' /\ raced' \subseteq Name
  BY <1>1 DEF Answered, TypeOK
<1>7. Asked(t)
  BY DEF Answered
<1>8. CASE ExistUserSignIn(t, ids)
  BY <1>4, <1>5, <1>6, <1>7, <1>8, ExistKeeps
<1>9. CASE NewUserSignIn(t, ids)
  <2>1. ASSUME n \notin raced'
        PROVE  /\ Accounts(n) = {}
               /\ \A u \in Attempt : ~(phase[u] = "uploading" /\ name[u] = n)
    <3>1. /\ \A u \in Attempt : ~(phase[u] = "uploading" /\ name[u] = n)
          /\ Of(n, UNION {Pending(e) : e \in Device \ {d}}) = {}
      BY <2>1 DEF Answered
    <3>2. ids = {}
      BY <1>9 DEF NewUserSignIn
    <3>3. ASSUME NEW i \in Stored, displayName[i] = n PROVE FALSE
      <4>1. i \notin documents /\ i \notin Pending(d)
        BY <1>3, <3>2, <3>3
      <4>2. PICK e \in Device : i \in Pending(e)
        BY <4>1 DEF Stored
      <4>3. e \in Device \ {d}
        BY <4>1, <4>2
      <4>4. i \in Of(n, UNION {Pending(f) : f \in Device \ {d}})
        BY <3>3, <4>2, <4>3 DEF Of
      <4>5. QED
        BY <3>1, <4>4
    <3>4. QED
      BY <1>1, <3>1, <3>3
  <2>2. QED
    BY <1>5, <1>6, <1>7, <1>9, <2>1, NewKeeps
<1>10. QED
  BY <1>2, <1>8, <1>9

\* The cache's answer.
LEMMA AnsweredFromCacheKeeps ==
  ASSUME IInv, NEW t \in Attempt, AnsweredFromCache(t)
  PROVE  IInv'
<1> DEFINE d == device[t]
<1> DEFINE n == name[t]
<1>1. /\ TypeOK /\ d \in Device /\ n \in Name /\ Stored \subseteq Id
      /\ Pending(d) \subseteq Stored
      /\ Accounts(n) = {i \in Stored : displayName[i] = n}
  BY StoredTypes DEF IInv, TypeOK
<1>2. PICK ids \in CacheAnswers(d, n) :
        /\ ExistUserSignIn(t, ids) \/ NewUserSignIn(t, ids)
        /\ raced' =
             IF \/ Accounts(n) \ (ids \cup known[d] \cup Pending(d)) # {}
                \/ \E u \in Attempt : phase[u] = "uploading" /\ name[u] = n
             THEN raced \cup {n} ELSE raced
  BY DEF AnsweredFromCache
<1>3. PICK S \in SUBSET documents :
        /\ known[d] \subseteq S
        /\ ids = {i \in Pending(d) \cup S : displayName[i] = n}
  BY <1>2 DEF CacheAnswers, Of
<1>4. ids \subseteq Stored /\ documents \subseteq Stored
  BY <1>1, <1>3 DEF Stored
<1>5. known' = known /\ Asked(t)
  BY DEF AnsweredFromCache
<1>6. known' \in [Device -> SUBSET documents]
  BY <1>1, <1>5 DEF TypeOK
<1>7. raced \subseteq raced' /\ raced' \subseteq Name
  BY <1>1, <1>2 DEF TypeOK
<1>8. CASE ExistUserSignIn(t, ids)
  BY <1>4, <1>5, <1>6, <1>7, <1>8, ExistKeeps
<1>9. CASE NewUserSignIn(t, ids)
  <2>1. ASSUME n \notin raced'
        PROVE  /\ Accounts(n) = {}
               /\ \A u \in Attempt : ~(phase[u] = "uploading" /\ name[u] = n)
    <3>1. /\ \A u \in Attempt : ~(phase[u] = "uploading" /\ name[u] = n)
          /\ Accounts(n) \ (ids \cup known[d] \cup Pending(d)) = {}
      BY <1>2, <2>1
    <3>2. ids = {}
      BY <1>9 DEF NewUserSignIn
    <3>3. ASSUME NEW i \in Accounts(n) PROVE FALSE
      <4>1. displayName[i] = n /\ i \in known[d] \cup Pending(d)
        BY <1>1, <3>1, <3>2
      <4>2. i \in ids
        BY <1>3, <4>1
      <4>3. QED
        BY <3>2, <4>2
    <3>4. QED
      BY <3>1, <3>3
  <2>2. QED
    BY <1>5, <1>6, <1>7, <1>9, <2>1, NewKeeps
<1>10. QED
  BY <1>2, <1>8, <1>9

-----------------------------------------------------------------------------
(* The upload.                                                             *)

\* The document that was being made is issued.
LEMMA UploadedKeeps ==
  ASSUME IInv, NEW t \in Attempt, Uploaded(t)
  PROVE  IInv'
<1> DEFINE d == device[t]
<1> DEFINE i == document[t]
<1>1. /\ TypeOK /\ d \in Device /\ i \in Id /\ UnderWay(t) /\ running[d]
      /\ phase[t] = "uploading" /\ displayName[i] = name[t]
      /\ name[t] \in Name /\ name[t] # NoName
  BY NameAssumption DEF IInv, Named, Uploaded, UnderWay, TypeOK
<1>2. /\ SignIn(t, i)
      /\ outbox' = [outbox EXCEPT ![d] = Append(@, i)]
      /\ UNCHANGED <<displayName, documents, known, saved, running, device,
                     name, document, shown, raced, lost>>
  BY DEF Uploaded, history
<1>3. /\ USER' \in [Device -> Id \cup {NoId}]
      /\ userDetail' \in [Device -> Id \cup {NoId}]
      /\ SIGN_IN' \in [Device -> BOOLEAN]
      /\ screen' \in [Device -> Screen]
      /\ phase' \in [Attempt -> Phase]
      /\ DefaultsHaveUser' /\ HomeHasUser' /\ ShownUnlessLate'
      /\ \A u \in Attempt : phase'[u] = "uploading" =>
           phase[u] = "uploading" /\ u # t
      /\ USER' = [USER EXCEPT ![d] = i]
  BY <1>1, <1>2, SignInKeeps
<1>4. /\ outbox[d] \in Seq(Id) /\ Append(outbox[d], i) \in Seq(Id)
      /\ Len(outbox[d]) \in Nat /\ saved[d] \in 0 .. Len(outbox[d])
      /\ Len(Append(outbox[d], i)) = Len(outbox[d]) + 1
      /\ Range(Append(outbox[d], i)) = Range(outbox[d]) \cup {i}
  BY <1>1, RangeAppend, LenProperties DEF TypeOK
<1>5. /\ outbox' \in [Device -> Seq(Id)]
      /\ outbox'[d] = Append(outbox[d], i)
      /\ \A e \in Device \ {d} : outbox'[e] = outbox[e]
  BY <1>1, <1>2, <1>4 DEF TypeOK
<1>6. TypeOK'
  <2>1. \A e \in Device : saved'[e] \in 0 .. Len(outbox'[e])
    <3>1. saved[d] \in 0 .. Len(outbox[d]) + 1
      BY <1>4
    <3>2. QED
      BY <1>1, <1>2, <1>4, <1>5, <3>1 DEF TypeOK
  <2>2. QED
    BY <1>1, <1>2, <1>3, <1>5, <2>1 DEF TypeOK
<1>7. Stored' = Stored \cup {i}
  <2>1. Pending(d)' = Pending(d) \cup {i}
    BY <1>2, <1>4, <1>5 DEF Pending
  <2>2. \A e \in Device \ {d} : Pending(e)' = Pending(e)
    BY <1>5 DEF Pending
  <2>3. QED
    BY <1>1, <1>2, <2>1, <2>2 DEF Stored
<1>8. \A n : Accounts(n)' = IF n = name[t] THEN Accounts(n) \cup {i}
                                           ELSE Accounts(n)
  BY <1>1, <1>2, <1>7 DEF Accounts, Of
<1>9. Named'
  BY <1>1, <1>2, <1>3, <1>7 DEF IInv, Named
<1>10. OneOrMaking'
  <2> SUFFICES ASSUME NEW n \in Name \ raced
               PROVE  /\ \A j, k \in Accounts(n)' : j = k
                      /\ \A u, v \in Attempt :
                           /\ phase'[u] = "uploading" /\ name[u] = n
                           /\ phase'[v] = "uploading" /\ name[v] = n
                           => u = v
                      /\ \A u \in Attempt :
                           phase'[u] = "uploading" /\ name[u] = n =>
                             Accounts(n)' = {}
    BY <1>2 DEF OneOrMaking
  <2>1. CASE n = name[t]
    <3>1. Accounts(n) = {} /\ Accounts(n)' = {i}
      BY <1>1, <1>8, <2>1 DEF IInv, OneOrMaking
    <3>2. \A u \in Attempt : ~(phase'[u] = "uploading" /\ name[u] = n)
      BY <1>1, <1>3, <2>1 DEF IInv, OneOrMaking
    <3>3. QED
      BY <3>1, <3>2
  <2>2. CASE n # name[t]
    BY <1>3, <1>8, <2>2 DEF IInv, OneOrMaking
  <2>3. QED
    BY <2>1, <2>2
<1>11. SignedInExists'
  <2> SUFFICES ASSUME NEW e \in Device, USER'[e] # NoId
               PROVE  USER'[e] \in Stored' \cup lost'
    BY DEF SignedInExists
  <2>1. USER'[e] = i \/ USER'[e] = USER[e]
    BY <1>1, <1>3 DEF TypeOK
  <2>2. QED
    BY <1>2, <1>7, <2>1 DEF IInv, SignedInExists
<1>12. QED
  BY <1>3, <1>6, <1>9, <1>10, <1>11 DEF IInv

-----------------------------------------------------------------------------
(* The steps of a device.                                                  *)

\* What holds of the documents holds after a step that leaves them, and only
\* ends attempts.
LEMMA DocumentsKept ==
  ASSUME IInv,
         UNCHANGED <<displayName, documents, name, document, raced>>,
         Stored' \subseteq Stored,
         \A u \in Attempt : phase'[u] = "uploading" => phase[u] = "uploading"
  PROVE  Named' /\ OneOrMaking'
<1>1. \A n : Accounts(n)' \subseteq Accounts(n)
  BY DEF Accounts, Of
<1>2. QED
  BY <1>1 DEF IInv, Named, OneOrMaking

LEMMA TapKeeps ==
  ASSUME IInv, NEW t \in Attempt, LoginButtonTapped(t)
  PROVE  IInv'
<1>1. /\ phase' = [phase EXCEPT ![t] = "asking"] /\ phase[t] = "untapped"
      /\ shown' = shown \cup {t}
      /\ UNCHANGED <<displayName, documents, known, outbox, saved, running,
                     screen, userDetail, USER, SIGN_IN, device, name,
                     document, raced, lost>>
  BY DEF LoginButtonTapped, store, defaults, history
<1>2. TypeOK
  BY DEF IInv
<1>3. TypeOK'
  BY <1>1, <1>2 DEF TypeOK, Phase
<1>4. /\ Stored' = Stored
      /\ \A u \in Attempt : u # t => phase'[u] = phase[u]
      /\ phase'[t] = "asking"
  BY <1>1, <1>2 DEF Stored, Pending, TypeOK
<1>5. Named' /\ OneOrMaking'
  BY <1>1, <1>4, DocumentsKept
<1>6. DefaultsHaveUser' /\ HomeHasUser' /\ ShownUnlessLate'
  BY <1>1, <1>4
     DEF IInv, DefaultsHaveUser, HomeHasUser, ShownUnlessLate
<1>7. SignedInExists'
  BY <1>1, <1>4 DEF IInv, SignedInExists
<1>8. QED
  BY <1>3, <1>5, <1>6, <1>7 DEF IInv

LEMMA UploadFailsKeeps ==
  ASSUME IInv, NEW t \in Attempt, UploadFails(t)
  PROVE  IInv'
<1>1. /\ phase' = [phase EXCEPT ![t] = "ended"] /\ phase[t] = "uploading"
      /\ UNCHANGED <<displayName, documents, known, outbox, saved, running,
                     screen, userDetail, USER, SIGN_IN, device, name,
                     document, shown, raced, lost>>
  BY DEF UploadFails, store, defaults, history
<1>2. TypeOK
  BY DEF IInv
<1>3. TypeOK'
  BY <1>1, <1>2 DEF TypeOK, Phase
<1>4. /\ Stored' = Stored
      /\ \A u \in Attempt : u # t => phase'[u] = phase[u]
      /\ phase'[t] = "ended"
  BY <1>1, <1>2 DEF Stored, Pending, TypeOK
<1>5. Named' /\ OneOrMaking'
  BY <1>1, <1>4, DocumentsKept
<1>6. DefaultsHaveUser' /\ HomeHasUser' /\ ShownUnlessLate'
  BY <1>1, <1>4
     DEF IInv, DefaultsHaveUser, HomeHasUser, ShownUnlessLate
<1>7. SignedInExists'
  BY <1>1, <1>4 DEF IInv, SignedInExists
<1>8. QED
  BY <1>3, <1>5, <1>6, <1>7 DEF IInv

\* Logging out, its second block, and a launch.
LEMMA ScreensKeep ==
  ASSUME IInv, NEW d \in Device, Unlinked(d) \/ ShowSignIn(d) \/ Launch(d)
  PROVE  IInv'
<1>1. /\ UNCHANGED <<displayName, documents, known, outbox, saved, USER,
                     phase, device, name, document, raced, lost>>
      /\ shown' \subseteq shown
  BY DEF Unlinked, ShowSignIn, Launch, store, defaults, attempts, history
<1>2. TypeOK
  BY DEF IInv
<1>3. /\ SIGN_IN' \in [Device -> BOOLEAN] /\ screen' \in [Device -> Screen]
      /\ running' \in [Device -> BOOLEAN]
      /\ userDetail' \in [Device -> Id \cup {NoId}]
  BY ZenonT(40), <1>2 DEF Unlinked, ShowSignIn, Launch, TypeOK, Screen, defaults
<1>4. TypeOK'
  BY <1>1, <1>2, <1>3 DEF TypeOK
<1>5. Stored' = Stored
  BY <1>1 DEF Stored, Pending
<1>6. Named' /\ OneOrMaking'
  BY <1>1, <1>5, DocumentsKept
<1>7. SignedInExists'
  BY <1>1, <1>5 DEF IInv, SignedInExists
<1>8. DefaultsHaveUser' /\ HomeHasUser' /\ ShownUnlessLate'
  <2>1. \A e \in Device \ {d} :
          /\ SIGN_IN'[e] = SIGN_IN[e] /\ screen'[e] = screen[e]
          /\ running'[e] = running[e] /\ userDetail'[e] = userDetail[e]
    BY <1>2 DEF Unlinked, ShowSignIn, Launch, TypeOK, defaults
  <2>2. CASE Unlinked(d)
    <3>1. SIGN_IN'[d] = FALSE /\ screen'[d] = "unlinked"
      BY <1>2, <2>2 DEF Unlinked, TypeOK
    <3>2. QED
      BY <1>1, <2>1, <3>1
         DEF IInv, DefaultsHaveUser, HomeHasUser, ShownUnlessLate
  <2>3. CASE ShowSignIn(d)
    <3>1. /\ SIGN_IN'[d] = SIGN_IN[d] /\ running'[d] = running[d]
          /\ screen[d] = "unlinked" /\ screen'[d] = "signIn"
      BY <1>2, <2>3 DEF ShowSignIn, TypeOK, defaults
    <3>2. QED
      BY <1>1, <2>1, <3>1
         DEF IInv, DefaultsHaveUser, HomeHasUser, ShownUnlessLate
  <2>4. CASE Launch(d)
    <3>1. /\ SIGN_IN'[d] = SIGN_IN[d]
          /\ SIGN_IN[d] => userDetail'[d] = USER[d] /\ screen'[d] = "home"
          /\ ~SIGN_IN[d] => screen'[d] = "signIn"
      BY <1>2, <2>4 DEF Launch, TypeOK, defaults
    <3>2. QED
      BY <1>1, <2>1, <3>1
         DEF IInv, DefaultsHaveUser, HomeHasUser, ShownUnlessLate
  <2>5. QED
    BY <2>2, <2>3, <2>4
<1>9. QED
  BY <1>4, <1>6, <1>7, <1>8 DEF IInv

\* A write reaches the disk, or the backend.
LEMMA ClientKeeps ==
  ASSUME IInv, NEW d \in Device, Persist(d) \/ Commit(d)
  PROVE  IInv'
<1>1. UNCHANGED <<displayName, running, screen, userDetail, USER, SIGN_IN,
                  phase, device, name, document, shown, raced, lost>>
  BY DEF Persist, Commit, defaults, attempts, history
<1>2. /\ TypeOK /\ outbox[d] \in Seq(Id) /\ Len(outbox[d]) \in Nat
      /\ saved[d] \in 0 .. Len(outbox[d])
      /\ saved \in [Device -> Nat]
      /\ \A e \in Device : saved[e] \in 0 .. Len(outbox[e])
  BY LenProperties DEF IInv, TypeOK
<1>3. /\ Stored' = Stored
      /\ documents \subseteq documents' /\ documents' \subseteq Id
      /\ known' \in [Device -> SUBSET documents']
      /\ outbox' \in [Device -> Seq(Id)]
      /\ saved' \in [Device -> Nat]
      /\ \A e \in Device : saved'[e] \in 0 .. Len(outbox'[e])
  <2>1. CASE Persist(d)
    <3>1. /\ saved' = [saved EXCEPT ![d] = @ + 1]
          /\ saved[d] + 1 \in 0 .. Len(outbox[d])
          /\ UNCHANGED <<documents, known, outbox>>
      BY <1>2, <2>1 DEF Persist
    <3>2. /\ saved' \in [Device -> Nat]
          /\ \A e \in Device : saved'[e] \in 0 .. Len(outbox'[e])
      BY <1>2, <3>1
    <3>3. Stored' = Stored
      BY <3>1 DEF Stored, Pending
    <3>4. QED
      BY <1>2, <3>1, <3>2, <3>3 DEF TypeOK
  <2>2. CASE Commit(d)
    <3>1. /\ documents' = documents \cup {Head(outbox[d])}
          /\ known' = [known EXCEPT ![d] = @ \cup {Head(outbox[d])}]
          /\ outbox' = [outbox EXCEPT ![d] = Tail(@)]
          /\ saved' = [saved EXCEPT ![d] = @ - 1]
          /\ saved[d] > 0
      BY <2>2 DEF Commit
    <3>2. Len(outbox[d]) > 0
      BY <1>2, <3>1
    <3>3. /\ Tail(outbox[d]) \in Seq(Id)
          /\ Len(Tail(outbox[d])) = Len(outbox[d]) - 1
          /\ Head(outbox[d]) \in Id
          /\ Range(outbox[d]) = Range(Tail(outbox[d])) \cup {Head(outbox[d])}
      BY <1>2, <3>2, RangeTail
    <3>4. saved[d] - 1 \in 0 .. Len(Tail(outbox[d]))
      BY <1>2, <3>1, <3>3
    <3>5. /\ outbox' \in [Device -> Seq(Id)]
          /\ outbox'[d] = Tail(outbox[d])
          /\ \A e \in Device \ {d} : outbox'[e] = outbox[e]
      BY <1>2, <3>1, <3>3 DEF TypeOK
    <3>6. /\ saved' \in [Device -> Nat]
          /\ \A e \in Device : saved'[e] \in 0 .. Len(outbox'[e])
      BY <1>2, <3>1, <3>4, <3>5
    <3>7. Stored' = Stored
      <4>1. Pending(d) = Pending(d)' \cup {Head(outbox[d])}
        BY <3>3, <3>5 DEF Pending
      <4>2. \A e \in Device \ {d} : Pending(e)' = Pending(e)
        BY <3>5 DEF Pending
      <4>3. QED
        BY <3>1, <4>1, <4>2 DEF Stored
    <3>8. known' \in [Device -> SUBSET documents']
      BY <1>2, <3>1 DEF TypeOK
    <3>9. QED
      BY <1>2, <3>1, <3>3, <3>5, <3>6, <3>7, <3>8 DEF TypeOK
  <2>3. QED
    BY <2>1, <2>2
<1>4. StoreTypes'
  <2>1. displayName' \in [Id -> Name \cup {NoName}]
    BY <1>1, <1>2 DEF TypeOK
  <2>2. QED
    BY <1>3, <2>1 DEF StoreTypes
<1>5. TypeOK'
  <2>1. DeviceTypes' /\ AttemptTypes'
    BY <1>1, <1>2 DEF TypeOK, DeviceTypes, AttemptTypes
  <2>2. raced' \subseteq Name /\ lost' \subseteq Id
    BY <1>1, <1>2 DEF TypeOK
  <2>3. QED
    BY <1>4, <2>1, <2>2 DEF TypeOK, StoreTypes, DeviceTypes, AttemptTypes
<1>6. \A n : Accounts(n)' = Accounts(n)
  BY <1>1, <1>3 DEF Accounts, Of
<1>7. Named' /\ OneOrMaking'
  BY <1>1, <1>3, <1>6 DEF IInv, Named, OneOrMaking
<1>8. DefaultsHaveUser' /\ HomeHasUser' /\ ShownUnlessLate'
  BY <1>1 DEF IInv, DefaultsHaveUser, HomeHasUser, ShownUnlessLate
<1>9. SignedInExists'
  BY <1>1, <1>3 DEF IInv, SignedInExists
<1>10. QED
  BY <1>5, <1>7, <1>8, <1>9 DEF IInv

\* The end of the process loses the writes that were not saved.
LEMMA EndProcessKeeps ==
  ASSUME IInv, NEW d \in Device, EndProcess(d)
  PROVE  IInv'
<1>1. /\ running' = [running EXCEPT ![d] = FALSE]
      /\ outbox' = [outbox EXCEPT ![d] = SubSeq(@, 1, saved[d])]
      /\ lost' = lost \cup (Pending(d) \ Range(outbox'[d]))
      /\ userDetail' = [userDetail EXCEPT ![d] = NoId]
      /\ screen' = [screen EXCEPT ![d] = "signIn"]
      /\ phase' = [t \in Attempt |-> IF device[t] = d /\ UnderWay(t)
                                     THEN "ended" ELSE phase[t]]
      /\ shown' \subseteq shown
      /\ UNCHANGED <<displayName, documents, known, saved, USER, SIGN_IN,
                     device, name, document, raced>>
  BY DEF EndProcess, defaults
<1>2. TypeOK /\ Stored \subseteq Id /\ Pending(d) \subseteq Stored
  BY StoredTypes DEF IInv
<1>3. /\ outbox[d] \in Seq(Id) /\ saved[d] \in 0 .. Len(outbox[d])
      /\ SubSeq(outbox[d], 1, saved[d]) \in Seq(Id)
      /\ Len(SubSeq(outbox[d], 1, saved[d])) = saved[d]
      /\ Range(SubSeq(outbox[d], 1, saved[d])) \subseteq Range(outbox[d])
  BY <1>2, RangePrefix DEF TypeOK
<1>4. /\ outbox' \in [Device -> Seq(Id)]
      /\ outbox'[d] = SubSeq(outbox[d], 1, saved[d])
      /\ \A e \in Device \ {d} : outbox'[e] = outbox[e]
  BY <1>1, <1>2, <1>3 DEF TypeOK
<1>5. \A t \in Attempt : phase'[t] # phase[t] => phase'[t] = "ended"
                                              /\ UnderWay(t)
  BY <1>1
<1>6. TypeOK'
  <2>1. \A e \in Device : saved'[e] \in 0 .. Len(outbox'[e])
    <3>1. saved[d] \in 0 .. saved[d]
      BY <1>2 DEF TypeOK
    <3>2. QED
      BY <1>1, <1>2, <1>3, <1>4, <3>1 DEF TypeOK
  <2>2. phase' \in [Attempt -> Phase]
    BY <1>1, <1>2 DEF TypeOK, Phase
  <2>3. /\ running' \in [Device -> BOOLEAN] /\ screen' \in [Device -> Screen]
        /\ userDetail' \in [Device -> Id \cup {NoId}]
        /\ lost' \subseteq Id
    BY <1>1, <1>2 DEF TypeOK, Screen
  <2>4. QED
    BY <1>1, <1>2, <1>4, <2>1, <2>2, <2>3 DEF TypeOK
<1>7. /\ Stored' \subseteq Stored
      /\ Stored \subseteq Stored' \cup lost'
  <2>1. /\ Pending(d)' \subseteq Pending(d)
        /\ Pending(d) \subseteq Pending(d)' \cup lost'
    BY <1>1, <1>3, <1>4 DEF Pending
  <2>2. \A e \in Device \ {d} : Pending(e)' = Pending(e)
    BY <1>4 DEF Pending
  <2>3. QED
    BY <1>1, <2>1, <2>2 DEF Stored
<1>8. Named' /\ OneOrMaking'
  BY <1>1, <1>5, <1>7, DocumentsKept
<1>9. DefaultsHaveUser' /\ HomeHasUser' /\ ShownUnlessLate'
  <2>1. /\ running'[d] = FALSE
        /\ \A e \in Device \ {d} :
             /\ running'[e] = running[e] /\ screen'[e] = screen[e]
             /\ userDetail'[e] = userDetail[e]
        /\ \A t \in Attempt : phase[t] = "late" => phase'[t] = "late"
    BY <1>1, <1>2 DEF TypeOK, UnderWay
  <2>2. QED
    BY <1>1, <2>1 DEF IInv, DefaultsHaveUser, HomeHasUser, ShownUnlessLate
<1>10. SignedInExists'
  BY <1>1, <1>7 DEF IInv, SignedInExists
<1>11. QED
  BY <1>6, <1>8, <1>9, <1>10 DEF IInv

-----------------------------------------------------------------------------
(* The theorems.                                                           *)

LEMMA InvInit == Init => IInv
<1> SUFFICES ASSUME Init PROVE IInv
  OBVIOUS
<1>1. /\ \A d \in Device : Pending(d) = {}
      /\ <<>> \in Seq(Id) /\ Len(<<>>) = 0
  BY DEF Init, Pending, Range
<1>2. Stored = {} /\ \A n : Accounts(n) = {}
  BY <1>1 DEF Init, Stored, Accounts, Of
<1>3. TypeOK
  BY <1>1 DEF Init, TypeOK, Phase, Screen
<1>4. Named /\ OneOrMaking
  BY <1>2 DEF Init, Named, OneOrMaking
<1>5. DefaultsHaveUser /\ HomeHasUser /\ ShownUnlessLate /\ SignedInExists
  BY DEF Init, DefaultsHaveUser, HomeHasUser, ShownUnlessLate, SignedInExists
<1>6. QED
  BY <1>3, <1>4, <1>5 DEF IInv

LEMMA InvNext == IInv /\ [Next]_vars => IInv'
<1> SUFFICES ASSUME IInv, [Next]_vars PROVE IInv'
  OBVIOUS
<1>1. ASSUME NEW t \in Attempt, AttemptStep(t) PROVE IInv'
  <2>1. ASSUME AnswerFails(t) PROVE IInv'
    <3>1. device[t] \in Device
      BY DEF IInv, TypeOK
    <3>2. QED
      BY <2>1, <3>1, EndProcessKeeps DEF AnswerFails
  <2>2. QED
    BY <1>1, <2>1, TapKeeps, AnsweredKeeps, AnsweredFromCacheKeeps,
       UploadedKeeps, UploadFailsKeeps DEF AttemptStep
<1>2. ASSUME NEW d \in Device, DeviceStep(d) PROVE IInv'
  BY <1>2, ScreensKeep, EndProcessKeeps, ClientKeeps DEF DeviceStep
<1>3. CASE UNCHANGED vars
  <2>1. UNCHANGED <<displayName, documents, known, outbox, saved, running,
                    screen, userDetail, USER, SIGN_IN, phase, device, name,
                    document, shown, raced, lost>>
    BY <1>3 DEF vars, store, defaults, attempts, history
  <2>2. TypeOK'
    BY <2>1 DEF IInv, TypeOK
  <2>3. Stored' = Stored
    BY <2>1 DEF Stored, Pending
  <2>4. Named' /\ OneOrMaking'
    BY <2>1, <2>3, DocumentsKept
  <2>5. DefaultsHaveUser' /\ HomeHasUser' /\ ShownUnlessLate'
        /\ SignedInExists'
    BY <2>1, <2>3 DEF IInv, DefaultsHaveUser, HomeHasUser, ShownUnlessLate,
                      SignedInExists
  <2>6. QED
    BY <2>2, <2>4, <2>5 DEF IInv
<1>4. QED
  BY <1>1, <1>2, <1>3 DEF Next

LEMMA InvAlways == Spec => []IInv
  BY InvInit, InvNext, PTL DEF Spec

\* The variables of the devices and of Users keep their types.
THEOREM TypeCorrect == Spec => []TypeOK
<1>1. IInv => TypeOK
  BY DEF IInv
<1>2. QED
  BY <1>1, InvAlways, PTL

\* Whoever sees the app's screens is signed in, with the user in memory that
\* the defaults hold.
THEOREM HomeCorrect == Spec => []HomeHasUser
<1>1. IInv => HomeHasUser
  BY DEF IInv
<1>2. QED
  BY <1>1, InvAlways, PTL

\* The user in the defaults has a document, unless a process has lost it.
THEOREM ExistsCorrect == Spec => []SignedInExists
<1>1. IInv => SignedInExists
  BY DEF IInv
<1>2. QED
  BY <1>1, InvAlways, PTL

\* A device only turns signed in behind the sign-in screen by an attempt that
\* has outlived its screen.
THEOREM LogoutCorrect == Spec => []LogoutHolds
<1>1. IInv => LogoutHolds
  BY DEF IInv, ShownUnlessLate, LogoutHolds
<1>2. QED
  BY <1>1, InvAlways, PTL

\* One document per person, but for the races of the query.
THEOREM AccountsCorrect == Spec => []OneAccount
<1>1. ASSUME IInv PROVE OneAccount
  <2> SUFFICES ASSUME NEW n \in Name \ raced
               PROVE  Cardinality(Accounts(n)) <= 1
    BY DEF OneAccount
  <2>1. \A i, j \in Accounts(n) : i = j
    BY <1>1 DEF IInv, OneOrMaking
  <2>2. CASE Accounts(n) = {}
    BY <2>2, FS_EmptySet
  <2>3. CASE Accounts(n) # {}
    <3>1. PICK i : i \in Accounts(n)
      BY <2>3
    <3>2. Accounts(n) = {i}
      BY <2>1, <3>1
    <3>3. QED
      BY <3>2, FS_Singleton
  <2>4. QED
    BY <2>2, <2>3
<1>2. QED
  BY <1>1, InvAlways, PTL

-----------------------------------------------------------------------------
(* The identity of a person.                                               *)

\* A sign-in as one of the person's documents.
LEMMA SignInIdentity ==
  ASSUME IInv, NEW t \in Attempt, NEW i \in Accounts(name[t]), SignIn(t, i),
         UNCHANGED <<displayName, lost>>, raced \subseteq raced'
  PROVE  KeepsIdentity
<1>1. /\ TypeOK /\ device[t] \in Device /\ name[t] \in Name
      /\ Accounts(name[t]) = {j \in Stored : displayName[j] = name[t]}
      /\ USER' = [USER EXCEPT ![device[t]] = i]
  BY StoredTypes DEF IInv, TypeOK, SignIn
<1> SUFFICES ASSUME NEW d \in Device, USER[d] \notin {NoId, USER'[d]},
                    displayName'[USER[d]] = displayName'[USER'[d]],
                    displayName'[USER[d]] \notin raced', USER[d] \notin lost'
             PROVE  FALSE
  BY DEF KeepsIdentity
<1>2. d = device[t] /\ USER'[d] = i
  BY <1>1 DEF TypeOK
<1>3. displayName[USER[d]] = name[t] /\ name[t] \notin raced
  BY <1>1, <1>2
<1>4. USER[d] \in Stored
  BY DEF IInv, SignedInExists
<1>5. USER[d] \in Accounts(name[t])
  BY <1>1, <1>3, <1>4
<1>6. USER[d] = i
  BY <1>1, <1>3, <1>5 DEF IInv, OneOrMaking
<1>7. QED
  BY <1>2, <1>6

\* A step that leaves the defaults says nothing.
LEMMA UserUnchanged ==
  ASSUME USER' = USER
  PROVE  KeepsIdentity
  BY DEF KeepsIdentity

\* An answer, wherever it comes from, is one of the person's documents.
LEMMA AnswerIdentity ==
  ASSUME IInv, NEW t \in Attempt, Answered(t) \/ AnsweredFromCache(t)
  PROVE  KeepsIdentity
<1> DEFINE d == device[t]
<1> DEFINE n == name[t]
<1>1. /\ TypeOK /\ d \in Device
      /\ Accounts(n) = {i \in Stored : displayName[i] = n}
      /\ documents \cup Pending(d) \subseteq Stored
  BY StoredTypes DEF IInv, TypeOK, Stored
<1>2. PICK ids \in Answers(d, n) \cup CacheAnswers(d, n) :
        ExistUserSignIn(t, ids) \/ NewUserSignIn(t, ids)
  BY DEF Answered, AnsweredFromCache
<1>3. ids \subseteq Accounts(n)
  BY <1>1, <1>2 DEF Answers, CacheAnswers, Of
<1>4. raced \subseteq raced'
  BY DEF Answered, AnsweredFromCache
<1>5. CASE ExistUserSignIn(t, ids)
  BY <1>3, <1>4, <1>5, SignInIdentity DEF ExistUserSignIn
<1>6. CASE NewUserSignIn(t, ids)
  BY <1>6, UserUnchanged DEF NewUserSignIn, defaults
<1>7. QED
  BY <1>2, <1>5, <1>6

\* A new user signs in as the document that was just made: there was none.
LEMMA UploadedIdentity ==
  ASSUME IInv, NEW t \in Attempt, Uploaded(t)
  PROVE  KeepsIdentity
<1>1. /\ TypeOK /\ device[t] \in Device /\ name[t] \in Name
      /\ Accounts(name[t]) = {j \in Stored : displayName[j] = name[t]}
      /\ phase[t] = "uploading" /\ displayName[document[t]] = name[t]
      /\ USER' = [USER EXCEPT ![device[t]] = document[t]]
      /\ UNCHANGED <<displayName, raced, lost>>
  BY StoredTypes DEF IInv, Named, TypeOK, Uploaded, SignIn, history
<1> SUFFICES ASSUME NEW d \in Device, USER[d] \notin {NoId, USER'[d]},
                    displayName'[USER[d]] = displayName'[USER'[d]],
                    displayName'[USER[d]] \notin raced', USER[d] \notin lost'
             PROVE  FALSE
  BY DEF KeepsIdentity
<1>2. d = device[t] /\ USER'[d] = document[t]
  BY <1>1 DEF TypeOK
<1>3. displayName[USER[d]] = name[t] /\ name[t] \notin raced
  BY <1>1, <1>2
<1>4. USER[d] \in Stored
  BY <1>1 DEF IInv, SignedInExists
<1>5. USER[d] \in Accounts(name[t])
  BY <1>1, <1>3, <1>4
<1>6. Accounts(name[t]) = {}
  BY <1>1, <1>3 DEF IInv, OneOrMaking
<1>7. QED
  BY <1>5, <1>6

\* Who signs in again is who they were.
THEOREM IdentityCorrect == Spec => IdentityKept
<1>1. ASSUME IInv, [Next]_vars PROVE [KeepsIdentity]_vars
  <2>1. ASSUME NEW t \in Attempt, AttemptStep(t) PROVE KeepsIdentity
    <3>1. CASE LoginButtonTapped(t) \/ UploadFails(t)
      BY <3>1, UserUnchanged DEF LoginButtonTapped, UploadFails, defaults
    <3>2. CASE AnswerFails(t)
      BY <3>2, UserUnchanged DEF AnswerFails, EndProcess, defaults
    <3>3. QED
      BY <1>1, <2>1, <3>1, <3>2, AnswerIdentity, UploadedIdentity
         DEF AttemptStep
  <2>2. ASSUME NEW d \in Device, DeviceStep(d) PROVE KeepsIdentity
    BY <2>2, UserUnchanged DEF DeviceStep, Unlinked, ShowSignIn, EndProcess,
                               Launch, Persist, Commit, defaults
  <2>3. QED
    BY <1>1, <2>1, <2>2 DEF Next
<1>2. QED
  BY <1>1, InvAlways, PTL DEF Spec, IdentityKept

=============================================================================
