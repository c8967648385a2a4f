---------------------------- MODULE ChatRoomAudit ----------------------------
(***************************************************************************)
(* ChatRoom with a history variable: what happened to the rooms that the   *)
(* conversation index has lost.  Sending writes an index only if the       *)
(* screen's copy lacks the room, and then the whole array; this module     *)
(* says which rooms that can cost.                                         *)
(***************************************************************************)
EXTENDS ChatRoom

VARIABLE
  dropped    \* the <<user, room>> that the index of the user has lost

auditVars == <<vars, dropped>>

\* A committed array did not hold a room that the array it replaces did.
Overwritten ==
  UNION {{u} \X (Range(conversation[u]) \ Range(conversation'[u])) : u \in User}

\* The process ended with index writes that were in memory only.
LostWithProcess ==
  {lost \in User \X Room :
     \E u \in User : /\ running[u] /\ ~running'[u]
                     /\ \E i \in Queued(u, Len(outbox[u]), "index") :
                          /\ i > saved[u]
                          /\ outbox[u][i].id = lost[1]
                          /\ lost[2] \in Range(outbox[u][i].rooms)}

AuditInit == Init /\ dropped = {}

AuditNext ==
  Next /\ dropped' = dropped \cup Overwritten \cup LostWithProcess

AuditSpec == AuditInit /\ [][AuditNext]_auditVars

\* A room with a stored message is in the index of both its members, or on its
\* way there, unless an index of an older copy replaced it or a process ended:
\* the optimistic copies of the screens lose no room by themselves.
MissingRoomWasDropped ==
  \A m \in chatRoom :
    LET room == created[m].roomId
    IN  \A x \in Members(room) :
          \/ room \in Range(conversation[x])
          \/ <<x, room>> \in dropped
          \/ \E u \in User : \E i \in Queued(u, Len(outbox[u]), "index") :
               outbox[u][i].id = x /\ room \in Range(outbox[u][i].rooms)

=============================================================================
