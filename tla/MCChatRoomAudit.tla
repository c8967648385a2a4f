-------------------------- MODULE MCChatRoomAudit --------------------------
(***************************************************************************)
(* Instances of ChatRoomAudit for TLC.                                     *)
(***************************************************************************)
EXTENDS ChatRoomAudit, MCChatRoom

=============================================================================
