----------------------------- MODULE MCDirectory -----------------------------
(***************************************************************************)
(* Instances of Directory for TLC.                                         *)
(***************************************************************************)
EXTENDS Directory

\* User 1 has added user 3 before; the identifiers leave room on both sides.
OneFriend == {[own |-> 2, other |-> 4, user |-> 1, friend |-> 3]}

\* User 1 has added users 3 and 2, and there is no room for more.
TwoFriends == {[own |-> 1, other |-> 2, user |-> 1, friend |-> 3],
               [own |-> 3, other |-> 4, user |-> 1, friend |-> 2]}

=============================================================================
