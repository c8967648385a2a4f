------------------------------ MODULE MCSession ------------------------------
(***************************************************************************)
(* Instances of Session for TLC.                                           *)
(***************************************************************************)
EXTENDS Session

\* Attempts, devices and names are interchangeable.
Symmetry ==
  Permutations(Attempt) \cup Permutations(Device) \cup Permutations(Name)

=============================================================================
