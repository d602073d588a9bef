------------------------------- MODULE MCPool -------------------------------
(***************************************************************************)
(* Instances of Pool for TLC: the constants are given in the .cfg files.   *)
(***************************************************************************)
EXTENDS Pool

=============================================================================
