------------------------------- MODULE MCUnix -------------------------------
(***************************************************************************)
(* Instances of Unix for TLC: the constants are given in the .cfg files.   *)
(***************************************************************************)
EXTENDS Unix

=============================================================================
