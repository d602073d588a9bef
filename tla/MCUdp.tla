------------------------------- MODULE MCUdp -------------------------------
(***************************************************************************)
(* Instances of Udp for TLC: the constants are given in the .cfg files.    *)
(***************************************************************************)
EXTENDS Udp

=============================================================================
