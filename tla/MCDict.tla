------------------------------- MODULE MCDict -------------------------------
(***************************************************************************)
(* The calls that two clients of Dict make: one key is written with two    *)
(* values, removed and read; the other is only set, cleared and iterated.  *)
(***************************************************************************)
EXTENDS Dict

CONSTANTS k1, k2, v1, v2

MCOps == {
    [name |-> "Set", key |-> k1, val |-> v1], [name |-> "Set", key |-> k1, val |-> v2],
    [name |-> "Set", key |-> k2, val |-> v1], [name |-> "Pop", key |-> k1, val |-> v1],
    [name |-> "Clear", key |-> k1, val |-> v1], [name |-> "Get", key |-> k1, val |-> v1],
    [name |-> "Items", key |-> k1, val |-> v1]}

=============================================================================
