------------------------- MODULE MCPullReplication --------------------------
(***************************************************************************)
(* A master with two prefixes.                                             *)
(***************************************************************************)
EXTENDS PullReplication

CONSTANTS i1, i2, i3, i4

MCIds == {i1, i2, i3, i4}
MCIdsAt == [p \in 0..1 |-> IF p = 0 THEN {i1} ELSE {i2, i3, i4}]
=============================================================================
