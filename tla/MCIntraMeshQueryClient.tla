----------------------- MODULE MCIntraMeshQueryClient -----------------------
(***************************************************************************)
(* One peer that asks, and one that only gets heartbeats.                  *)
(***************************************************************************)
EXTENDS IntraMeshQueryClient

CONSTANTS asking, quiet

MCQueries == [x \in Clients |-> IF x = asking THEN 2 ELSE 0]
=============================================================================
