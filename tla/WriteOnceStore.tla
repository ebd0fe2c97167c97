--------------------------- MODULE WriteOnceStore ---------------------------
(***************************************************************************)
(* What the storage backend promises: a set of assets to which assets are  *)
(* added, one for each id, and from which nothing is ever taken; and a put *)
(* is confirmed only when its asset is in the set.  Queues, indexes, files,*)
(* failures, crashes and restarts are not visible at this level.           *)
(***************************************************************************)
CONSTANTS
  Assets,      \* the assets, contents included
  Uuid         \* the id of an asset

VARIABLES
  stored,      \* the assets that are stored
  confirmed    \* the assets whose put was answered with success

Init == stored = {} /\ confirmed = {}

Store(a) ==
  /\ \A b \in stored : Uuid[b] # Uuid[a]
  /\ stored' = stored \cup {a} /\ UNCHANGED confirmed

Confirm(a) ==
  /\ a \in stored
  /\ confirmed' = confirmed \cup {a} /\ UNCHANGED stored

Next == \E a \in Assets : Store(a) \/ Confirm(a)

Spec == Init /\ [][Next]_<<stored, confirmed>>
=============================================================================
