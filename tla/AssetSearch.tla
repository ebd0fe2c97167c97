---------------------------- MODULE AssetSearch ----------------------------
(***************************************************************************)
(* A search of the mesh for one asset (AssetSearch, MeshStorageBackend).   *)
(*                                                                         *)
(* A search is active from MeshStorageBackend::getAsset until              *)
(* searchComplete drops the last reference and frees it; the timer and the *)
(* transfer call it back through a bare pointer.  Its fields: the servers  *)
(* that have not answered (queried), the server that has the asset         *)
(* (found, 0 if none), whether the timer runs, the answer the client got.  *)
(* closedOn and late are history: a server told the search that it closed; *)
(* a result came after the asset was found.                                *)
(***************************************************************************)
EXTENDS MeshQueryConnection

NewSearch ==
  [state |-> "idle", queried |-> {}, found |-> 0, timer |-> FALSE,
   answer |-> "none", closedOn |-> FALSE, late |-> FALSE]

Active(s, x) == s.search[x].state = "active"

\* _wasFound
wasFound(s, x) == s.search[x].found # 0

cancelTimeoutTimer(s, x) == [s EXCEPT !.search[x].timer = FALSE]

\* The client's callback, then MeshStorageBackend::searchComplete: the cache
\* learns the asset and the search is freed.
finish(s, x, answer) ==
  [s EXCEPT !.search[x].state = "done", !.search[x].queried = {},
            !.search[x].timer = FALSE, !.search[x].answer = answer,
            !.cache = IF answer = "asset" THEN @ \cup {IdOf[x]} ELSE @]

cancelRemainingServers(s, x) ==
  LET t == FoldLeft(LAMBDA u, v : cancelSearch(u, v, x), s,
                    SetToSeq(s.search[x].queried))
  IN [t EXCEPT !.search[x].queried = {}]

\* A result from server v.  That a result comes after the asset was found is
\* logged as a bug and otherwise treated like any other.  The branch of a search
\* with a _testCallBack is left out: MeshStorageBackend::assetExists makes them,
\* and nothing calls it.
onSearchResult(s, v, x, found) ==
  LET t == [s EXCEPT !.search[x].late = @ \/ wasFound(s, x),
                     !.search[x].queried = @ \ {v}]
  IN IF found
     THEN LET u == cancelRemainingServers(cancelTimeoutTimer(t, x), x)
          IN getAsset([u EXCEPT !.search[x].found = v], v, x)
     ELSE IF t.search[x].queried = {} THEN finish(t, x, "nothing") ELSE t

\* onFullAssetRcvd: the callback of the transfer.
onFullAssetRcvd(s, x, answer) ==
  IF Active(s, x) THEN finish(s, x, answer) ELSE [s EXCEPT !.broken = TRUE]

\* Mutant: the expired timer does not look whether the asset was found.
TimeoutAlways(s, x) ==
  IF Active(s, x) THEN finish(cancelRemainingServers(s, x), x, "nothing")
  ELSE [s EXCEPT !.broken = TRUE]

\* onTimeout, for a timer that expired before it was cancelled.
onTimeout(s, x) ==
  CASE ~Active(s, x) -> [s EXCEPT !.broken = TRUE]
    [] Active(s, x) /\ wasFound(s, x) -> s
    [] Active(s, x) /\ ~wasFound(s, x) ->
         finish(cancelRemainingServers(s, x), x, "nothing")

\* Mutant: the timer is not set.
SearchWithoutTimer(s, x) ==
  LET asked == {v \in {s.remote[p] : p \in Peers} \ {0} : ~isTimedOut(s, v)}
      t == FoldLeft(LAMBDA u, v : ask(u, v, x), s, SetToSeq(asked))
  IN IF asked = {} THEN finish(t, x, "nothing")
     ELSE [t EXCEPT !.search[x].state = "active", !.search[x].queried = asked]

\* performSearch: ask every server of the table that is not timed out, and set
\* the timer; with nobody to ask the answer is negative at once.  HB_READABLE,
\* the other condition, is always set: connectToMeshServer is given it and every
\* heartbeat carries it (generateHeartBeatFlags).  The order in which servers
\* are asked does not matter, ask() changes nothing but the server asked.
performSearch(s, x) ==
  LET asked == {v \in {s.remote[p] : p \in Peers} \ {0} : ~isTimedOut(s, v)}
      t == FoldLeft(LAMBDA u, v : ask(u, v, x), s, SetToSeq(asked))
  IN IF asked = {} THEN finish(t, x, "nothing")
     ELSE [t EXCEPT !.search[x].state = "active",
                    !.search[x].queried = asked,
                    !.search[x].timer = TRUE]
=============================================================================
