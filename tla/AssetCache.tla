----------------------------- MODULE AssetCache -----------------------------
(***************************************************************************)
(* The cache in front of the disk backend, and that backend as the ASIO    *)
(* thread sees it, as operators on the state s of the server: s.cache, the *)
(* existence index s.index, the requests queued for the disk worker        *)
(* s.work and the callbacks posted to the io_service s.posted.  VFSBackend *)
(* is the backend in detail.                                               *)
(***************************************************************************)
EXTENDS LRUCache, TLC

CONSTANT Uuid      \* Uuid[a] is the id an asset carries

Post(s, callback) == [s EXCEPT !.posted = Append(@, callback)]

Enqueue(s, request) == [s EXCEPT !.work = Append(@, request)]

inform(s, a) ==
  IF a = NoAsset THEN s ELSE [s EXCEPT !.cache = insert(@, Uuid[a], a)]

\* VFSBackend::getAsset.  The answer of the backend goes through the cache.
diskGetAsset(s, c, id, dontCache) ==
  LET r == [run |-> "got", client |-> c, id |-> id, dontCache |-> dontCache]
  IN IF id \in s.index THEN Enqueue(s, r)
     ELSE Post(s, r @@ [asset |-> NoAsset, error |-> FALSE])

\* A hit is posted, so that the callback never runs inside getAsset.
getAsset(s, c, id, dontCache) ==
  LET hit == fetch(s.cache, id)
  IN IF hit = NoAsset THEN diskGetAsset(s, c, id, dontCache)
     ELSE Post([s EXCEPT !.cache = touch(@, id)],
               [run |-> "hit", client |-> c, asset |-> hit])

asyncGetCompleted(s, a, dontCache) ==
  IF a # NoAsset /\ ~dontCache THEN inform(s, a) ELSE s

\* VFSBackend::storeAsset.
diskStoreAsset(s, c, a) ==
  LET r == [run |-> "put", client |-> c, asset |-> a]
  IN IF Uuid[a] \in s.index THEN Post(s, r @@ [ok |-> FALSE])
     ELSE Enqueue([s EXCEPT !.index = @ \cup {Uuid[a]}], r)

\* Mutant: the asset is cached when its write is queued.
StoreCachesAtOnce(s, c, a) == inform(diskStoreAsset(s, c, a), a)

storeAsset(s, c, a) == diskStoreAsset(s, c, a)

\* Mutant: the asset the cache has for the id stays.
PutLeavesCache(s, a, ok) ==
  IF ok /\ ~exists(s.cache, Uuid[a]) THEN inform(s, a) ELSE s

asyncPutCompleted(s, a, ok) == IF ok THEN inform(s, a) ELSE s

\* Empty, and so is VFSBackend's: the callback is dropped.
purgeAsset(s, c, id) == s

assetExists(s, id) == exists(s.cache, id) \/ id \in s.index

\* getStatus and getStoredAssetIDsWithPrefix go on to the disk worker.
getStatus(s, c) == Enqueue(s, [run |-> "status", client |-> c])

getStoredAssetIDsWithPrefix(s, c) == Enqueue(s, [run |-> "ids", client |-> c])
=============================================================================
