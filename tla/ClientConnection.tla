-------------------------- MODULE ClientConnection --------------------------
(***************************************************************************)
(* One connection of a client or of a peer to the asset server, as         *)
(* operators on the state s of the server: AssetClient and its two states, *)
(* CSUnauthenticated (the handshake) and CSAuthenticated (requests).       *)
(*                                                                         *)
(* s.ops[c] holds the operations outstanding on the socket of c; s.clients *)
(* is _clients, which keeps the objects alive.  Callbacks of the storage   *)
(* and of the mesh hold a bare pointer to the state object.                *)
(***************************************************************************)
EXTENDS AssetCache

CONSTANTS Ids      \* the valid uuids

NoRequest == [type |-> "none"]

NoId == "zero"     \* the id of responses that are about no asset

\* req is _currentRequest, active _isActive; resp (the last response) and
\* readFailed (the disk failed to read for this request) are history.
NewClient ==
  [state |-> "unauthenticated", mesh |-> FALSE, active |-> FALSE,
   req |-> NoRequest, resp |-> NoRequest, readFailed |-> FALSE]

Begin(s, c, op) ==
  IF c \in s.clients THEN [s EXCEPT !.ops[c] = Append(@, op)] ELSE s

disconnect(s, c) == [s EXCEPT !.clients = @ \ {c}]

----------------------------------------------------------------------------
(* The handshake.                                                          *)

sendAuthChallenge(s, c) == Begin(s, c, [run |-> "challengeWritten"])

\* AssetClient::start
start(s, c) ==
  sendAuthChallenge([s EXCEPT !.clients = @ \cup {c}, !.conn[c] = NewClient], c)

handleWriteChallenge(s, c, ok) ==
  IF ok THEN Begin(s, c, [run |-> "responseRead"]) ELSE disconnect(s, c)

\* auth says what the response is: of a "client", of a "server", or "invalid".
handleReadChallengeResponse(s, c, ok, auth) ==
  IF ~ok THEN disconnect(s, c)
  ELSE IF auth = "invalid" THEN Begin(s, c, [run |-> "failureWritten"])
  ELSE Begin([s EXCEPT !.conn[c].mesh = auth = "server"], c,
             [run |-> "successWritten"])

waitForRequest(s, c) ==
  Begin([s EXCEPT !.conn[c].active = FALSE, !.conn[c].req = NoRequest], c,
        [run |-> "headerRead"])

\* handleWriteAuthSuccess and CSAuthenticated::start: the error is not looked at.
handleWriteAuthSuccess(s, c) ==
  waitForRequest([s EXCEPT !.conn[c].state = "authenticated"], c)

----------------------------------------------------------------------------
(* Responses.                                                              *)

sendResponse(s, c, resp) ==
  Begin([s EXCEPT !.conn[c].resp = resp], c, [run |-> "responseWritten"])

Response(code, id) ==
  [type |-> code, id |-> id, asset |-> NoAsset, data |-> FALSE]

Found(a) == [type |-> "FOUND", id |-> Uuid[a], asset |-> a, data |-> TRUE]

sendError(s, c) ==
  sendResponse(s, c, [Response("ERROR", s.conn[c].req.id) EXCEPT !.data = TRUE])

handleResponseHeaderWrite(s, c, ok) ==
  IF ~ok THEN disconnect(s, c)
  ELSE IF s.conn[c].resp.data THEN Begin(s, c, [run |-> "dataWritten"])
  ELSE waitForRequest(s, c)

handleResponseDataWrite(s, c, ok) ==
  IF ok THEN waitForRequest(s, c) ELSE disconnect(s, c)

----------------------------------------------------------------------------
(* Requests.                                                               *)

handleGetRequest(s, c, req) ==
  IF req.id \in Ids THEN getAsset(s, c, req.id, req.type = "GET_DONTCACHE")
  ELSE sendError(s, c)

handleTestRequest(s, c, req) ==
  IF req.id \in Ids
  THEN sendResponse(s, c, Response(IF assetExists(s, req.id) THEN "FOUND"
                                   ELSE "NOTFOUND", req.id))
  ELSE sendError(s, c)

handlePurgeRequest(s, c, req) ==
  IF req.id \in Ids THEN purgeAsset(s, c, req.id) ELSE sendError(s, c)

\* The data of the asset is still to be read.
handlePutRequest(s, c) == Begin(s, c, [run |-> "assetRead"])

\* beginPurgeLocals concerns local assets only (VFSBackend); there are none here.
handlePurgeLocals(s, c) == sendResponse(s, c, Response("OK", NoId))

handleStatusGet(s, c) == getStatus(s, c)

handleStoredAssetIdsGet(s, c) == getStoredAssetIDsWithPrefix(s, c)

\* statusGetCompleted and storedAssetIdsGetCompleted
listCompleted(s, c) ==
  sendResponse(s, c, [Response("OK", NoId) EXCEPT !.data = TRUE])

\* A header that is no request ("INVALID") ends the connection.
handleClientRequestHeaderRead(s, c, ok, req) ==
  LET t == [s EXCEPT !.conn[c].active = TRUE, !.conn[c].req = req,
                     !.conn[c].readFailed = FALSE]
  IN CASE ~ok \/ req.type = "INVALID" -> disconnect(s, c)
       [] req.type \in {"GET", "GET_DONTCACHE"} -> handleGetRequest(t, c, req)
       [] req.type = "PUT" -> handlePutRequest(t, c)
       [] req.type = "TEST" -> handleTestRequest(t, c, req)
       [] req.type = "PURGE" -> handlePurgeRequest(t, c, req)
       [] req.type = "PURGELOCALS" -> handlePurgeLocals(t, c)
       [] req.type = "STATUS" -> handleStatusGet(t, c)
       [] req.type = "IDS" -> handleStoredAssetIdsGet(t, c)

handleAssetDataRead(s, c, ok) ==
  LET a == s.conn[c].req.asset
  IN IF ~ok THEN disconnect(s, c)
     ELSE IF Uuid[a] \in Ids THEN storeAsset(s, c, a) ELSE sendError(s, c)

handleStorageWriteResponse(s, c, ok) ==
  IF ok THEN sendResponse(s, c, Response("OK", s.conn[c].req.id))
  ELSE sendError(s, c)

\* MeshStorageBackend::getAsset
searchMesh(s, c) ==
  [s EXCEPT !.searches = Append(@, [client |-> c, id |-> s.conn[c].req.id])]

\* Mutant: the search of the mesh is started and "not found" sent as well.
SearchAndAnswer(s, c, a) ==
  IF a # NoAsset THEN sendResponse(s, c, Found(a))
  ELSE sendResponse(searchMesh(s, c), c,
                    Response("NOTFOUND", s.conn[c].req.id))

\* An asset that is not here is looked for in the mesh, unless a peer asks.
handleStorageGetResponse(s, c, a) ==
  IF a # NoAsset THEN sendResponse(s, c, Found(a))
  ELSE IF s.conn[c].mesh
  THEN sendResponse(s, c, Response("NOTFOUND", s.conn[c].req.id))
  ELSE searchMesh(s, c)

\* Mutant: the answer to a search that found nothing is forgotten.
AnswerOnlyFound(s, c, id, a) ==
  IF a # NoAsset THEN sendResponse(s, c, Found(a)) ELSE s

handleIntrameshGetResponse(s, c, id, a) ==
  sendResponse(s, c, IF a # NoAsset THEN Found(a) ELSE Response("NOTFOUND", id))
=============================================================================
