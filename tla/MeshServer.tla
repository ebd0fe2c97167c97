----------------------------- MODULE MeshServer -----------------------------
(***************************************************************************)
(* A server of the mesh (MeshServer): connecting, answers to queries,      *)
(* responses with assets, closing, and the tables of IntraMeshService that *)
(* own it.                                                                 *)
(*                                                                         *)
(* The four steps of the handshake of the asset connection change nothing  *)
(* that other code looks at, so they are one operation that succeeds or    *)
(* fails.                                                                  *)
(***************************************************************************)
EXTENDS AssetSearch

\* The shared pointers to a server: the tables and the searches.
Referenced(s, v) ==
  \/ \E p \in Peers : v \in {s.remote[p], s.pending[p]}
  \/ v \in s.failed
  \/ \E x \in Searches : Active(s, x)
                         /\ v \in s.search[x].queried \cup {s.search[x].found}

\* Objects without a reference are destroyed when the handler returns.
Reaped(s) ==
  [s EXCEPT !.dead = @ \cup {v \in DOMAIN s.srv : ~Referenced(s, v)}]

listenForAssetData(s, v) ==
  Begin([s EXCEPT !.srv[v].recvActive = TRUE], v, "header", <<>>)

----------------------------------------------------------------------------
(* Closing.                                                                *)

\* Mutant: a request being written does not keep the object.
KillIgnoresSend(s, v) ==
  LET m == s.srv[v]
  IN ~m.asset /\ m.kill # "none" /\ ~m.recvActive /\ ~m.query

SafeToKill(s, v) ==
  LET m == s.srv[v]
  IN /\ ~m.asset /\ m.kill # "none"
     /\ ~m.recvActive /\ ~m.sendActive /\ ~m.query

\* onSafeToKill takes out of the table whatever server the peer has there.
checkSafeKill(s, v) ==
  CASE SafeToKill(s, v) /\ s.srv[v].kill = "remote" ->
         [s EXCEPT !.remote[s.srv[v].peer] = 0]
    [] SafeToKill(s, v) /\ s.srv[v].kill = "failed" ->
         [s EXCEPT !.failed = @ \ {v}]
    [] ~SafeToKill(s, v) -> s

closeAssetSocket(s, v) ==
  Abort([s EXCEPT !.srv[v].open = FALSE, !.srv[v].wire = <<>>], v, AssetOps)

\* Every search of _currentSearches that still exists is told that the server
\* has nothing; it stays in _currentSearches.
killSearches(s, v) ==
  LET told == {x \in Searches : Active(s, x) /\ x \in s.srv[v].current[IdOf[x]]}
      tell(u, x) == onSearchResult([u EXCEPT !.search[x].closedOn = TRUE],
                                   v, x, FALSE)
  IN FoldLeft(tell, s, SetToSeq(told))

\* What close() does after it has closed the sockets.
failEverything(s, v) ==
  LET m == s.srv[v]
      t == [s EXCEPT !.srv[v].asset = FALSE, !.srv[v].transfers = <<>>,
                     !.srv[v].callbacks = <<>>]
      cancel(u, x) == onFullAssetRcvd(u, x, "nothing")
      waiting == m.transfers \o m.callbacks
  IN checkSafeKill(killSearches(FoldLeft(cancel, t, waiting), v), v)

\* Mutant: the flag of the query connection stays set.
KeepQueryFlag(s, v) ==
  failEverything(closeAssetSocket([s EXCEPT !.srv[v].conn.fired = TRUE], v), v)

\* The disconnect callback.  It calls close(), whose call of
\* MeshQueryConnection::close() finds nothing more to do.
queryEndpointClosed(s, v) ==
  failEverything(closeAssetSocket([s EXCEPT !.srv[v].query = FALSE,
                                            !.srv[v].conn.fired = TRUE], v), v)

\* MeshQueryConnection::close()
closeQuery(s, v) ==
  LET t == closeQuerySocket(s, v)
  IN IF Disconnects(t, v) THEN queryEndpointClosed(t, v) ELSE t

\* MeshServer::close().  When it is what makes the query connection call
\* back, it goes on with an object that the callback may have destroyed.
close(s, v) ==
  LET t == closeAssetSocket(s, v)
      u == closeQuery(t, v)
  IN IF u.srv[v].conn.fired # t.srv[v].conn.fired /\ ~Referenced(u, v)
     THEN [u EXCEPT !.broken = TRUE]
     ELSE failEverything(u, v)

----------------------------------------------------------------------------
(* Connecting.                                                             *)

\* IntraMeshService::onConnectAttemptCompleted
onConnectAttemptCompleted(s, v, ok) ==
  LET p == s.srv[v].peer
      t == IF ok
           THEN [s EXCEPT !.remote[p] = v, !.srv[v].kill = "remote"]
           ELSE close([s EXCEPT !.failed = @ \cup {v},
                                !.srv[v].kill = "failed"], v)
  IN [t EXCEPT !.pending[p] = 0]

\* Both connections have reported when there have been two results.
onConnectionResult(s, v) ==
  LET t == [s EXCEPT !.srv[v].results = @ + 1]
      ok == t.srv[v].query /\ t.srv[v].asset
  IN IF t.srv[v].results < 2 THEN t
     ELSE onConnectAttemptCompleted(IF ok THEN listenForAssetData(t, v) ELSE t, v, ok)

\* onConnect, onRecvChallenge, onChallengeResponseWrite, onAuthenticationStatus
onHandshake(s, v, ok) ==
  onConnectionResult([s EXCEPT !.srv[v].asset = ok], v)

\* onAfterMeshServiceConnect and onQueryConnectionConnectResult
onQueryConnect(s, v, ok) ==
  LET t == IF ok
           THEN listenForMessage([s EXCEPT !.srv[v].conn.isConnected = TRUE,
                                           !.srv[v].query = TRUE], v)
           ELSE s
  IN onConnectionResult(t, v)

----------------------------------------------------------------------------
(* Queries and their answers.                                              *)

postResponse(s, v, id, found) ==
  LET told == {x \in s.srv[v].current[id] : Active(s, x)}
      tell(u, x) == onSearchResult(u, v, x, found)
      t == FoldLeft(tell, s, SetToSeq(told))
  IN [t EXCEPT !.srv[v].current[id] = {}]

\* A message that is not valid is ignored.
onQueryAnswerRcvd(s, v, id, res) ==
  CASE res = "heartbeat" -> [s EXCEPT !.srv[v].fresh = TRUE]
    [] res \in {"found", "notFound"} -> postResponse(s, v, id, res = "found")
    [] res = "invalid" -> s

onAfterMeshMessageReceived(s, v, id, res) ==
  LET t == [s EXCEPT !.srv[v].conn.recvActive = FALSE]
  IN IF res = "fail" THEN closeQuery(t, v)
     ELSE listenForMessage(onQueryAnswerRcvd(t, v, id, res), v)

onAfterMeshMessageWritten(s, v, ok) ==
  LET t == [s EXCEPT !.srv[v].conn.sendActive = FALSE]
  IN IF ok THEN writeNextMessage(t, v) ELSE closeQuery(t, v)

----------------------------------------------------------------------------
(* Transfers.                                                              *)

\* Mutant: the end of a write does not look whether the server can go.
WriteNeverKills(s, v, ok) ==
  LET t == [s EXCEPT !.srv[v].sendActive = FALSE]
      q == t.srv[v].transfers
  IN IF ~ok THEN close(t, v)
     ELSE IF t.srv[v].asset /\ q # <<>>
     THEN sendGetRequest([t EXCEPT !.srv[v].transfers = Tail(@)], v, Head(q))
     ELSE t

onAfterWriteAssetRequest(s, v, ok) ==
  LET t == [s EXCEPT !.srv[v].sendActive = FALSE]
      q == t.srv[v].transfers
  IN IF ~ok THEN close(t, v)
     ELSE checkSafeKill(
            IF t.srv[v].asset /\ q # <<>>
            THEN sendGetRequest([t EXCEPT !.srv[v].transfers = Tail(@)],
                                v, Head(q))
            ELSE t, v)

\* The response answers the request at the head of _assetCallbackQueue, which
\* the code asserts is not empty.
answerHead(s, v, answer) ==
  LET t == onFullAssetRcvd(s, Head(s.srv[v].callbacks), answer)
  IN [t EXCEPT !.srv[v].callbacks = Tail(@)]

forHead(s, v, id) == IdOf[Head(s.srv[v].callbacks)] = id

onReadResponseHeader(s, v, id, res) ==
  LET t == [s EXCEPT !.srv[v].recvActive = FALSE]
  IN CASE res \in {"fail", "invalid"} -> close(t, v)
       [] res = "found" -> Begin(s, v, "data", id)
       [] res \in {"notFound", "error"} /\ s.srv[v].callbacks = <<>> ->
            [t EXCEPT !.broken = TRUE]
       [] res \in {"notFound", "error"} /\ s.srv[v].callbacks # <<>> ->
            IF ~forHead(s, v, id) THEN close(t, v)
            ELSE IF res = "error"
            THEN Begin(answerHead(s, v, "nothing"), v, "errorData", id)
            ELSE listenForAssetData(answerHead(t, v, "nothing"), v)

onHandleRequestErrorData(s, v, ok) ==
  LET t == [s EXCEPT !.srv[v].recvActive = FALSE]
  IN IF ok THEN listenForAssetData(t, v) ELSE close(t, v)

\* Mutant: a request that was answered stays at the head of the queue.
DataKeepsCallback(s, v, id, ok) ==
  LET t == [s EXCEPT !.srv[v].recvActive = FALSE]
  IN CASE ~ok \/ ~s.srv[v].asset -> close(t, v)
       [] ok /\ s.srv[v].asset -> listenForAssetData(
            onFullAssetRcvd(t, Head(s.srv[v].callbacks), "asset"), v)

onReadResponseData(s, v, id, ok) ==
  LET t == [s EXCEPT !.srv[v].recvActive = FALSE]
  IN CASE ~ok \/ ~s.srv[v].asset -> close(t, v)
       [] ok /\ s.srv[v].asset /\ s.srv[v].callbacks = <<>> ->
            [t EXCEPT !.broken = TRUE]
       [] ok /\ s.srv[v].asset /\ s.srv[v].callbacks # <<>> ->
            IF forHead(s, v, id)
            THEN listenForAssetData(answerHead(t, v, "asset"), v)
            ELSE close(t, v)
=============================================================================
