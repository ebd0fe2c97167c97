-------------------------- MODULE IntraMeshService --------------------------
(***************************************************************************)
(* The outgoing side of the mesh as one system: the heartbeat timer that   *)
(* connects to peers, the searches clients cause, the handlers of the ASIO *)
(* thread, and the network and peers that complete its operations.         *)
(***************************************************************************)
EXTENDS MeshServer

VARIABLE st

Init ==
  \E sc \in Scenarios :
  st = [peers |-> sc.peers, clients |-> sc.clients, faults |-> sc.faults,
        srv |-> <<>>, search |-> [x \in Searches |-> NewSearch],
        ops |-> {}, io |-> <<>>,
        remote |-> [p \in Peers |-> 0], pending |-> [p \in Peers |-> 0],
        failed |-> {}, dead |-> {}, cache |-> {}, broken |-> FALSE]

----------------------------------------------------------------------------
(* Handlers.                                                               *)

Ready(run) == ~st.broken /\ st.io # <<>> /\ Head(st.io).run = run

Event == Head(st.io)

Taken == [st EXCEPT !.io = Tail(@)]

Ok == Event.res = "ok"

\* The handler of an operation of a server: t is the state it leaves.
ServerHandler(run, t) ==
  /\ Ready(run)
  /\ st' = IF Event.srv \in st.dead THEN [st EXCEPT !.broken = TRUE]
           ELSE Reaped(t)

Handshake == ServerHandler("handshake", onHandshake(Taken, Event.srv, Ok))

QueryConnect ==
  ServerHandler("queryConnect", onQueryConnect(Taken, Event.srv, Ok))

MessageReceived ==
  ServerHandler("queryRead", onAfterMeshMessageReceived(Taken, Event.srv,
                                                        Event.id, Event.res))

MessageWritten ==
  ServerHandler("queryWrite", onAfterMeshMessageWritten(Taken, Event.srv, Ok))

RequestWritten ==
  ServerHandler("write", onAfterWriteAssetRequest(Taken, Event.srv, Ok))

HeaderRead ==
  ServerHandler("header", onReadResponseHeader(Taken, Event.srv, Event.id,
                                               Event.res))

DataRead ==
  ServerHandler("data", onReadResponseData(Taken, Event.srv, Event.id, Ok))

ErrorDataRead ==
  ServerHandler("errorData", onHandleRequestErrorData(Taken, Event.srv, Ok))

\* The callback that getAsset posts when there is no connection.
NoAsset ==
  /\ Ready("noAsset")
  /\ st' = Reaped(onFullAssetRcvd(Taken, Event.search, "nothing"))

Timeout ==
  /\ Ready("timeout")
  /\ st' = Reaped(onTimeout(Taken, Event.search))

Handler ==
  \/ Handshake \/ QueryConnect \/ MessageReceived \/ MessageWritten
  \/ RequestWritten \/ HeaderRead \/ DataRead \/ ErrorDataRead
  \/ NoAsset \/ Timeout

----------------------------------------------------------------------------
(* Timers and clients.                                                     *)

connectToMeshServer(s, p) ==
  LET v == Len(s.srv) + 1
      t == [s EXCEPT !.srv = Append(@, NewServer(p)), !.pending[p] = v]
  IN Begin(Begin(t, v, "handshake", <<>>), v, "queryConnect", <<>>)

Unconnected(p) == st.remote[p] = 0 /\ st.pending[p] = 0

\* onHeartBeat, doHeartBeat: connect to every peer that is neither connected
\* nor being connected to.  The heartbeats sent are in IntraMeshQueryClient.  One
\* for which the settings cannot be read changes nothing, and the timer is set
\* again: it is a step that is not taken.  The settings name the same peers
\* throughout.
onHeartBeat ==
  LET todo == {p \in st.peers : Unconnected(p)}
  IN /\ ~st.broken /\ todo # {}
     /\ Len(st.srv) + Cardinality(todo) <= MaxServers
     /\ st' = Reaped(FoldLeft(connectToMeshServer, st, SetToSeq(todo)))

\* MeshStorageBackend::getAsset, called by a client's connection.  Searches
\* are treated alike, so the order in which they start is fixed.
getAssetFromMesh(x) ==
  /\ ~st.broken /\ x \in st.clients /\ st.search[x].state = "idle"
  /\ x = CHOOSE y \in st.clients : st.search[y].state = "idle"
  /\ st' = performSearch(st, x)

TimerExpires(x) ==
  /\ ~st.broken /\ st.search[x].timer
  /\ st' = [Post(st, [run |-> "timeout", search |-> x])
              EXCEPT !.search[x].timer = FALSE]

\* No heartbeat of the peer has come for HEARTBEAT_TIMEOUT.
HeartbeatsLate(p) ==
  LET v == st.remote[p]
  IN /\ ~st.broken /\ v # 0 /\ st.srv[v].fresh
     /\ st' = [st EXCEPT !.srv[v].fresh = FALSE]

----------------------------------------------------------------------------
(* The network and the peers.                                              *)

\* Operation o completes with result r, about asset id; s is the state with
\* what that does at the peer.
Completion(s, o, id, r, cost) ==
  /\ ~st.broken
  /\ cost > 0 => st.faults >= cost /\ st.srv[o.srv].peer \in Faulty
  /\ st' = [Post(s, Done([o EXCEPT !.id = id], r))
              EXCEPT !.ops = @ \ {o}, !.faults = @ - cost]

Fails(o) == Completion(st, o, o.id, "fail", 1)

Connects(o) ==
  o.op \in {"handshake", "queryConnect"} /\ Completion(st, o, o.id, "ok", 0)

\* The peer gets the query or the request.
WriteCompletes(o) ==
  \/ /\ o.op = "queryWrite"
     /\ Completion([st EXCEPT !.srv[o.srv].conn.wire = Append(@, o.id)],
                   o, o.id, "ok", 0)
  \/ /\ o.op = "write"
     /\ Completion([st EXCEPT !.srv[o.srv].wire = Append(@, o.id)],
                   o, o.id, "ok", 0)

\* A peer answers queries in order, and sends heartbeats (the model leaves out
\* those that are not news).
MessageArrives(o) ==
  LET w == st.srv[o.srv].conn.wire
      answered == [st EXCEPT !.srv[o.srv].conn.wire = Tail(@)]
  IN /\ o.op = "queryRead"
     /\ \/ /\ w # <<>>
           /\ \E r \in {"found", "notFound", "invalid"} :
                Completion(answered, o, Head(w), r, IF r = "invalid" THEN 1 ELSE 0)
        \/ ~st.srv[o.srv].fresh /\ Completion(st, o, o.id, "heartbeat", 0)

\* A peer answers requests in order.  That it does not give the asset it said
\* it has counts as a failure.
ResponseArrives(o) ==
  LET w == st.srv[o.srv].wire
      answered == [st EXCEPT !.srv[o.srv].wire = Tail(@)]
  IN \/ /\ o.op = "header" /\ w # <<>>
        /\ \E r \in {"found", "notFound", "error", "invalid"} :
             Completion(answered, o, Head(w), r, IF r = "found" THEN 0 ELSE 1)
     \/ o.op \in {"data", "errorData"} /\ Completion(st, o, o.id, "ok", 0)

----------------------------------------------------------------------------
Next ==
  \/ Handler \/ onHeartBeat
  \/ \E x \in Searches : getAssetFromMesh(x) \/ TimerExpires(x)
  \/ \E p \in Late : HeartbeatsLate(p)
  \/ \E o \in st.ops : \/ Fails(o) \/ Connects(o) \/ WriteCompletes(o)
                       \/ MessageArrives(o) \/ ResponseArrives(o)

Spec == Init /\ [][Next]_st

\* The thread runs its handlers, timers expire, connections are made and
\* requests written, and peers answer requests for assets.  Nothing makes a
\* peer answer a query.
\* Weak fairness of Handler, with what enables it written out.
HandlersRun == []<>(st.io = <<>> \/ st.broken) \/ []<><<Handler>>_st

Fairness ==
  /\ HandlersRun /\ WF_st(onHeartBeat)
  /\ \A x \in Searches : WF_st(TimerExpires(x))
  /\ WF_st(\E o \in st.ops : \/ Connects(o) \/ WriteCompletes(o)
                             \/ ResponseArrives(o))

FairSpec == Spec /\ Fairness

----------------------------------------------------------------------------
(* Properties.                                                             *)

Made == DOMAIN st.srv

HandlersOf(v) == {i \in 1..Len(st.io) :
                    st.io[i].run \in QueryOps \cup AssetOps /\ st.io[i].srv = v}

OpsOf(v) == {o \in st.ops : o.srv = v}

\* The handlers of a server hold a bare pointer to it.  When the tables and
\* searches let go of a server (safe kill), none of its operations is
\* outstanding and none of its handlers is queued.
NoHandlerOfDeadServer ==
  \A v \in st.dead : ~st.broken => OpsOf(v) = {} /\ HandlersOf(v) = {}

\* The query connection of a server was lost while a query was being written
\* that then went out: both flags are down and nobody has been told.
Forgotten(v) ==
  /\ st.srv[v].query /\ ~st.srv[v].conn.isConnected /\ ~st.srv[v].conn.fired
  /\ ~st.srv[v].conn.recvActive /\ ~st.srv[v].conn.sendActive

Closed == {v \in {st.remote[p] : p \in Peers} \cup st.failed :
             v # 0 /\ ~st.srv[v].asset}

\* No leak: a server that has closed, or whose connection failed, and that a
\* table still holds, has an operation or a handler whose end will run
\* checkSafeKill.  Without it the peer could never be connected to again.
\* (One whose query connection was Forgotten has none.)
KillIsComing ==
  \A v \in Closed :
    ~st.broken /\ ~Forgotten(v)
      => OpsOf(v) # {} \/ HandlersOf(v) # {}

\* The two sides of a search agree: a server that a search waits for has the
\* search, and a server that is up has no search that no longer waits for it.
QueriedAgrees ==
  \A x \in Searches, v \in Made :
    ~st.broken =>
      /\ Active(st, x) /\ v \in st.search[x].queried =>
           x \in st.srv[v].current[IdOf[x]]
      /\ x \in st.srv[v].current[IdOf[x]] /\ st.srv[v].asset =>
           Active(st, x) /\ v \in st.search[x].queried

\* Callbacks of transfers that still have to run.
CallbacksFor(x) ==
  UNION { {<<v, "transfer", i>> : i \in {j \in 1..Len(st.srv[v].transfers) :
                                          st.srv[v].transfers[j] = x}}
          \cup {<<v, "callback", i>> : i \in {j \in 1..Len(st.srv[v].callbacks) :
                                          st.srv[v].callbacks[j] = x}} : v \in Made }
  \cup {<<0, "posted", i>> : i \in {j \in 1..Len(st.io) :
                               st.io[j].run = "noAsset" /\ st.io[j].search = x}}

\* A transfer calls its search back through a bare pointer.  A search that has
\* found its asset waits for exactly one callback, and one that has not, or is
\* over, has none coming.  Searches that a closing server has answered are
\* left out: for them it does not hold (see NoResultAfterFound).
FoundHasOneCallback ==
  \A x \in Searches :
    ~st.broken /\ ~st.search[x].closedOn =>
      Cardinality(CallbacksFor(x)) =
        IF Active(st, x) /\ wasFound(st, x) THEN 1 ELSE 0

\* A response is handed to the search it is for: the code matches responses to
\* requests by order, with two writes, two reads and the queue between them.
ResponseMatchesSearch ==
  \A v \in Made :
    LET ids == {o.id : o \in {o \in OpsOf(v) : o.op = "data"}}
               \cup {st.io[i].id : i \in {i \in HandlersOf(v) :
                      \/ st.io[i].run = "data" /\ st.io[i].res = "ok"
                      \/ st.io[i].run = "header"
                         /\ st.io[i].res \in {"found", "notFound", "error"}}}
    IN ~st.broken /\ st.srv[v].asset /\ ids # {} =>
         /\ st.srv[v].callbacks # <<>>
         /\ ids = {IdOf[Head(st.srv[v].callbacks)]}

\* "BUG: asset already found but search result callback activated"
\* (AssetSearch::onSearchResult): no server reports to a search that has found
\* its asset.
NoResultAfterFound == \A x \in Searches : ~st.search[x].late

\* Every search ends, answered by servers, by the timer or by a close.
SearchEnds ==
  \A x \in Searches : Active(st, x) ~> (~Active(st, x) \/ st.broken)

Connected(p) ==
  LET v == st.remote[p]
  IN v # 0 /\ st.srv[v].asset /\ st.srv[v].conn.isConnected

\* The heartbeat connects to every peer of the settings, and again after every
\* failure, unless the peer's server is one that was Forgotten.
PeersReconnected ==
  \A p \in Peers :
    []<>(\/ st.broken \/ p \notin st.peers \/ Connected(p)
         \/ st.remote[p] # 0 /\ Forgotten(st.remote[p]))

\* "for any peers we're not currently connected or connecting to, initiate a
\* connection" (IntraMeshService::doHeartBeat): a peer of the settings does not
\* stay without any connection.
EveryPeerReconnected ==
  \A p \in Peers :
    LET v == st.remote[p]
    IN []<>(\/ st.broken \/ p \notin st.peers
            \/ v # 0 /\ (st.srv[v].asset \/ st.srv[v].conn.isConnected))
=============================================================================
