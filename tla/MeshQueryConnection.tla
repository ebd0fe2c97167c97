------------------------ MODULE MeshQueryConnection ------------------------
(***************************************************************************)
(* The connections to one server of the mesh, and what other objects ask   *)
(* of them: the query connection (MeshQueryConnection), over which         *)
(* questions go out and answers and heartbeats come in, and the requests   *)
(* of MeshServer on its asset connection.                                  *)
(*                                                                         *)
(* Operations are operators on a record s, the state of the ASIO thread:   *)
(*   srv      the MeshServer objects, in the order they were made;         *)
(*   search   the AssetSearch objects;                                     *)
(*   ops      asynchronous operations that have not completed;             *)
(*   io       handlers the io_service has ready, in order;                 *)
(*   peers    the intramesh peers of the settings;                         *)
(*   clients  the searches that clients of this server will cause;         *)
(*   remote, pending, failed  the tables of IntraMeshService;              *)
(*   dead     objects of srv that have been destroyed;                     *)
(*   broken   a handler or a callback ran on a destroyed object;           *)
(*   faults   failures of the network or a peer that may still come.       *)
(***************************************************************************)
EXTENDS Naturals, Sequences, FiniteSets, SequencesExt

CONSTANTS
  Peers,        \* other servers of the mesh
  Searches,     \* searches that clients may cause
  Ids,          \* ids of assets
  IdOf,         \* the id each search is for
  Scenarios,    \* bound: the peers in the settings, the searches caused, and
                \* how many failures of the network and of peers there are
  MaxServers,   \* bound: MeshServer objects made, one per connection attempt
  Faulty,       \* the peers that may fail
  Late          \* the peers whose heartbeats may stay out

ASSUME MeshAssumption ==
  /\ IdOf \in [Searches -> Ids]
  /\ \A sc \in Scenarios : /\ sc.peers \subseteq Peers
                            /\ sc.clients \subseteq Searches
                            /\ sc.faults \in Nat
  /\ MaxServers \in Nat
  /\ Faulty \subseteq Peers /\ Late \subseteq Peers

\* _sendQueue, _disconnectCallbackFired, ...; wire is what the peer has been
\* asked and has not answered.
NewConnection ==
  [isConnected |-> FALSE, sendActive |-> FALSE, recvActive |-> FALSE,
   sendQueue |-> <<>>, fired |-> FALSE, wire |-> <<>>]

\* A MeshServer.  open is the state of its asset socket, fresh is whether its
\* last heartbeat is younger than HEARTBEAT_TIMEOUT, kill is the safe-kill
\* callback registered.
NewServer(p) ==
  [peer |-> p, asset |-> FALSE, query |-> FALSE, results |-> 0,
   sendActive |-> FALSE, recvActive |-> FALSE,
   transfers |-> <<>>, callbacks |-> <<>>, current |-> [i \in Ids |-> {}],
   open |-> TRUE, wire |-> <<>>, fresh |-> TRUE, kill |-> "none",
   conn |-> NewConnection]

Post(s, h) == [s EXCEPT !.io = Append(@, h)]

----------------------------------------------------------------------------
(* Asynchronous operations of a server object's two sockets.               *)

QueryOps == {"queryConnect", "queryRead", "queryWrite"}

AssetOps == {"handshake", "header", "data", "errorData", "write"}

Writes == {"queryWrite", "write"}

Done(o, r) == [run |-> o.op, srv |-> o.srv, id |-> o.id, res |-> r]

\* An operation on a closed socket fails at once.
Begin(s, v, op, id) ==
  LET o == [srv |-> v, op |-> op, id |-> id]
      up == CASE op = "queryConnect" -> TRUE
              [] op \in QueryOps \ {"queryConnect"} -> s.srv[v].conn.isConnected
              [] op \in AssetOps -> s.srv[v].open
  IN IF up THEN [s EXCEPT !.ops = @ \cup {o}] ELSE Post(s, Done(o, "fail"))

\* Closing a socket makes its operations fail: the read, then the write.
Abort(s, v, kinds) ==
  LET hit == {o \in s.ops : o.srv = v /\ o.op \in kinds}
      seq == SetToSeq({o \in hit : o.op \notin Writes})
             \o SetToSeq({o \in hit : o.op \in Writes})
  IN [s EXCEPT !.ops = @ \ hit,
               !.io = @ \o [i \in 1..Len(seq) |-> Done(seq[i], "fail")]]

----------------------------------------------------------------------------
(* MeshQueryConnection.                                                    *)

listenForMessage(s, v) ==
  Begin([s EXCEPT !.srv[v].conn.recvActive = TRUE], v, "queryRead", <<>>)

sendQuery(s, v, id) ==
  Begin([s EXCEPT !.srv[v].conn.sendActive = TRUE], v, "queryWrite", id)

\* The query is dropped without a word when the connection is gone.
queryFor(s, v, id) ==
  IF ~s.srv[v].conn.isConnected THEN s
  ELSE IF s.srv[v].conn.sendActive
  THEN [s EXCEPT !.srv[v].conn.sendQueue = Append(@, id)]
  ELSE sendQuery(s, v, id)

writeNextMessage(s, v) ==
  LET q == s.srv[v].conn.sendQueue
  IN IF q = <<>> THEN s
     ELSE sendQuery([s EXCEPT !.srv[v].conn.sendQueue = Tail(@)], v, Head(q))

\* The first half of close().
closeQuerySocket(s, v) ==
  IF s.srv[v].conn.isConnected
  THEN Abort([s EXCEPT !.srv[v].conn.isConnected = FALSE,
                       !.srv[v].conn.wire = <<>>], v, QueryOps)
  ELSE s

\* The second half of close(): the disconnect callback runs, once, when no
\* operation of the connection is outstanding.
Disconnects(s, v) ==
  LET c == s.srv[v].conn IN ~c.recvActive /\ ~c.sendActive /\ ~c.fired

----------------------------------------------------------------------------
(* MeshServer: searches and transfers.                                     *)

isTimedOut(s, v) == ~s.srv[v].asset \/ ~s.srv[v].fresh

\* search(): a search for an id that has been asked for already joins it.  The
\* negative answer of a server that is not established is left out: its one
\* caller, initiateSearch, has just seen that the server is not timed out.
ask(s, v, x) ==
  LET id == IdOf[x]
      t == [s EXCEPT !.srv[v].current[id] = @ \cup {x}]
  IN IF s.srv[v].current[id] = {} THEN queryFor(t, v, id) ELSE t

\* Mutant: a search that is over stays with the server it asked.
CancelNothing(s, v, x) == s

cancelSearch(s, v, x) == [s EXCEPT !.srv[v].current[IdOf[x]] = @ \ {x}]

sendGetRequest(s, v, x) ==
  Begin([s EXCEPT !.srv[v].sendActive = TRUE,
                  !.srv[v].callbacks = Append(@, x)], v, "write", IdOf[x])

\* Without a connection the callback is posted with no asset, and the request
\* is sent or queued all the same.
getAsset(s, v, x) ==
  LET t == IF s.srv[v].asset THEN s
           ELSE Post(s, [run |-> "noAsset", search |-> x])
  IN IF t.srv[v].sendActive
     THEN [t EXCEPT !.srv[v].transfers = Append(@, x)]
     ELSE sendGetRequest(t, v, x)
=============================================================================
