------------------------ MODULE IntraMeshQueryClient ------------------------
(***************************************************************************)
(* The incoming side of the mesh: the query connections of peers           *)
(* (IntraMeshQueryClient), the accepting of them and the heartbeats that   *)
(* IntraMeshService sends over them.                                       *)
(*                                                                         *)
(* A connection answers one query at a time: the next read starts when the *)
(* answer has been sent.  Answers and heartbeats share one send; what      *)
(* comes while one is under way waits in _pendingSends.                    *)
(***************************************************************************)
EXTENDS Naturals, Sequences, FiniteSets, Functions

CONSTANTS
  Clients,      \* query connections that peers may make
  Ids,          \* ids of assets
  MaxQueries,   \* bound: messages sent on each connection by its peer
  MaxPending,   \* bound: no heartbeat is sent with this many in _pendingSends
  MaxFaults     \* bound: failures of the network and of peers

ASSUME QueryAssumption ==
  /\ IsFiniteSet(Clients) /\ MaxQueries \in [Clients -> Nat]
  /\ MaxPending \in Nat /\ MaxFaults \in Nat /\ "fail" \notin Ids

VARIABLES
  client,       \* the IntraMeshQueryClient objects
  connected,    \* _connectedClients
  io,           \* handlers the io_service has ready, in order
  exists,       \* ids for which the disk backend's assetExists is true
  sent, got,    \* history: queries a peer sent, answers it received
  down,         \* an exception left a handler: the server shuts down
  faults

vars == <<client, connected, io, exists, sent, got, down, faults>>

\* reading and sending are the operations outstanding ("no" for none); inbox is
\* what the peer sent and the server has not read; torn: part of a message was
\* sent and the rest was not, which the peer cannot tell from a whole one.
NewClient ==
  [open |-> TRUE, sendActive |-> FALSE, recvActive |-> FALSE,
   pendingSends |-> <<>>, reading |-> FALSE, sending |-> <<>>,
   inbox |-> <<>>, torn |-> FALSE]

----------------------------------------------------------------------------
(* The connection, as operators on s: its record (c) and the handlers it   *)
(* queues (io), and whether it asks to be taken out of the table (gone).   *)

Begin(s, event) == [s EXCEPT !.io = Append(@, event)]

ReadFailed(x) == [run |-> "read", client |-> x, res |-> "fail"]

SendFailed(x, m) == [run |-> "send", client |-> x, msg |-> m, res |-> "fail"]

listenForMeshMessage(s, x) ==
  IF s.c.open THEN [s EXCEPT !.c.recvActive = TRUE, !.c.reading = TRUE]
  ELSE Begin([s EXCEPT !.c.recvActive = TRUE], ReadFailed(x))

\* async_send of a message.
startSend(s, x, m) ==
  IF s.c.open THEN [s EXCEPT !.c.sendActive = TRUE, !.c.sending = <<m>>]
  ELSE Begin([s EXCEPT !.c.sendActive = TRUE], SendFailed(x, m))

\* sendQueryResponse and sendHeartbeat.
send(s, x, m) ==
  IF s.c.sendActive THEN [s EXCEPT !.c.pendingSends = Append(@, m)]
  ELSE startSend(s, x, m)

processQueuedSend(s, x) ==
  IF s.c.pendingSends = <<>> THEN s
  ELSE startSend([s EXCEPT !.c.pendingSends = Tail(@)], x,
                 Head(s.c.pendingSends))

\* Mutant: close() does not wait for a send that is under way.
ActiveRead(c) == c.recvActive

connectionActive(c) == c.sendActive \/ c.recvActive

\* The operations of the socket fail; queryClientDisconnected when none is
\* outstanding.
close(s, x) ==
  LET t == IF s.c.reading THEN Begin(s, ReadFailed(x)) ELSE s
      u == IF s.c.sending # <<>> THEN Begin(t, SendFailed(x, Head(s.c.sending)))
           ELSE t
  IN [u EXCEPT !.c.open = FALSE, !.c.reading = FALSE, !.c.sending = <<>>,
               !.gone = @ \/ ~connectionActive(s.c)]

\* processMeshQuery; assetExists may throw (error).
processMeshQuery(s, x, id, error) ==
  send(s, x, [kind |-> IF error THEN "error"
                       ELSE IF id \in exists THEN "found" ELSE "notFound",
              id |-> id])

\* onMeshMessageReceived, processIntrameshMessage: anything but a valid query
\* closes the connection.
onMeshMessageReceived(s, x, res, error) ==
  LET t == [s EXCEPT !.c.recvActive = FALSE]
  IN IF res \in Ids THEN processMeshQuery(t, x, res, error) ELSE close(t, x)

onAfterSendQueryResponse(s, x, ok) ==
  LET t == [s EXCEPT !.c.sendActive = FALSE]
  IN IF ok THEN processQueuedSend(listenForMeshMessage(t, x), x)
     ELSE close(t, x)

\* Mutant: the end of a heartbeat does not start the send that waits.
HeartbeatEndsSends(s, x, ok) ==
  LET t == [s EXCEPT !.c.sendActive = FALSE]
  IN IF ok THEN t ELSE close(t, x)

\* Mutant: the end of a heartbeat listens for a query, as that of an answer does.
HeartbeatListens(s, x, ok) == onAfterSendQueryResponse(s, x, ok)

onAfterSendHeartbeat(s, x, ok) ==
  LET t == [s EXCEPT !.c.sendActive = FALSE]
  IN IF ok THEN processQueuedSend(t, x) ELSE close(t, x)

----------------------------------------------------------------------------
(* The handlers.                                                           *)

Init ==
  /\ client = [x \in Clients |-> NewClient]
  /\ connected = {} /\ io = <<>> /\ down = FALSE /\ faults = 0
  /\ exists \in SUBSET Ids
  /\ sent = [x \in Clients |-> <<>>] /\ got = [x \in Clients |-> <<>>]

Unaccepted == {x \in Clients : client[x] = NewClient /\ x \notin connected}

State(x) == [c |-> client[x], io |-> io, gone |-> FALSE]

\* s is the state of connection x when the handler returns.
Effect(x, s) ==
  /\ client' = [client EXCEPT ![x] = s.c]
  /\ io' = s.io
  /\ connected' = IF s.gone THEN connected \ {x} ELSE connected

\* handleAfterAccept: the connection of a server that is not a peer is closed.
\* Asking for the address of a connection that is gone already throws.
handleAfterAccept(x) ==
  /\ ~down /\ x \in Unaccepted
  /\ \/ /\ client' = [client EXCEPT ![x] = listenForMeshMessage(State(x), x).c]
        /\ connected' = connected \cup {x}
        /\ UNCHANGED <<io, exists, sent, got, down, faults>>
     \/ /\ Effect(x, close(State(x), x))
        /\ UNCHANGED <<exists, sent, got, down, faults>>
     \/ /\ faults < MaxFaults /\ faults' = faults + 1
        /\ down' = TRUE
        /\ UNCHANGED <<client, connected, io, exists, sent, got>>

Taken(x) == [State(x) EXCEPT !.io = Tail(@)]

ReadDone ==
  /\ ~down /\ io # <<>> /\ Head(io).run = "read"
  /\ LET x == Head(io).client
     IN \E error \in BOOLEAN :
          /\ error => faults < MaxFaults /\ Head(io).res \in Ids
          /\ faults' = IF error THEN faults + 1 ELSE faults
          /\ Effect(x, onMeshMessageReceived(Taken(x), x, Head(io).res, error))
  /\ UNCHANGED <<exists, sent, got, down>>

SendDone ==
  /\ ~down /\ io # <<>> /\ Head(io).run = "send"
  /\ LET x == Head(io).client
         ok == Head(io).res = "ok"
     IN Effect(x, IF Head(io).msg.kind = "heartbeat"
                  THEN onAfterSendHeartbeat(Taken(x), x, ok)
                  ELSE onAfterSendQueryResponse(Taken(x), x, ok))
  /\ UNCHANGED <<exists, sent, got, down, faults>>

\* Mutant: connections that are closed get no heartbeat.
OpenClients == {x \in connected : client[x].open}

HeartbeatTo == connected

Heartbeat == [kind |-> "heartbeat"]

\* Connections that are closed and idle: the heartbeat fails at once.
FindClosed == {x \in HeartbeatTo : ~client[x].open /\ ~client[x].sendActive}

\* doHeartBeat: a heartbeat to every connected client, in the order of a set
\* of pointers.
doHeartBeat ==
  /\ ~down /\ HeartbeatTo # {}
  /\ \A x \in connected : Len(client[x].pendingSends) < MaxPending
  /\ client' = [x \in Clients |-> IF x \in HeartbeatTo
                                  THEN send(State(x), x, Heartbeat).c
                                  ELSE client[x]]
  /\ \E order \in Bijection(1..Cardinality(FindClosed), FindClosed) :
       io' = io \o [i \in 1..Cardinality(FindClosed) |->
                     SendFailed(order[i], Heartbeat)]
  /\ UNCHANGED <<connected, exists, sent, got, down, faults>>

----------------------------------------------------------------------------
(* The network, the peers and the disk.                                    *)

\* A peer sends a query for an id, or, as a failure, something else.
PeerSends(x) ==
  /\ ~down /\ x \in connected /\ client[x].open
  /\ Len(sent[x]) < MaxQueries[x]
  /\ \E m \in Ids \cup {"invalid"} :
       /\ m = "invalid" => faults < MaxFaults
       /\ faults' = IF m = "invalid" THEN faults + 1 ELSE faults
       /\ client' = [client EXCEPT ![x].inbox = Append(@, m)]
       /\ sent' = [sent EXCEPT ![x] = Append(@, m)]
  /\ UNCHANGED <<connected, io, exists, got, down>>

ReadCompletes(x) ==
  /\ ~down /\ client[x].reading /\ client[x].inbox # <<>>
  /\ client' = [client EXCEPT ![x].reading = FALSE, ![x].inbox = Tail(@)]
  /\ io' = Append(io, [run |-> "read", client |-> x,
                       res |-> Head(client[x].inbox)])
  /\ UNCHANGED <<connected, exists, sent, got, down, faults>>

ReadFails(x) ==
  /\ ~down /\ client[x].reading
  /\ faults < MaxFaults /\ faults' = faults + 1
  /\ client' = [client EXCEPT ![x].reading = FALSE]
  /\ io' = Append(io, [run |-> "read", client |-> x, res |-> "fail"])
  /\ UNCHANGED <<connected, exists, sent, got, down>>

\* async_send may send less than it was given; the handlers take that for
\* success.
SendCompletes(x) ==
  /\ ~down /\ client[x].sending # <<>>
  /\ LET m == Head(client[x].sending)
     IN \E r \in {"ok", "short", "fail"} :
          /\ r # "ok" => faults < MaxFaults
          /\ faults' = IF r = "ok" THEN faults ELSE faults + 1
          /\ client' = [client EXCEPT ![x].sending = <<>>,
                                      ![x].torn = @ \/ r = "short"]
          /\ io' = Append(io, [run |-> "send", client |-> x, msg |-> m,
                               res |-> IF r = "fail" THEN r ELSE "ok"])
          /\ got' = IF r = "ok" /\ m.kind # "heartbeat"
                    THEN [got EXCEPT ![x] = Append(@, m)] ELSE got
  /\ UNCHANGED <<connected, exists, sent, down>>

\* The backend stores an asset.
Stored ==
  /\ exists' \in SUBSET Ids /\ exists # exists' /\ exists \subseteq exists'
  /\ UNCHANGED <<client, connected, io, sent, got, down, faults>>

Next ==
  \/ ReadDone \/ SendDone \/ doHeartBeat \/ Stored
  \/ \E x \in Clients : \/ handleAfterAccept(x) \/ PeerSends(x)
                        \/ ReadCompletes(x) \/ ReadFails(x) \/ SendCompletes(x)

Spec == Init /\ [][Next]_vars

\* Handlers run, the heartbeat timer expires, reads of what has arrived and
\* sends complete: weak fairness, with what enables the handlers and the timer
\* written out.
HandlersRun == []<>(io = <<>> \/ down) \/ []<><<ReadDone \/ SendDone>>_vars

HeartbeatRuns ==
  \/ []<>(down \/ HeartbeatTo = {}
            \/ \E x \in connected : Len(client[x].pendingSends) >= MaxPending)
  \/ []<><<doHeartBeat>>_vars

Fairness ==
  /\ HandlersRun /\ HeartbeatRuns
  /\ \A x \in Clients : WF_vars(ReadCompletes(x)) /\ WF_vars(SendCompletes(x))

FairSpec == Spec /\ Fairness

----------------------------------------------------------------------------
(* Properties.                                                             *)

Handlers(x, run) == {i \in 1..Len(io) : io[i].run = run /\ io[i].client = x}

AtMostOne(S) == \A i, j \in S : i = j

\* The handlers of a connection hold a bare pointer to it, and close() decides
\* by two flags whether the table may let it go.  The flags say what is
\* outstanding, there is never more than one read and one send of a socket,
\* and none of a connection that has left the table.
FlagsCountOperations ==
  \A x \in Clients :
    LET c == client[x]
        read == Handlers(x, "read")
        sends == Handlers(x, "send")
    IN /\ AtMostOne(read) /\ AtMostOne(sends) /\ Len(c.sending) <= 1
       /\ ~(c.reading /\ read # {}) /\ ~(c.sending # <<>> /\ sends # {})
       /\ c.recvActive <=> c.reading \/ read # {}
       /\ c.sendActive <=> c.sending # <<>> \/ sends # {}
       /\ x \notin connected => ~c.recvActive /\ ~c.sendActive

\* A peer gets the answers to its queries in the order of the queries, each
\* once, whatever heartbeats are sent between them, and the connection listens
\* for the next query only when all it has read are answered: at most one answer
\* waits in _pendingSends.  (A short send loses one.)
AnswersInOrder ==
  \A x \in Clients :
    ~client[x].torn =>
      /\ Len(got[x]) <= Len(sent[x])
      /\ \A i \in 1..Len(got[x]) : got[x][i].id = sent[x][i]
      /\ client[x].open /\ client[x].reading => Len(got[x]) + Len(client[x].inbox) = Len(sent[x])

\* A connection that closed leaves the table.  When its read failed during a
\* heartbeat that then went out, only the next heartbeat finds that out.
ClosedIsRemoved ==
  \A x \in Clients :
    x \in connected /\ ~client[x].open ~> x \notin connected \/ down

\* Every query is answered unless its connection closes.
QueriesAnswered ==
  \A x \in Clients : \A n \in 1..MaxQueries[x] :
    Len(sent[x]) >= n ~> Len(got[x]) >= n \/ ~client[x].open \/ client[x].torn \/ down
=============================================================================
