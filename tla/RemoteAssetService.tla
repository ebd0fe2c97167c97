------------------------- MODULE RemoteAssetService -------------------------
(***************************************************************************)
(* A client connection to another asset server (RemoteAssetService): the   *)
(* handshake, requests written one at a time, responses matched to         *)
(* requests by their order, and the close that fails whatever waits.       *)
(*                                                                         *)
(* The operations are operators on a record s, the state of the thread     *)
(* that owns the connection; the owner adds fields of its own.  The        *)
(* handlers, which call back, are in RemoteAssetHandlers.  The fields:     *)
(*   svc      the members of the object, and the state of its socket;      *)
(*   ops      asynchronous operations that have not completed;             *)
(*   io       handlers the io_service has ready, in order;                 *)
(*   wire     requests the other server has and has not answered;          *)
(*   response the response being read: its kind and the request it is to;  *)
(*   closing  where close() is between two callbacks, or "no";             *)
(*   broken   the code has left its defined behaviour: front() or pop() of *)
(*            an empty queue, a null object, two handshakes on one socket; *)
(*   faults   failures of the network or the other server so far.          *)
(***************************************************************************)
EXTENDS Naturals, Sequences

CONSTANTS
  MaxFaults,   \* bound: failures of the network and the other server
  Faulty       \* what may fail: operations of the socket, "response" (the
               \* other server answers with an error), "store" (the disk)

ASSUME FaultAssumption ==
  /\ MaxFaults \in Nat
  /\ Faulty \subseteq {"connect", "handshake", "write", "header", "data",
                      "errorData", "response", "store"}

\* The asynchronous steps of connect(), in order.
Stages == <<"connect", "recvChallenge", "writeResponse", "authStatus">>

NewService ==
  [established |-> FALSE, sendActive |-> FALSE, recvActive |-> FALSE,
   transfers |-> <<>>, callbacks |-> <<>>, socket |-> "new", stage |-> 1]

Post(s, h) == [s EXCEPT !.io = Append(@, h)]

Start(s, op) == [s EXCEPT !.ops = @ \cup {op}]

----------------------------------------------------------------------------
(* Connecting.                                                             *)

\* An attempt to connect is under way.
Connecting(s) ==
  "connect" \in s.ops \/ \E i \in 1..Len(s.io) : s.io[i].run = "connect"

\* async_connect opens a closed socket.  A second connect while one is under
\* way would run two handshakes on one socket.
connect(s) ==
  Start([s EXCEPT !.svc.stage = 1,
                  !.svc.socket = IF @ = "closed" THEN "new" ELSE @,
                  !.broken = @ \/ Connecting(s)], "connect")

listenForServerResponses(s) ==
  Start([s EXCEPT !.svc.recvActive = TRUE], "header")

HandshakeGoesOn(s) == s.svc.stage < Len(Stages)

----------------------------------------------------------------------------
(* Requests.                                                               *)

\* sendGetRequest, sendPutRequest, sendAssetIdsRequest.
send(s, req) ==
  Start([s EXCEPT !.svc.sendActive = TRUE,
                  !.svc.callbacks = Append(@, req),
                  !.wire = IF s.svc.socket = "open" THEN Append(@, req) ELSE @],
        "write")

\* Mutant: a request made while another is being written is dropped.
DropWhileSending(s, req) == IF s.svc.sendActive THEN s ELSE send(s, req)

\* getAsset, putAsset, getStoredAssetIDsWithPrefix: without a connection the
\* request is answered with an error, and then sent or queued all the same.
request(s, req) ==
  LET t == IF s.svc.established THEN s
           ELSE Post(s, [run |-> "notEstablished", req |-> req])
  IN IF t.svc.sendActive
     THEN [t EXCEPT !.svc.transfers = Append(@, req)]
     ELSE send(t, req)

doNextQueuedRequest(s) ==
  LET t == request(s, Head(s.svc.transfers))
  IN [t EXCEPT !.svc.transfers = Tail(@)]

\* Mutant: the request that was answered stays at the head of the queue.
KeepCallback(s) == s

popCallback(s) == [s EXCEPT !.svc.callbacks = Tail(@)]

----------------------------------------------------------------------------
(* Closing.  The callbacks close() runs may make new requests, so each is  *)
(* a step of its own; no other handler runs between them.                  *)

\* Mutant: a read that is outstanding does not keep the object.
KillIgnoresRecv(s) == ~s.svc.established /\ ~s.svc.sendActive

SafeToKill(s) ==
  ~s.svc.established /\ ~s.svc.recvActive /\ ~s.svc.sendActive

close(s) ==
  [s EXCEPT !.svc.socket = "closed", !.svc.established = FALSE, !.wire = <<>>,
            !.closing = "transfers"]
=============================================================================
