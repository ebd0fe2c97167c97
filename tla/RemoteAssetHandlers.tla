------------------------ MODULE RemoteAssetHandlers ------------------------
(***************************************************************************)
(* The handlers of a RemoteAssetService connection, and what completes the *)
(* operations they are for.  The callbacks the owner registers are the     *)
(* constants; each maps the state of the owner's thread to a new one.      *)
(***************************************************************************)
EXTENDS RemoteAssetService

CONSTANTS
  Answer(_, _, _),  \* Answer(s, req, r): request req is answered with r: "ok",
                    \* or a non-fatal "error" or a "fatal" RASError
  Status(_, _),     \* Status(s, ok): the outcome of connect()
  Kill(_),          \* the safe-kill callback
  Responses(_)      \* Responses(req): what the other server may answer

----------------------------------------------------------------------------
(* Connecting and closing.                                                 *)

onConnectionResult(s, ok) ==
  LET t == Status([s EXCEPT !.svc.established = ok], ok)
  IN IF t.svc.established THEN listenForServerResponses(t) ELSE t

\* The next step of the handshake.  When close() came in between, onConnect
\* sets an option of a closed socket, which throws; the other steps go on with
\* an operation that fails.
nextStage(s) ==
  LET shut == s.svc.socket = "closed"
  IN Start([s EXCEPT !.svc.stage = @ + 1,
                     !.svc.socket = IF shut THEN @ ELSE "open",
                     !.broken = @ \/ (shut /\ s.svc.stage = 1)], "connect")

\* onConnect, onRecvChallenge, onChallengeResponseWrite and
\* onAuthenticationStatus: the next step, or the result.
onHandshake(s, ok) ==
  IF ok /\ HandshakeGoesOn(s) THEN nextStage(s) ELSE onConnectionResult(s, ok)

checkSafeKill(s) == IF SafeToKill(s) THEN Kill(s) ELSE s

closeStep(s) ==
  IF s.closing = "transfers" /\ s.svc.transfers # <<>>
  THEN LET t == Answer(s, Head(s.svc.transfers), "fatal")
       IN [t EXCEPT !.svc.transfers = Tail(@)]
  ELSE IF s.svc.callbacks # <<>>
  THEN LET t == Answer([s EXCEPT !.closing = "callbacks"],
                       Head(s.svc.callbacks), "fatal")
       IN popCallback(t)
  ELSE checkSafeKill([s EXCEPT !.closing = "no"])

onAfterWriteAssetRequest(s, ok) ==
  LET t == [s EXCEPT !.svc.sendActive = FALSE]
  IN IF ok
     THEN checkSafeKill(IF t.svc.established /\ t.svc.transfers # <<>>
                        THEN doNextQueuedRequest(t) ELSE t)
     ELSE close(t)

----------------------------------------------------------------------------
(* Responses.                                                              *)

\* The response answers the request at the head of the callback queue, which
\* the code asserts (BOOST_ASSERT) is not empty.  A callback that closes the
\* connection empties the queue in front of the pop().  Only one that is given an
\* error does: after "ok" no owner is in a step that looks at its setting, so the
\* test for an empty queue in onReadResponseData never matters.
AnswerHead(s, r) ==
  IF s.svc.callbacks = <<>> THEN [s EXCEPT !.broken = TRUE]
  ELSE LET t == Answer(s, Head(s.svc.callbacks), r)
       IN IF t.closing # "no" THEN [t EXCEPT !.broken = TRUE]
          ELSE listenForServerResponses(popCallback(t))

onReadResponseHeader(s, ok) ==
  LET t == [s EXCEPT !.svc.recvActive = FALSE]
      kind == s.response.kind
  IN CASE ~ok \/ kind = "corrupt"      -> close(t)
       [] ok /\ kind \in {"ok", "mismatch"} -> Start(s, "data")
       [] ok /\ kind = "errorData"     -> Start(s, "errorData")
       [] ok /\ kind = "error"         -> AnswerHead(t, "error")

\* handleConfirmation, handleAssetReturned, handleDataReturned: only a returned
\* asset is compared with the request at the head (checked).
onReadResponseData(s, ok, checked) ==
  LET t == [s EXCEPT !.svc.recvActive = FALSE]
      match == /\ s.response.kind = "ok"
               /\ checked => s.response.to = Head(s.svc.callbacks)
  IN CASE ~ok \/ ~s.svc.established -> close(t)
       [] ok /\ s.svc.established /\ s.svc.callbacks = <<>> ->
            [t EXCEPT !.broken = TRUE]
       [] ok /\ s.svc.established /\ s.svc.callbacks # <<>> ->
            IF match THEN AnswerHead(t, "ok") ELSE close(t)

onHandleRequestErrorData(s, ok) ==
  LET t == [s EXCEPT !.svc.recvActive = FALSE]
  IN IF ok THEN AnswerHead(t, "error") ELSE close(t)

----------------------------------------------------------------------------
(* The network and the other server.  An operation on a socket that is     *)
(* open completes well or fails.  On a closed one it fails at once: its    *)
(* handler is queued, in any order with those of other operations, before  *)
(* the thread runs another handler.                                        *)

AbortsQueued(s) == s.svc.socket = "closed" => s.ops = {}

\* cost is the number of faults a completion is: what names the fault.
Completion(s, t, op, h, what, cost) ==
  /\ op \in s.ops
  /\ cost > 0 => what \in Faulty /\ s.faults + cost <= MaxFaults
  /\ t = [Post(s, h) EXCEPT !.ops = @ \ {op}, !.faults = @ + cost]

Fails(s, ok) == IF ok \/ s.svc.socket = "closed" THEN 0 ELSE 1

\* connect() on a socket that an earlier handshake left connected fails with
\* "already connected".
ConnectCompletes(s, t) ==
  \E ok \in BOOLEAN :
    LET blocked == s.svc.stage = 1 /\ s.svc.socket = "open"
    IN /\ ok => s.svc.socket # "closed" /\ ~blocked
       /\ Completion(s, t, "connect", [run |-> "connect", ok |-> ok],
                     IF s.svc.stage = 1 THEN "connect" ELSE "handshake",
                     IF blocked THEN 0 ELSE Fails(s, ok))

WriteCompletes(s, t) ==
  \E ok \in BOOLEAN :
    /\ ok => s.svc.socket = "open"
    /\ Completion(s, t, "write", [run |-> "write", ok |-> ok], "write",
                  Fails(s, ok))

\* A response header arrives for the oldest request the other server has.
HeaderCompletes(s, t) ==
  \/ /\ s.svc.socket = "open" /\ s.wire # <<>>
     /\ \E k \in Responses(Head(s.wire)) :
          Completion([s EXCEPT !.wire = Tail(@),
                               !.response = [kind |-> k, to |-> Head(s.wire)]],
                     t, "header", [run |-> "header", ok |-> TRUE],
                     "response", IF k = "ok" THEN 0 ELSE 1)
  \/ Completion(s, t, "header", [run |-> "header", ok |-> FALSE], "header",
                Fails(s, FALSE))

BodyCompletes(s, t) ==
  \E op \in {"data", "errorData"}, ok \in BOOLEAN :
    /\ ok => s.svc.socket = "open"
    /\ Completion(s, t, op, [run |-> op, ok |-> ok], op, Fails(s, ok))
=============================================================================
