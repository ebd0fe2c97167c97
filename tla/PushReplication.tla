--------------------------- MODULE PushReplication ---------------------------
(***************************************************************************)
(* PushReplicationService: the thread that sends every newly stored asset  *)
(* to the replication slave, over one RemoteAssetService connection that a *)
(* timer (the connection monitor) makes, replaces and closes.              *)
(*                                                                         *)
(* st is the state of the thread and of the connection it owns (see        *)
(* RemoteAssetService), with these fields of its own:                      *)
(*   connected, sending, waiting, stop    members of the class;            *)
(*   endpoint   _replicationSlaveEndpoint;                                 *)
(*   target     the endpoint the current connection object was made with;  *)
(*   monitor    the connection monitor has a wait outstanding.             *)
(* slave is the setting replication_slave, unqueued the assets not yet     *)
(* handed to the service, reloads and stops count what bounds limit.       *)
(***************************************************************************)
EXTENDS RemoteAssetService, FiniteSets

CONSTANTS
  Assets,         \* assets stored while the server runs, each pushed once
  Slaves,         \* endpoints the setting may name
  None,           \* the empty setting, and the endpoint before the first
  MAX_QUEUE_SIZE, \* 250 in the code
  MaxReloads,     \* bound: changes of the setting
  MaxStops        \* 1: the server may be stopped; 0: it is not

ASSUME PushAssumption ==
  /\ Slaves # {} /\ None \notin Slaves /\ MAX_QUEUE_SIZE \in Nat
  /\ MaxReloads \in Nat /\ MaxStops \in {0, 1}

VARIABLES st, slave, unqueued, reloads, stops
vars == <<st, slave, unqueued, reloads, stops>>

\* Which slave is named first does not matter.
Init ==
  /\ st = [svc |-> NewService, ops |-> {}, io |-> <<>>, wire |-> <<>>,
           response |-> [kind |-> "none", to |-> None], closing |-> "no",
           broken |-> FALSE, faults |-> 0,
           connected |-> FALSE, sending |-> FALSE, waiting |-> <<>>,
           stop |-> FALSE, endpoint |-> None, target |-> None,
           monitor |-> TRUE]
  /\ slave \in {CHOOSE e \in Slaves : TRUE, None}
  /\ unqueued = Assets /\ reloads = 0 /\ stops = 0

----------------------------------------------------------------------------
(* The methods of the service.                                             *)

\* Setting the timer cancels a wait that is outstanding; the handler of a
\* cancelled wait runs too (it does not look at its error code).
resetConnectionMonitor(s) ==
  IF s.stop THEN s
  ELSE [(IF s.monitor THEN Post(s, [run |-> "monitor"]) ELSE s)
          EXCEPT !.monitor = TRUE]

\* The object that is replaced is destroyed.
makeConnection(s) ==
  connect([s EXCEPT !.svc = NewService, !.target = s.endpoint])

onServiceConnectionStatus(s, ok) ==
  resetConnectionMonitor(IF ok THEN [s EXCEPT !.connected = TRUE] ELSE s)

onSafeKillConnection(s) ==
  [s EXCEPT !.connected = FALSE, !.sending = FALSE, !.waiting = <<>>]

doPutAsset(s, a) ==
  IF s.stop THEN s ELSE request([s EXCEPT !.sending = TRUE], a)

\* Mutant: assets go out as they come, without waiting for each other.
PutAtOnce(s, a) ==
  IF ~s.connected \/ s.stop THEN s ELSE doPutAsset(s, a)

doQueueAssetForPush(s, a) ==
  IF ~s.connected \/ s.stop THEN s
  ELSE IF ~s.sending THEN doPutAsset(s, a)
  ELSE IF Len(s.waiting) > MAX_QUEUE_SIZE THEN s
  ELSE [s EXCEPT !.waiting = Append(@, a)]

pushNextWaitingAsset(s) ==
  IF s.connected /\ ~s.stop /\ s.waiting # <<>>
  THEN doPutAsset([s EXCEPT !.waiting = Tail(@)], Head(s.waiting))
  ELSE s

\* Mutant: a failed put does not send the next asset.
NextOnlyOnSuccess(s, a, r) ==
  IF r = "ok" THEN pushNextWaitingAsset([s EXCEPT !.sending = FALSE])
  ELSE [s EXCEPT !.sending = FALSE]

onAfterAssetPut(s, a, r) == pushNextWaitingAsset([s EXCEPT !.sending = FALSE])

\* Mutant: after the close nothing checks the connection again.
ChangeForgetsMonitor(s, ep) ==
  LET t == [s EXCEPT !.endpoint = ep]
  IN IF t.connected THEN close(t) ELSE makeConnection(t)

\* close() runs its callbacks in the steps that follow; none of them touches
\* the monitor, so setting it first is the same.
endpointChanged(s, ep) ==
  LET t == [s EXCEPT !.endpoint = ep]
  IN IF t.connected THEN close(resetConnectionMonitor(t)) ELSE makeConnection(t)

onCheckConnection(s, setting) ==
  IF s.stop THEN s
  ELSE IF setting # None
  THEN IF setting # s.endpoint THEN endpointChanged(s, setting)
       ELSE IF ~s.connected THEN makeConnection(s)
       ELSE resetConnectionMonitor(s)
  ELSE IF s.connected THEN close(resetConnectionMonitor(s))
  ELSE resetConnectionMonitor(s)

\* Mutant: the connection is left to the slave to close.
StopKeepsConnection(s) == [s EXCEPT !.stop = TRUE]

doStop(s) ==
  LET t == [s EXCEPT !.stop = TRUE] IN IF t.connected THEN close(t) ELSE t

\* The answers a slave gives to a put.
Responses(a) == {"ok", "error", "errorData", "corrupt"}

Service == INSTANCE RemoteAssetHandlers WITH
  Answer <- onAfterAssetPut, Status <- onServiceConnectionStatus,
  Kill <- onSafeKillConnection

----------------------------------------------------------------------------
(* The handlers of the thread, run one at a time in the order they became  *)
(* ready.                                                                  *)

Ready(run) == /\ st.io # <<>> /\ Head(st.io).run = run
              /\ ~st.broken /\ st.closing = "no" /\ Service!AbortsQueued(st)

Taken == [st EXCEPT !.io = Tail(@)]

Unchanged == UNCHANGED <<slave, unqueued, reloads, stops>>

Handshake ==
  /\ Ready("connect") /\ Unchanged
  /\ st' = Service!onHandshake(Taken, Head(st.io).ok)

Written ==
  /\ Ready("write") /\ Unchanged
  /\ st' = Service!onAfterWriteAssetRequest(Taken, Head(st.io).ok)

HeaderRead ==
  /\ Ready("header") /\ Unchanged
  /\ st' = Service!onReadResponseHeader(Taken, Head(st.io).ok)

DataRead ==
  /\ Ready("data") /\ Unchanged
  /\ st' = Service!onReadResponseData(Taken, Head(st.io).ok, FALSE)

ErrorDataRead ==
  /\ Ready("errorData") /\ Unchanged
  /\ st' = Service!onHandleRequestErrorData(Taken, Head(st.io).ok)

NotEstablished ==
  /\ Ready("notEstablished") /\ Unchanged
  /\ st' = onAfterAssetPut(Taken, Head(st.io).req, "error")

Queue ==
  /\ Ready("queue") /\ Unchanged
  /\ st' = doQueueAssetForPush(Taken, Head(st.io).asset)

CheckConnection ==
  /\ Ready("monitor") /\ Unchanged
  /\ st' = onCheckConnection(Taken, slave)

Stopping == Ready("stop") /\ st' = doStop(Taken) /\ Unchanged

Closing ==
  /\ ~st.broken /\ st.closing # "no" /\ Unchanged
  /\ st' = Service!closeStep(st)

Handler ==
  \/ Handshake \/ Written \/ HeaderRead \/ DataRead \/ ErrorDataRead
  \/ NotEstablished \/ Queue \/ CheckConnection \/ Stopping \/ Closing

----------------------------------------------------------------------------
(* The timer, the network, and the other threads.                          *)

MonitorExpires ==
  /\ st.monitor /\ Unchanged
  /\ st' = [Post(st, [run |-> "monitor"]) EXCEPT !.monitor = FALSE]

Network ==
  /\ Unchanged
  /\ \/ Service!ConnectCompletes(st, st')
     \/ Service!WriteCompletes(st, st')
     \/ Service!HeaderCompletes(st, st')
     \/ Service!BodyCompletes(st, st')

\* The service treats all assets alike, so the order they come in is fixed.
queueAssetForPush(a) ==
  /\ a \in unqueued /\ a = CHOOSE b \in unqueued : TRUE
  /\ unqueued' = unqueued \ {a}
  /\ st' = Post(st, [run |-> "queue", asset |-> a])
  /\ UNCHANGED <<slave, reloads, stops>>

\* The mesh heartbeat reloads the settings.
Reload ==
  /\ reloads < MaxReloads /\ reloads' = reloads + 1
  /\ slave' \in (Slaves \cup {None}) \ {slave}
  /\ UNCHANGED <<st, unqueued, stops>>

stop ==
  /\ stops < MaxStops /\ stops' = stops + 1
  /\ st' = Post(st, [run |-> "stop"])
  /\ UNCHANGED <<slave, unqueued, reloads>>

Next ==
  \/ Handler \/ MonitorExpires \/ Network
  \/ \E a \in Assets : queueAssetForPush(a)
  \/ Reload \/ stop

Spec == Init /\ [][Next]_vars

\* Weak fairness of Handler and of MonitorExpires, with what enables them
\* written out.
HandlersRun ==
  \/ []<>(\/ st.broken
          \/ st.closing = "no" /\ (st.io = <<>> \/ ~Service!AbortsQueued(st)))
  \/ []<><<Handler>>_vars

TimerRuns == []<>~st.monitor \/ []<><<MonitorExpires>>_vars

\* The thread runs its handlers, the timer expires, and every operation on a
\* socket completes or fails.
Fairness == HandlersRun /\ TimerRuns /\ WF_vars(Network)

FairSpec == Spec /\ Fairness

----------------------------------------------------------------------------
(* Properties.                                                             *)

ServiceRuns == {"connect", "write", "header", "data", "errorData"}

HandlerIn(runs) == \E i \in 1..Len(st.io) : st.io[i].run \in runs

\* On a connection that is up, at most one put is between doPutAsset and
\* onAfterAssetPut, and sending says whether there is one: the pushes of
\* the queue never overlap.
OneInFlight ==
  st.svc.established /\ st.closing = "no" /\ ~st.broken =>
    /\ Len(st.svc.callbacks) + Len(st.svc.transfers) = IF st.sending THEN 1 ELSE 0
    /\ ~HandlerIn({"notEstablished"})

\* No lost wakeup: while connected, assets wait only behind a put that is
\* under way; its callback (onAfterAssetPut) will send the next.  One asset
\* more waits than MAX_QUEUE_SIZE says: the test is made before the push.
WaitingBehindASend ==
  /\ Len(st.waiting) <= MAX_QUEUE_SIZE + 1
  /\ st.connected /\ ~st.stop /\ ~st.broken /\ st.closing = "no" =>
       (st.waiting # <<>> => st.sending)

\* The handlers of a connection hold a bare pointer to it.  When the monitor
\* may replace the object (not connected, monitor waiting or ready), none of
\* its operations is outstanding and none of its handlers is queued.
NoHandlerOfDeadService ==
  ~st.connected /\ (st.monitor \/ HandlerIn({"monitor"})) =>
    st.ops = {} /\ ~HandlerIn(ServiceRuns)

\* A response is handed to the put it answers: the code matches responses to
\* requests by order only (_assetCallbackQueue).
ResponseMatchesRequest ==
  (st.ops \cap {"data", "errorData"} # {} \/
   \E i \in 1..Len(st.io) : /\ st.io[i].run \in {"header", "data", "errorData"}
                            /\ st.io[i].ok)
    /\ st.svc.established
    => st.svc.callbacks # <<>> /\ Head(st.svc.callbacks) = st.response.to

\* When the setting stays on one slave and the server runs, the service ends
\* up connected to that slave, whatever it was connected to before.
FollowsTheSetting ==
  \A e \in Slaves :
    <>[](slave = e /\ stops = 0 /\ ~st.broken) =>
      <>[](st.connected /\ st.target = e)

\* Every put ends: the sending flag is not stuck.
SendEnds == []<>(~st.sending \/ st.broken)

\* "Gracefully stops and waits for the service thread to finish": after stop()
\* the io_service runs out of work and join() returns.  Not when doStop runs
\* during a connection attempt: the attempt is not cancelled, and when it
\* succeeds the thread reads from the slave for ever.
Finished == /\ st.stop /\ st.io = <<>> /\ st.ops = {} /\ ~st.monitor
            /\ st.closing = "no"

StopFinishes == (Ready("stop") /\ ~Connecting(st)) ~> (Finished \/ st.broken)
=============================================================================
