--------------------------- MODULE PullReplication ---------------------------
(***************************************************************************)
(* PullReplicationService: the thread that copies from the replication     *)
(* master every asset this server does not have.  A round asks for the ids *)
(* of each prefix in turn and fetches the missing ones in batches; the     *)
(* next round starts after a while.                                        *)
(*                                                                         *)
(* st is the state of the thread and of the connection it owns (see        *)
(* RemoteAssetService), with these fields of its own:                      *)
(*   step, prefix, pending, inProgress, connected, stop   members;         *)
(*   hasSvc     _assetSvc is not null;                                     *)
(*   endpoint   _replicationMasterEndpoint;                                *)
(*   target     the endpoint the connection object was made with;          *)
(*   restart, reconnect   the two timers have a wait outstanding;          *)
(*   due        the time _nextReplStart has come;                          *)
(*   exists     the ids in the existence index;                            *)
(*   storing    ids handed to the storage backend, in order;               *)
(*   master     the setting replication_master.                            *)
(***************************************************************************)
EXTENDS RemoteAssetService, FiniteSets, SequencesExt

CONSTANTS
  Ids,            \* asset ids
  MaxPrefix,      \* 0xfff in the code
  IdsAt,          \* IdsAt[p]: the ids of the master with prefix p
  BatchSize,      \* pull_replication_batch_size
  Masters, None,  \* endpoints the setting may name, and the empty setting
  MaxRounds,      \* bound: rounds started
  MaxReloads,     \* bound: changes of the setting
  MaxStops        \* 1: the server may be stopped; 0: it is not

ASSUME PullAssumption ==
  /\ MaxPrefix \in Nat /\ IdsAt \in [0..MaxPrefix -> SUBSET Ids]
  /\ BatchSize \in Nat \ {0} /\ None \notin Masters
  /\ MaxRounds \in Nat /\ MaxReloads \in Nat /\ MaxStops \in {0, 1}

VARIABLES st, rounds, reloads, stops
vars == <<st, rounds, reloads, stops>>

IdList(p) == [kind |-> "ids", of |-> p]
GetAsset(id) == [kind |-> "get", of |-> id]

\* run() calls runStep before it runs the io_service.
Init ==
  /\ \E m \in Masters :
       st = [svc |-> NewService, ops |-> {}, io |-> <<[run |-> "step"]>>,
             wire |-> <<>>, response |-> [kind |-> "none", to |-> None],
             closing |-> "no", broken |-> FALSE, faults |-> 0,
             step |-> "NONE", prefix |-> 0, pending |-> <<>>,
             inProgress |-> {}, connected |-> FALSE, stop |-> FALSE,
             hasSvc |-> FALSE, endpoint |-> m, target |-> None,
             restart |-> FALSE, reconnect |-> FALSE, due |-> FALSE,
             exists |-> {}, storing |-> <<>>, master |-> m]
  /\ rounds = 0 /\ reloads = 0 /\ stops = 0

----------------------------------------------------------------------------
(* The methods of the service.                                             *)

\* Setting a timer cancels a wait that is outstanding; the handler of a
\* cancelled wait runs too (it does not look at its error code).
setReplicationRestartTimer(s) ==
  [(IF s.restart THEN Post(s, [run |-> "step"]) ELSE s) EXCEPT !.restart = TRUE]

setReconnectTimer(s) ==
  [(IF s.reconnect THEN Post(s, [run |-> "verify"]) ELSE s)
     EXCEPT !.reconnect = TRUE]

\* The part of verifyConnection behind the settings: make the object, connect.
connected(s) ==
  LET t == IF s.hasSvc THEN s
           ELSE [s EXCEPT !.hasSvc = TRUE, !.svc = NewService,
                          !.target = s.endpoint]
  IN IF s.connected THEN [s |-> t, go |-> TRUE]
     ELSE [s |-> connect(t), go |-> FALSE]

\* close() on a null _assetSvc is undefined.
closeService(s) == IF s.hasSvc THEN close(s) ELSE [s EXCEPT !.broken = TRUE]

\* The new state, and the result: go on with the step?  close() runs its
\* callbacks in the steps that follow; when the setting is empty none of them
\* touches a timer, so the timer the caller sets may come first.
verifyConnection(s) ==
  IF s.stop THEN [s |-> s, go |-> FALSE]
  ELSE IF s.step \notin {"NONE", "WAIT", "NOMASTER"} THEN connected(s)
  ELSE IF s.master = None
  THEN [s |-> IF s.step = "NOMASTER" THEN s
              ELSE closeService([s EXCEPT !.step = "NOMASTER"]),
        go |-> TRUE]
  ELSE IF s.master = s.endpoint THEN connected(s)
  ELSE LET t == [s EXCEPT !.step = "NONE", !.endpoint = s.master]
       IN IF t.hasSvc /\ t.connected THEN [s |-> close(t), go |-> FALSE]
          ELSE connected(t)

\* runStep for a step that asks for the ids of the current prefix.
stepIdList(s) ==
  LET v == verifyConnection(s)
  IN IF v.go THEN request(v.s, IdList(v.s.prefix)) ELSE v.s

\* Mutant: the last prefix is left out.
SkipLastPrefix(s) ==
  IF s.prefix + 1 < MaxPrefix
  THEN stepIdList([s EXCEPT !.step = "IDLIST", !.prefix = @ + 1])
  ELSE setReplicationRestartTimer(
         [s EXCEPT !.step = "WAIT", !.prefix = 0, !.due = FALSE])

retrieveNextIdList(s) ==
  IF s.prefix + 1 <= MaxPrefix
  THEN stepIdList([s EXCEPT !.step = "IDLIST", !.prefix = @ + 1])
  ELSE setReplicationRestartTimer(
         [s EXCEPT !.step = "WAIT", !.prefix = 0, !.due = FALSE])

\* Take ids off the queue until BatchSize of them are missing here.
retrieveNextMissingAssetBatch(s) ==
  LET missing == SelectSeq(s.pending, LAMBDA id : id \notin s.exists)
      full    == Len(missing) >= BatchSize
      batch   == IF full THEN SubSeq(missing, 1, BatchSize) ELSE missing
      last    == CHOOSE i \in 1..Len(s.pending) : s.pending[i] = Last(batch)
      rest    == IF full THEN SubSeq(s.pending, last + 1, Len(s.pending)) ELSE <<>>
      t       == [s EXCEPT !.pending = rest,
                           !.inProgress = @ \cup ToSet(batch)]
  IN IF batch = <<>> THEN retrieveNextIdList(t)
     ELSE FoldLeft(LAMBDA u, id : request(u, GetAsset(id)), t, batch)

replicateStep(s) ==
  CASE s.step = "NONE"     -> request([s EXCEPT !.prefix = 0], IdList(0))
    [] s.step = "IDLIST"   -> request(s, IdList(s.prefix))
    [] s.step = "RETRIEVE" -> retrieveNextMissingAssetBatch(s)
    [] s.step = "WAIT"     -> IF s.due
                              THEN stepIdList([s EXCEPT !.step = "NONE"])
                              ELSE setReplicationRestartTimer(s)
    [] s.step = "NOMASTER" -> setReplicationRestartTimer(s)

runStep(s) ==
  LET v == verifyConnection(s)
  IN IF ~s.stop /\ v.go THEN replicateStep(v.s) ELSE v.s

\* Mutant: a failed connection is not tried again.
NoRetry(s, ok) == IF ok THEN runStep([s EXCEPT !.connected = TRUE]) ELSE s

onServiceConnectionStatus(s, ok) ==
  IF ok THEN runStep([s EXCEPT !.connected = TRUE]) ELSE setReconnectTimer(s)

\* Mutant: the next step is not left to the storage backend's return.
StepAlways(s) ==
  IF ~s.connected THEN s
  ELSE LET t == [s EXCEPT !.connected = FALSE, !.hasSvc = FALSE]
       IN IF s.step \notin {"NOMASTER", "WAIT"} THEN runStep(t)
          ELSE IF s.step = "NOMASTER" THEN setReplicationRestartTimer(t)
          ELSE t

onServerConnectionFailed(s) ==
  IF ~s.connected THEN s
  ELSE LET t == [s EXCEPT !.connected = FALSE, !.hasSvc = FALSE]
       IN IF s.inProgress = {} /\ s.step \notin {"NOMASTER", "WAIT"}
          THEN runStep(t)
          ELSE IF s.step = "NOMASTER" THEN setReplicationRestartTimer(t)
          ELSE t

onGetStoredAssetIds(s, p, r) ==
  LET ids     == SetToSeq(IdsAt[p])
      missing == SelectSeq(ids, LAMBDA id : id \notin s.exists)
      t       == [s EXCEPT !.pending = missing]
  IN CASE ~s.connected \/ r = "fatal" -> s
       [] s.connected /\ r = "error"  -> runStep(s)
       [] s.connected /\ r = "ok" ->
            IF ids = <<>> THEN retrieveNextIdList(s)
            ELSE IF missing = <<>> THEN retrieveNextIdList(t)
            ELSE runStep([t EXCEPT !.step = "RETRIEVE"])

storeAsset(s, id) ==
  [s EXCEPT !.exists = @ \cup {id}, !.storing = Append(@, id)]

\* Mutant: one failed asset empties the set of assets in progress.
ErrorClearsAll(s, id, r) ==
  LET t == [s EXCEPT !.inProgress = {}]
  IN CASE ~s.connected -> s
       [] s.connected /\ r = "ok" -> storeAsset(s, id)
       [] s.connected /\ r # "ok" -> IF r = "error" THEN runStep(t) ELSE t

onAssetRetrieved(s, id, r) ==
  LET t == [s EXCEPT !.inProgress = @ \ {id}]
  IN CASE ~s.connected -> s
       [] s.connected /\ r = "ok" -> storeAsset(s, id)
       [] s.connected /\ r # "ok" ->
            IF r = "error" /\ t.inProgress = {} THEN runStep(t) ELSE t

onAnswer(s, req, r) ==
  IF req.kind = "ids" THEN onGetStoredAssetIds(s, req.of, r)
                      ELSE onAssetRetrieved(s, req.of, r)

onAfterAssetStored(s, id) ==
  LET t == [s EXCEPT !.inProgress = @ \ {id}]
  IN IF t.inProgress = {} THEN runStep(t) ELSE t

doStop(s) == closeService([s EXCEPT !.stop = TRUE])

\* The answers a master gives.
Responses(req) ==
  {"ok", "error", "errorData", "corrupt"} \cup
  (IF req.kind = "get" THEN {"mismatch"} ELSE {})

Service == INSTANCE RemoteAssetHandlers WITH
  Answer <- onAnswer, Status <- onServiceConnectionStatus,
  Kill <- onServerConnectionFailed

----------------------------------------------------------------------------
(* The handlers of the thread, run one at a time in the order they became  *)
(* ready.                                                                  *)

Ready(run) == /\ ~st.broken /\ st.closing = "no" /\ Service!AbortsQueued(st)
              /\ st.io # <<>> /\ Head(st.io).run = run

Taken == [st EXCEPT !.io = Tail(@)]

Unchanged == UNCHANGED <<rounds, reloads, stops>>

Handshake ==
  /\ Ready("connect") /\ Unchanged
  /\ st' = Service!onHandshake(Taken, Head(st.io).ok)

Written ==
  /\ Ready("write") /\ Unchanged
  /\ st' = Service!onAfterWriteAssetRequest(Taken, Head(st.io).ok)

HeaderRead ==
  /\ Ready("header") /\ Unchanged
  /\ st' = Service!onReadResponseHeader(Taken, Head(st.io).ok)

DataRead ==
  /\ Ready("data") /\ Unchanged
  /\ st' = Service!onReadResponseData(Taken, Head(st.io).ok,
             st.svc.callbacks # <<>> /\ Head(st.svc.callbacks).kind = "get")

ErrorDataRead ==
  /\ Ready("errorData") /\ Unchanged
  /\ st' = Service!onHandleRequestErrorData(Taken, Head(st.io).ok)

NotEstablished ==
  /\ Ready("notEstablished") /\ Unchanged
  /\ st' = onAnswer(Taken, Head(st.io).req, "error")

Stored ==
  /\ Ready("stored") /\ Unchanged
  /\ st' = onAfterAssetStored(Taken, Head(st.io).id)

Step == Ready("step") /\ st' = runStep(Taken) /\ Unchanged

Verify == Ready("verify") /\ st' = verifyConnection(Taken).s /\ Unchanged

Stopping == Ready("stop") /\ st' = doStop(Taken) /\ Unchanged

Closing ==
  /\ ~st.broken /\ st.closing # "no" /\ Unchanged
  /\ st' = Service!closeStep(st)

Handler ==
  \/ Handshake \/ Written \/ HeaderRead \/ DataRead \/ ErrorDataRead
  \/ NotEstablished \/ Stored \/ Step \/ Verify \/ Stopping \/ Closing

----------------------------------------------------------------------------
(* Timers, the network, the storage backend and the other threads.         *)

RestartExpires ==
  /\ st.restart /\ Unchanged
  /\ st' = [Post(st, [run |-> "step"]) EXCEPT !.restart = FALSE]

ReconnectExpires ==
  /\ st.reconnect /\ Unchanged
  /\ st' = [Post(st, [run |-> "verify"]) EXCEPT !.reconnect = FALSE]

RoundDue ==
  /\ st.step = "WAIT" /\ ~st.due /\ rounds < MaxRounds
  /\ rounds' = rounds + 1 /\ st' = [st EXCEPT !.due = TRUE]
  /\ UNCHANGED <<reloads, stops>>

Network ==
  /\ Unchanged
  /\ \/ Service!ConnectCompletes(st, st')
     \/ Service!WriteCompletes(st, st')
     \/ Service!HeaderCompletes(st, st')
     \/ Service!BodyCompletes(st, st')

\* onAfterAssetStoredStub.  The result is only logged; a write that failed may
\* take the id out of the existence index again.
StoreCompletes ==
  /\ st.storing # <<>> /\ Unchanged
  /\ LET id == Head(st.storing)
         t  == [Post(st, [run |-> "stored", id |-> id])
                  EXCEPT !.storing = Tail(@)]
     IN \/ st' = t
        \/ /\ "store" \in Faulty /\ st.faults < MaxFaults
           /\ st' = [t EXCEPT !.faults = @ + 1, !.exists = @ \ {id}]

\* A client of this server stores an asset that the master has, too.
ClientStores(id) ==
  /\ id \notin st.exists /\ "store" \in Faulty /\ st.faults < MaxFaults
  /\ st' = [st EXCEPT !.exists = @ \cup {id}, !.faults = @ + 1]
  /\ Unchanged

\* The mesh heartbeat reloads the settings.
Reload ==
  /\ reloads < MaxReloads /\ reloads' = reloads + 1
  /\ \E m \in (Masters \cup {None}) \ {st.master} :
       st' = [st EXCEPT !.master = m]
  /\ UNCHANGED <<rounds, stops>>

stop ==
  /\ stops < MaxStops /\ stops' = stops + 1
  /\ st' = Post(st, [run |-> "stop"])
  /\ UNCHANGED <<rounds, reloads>>

Next ==
  \/ Handler \/ RestartExpires \/ ReconnectExpires \/ RoundDue
  \/ Network \/ StoreCompletes \/ \E id \in Ids : ClientStores(id)
  \/ Reload \/ stop

Spec == Init /\ [][Next]_vars

\* The thread runs its handlers, timers expire, time passes, the disk worker
\* answers, and every operation on a socket completes or fails.
Fairness ==
  /\ WF_vars(Handler) /\ WF_vars(RestartExpires) /\ WF_vars(ReconnectExpires)
  /\ WF_vars(RoundDue) /\ WF_vars(Network) /\ WF_vars(StoreCompletes)

FairSpec == Spec /\ Fairness

----------------------------------------------------------------------------
(* Properties.                                                             *)

ServiceRuns == {"connect", "write", "header", "data", "errorData"}

HandlerIn(runs) == \E i \in 1..Len(st.io) : st.io[i].run \in runs

Awaited == ToSet(st.svc.callbacks) \cup ToSet(st.svc.transfers)

\* No change of the setting and no stop so far, and between two handlers.
Undisturbed == reloads = 0 /\ stops = 0 /\ ~st.broken /\ st.closing = "no"

\* How many timers, handlers and attempts will run the next step or the next
\* connection attempt, and how many answers of the master or the disk will.
Timers ==
  Len(SelectSeq(<<st.restart, st.reconnect, "connect" \in st.ops>>, LAMBDA b : b))
  + Len(SelectSeq(st.io, LAMBDA h : h.run \in {"step", "verify", "connect"}))

Answers ==
  IF st.inProgress # {} THEN 1
  ELSE IF st.svc.established
  THEN Len(SelectSeq(st.svc.callbacks \o st.svc.transfers,
                     LAMBDA r : r.kind = "ids"))
  ELSE 0

\* "a return from asset storage will call runstep, so we need to make sure we
\* only call it once": never two timers, connection attempts, id lists or
\* batches at the same time, so never two chains of steps.  One failure does
\* not break this.  Two can: a return from asset storage makes a request on a
\* closed connection that is not released yet, and the request is answered
\* twice, once for the missing connection and once by the close.
OneDriver == Undisturbed /\ st.faults <= 1 => Timers + Answers <= 1

\* Replication is never left with nothing that will continue it: there is a
\* timer or an attempt, a return from asset storage, or a connection with a request to
\* answer or a close to finish.
NotStalled ==
  Undisturbed =>
    \/ Timers > 0
    \/ st.storing # <<>> \/ HandlerIn({"stored"})
    \/ st.connected /\ (st.svc.established => Awaited # {})

\* At most one chain of steps: a second failure can start another (OneDriver),
\* and so can removing the master from the settings and naming another, as the
\* close of the old connection sets the restart timer that a step has set.
OneChain == reloads <= 1 /\ st.faults <= 1

\* An asset is on its way once: no id is both asked for and being stored, or
\* asked for twice.
FetchedOnce ==
  st.svc.established /\ ~st.broken /\ OneChain =>
    LET gets == SelectSeq(st.svc.callbacks \o st.svc.transfers,
                          LAMBDA r : r.kind = "get")
    IN /\ IsInjective(gets)
       /\ \A i \in 1..Len(gets) : /\ gets[i].of \in st.inProgress
                                  /\ gets[i].of \notin ToSet(st.storing)

\* A response is handed to the request it answers, also when the requests of a
\* batch are pipelined: the code matches them by order.
ResponseMatchesRequest ==
  (st.ops \cap {"data", "errorData"} # {} \/
   \E i \in 1..Len(st.io) : /\ st.io[i].run \in {"header", "data", "errorData"}
                            /\ st.io[i].ok)
    /\ st.svc.established
    => st.svc.callbacks # <<>> /\ Head(st.svc.callbacks) = st.response.to

\* The handlers of a connection hold a bare pointer to it: when _assetSvc is
\* reset, none is outstanding.
NoHandlerOfDeadService ==
  ~st.hasSvc => st.ops = {} /\ ~HandlerIn(ServiceRuns)

\* A round that ends without a fault has copied everything the master has, as
\* long as one chain of steps runs it.
RoundIsComplete ==
  [][st.step # "WAIT" /\ st'.step = "WAIT" /\ st.faults = 0 /\ reloads <= 1 /\ ~st'.broken
       => \A p \in 0..MaxPrefix : IdsAt[p] \subseteq st.exists]_vars

\* "we failed. retry connection in 10 seconds": a retry is made on a socket
\* that can connect.
RetryCanConnect ==
  "connect" \in st.ops /\ st.svc.stage = 1 => st.svc.socket # "open"

\* Everything the master has is copied, however the network fails, unless the
\* setting changes or the server stops, or the connection closes with a
\* request being written and an asset being stored (NotStalled fails), or the
\* handshake is cut (RetryCanConnect fails).
ClosedWhileBusy ==
  /\ st.svc.socket = "closed" /\ st.svc.sendActive
  /\ st.storing # <<>> \/ HandlerIn({"stored"})

EventuallyReplicated ==
  [](reloads = 0 /\ stops = 0 /\ ~st.broken /\ ~ClosedWhileBusy /\ RetryCanConnect)
    => <>(\A p \in 0..MaxPrefix : IdsAt[p] \subseteq st.exists)
=============================================================================
