# A TLA+ verification of the WHIP asset server

WHIP stores the immutable assets of a virtual world grid. An asset is a blob
with a 128-bit id; it is stored once, never changed, and read many times. A
server keeps its assets in an indexed file system (VFS), caches them in memory,
asks the other servers of its mesh for assets it does not have, and replicates
to a slave (push) and from a master (pull).

This directory holds TLA+ models of the server (`*.tla`), the TLC configurations
that check them on small instances (`*.cfg`), and machine-checked TLAPS proofs.
`PROJECT.json` maps every definition to the lines of code it models and lists
the runs, the mutants, the hazards and the theorems.

## Inventory of the system

Threads: one ASIO thread runs all network handlers and timers of the server
(`AppIoService`); the VFS disk worker takes requests off a queue; pull and push
replication each have a thread with an `io_service` of their own; a log writer.
On Windows a console handler thread calls `AssetServer::stop`; elsewhere the
process is killed, which is a crash.

| part | state | operations | talks to |
|---|---|---|---|
| VFS database (`VFSDatabase`, `DatabaseSet`, `DataFile`, `SQLiteIndexFile`) | per directory `globals.idx/.data`, `locals.idx/.data` | open, find, read, append + insert, list ids, remove | file system, SQLite |
| VFS backend (`VFSBackend`, `ExistenceIndex`, `VFSQueueTypes`) | existence index, work queue, purge timer | get, put, purge, purge locals, status, id listing, shutdown, start | databases, ASIO thread, push replication |
| Asset cache (`AssetCache`, `LRUCache`) | recency list, index, byte count | get, put, inform, purge locals | backend |
| Client connection (`AssetClient`, `CSUnauthenticated`, `CSAuthenticated`) | connection state, request in progress | authenticate, GET, PUT, TEST, PURGE, PURGELOCALS, STATUS, id listing | cache, mesh |
| Mesh search (`MeshStorageBackend`, `AssetSearch`, `MeshServer`, `MeshQueryConnection`) | peers, queries outstanding, transfer queue, search timer | search, answer, timeout, transfer, connect, close | peers, cache |
| Mesh service (`IntraMeshService`, `IntraMeshQueryClient`) | peer table, query connections of peers | heartbeat, accept, query, timeout | peers, cache |
| Remote asset service (`RemoteAssetService`) | connection, request queue | connect, get, put, id listing, close | master or slave server |
| Push replication (`PushReplicationService`) | bounded queue, connection, one send in flight | queue, send, reconnect | backend, remote service |
| Pull replication (`PullReplicationService`) | current prefix, ids to fetch, counts in progress | connect, list ids, fetch, store, wait, restart | backend, remote service |

What makes it hard: three threads share the backend; a put spans three locks
and two threads; every disk operation can fail half-way or be cut by a crash;
answers, timeouts and closes of mesh connections are queued handlers that run
in any order; one error path too many runs a callback twice, one too few never.

## Modules

Storage:

* `VFSDatabase` - one pair of index and data file. The index is a function from
  ids to positions, the data file a sequence of units (header, assets, junk).
  A byte position becomes the number of units before it, which keeps what the
  code relies on: positions grow, distinct appends get distinct positions, and
  a position is 0 exactly when the file is empty. `TornOpens` and `TornWrites`
  are the states that a failed or interrupted open and write leave behind.
* `VFSBackend` - the backend. Variables are the members of `VFSBackend` and
  `ExistenceIndex` (`existenceIndex`, `workQueue`, `purge`), the handlers posted
  to the ASIO thread (`ioQueue`), the position of the disk worker (`worker`) and
  of the callers inside `storeAsset` (`thread`), and the databases (`disk`).
  `ncalls`, `call`, `answer` and `pushed` are history. One action per operation,
  handler or step of the worker; a disk write is three steps (open, append,
  insert) because a crash or a failure can fall between them, `storeAsset` is
  three steps because other threads run between its locks.
* `WriteOnceStore` - what the backend promises its callers about global assets:
  `stored` only grows, one asset per id, and `confirmed` assets are stored. The
  backend implements it (`ImplementsWriteOnceStore`).
* `MCVFSBackend` - the small sets the configurations use.

Replication:

* `RemoteAssetService` - a client connection to another server, as operators on
  the state `st` of the thread that owns it: connect, requests (written one at a
  time, the rest queued), close, the condition of the safe kill.
* `RemoteAssetHandlers` - the handlers of such a connection and what completes
  its operations. The callbacks the owner registers (`Answer`, `Status`, `Kill`)
  are operator constants, given by `INSTANCE ... WITH`.
* `PushReplication`, `PullReplication` - the two replication threads. Fields of
  `st` are the members of the class and of its connection; one action per handler
  (`Handler`), timer, completion of a network operation and call from another
  thread. `MCPullReplication` has the ids and prefixes of its runs.

Mesh, outgoing side (each module extends the one before it; operators on the
state of the ASIO thread, whose fields `MeshQueryConnection` lists):

* `MeshQueryConnection` - the two connections of a mesh server: the query
  connection with its send queue and its disconnect callback, and the requests
  for assets. Operations on them, and what closing does to those outstanding.
* `AssetSearch` - a search: the servers it waits for, its timer, the transfer, the
  answer to its client, and the moment it is freed.
* `MeshServer` - connecting, answers, responses matched to transfers by order,
  `close()` and the flags of the safe kill.
* `IntraMeshService` - the tables of servers, the heartbeat that connects to
  peers, and the system: one action per handler, timer, completion of an operation
  and choice of a peer. `MCIntraMesh` has the scenarios.

Mesh, incoming side:

* `IntraMeshQueryClient` - the query connections that peers make: accepting,
  reading a query, answering it, heartbeats, `_pendingSends`, closing.
  `client[x]` is the object of connection `x`, `io` the queue of handlers, `sent`
  and `got` what its peer sent and received. `MCIntraMeshQueryClient` has its
  instance.

Clients:

* `LRUCache`, `AssetCache` - the recency list with its index, count and eviction,
  and the cache in front of the backend. `AssetCache` also has the backend as the
  ASIO thread sees it: the existence index, the queue of the disk worker, the
  callbacks posted back.
* `ClientConnection` - a connection: handshake, each request of the protocol, the
  callbacks of storage and mesh, responses, disconnects.
* `AssetServer` - connections, cache, disk worker and mesh as one system.
  `MCAssetServer` has the assets and the menus of requests.

Proofs: `VFSDatabaseProofs`, `VFSBackendTypes`, `VFSBackendProofs`,
`WriteOnceStoreProofs`, `IntraMeshQueryClientProofs`, `QueryAnswersProofs`.

How the parts fit. A client's request goes from `ClientConnection` through
`AssetCache` to the disk; `VFSBackend` is that disk in detail, and `AssetCache`
has of it only the index check and a worker that answers in order. A miss becomes
a search: `AssetServer` lets it end with the peer's asset or with nothing, which
`SearchEnds` shows it does. A peer's query arrives at an `IntraMeshQueryClient`.
What is stored is handed to `PushReplication`; `PullReplication` stores through
the backend, which it sees as the order in which it answers.

How handlers are modelled. The io_service runs handlers one at a time in the
order they became ready (`io`, `posted`); operations that are outstanding
(`ops`, `reading`, `sending`) complete, well or badly, when the network pleases.
Closing a socket makes its operations complete with an error. In replication,
`close()` calls every waiting request back, and a callback may make new requests,
so each callback is a step (`Closing`) during which no handler runs. A handler or
callback that runs on a freed or null object, or on an empty queue, leaves
defined behaviour; such a state is marked `broken` and nothing is claimed about
what follows. Calls that throw out of a handler end `io_service::run`, and with
it the service: `down`.

The mutants named in `PROJECT.json` are operators beside the definition they
replace ("Mutant: ..."); no specification uses them.

## Runs

All bounds are constants, named in the module that declares them (`MaxCalls`,
`MaxFaults`, `MaxCrashes`, `MaxServers`, `MaxAsked`, ...). Deadlock is not
checked: callers, clients and peers may stop asking, a stopped service and a
server that failed to start have nothing left to do.

| run | instance | shows |
|---|---|---|
| `storage_faults` | two assets of one id (symmetric) and a local asset of another, one directory, two calling threads, three calls, and any two of a purge, a failure of one of five kinds and a crash; 880,000 states | `RowsAreSound`, `GetReturnsTheAsset`, `AckedStored`, `CallbackOnce`, `GlobalsImmutable`, `ImplementsWriteOnceStore`, `OnlyStorageErrorsStrand` |
| `storage_live` | a global and a local asset in two directories, ASIO thread, all operations, two calls, a purge, one failure, a clean stop and restart, fairness | `TypeOK`, `AckedReadable`, `EveryCallAnswered`, `PurgeRemovesLocals` |
| `storage_position_zero` | two assets, a failing write | violates `AckedReadable` |
| `storage_blank_index` | one asset, one crash | violates `StartSucceeds` |
| `push` | two assets, two slaves, two failures of any kind, one change of the setting, a stop, fairness; 430,000 states | `OneInFlight`, `WaitingBehindASend`, `NoHandlerOfDeadService`, `ResponseMatchesRequest`, `FollowsTheSetting`, `SendEnds`, `StopFinishes` |
| `pull` | a master with four ids in two prefixes, batches of two, one failure of any kind, one change of the setting, a stop, fairness; 350,000 states | `OneDriver`, `FetchedOnce`, `ResponseMatchesRequest`, `NoHandlerOfDeadService`, `RoundIsComplete`, `EventuallyReplicated` |
| `pull_stall` | the same master, one failure | violates `NotStalled` |
| `mesh` | three scenarios: two servers, one search, one failure; one server, two searches of different ids, two failures; one server, two searches of one id, one failure; heartbeats may stay out; fairness; 330,000 states | `NoHandlerOfDeadServer`, `KillIsComing`, `QueriedAgrees`, `FoundHasOneCallback`, `ResponseMatchesSearch`, `SearchEnds`, `PeersReconnected` |
| `mesh_late_result` | two servers, one search, one failure | violates `NoResultAfterFound` |
| `mesh_reconnect` | one server, one search, two failures, fairness | violates `EveryPeerReconnected` |
| `query_client` | a peer that asks twice and one that only gets heartbeats, one failure of any kind, fairness; 130,000 states | `FlagsCountOperations`, `AnswersInOrder`, `ClosedIsRemoved`, `QueriesAnswered` |
| `client` | two connections with two requests each, either gets and puts of two ids on both or every request of the protocol on one; a cache of size 2 with assets of sizes 1, 2 and 3; one failure of the disk or of a connection; fairness; 500,000 states | `OneOperation`, `CacheSound`, `ServedIsStored`, `AcknowledgedIsServed`, `RequestsAnswered` |

### Why the bounds are enough

Storage: three calls are the least that let two puts of one id race and a get
read the winner; one failure and one crash are enough because after each the
model is again in a state whose files are one of the torn states, which the calls
that follow have to cope with. Two assets with one id tell "the asset of this id"
from "some asset of this id". `storage_faults` leaves out the behaviours in which a
purge, a failure and a crash all happen (`TwoDisturbances`); all its properties but
`CallbackOnce` and `OnlyStorageErrorsStrand` are theorems as well, which have no
such bound. Two prefixes make the purge take more than one tick.

Replication: two assets are one being sent and one waiting; two failures let a
connection be lost, made again and lost again, and let the data of an error
response fail. A third asset, one too many for `MAX_QUEUE_SIZE = 0` (the code lets
`MAX_QUEUE_SIZE + 1` assets wait), was checked with one failure (1.1 million states)
and is left out of the run to keep it short: a full queue only drops the asset.
Batches of two out of a prefix with three missing ids make requests overlap and
leave a second batch; one failure can fall on every operation of the connection, on
the answer of the other server and on the storing of an asset. Assets and slaves are
treated alike by the push service, so their order is fixed in the model.
`OneDriver`, `FetchedOnce` and `RoundIsComplete` say themselves how many failures
and changes of the setting they allow, because a second one can start a second
chain of steps (see below). `EventuallyReplicated` needs at least as many rounds as
failures, as a round that meets an error leaves the asset to the next.

Mesh: two servers make answers, closes and the timer race for one search; one
server with two searches makes queries and requests queue up, for one id and for
two. Two failures lose both connections of a server. `MaxServers = 3` lets a peer
be connected to again after a failure. Three servers or three searches repeat the
interactions of two, since each server serves its own queues.

Query connections: one answer can be under way while the next query waits, and
`MaxPending = 1` lets a heartbeat and an answer queue behind each other. The
proofs below need none of these bounds.

Clients: two requests on each of two connections let a get meet a put under way,
one that failed and one that was acknowledged; the sizes make an insert evict
one entry, all others, and itself.

### Fairness

* `storage_live`: the disk worker, the ASIO thread's handlers, a caller inside
  `storeAsset` and the purge timer. The operating system schedules every thread,
  `workLoop` waits only while the queue is empty, and the io_service runs posted
  handlers and expired timers. Nothing is assumed of callers, shutdown, restart.
* `push`, `pull`: the thread's handlers, its timers, the completion of network
  operations (TCP delivers or fails) and, for pull, the storage backend's answers
  (`EveryCallAnswered` shows that they come) and time. Nothing is assumed of
  settings, clients or `stop`.
* `mesh`, `mesh_reconnect`: handlers, the heartbeat timer, the timers of searches;
  connection attempts and writes complete, and a peer answers a request for an
  asset or the connection fails. Nothing makes a peer answer a query: the search's
  timer is there for that.
* `query_client`: handlers, the heartbeat timer, reads of what has arrived, sends.
* `client`: handlers, the disk worker, searches (`SearchEnds`), and that a client
  sends the data it announced. Nothing makes a client send a request.

All of it is weak fairness. Where `ENABLED` of a deep handler is expensive to
evaluate, it is written out as "infinitely often disabled, or infinitely often
taken".

### What the violations show

* `storage_position_zero`: an empty data file left by a failed header write makes
  position 0 the position of the next asset, and 0 is `INVALID_POSITION`: the put
  is acknowledged and the asset can never be read.
* `storage_blank_index`: an index file without tables stops the next start.
* `pull_stall`: a connection that is closed while a request is being written and
  an asset is being stored stays up for the pull service until the write ends. The
  return from storage queues the next batch on it; the safe kill then sees assets
  in progress and leaves the next step to a return from storage that never comes.
* `mesh_late_result`: `MeshServer::close` tells every search in `_currentSearches`
  that it has nothing and leaves them there; the read that the close aborted runs
  `close` again, which tells them again. If another server answered "found" in
  between, the second report is the last one awaited: the client is told that
  there is no asset and the search is freed while its transfer is pending.
* `mesh_reconnect`: the read of a query connection fails while a query is being
  written that then goes out. `close()` left the disconnect callback to the write's
  handler, which finds no error and does not call it. The server keeps
  `_meshQueryConnectionEstablished`. If its asset connection is lost before that
  handler runs, `MeshServer::close` finds the write outstanding and does not fire the
  callback either; the server stays in `_remoteServers`, and the heartbeat never
  connects to its peer again. (An asset connection that is lost later takes the
  server with it: `MeshServer::close` then fires the callback.)

The passing properties say which of these situations they leave out:
`EventuallyReplicated` the stall and a cut handshake (below), `KillIsComing` and
`PeersReconnected` the `Forgotten` query connection, `FoundHasOneCallback` searches
that a closing server answered, all of them what follows a callback on a freed search
(a search timer that expired too early to be cancelled is one), `AcknowledgedIsServed`
an id whose search ended after the acknowledgement. `OnlyStorageErrorsStrand` names
the failures after which an id stays indexed without an asset. `storage_live` has no
failing write.

### Seen while modelling

Behaviours the models have, or had to take a position on, that are not runs.

Storage. `performDiskWrite` takes an id out of the existence index only for
exceptions that are not `AssetStorageError`, the class the data file throws: after
a failed open or write `assetExists` says true and later puts of the id are refused
until a restart, although `IAsyncStorageBackend.h:43` says of it "Returns true if the
asset is stored in the backend, false if not." `OnlyStorageErrorsStrand` shows that
nothing else leads there for a global asset. The comment in `storeAsset` that the write is queued before any read
that sees the id does not hold for the replication thread as a caller. A put that
lost a race with another put of its id and then fails un-indexes the stored asset
until the next restart. A local asset stored between the listing and the deletion
of a purge is deleted and stays indexed.

Replication. `doStop` during a connection attempt cancels nothing; the attempt
succeeds and its read keeps the thread busy, so `join()` hangs (`StopFinishes`
leaves this out). A response handler that is queued when `close()` empties the
callback queue takes the front of an empty queue. A handshake that fails after the
TCP connect leaves the socket connected, and every retry on it fails
(`RetryCanConnect`). A master that is removed from the settings and put back
leaves the step at `RS_NOMASTER`, so the service connects and does not resume; a
master changed after a failed attempt is reached through the old connection
object, at the old address; removing the master while the reconnect timer runs
ends replication; `doStop` and `verifyConnection` call `close()` on a null
`_assetSvc` when the connection was lost in `RS_WAIT` or never made. `close()` of an
attempt whose TCP connect has succeeded and whose handler is queued makes
`onConnect` set an option of a closed socket, which throws out of the handler.

There can be two chains of steps. A return from asset storage that comes between a
`close()` and the safe kill makes a request on the closed connection; the request is
answered for the missing connection and again by the close, and each answer
continues (two failures; the comment at `PullReplicationService.cpp:332` wants one
call of `runStep`). When the master is removed from the settings, the safe kill of
its connection sets the restart timer that a step has already set; the wait that
this cancels runs its handler too, which does not look at the error code. The two
chains then cancel each other's waits, so the thread spins; once another master is
named, assets are fetched twice and a round is reported complete with one in flight.

Mesh. A search timer that expired before it was cancelled runs on a freed search.
`getAsset` on a connection that is not established posts an empty callback and
sends the request as well. A "not found" header handled after a close takes the
front of an empty queue. `MeshServer::close` may go on in an object that a nested
disconnect callback destroyed. A server whose heartbeats stay out is no longer
asked, but nothing closes it. There is no timeout once an asset was found; a query
on a lost query connection is dropped, and the search's timer ends it. A short
`async_send` counts as sent, and `_pendingSends` has no bound. A closed query
client that no handler removes goes at the next heartbeat. `remote_endpoint()` and
`set_option` may throw out of a handler.

Clients. PURGE, and an id listing that fails, are never answered. The asset of a
GET_DONTCACHE that the mesh answers is cached. A search in flight when a PUT of its
id is acknowledged puts the peer's asset into the cache over it, so that later GETs
are given the peer's asset until it is evicted; `AcknowledgedIsServed` shows that
this is the only way to be given another asset than the one acknowledged. A purge of the locals does
not reach the cache. `handleWriteAuthSuccess` does not look at its error.

## Proofs

The theorems hold for every value of the constants: any number of ids, assets,
directories, connections, calls, queries, failures, crashes and stops.

**Storage** (`VFSDatabaseProofs`, `VFSBackendTypes`, `VFSBackendProofs`; assuming
`AssetAssumption` and `BackendAssumption`, types of the constants). `RowsAreSound`,
`GetReturnsTheAsset` and `AckedStored` are not inductive. `Inv` strengthens them
with what the code relies on between its steps:

* `WorkerInv`: between the append and the insert, the unit at the position the
  worker remembers is the asset of its request; between the two removals of a
  purge the local index has no row;
* `RequestsInv`, `ThreadInv`: a request in the queue, in the worker or in a caller
  belongs to the call whose callback it carries;
* `ResultsInv`: what a posted or delivered result says is already true on disk;
* `DiskInv`: a database without a data file has no data, and rows are sound;
* `PurgeInv`: the timer is not armed past the last prefix.

The argument: every step but two leaves all rows alone and lets data files only
grow (`OpenGrows`, `WriteGrows`, `TornWriteGrows`, `GrownKeepsRows`); the insert
adds a row for an asset `WorkerInv` says is in place and only where there is none
(`RecordIsSound`); the removal touches local databases only and removes the index
first (`RemoveIsSound`). `DiskStep` collects this for every action, and durability
and immutability follow from it.

**Refinement** (`WriteOnceStoreProofs`). `BackendIsWriteOnceStore`: `Spec` of the
backend implements `WriteOnceStore` under the mapping that takes the global assets
with a sound row for `stored` and those whose put was answered well for
`confirmed`. Initial states map to initial states. A step stores at most one new
global asset, whose id had none (the insert), or confirms one that `ResultsInv`
says is stored (the callback), or is a stutter: crashes, restarts, torn writes and
purges are invisible.

**Query connections** (`IntraMeshQueryClientProofs`, `QueryAnswersProofs`; assuming
`QueryAssumption`: finitely many connections, natural bounds, and a result "fail"
that is no id). `FlagsCountOperations` alone is not inductive: a send that
completes may start a read, and whether one is outstanding already depends on what
was sent. `TurnInv` says whose turn it is: either the connection reads, or exactly
one answer waits, is being sent or has just been sent. With it no second read
starts, and a connection that leaves the table is idle (`FlagsAreExact`). The order
of the answers needs in addition that an open connection that is not about to fail
is in step with its peer (`InStep`): of the messages the peer has no answer to, all
are unread, or all but the first, which is the one being answered
(`AnswersAreInOrder`).

Model-checked only: the liveness properties (out of the prover's reach),
`CallbackOnce`, `OnlyStorageErrorsStrand`, `AckedReadable` (which holds only without
the failures and the second thread that break it), `ClosedIsRemoved`, and all of
replication, of the outgoing mesh, of the cache and of the client connections. The
cache's eviction is a recursive operator, so no module over it can hold proofs.

## Not modelled

* Power loss: the code never syncs its files, so an operating system crash can
  lose acknowledged assets; the model's crash is the death of the process.
* `AssetServer::stop` and `IntraMeshService::stop`, which close the acceptor, set a
  flag and stop the io_service as the process ends.
* Asset data that is shorter than its own header, and a client's local assets in
  `AssetServer` (the purge of locals is part of `VFSBackend`). Replication's direct
  `storeAsset` is in `VFSBackend` (thread "repl"), not in `AssetServer`.
* An id that is both a global and a local asset: it cannot be stored through one
  thread, and the instances have none.
* Settings other than a change of the replication master or slave (their values are
  constants), the contents of status reports, wire formats, hashing, random numbers,
  averages, logging; the Windows data file (same operations as the POSIX one); the
  vendored SQLite and UUID library, of which the models have an atomic insert under a
  primary key and an open that creates a blank file.
* In the outgoing mesh: a heartbeat that fails because the settings cannot be read
  (it does nothing), peers added to the settings, and searches that only ask whether
  there is an asset (nothing makes them).

What could still be added: inductive invariants for push replication and for the
safe kill of mesh servers (both are invariants of the runs above), and `AssetServer`
over `VFSBackend` in place of its one-step disk. That composition has not been
attempted; its states are pairs of those of two runs that are large already.
