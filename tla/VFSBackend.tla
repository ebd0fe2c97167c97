----------------------------- MODULE VFSBackend -----------------------------
(***************************************************************************)
(* The disk storage backend of one asset server.                           *)
(*                                                                         *)
(* Three threads share it.  The ASIO thread runs the callers' requests and *)
(* every handler posted to the io_service; the disk worker takes requests  *)
(* off the work queue one at a time; the pull replication thread calls     *)
(* storeAsset directly.  The existence index, the two queues and the purge *)
(* state are volatile; the databases survive a crash and a restart.        *)
(***************************************************************************)
EXTENDS VFSDatabase, FiniteSets

CONSTANTS
  MaxPrefix,   \* the last uuid prefix (0xFFF in the code)
  PrefixOf,    \* the prefix, hence the directory, of an id
  Locals,      \* the assets whose isLocal() is true
  Threads,     \* callers of storeAsset: "asio", and "repl" when a master is set
  Faults,      \* the kinds of I/O failure that may happen
  Operations,  \* the operations that are called
  MaxCalls,    \* bound: calls made on the backend
  MaxPurges,   \* bound: beginPurgeLocals commands
  MaxFaults,   \* bound: I/O failures
  MaxCrashes,  \* bound: crashes
  MaxStops     \* bound: clean shutdowns

FaultKinds == {"open", "query", "write", "insert", "read", "list", "remove"}

ASSUME BackendAssumption ==
  /\ MaxPrefix \in Nat /\ PrefixOf \in [Ids -> 0..MaxPrefix]
  /\ Locals \subseteq Assets
  /\ "asio" \in Threads /\ Threads \subseteq {"asio", "repl"}
  /\ Faults \subseteq FaultKinds
  /\ Operations \subseteq {"get", "put", "purge", "ids", "status"}
  /\ MaxCalls \in Nat /\ MaxPurges \in Nat
  /\ MaxFaults \in Nat /\ MaxCrashes \in Nat /\ MaxStops \in Nat

Prefixes == 0..MaxPrefix
Kinds == {"globals", "locals"}
Databases == Prefixes \X Kinds
Calls == 1..MaxCalls

VARIABLES
  up,              \* "up", "stopping" (_stop is set), "down" or "failed"
  existenceIndex,  \* ExistenceIndex::_existingAssets
  workQueue,       \* _workQueue
  ioQueue,         \* handlers posted to the io_service and not yet run
  worker,          \* what the disk worker is doing
  thread,          \* where each caller is inside storeAsset
  purge,           \* _isPurgingLocals and _currentLocalsPurgeIndex
  disk,            \* the databases, by prefix and kind
  ncalls,          \* history: number of calls made
  call,            \* history: the operation and argument of each call
  answer,          \* history: the results each call's callback was given
  pushed,          \* history: assets handed to queueAssetForPush
  faults,          \* history: number of I/O failures so far
  purges, crashes, stops  \* history: the counters of the other bounds

volatile == <<existenceIndex, workQueue, ioQueue, worker, thread, purge>>
bounded == <<purges, crashes, stops>>
history == <<ncalls, call, answer, pushed, bounded>>
vars == <<up, volatile, disk, faults, history>>

----------------------------------------------------------------------------
(* Requests, handlers and results.                                         *)

Call ==
       [op : {"get", "purge"}, arg : Ids]
  \cup [op : {"put"}, arg : Assets]
  \cup [op : {"ids"}, arg : Prefixes]
  \cup [op : {"status"}, arg : {NoAsset}]

\* The AssetRequest classes.  rid names the call whose callback it carries.
Request ==
       [op : {"get", "purge"}, arg : Ids, rid : Calls]
  \cup [op : {"put"}, arg : Assets, rid : Calls]
  \cup [op : {"ids"}, arg : Prefixes, rid : Calls]
  \cup [op : {"status"}, arg : {NoAsset}, rid : Calls]
  \cup [op : {"purgeLocals", "deleteLocals"}, arg : Prefixes, rid : {0}]

NoRequest == [op |-> "none", arg |-> NoAsset, rid |-> 0]

Result == [ok : BOOLEAN, val : Unit \cup {NoAsset} \cup SUBSET Ids]

Handler ==
       [run : {"callback"}, rid : Calls, res : Result]
  \cup [run : {"assetWriteFailed"}, id : Ids]
  \cup [run : {"unindexLocals"}, ids : SUBSET Ids, prefix : Prefixes]
  \cup [run : {"ioLoopFailed"}]

Callback(r, ok, val) ==
  [run |-> "callback", rid |-> r, res |-> [ok |-> ok, val |-> val]]

Failed(r) == Callback(r, FALSE, NoAsset)

\* The disk worker: its place in processRequest, the request, and the position
\* writeNewAsset returned.  A caller of storeAsset: its place in there.
WorkerState ==
  [pc : {"idle", "run", "write", "record", "remove"},
   req : Request \cup {NoRequest}, pos : Nat]
CallerState ==
  [pc : {"idle", "add", "enqueue"}, rid : Calls \cup {0},
   asset : Assets \cup {NoAsset}]

Idle == [pc |-> "idle", req |-> NoRequest, pos |-> 0]
NotCalling == [pc |-> "idle", rid |-> 0, asset |-> NoAsset]
NoPurge == [active |-> FALSE, index |-> 0]

\* DatabaseSet::storeAsset picks the database by the asset's local flag.
DatabaseOf(a) ==
  <<PrefixOf[Uuid[a]], IF a \in Locals THEN "locals" ELSE "globals">>

----------------------------------------------------------------------------
Init ==
  /\ up = "up"
  /\ existenceIndex = {}
  /\ workQueue = <<>> /\ ioQueue = <<>>
  /\ worker = Idle
  /\ thread = [t \in Threads |-> NotCalling]
  /\ purge = NoPurge
  /\ disk = [d \in Databases |-> EmptyDatabase]
  /\ ncalls = 0
  /\ call = [r \in Calls |-> [op |-> "status", arg |-> NoAsset]]
  /\ answer = [r \in Calls |-> <<>>]
  /\ pushed = {}
  /\ faults = 0 /\ purges = 0 /\ crashes = 0 /\ stops = 0

Running == up \in {"up", "stopping"}

\* A new call c; every handler of the backend starts like this.
NewCall(c) ==
  /\ Running /\ ncalls < MaxCalls /\ c.op \in Operations
  /\ ncalls' = ncalls + 1
  /\ call' = [call EXCEPT ![ncalls + 1] = c]

AsioIdle == Running /\ thread["asio"].pc = "idle"

Enqueue(req) == workQueue' = Append(workQueue, req)
Post(handlers) == ioQueue' = ioQueue \o handlers

----------------------------------------------------------------------------
(* Calls made on the ASIO thread.                                          *)

\* Mutant: no return after the "not found" callback.
getAssetNoReturn(id) ==
  /\ AsioIdle
  /\ NewCall([op |-> "get", arg |-> id])
  /\ Post(IF id \in existenceIndex THEN <<>> ELSE <<Failed(ncalls + 1)>>)
  /\ Enqueue([op |-> "get", arg |-> id, rid |-> ncalls + 1])
  /\ UNCHANGED <<up, faults, existenceIndex, worker, thread, purge, disk, answer,
                 pushed, bounded>>

\* getAsset(uuid, callback): an id not in the index is answered at once.
getAsset(id) ==
  /\ AsioIdle
  /\ NewCall([op |-> "get", arg |-> id])
  /\ \/ /\ id \notin existenceIndex
        /\ Post(<<Failed(ncalls + 1)>>)
        /\ UNCHANGED workQueue
     \/ /\ id \in existenceIndex
        /\ Enqueue([op |-> "get", arg |-> id, rid |-> ncalls + 1])
        /\ UNCHANGED ioQueue
  /\ UNCHANGED <<up, faults, existenceIndex, worker, thread, purge, disk, answer,
                 pushed, bounded>>

purgeAsset(id) ==
  /\ AsioIdle
  /\ NewCall([op |-> "purge", arg |-> id])
  /\ Enqueue([op |-> "purge", arg |-> id, rid |-> ncalls + 1])
  /\ UNCHANGED <<up, faults, existenceIndex, ioQueue, worker, thread, purge, disk,
                 answer, pushed, bounded>>

getStatus ==
  /\ AsioIdle
  /\ NewCall([op |-> "status", arg |-> NoAsset])
  /\ Enqueue([op |-> "status", arg |-> NoAsset, rid |-> ncalls + 1])
  /\ UNCHANGED <<up, faults, existenceIndex, ioQueue, worker, thread, purge, disk,
                 answer, pushed, bounded>>

getStoredAssetIDsWithPrefix(p) ==
  /\ AsioIdle
  /\ NewCall([op |-> "ids", arg |-> p])
  /\ Enqueue([op |-> "ids", arg |-> p, rid |-> ncalls + 1])
  /\ UNCHANGED <<up, faults, existenceIndex, ioQueue, worker, thread, purge, disk,
                 answer, pushed, bounded>>

beginPurgeLocals ==
  /\ AsioIdle /\ ~purge.active /\ purges < MaxPurges
  /\ purge' = [active |-> TRUE, index |-> 0]
  /\ purges' = purges + 1
  /\ UNCHANGED <<up, faults, existenceIndex, workQueue, ioQueue, worker, thread, disk,
                 ncalls, call, answer, pushed, crashes, stops>>

\* The tick of a purge that goes on to the prefixes up to last.
PurgeTick(last) ==
  /\ AsioIdle /\ purge.active
  /\ Enqueue([op |-> "purgeLocals", arg |-> purge.index, rid |-> 0])
  /\ purge' = [active |-> purge.index + 1 <= last, index |-> purge.index + 1]
  /\ UNCHANGED <<up, faults, existenceIndex, ioQueue, worker, thread, disk, history>>

\* Mutants: the comparison with the last prefix is off by one.
onPurgeTimerOneMore == PurgeTick(MaxPrefix + 1)
onPurgeTimerOneLess == PurgeTick(MaxPrefix - 1)

\* The timer is armed exactly while a purge is active: one prefix per tick.
onPurgeTimer == PurgeTick(MaxPrefix)

----------------------------------------------------------------------------
(* storeAsset(asset, callback), called on the ASIO or the replication      *)
(* thread.  The existence index and the work queue each take their own     *)
(* lock, so the other threads run between the three steps.  Replication    *)
(* asks the master for its global ids only, so it stores no local asset.   *)

storeAsset(t, a) ==
  /\ Running /\ thread[t].pc = "idle" /\ (t = "repl" => a \notin Locals)
  /\ NewCall([op |-> "put", arg |-> a])
  /\ \/ /\ Uuid[a] \in existenceIndex
        /\ Post(<<Failed(ncalls + 1)>>)
        /\ UNCHANGED thread
     \/ /\ Uuid[a] \notin existenceIndex
        /\ thread' = [thread EXCEPT ![t] =
                        [pc |-> "add", rid |-> ncalls + 1, asset |-> a]]
        /\ UNCHANGED ioQueue
  /\ UNCHANGED <<up, faults, existenceIndex, workQueue, worker, purge, disk, answer,
                 pushed, bounded>>

addNewId(t) ==
  /\ Running /\ thread[t].pc = "add"
  /\ existenceIndex' = existenceIndex \cup {Uuid[thread[t].asset]}
  /\ thread' = [thread EXCEPT ![t].pc = "enqueue"]
  /\ UNCHANGED <<up, faults, workQueue, ioQueue, worker, purge, disk, history>>

enqueuePut(t) ==
  /\ Running /\ thread[t].pc = "enqueue"
  /\ Enqueue([op |-> "put", arg |-> thread[t].asset, rid |-> thread[t].rid])
  /\ thread' = [thread EXCEPT ![t] = NotCalling]
  /\ UNCHANGED <<up, faults, existenceIndex, ioQueue, worker, purge, disk, history>>

----------------------------------------------------------------------------
(* Handlers the io_service runs, in the order they were posted.            *)

NextHandler(kind) ==
  /\ AsioIdle /\ ioQueue # <<>> /\ Head(ioQueue).run = kind
  /\ ioQueue' = Tail(ioQueue)

\* The caller's own callback.
runCallback ==
  /\ NextHandler("callback")
  /\ LET h == Head(ioQueue) IN
       answer' = [answer EXCEPT ![h.rid] = Append(@, h.res)]
  /\ UNCHANGED <<up, faults, existenceIndex, workQueue, worker, thread, purge, disk,
                 ncalls, call, pushed, bounded>>

assetWriteFailed ==
  /\ NextHandler("assetWriteFailed")
  /\ existenceIndex' = existenceIndex \ {Head(ioQueue).id}
  /\ UNCHANGED <<up, faults, workQueue, worker, thread, purge, disk, history>>

\* A lock is taken for each id and for the queue.  One step stands for them: the
\* ids are of local assets, and the other threads only ask for one id at a time
\* and only store global assets.
unindexLocals ==
  /\ NextHandler("unindexLocals")
  /\ existenceIndex' = existenceIndex \ Head(ioQueue).ids
  /\ Enqueue([op |-> "deleteLocals", arg |-> Head(ioQueue).prefix, rid |-> 0])
  /\ UNCHANGED <<up, faults, worker, thread, purge, disk, history>>

\* Logs and nothing else.
ioLoopFailed ==
  /\ NextHandler("ioLoopFailed")
  /\ UNCHANGED <<up, faults, existenceIndex, workQueue, worker, thread, purge, disk,
                 history>>

----------------------------------------------------------------------------
(* The disk worker.                                                        *)

workLoop ==
  /\ up = "up" /\ worker.pc = "idle" /\ workQueue # <<>>
  /\ worker' = [pc |-> "run", req |-> Head(workQueue), pos |-> 0]
  /\ workQueue' = Tail(workQueue)
  /\ UNCHANGED <<up, existenceIndex, ioQueue, thread, purge, disk, faults,
                 history>>

WorkerAt(pc, op) == Running /\ worker.pc = pc /\ worker.req.op = op

\* The request is done: its handlers are posted and the loop goes round.
Finish(handlers) == worker' = Idle /\ Post(handlers)

Fault(kind) ==
  /\ kind \in Faults /\ faults < MaxFaults
  /\ faults' = faults + 1

NoFault == UNCHANGED faults

\* verifyAndopenSetForUUID opens both indexes of the directory.
OpenSet(p) ==
  [d \in Databases |->
     IF d[1] = p THEN OpenIndex(disk[d]) ELSE disk[d]]

TornOpenSets(p) ==
  LET g == <<p, "globals">>
      l == <<p, "locals">>
  IN   {[disk EXCEPT ![g] = x] : x \in TornOpens(disk[g])}
  \cup {[disk EXCEPT ![g] = OpenIndex(disk[g]), ![l] = x] :
          x \in TornOpens(disk[l])}

\* catch (const AssetStorageError&): the caller is told, the index is not.
StorageError == Finish(<<Failed(worker.req.rid)>>)

\* Mutants: the error is swallowed; the id is left in the index.
OtherErrorSwallowed == Finish(<<Callback(worker.req.rid, TRUE, NoAsset)>>)
OtherErrorKeepsId == Finish(<<Failed(worker.req.rid)>>)

\* catch (const std::exception&): the id is taken out of the index as well.
OtherError ==
  Finish(<<[run |-> "assetWriteFailed", id |-> Uuid[worker.req.arg]],
           Failed(worker.req.rid)>>)

\* performDiskWrite, first part: open the set, look for the asset.
diskWriteOpen ==
  /\ WorkerAt("run", "put")
  /\ LET a == worker.req.arg
         p == PrefixOf[Uuid[a]]
     IN \/ /\ Fault("open")
           /\ disk' \in TornOpenSets(p)
           /\ StorageError
        \/ /\ Fault("query")
           /\ disk' \in {disk, OpenSet(p)}
           /\ OtherError
        \/ /\ NoFault /\ dbAssetExists(disk[DatabaseOf(a)], Uuid[a])
           /\ disk' = OpenSet(p)
           /\ StorageError
        \/ /\ NoFault /\ ~dbAssetExists(disk[DatabaseOf(a)], Uuid[a])
           /\ disk' = OpenSet(p)
           /\ worker' = [worker EXCEPT !.pc = "write"]
           /\ UNCHANGED ioQueue
  /\ UNCHANGED <<up, existenceIndex, workQueue, thread, purge, history>>

\* Mutant: the caller is told when the data is written, before the row is.
AckBeforeRecord ==
  /\ WorkerAt("write", "put") /\ NoFault
  /\ LET d == DatabaseOf(worker.req.arg)
     IN /\ disk' = [disk EXCEPT ![d] = writeNewAsset(disk[d], worker.req.arg)]
        /\ worker' = [worker EXCEPT !.pc = "record",
                                    !.pos = NewAssetPosition(disk[d])]
  /\ Post(<<Callback(worker.req.rid, TRUE, NoAsset)>>)
  /\ UNCHANGED <<up, existenceIndex, workQueue, thread, purge, history>>

\* Second part: append the asset to the data file.
diskWriteData ==
  /\ WorkerAt("write", "put")
  /\ LET a == worker.req.arg
         d == DatabaseOf(a)
     IN \/ /\ NoFault
           /\ disk' = [disk EXCEPT ![d] = writeNewAsset(disk[d], a)]
           /\ worker' = [worker EXCEPT !.pc = "record",
                                       !.pos = NewAssetPosition(disk[d])]
           /\ UNCHANGED ioQueue
        \/ /\ Fault("write")
           /\ \E torn \in TornWrites(disk[d]) :
                disk' = [disk EXCEPT ![d] = torn]
           /\ StorageError
  /\ UNCHANGED <<up, existenceIndex, workQueue, thread, purge, history>>

\* Third part: insert the row.  asset_id is the primary key, so a row that is
\* there already makes the INSERT fail.
diskWriteRecord ==
  /\ WorkerAt("record", "put")
  /\ LET a == worker.req.arg
         d == DatabaseOf(a)
     IN \/ /\ NoFault /\ disk[d].position[Uuid[a]] = NoRow
           /\ disk' = [disk EXCEPT ![d] =
                         recordAssetPosition(disk[d], a, worker.pos)]
           /\ Finish(<<Callback(worker.req.rid, TRUE, NoAsset)>>)
           /\ pushed' = pushed \cup {a}
        \/ /\ \/ NoFault /\ disk[d].position[Uuid[a]] # NoRow
              \/ Fault("insert")
           /\ OtherError
           /\ UNCHANGED <<disk, pushed>>
  /\ UNCHANGED <<up, existenceIndex, workQueue, thread, purge, ncalls, call,
                 answer, bounded>>

\* DatabaseSet::getAsset looks in the globals first.
FindAsset(id) ==
  LET inGlobals == dbGetAsset(disk[<<PrefixOf[id], "globals">>], id)
      inLocals == dbGetAsset(disk[<<PrefixOf[id], "locals">>], id)
  IN IF inGlobals # NoAsset THEN inGlobals ELSE inLocals

\* Mutant: a failed read is left to the work loop's catch.
performDiskReadUncaught ==
  /\ WorkerAt("run", "get")
  /\ \/ NoFault /\ Finish(<<Callback(worker.req.rid, TRUE,
                                   FindAsset(worker.req.arg))>>)
     \/ Fault("read") /\ Finish(<<[run |-> "ioLoopFailed"]>>)
  /\ disk' = OpenSet(PrefixOf[worker.req.arg])
  /\ UNCHANGED <<up, existenceIndex, workQueue, thread, purge, history>>

performDiskRead ==
  /\ WorkerAt("run", "get")
  /\ LET id == worker.req.arg
         p == PrefixOf[id]
     IN \/ /\ NoFault /\ FindAsset(id) # NoAsset
           /\ disk' = OpenSet(p)
           /\ Finish(<<Callback(worker.req.rid, TRUE, FindAsset(id))>>)
        \/ /\ \/ NoFault /\ FindAsset(id) = NoAsset
              \/ Fault("read")
           /\ disk' = OpenSet(p)
           /\ Finish(<<Failed(worker.req.rid)>>)
        \/ /\ Fault("open")
           /\ disk' \in TornOpenSets(p)
           /\ Finish(<<Failed(worker.req.rid)>>)
  /\ UNCHANGED <<up, existenceIndex, workQueue, thread, purge, history>>

\* Not implemented: the callback is dropped.
performDiskPurge ==
  /\ WorkerAt("run", "purge")
  /\ NoFault /\ Finish(<<>>)
  /\ UNCHANGED <<up, existenceIndex, workQueue, thread, purge, disk, history>>

\* Opening an index that exists initializes it; one that does not is skipped.
OpenIfExists(d) ==
  [disk EXCEPT ![d] = IF @.idx = "absent" THEN @ ELSE OpenIndex(@)]

\* An exception that escapes processRequest is logged by the work loop.
LoopError == Finish(<<[run |-> "ioLoopFailed"]>>)

performDiskPurgeLocals ==
  /\ WorkerAt("run", "purgeLocals")
  /\ LET d == <<worker.req.arg, "locals">>
     IN \/ /\ NoFault
           /\ disk' = OpenIfExists(d)
           /\ Finish(<<[run |-> "unindexLocals",
                        ids |-> getContainedAssetIds(disk[d]),
                        prefix |-> worker.req.arg]>>)
        \/ Fault("list") /\ LoopError /\ disk' \in {disk, OpenIfExists(d)}
  /\ UNCHANGED <<up, existenceIndex, workQueue, thread, purge, history>>

\* Mutant: the path of the globals is removed.
removeGlobalsIndexFile ==
  /\ WorkerAt("run", "deleteLocals") /\ NoFault
  /\ disk' = [disk EXCEPT ![<<worker.req.arg, "globals">>] = RemoveIndex(@)]
  /\ worker' = [worker EXCEPT !.pc = "remove"]
  /\ UNCHANGED <<up, existenceIndex, workQueue, ioQueue, thread, purge, history>>

\* performLocalsPhysicalDeletion, first the index file ...
removeIndexFile ==
  /\ WorkerAt("run", "deleteLocals")
  /\ LET d == <<worker.req.arg, "locals">>
     IN \/ /\ NoFault
           /\ disk' = [disk EXCEPT ![d] = RemoveIndex(@)]
           /\ worker' = [worker EXCEPT !.pc = "remove"]
           /\ UNCHANGED ioQueue
        \/ Fault("remove") /\ LoopError /\ UNCHANGED disk
  /\ UNCHANGED <<up, existenceIndex, workQueue, thread, purge, history>>

\* ... then the data file.
removeDataFile ==
  /\ WorkerAt("remove", "deleteLocals")
  /\ LET d == <<worker.req.arg, "locals">>
     IN \/ /\ NoFault
           /\ disk' = [disk EXCEPT ![d] = RemoveData(@)]
           /\ Finish(<<>>)
        \/ Fault("remove") /\ LoopError /\ UNCHANGED disk
  /\ UNCHANGED <<up, existenceIndex, workQueue, thread, purge, history>>

performGetStatus ==
  /\ WorkerAt("run", "status") /\ NoFault
  /\ Finish(<<Callback(worker.req.rid, TRUE, NoAsset)>>)
  /\ UNCHANGED <<up, existenceIndex, workQueue, thread, purge, disk, history>>

performGetStoredAssetIds ==
  /\ WorkerAt("run", "ids")
  /\ LET d == <<worker.req.arg, "globals">>
     IN \/ /\ NoFault
           /\ disk' = OpenIfExists(d)
           /\ Finish(<<Callback(worker.req.rid, TRUE,
                                getContainedAssetIds(disk[d]))>>)
        \/ Fault("list") /\ LoopError /\ disk' \in {disk, OpenIfExists(d)}
  /\ UNCHANGED <<up, existenceIndex, workQueue, thread, purge, history>>

----------------------------------------------------------------------------
(* Stopping, crashing and starting.                                        *)

shutdown ==
  /\ up = "up" /\ stops < MaxStops
  /\ up' = "stopping" /\ stops' = stops + 1
  /\ UNCHANGED <<volatile, disk, faults, ncalls, call, answer, pushed, purges, crashes>>

VolatileLost ==
  /\ existenceIndex' = {} /\ workQueue' = <<>> /\ ioQueue' = <<>>
  /\ worker' = Idle /\ thread' = [t \in Threads |-> NotCalling]
  /\ purge' = NoPurge

\* The worker was joined and the io_service stopped: what is queued is lost.
stopped ==
  /\ up = "stopping" /\ worker.pc = "idle"
  /\ up' = "down" /\ VolatileLost
  /\ UNCHANGED <<disk, faults, history>>

\* What the files may hold when the process dies inside the worker's step.
CrashStates ==
  {disk} \cup
  CASE worker.pc = "run" /\ worker.req.op = "put" ->
         TornOpenSets(PrefixOf[Uuid[worker.req.arg]])
    [] worker.pc = "run" /\ worker.req.op = "get" ->
         TornOpenSets(PrefixOf[worker.req.arg])
    [] worker.pc = "write" ->
         LET d == DatabaseOf(worker.req.arg)
         IN {[disk EXCEPT ![d] = torn] : torn \in TornWrites(disk[d])}
    [] OTHER -> {}

crash ==
  /\ Running /\ crashes < MaxCrashes
  /\ crashes' = crashes + 1
  /\ up' = "down" /\ disk' \in CrashStates /\ VolatileLost
  /\ UNCHANGED <<faults, ncalls, call, answer, pushed, purges, stops>>

\* Mutant: the existence index is loaded from the local databases only.
startLocalsOnly ==
  /\ up = "down" /\ up' = "up"
  /\ existenceIndex' =
       UNION {getContainedAssetIds(disk[<<p, "locals">>]) : p \in Prefixes}
  /\ UNCHANGED <<workQueue, ioQueue, worker, thread, purge, disk, faults,
                 history>>

\* The constructors of VFSBackend and ExistenceIndex.  A row is loaded
\* whatever its position; an index file without tables fails the query and
\* the exception ends the process.
start ==
  /\ up = "down"
  /\ IF \E d \in Databases : disk[d].idx = "blank"
     THEN up' = "failed" /\ UNCHANGED existenceIndex
     ELSE /\ up' = "up"
          /\ existenceIndex' =
               UNION {getContainedAssetIds(disk[d]) : d \in Databases}
  /\ UNCHANGED <<workQueue, ioQueue, worker, thread, purge, disk, faults,
                 history>>

----------------------------------------------------------------------------
CallerStep ==
  \/ \E id \in Ids : getAsset(id) \/ purgeAsset(id)
  \/ getStatus
  \/ \E p \in Prefixes : getStoredAssetIDsWithPrefix(p)
  \/ beginPurgeLocals
  \/ \E t \in Threads, a \in Assets : storeAsset(t, a)

StoreStep(t) == addNewId(t) \/ enqueuePut(t)

HandlerStep ==
  runCallback \/ assetWriteFailed \/ unindexLocals \/ ioLoopFailed

WorkerStep ==
  \/ workLoop
  \/ diskWriteOpen \/ diskWriteData \/ diskWriteRecord
  \/ performDiskRead
  \/ performDiskPurge \/ performDiskPurgeLocals
  \/ removeIndexFile \/ removeDataFile
  \/ performGetStatus \/ performGetStoredAssetIds

ProcessStep == shutdown \/ stopped \/ crash \/ start

Next ==
  \/ CallerStep
  \/ \E t \in Threads : StoreStep(t)
  \/ HandlerStep
  \/ onPurgeTimer
  \/ WorkerStep
  \/ ProcessStep

Spec == Init /\ [][Next]_vars

\* Every thread that can run eventually runs; callers may stop calling.
Fairness ==
  /\ \A t \in Threads : WF_vars(StoreStep(t))
  /\ WF_vars(HandlerStep) /\ WF_vars(onPurgeTimer) /\ WF_vars(WorkerStep)

FairSpec == Spec /\ Fairness

----------------------------------------------------------------------------
(* Properties.                                                             *)

\* Every variable holds a value of its C++ type.
TypeOK ==
  /\ up \in {"up", "stopping", "down", "failed"}
  /\ existenceIndex \in SUBSET Ids
  /\ workQueue \in Seq(Request) /\ ioQueue \in Seq(Handler)
  /\ worker \in WorkerState /\ thread \in [Threads -> CallerState]
  /\ purge \in [active : BOOLEAN, index : 0..(MaxPrefix + 1)]
  /\ disk \in [Databases -> Database]
  /\ ncalls \in 0..MaxCalls
  /\ call \in [Calls -> Call]
  /\ answer \in [Calls -> Seq(Result)]
  /\ pushed \in SUBSET Assets
  /\ faults \in 0..MaxFaults
  /\ purges \in 0..MaxPurges /\ crashes \in 0..MaxCrashes
  /\ stops \in 0..MaxStops

\* Whatever fails, crashes or is purged, a row of an index file always points
\* at a whole asset with that row's id (writeNewAsset before
\* recordAssetPosition, the index removed before the data).
RowsAreSound == \A d \in Databases, id \in Ids : RowIsSound(disk[d], id)

\* A get that succeeds hands over an asset with the id that was asked for,
\* never other bytes of the data file.
GetReturnsTheAsset ==
  \A r \in 1..ncalls : call[r].op = "get" =>
    \A i \in DOMAIN answer[r] : answer[r][i].ok =>
      answer[r][i].val \in Assets /\ Uuid[answer[r][i].val] = call[r].arg

Acked(a) ==
  \E r \in 1..ncalls : /\ call[r] = [op |-> "put", arg |-> a]
                       /\ \E i \in DOMAIN answer[r] : answer[r][i].ok

Globals == Assets \ Locals

\* A global asset whose put was acknowledged, or that was handed to push
\* replication, is on disk with a row of its own from then on, across
\* crashes, restarts, failures and purges.
AckedStored ==
  \A a \in Globals : Acked(a) \/ a \in pushed =>
    RowContent(disk[DatabaseOf(a)], Uuid[a]) = a

\* Everything that may still run, or has run, the callback of call r.
Places(r) ==
       {<<"thread", t>> : t \in {u \in Threads : thread[u].rid = r}}
  \cup {<<"queue", i>> : i \in {j \in DOMAIN workQueue : workQueue[j].rid = r}}
  \cup (IF worker.req.rid = r THEN {<<"worker">>} ELSE {})
  \cup {<<"io", i>> : i \in {j \in DOMAIN ioQueue :
                               /\ ioQueue[j].run = "callback"
                               /\ ioQueue[j].rid = r}}
  \cup {<<"answer", i>> : i \in DOMAIN answer[r]}

\* A callback is held in one place at most, so it never runs twice, whichever
\* of the error paths of the worker a request takes.
CallbackOnce == \A r \in Calls : Cardinality(Places(r)) <= 1

\* Assets are immutable: once a global id has a row, the asset it holds
\* never changes and never goes away.
GlobalsImmutable ==
  [][\A a \in Globals :
       LET d == DatabaseOf(a)
           held == RowContent(disk[d], Uuid[a])
       IN held # NoAsset => RowContent(disk'[d], Uuid[a]) = held]_vars

StoredGlobals ==
  {a \in Globals : RowContent(disk[DatabaseOf(a)], Uuid[a]) = a}

Store == INSTANCE WriteOnceStore
           WITH Assets <- Globals, stored <- StoredGlobals,
                confirmed <- {a \in Globals : Acked(a)}

\* Seen from its callers, the backend with its threads, queues, files, failures,
\* crashes, restarts and purges is a write-once store of the global assets:
\* storeAsset adds one asset, for an id that has none, and its callback says
\* so only afterwards; no other step changes what is stored or confirmed.
ImplementsWriteOnceStore == Store!Spec

\* An acknowledged global asset can be read back: the index knows it and
\* DatabaseSet::getAsset finds that asset.
AckedReadable ==
  \A a \in Globals : Acked(a) /\ up = "up" =>
    Uuid[a] \in existenceIndex /\ FindAsset(Uuid[a]) = a

PutInFlight(id) ==
  \/ \E t \in Threads : thread[t].pc = "enqueue" /\ Uuid[thread[t].asset] = id
  \/ \E i \in DOMAIN workQueue :
       workQueue[i].op = "put" /\ Uuid[workQueue[i].arg] = id
  \/ worker.req.op = "put" /\ Uuid[worker.req.arg] = id

UnindexPending(id) ==
  \E i \in DOMAIN ioQueue :
    \/ ioQueue[i].run = "assetWriteFailed" /\ ioQueue[i].id = id
    \/ ioQueue[i].run = "unindexLocals" /\ id \in ioQueue[i].ids

\* assetExists says yes to an id that has no asset and gets none: no row, no put
\* on its way, no removal from the index posted.  Gets find nothing and puts are
\* refused until the server starts again.
Stranded(id) ==
  /\ id \in existenceIndex
  /\ \A k \in Kinds : disk[<<PrefixOf[id], k>>].position[id] = NoRow
  /\ ~PutInFlight(id) /\ ~UnindexPending(id)

\* assetExists "Returns true if the asset is stored in the backend, false if
\* not" (IAsyncStorageBackend.h).  The code breaks that in one way only: a put
\* whose files cannot be opened or written ends in catch (AssetStorageError),
\* which leaves the id in the index.  Nothing else strands the id of a global
\* asset: not a failed INSERT, a second put of the id on the other thread, a
\* purge, a crash or a restart.  (A purge of the locals does race with puts of
\* local assets it did not list.)
OnlyStorageErrorsStrand ==
  [][\A id \in {Uuid[a] : a \in Globals} :
       Stranded(id)' /\ ~Stranded(id) =>
         /\ worker.req.op = "put" /\ Uuid[worker.req.arg] = id
         /\ worker.pc \in {"run", "write"} /\ faults' = faults + 1]_vars

\* The server comes up again after any crash or shutdown: an index file
\* without tables is an empty database.
StartSucceeds == up # "failed"

WentDown == stops + crashes > 0

\* Every get, put and status request is answered, whatever fails on the disk,
\* unless the server goes down first (shutdown drops the requests that are
\* still queued).  So is an id listing, unless its index file cannot be read:
\* performGetStoredAssetIds catches nothing.
EveryCallAnswered ==
  \A r \in Calls :
    (r <= ncalls /\ call[r].op # "purge") ~>
      \/ answer[r] # <<>> \/ WentDown
      \/ call[r].op = "ids" /\ faults > 0

\* A purge of the locals gets to every prefix: a local asset that is stored
\* when the purge starts is removed, unless the server goes down first or a
\* file cannot be listed or removed.
PurgeRemovesLocals ==
  \A a \in Locals :
    (/\ purge.active /\ purge.index = 0
     /\ RowContent(disk[DatabaseOf(a)], Uuid[a]) = a) ~>
      \/ disk[DatabaseOf(a)].position[Uuid[a]] = NoRow \/ WentDown
      \/ faults > 0
=============================================================================
