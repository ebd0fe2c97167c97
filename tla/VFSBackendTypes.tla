--------------------------- MODULE VFSBackendTypes ---------------------------
(***************************************************************************)
(* The inductive invariant of the storage backend, what every step does to *)
(* the databases, and type correctness.                                    *)
(***************************************************************************)
EXTENDS VFSBackend, VFSDatabaseProofs

----------------------------------------------------------------------------
(* The inductive invariant.                                                *)

\* A caller inside storeAsset holds the asset of its call.
ThreadInv ==
  \A t \in Threads : thread[t].pc # "idle" =>
    /\ thread[t].asset \in Assets /\ thread[t].rid \in 1..ncalls
    /\ call[thread[t].rid] = [op |-> "put", arg |-> thread[t].asset]

\* The purge timer never runs past the last prefix.
PurgeInv == purge.active => purge.index <= MaxPrefix

DiskInv ==
  \A d \in Databases :
    WellFormed(disk[d]) /\ \A id \in Ids : RowIsSound(disk[d], id)

\* Between the steps of a request the worker relies on what it left on disk.
WorkerInv ==
  /\ worker.pc = "write" => worker.req.op = "put"
  /\ worker.pc = "record" =>
       /\ worker.req.op = "put"
       /\ LET db == disk[DatabaseOf(worker.req.arg)]
          IN /\ worker.pos < Len(db.data)
             /\ db.data[worker.pos + 1] = worker.req.arg
  /\ worker.pc = "remove" =>
       /\ worker.req.op = "deleteLocals"
       /\ \A id \in Ids :
            disk[<<worker.req.arg, "locals">>].position[id] = NoRow

\* A request that carries a callback is the request of that callback's call
\* (n calls have been made, c gives them).
RequestOK(req, n, c) ==
  req.rid # 0 => /\ req.rid \in 1..n
                 /\ c[req.rid] = [op |-> req.op, arg |-> req.arg]

RequestsInv ==
  /\ \A i \in DOMAIN workQueue : RequestOK(workQueue[i], ncalls, call)
  /\ RequestOK(worker.req, ncalls, call)

Stored(a, files) == RowContent(files[DatabaseOf(a)], Uuid[a]) = a

\* What a result says is true: of the asset read, or of the asset stored.
ResultOK(r, res, n, c, files) ==
  /\ r \in 1..n
  /\ res.ok /\ c[r].op = "get" => res.val \in Assets /\ Uuid[res.val] = c[r].arg
  /\ res.ok /\ c[r].op = "put" /\ c[r].arg \in Globals => Stored(c[r].arg, files)

HandlerOK(h, n, c, files) ==
  h.run = "callback" => ResultOK(h.rid, h.res, n, c, files)

ResultsInv ==
  /\ \A i \in DOMAIN ioQueue : HandlerOK(ioQueue[i], ncalls, call, disk)
  /\ \A r \in Calls : \A i \in DOMAIN answer[r] :
       ResultOK(r, answer[r][i], ncalls, call, disk)
  /\ \A a \in pushed \cap Globals : Stored(a, disk)

Inv ==
  /\ TypeOK /\ ThreadInv /\ PurgeInv /\ DiskInv /\ WorkerInv
  /\ RequestsInv /\ ResultsInv

----------------------------------------------------------------------------
(* Requests, handlers, databases.                                          *)

\* Which argument and callback each class of request carries.
LEMMA RequestFields ==
  ASSUME NEW req \in Request \cup {NoRequest}
  PROVE  /\ req.op = "put" => req.arg \in Assets /\ req.rid \in Calls
         /\ req.op \in {"get", "purge"} => req.arg \in Ids /\ req.rid \in Calls
         /\ req.op = "ids" => req.arg \in Prefixes /\ req.rid \in Calls
         /\ req.op = "status" => req.rid \in Calls
         /\ req.op \in {"purgeLocals", "deleteLocals"} =>
              req.arg \in Prefixes /\ req.rid = 0
BY DEF Request, NoRequest

\* An asset's database is one of the databases; a global asset's is no locals
\* database.
LEMMA DatabaseOfType ==
  ASSUME NEW a \in Assets
  PROVE  /\ DatabaseOf(a) \in Databases /\ Uuid[a] \in Ids
         /\ PrefixOf[Uuid[a]] \in Prefixes
         /\ a \in Globals => \A p : DatabaseOf(a) # <<p, "locals">>
BY AssetAssumption, BackendAssumption
   DEF DatabaseOf, Databases, Prefixes, Kinds, Globals

----------------------------------------------------------------------------
(* How the disk changes.                                                   *)

\* Every database of the new disk has the old rows, and more data at most.
DiskGrows(new) ==
  /\ new \in [Databases -> Database]
  /\ \A d \in Databases : WellFormed(new[d]) /\ Grown(disk[d], new[d])

\* What every step does to the disk: the rows stay sound, a global asset stays
\* where it is, and at most one (b) is new.
DiskKept ==
  /\ disk' \in [Databases -> Database]
  /\ DiskInv'
  /\ \A a \in Globals :
       LET d == DatabaseOf(a) IN
       RowContent(disk[d], Uuid[a]) # NoAsset =>
         RowContent(disk'[d], Uuid[a]) = RowContent(disk[d], Uuid[a])
  /\ \E b : \A a \in Globals :
       LET d == DatabaseOf(a) IN
       RowContent(disk'[d], Uuid[a]) = a /\ a # b =>
         RowContent(disk[d], Uuid[a]) = a

\* One database grows, the others stay.
LEMMA OneGrows ==
  ASSUME TypeOK, DiskInv, NEW d \in Databases, NEW db,
         WellFormed(db), Grown(disk[d], db)
  PROVE  DiskGrows([disk EXCEPT ![d] = db])
<1>1. disk \in [Databases -> Database] /\ db \in Database
  BY DEF TypeOK, WellFormed
<1>2. \A e \in Databases : WellFormed(disk[e]) /\ Grown(disk[e], disk[e])
  BY <1>1 DEF DiskInv, Grown, WellFormed, Database
<1> QED BY <1>1, <1>2 DEF DiskGrows

\* The disk as it is counts as grown.
LEMMA SameGrows ==
  ASSUME TypeOK, DiskInv
  PROVE  DiskGrows(disk)
BY DEF TypeOK, DiskInv, DiskGrows, Grown, WellFormed, Database

\* Opening a directory's two indexes, completely or not.
LEMMA OpenSetGrows ==
  ASSUME TypeOK, DiskInv, NEW p \in Prefixes
  PROVE  /\ DiskGrows(OpenSet(p))
         /\ \A new \in TornOpenSets(p) : DiskGrows(new)
<1> DEFINE g == <<p, "globals">>
           l == <<p, "locals">>
<1>1. disk \in [Databases -> Database] /\ g \in Databases /\ l \in Databases
  BY DEF TypeOK, Databases, Kinds
<1>2. \A d \in Databases : WellFormed(disk[d]) /\ Grown(disk[d], disk[d])
  BY <1>1 DEF DiskInv, Grown, WellFormed, Database
<1>3. \A d \in Databases :
        /\ WellFormed(OpenIndex(disk[d])) /\ Grown(disk[d], OpenIndex(disk[d]))
        /\ \A x \in TornOpens(disk[d]) : WellFormed(x) /\ Grown(disk[d], x)
  BY <1>2, OpenGrows
<1>4. \A db : WellFormed(db) => db \in Database
  BY DEF WellFormed
<1>5. DiskGrows(OpenSet(p))
  BY <1>1, <1>2, <1>3, <1>4 DEF DiskGrows, OpenSet
<1>6. ASSUME NEW x \in TornOpens(disk[g])
      PROVE  DiskGrows([disk EXCEPT ![g] = x])
  BY Zenon, <1>1, <1>3, OneGrows
<1>7. ASSUME NEW x \in TornOpens(disk[l])
      PROVE  DiskGrows([disk EXCEPT ![g] = OpenIndex(disk[g]), ![l] = x])
  BY <1>1, <1>2, <1>3, <1>4 DEF DiskGrows
<1> QED BY <1>5, <1>6, <1>7 DEF TornOpenSets

\* Opening an index that exists.
LEMMA OpenIfExistsGrows ==
  ASSUME TypeOK, DiskInv, NEW d \in Databases
  PROVE  DiskGrows(OpenIfExists(d))
<1>1. WellFormed(disk[d]) /\ Grown(disk[d], disk[d])
  BY DEF TypeOK, DiskInv, Grown, WellFormed, Database
<1>2. WellFormed(OpenIndex(disk[d])) /\ Grown(disk[d], OpenIndex(disk[d]))
  BY <1>1, OpenGrows
<1> DEFINE db == IF disk[d].idx = "absent" THEN disk[d] ELSE OpenIndex(disk[d])
<1>3. OpenIfExists(d) = [disk EXCEPT ![d] = db]
  BY DEF OpenIfExists
<1>4. WellFormed(db) /\ Grown(disk[d], db)
  BY <1>1, <1>2
<1>5. DiskGrows([disk EXCEPT ![d] = db])
  <2> HIDE DEF db
  <2> QED BY <1>4, OneGrows
<1> QED BY <1>3, <1>5

\* A disk that grows keeps its rows.
LEMMA GrowingKeeps ==
  ASSUME TypeOK, DiskInv, DiskGrows(disk')
  PROVE  DiskKept
<1>1. ASSUME NEW d \in Databases, NEW id \in Ids
      PROVE  /\ WellFormed(disk'[d]) /\ RowIsSound(disk'[d], id)
             /\ RowContent(disk'[d], id) = RowContent(disk[d], id)
  BY <1>1, GrownKeepsRows DEF DiskInv, DiskGrows
<1>2. DiskInv'
  BY <1>1 DEF DiskInv, DiskGrows
<1>3. ASSUME NEW a \in Globals
      PROVE  RowContent(disk'[DatabaseOf(a)], Uuid[a]) =
             RowContent(disk[DatabaseOf(a)], Uuid[a])
  BY <1>1, <1>3, DatabaseOfType DEF Globals
<1> QED BY <1>2, <1>3 DEF DiskKept, DiskGrows

\* The data file of an asset is written, or a write of it is torn.
LEMMA WritingGrows ==
  ASSUME TypeOK, DiskInv, NEW a \in Assets
  PROVE  LET d == DatabaseOf(a) IN
         /\ DiskGrows([disk EXCEPT ![d] = writeNewAsset(disk[d], a)])
         /\ \A torn \in TornWrites(disk[d]) : DiskGrows([disk EXCEPT ![d] = torn])
<1> DEFINE d == DatabaseOf(a)
<1>1. d \in Databases /\ WellFormed(disk[d])
  BY DatabaseOfType DEF DiskInv
<1>2. DiskGrows([disk EXCEPT ![d] = writeNewAsset(disk[d], a)])
  BY <1>1, WriteGrows, OneGrows
<1>3. ASSUME NEW torn \in TornWrites(disk[d])
      PROVE  DiskGrows([disk EXCEPT ![d] = torn])
  BY <1>1, <1>3, TornWriteGrows, OneGrows
<1> QED BY <1>2, <1>3

\* A crash leaves every row and its asset as they were.
LEMMA CrashGrows ==
  ASSUME TypeOK, DiskInv, WorkerInv, NEW new \in CrashStates
  PROVE  DiskGrows(new)
<1>1. worker.req \in Request \cup {NoRequest}
  BY DEF TypeOK, WorkerState
<1>2. CASE new = disk
  BY <1>2, SameGrows
<1>3. CASE /\ worker.pc = "run" /\ worker.req.op = "put"
           /\ new \in TornOpenSets(PrefixOf[Uuid[worker.req.arg]])
  BY <1>1, <1>3, RequestFields, DatabaseOfType, OpenSetGrows
<1>4. CASE /\ worker.pc = "run" /\ worker.req.op = "get"
           /\ new \in TornOpenSets(PrefixOf[worker.req.arg])
  <2>1. PrefixOf[worker.req.arg] \in Prefixes
    BY <1>1, <1>4, RequestFields, BackendAssumption DEF Prefixes
  <2> QED BY <1>4, <2>1, OpenSetGrows
<1>5. CASE /\ worker.pc = "write"
           /\ \E torn \in TornWrites(disk[DatabaseOf(worker.req.arg)]) :
                new = [disk EXCEPT ![DatabaseOf(worker.req.arg)] = torn]
  <2>1. worker.req.arg \in Assets
    BY <1>1, <1>5, RequestFields DEF WorkerInv
  <2> QED BY Zenon, <1>5, <2>1, WritingGrows
<1> QED BY <1>2, <1>3, <1>4, <1>5 DEF CrashStates

\* Inserting the row of the asset just written.
LEMMA RecordKeeps ==
  ASSUME TypeOK, DiskInv, WorkerInv, worker.pc = "record",
         LET a == worker.req.arg
             d == DatabaseOf(a)
         IN /\ disk[d].position[Uuid[a]] = NoRow
            /\ disk' = [disk EXCEPT ![d] =
                          recordAssetPosition(disk[d], a, worker.pos)]
  PROVE  /\ DiskKept
         /\ LET a == worker.req.arg
            IN RowContent(disk'[DatabaseOf(a)], Uuid[a]) = a
<1> DEFINE a == worker.req.arg
           d == DatabaseOf(a)
           new == recordAssetPosition(disk[d], a, worker.pos)
<1>1. /\ a \in Assets /\ d \in Databases /\ Uuid[a] \in Ids
      /\ worker.pos \in Nat
  BY RequestFields, DatabaseOfType DEF TypeOK, WorkerState, WorkerInv
<1>2. /\ WellFormed(disk[d]) /\ worker.pos < Len(disk[d].data)
      /\ disk[d].data[worker.pos + 1] = a
  BY <1>1 DEF DiskInv, WorkerInv
<1>3. /\ WellFormed(new)
      /\ RowIsSound(new, Uuid[a]) /\ RowContent(new, Uuid[a]) = a
      /\ \A id \in Ids \ {Uuid[a]} :
           /\ RowIsSound(disk[d], id) => RowIsSound(new, id)
           /\ RowContent(new, id) = RowContent(disk[d], id)
  BY SMTT(30), <1>1, <1>2, RecordIsSound
<1> HIDE DEF new
<1>4. /\ disk \in [Databases -> Database] /\ new \in Database
      /\ disk' = [disk EXCEPT ![d] = new]
  BY <1>3 DEF TypeOK, WellFormed, new
<1>5. /\ disk' \in [Databases -> Database] /\ disk'[d] = new
      /\ \A e \in Databases \ {d} : disk'[e] = disk[e]
  BY <1>1, <1>4
<1>6. DiskInv'
  BY <1>1, <1>3, <1>5 DEF DiskInv
<1>7. RowContent(disk[d], Uuid[a]) = NoAsset
  BY DEF RowContent
<1>8. ASSUME NEW b \in Globals,
             RowContent(disk[DatabaseOf(b)], Uuid[b]) # NoAsset
      PROVE  RowContent(disk'[DatabaseOf(b)], Uuid[b]) =
             RowContent(disk[DatabaseOf(b)], Uuid[b])
  <2>1. DatabaseOf(b) \in Databases /\ Uuid[b] \in Ids
    BY <1>8, DatabaseOfType DEF Globals
  <2> HIDE DEF d
  <2>2. CASE DatabaseOf(b) # d
    BY <1>5, <2>1, <2>2
  <2>3. CASE DatabaseOf(b) = d
    BY SMTT(30), <1>3, <1>5, <1>7, <1>8, <2>1, <2>3
  <2> QED BY <2>2, <2>3
<1>9. RowContent(disk'[d], Uuid[a]) = a
  BY <1>3, <1>5
<1>10. ASSUME NEW b \in Globals, b # a,
              RowContent(disk'[DatabaseOf(b)], Uuid[b]) = b
       PROVE  RowContent(disk[DatabaseOf(b)], Uuid[b]) = b
  <2>1. DatabaseOf(b) \in Databases /\ Uuid[b] \in Ids
    BY <1>10, DatabaseOfType DEF Globals
  <2> HIDE DEF d, a
  <2>2. CASE DatabaseOf(b) # d
    BY <1>5, <1>10, <2>1, <2>2
  <2>3. CASE DatabaseOf(b) = d /\ Uuid[b] # Uuid[a]
    BY <1>3, <1>5, <1>10, <2>1, <2>3
  <2>4. CASE DatabaseOf(b) = d /\ Uuid[b] = Uuid[a]
    BY <1>9, <1>10, <2>4
  <2> QED BY <2>2, <2>3, <2>4
<1> QED BY <1>5, <1>6, <1>8, <1>9, <1>10 DEF DiskKept

\* Removing a file of a local database: the index, or the data of a database
\* that has no row.
LEMMA RemoveKeeps ==
  ASSUME TypeOK, DiskInv, NEW p \in Prefixes, NEW db, WellFormed(db),
         \A id \in Ids : RowIsSound(db, id),
         disk' = [disk EXCEPT ![<<p, "locals">>] = db]
  PROVE  DiskKept
<1> DEFINE d == <<p, "locals">>
<1>1. /\ d \in Databases /\ db \in Database
      /\ disk \in [Databases -> Database]
  BY DEF Databases, Kinds, WellFormed, TypeOK
<1>2. /\ disk' \in [Databases -> Database] /\ disk'[d] = db
      /\ \A e \in Databases \ {d} : disk'[e] = disk[e]
  BY <1>1
<1>3. DiskInv'
  BY <1>2 DEF DiskInv
<1>4. ASSUME NEW a \in Globals
      PROVE  RowContent(disk'[DatabaseOf(a)], Uuid[a]) =
             RowContent(disk[DatabaseOf(a)], Uuid[a])
  <2>1. DatabaseOf(a) \in Databases \ {d}
    BY <1>4, DatabaseOfType DEF Globals
  <2> QED BY <1>2, <2>1
<1> QED BY <1>2, <1>3, <1>4 DEF DiskKept

\* Every step keeps the databases sound and the global assets in place.
LEMMA DiskStep ==
  ASSUME TypeOK, DiskInv, WorkerInv, Next
  PROVE  DiskKept
<1>1. worker.req \in Request \cup {NoRequest}
  BY DEF TypeOK, WorkerState
<1>2. CASE UNCHANGED disk
  BY <1>2, SameGrows, GrowingKeeps
<1>3. CASE diskWriteOpen
  <2> DEFINE p == PrefixOf[Uuid[worker.req.arg]]
  <2>1. p \in Prefixes
    BY <1>1, <1>3, RequestFields, DatabaseOfType DEF diskWriteOpen, WorkerAt
  <2>2. disk' \in TornOpenSets(p) \/ disk' = OpenSet(p) \/ disk' = disk
    BY <1>3 DEF diskWriteOpen
  <2> HIDE DEF p
  <2> QED BY <2>1, <2>2, OpenSetGrows, SameGrows, GrowingKeeps
<1>4. CASE diskWriteData
  <2>1. worker.req.arg \in Assets
    BY <1>1, <1>4, RequestFields DEF diskWriteData, WorkerAt
  <2> QED BY Zenon, <1>4, <2>1, WritingGrows, GrowingKeeps DEF diskWriteData
<1>5. CASE diskWriteRecord
  BY Zenon, <1>2, <1>5, RecordKeeps DEF diskWriteRecord, WorkerAt
<1>6. CASE performDiskRead
  <2> DEFINE p == PrefixOf[worker.req.arg]
  <2>1. p \in Prefixes
    BY SMTT(30), <1>1, <1>6, RequestFields, BackendAssumption
       DEF performDiskRead, WorkerAt, Prefixes
  <2>2. disk' \in TornOpenSets(p) \/ disk' = OpenSet(p)
    BY <1>6 DEF performDiskRead
  <2> HIDE DEF p
  <2> QED BY <2>1, <2>2, OpenSetGrows, GrowingKeeps
<1>7. CASE performDiskPurgeLocals \/ performGetStoredAssetIds
  <2>1. worker.req.arg \in Prefixes
    BY <1>1, <1>7, RequestFields
       DEF performDiskPurgeLocals, performGetStoredAssetIds, WorkerAt
  <2>2. PICK k \in Kinds : \/ disk' = disk
                           \/ disk' = OpenIfExists(<<worker.req.arg, k>>)
    BY <1>7 DEF performDiskPurgeLocals, performGetStoredAssetIds, Kinds
  <2>3. <<worker.req.arg, k>> \in Databases
    BY <2>1 DEF Databases
  <2> QED BY <2>2, <2>3, OpenIfExistsGrows, SameGrows, GrowingKeeps
<1>8. CASE removeIndexFile
  <2>1. worker.req.arg \in Prefixes
    BY <1>1, <1>8, RequestFields DEF removeIndexFile, WorkerAt
  <2> DEFINE d == <<worker.req.arg, "locals">>
  <2>2. WellFormed(disk[d])
    BY <2>1 DEF DiskInv, Databases, Kinds
  <2>3. CASE disk' = [disk EXCEPT ![d] = RemoveIndex(disk[d])]
    BY Zenon, <2>1, <2>2, <2>3, RemoveIsSound, RemoveKeeps
  <2> QED BY <1>2, <1>8, <2>3 DEF removeIndexFile
<1>9. CASE removeDataFile
  <2>1. worker.req.arg \in Prefixes
    BY <1>1, <1>9, RequestFields DEF removeDataFile, WorkerAt
  <2> DEFINE d == <<worker.req.arg, "locals">>
  <2>2. WellFormed(disk[d]) /\ \A id \in Ids : disk[d].position[id] = NoRow
    BY <1>9, <2>1 DEF DiskInv, Databases, Kinds, WorkerInv, removeDataFile, WorkerAt
  <2>3. /\ WellFormed(RemoveData(disk[d]))
        /\ \A id \in Ids : RowIsSound(RemoveData(disk[d]), id)
    BY ZenonT(30), <2>2, RemoveIsSound DEF RowIsSound
  <2>4. CASE disk' = [disk EXCEPT ![d] = RemoveData(disk[d])]
    BY ZenonT(30), <2>1, <2>3, <2>4, RemoveKeeps
  <2> QED BY <1>2, <1>9, <2>4 DEF removeDataFile
<1>10. CASE crash
  BY <1>10, CrashGrows, GrowingKeeps DEF crash
<1>11. CASE CallerStep
  BY Zenon, <1>2, <1>11
     DEF CallerStep, getAsset, purgeAsset, getStatus,
         getStoredAssetIDsWithPrefix, beginPurgeLocals, storeAsset
<1>12. CASE (\E t \in Threads : StoreStep(t)) \/ HandlerStep \/ onPurgeTimer
  BY ZenonT(30), <1>2, <1>12
     DEF StoreStep, addNewId, enqueuePut, HandlerStep, runCallback,
         assetWriteFailed, unindexLocals, ioLoopFailed, onPurgeTimer, PurgeTick
<1>13. CASE \/ workLoop \/ performDiskPurge \/ performGetStatus
            \/ shutdown \/ stopped \/ start
  BY Zenon, <1>2, <1>13
     DEF workLoop, performDiskPurge, performGetStatus, shutdown, stopped, start
<1> QED BY <1>3, <1>4, <1>5, <1>6, <1>7, <1>8, <1>9, <1>10, <1>11, <1>12, <1>13
        DEF Next, WorkerStep, ProcessStep

----------------------------------------------------------------------------
(* Type correctness.                                                       *)

\* The handlers the worker and the callers post.
LEMMA HandlerTypes ==
  /\ \A r \in Calls, ok \in BOOLEAN, v \in Unit \cup {NoAsset} \cup SUBSET Ids :
       Callback(r, ok, v) \in Handler
  /\ \A r \in Calls : Failed(r) \in Handler
  /\ \A id \in Ids : [run |-> "assetWriteFailed", id |-> id] \in Handler
  /\ \A ids \in SUBSET Ids, p \in Prefixes :
       [run |-> "unindexLocals", ids |-> ids, prefix |-> p] \in Handler
  /\ [run |-> "ioLoopFailed"] \in Handler
BY Zenon DEF Handler, Callback, Failed, Result

\* Which fields each kind of handler has.
LEMMA HandlerFields ==
  ASSUME NEW h \in Handler
  PROVE  /\ h.run = "callback" => h.rid \in Calls /\ h.res \in Result
         /\ h.run = "assetWriteFailed" => h.id \in Ids
         /\ h.run = "unindexLocals" => h.ids \in SUBSET Ids /\ h.prefix \in Prefixes
BY DEF Handler

\* The requests the callers, the timer and unindexLocals queue.
LEMMA RequestTypes ==
  /\ \A id \in Ids, r \in Calls :
       /\ [op |-> "get", arg |-> id, rid |-> r] \in Request
       /\ [op |-> "purge", arg |-> id, rid |-> r] \in Request
  /\ \A a \in Assets, r \in Calls : [op |-> "put", arg |-> a, rid |-> r] \in Request
  /\ \A p \in Prefixes, r \in Calls :
       [op |-> "ids", arg |-> p, rid |-> r] \in Request
  /\ \A r \in Calls : [op |-> "status", arg |-> NoAsset, rid |-> r] \in Request
  /\ \A p \in Prefixes :
       /\ [op |-> "purgeLocals", arg |-> p, rid |-> 0] \in Request
       /\ [op |-> "deleteLocals", arg |-> p, rid |-> 0] \in Request
BY DEF Request

\* A new call has the next number.
LEMMA NewCallType ==
  ASSUME TypeOK, NEW c \in Call, NewCall(c)
  PROVE  /\ ncalls + 1 \in Calls /\ ncalls' = ncalls + 1 /\ ncalls' \in 0..MaxCalls
         /\ call' \in [Calls -> Call] /\ call'[ncalls + 1] = c
         /\ \A r \in 1..ncalls : r \in Calls /\ call'[r] = call[r]
BY BackendAssumption DEF TypeOK, NewCall, Calls

\* The calls that can be made.
LEMMA CallTypes ==
  /\ \A id \in Ids : /\ [op |-> "get", arg |-> id] \in Call
                     /\ [op |-> "purge", arg |-> id] \in Call
  /\ \A a \in Assets : [op |-> "put", arg |-> a] \in Call
  /\ \A p \in Prefixes : [op |-> "ids", arg |-> p] \in Call
  /\ [op |-> "status", arg |-> NoAsset] \in Call
BY DEF Call

\* Handlers posted in order keep the queue a queue of handlers.
LEMMA PostType ==
  ASSUME TypeOK
  PROVE  /\ Post(<<>>) => ioQueue' \in Seq(Handler)
         /\ \A h \in Handler : Post(<<h>>) => ioQueue' \in Seq(Handler)
         /\ \A g, h \in Handler : Post(<<g, h>>) => ioQueue' \in Seq(Handler)
<1>1. ioQueue \in Seq(Handler)
  BY DEF TypeOK
<1>2. \A hs \in Seq(Handler) : ioQueue \o hs \in Seq(Handler)
  BY <1>1
<1>3. /\ <<>> \in Seq(Handler)
      /\ \A h \in Handler : <<h>> \in Seq(Handler)
      /\ \A g, h \in Handler : <<g, h>> \in Seq(Handler)
  OBVIOUS
<1> QED BY Zenon, <1>2, <1>3 DEF Post

\* What getAssetAtPosition reads is a unit of the data file.
LEMMA FindAssetType ==
  ASSUME TypeOK, NEW id \in Ids
  PROVE  FindAsset(id) \in Unit \cup {NoAsset}
<1>1. \A k \in Kinds : <<PrefixOf[id], k>> \in Databases
  BY BackendAssumption DEF Databases, Prefixes
<1>2. ASSUME NEW db \in Database PROVE dbGetAsset(db, id) \in Unit \cup {NoAsset}
  BY DEF Database, dbGetAsset, getAssetAtPosition, dbAssetExists,
         findAssetPosition, INVALID_POSITION, Unit, NoRow
<1> QED BY <1>1, <1>2 DEF TypeOK, FindAsset, Kinds

\* A server that starts with no files satisfies the invariant.
LEMMA InitInv == Init => Inv
<1> SUFFICES ASSUME Init PROVE Inv
  OBVIOUS
<1>1. disk = [d \in Databases |-> EmptyDatabase]
  BY DEF Init
<1>2. DiskInv /\ disk \in [Databases -> Database]
  BY <1>1, EmptyIsWellFormed DEF DiskInv, WellFormed
<1>3. call \in [Calls -> Call] /\ answer \in [Calls -> Seq(Result)]
  BY CallTypes DEF Init
<1>4. worker = Idle /\ thread = [t \in Threads |-> NotCalling] /\ purge = NoPurge
  BY DEF Init
<1>5. TypeOK
  BY <1>2, <1>3, <1>4, BackendAssumption 
     DEF Init, TypeOK, Idle, NotCalling, NoPurge, WorkerState, CallerState
<1>6. ThreadInv /\ PurgeInv /\ WorkerInv /\ RequestsInv
  BY <1>4 DEF Init, ThreadInv, PurgeInv, WorkerInv, RequestsInv, RequestOK, Idle,
              NotCalling, NoPurge, NoRequest
<1>7. ResultsInv
  BY DEF Init, ResultsInv
<1> QED BY <1>2, <1>5, <1>6, <1>7 DEF Inv

\* The calls.
LEMMA CallerType ==
  ASSUME Inv, CallerStep
  PROVE  TypeOK'
<1>1. disk' = disk /\ disk \in [Databases -> Database] /\ TypeOK
  BY Zenon DEF CallerStep, getAsset, purgeAsset, getStatus, storeAsset,
         getStoredAssetIDsWithPrefix, beginPurgeLocals, Inv, TypeOK
<1>2. ASSUME NEW c \in Call, NewCall(c),
             UNCHANGED <<up, faults, existenceIndex, worker, purge, disk, answer,
                         pushed, bounded>>,
             workQueue' \in Seq(Request), ioQueue' \in Seq(Handler),
             thread' \in [Threads -> CallerState]
      PROVE  TypeOK'
  BY <1>1, <1>2, NewCallType DEF TypeOK, bounded
<1>3. \A req \in Request : Append(workQueue, req) \in Seq(Request)
  BY <1>1 DEF TypeOK
<1>4. ASSUME NEW id \in Ids, getAsset(id)
      PROVE  TypeOK'
  <2>1. ncalls + 1 \in Calls
    BY Zenon, <1>1, <1>4, CallTypes, NewCallType DEF getAsset
  <2>2. workQueue' \in Seq(Request)
    <3> DEFINE req == [op |-> "get", arg |-> id, rid |-> ncalls + 1]
    <3>1. workQueue' = workQueue \/ workQueue' = Append(workQueue, req)
      BY <1>4 DEF getAsset, Enqueue
    <3>2. req \in Request
      BY Zenon, <2>1, RequestTypes
    <3> QED BY Zenon, <1>1, <1>3, <3>1, <3>2 DEF TypeOK
  <2>3. ioQueue' \in Seq(Handler)
    <3>1. Post(<<Failed(ncalls + 1)>>) \/ ioQueue' = ioQueue
      BY <1>4 DEF getAsset
    <3>2. Failed(ncalls + 1) \in Handler
      BY <2>1, HandlerTypes
    <3>3. CASE Post(<<Failed(ncalls + 1)>>)
      BY <1>1, <3>2, <3>3, PostType
    <3>4. CASE ioQueue' = ioQueue
      BY <1>1, <3>4 DEF TypeOK
    <3> QED BY <3>1, <3>3, <3>4
  <2> QED BY Zenon, <1>1, <1>2, <1>4, <2>2, <2>3, CallTypes DEF getAsset, TypeOK
<1>5. ASSUME NEW id \in Ids, purgeAsset(id)
      PROVE  TypeOK'
  <2>1. ncalls + 1 \in Calls
    BY Zenon, <1>1, <1>5, CallTypes, NewCallType DEF purgeAsset
  <2>2. workQueue' \in Seq(Request)
    BY Zenon, <1>1, <1>3, <1>5, <2>1, RequestTypes DEF purgeAsset, Enqueue
  <2> QED BY Zenon, <1>1, <1>2, <1>5, <2>2, CallTypes DEF purgeAsset, TypeOK
<1>6. CASE getStatus
  <2>1. ncalls + 1 \in Calls
    BY <1>1, <1>6, CallTypes, NewCallType DEF getStatus
  <2>2. workQueue' \in Seq(Request)
    BY SMTT(30), <1>1, <1>3, <1>6, <2>1, RequestTypes DEF getStatus, Enqueue
  <2> QED BY SMTT(30), <1>1, <1>2, <1>6, <2>2, CallTypes DEF getStatus, TypeOK
<1>7. ASSUME NEW p \in Prefixes, getStoredAssetIDsWithPrefix(p)
      PROVE  TypeOK'
  <2>1. ncalls + 1 \in Calls
    BY SMTT(30), <1>1, <1>7, CallTypes, NewCallType DEF getStoredAssetIDsWithPrefix
  <2>2. workQueue' \in Seq(Request)
    BY <1>1, <1>3, <1>7, <2>1, RequestTypes DEF getStoredAssetIDsWithPrefix, Enqueue
  <2> QED BY SMTT(30), <1>1, <1>2, <1>7, <2>2, CallTypes
          DEF getStoredAssetIDsWithPrefix, TypeOK
<1>8. CASE beginPurgeLocals
  BY SMTT(30), <1>1, <1>8, BackendAssumption DEF beginPurgeLocals, TypeOK
<1>9. ASSUME NEW t \in Threads, NEW a \in Assets, storeAsset(t, a)
      PROVE  TypeOK'
  <2>1. ncalls + 1 \in Calls
    BY <1>1, <1>9, CallTypes, NewCallType DEF storeAsset
  <2>2. ioQueue' \in Seq(Handler)
    <3>1. Post(<<Failed(ncalls + 1)>>) \/ ioQueue' = ioQueue
      BY <1>9 DEF storeAsset
    <3>2. Failed(ncalls + 1) \in Handler
      BY <2>1, HandlerTypes
    <3>3. CASE Post(<<Failed(ncalls + 1)>>)
      BY <1>1, <3>2, <3>3, PostType
    <3>4. CASE ioQueue' = ioQueue
      BY <1>1, <3>4 DEF TypeOK
    <3> QED BY <3>1, <3>3, <3>4
  <2>3. thread' \in [Threads -> CallerState]
    <3>1. [pc |-> "add", rid |-> ncalls + 1, asset |-> a] \in CallerState
      BY <2>1 DEF CallerState
    <3> QED BY Zenon, <1>1, <1>9, <3>1 DEF storeAsset, TypeOK
  <2> QED BY SMTT(30), <1>1, <1>2, <1>9, <2>2, <2>3, CallTypes DEF storeAsset, TypeOK
<1> QED BY SMTT(30), <1>4, <1>5, <1>6, <1>7, <1>8, <1>9 DEF CallerStep

\* The steps inside storeAsset, the handlers and the purge timer.
LEMMA HandlerType ==
  ASSUME Inv,
         (\E t \in Threads : StoreStep(t)) \/ HandlerStep \/ onPurgeTimer
  PROVE  TypeOK'
<1>1. TypeOK /\ ThreadInv /\ PurgeInv
  BY DEF Inv
<1>2. \A req \in Request : Append(workQueue, req) \in Seq(Request)
  BY <1>1 DEF TypeOK
<1>3. ASSUME NEW t \in Threads, addNewId(t)
      PROVE  TypeOK'
  <2>1. Uuid[thread[t].asset] \in Ids
    BY Zenon, <1>1, <1>3, AssetAssumption DEF addNewId, ThreadInv
  <2>2. thread' \in [Threads -> CallerState]
    <3>1. thread[t] \in CallerState /\ thread \in [Threads -> CallerState]
      BY <1>1 DEF TypeOK
    <3>2. [thread[t] EXCEPT !.pc = "enqueue"] \in CallerState
      BY <3>1 DEF CallerState
    <3>3. thread' = [thread EXCEPT ![t] = [thread[t] EXCEPT !.pc = "enqueue"]]
      BY <1>3 DEF addNewId
    <3> QED BY <3>1, <3>2, <3>3
  <2> QED BY <1>1, <1>3, <2>1, <2>2 DEF addNewId, TypeOK, history, bounded
<1>4. ASSUME NEW t \in Threads, enqueuePut(t)
      PROVE  TypeOK'
  <2>1. thread[t].asset \in Assets /\ thread[t].rid \in Calls
    <3>1. thread[t].asset \in Assets /\ thread[t].rid \in 1..ncalls
      BY ZenonT(30), <1>1, <1>4 DEF enqueuePut, ThreadInv
    <3> QED BY <1>1, <3>1, BackendAssumption DEF TypeOK, Calls
  <2>2. workQueue' \in Seq(Request)
    BY <1>2, <1>4, <2>1, RequestTypes DEF enqueuePut, Enqueue
  <2>3. NotCalling \in CallerState
    BY DEF NotCalling, CallerState
  <2> QED BY <1>1, <1>4, <2>2, <2>3 DEF enqueuePut, TypeOK, history, bounded
<1>5. ASSUME NEW kind, NextHandler(kind)
      PROVE  Head(ioQueue) \in Handler /\ ioQueue' \in Seq(Handler)
  BY SMTT(30), <1>1, <1>5 DEF TypeOK, NextHandler
<1>6. CASE runCallback
  <2>1. Head(ioQueue).rid \in Calls /\ Head(ioQueue).res \in Result
    BY SMTT(30), <1>5, <1>6, HandlerFields DEF runCallback, NextHandler
  <2>2. answer' \in [Calls -> Seq(Result)]
    BY <1>1, <1>6, <2>1 DEF runCallback, TypeOK
  <2> QED BY Zenon, <1>1, <1>5, <1>6, <2>2 DEF runCallback, TypeOK, bounded
<1>7. CASE assetWriteFailed
  BY <1>1, <1>5, <1>7 DEF assetWriteFailed, TypeOK, history, bounded
<1>8. CASE unindexLocals
  <2>1. Head(ioQueue).prefix \in Prefixes
    BY <1>5, <1>8, HandlerFields DEF unindexLocals, NextHandler
  <2>2. workQueue' \in Seq(Request)
    BY Zenon, <1>2, <1>8, <2>1, RequestTypes DEF unindexLocals, Enqueue
  <2> QED BY SMTT(30), <1>1, <1>5, <1>8, <2>2 DEF unindexLocals, TypeOK, history, bounded
<1>9. CASE ioLoopFailed
  BY SMTT(30), <1>1, <1>5, <1>9 DEF ioLoopFailed, TypeOK, history, bounded
<1>10. CASE onPurgeTimer
  <2>1. purge.index \in Prefixes
    BY <1>1, <1>10, BackendAssumption DEF onPurgeTimer, PurgeTick, PurgeInv, TypeOK, Prefixes
  <2>2. workQueue' \in Seq(Request)
    BY ZenonT(30), <1>2, <1>10, <2>1, RequestTypes DEF onPurgeTimer, PurgeTick, Enqueue
  <2>3. purge' \in [active : BOOLEAN, index : 0..(MaxPrefix + 1)]
    BY <1>10, <2>1, BackendAssumption DEF onPurgeTimer, PurgeTick, Prefixes
  <2> QED BY SMTT(30), <1>1, <1>10, <2>2, <2>3 DEF onPurgeTimer, PurgeTick, TypeOK, history, bounded
<1> QED BY <1>3, <1>4, <1>6, <1>7, <1>8, <1>9, <1>10 DEF StoreStep, HandlerStep

\* The worker.
LEMMA WorkerType ==
  ASSUME Inv, WorkerStep, disk' \in [Databases -> Database]
  PROVE  TypeOK'
<1>1. /\ TypeOK /\ worker \in WorkerState /\ WorkerInv
      /\ worker.req \in Request \cup {NoRequest} /\ ioQueue \in Seq(Handler)
  BY DEF Inv, TypeOK, WorkerState
<1>2. faults' \in 0..MaxFaults
  <2>1. NoFault \/ \E kind \in FaultKinds : Fault(kind)
    BY Zenon DEF WorkerStep, workLoop, diskWriteOpen, diskWriteData, diskWriteRecord,
           performDiskRead, performDiskPurge, performDiskPurgeLocals,
           removeIndexFile, removeDataFile, performGetStatus,
           performGetStoredAssetIds, FaultKinds, NoFault
  <2> QED BY SMTT(30), <1>1, <2>1, BackendAssumption DEF NoFault, Fault, TypeOK
<1>3. ASSUME worker' \in WorkerState, ioQueue' \in Seq(Handler),
             pushed' \in SUBSET Assets,
             UNCHANGED <<up, existenceIndex, workQueue, thread, purge, ncalls,
                         call, answer, bounded>>
      PROVE  TypeOK'
  BY <1>1, <1>2, <1>3 DEF TypeOK, bounded
<1>quiet. ASSUME worker' \in WorkerState, ioQueue' \in Seq(Handler),
                 UNCHANGED <<up, existenceIndex, workQueue, thread, purge, history>>
          PROVE  TypeOK'
  BY <1>1, <1>3, <1>quiet DEF TypeOK, history
<1>4. Idle \in WorkerState
  BY DEF Idle, WorkerState
<1>5. ASSUME NEW h \in Handler, Finish(<<h>>)
      PROVE  worker' \in WorkerState /\ ioQueue' \in Seq(Handler)
  BY <1>1, <1>4, <1>5, PostType DEF Finish
<1>6. ASSUME NEW g \in Handler, NEW h \in Handler, Finish(<<g, h>>)
      PROVE  worker' \in WorkerState /\ ioQueue' \in Seq(Handler)
  BY <1>1, <1>4, <1>6, PostType DEF Finish
<1>7. ASSUME Finish(<<>>)
      PROVE  worker' \in WorkerState /\ ioQueue' \in Seq(Handler)
  BY <1>1, <1>4, <1>7, PostType DEF Finish
<1>8. CASE workLoop
  <2>1. workQueue \in Seq(Request) /\ workQueue # <<>>
    BY <1>1, <1>8 DEF TypeOK, workLoop
  <2>2. Head(workQueue) \in Request /\ Tail(workQueue) \in Seq(Request)
    BY <2>1
  <2>3. worker' \in WorkerState
    BY <1>8, <2>2 DEF workLoop, WorkerState
  <2> QED BY <1>1, <1>8, <2>2, <2>3 DEF workLoop, TypeOK, history, bounded
<1>9. ASSUME worker.req.op = "put"
      PROVE  /\ StorageError => worker' \in WorkerState /\ ioQueue' \in Seq(Handler)
             /\ OtherError => worker' \in WorkerState /\ ioQueue' \in Seq(Handler)
  <2>1. worker.req.arg \in Assets /\ worker.req.rid \in Calls
    BY SMTT(30), <1>1, <1>9, RequestFields
  <2>2. /\ Failed(worker.req.rid) \in Handler
        /\ [run |-> "assetWriteFailed", id |-> Uuid[worker.req.arg]] \in Handler
    BY SMTT(30), <2>1, HandlerTypes, DatabaseOfType
  <2> QED BY <1>5, <1>6, <2>2 DEF StorageError, OtherError
<1>10. LoopError => worker' \in WorkerState /\ ioQueue' \in Seq(Handler)
  BY <1>5, HandlerTypes DEF LoopError
<1>11. CASE diskWriteOpen
  <2>1. CASE StorageError \/ OtherError
    BY <1>quiet, <1>9, <1>11, <2>1
       DEF diskWriteOpen, WorkerAt
  <2>2. CASE worker' = [worker EXCEPT !.pc = "write"] /\ ioQueue' = ioQueue
    <3>1. worker' \in WorkerState
      BY <1>1, <2>2 DEF WorkerState
    <3> QED BY <1>1, <1>quiet, <1>11, <2>2, <3>1
            DEF diskWriteOpen
  <2> QED BY <1>11, <2>1, <2>2 DEF diskWriteOpen
<1>12. CASE diskWriteData
  <2>1. CASE StorageError
    BY <1>quiet, <1>9, <1>12, <2>1
       DEF diskWriteData, WorkerAt
  <2> DEFINE db == disk[DatabaseOf(worker.req.arg)]
  <2>2. CASE /\ worker' = [worker EXCEPT !.pc = "record",
                                        !.pos = NewAssetPosition(db)]
             /\ ioQueue' = ioQueue
    <3>1. worker.req.arg \in Assets /\ WellFormed(db)
      BY SMTT(30), <1>1, <1>12, RequestFields, DatabaseOfType
         DEF diskWriteData, WorkerAt, Inv, DiskInv
    <3>2. NewAssetPosition(db) \in Nat
      BY <3>1, WriteGrows
    <3>3. worker' \in WorkerState
      BY ZenonT(30), <1>1, <2>2, <3>2 DEF WorkerState
    <3> QED BY <1>1, <1>quiet, <1>12, <2>2, <3>3
            DEF diskWriteData
  <2> QED BY <1>12, <2>1, <2>2 DEF diskWriteData
<1>13. CASE diskWriteRecord
  <2>1. worker.req.op = "put" /\ worker.req.arg \in Assets /\ worker.req.rid \in Calls
    BY ZenonT(30), <1>1, <1>13, RequestFields DEF diskWriteRecord, WorkerAt
  <2>2. pushed' \in SUBSET Assets
    BY Zenon, <1>1, <1>13, <2>1 DEF diskWriteRecord, TypeOK
  <2>3. Callback(worker.req.rid, TRUE, NoAsset) \in Handler
    BY Zenon, <2>1, HandlerTypes
  <2>4. worker' \in WorkerState /\ ioQueue' \in Seq(Handler)
    BY ZenonT(30), <1>5, <1>9, <1>13, <2>1, <2>3 DEF diskWriteRecord
  <2> QED BY <1>3, <1>13, <2>2, <2>4 DEF diskWriteRecord, bounded
<1>14. CASE performDiskRead
  <2>1. worker.req.arg \in Ids /\ worker.req.rid \in Calls
    BY Zenon, <1>1, <1>14, RequestFields DEF performDiskRead, WorkerAt
  <2>2. /\ Callback(worker.req.rid, TRUE, FindAsset(worker.req.arg)) \in Handler
        /\ Failed(worker.req.rid) \in Handler
    BY Zenon, <1>1, <2>1, FindAssetType, HandlerTypes
  <2>3. worker' \in WorkerState /\ ioQueue' \in Seq(Handler)
    BY Zenon, <1>5, <1>14, <2>2 DEF performDiskRead
  <2> QED BY ZenonT(30), <1>quiet, <1>14, <2>3 DEF performDiskRead
<1>15. CASE performDiskPurge
  BY <1>quiet, <1>7, <1>15 DEF performDiskPurge
<1>16. ASSUME NEW d \in Databases
       PROVE  getContainedAssetIds(disk[d]) \in SUBSET Ids
  BY DEF getContainedAssetIds
<1>17. CASE performDiskPurgeLocals
  <2> DEFINE d == <<worker.req.arg, "locals">>
             h == [run |-> "unindexLocals", ids |-> getContainedAssetIds(disk[d]),
                   prefix |-> worker.req.arg]
  <2>1. worker.req.arg \in Prefixes
    BY ZenonT(30), <1>1, <1>17, RequestFields DEF performDiskPurgeLocals, WorkerAt
  <2>2. h \in Handler
    BY Zenon, <1>16, <2>1, HandlerTypes DEF Databases, Kinds
  <2>3. worker' \in WorkerState /\ ioQueue' \in Seq(Handler)
    BY <1>5, <1>10, <1>17, <2>2 DEF performDiskPurgeLocals
  <2> QED BY <1>quiet, <1>17, <2>3
          DEF performDiskPurgeLocals
<1>18. CASE removeIndexFile
  <2>1. CASE LoopError
    BY <1>quiet, <1>10, <1>18, <2>1 DEF removeIndexFile
  <2>2. CASE worker' = [worker EXCEPT !.pc = "remove"] /\ ioQueue' = ioQueue
    <3>1. worker' \in WorkerState
      BY <1>1, <2>2 DEF WorkerState
    <3> QED BY <1>1, <1>quiet, <1>18, <2>2, <3>1
            DEF removeIndexFile
  <2> QED BY <1>18, <2>1, <2>2 DEF removeIndexFile
<1>19. CASE removeDataFile
  BY <1>quiet, <1>7, <1>10, <1>19 DEF removeDataFile
<1>20. CASE performGetStatus
  <2>1. Callback(worker.req.rid, TRUE, NoAsset) \in Handler
    BY Zenon, <1>1, <1>20, RequestFields, HandlerTypes DEF performGetStatus, WorkerAt
  <2> QED BY Zenon, <1>quiet, <1>5, <1>20, <2>1
          DEF performGetStatus
<1>21. CASE performGetStoredAssetIds
  <2> DEFINE d == <<worker.req.arg, "globals">>
             h == Callback(worker.req.rid, TRUE, getContainedAssetIds(disk[d]))
  <2>1. worker.req.arg \in Prefixes /\ worker.req.rid \in Calls
    <3>1. worker.req.op = "ids"
      BY <1>21 DEF performGetStoredAssetIds, WorkerAt
    <3> QED BY <1>1, <3>1, RequestFields
  <2>2. h \in Handler
    BY Zenon, <1>16, <2>1, HandlerTypes DEF Databases, Kinds
  <2>3. worker' \in WorkerState /\ ioQueue' \in Seq(Handler)
    BY Zenon, <1>5, <1>10, <1>21, <2>2 DEF performGetStoredAssetIds
  <2> QED BY <1>quiet, <1>21, <2>3
          DEF performGetStoredAssetIds
<1> QED BY <1>8, <1>11, <1>12, <1>13, <1>14, <1>15, <1>17, <1>18, <1>19, <1>20,
           <1>21 DEF WorkerStep

\* Stopping, crashing and starting.
LEMMA ProcessType ==
  ASSUME Inv, ProcessStep, disk' \in [Databases -> Database]
  PROVE  TypeOK'
<1>1. TypeOK
  BY DEF Inv
<1>2. /\ Idle \in WorkerState /\ NotCalling \in CallerState
      /\ NoPurge \in [active : BOOLEAN, index : 0..(MaxPrefix + 1)]
  BY BackendAssumption DEF Idle, WorkerState, NotCalling, CallerState, NoPurge
<1>3. CASE shutdown
  BY <1>1, <1>3, BackendAssumption DEF shutdown, TypeOK, volatile
<1>4. CASE stopped
  BY <1>1, <1>2, <1>4 DEF stopped, VolatileLost, TypeOK, history, bounded
<1>5. CASE crash
  BY <1>1, <1>2, <1>5, BackendAssumption DEF crash, VolatileLost, TypeOK
<1>6. CASE start
  <2>1. existenceIndex' \in SUBSET Ids
    BY <1>1, <1>6 DEF start, TypeOK, getContainedAssetIds
  <2>2. up' \in {"up", "failed"}
    BY <1>6 DEF start
  <2> QED BY SMTT(30), <1>1, <1>6, <2>1, <2>2 DEF start, TypeOK, history, bounded
<1> QED BY <1>3, <1>4, <1>5, <1>6 DEF ProcessStep
=============================================================================
