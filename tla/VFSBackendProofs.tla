-------------------------- MODULE VFSBackendProofs --------------------------
(***************************************************************************)
(* The safety of the storage backend, for every set of ids and assets,     *)
(* every number of prefixes, calls, purges, failures, crashes and stops.   *)
(***************************************************************************)
EXTENDS VFSBackendTypes

----------------------------------------------------------------------------
(* The other conjuncts of the invariant.                                   *)

\* Calls are only added.
LEMMA CallsKept ==
  ASSUME TypeOK, Next
  PROVE  /\ ncalls \in Nat /\ ncalls' \in Nat /\ ncalls <= ncalls'
         /\ \A r \in 1..ncalls : call'[r] = call[r]
<1>1. ncalls \in Nat
  BY BackendAssumption DEF TypeOK
<1>2. CASE ncalls' = ncalls /\ call' = call
  BY <1>1, <1>2
<1>3. ASSUME NEW c, NewCall(c)
      PROVE  ncalls' = ncalls + 1 /\ \A r \in 1..ncalls : call'[r] = call[r]
  BY <1>1, <1>3, BackendAssumption DEF NewCall, TypeOK, Calls
<1>4. CASE CallerStep
  <2>1. (ncalls' = ncalls /\ call' = call) \/ \E c : NewCall(c)
    BY Zenon, <1>4 DEF CallerStep, getAsset, purgeAsset, getStatus, storeAsset,
                getStoredAssetIDsWithPrefix, beginPurgeLocals
  <2> QED BY <1>1, <1>2, <1>3, <2>1
<1>5. CASE (\E t \in Threads : StoreStep(t)) \/ HandlerStep \/ onPurgeTimer
  BY Zenon, <1>2, <1>5
     DEF StoreStep, addNewId, enqueuePut, HandlerStep, runCallback, PurgeTick,
         assetWriteFailed, unindexLocals, ioLoopFailed, onPurgeTimer, history
<1>6. CASE WorkerStep
  BY Zenon, <1>2, <1>6
     DEF WorkerStep, workLoop, diskWriteOpen, diskWriteData, diskWriteRecord,
         performDiskRead, performDiskPurge, performDiskPurgeLocals, history,
         removeIndexFile, removeDataFile, performGetStatus,
         performGetStoredAssetIds
<1>7. CASE ProcessStep
  BY <1>2, <1>7 DEF ProcessStep, shutdown, stopped, crash, start, history
<1> QED BY <1>4, <1>5, <1>6, <1>7 DEF Next

\* The caller of storeAsset keeps the asset of its call.
LEMMA ThreadStep ==
  ASSUME Inv, Next
  PROVE  ThreadInv'
<1>1. TypeOK /\ ThreadInv
  BY DEF Inv
<1>2. /\ ncalls \in Nat /\ ncalls' \in Nat /\ ncalls <= ncalls'
      /\ \A r \in 1..ncalls : call'[r] = call[r]
  BY <1>1, CallsKept
<1>3. ASSUME NEW t \in Threads, thread[t].pc # "idle",
             thread'[t].rid = thread[t].rid, thread'[t].asset = thread[t].asset
      PROVE  /\ thread'[t].asset \in Assets /\ thread'[t].rid \in 1..ncalls'
             /\ call'[thread'[t].rid] = [op |-> "put", arg |-> thread'[t].asset]
  BY <1>1, <1>2, <1>3 DEF ThreadInv
<1>4. CASE thread' = thread
  BY <1>3, <1>4 DEF ThreadInv
<1>5. CASE thread' = [t \in Threads |-> NotCalling]
  BY <1>5 DEF ThreadInv, NotCalling
<1>6. ASSUME NEW t \in Threads, NEW a \in Assets, storeAsset(t, a)
      PROVE  ThreadInv'
  <2>1. /\ ncalls + 1 \in Calls /\ ncalls' = ncalls + 1
        /\ call'[ncalls + 1] = [op |-> "put", arg |-> a]
    BY <1>1, <1>6, CallTypes, NewCallType DEF storeAsset
  <2>2. CASE thread' = [thread EXCEPT ![t] =
                          [pc |-> "add", rid |-> ncalls + 1, asset |-> a]]
    <3> SUFFICES ASSUME NEW u \in Threads, thread'[u].pc # "idle"
                 PROVE  /\ thread'[u].asset \in Assets
                        /\ thread'[u].rid \in 1..ncalls'
                        /\ call'[thread'[u].rid] =
                              [op |-> "put", arg |-> thread'[u].asset]
      BY DEF ThreadInv
    <3>1. CASE u = t
      BY <1>1, <1>2, <2>1, <2>2, <3>1 DEF TypeOK
    <3>2. CASE u # t
      BY <1>1, <1>3, <2>2, <3>2 DEF TypeOK
    <3> QED BY <3>1, <3>2
  <2> QED BY <1>4, <1>6, <2>2 DEF storeAsset
<1>7. ASSUME NEW t \in Threads, addNewId(t)
      PROVE  ThreadInv'
  <2>1. \A u \in Threads : /\ thread'[u].rid = thread[u].rid
                           /\ thread'[u].asset = thread[u].asset
                           /\ thread'[u].pc # "idle" => thread[u].pc # "idle"
    BY <1>1, <1>7 DEF addNewId, TypeOK, CallerState
  <2> QED BY <1>3, <2>1 DEF ThreadInv
<1>8. ASSUME NEW t \in Threads, enqueuePut(t)
      PROVE  ThreadInv'
  <2>1. \A u \in Threads : \/ thread'[u] = thread[u]
                           \/ thread'[u].pc = "idle"
    BY <1>1, <1>8 DEF enqueuePut, TypeOK, NotCalling
  <2> QED BY <1>3, <2>1 DEF ThreadInv
<1>9. CASE CallerStep
  BY Zenon, <1>4, <1>6, <1>9
     DEF CallerStep, getAsset, purgeAsset, getStatus,
         getStoredAssetIDsWithPrefix, beginPurgeLocals
<1>10. CASE \E t \in Threads : StoreStep(t)
  BY <1>7, <1>8, <1>10 DEF StoreStep
<1>11. CASE HandlerStep \/ onPurgeTimer
  BY <1>4, <1>11
     DEF HandlerStep, runCallback, assetWriteFailed, unindexLocals,
         ioLoopFailed, onPurgeTimer, PurgeTick
<1>12. CASE WorkerStep
  BY Zenon, <1>4, <1>12
     DEF WorkerStep, workLoop, diskWriteOpen, diskWriteData, diskWriteRecord,
         performDiskRead, performDiskPurge, performDiskPurgeLocals,
         removeIndexFile, removeDataFile, performGetStatus,
         performGetStoredAssetIds
<1>13. CASE ProcessStep
  BY <1>4, <1>5, <1>13
     DEF ProcessStep, shutdown, stopped, crash, start, VolatileLost, volatile
<1> QED BY <1>9, <1>10, <1>11, <1>12, <1>13 DEF Next

\* The purge stops after the last prefix.
LEMMA PurgeStep ==
  ASSUME Inv, Next
  PROVE  PurgeInv'
<1>1. TypeOK /\ PurgeInv
  BY DEF Inv
<1>2. CASE purge' = purge
  BY <1>1, <1>2 DEF PurgeInv
<1>3. CASE purge' = NoPurge
  BY <1>3 DEF PurgeInv, NoPurge
<1>4. CASE beginPurgeLocals
  BY <1>4, BackendAssumption DEF beginPurgeLocals, PurgeInv
<1>5. CASE onPurgeTimer
  BY Zenon, <1>5 DEF onPurgeTimer, PurgeTick, PurgeInv
<1>6. CASE CallerStep \/ \E t \in Threads : StoreStep(t)
  BY Zenon, <1>2, <1>4, <1>6
     DEF CallerStep, getAsset, purgeAsset, getStatus, storeAsset,
         getStoredAssetIDsWithPrefix, StoreStep, addNewId, enqueuePut
<1>7. CASE HandlerStep
  BY SMTT(30), <1>2, <1>7
     DEF HandlerStep, runCallback, assetWriteFailed, unindexLocals, ioLoopFailed
<1>8. CASE WorkerStep
  BY Zenon, <1>2, <1>8
     DEF WorkerStep, workLoop, diskWriteOpen, diskWriteData, diskWriteRecord,
         performDiskRead, performDiskPurge, performDiskPurgeLocals,
         removeIndexFile, removeDataFile, performGetStatus,
         performGetStoredAssetIds
<1>9. CASE ProcessStep
  BY <1>2, <1>3, <1>9
     DEF ProcessStep, shutdown, stopped, crash, start, VolatileLost, volatile
<1> QED BY <1>5, <1>6, <1>7, <1>8, <1>9 DEF Next

\* Nobody but the worker touches the files it is working on.
LEMMA WorkerInvStep ==
  ASSUME Inv, Next
  PROVE  WorkerInv'
<1>1. TypeOK /\ DiskInv /\ WorkerInv /\ worker \in WorkerState
      /\ worker.req \in Request \cup {NoRequest}
  BY DEF Inv, TypeOK, WorkerState
<1>2. CASE worker' = worker /\ disk' = disk
  BY <1>1, <1>2 DEF WorkerInv
<1>3. CASE worker' = Idle \/ worker'.pc = "run"
  BY <1>3 DEF WorkerInv, Idle
<1>4. CASE diskWriteOpen
  <2>1. CASE worker' = [worker EXCEPT !.pc = "write"]
    BY <1>1, <1>4, <2>1 DEF diskWriteOpen, WorkerAt, WorkerInv, WorkerState
  <2> QED BY <1>3, <1>4, <2>1
          DEF diskWriteOpen, StorageError, OtherError, Finish
<1>5. CASE diskWriteData
  <2> DEFINE a == worker.req.arg
             d == DatabaseOf(a)
             pos == NewAssetPosition(disk[d])
  <2>1. a \in Assets /\ d \in Databases /\ WellFormed(disk[d])
    BY <1>1, <1>5, RequestFields, DatabaseOfType DEF diskWriteData, WorkerAt, DiskInv
  <2>2. /\ pos < Len(writeNewAsset(disk[d], a).data)
        /\ writeNewAsset(disk[d], a).data[pos + 1] = a
    BY SMTT(30), <2>1, WriteGrows
  <2>3. CASE /\ disk' = [disk EXCEPT ![d] = writeNewAsset(disk[d], a)]
             /\ worker' = [worker EXCEPT !.pc = "record", !.pos = pos]
    <3> HIDE DEF pos
    <3>1. /\ worker'.pc = "record" /\ worker'.req = worker.req
          /\ worker'.pos = pos
      BY <1>1, <2>3 DEF WorkerState
    <3>2. disk'[d] = writeNewAsset(disk[d], a)
      BY <1>1, <2>1, <2>3 DEF TypeOK
    <3>3. worker.req.op = "put"
      BY <1>5 DEF diskWriteData, WorkerAt
    <3> QED BY <2>2, <3>1, <3>2, <3>3 DEF WorkerInv, DatabaseOf
  <2> QED BY <1>3, <1>5, <2>3 DEF diskWriteData, StorageError, Finish
<1>6. CASE removeIndexFile
  <2> DEFINE d == <<worker.req.arg, "locals">>
  <2>1. CASE /\ disk' = [disk EXCEPT ![d] = RemoveIndex(@)]
             /\ worker' = [worker EXCEPT !.pc = "remove"]
    <3>1. worker.req.op = "deleteLocals" /\ d \in Databases
      BY <1>1, <1>6, RequestFields DEF removeIndexFile, WorkerAt, Databases, Kinds
    <3>2. worker'.pc = "remove" /\ worker'.req = worker.req
      BY <1>1, <2>1 DEF WorkerState
    <3>3. disk'[d] = RemoveIndex(disk[d]) /\ WellFormed(disk[d])
      BY <1>1, <2>1, <3>1 DEF TypeOK, DiskInv
    <3>4. \A id \in Ids : disk'[d].position[id] = NoRow
      BY SMTT(30), <3>3, RemoveIsSound
    <3> QED BY <3>1, <3>2, <3>4 DEF WorkerInv
  <2> QED BY <1>3, <1>6, <2>1 DEF removeIndexFile, LoopError, Finish
<1>7. CASE workLoop \/ diskWriteRecord \/ performDiskRead \/ performDiskPurge
           \/ performDiskPurgeLocals \/ removeDataFile \/ performGetStatus
           \/ performGetStoredAssetIds
  <2>1. workLoop => worker'.pc = "run"
    BY DEF workLoop
  <2>2. (\E hs : Finish(hs)) => worker' = Idle
    BY DEF Finish
  <2>3. workLoop \/ \E hs : Finish(hs)
    BY Zenon, <1>7
       DEF diskWriteRecord, performDiskRead, performDiskPurge,
           performDiskPurgeLocals, removeDataFile, performGetStatus,
           performGetStoredAssetIds, OtherError, LoopError
  <2> QED BY <1>3, <2>1, <2>2, <2>3
<1>8. CASE CallerStep
  BY Zenon, <1>2, <1>8
     DEF CallerStep, getAsset, purgeAsset, getStatus, storeAsset,
         getStoredAssetIDsWithPrefix, beginPurgeLocals
<1>9. CASE (\E t \in Threads : StoreStep(t)) \/ HandlerStep \/ onPurgeTimer
  BY Zenon, <1>2, <1>9
     DEF StoreStep, addNewId, enqueuePut, HandlerStep, runCallback, PurgeTick,
         assetWriteFailed, unindexLocals, ioLoopFailed, onPurgeTimer
<1>10. CASE ProcessStep
  BY Zenon, <1>2, <1>3, <1>10
     DEF ProcessStep, shutdown, stopped, crash, start, VolatileLost, volatile
<1> QED BY <1>4, <1>5, <1>6, <1>7, <1>8, <1>9, <1>10 DEF Next, WorkerStep

\* A request stays the request of its call.
LEMMA RequestsStep ==
  ASSUME Inv, Next
  PROVE  RequestsInv'
<1>1. /\ TypeOK /\ RequestsInv /\ ThreadInv /\ workQueue \in Seq(Request)
      /\ worker \in WorkerState
  BY DEF Inv, TypeOK
<1>2. /\ ncalls \in Nat /\ ncalls' \in Nat /\ ncalls <= ncalls'
      /\ \A r \in 1..ncalls : call'[r] = call[r]
  BY <1>1, CallsKept
<1>3. ASSUME NEW req, RequestOK(req, ncalls, call)
      PROVE  RequestOK(req, ncalls', call')
  BY <1>2, <1>3 DEF RequestOK
<1>4. /\ \A i \in DOMAIN workQueue : RequestOK(workQueue[i], ncalls', call')
      /\ RequestOK(worker.req, ncalls', call')
      /\ RequestOK(Idle.req, ncalls', call')
  <2>1. RequestOK(Idle.req, ncalls, call)
    BY DEF RequestOK, Idle, NoRequest
  <2> QED BY <1>1, <1>3, <2>1 DEF RequestsInv
<1>5. ASSUME NEW req, Enqueue(req), RequestOK(req, ncalls', call')
      PROVE  \A i \in DOMAIN workQueue' : RequestOK(workQueue'[i], ncalls', call')
  BY <1>1, <1>4, <1>5 DEF Enqueue
<1>6. \A p, op : RequestOK([op |-> op, arg |-> p, rid |-> 0], ncalls', call')
  BY DEF RequestOK
<1>7. ASSUME NEW op, NEW arg, [op |-> op, arg |-> arg] \in Call,
             NewCall([op |-> op, arg |-> arg])
      PROVE  RequestOK([op |-> op, arg |-> arg, rid |-> ncalls + 1], ncalls', call')
  <2>1. /\ ncalls' = ncalls + 1
        /\ call'[ncalls + 1] = [op |-> op, arg |-> arg]
    BY <1>1, <1>7, NewCallType
  <2> QED BY <1>2, <2>1 DEF RequestOK
<1>8. CASE workQueue' = workQueue /\ worker'.req \in {worker.req, Idle.req}
  BY <1>4, <1>8 DEF RequestsInv
<1>9. ASSUME NEW id \in Ids, getAsset(id)
      PROVE  RequestsInv'
  BY Zenon, <1>4, <1>5, <1>7, <1>9, CallTypes DEF getAsset, RequestsInv
<1>10. ASSUME NEW id \in Ids, purgeAsset(id)
       PROVE  RequestsInv'
  BY Zenon, <1>4, <1>5, <1>7, <1>10, CallTypes DEF purgeAsset, RequestsInv
<1>11. CASE getStatus
  BY <1>4, <1>5, <1>7, <1>11, CallTypes DEF getStatus, RequestsInv
<1>12. ASSUME NEW p \in Prefixes, getStoredAssetIDsWithPrefix(p)
       PROVE  RequestsInv'
  BY <1>4, <1>5, <1>7, <1>12, CallTypes DEF getStoredAssetIDsWithPrefix, RequestsInv
<1>13. CASE CallerStep
  BY Zenon, <1>8, <1>9, <1>10, <1>11, <1>12, <1>13
     DEF CallerStep, storeAsset, beginPurgeLocals
<1>14. ASSUME NEW t \in Threads, enqueuePut(t)
       PROVE  RequestsInv'
  <2> DEFINE req == [op |-> "put", arg |-> thread[t].asset, rid |-> thread[t].rid]
  <2>1. RequestOK(req, ncalls, call)
    BY <1>1, <1>14 DEF enqueuePut, ThreadInv, RequestOK
  <2>2. RequestOK(req, ncalls', call')
    BY <1>3, <2>1
  <2>3. Enqueue(req) /\ worker' = worker
    BY <1>14 DEF enqueuePut
  <2> HIDE DEF req
  <2> QED BY <1>4, <1>5, <2>2, <2>3 DEF RequestsInv
<1>15. CASE unindexLocals
  <2>1. worker' = worker /\ Enqueue([op |-> "deleteLocals", rid |-> 0,
                                    arg |-> Head(ioQueue).prefix])
    BY <1>15 DEF unindexLocals
  <2> QED BY <1>4, <1>5, <1>6, <2>1 DEF RequestsInv
<1>16. CASE onPurgeTimer
  <2>1. worker' = worker /\ Enqueue([op |-> "purgeLocals", rid |-> 0,
                                    arg |-> purge.index])
    BY <1>16 DEF onPurgeTimer, PurgeTick
  <2> QED BY <1>4, <1>5, <1>6, <2>1 DEF RequestsInv
<1>17. CASE workLoop
  <2>1. /\ worker'.req = workQueue[1] /\ 1 \in DOMAIN workQueue
        /\ \A i \in DOMAIN workQueue' :
             i + 1 \in DOMAIN workQueue /\ workQueue'[i] = workQueue[i + 1]
    BY <1>1, <1>17 DEF workLoop
  <2> QED BY <1>4, <2>1 DEF RequestsInv
<1>18. CASE \/ diskWriteOpen \/ diskWriteData \/ diskWriteRecord
            \/ performDiskRead \/ performDiskPurge \/ performDiskPurgeLocals
            \/ removeIndexFile \/ removeDataFile \/ performGetStatus
            \/ performGetStoredAssetIds
  <2>1. worker'.req \in {worker.req, Idle.req}
    BY ZenonT(30), <1>1, <1>18
       DEF diskWriteOpen, diskWriteData, diskWriteRecord, performDiskRead,
           performDiskPurge, performDiskPurgeLocals, removeIndexFile,
           removeDataFile, performGetStatus, performGetStoredAssetIds,
           StorageError, OtherError, LoopError, Finish, WorkerState
  <2>2. workQueue' = workQueue
    BY <1>18
       DEF diskWriteOpen, diskWriteData, diskWriteRecord, performDiskRead,
           performDiskPurge, performDiskPurgeLocals, removeIndexFile,
           removeDataFile, performGetStatus, performGetStoredAssetIds
  <2> QED BY SMTT(30), <1>8, <2>1, <2>2
<1>19. CASE (\E t \in Threads : addNewId(t)) \/ runCallback \/ assetWriteFailed
            \/ ioLoopFailed \/ shutdown \/ start
  BY <1>8, <1>19
     DEF addNewId, runCallback, assetWriteFailed, ioLoopFailed, shutdown, start,
         volatile
<1>20. CASE stopped \/ crash
  BY <1>4, <1>20 DEF stopped, crash, VolatileLost, RequestsInv
<1> QED BY <1>13, <1>14, <1>15, <1>16, <1>17, <1>18, <1>19, <1>20
        DEF Next, StoreStep, HandlerStep, WorkerStep, ProcessStep

\* What FindAsset returns has the id that was asked for.
LEMMA FindAssetSound ==
  ASSUME TypeOK, DiskInv, NEW id \in Ids, FindAsset(id) # NoAsset
  PROVE  FindAsset(id) \in Assets /\ Uuid[FindAsset(id)] = id
<1>1. \A k \in Kinds : <<PrefixOf[id], k>> \in Databases
  BY BackendAssumption DEF Databases, Prefixes
<1>2. ASSUME NEW k \in Kinds, dbGetAsset(disk[<<PrefixOf[id], k>>], id) # NoAsset
      PROVE  LET a == dbGetAsset(disk[<<PrefixOf[id], k>>], id)
             IN a \in Assets /\ Uuid[a] = id
  BY <1>1, <1>2, SoundContent DEF DiskInv
<1> QED BY <1>2 DEF FindAsset, Kinds

\* When a callback that reports success is right.
LEMMA CallbackOK ==
  ASSUME NEW r, NEW v, NEW n, NEW c, NEW files, NEW op, NEW arg,
         r \in 1..n, c[r] = [op |-> op, arg |-> arg],
         op = "get" => v \in Assets /\ Uuid[v] = arg,
         op = "put" /\ arg \in Globals => Stored(arg, files)
  PROVE  HandlerOK(Callback(r, TRUE, v), n, c, files)
<1>1. c[r].op = op /\ c[r].arg = arg
  OBVIOUS
<1>2. /\ Callback(r, TRUE, v).rid = r
      /\ Callback(r, TRUE, v).res = [ok |-> TRUE, val |-> v]
  BY DEF Callback
<1>3. ResultOK(r, [ok |-> TRUE, val |-> v], n, c, files)
  BY <1>1 DEF ResultOK
<1> QED BY Zenon, <1>2, <1>3 DEF HandlerOK

\* Results stay true, and new results are true.
LEMMA ResultsStep ==
  ASSUME Inv, Next
  PROVE  ResultsInv'
<1>1. /\ TypeOK /\ DiskInv /\ WorkerInv /\ RequestsInv /\ ResultsInv
      /\ ioQueue \in Seq(Handler) /\ answer \in [Calls -> Seq(Result)]
      /\ worker.req \in Request \cup {NoRequest}
  BY DEF Inv, TypeOK, WorkerState
<1>2. /\ ncalls \in Nat /\ ncalls' \in Nat /\ ncalls <= ncalls'
      /\ \A r \in 1..ncalls : call'[r] = call[r]
  BY <1>1, CallsKept
<1>3. DiskKept
  BY <1>1, DiskStep
<1>4. ASSUME NEW a \in Globals, Stored(a, disk)
      PROVE  Stored(a, disk')
  BY <1>3, <1>4, AssetAssumption DEF DiskKept, Stored, Globals
<1>5. ASSUME NEW r, NEW res, ResultOK(r, res, ncalls, call, disk)
      PROVE  ResultOK(r, res, ncalls', call', disk')
  BY <1>2, <1>4, <1>5 DEF ResultOK
<1>6. ASSUME NEW h, HandlerOK(h, ncalls, call, disk)
      PROVE  HandlerOK(h, ncalls', call', disk')
  BY <1>5, <1>6 DEF HandlerOK
<1> DEFINE IoOK == \A i \in DOMAIN ioQueue' :
                     HandlerOK(ioQueue'[i], ncalls', call', disk')
           AnswersOK == \A r \in Calls : \A i \in DOMAIN answer'[r] :
                          ResultOK(r, answer'[r][i], ncalls', call', disk')
           PushedOK == \A a \in pushed' \cap Globals : Stored(a, disk')
<1>7. \A i \in DOMAIN ioQueue : HandlerOK(ioQueue[i], ncalls', call', disk')
  BY <1>1, <1>6 DEF ResultsInv
<1>8. ASSUME answer' = answer PROVE AnswersOK
  BY <1>1, <1>5, <1>8 DEF ResultsInv
<1>9. ASSUME pushed' = pushed PROVE PushedOK
  BY <1>1, <1>4, <1>9 DEF ResultsInv
<1>10. ASSUME ioQueue' = ioQueue PROVE IoOK
  BY <1>7, <1>10
<1>11. ASSUME NEW hs, Post(hs), hs \in Seq(Handler),
              \A i \in DOMAIN hs : HandlerOK(hs[i], ncalls', call', disk')
       PROVE  IoOK
  <2> SUFFICES ASSUME NEW i \in DOMAIN (ioQueue \o hs)
               PROVE  HandlerOK((ioQueue \o hs)[i], ncalls', call', disk')
    BY <1>11 DEF Post
  <2>1. CASE i \in DOMAIN ioQueue /\ (ioQueue \o hs)[i] = ioQueue[i]
    BY <1>7, <2>1
  <2>2. CASE /\ i - Len(ioQueue) \in DOMAIN hs
             /\ (ioQueue \o hs)[i] = hs[i - Len(ioQueue)]
    BY <1>11, <2>2
  <2> QED BY <1>1, <1>11, <2>1, <2>2
<1>12. ASSUME NEW h \in Handler, Post(<<h>>),
              HandlerOK(h, ncalls', call', disk')
       PROVE  IoOK
  <2>1. <<h>> \in Seq(Handler) /\ \A i \in DOMAIN <<h>> : <<h>>[i] = h
    OBVIOUS
  <2> QED BY Zenon, <1>11, <1>12, <2>1
<1>13. ASSUME NEW g \in Handler, NEW h \in Handler, Post(<<g, h>>),
              HandlerOK(g, ncalls', call', disk'),
              HandlerOK(h, ncalls', call', disk')
       PROVE  IoOK
  <2>1. /\ <<g, h>> \in Seq(Handler)
        /\ \A i \in DOMAIN <<g, h>> : <<g, h>>[i] = g \/ <<g, h>>[i] = h
    OBVIOUS
  <2> QED BY Zenon, <1>11, <1>13, <2>1
<1>14. ASSUME Post(<<>>) PROVE IoOK
  <2>1. ioQueue' = ioQueue
    BY <1>1, <1>14 DEF Post
  <2> QED BY <1>10, <2>1
<1>15. ASSUME NEW r \in 1..ncalls' PROVE HandlerOK(Failed(r), ncalls', call', disk')
  BY <1>15 DEF HandlerOK, Failed, Callback, ResultOK
<1>16. ASSUME IoOK, AnswersOK, PushedOK PROVE ResultsInv'
  BY <1>16 DEF ResultsInv
<1> HIDE DEF IoOK, AnswersOK, PushedOK
<1>17. ASSUME NEW c, NewCall(c), c \in Call
       PROVE  /\ Failed(ncalls + 1) \in Handler
              /\ HandlerOK(Failed(ncalls + 1), ncalls', call', disk')
  <2>1. ncalls + 1 \in Calls /\ ncalls' = ncalls + 1
    BY <1>1, <1>17, NewCallType
  <2>2. ncalls + 1 \in 1..ncalls'
    BY <1>2, <2>1
  <2> QED BY <1>15, <2>1, <2>2, HandlerTypes
<1>18. CASE CallerStep
  <2>1. answer' = answer /\ pushed' = pushed
    BY Zenon, <1>18 DEF CallerStep, getAsset, purgeAsset, getStatus, storeAsset,
                 getStoredAssetIDsWithPrefix, beginPurgeLocals
  <2>2. \/ ioQueue' = ioQueue
        \/ \E c \in Call : NewCall(c) /\ Post(<<Failed(ncalls + 1)>>)
    BY Zenon, <1>18, CallTypes
       DEF CallerStep, getAsset, purgeAsset, getStatus, storeAsset,
           getStoredAssetIDsWithPrefix, beginPurgeLocals
  <2>3. IoOK
    BY <1>10, <1>12, <1>17, <2>2
  <2> QED BY SMTT(30), <1>8, <1>9, <1>16, <2>1, <2>3
<1>19. CASE (\E t \in Threads : StoreStep(t)) \/ onPurgeTimer \/ workLoop
            \/ shutdown \/ start
  BY Zenon, <1>8, <1>9, <1>10, <1>16, <1>19
     DEF StoreStep, addNewId, enqueuePut, onPurgeTimer, PurgeTick, workLoop,
         shutdown, start, volatile, history
<1>20. ASSUME NEW kind, NextHandler(kind)
       PROVE  IoOK
  <2>1. \A i \in DOMAIN ioQueue' :
          i + 1 \in DOMAIN ioQueue /\ ioQueue'[i] = ioQueue[i + 1]
    BY <1>1, <1>20 DEF NextHandler
  <2> QED BY <1>7, <2>1 DEF IoOK
<1>21. CASE assetWriteFailed \/ unindexLocals \/ ioLoopFailed
  BY <1>8, <1>9, <1>16, <1>20, <1>21
     DEF assetWriteFailed, unindexLocals, ioLoopFailed, history
<1>22. CASE runCallback
  <2> DEFINE h == Head(ioQueue)
  <2>1. ioQueue # <<>> /\ h.run = "callback" /\ h \in Handler
    BY <1>1, <1>22 DEF runCallback, NextHandler
  <2>2. HandlerOK(h, ncalls', call', disk')
    BY <1>1, <1>7, <2>1
  <2>3. h.rid \in Calls /\ ResultOK(h.rid, h.res, ncalls', call', disk')
    BY <2>1, <2>2, HandlerFields DEF HandlerOK
  <2>4. answer' = [answer EXCEPT ![h.rid] = Append(@, h.res)] /\ pushed' = pushed
    BY <1>22 DEF runCallback
  <2> HIDE DEF h
  <2>5. ASSUME NEW r \in Calls, NEW i \in DOMAIN answer'[r]
        PROVE  ResultOK(r, answer'[r][i], ncalls', call', disk')
    <3>1. CASE i \in DOMAIN answer[r] /\ answer'[r][i] = answer[r][i]
      BY <1>1, <1>5, <3>1 DEF ResultsInv
    <3>2. CASE r = h.rid /\ answer'[r][i] = h.res
      BY <2>3, <3>2
    <3> QED BY SMTT(30), <1>1, <2>3, <2>4, <2>5, <3>1, <3>2
  <2>6. AnswersOK
    BY <2>5 DEF AnswersOK
  <2> QED BY <1>9, <1>16, <1>20, <1>22, <2>4, <2>6 DEF runCallback
<1>23. ASSUME worker.req.rid \in Calls
       PROVE  /\ worker.req.rid \in 1..ncalls /\ worker.req.rid \in 1..ncalls'
              /\ call'[worker.req.rid] = [op |-> worker.req.op, arg |-> worker.req.arg]
              /\ Failed(worker.req.rid) \in Handler
              /\ HandlerOK(Failed(worker.req.rid), ncalls', call', disk')
  <2>1. worker.req.rid \in 1..ncalls
    BY <1>1, <1>23 DEF RequestsInv, RequestOK, Calls
  <2>2. worker.req.rid \in 1..ncalls'
    BY <1>2, <2>1
  <2>3. call'[worker.req.rid] = [op |-> worker.req.op, arg |-> worker.req.arg]
    BY <1>1, <1>2, <2>1 DEF RequestsInv, RequestOK
  <2> QED BY <1>15, <1>23, <2>1, <2>2, <2>3, HandlerTypes
<1>24. ASSUME NEW h, h \in Handler, h.run # "callback"
       PROVE  HandlerOK(h, ncalls', call', disk')
  BY <1>24 DEF HandlerOK
<1>25. ASSUME worker.req.op = "put"
       PROVE  (StorageError => IoOK) /\ (OtherError => IoOK)
  <2> DEFINE g == [run |-> "assetWriteFailed", id |-> Uuid[worker.req.arg]]
  <2>1. worker.req.rid \in Calls /\ worker.req.arg \in Assets
    BY <1>1, <1>25, RequestFields
  <2>2. g \in Handler /\ g.run # "callback"
    BY SMTT(30), <2>1, HandlerTypes, DatabaseOfType
  <2>3. HandlerOK(g, ncalls', call', disk')
    BY SMTT(30), <1>24, <2>2
  <2> QED BY <1>12, <1>13, <1>23, <2>1, <2>2, <2>3
          DEF StorageError, OtherError, Finish
<1>26. LoopError => IoOK
  <2> DEFINE h == [run |-> "ioLoopFailed"]
  <2>1. h \in Handler /\ h.run # "callback"
    BY HandlerTypes
  <2>2. HandlerOK(h, ncalls', call', disk')
    BY <1>24, <2>1
  <2> QED BY SMTT(30), <1>12, <2>1, <2>2 DEF LoopError, Finish
<1>27. CASE diskWriteOpen
  <2>1. IoOK
    BY <1>10, <1>25, <1>27 DEF diskWriteOpen, WorkerAt
  <2> QED BY <1>8, <1>9, <1>16, <1>27, <2>1 DEF diskWriteOpen, history
<1>28. CASE diskWriteData
  <2>1. IoOK
    BY SMTT(30), <1>10, <1>25, <1>28 DEF diskWriteData, WorkerAt
  <2> QED BY <1>8, <1>9, <1>16, <1>28, <2>1 DEF diskWriteData, history
<1>29. CASE diskWriteRecord
  <2> DEFINE a == worker.req.arg
             d == DatabaseOf(a)
             h == Callback(worker.req.rid, TRUE, NoAsset)
  <2>1. /\ worker.req.op = "put" /\ worker.pc = "record"
        /\ a \in Assets /\ worker.req.rid \in Calls
    BY ZenonT(30), <1>1, <1>29, RequestFields DEF diskWriteRecord, WorkerAt
  <2>2. CASE OtherError /\ pushed' = pushed
    BY ZenonT(30), <1>8, <1>9, <1>16, <1>25, <1>29, <2>1, <2>2 DEF diskWriteRecord
  <2>3. CASE /\ disk[d].position[Uuid[a]] = NoRow
             /\ disk' = [disk EXCEPT ![d] =
                           recordAssetPosition(disk[d], a, worker.pos)]
             /\ Finish(<<h>>) /\ pushed' = pushed \cup {a}
    <3>1. Stored(a, disk')
      BY SMTT(30), <1>1, <2>1, <2>3, RecordKeeps DEF Stored
    <3>2. h \in Handler
      BY ZenonT(30), <2>1, HandlerTypes
    <3>3. HandlerOK(h, ncalls', call', disk')
      BY ZenonT(30), <1>23, <2>1, <3>1, CallbackOK
    <3>4. IoOK
      BY Zenon, <1>12, <2>3, <3>2, <3>3 DEF Finish
    <3>5. PushedOK
      BY Zenon, <1>1, <1>4, <2>3, <3>1 DEF PushedOK, ResultsInv
    <3> QED BY ZenonT(30), <1>8, <1>16, <1>29, <3>4, <3>5 DEF diskWriteRecord
  <2> QED BY ZenonT(30), <1>29, <2>2, <2>3 DEF diskWriteRecord
<1>30. CASE performDiskRead
  <2> DEFINE id == worker.req.arg
             h == Callback(worker.req.rid, TRUE, FindAsset(id))
  <2>1. worker.req.op = "get" /\ id \in Ids /\ worker.req.rid \in Calls
    BY <1>1, <1>30, RequestFields DEF performDiskRead, WorkerAt
  <2>2. ASSUME Finish(<<Failed(worker.req.rid)>>) PROVE IoOK
    BY <1>12, <1>23, <2>1, <2>2 DEF Finish
  <2>3. ASSUME FindAsset(id) # NoAsset, Finish(<<h>>) PROVE IoOK
    <3>1. FindAsset(id) \in Assets /\ Uuid[FindAsset(id)] = id
      BY <1>1, <2>1, <2>3, FindAssetSound
    <3>2. h \in Handler
      BY ZenonT(30), <1>1, <2>1, FindAssetType, HandlerTypes
    <3>3. HandlerOK(h, ncalls', call', disk')
      BY Zenon, <1>23, <2>1, <3>1, CallbackOK
    <3> QED BY Zenon, <1>12, <2>3, <3>2, <3>3 DEF Finish
  <2>4. IoOK
    BY Zenon, <1>30, <2>2, <2>3 DEF performDiskRead
  <2> QED BY <1>8, <1>9, <1>16, <1>30, <2>4 DEF performDiskRead, history
<1>31. CASE performDiskPurge
  BY <1>8, <1>9, <1>14, <1>16, <1>31 DEF performDiskPurge, Finish, history
<1>32. CASE performDiskPurgeLocals
  <2> DEFINE h == [run |-> "unindexLocals",
                   ids |-> getContainedAssetIds(disk[<<worker.req.arg, "locals">>]),
                   prefix |-> worker.req.arg]
  <2>1. h \in Handler /\ h.run # "callback"
    BY ZenonT(30), <1>1, <1>32, RequestFields, HandlerTypes
       DEF performDiskPurgeLocals, WorkerAt, getContainedAssetIds
  <2>2. HandlerOK(h, ncalls', call', disk')
    BY <1>24, <2>1
  <2>3. Finish(<<h>>) \/ LoopError
    BY <1>32 DEF performDiskPurgeLocals
  <2>4. IoOK
    BY <1>12, <1>26, <2>1, <2>2, <2>3 DEF Finish
  <2> QED BY Zenon, <1>8, <1>9, <1>16, <1>32, <2>4 DEF performDiskPurgeLocals, history
<1>33. CASE removeIndexFile
  <2>1. IoOK
    BY <1>10, <1>26, <1>33 DEF removeIndexFile
  <2> QED BY <1>8, <1>9, <1>16, <1>33, <2>1 DEF removeIndexFile, history
<1>34. CASE removeDataFile
  <2>1. IoOK
    BY <1>14, <1>26, <1>34 DEF removeDataFile, Finish
  <2> QED BY <1>8, <1>9, <1>16, <1>34, <2>1 DEF removeDataFile, history
<1>35. ASSUME NEW v \in Unit \cup {NoAsset} \cup SUBSET Ids,
              worker.req.op \in {"status", "ids"},
              Finish(<<Callback(worker.req.rid, TRUE, v)>>)
       PROVE  IoOK
  <2>1. worker.req.rid \in Calls
    BY SMTT(30), <1>1, <1>35, RequestFields
  <2>2. HandlerOK(Callback(worker.req.rid, TRUE, v), ncalls', call', disk')
    BY Zenon, <1>23, <1>35, <2>1, CallbackOK
  <2> QED BY Zenon, <1>12, <1>35, <2>1, <2>2, HandlerTypes DEF Finish
<1>36. CASE performGetStatus
  BY ZenonT(30), <1>8, <1>9, <1>16, <1>35, <1>36 DEF performGetStatus, WorkerAt, history
<1>37. CASE performGetStoredAssetIds
  <2>1. IoOK
    BY ZenonT(30), <1>26, <1>35, <1>37
       DEF performGetStoredAssetIds, WorkerAt, getContainedAssetIds
  <2> QED BY Zenon, <1>8, <1>9, <1>16, <1>37, <2>1 DEF performGetStoredAssetIds, history
<1>38. CASE stopped \/ crash
  <2>1. IoOK
    BY <1>38 DEF stopped, crash, VolatileLost, IoOK
  <2> QED BY <1>8, <1>9, <1>16, <1>38, <2>1 DEF stopped, crash, history
<1> QED BY SMTT(30), <1>18, <1>19, <1>21, <1>22, <1>27, <1>28, <1>29, <1>30, <1>31, <1>32,
           <1>33, <1>34, <1>36, <1>37, <1>38
        DEF Next, HandlerStep, WorkerStep, ProcessStep

----------------------------------------------------------------------------
(* The theorems.                                                           *)

\* No step of a thread, failure, crash or restart breaks the invariant.
LEMMA InvStep == Inv /\ [Next]_vars => Inv'
<1> SUFFICES ASSUME Inv, [Next]_vars PROVE Inv'
  OBVIOUS
<1>1. CASE Next
  <2>1. DiskKept
    BY <1>1, DiskStep DEF Inv
  <2>2. TypeOK'
    BY <1>1, <2>1, CallerType, HandlerType, WorkerType, ProcessType
       DEF Next, DiskKept
  <2> QED BY <1>1, <2>1, <2>2, ThreadStep, PurgeStep, WorkerInvStep,
             RequestsStep, ResultsStep DEF Inv, DiskKept
<1>2. CASE UNCHANGED vars
  BY Zenon, <1>2 DEF Inv, vars, volatile, history, bounded, TypeOK, ThreadInv, PurgeInv,
              DiskInv, WorkerInv, RequestsInv, ResultsInv
<1> QED BY <1>1, <1>2

\* The inductive invariant holds: types, sound rows, and every request, handler
\* and answer in flight agrees with the call it belongs to.
THEOREM Invariance == Spec => []Inv
BY InitInv, InvStep, PTL DEF Spec

\* Type correctness of the backend.
THEOREM TypeCorrect == Spec => []TypeOK
<1>1. Inv => TypeOK
  BY DEF Inv
<1> QED BY <1>1, Invariance, PTL

\* No failure, crash or purge leaves a row of an index file that points at
\* anything but a whole asset with the row's id.
THEOREM RowsSound == Spec => []RowsAreSound
<1>1. Inv => RowsAreSound
  BY SMTT(30) DEF Inv, DiskInv, RowsAreSound
<1> QED BY <1>1, Invariance, PTL

\* A get that succeeds returns the asset that was asked for.
THEOREM GetsAreRight == Spec => []GetReturnsTheAsset
<1>1. Inv => GetReturnsTheAsset
  <2> SUFFICES ASSUME Inv, NEW r \in 1..ncalls, call[r].op = "get",
                      NEW i \in DOMAIN answer[r], answer[r][i].ok
               PROVE  /\ answer[r][i].val \in Assets
                      /\ Uuid[answer[r][i].val] = call[r].arg
    BY DEF GetReturnsTheAsset
  <2>1. r \in Calls
    BY BackendAssumption DEF Inv, TypeOK, Calls
  <2> QED BY <2>1 DEF Inv, ResultsInv, ResultOK
<1> QED BY <1>1, Invariance, PTL

\* An acknowledged or pushed global asset is on disk for good.
THEOREM AcksAreDurable == Spec => []AckedStored
<1>1. Inv => AckedStored
  <2> SUFFICES ASSUME Inv, NEW a \in Globals, Acked(a) \/ a \in pushed
               PROVE  Stored(a, disk)
    BY DEF AckedStored, Stored
  <2>1. CASE a \in pushed
    BY <2>1 DEF Inv, ResultsInv
  <2>2. CASE Acked(a)
    <3>1. PICK r \in 1..ncalls : /\ call[r] = [op |-> "put", arg |-> a]
                                /\ \E i \in DOMAIN answer[r] : answer[r][i].ok
      BY <2>2 DEF Acked
    <3>2. r \in Calls
      BY BackendAssumption DEF Inv, TypeOK, Calls
    <3> QED BY <3>1, <3>2 DEF Inv, ResultsInv, ResultOK
  <2> QED BY <2>1, <2>2
<1> QED BY <1>1, Invariance, PTL

\* The asset a global id holds never changes and never goes away.
THEOREM AssetsAreImmutable == Spec => GlobalsImmutable
<1>1. Inv /\ [Next]_vars =>
        [\A a \in Globals :
           LET d == DatabaseOf(a)
               held == RowContent(disk[d], Uuid[a])
           IN held # NoAsset => RowContent(disk'[d], Uuid[a]) = held]_vars
  <2> SUFFICES ASSUME Inv, Next
               PROVE  \A a \in Globals :
                        LET d == DatabaseOf(a)
                            held == RowContent(disk[d], Uuid[a])
                        IN held # NoAsset => RowContent(disk'[d], Uuid[a]) = held
    OBVIOUS
  <2>1. DiskKept
    BY DiskStep DEF Inv
  <2> QED BY SMTT(30), <2>1 DEF DiskKept
<1> QED BY <1>1, Invariance, PTL DEF Spec, GlobalsImmutable
=============================================================================
