------------------------ MODULE WriteOnceStoreProofs ------------------------
(***************************************************************************)
(* The storage backend implements a write-once store.                      *)
(***************************************************************************)
EXTENDS VFSBackendProofs

Confirmed == {a \in Globals : Acked(a)}

\* A new server stores and has confirmed nothing.
LEMMA StoreInit == Init => StoredGlobals = {} /\ Confirmed = {}
<1> SUFFICES ASSUME Init PROVE StoredGlobals = {} /\ Confirmed = {}
  OBVIOUS
<1>1. ASSUME NEW a \in Globals
      PROVE  RowContent(disk[DatabaseOf(a)], Uuid[a]) # a
  <2>1. a \in Assets /\ a # NoAsset /\ DatabaseOf(a) \in Databases /\ Uuid[a] \in Ids
    BY DatabaseOfType, AssetAssumption DEF Globals
  <2> QED BY <2>1 DEF Init, EmptyDatabase, RowContent, NoRow
<1>2. ncalls = 0
  BY DEF Init
<1> QED BY <1>1, <1>2 DEF StoredGlobals, Confirmed, Acked

\* Every step keeps what is stored, or adds one asset for an id that has none.
LEMMA StoredStep ==
  ASSUME Inv, Next
  PROVE  \/ StoredGlobals' = StoredGlobals
         \/ \E a \in Globals :
              /\ \A b \in StoredGlobals : Uuid[b] # Uuid[a]
              /\ StoredGlobals' = StoredGlobals \cup {a}
<1>1. DiskKept
  BY DiskStep DEF Inv
<1>2. PICK b : \A a \in Globals :
        a \in StoredGlobals' /\ a # b => a \in StoredGlobals
  BY <1>1 DEF DiskKept, StoredGlobals
<1>3. \A a \in Globals : a # NoAsset
  BY AssetAssumption DEF Globals
<1>4. StoredGlobals \subseteq StoredGlobals'
  BY <1>1, <1>3 DEF DiskKept, StoredGlobals
<1>5. StoredGlobals \subseteq Globals /\ StoredGlobals' \subseteq Globals
  BY DEF StoredGlobals
<1>6. CASE b \notin StoredGlobals' \/ b \in StoredGlobals
  BY <1>2, <1>4, <1>5, <1>6
<1>7. CASE b \in StoredGlobals' /\ b \notin StoredGlobals
  <2>1. StoredGlobals' = StoredGlobals \cup {b}
    BY <1>2, <1>4, <1>5, <1>7
  <2>2. ASSUME NEW c \in StoredGlobals, Uuid[c] = Uuid[b]
        PROVE  FALSE
    <3>1. DatabaseOf(c) = DatabaseOf(b)
      BY <1>5, <1>7, <2>2 DEF DatabaseOf, Globals
    <3>2. /\ RowContent(disk'[DatabaseOf(c)], Uuid[c]) = c
          /\ RowContent(disk'[DatabaseOf(b)], Uuid[b]) = b
      BY <1>4, <1>7 DEF StoredGlobals
    <3> QED BY <1>7, <2>2, <3>1, <3>2
  <2> QED BY <1>5, <1>7, <2>1, <2>2
<1> QED BY <1>6, <1>7

\* The callback that a step runs, if any, is the only answer it gives.
LEMMA AnswerStep ==
  ASSUME Next
  PROVE  UNCHANGED answer \/ runCallback
BY Zenon DEF Next, CallerStep, getAsset, purgeAsset, getStatus, storeAsset,
   getStoredAssetIDsWithPrefix, beginPurgeLocals, StoreStep, addNewId,
   enqueuePut, HandlerStep, assetWriteFailed, unindexLocals, ioLoopFailed,
   onPurgeTimer, PurgeTick, WorkerStep, workLoop, diskWriteOpen, diskWriteData,
   diskWriteRecord, performDiskRead, performDiskPurge, performDiskPurgeLocals,
   removeIndexFile, removeDataFile, performGetStatus, performGetStoredAssetIds,
   ProcessStep, shutdown, stopped, crash, start, history

\* A step that runs no callback confirms nothing.
LEMMA NothingConfirmed ==
  ASSUME Inv, Next, UNCHANGED answer
  PROVE  Confirmed' = Confirmed
<1>1. /\ ncalls \in Nat /\ ncalls' \in Nat /\ ncalls <= ncalls'
      /\ \A r \in 1..ncalls : call'[r] = call[r]
  BY CallsKept DEF Inv
<1>2. /\ ncalls \in 0..MaxCalls /\ ncalls' \in 0..MaxCalls
  BY InvStep DEF Inv, TypeOK
<1>3. ASSUME NEW r \in 1..ncalls', NEW i \in DOMAIN answer[r]
      PROVE  r \in 1..ncalls
  <2>1. r \in Calls
    BY <1>2, BackendAssumption DEF Calls
  <2> QED BY <1>3, <2>1 DEF Inv, ResultsInv, ResultOK
<1>4. ASSUME NEW a \in Globals
      PROVE  Acked(a)' <=> Acked(a)
  <2>1. ASSUME Acked(a) PROVE Acked(a)'
    <3>1. PICK r \in 1..ncalls : /\ call[r] = [op |-> "put", arg |-> a]
                                /\ \E i \in DOMAIN answer[r] : answer[r][i].ok
      BY <2>1 DEF Acked
    <3>2. r \in 1..ncalls' /\ call'[r] = call[r]
      BY <1>1
    <3> QED BY <3>1, <3>2 DEF Acked
  <2>2. ASSUME Acked(a)' PROVE Acked(a)
    <3>1. PICK r \in 1..ncalls' : /\ call'[r] = [op |-> "put", arg |-> a]
                                 /\ \E i \in DOMAIN answer[r] : answer[r][i].ok
      BY <2>2 DEF Acked
    <3>2. r \in 1..ncalls
      BY <1>3, <3>1
    <3> QED BY <1>1, <3>1, <3>2 DEF Acked
  <2> QED BY <2>1, <2>2
<1> QED BY <1>4 DEF Confirmed

\* A callback confirms at most the asset of its call, which is stored.
LEMMA CallbackConfirms ==
  ASSUME Inv, runCallback
  PROVE  \/ Confirmed' = Confirmed
         \/ \E a \in StoredGlobals : Confirmed' = Confirmed \cup {a}
<1> DEFINE h == Head(ioQueue)
<1>1. /\ ioQueue # <<>> /\ h.run = "callback" /\ 1 \in DOMAIN ioQueue /\ h = ioQueue[1]
      /\ answer' = [answer EXCEPT ![h.rid] = Append(@, h.res)]
      /\ UNCHANGED <<ncalls, call>>
  BY DEF Inv, TypeOK, runCallback, NextHandler
<1>2. h \in Handler /\ HandlerOK(h, ncalls, call, disk)
  BY <1>1 DEF Inv, TypeOK, ResultsInv
<1>3. h.rid \in Calls /\ h.res \in Result /\ ResultOK(h.rid, h.res, ncalls, call, disk)
  BY <1>1, <1>2 DEF HandlerOK, Handler
<1> HIDE DEF h
<1>4. /\ answer \in [Calls -> Seq(Result)] /\ 1..ncalls \subseteq Calls
      /\ ncalls \in Nat
  BY BackendAssumption DEF Inv, TypeOK, Calls
<1> DEFINE Ok(r, ans) == \E i \in DOMAIN ans[r] : ans[r][i].ok
<1>5. \A r \in Calls : r # h.rid => (Ok(r, answer') <=> Ok(r, answer))
  BY <1>1, <1>3, <1>4
<1>6. Ok(h.rid, answer') <=> Ok(h.rid, answer) \/ h.res.ok
  <2>1. answer'[h.rid] = Append(answer[h.rid], h.res) /\ answer[h.rid] \in Seq(Result)
    BY <1>1, <1>3, <1>4
  <2> DEFINE old == answer[h.rid]
             new == answer'[h.rid]
  <2>2. /\ Len(old) \in Nat /\ DOMAIN old = 1..Len(old)
        /\ DOMAIN new = 1..(Len(old) + 1) /\ new[Len(old) + 1] = h.res
        /\ \A i \in 1..Len(old) : new[i] = old[i]
    BY <1>3, <2>1
  <2> HIDE DEF old, new
  <2>3. (\E i \in DOMAIN new : new[i].ok) <=> (\E i \in DOMAIN old : old[i].ok) \/ h.res.ok
    BY <2>2
  <2> QED BY <2>3 DEF old, new
<1>7. \A a : Acked(a) <=> \E r \in 1..ncalls :
                            call[r] = [op |-> "put", arg |-> a] /\ Ok(r, answer)
  BY DEF Acked
<1>8. \A a : Acked(a)' <=> \E r \in 1..ncalls :
                             call[r] = [op |-> "put", arg |-> a] /\ Ok(r, answer')
  BY <1>1 DEF Acked
<1>9. h.rid \in 1..ncalls
  BY <1>3 DEF ResultOK
<1> HIDE DEF Ok
<1> DEFINE PutOf(r, a) == call[r] = [op |-> "put", arg |-> a]
<1>10. \A a, b : PutOf(h.rid, a) /\ PutOf(h.rid, b) => a = b
  OBVIOUS
<1>11. \A r \in 1..ncalls : r \in Calls
  BY <1>4
<1>12. /\ \A a : Acked(a) <=> \E r \in 1..ncalls : PutOf(r, a) /\ Ok(r, answer)
       /\ \A a : Acked(a)' <=> \E r \in 1..ncalls : PutOf(r, a) /\ Ok(r, answer')
  BY <1>7, <1>8
<1> HIDE DEF PutOf
<1>13. CASE h.res.ok /\ \E a \in Globals : PutOf(h.rid, a)
  <2>1. PICK a \in Globals : PutOf(h.rid, a)
    BY <1>13
  <2>2. a \in StoredGlobals
    BY <1>3, <1>13, <2>1 DEF ResultOK, Stored, StoredGlobals, PutOf
  <2>3. \A b \in Globals : Acked(b)' <=> Acked(b) \/ b = a
    BY Zenon, <1>5, <1>6, <1>9, <1>13, <1>10, <1>11, <1>12, <2>1
  <2>4. Confirmed' = Confirmed \cup {a}
    BY <2>3 DEF Confirmed
  <2> QED BY <2>2, <2>4
<1>14. CASE ~(h.res.ok /\ \E a \in Globals : PutOf(h.rid, a))
  <2>1. \A b \in Globals : Acked(b)' <=> Acked(b)
    BY Zenon, <1>5, <1>6, <1>14, <1>11, <1>12
  <2> QED BY <2>1 DEF Confirmed
<1> QED BY <1>13, <1>14

\* The storage backend, with all its threads, failures, crashes and restarts,
\* is a write-once store of the global assets.
THEOREM BackendIsWriteOnceStore == Spec => ImplementsWriteOnceStore
<1>1. Init => Store!Init
  BY StoreInit DEF Store!Init, Confirmed
<1>2. Inv /\ [Next]_vars => [Store!Next]_<<StoredGlobals, Confirmed>>
  <2> SUFFICES ASSUME Inv, [Next]_vars
               PROVE  [Store!Next]_<<StoredGlobals, Confirmed>>
    OBVIOUS
  <2>1. CASE UNCHANGED vars
    BY <2>1 DEF vars, volatile, history, StoredGlobals, Confirmed, Acked
  <2>2. CASE Next /\ UNCHANGED answer
    <3>1. Confirmed' = Confirmed
      BY <2>2, NothingConfirmed
    <3> QED BY <2>2, <3>1, StoredStep DEF Store!Next, Store!Store, Confirmed
  <2>3. CASE runCallback
    <3>1. StoredGlobals' = StoredGlobals
      BY <2>3 DEF runCallback, StoredGlobals
    <3> QED BY <2>3, <3>1, CallbackConfirms
            DEF Store!Next, Store!Confirm, Confirmed, StoredGlobals
  <2> QED BY <2>1, <2>2, <2>3, AnswerStep
<1> QED BY <1>1, <1>2, Invariance, PTL
        DEF Spec, ImplementsWriteOnceStore, Store!Spec, Confirmed
=============================================================================
