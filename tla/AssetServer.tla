---------------------------- MODULE AssetServer ----------------------------
(***************************************************************************)
(* The asset server as its clients see it: connections over the cache, the *)
(* disk backend and the mesh.  One ASIO thread runs all handlers; the disk *)
(* worker takes its requests in order.                                     *)
(***************************************************************************)
EXTENDS ClientConnection, FiniteSets

CONSTANTS
  Clients,      \* connections that may be made
  Menus,        \* what each of them may ask: functions from Clients to sets
  MaxAsked,     \* bound: requests on a connection
  MaxFaults,    \* bound: failures of the disk and of connections
  Assets,       \* assets, with a valid or an invalid uuid
  PeerHas       \* the asset the mesh may have for an id

ASSUME ServerAssumption ==
  /\ DOMAIN Uuid = Assets /\ SizeOf \in [Assets -> Nat \ {0}]
  /\ MaxSize \in Nat /\ MaxAsked \in Nat /\ MaxFaults \in Nat
  /\ PeerHas \in [Ids -> Assets \cup {NoAsset}]

VARIABLES
  st,           \* the server: connections, cache, queues, disk
  menu,         \* what the clients of this behaviour ask for
  accepted,     \* connections that were made
  lost,         \* connections the network or the other side has cut
  down,         \* an exception left a handler: io_service::run ends
  asked,        \* history: number of requests read on a connection
  acked,        \* history: assets whose PUT was answered OK
  overtaken,    \* history: ids for which a search of the mesh brought an asset
                \* after a PUT was answered OK
  written,      \* history: assets that were ever on the disk
  faults        \* history: number of failures so far

outside == <<menu, accepted, lost, down>>
history == <<asked, acked, overtaken, written, faults>>
vars == <<st, outside, history>>

Init ==
  /\ st = [conn |-> [c \in Clients |-> NewClient], clients |-> {},
           ops |-> [c \in Clients |-> <<>>], cache |-> EmptyCache,
           index |-> {}, disk |-> [i \in Ids |-> NoAsset],
           work |-> <<>>, posted |-> <<>>, searches |-> <<>>]
  /\ menu \in Menus
  /\ accepted = {} /\ lost = {} /\ down = FALSE
  /\ asked = [c \in Clients |-> 0]
  /\ acked = {} /\ overtaken = {} /\ written = {} /\ faults = 0

----------------------------------------------------------------------------
(* Handlers of the sockets.                                                *)

handleAccept(c) ==
  /\ ~down /\ c \notin accepted
  /\ accepted' = accepted \cup {c}
  /\ st' = start(st, c)
  /\ UNCHANGED <<menu, lost, down, history>>

\* An operation of c ends, well or, on a connection that is cut or closed, badly.
Ends(c, run, ok) ==
  /\ ~down /\ \E n \in DOMAIN st.ops[c] : st.ops[c][n].run = run
  /\ IF ok THEN c \in st.clients ELSE c \in lost \/ c \notin st.clients

Ended(c, run) ==
  [st EXCEPT !.ops[c] = RemoveFirstMatch(@, LAMBDA op : op.run = run)]

ChallengeWritten(c) ==
  \E ok \in BOOLEAN :
    /\ Ends(c, "challengeWritten", ok)
    /\ st' = handleWriteChallenge(Ended(c, "challengeWritten"), c, ok)
    /\ UNCHANGED <<outside, history>>

\* An exception leaves the handler: set_option, or remote_endpoint, of a
\* connection that is cut.
Throws(c, run) ==
  /\ Ends(c, run, TRUE) /\ c \in lost
  /\ down' = TRUE
  /\ UNCHANGED <<st, menu, accepted, lost, history>>

ResponseRead(c) ==
  \/ \E ok \in BOOLEAN, auth \in {"client", "server", "invalid"} :
       /\ Ends(c, "responseRead", ok)
       /\ st' = handleReadChallengeResponse(Ended(c, "responseRead"), c, ok, auth)
       /\ UNCHANGED <<outside, history>>
  \/ Throws(c, "responseRead")

\* handleWriteAuthFailure
FailureWritten(c) ==
  \E ok \in BOOLEAN :
    /\ Ends(c, "failureWritten", ok)
    /\ st' = disconnect(Ended(c, "failureWritten"), c)
    /\ UNCHANGED <<outside, history>>

SuccessWritten(c) ==
  \/ \E ok \in BOOLEAN :
       /\ Ends(c, "successWritten", ok)
       /\ st' = handleWriteAuthSuccess(Ended(c, "successWritten"), c)
       /\ UNCHANGED <<outside, history>>
  \/ Throws(c, "successWritten")

HeaderRead(c) ==
  \E req \in menu[c] :
    /\ Ends(c, "headerRead", TRUE) /\ asked[c] < MaxAsked
    /\ st' = handleClientRequestHeaderRead(Ended(c, "headerRead"), c, TRUE,
               req @@ [known |-> acked])
    /\ asked' = [asked EXCEPT ![c] = @ + 1]
    /\ UNCHANGED <<outside, acked, overtaken, written, faults>>

HeaderFails(c) ==
  /\ Ends(c, "headerRead", FALSE)
  /\ st' = handleClientRequestHeaderRead(Ended(c, "headerRead"), c, FALSE,
                                         NoRequest)
  /\ UNCHANGED <<outside, history>>

AssetRead(c) ==
  \E ok \in BOOLEAN :
    /\ Ends(c, "assetRead", ok)
    /\ st' = handleAssetDataRead(Ended(c, "assetRead"), c, ok)
    /\ UNCHANGED <<outside, history>>

ResponseWritten(c) ==
  \E ok \in BOOLEAN :
    /\ Ends(c, "responseWritten", ok)
    /\ st' = handleResponseHeaderWrite(Ended(c, "responseWritten"), c, ok)
    /\ UNCHANGED <<outside, history>>

DataWritten(c) ==
  \E ok \in BOOLEAN :
    /\ Ends(c, "dataWritten", ok)
    /\ st' = handleResponseDataWrite(Ended(c, "dataWritten"), c, ok)
    /\ UNCHANGED <<outside, history>>

----------------------------------------------------------------------------
(* Callbacks posted to the io_service, in order, and answers of the mesh.  *)

Posted(run) == ~down /\ st.posted # <<>> /\ Head(st.posted).run = run

Callback == Head(st.posted)

Taken == [st EXCEPT !.posted = Tail(@)]

CacheHit ==
  /\ Posted("hit")
  /\ st' = handleStorageGetResponse(Taken, Callback.client, Callback.asset)
  /\ UNCHANGED <<outside, history>>

GetCompleted ==
  LET c == Callback.client
      a == Callback.asset
      failed == [Taken EXCEPT !.conn[c].readFailed = @ \/ Callback.error]
  IN /\ Posted("got")
     /\ st' = handleStorageGetResponse(
                asyncGetCompleted(failed, a, Callback.dontCache), c, a)
     /\ UNCHANGED <<outside, history>>

PutCompleted ==
  LET c == Callback.client
      a == Callback.asset
  IN /\ Posted("put")
     /\ st' = handleStorageWriteResponse(
                asyncPutCompleted(Taken, a, Callback.ok), c, Callback.ok)
     /\ acked' = IF st'.conn[c].resp.type = "OK" THEN acked \cup {a}
                 ELSE acked
     /\ UNCHANGED <<outside, asked, overtaken, written, faults>>

ListCompleted ==
  /\ Posted("list")
  /\ st' = listCompleted(Taken, Callback.client)
  /\ UNCHANGED <<outside, history>>

\* VFSBackend::assetWriteFailed
WriteFailed ==
  /\ Posted("assetWriteFailed")
  /\ st' = [Taken EXCEPT !.index = @ \ {Callback.id}]
  /\ UNCHANGED <<outside, history>>

\* A search ends (IntraMeshService: SearchEnds) with the asset or without; the
\* callback runs, then searchComplete informs the cache.
SearchCompletes ==
  \E n \in DOMAIN st.searches :
    LET x == st.searches[n]
    IN \E a \in {NoAsset, PeerHas[x.id]} :
         /\ ~down
         /\ st' = inform(handleIntrameshGetResponse(
                           [st EXCEPT !.searches = RemoveAt(@, n)],
                           x.client, x.id, a), a)
         /\ overtaken' = IF a # NoAsset /\ \E b \in acked : Uuid[b] = x.id
                         THEN overtaken \cup {x.id} ELSE overtaken
         /\ UNCHANGED <<outside, asked, acked, written, faults>>

----------------------------------------------------------------------------
(* The disk worker: VFSBackend with one step for each request.             *)

Request == Head(st.work)

Worked == [st EXCEPT !.work = Tail(@)]

Working(runs) == ~down /\ st.work # <<>> /\ Request.run \in runs

Fault == faults < MaxFaults /\ faults' = faults + 1

DiskReads ==
  /\ Working({"got"})
  /\ \E error \in BOOLEAN :
       /\ IF error THEN Fault ELSE UNCHANGED faults
       /\ st' = Post(Worked, Request @@
                  [asset |-> IF error THEN NoAsset ELSE st.disk[Request.id],
                   error |-> error])
  /\ UNCHANGED <<outside, asked, acked, overtaken, written>>

\* The existence index lets one put of an id through.
DiskWrites ==
  LET a == Request.asset
  IN /\ Working({"put"}) /\ st.disk[Uuid[a]] = NoAsset
     /\ st' = Post([Worked EXCEPT !.disk[Uuid[a]] = a], Request @@ [ok |-> TRUE])
     /\ written' = written \cup {a}
     /\ UNCHANGED <<outside, asked, acked, overtaken, faults>>

\* Whether the id leaves the existence index depends on the exception.
DiskWriteFails ==
  LET failed == Request @@ [ok |-> FALSE]
      unindex == [run |-> "assetWriteFailed", client |-> "none",
                  id |-> Uuid[Request.asset]]
  IN /\ Working({"put"}) /\ Fault
     /\ \/ st' = Post(Worked, failed)
        \/ st' = Post(Post(Worked, unindex), failed)
     /\ UNCHANGED <<outside, asked, acked, overtaken, written>>

\* A listing that fails is logged and its callback dropped.
DiskLists ==
  /\ Working({"status", "ids"})
  /\ \/ /\ st' = Post(Worked, [run |-> "list", client |-> Request.client])
        /\ UNCHANGED faults
     \/ /\ Request.run = "ids" /\ Fault /\ st' = Worked
  /\ UNCHANGED <<outside, asked, acked, overtaken, written>>

\* The network or the other side cuts a connection.
Cut(c) ==
  /\ ~down /\ c \in st.clients \ lost /\ Fault
  /\ lost' = lost \cup {c}
  /\ UNCHANGED <<st, menu, accepted, down, asked, acked, overtaken, written>>

----------------------------------------------------------------------------
Handshake(c) ==
  ChallengeWritten(c) \/ ResponseRead(c) \/ FailureWritten(c) \/ SuccessWritten(c)

Serving(c) == AssetRead(c) \/ ResponseWritten(c) \/ DataWritten(c)

Callbacks ==
  CacheHit \/ GetCompleted \/ PutCompleted \/ ListCompleted \/ WriteFailed

Worker == DiskReads \/ DiskWrites \/ DiskWriteFails \/ DiskLists

Next ==
  \/ \E c \in Clients : \/ handleAccept(c) \/ Handshake(c) \/ Serving(c)
                        \/ HeaderRead(c) \/ HeaderFails(c) \/ Cut(c)
  \/ Callbacks \/ SearchCompletes \/ Worker

Spec == Init /\ [][Next]_vars

\* Handlers run, the disk worker works, searches end (IntraMeshService shows
\* it), and a client that announced an asset sends it: weak fairness, with what
\* enables each of them written out.
Fairness ==
  /\ \A c \in Clients :
       \/ []<>(down \/ \A n \in DOMAIN st.ops[c] : st.ops[c][n].run \notin
                 {"assetRead", "responseWritten", "dataWritten"})
       \/ []<><<Serving(c)>>_vars
  /\ []<>(down \/ st.posted = <<>>) \/ []<><<Callbacks>>_vars
  /\ []<>(down \/ st.searches = <<>>) \/ []<><<SearchCompletes>>_vars
  /\ []<>(down \/ st.work = <<>>) \/ []<><<Worker>>_vars

FairSpec == Spec /\ Fairness

----------------------------------------------------------------------------
(* Properties.                                                             *)

Of(c, seq) == Cardinality({n \in DOMAIN seq : seq[n].client = c})

Outstanding(c) ==
  Len(st.ops[c]) + Of(c, st.work) + Of(c, st.posted) + Of(c, st.searches)

\* The requests whose callback is never run: a purge, and a listing that failed.
Dropped(c) ==
  /\ st.conn[c].active
  /\ \/ st.conn[c].req.type = "PURGE"
     \/ st.conn[c].req.type = "IDS" /\ faults > 0

\* A connection has one thing going on at a time, a socket operation, a request
\* to the storage or a search; that is what keeps the bare pointers in storage
\* and mesh callbacks valid and the responses in the order of the requests.
\* Nothing is outstanding for a client that was dropped.
OneOperation ==
  \A c \in Clients :
    /\ Outstanding(c) <= IF c \in st.clients THEN 1 ELSE 0
    /\ c \in st.clients => Outstanding(c) = 1 \/ Dropped(c)

SumOf(list) == FoldLeft(LAMBDA sum, e : sum + SizeOf[e.data], 0, list)

\* The list and the index of the cache hold the same keys, no key twice, and
\* the count that drives eviction is the sum of what is in the list and within
\* the limit: otherwise insert() would evict past the end of the list.
CacheSound ==
  /\ st.cache.index = Keys(st.cache.list)
  /\ Len(st.cache.list) = Cardinality(st.cache.index)
  /\ st.cache.size = SumOf(st.cache.list) /\ st.cache.size <= MaxSize

\* A response is being written to c.
Answering(c) ==
  \E n \in DOMAIN st.ops[c] : st.ops[c][n].run \in {"responseWritten", "dataWritten"}

\* An asset that a client is given, whether it comes from the disk, the cache
\* or the mesh, has the id the client asked for and was on the disk before or
\* is held by a peer: a PUT that fails later is never visible.
ServedIsStored ==
  \A c \in Clients :
    LET resp == st.conn[c].resp
    IN Answering(c) /\ resp.type = "FOUND" /\ resp.asset # NoAsset =>
         /\ resp.asset \in written \/ resp.asset = PeerHas[resp.id]
         /\ resp.id = st.conn[c].req.id

\* Once the PUT of an asset was answered OK, every GET of its id that is read
\* afterwards, on any connection, is given that asset, whatever the cache
\* evicted, and every TEST finds the id, if the disk does not fail to read.
\* There is one exception: a search that was under way, or that a failed read
\* caused, puts the asset that the peers have for the id into the cache
\* (searchComplete, AssetCache::inform), over the one acknowledged; from then on
\* a GET may be given the peers' asset.
AcknowledgedIsServed ==
  \A c \in Clients :
    LET req == st.conn[c].req
        resp == st.conn[c].resp
    IN Answering(c) /\ req.type \in {"GET", "GET_DONTCACHE", "TEST"}
         /\ ~st.conn[c].readFailed =>
       \A a \in {b \in req.known : Uuid[b] = req.id} :
         /\ resp.type = "FOUND"
         /\ \/ req.type = "TEST" \/ resp.asset = a
            \/ req.id \in overtaken /\ resp.asset = PeerHas[req.id]

\* Every request is answered, unless its callback is dropped, the connection
\* is lost or the server goes down.
RequestsAnswered ==
  \A c \in Clients :
    st.conn[c].active ~>
      ~st.conn[c].active \/ c \notin st.clients \/ down \/ Dropped(c)
=============================================================================
