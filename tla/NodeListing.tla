---------------------------- MODULE NodeListing ----------------------------
(***************************************************************************)
(* How a page collects what the hypervisors have: the List of the VM,      *)
(* volume and network repositories starts one goroutine per node, each     *)
(* holds the connection of its node while it asks libvirt (NodeLock.tla is *)
(* all it needs of the pool), appends its rows to the common result and    *)
(* calls wg.Done; List waits for all of them.  domainToVm shows the        *)
(* configdrive of a VM through a cache that all goroutines share.  Get     *)
(* does the same work for one VM in the goroutine of the request.          *)
(***************************************************************************)
EXTENDS Integers

CONSTANTS
    Requests,       \* HTTP requests
    Nodes,          \* configured node ids
    Uris,
    NodeUri,        \* NodeUri[n]: the hypervisor of node n
    Queries,        \* what the pages ask for: records of kind and node names
    Paths,          \* configdrive volumes; one VM each
    PathsOf,        \* PathsOf[u]: the ones that hypervisor u may have
    Odd,            \* VMs whose XML makes the conversion panic
    Hidden,         \* volumes whose metadata hides them
    Networks,       \* Networks[u]: the networks of hypervisor u
    MaxChanges,     \* bound: VMs removed or created, and deaths of the process
    NONE

ASSUME UriAssumption == NodeUri \in [Nodes -> Uris]
ASSUME PathsOfAssumption == PathsOf \in [Uris -> SUBSET Paths]
ASSUME QueriesAssumption ==
    \A k \in Queries : /\ k.kind \in {"vms", "vols", "nets", "get"}
                       /\ k.kind = "get" => k.path \in Paths /\ \E n \in k.only : k.only = {n}
ASSUME BoundAssumption == MaxChanges \in Nat
ASSUME NoneAssumption == NONE \notin (Requests \X Nodes) \cup Paths \cup Queries

VARIABLES
    up,         \* the process runs
    query,      \* what each request asks for, NONE when idle
    answer,     \* the rows of a request that returned, NONE before
    result,     \* List's result slice, as the set of its rows
    wk,         \* wk[<<q, n>>]: the goroutine of request q for node n
    owner,      \* who holds the connection of a hypervisor
    resultMu,   \* the mutex of each List call
    cache,      \* configCache: the configdrive remembered for a path
    cacheMu,    \* configCacheMu
    drive,      \* version of the configdrive at a path, 0 when there is none
    shown,      \* history: the version last shown of a path, 0 if none was
    changes     \* how many of MaxChanges there were

vars == <<up, query, answer, result, wk, owner, resultMu, cache, cacheMu,
          drive, shown, changes>>

Workers == Requests \X Nodes

Uri(w) == NodeUri[w[2]]
Kind(w) == query[w[1]].kind

HolderPcs == {"list", "convert", "parse", "lockcache", "store", "release"}
Pcs == HolderPcs \cup {"off", "acquire", "lockresult", "append", "finished"}

Off == [pc |-> "off", todo |-> {}, seen |-> {}, rows |-> {}, copy |-> {},
        path |-> NONE, config |-> NONE]

\* The change that writes a drive numbers it; what is there from the start is 1.
Versions == 1 .. MaxChanges + 1

Configs == [uri : Uris, version : Versions]

ASSUME ConfigsAssumption == NONE \notin Configs

Names == Paths \cup UNION {Networks[u] : u \in Uris}
Rows == [node : Nodes, path : Names, config : Configs \cup {NONE}]

WorkerStates == [pc : Pcs, todo : SUBSET Paths, seen : SUBSET Names,
                 rows : SUBSET Rows, copy : SUBSET Rows,
                 path : Paths \cup {NONE}, config : Configs \cup {NONE}]

TypeOK == /\ up \in BOOLEAN
          /\ query \in [Requests -> Queries \cup {NONE}]
          /\ answer \in [Requests -> (SUBSET Rows) \cup {NONE}]
          /\ result \in [Requests -> SUBSET Rows]
          /\ wk \in [Workers -> WorkerStates]
          /\ owner \in [Uris -> Workers \cup {NONE}]
          /\ resultMu \in [Requests -> Workers \cup {NONE}]
          /\ cache \in [Paths -> Configs \cup {NONE}]
          /\ cacheMu \in Workers \cup {NONE}
          /\ drive \in [Uris -> [Paths -> {0} \cup Versions]]
          /\ shown \in [Paths -> {0} \cup Versions]
          /\ changes \in 0 .. MaxChanges

Init == /\ up = TRUE
        /\ query = [q \in Requests |-> NONE]
        /\ answer = [q \in Requests |-> NONE]
        /\ result = [q \in Requests |-> {}]
        /\ wk = [w \in Workers |-> Off]
        /\ owner = [u \in Uris |-> NONE]
        /\ resultMu = [q \in Requests |-> NONE]
        /\ cache = [p \in Paths |-> NONE]
        /\ cacheMu = NONE
        /\ drive = [u \in Uris |-> [p \in Paths |-> IF p \in PathsOf[u] THEN 1 ELSE 0]]
        /\ shown = [p \in Paths |-> 0]
        /\ changes = 0

At(w, l) == up /\ wk[w].pc = l

Goto(w, l) == wk' = [wk EXCEPT ![w].pc = l]

-----------------------------------------------------------------------------
(* List and Get                                                            *)

\* ConnectionPool.Nodes: every node when none is named; names that are not
\* configured are dropped.
Selected(only) == IF only = {} THEN Nodes ELSE only \cap Nodes

Start(q, k, todo) ==
    /\ up
    /\ query[q] = NONE
    /\ query' = [query EXCEPT ![q] = k]
    /\ wk' = [w \in Workers |->
                IF w[1] = q /\ w[2] \in Selected(k.only)
                THEN [Off EXCEPT !.pc = "acquire", !.todo = todo] ELSE wk[w]]
    /\ UNCHANGED <<up, answer, result, owner, resultMu, cache, cacheMu,
                   drive, shown, changes>>

ListVms(q, k) == k.kind = "vms" /\ Start(q, k, {})
ListVolumes(q, k) == k.kind = "vols" /\ Start(q, k, {})
ListNetworks(q, k) == k.kind = "nets" /\ Start(q, k, {})
GetVm(q, k) == k.kind = "get" /\ Start(q, k, {k.path})

\* wg.Wait is over when every goroutine called wg.Done.
Return(q) ==
    /\ up
    /\ query[q] # NONE /\ answer[q] = NONE
    /\ \A w \in Workers : w[1] = q => wk[w].pc \in {"off", "finished"}
    /\ answer' = [answer EXCEPT ![q] = result[q]]
    /\ UNCHANGED <<up, query, result, wk, owner, resultMu, cache, cacheMu,
                   drive, shown, changes>>

\* The page is sent and the request is over.
EndRequest(q) ==
    /\ up
    /\ answer[q] # NONE
    /\ query' = [query EXCEPT ![q] = NONE]
    /\ answer' = [answer EXCEPT ![q] = NONE]
    /\ result' = [result EXCEPT ![q] = {}]
    /\ wk' = [w \in Workers |-> IF w[1] = q THEN Off ELSE wk[w]]
    /\ UNCHANGED <<up, owner, resultMu, cache, cacheMu, drive, shown, changes>>

-----------------------------------------------------------------------------
(* The goroutine of one node                                               *)

Acquire(w) == /\ At(w, "acquire")
              /\ owner[Uri(w)] = NONE
              /\ owner' = [owner EXCEPT ![Uri(w)] = w]
              /\ Goto(w, "list")
              /\ UNCHANGED <<up, query, answer, result, resultMu, cache, cacheMu,
                             drive, shown, changes>>

\* The node cannot be reached: its rows are missing from the page.
AcquireFails(w) == /\ At(w, "acquire")
                   /\ wk' = [wk EXCEPT ![w].pc = "finished", ![w].seen = {}]
                   /\ UNCHANGED <<up, query, answer, result, owner, resultMu, cache,
                                  cacheMu, drive, shown, changes>>

There(u) == {p \in Paths : drive[u][p] # 0}

\* Mutant: a failing node is asked again without end.
NodeFailsRetry(w) ==
    /\ At(w, "list") \/ (At(w, "convert") /\ wk[w].todo # {})
    /\ Goto(w, "list")
    /\ UNCHANGED <<up, query, answer, result, owner, resultMu, cache, cacheMu,
                   drive, shown, changes>>

\* A call to libvirt fails: the whole node gives no rows.
NodeFails(w) ==
    /\ At(w, "list") \/ (At(w, "convert") /\ wk[w].todo # {})
    /\ wk' = [wk EXCEPT ![w].pc = "release", ![w].todo = {}, ![w].seen = {},
                        ![w].rows = {}]
    /\ UNCHANGED <<up, query, answer, result, owner, resultMu, cache, cacheMu,
                   drive, shown, changes>>

\* The domains of the node, or the one of Get if it is there.
ListDomains(w) ==
    /\ At(w, "list")
    /\ Kind(w) \in {"vms", "get"}
    /\ LET domains == IF Kind(w) = "get" THEN There(Uri(w)) \cap wk[w].todo
                                         ELSE There(Uri(w))
       IN  wk' = [wk EXCEPT ![w].pc = "convert", ![w].todo = domains, ![w].seen = domains]
    /\ UNCHANGED <<up, query, answer, result, owner, resultMu, cache, cacheMu,
                   drive, shown, changes>>

VolumeNames(u) == There(u) \ Hidden
NetworkNames(u) == Networks[u]

\* Volumes and networks are read in one go.
ListOthers(w) ==
    /\ At(w, "list")
    /\ Kind(w) \in {"vols", "nets"}
    /\ LET names == IF Kind(w) = "vols" THEN VolumeNames(Uri(w)) ELSE NetworkNames(Uri(w))
       IN  wk' = [wk EXCEPT ![w].pc = "release", ![w].seen = names,
                            ![w].rows = {[node |-> w[2], path |-> x, config |-> NONE] :
                                            x \in names}]
    /\ UNCHANGED <<up, query, answer, result, owner, resultMu, cache, cacheMu,
                   drive, shown, changes>>

Row(w, p, c) == [node |-> w[2], path |-> p, config |-> c]

\* domainToVm is done with p and shows c.
Shown(p, c) == shown' = IF c = NONE THEN shown ELSE [shown EXCEPT ![p] = c.version]

Converted(w, p, c) ==
    /\ wk' = [wk EXCEPT ![w].pc = "convert", ![w].todo = @ \ {p}, ![w].path = NONE,
                        ![w].config = NONE, ![w].rows = @ \cup {Row(w, p, c)}]
    /\ Shown(p, c)

\* The cache knows the path.  The map is read without configCacheMu.
ShowCached(w, p) ==
    /\ At(w, "convert")
    /\ p \in wk[w].todo \ Odd
    /\ cache[p] # NONE
    /\ Converted(w, p, cache[p])
    /\ UNCHANGED <<up, query, answer, result, owner, resultMu, cache, cacheMu,
                   drive, changes>>

Miss(w, p) ==
    /\ At(w, "convert")
    /\ p \in wk[w].todo \ Odd
    /\ cache[p] = NONE
    /\ wk' = [wk EXCEPT ![w].pc = "parse", ![w].path = p]
    /\ UNCHANGED <<up, query, answer, result, owner, resultMu, cache, cacheMu,
                   drive, shown, changes>>

\* Mutant: the connection is given back as soon as the drive is downloaded.
ParseAndRelease(w) ==
    /\ At(w, "parse")
    /\ drive[Uri(w)][wk[w].path] # 0
    /\ owner' = [owner EXCEPT ![Uri(w)] = NONE]
    /\ wk' = [wk EXCEPT ![w].pc = "lockcache",
                        ![w].config = [uri |-> Uri(w),
                                       version |-> drive[Uri(w)][wk[w].path]]]
    /\ UNCHANGED <<up, query, answer, result, resultMu, cache, cacheMu,
                   drive, shown, changes>>

\* parseConfigDrive downloads and parses the drive.
Parse(w) ==
    /\ At(w, "parse")
    /\ drive[Uri(w)][wk[w].path] # 0
    /\ wk' = [wk EXCEPT ![w].pc = "lockcache",
                        ![w].config = [uri |-> Uri(w),
                                       version |-> drive[Uri(w)][wk[w].path]]]
    /\ UNCHANGED <<up, query, answer, result, owner, resultMu, cache, cacheMu,
                   drive, shown, changes>>

\* It cannot be read: the VM is shown without its configuration.
ParseFails(w) ==
    /\ At(w, "parse")
    /\ Converted(w, wk[w].path, NONE)
    /\ UNCHANGED <<up, query, answer, result, owner, resultMu, cache, cacheMu,
                   drive, changes>>

LockCache(w) ==
    /\ At(w, "lockcache")
    /\ cacheMu = NONE
    /\ cacheMu' = w
    /\ Goto(w, "store")
    /\ UNCHANGED <<up, query, answer, result, owner, resultMu, cache,
                   drive, shown, changes>>

Store(w) ==
    /\ At(w, "store")
    /\ cache' = [cache EXCEPT ![wk[w].path] = wk[w].config]
    /\ cacheMu' = NONE
    /\ Converted(w, wk[w].path, wk[w].config)
    /\ UNCHANGED <<up, query, answer, result, owner, resultMu, drive, changes>>

Listed(w) == /\ At(w, "convert")
             /\ wk[w].todo = {}
             /\ Goto(w, "release")
             /\ UNCHANGED <<up, query, answer, result, owner, resultMu, cache, cacheMu,
                            drive, shown, changes>>

\* The deferred Release comes before the caller gets the rows.  Get returns
\* them; a goroutine of List appends them, unless it has none.
Release(w) ==
    /\ At(w, "release")
    /\ owner' = [owner EXCEPT ![Uri(w)] = NONE]
    /\ IF Kind(w) = "get"
         THEN result' = [result EXCEPT ![w[1]] = wk[w].rows] /\ Goto(w, "finished")
         ELSE result' = result /\ Goto(w, IF wk[w].seen = {} THEN "finished" ELSE "lockresult")
    /\ UNCHANGED <<up, query, answer, resultMu, cache, cacheMu,
                   drive, shown, changes>>

\* Mutant: the goroutines append without the mutex.
LockNoResult(w) ==
    /\ At(w, "lockresult")
    /\ resultMu' = [resultMu EXCEPT ![w[1]] = w]
    /\ wk' = [wk EXCEPT ![w].pc = "append", ![w].copy = result[w[1]]]
    /\ UNCHANGED <<up, query, answer, result, owner, cache, cacheMu,
                   drive, shown, changes>>

\* mu.Lock, and append reads the slice as it is now.
LockResult(w) ==
    /\ At(w, "lockresult")
    /\ resultMu[w[1]] = NONE
    /\ resultMu' = [resultMu EXCEPT ![w[1]] = w]
    /\ wk' = [wk EXCEPT ![w].pc = "append", ![w].copy = result[w[1]]]
    /\ UNCHANGED <<up, query, answer, result, owner, cache, cacheMu,
                   drive, shown, changes>>

\* The longer slice is assigned, mu.Unlock, wg.Done.
Append(w) ==
    /\ At(w, "append")
    /\ result' = [result EXCEPT ![w[1]] = wk[w].copy \cup wk[w].rows]
    /\ resultMu' = [resultMu EXCEPT ![w[1]] = NONE]
    /\ wk' = [wk EXCEPT ![w].pc = "finished", ![w].rows = {}, ![w].copy = {}]
    /\ UNCHANGED <<up, query, answer, owner, cache, cacheMu, drive, shown, changes>>

-----------------------------------------------------------------------------
(* Panics, the map race, and what happens outside                          *)

Change == changes < MaxChanges /\ changes' = changes + 1

\* The process is gone with its cache; the hypervisors stay.
Die == /\ up' = FALSE
       /\ Change
       /\ query' = [q \in Requests |-> NONE]
       /\ answer' = [q \in Requests |-> NONE]
       /\ result' = [q \in Requests |-> {}]
       /\ wk' = [w \in Workers |-> Off]
       /\ owner' = [u \in Uris |-> NONE]
       /\ resultMu' = [q \in Requests |-> NONE]
       /\ cache' = [p \in Paths |-> NONE]
       /\ cacheMu' = NONE
       /\ UNCHANGED <<drive, shown>>

Panics(w) == At(w, "convert") /\ wk[w].todo \cap Odd # {}

\* A goroutine that List started has nobody to recover its panic.
PanicInList(w) == /\ Panics(w)
                  /\ Kind(w) # "get"
                  /\ Die

\* net/http recovers the panic of Get; the deferred Release has run.
PanicInGet(w) ==
    /\ Panics(w)
    /\ Kind(w) = "get"
    /\ owner' = [owner EXCEPT ![Uri(w)] = NONE]
    /\ wk' = [wk EXCEPT ![w] = [Off EXCEPT !.pc = "finished"]]
    /\ UNCHANGED <<up, query, answer, result, resultMu, cache, cacheMu,
                   drive, shown, changes>>

\* The runtime notices that v reads the map while w writes it.
MapRace(v, w) == /\ At(v, "convert") /\ wk[v].todo # {}
                 /\ At(w, "store")
                 /\ Die

Restart == /\ ~up
           /\ up' = TRUE
           /\ UNCHANGED <<query, answer, result, wk, owner, resultMu, cache, cacheMu,
                          drive, shown, changes>>

\* The VM of path p goes away with its volumes.
Remove(u, p) == /\ drive[u][p] # 0
                /\ drive' = [drive EXCEPT ![u][p] = 0]
                /\ Change
                /\ UNCHANGED <<up, query, answer, result, wk, owner, resultMu, cache,
                               cacheMu, shown>>

\* A VM of that name is created, with another configuration.
Create(u, p) == /\ p \in PathsOf[u]
                /\ drive[u][p] = 0
                /\ drive' = [drive EXCEPT ![u][p] = changes + 2]
                /\ Change
                /\ UNCHANGED <<up, query, answer, result, wk, owner, resultMu, cache,
                               cacheMu, shown>>

-----------------------------------------------------------------------------

\* What a goroutine does by itself or when libvirt answers.
Step(w) == \/ AcquireFails(w) \/ NodeFails(w) \/ ListDomains(w) \/ ListOthers(w)
           \/ \E p \in Paths : ShowCached(w, p) \/ Miss(w, p)
           \/ Parse(w) \/ ParseFails(w) \/ Store(w) \/ Listed(w) \/ Release(w)
           \/ Append(w) \/ PanicInGet(w)

\* What it does when a mutex is its own.
Locks(w) == Acquire(w) \/ LockCache(w) \/ LockResult(w)

Next == \/ \E q \in Requests :
             \/ \E k \in Queries : \/ ListVms(q, k) \/ ListVolumes(q, k)
                                   \/ ListNetworks(q, k) \/ GetVm(q, k)
             \/ Return(q)
             \/ EndRequest(q)
        \/ \E w \in Workers : Step(w) \/ Locks(w) \/ PanicInList(w)
        \/ \E v, w \in Workers : MapRace(v, w)
        \/ Restart
        \/ \E u \in Uris, p \in Paths : Remove(u, p) \/ Create(u, p)

Spec == Init /\ [][Next]_vars

\* Goroutines are scheduled and libvirt calls return or fail; a mutex reaches
\* everybody who waits for it (for the connection: HealthyNodeServed
\* of ConnectionPool); net/http finishes requests.
Fairness == /\ \A w \in Workers : WF_vars(Step(w)) /\ SF_vars(Locks(w))
            /\ \A w \in Workers : WF_vars(PanicInList(w))
            /\ \A q \in Requests : WF_vars(Return(q))

FairSpec == Spec /\ Fairness

-----------------------------------------------------------------------------
(* Properties                                                              *)

\* A finished List has every row of every node that answered, and no others:
\* no append of one goroutine gets lost under another's.
AnswerComplete ==
    \A q \in Requests : answer[q] # NONE =>
       {<<r.node, r.path>> : r \in answer[q]} =
          UNION {{<<w[2], x>> : x \in wk[w].seen} : w \in {v \in Workers : v[1] = q}}

\* The configdrive map is read and written at the same time only by goroutines
\* of different hypervisors: the connection lock of one orders its own.
RaceNeedsTwoHypervisors ==
    \A v, w \in Workers :
       (v # w /\ wk[v].pc = "convert" /\ wk[w].pc = "store") => Uri(v) # Uri(w)

\* A panic or an error leaves no connection locked.
OnlyHoldersOwn ==
    \A u \in Uris, w \in Workers :
       owner[u] = w <=> (Uri(w) = u /\ wk[w].pc \in HolderPcs)

\* What the goroutines of List share goes wrong only where nothing is locked:
\* no row is lost, no connection stays locked, and the map of configdrives is
\* safe among requests to one hypervisor.
SharingSound == AnswerComplete /\ OnlyHoldersOwn /\ RaceNeedsTwoHypervisors

\* Paths that are not on two hypervisors.
Exclusive == {p \in Paths : \A u, v \in Uris : p \in PathsOf[u] \cap PathsOf[v] => u = v}

\* Where a path belongs to one hypervisor, the pages never go back to the
\* configuration of an earlier VM once they showed the one of a later VM.
NeverBackToOlder == [][\A p \in Exclusive : shown'[p] >= shown[p]]_vars

\* Every List and Get returns (or the process dies): the wait group is always
\* counted down, whatever fails.
ListReturns ==
    \A q \in Requests : query[q] # NONE ~> (query[q] = NONE \/ answer[q] # NONE)
=============================================================================
