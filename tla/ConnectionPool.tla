--------------------------- MODULE ConnectionPool ---------------------------
(***************************************************************************)
(* libvirt/connection_pool.go: one shared pool hands out at most one user  *)
(* at a time per libvirt URI.  A thread is a goroutine (an HTTP request or *)
(* one of the goroutines a List call starts) that calls Acquire(node),     *)
(* talks to libvirt, and calls Release(node).                              *)
(*                                                                         *)
(* cacheMu is a Go sync.RWMutex: a writer first takes the writers' mutex   *)
(* (wOwner), then waits for the readers inside to leave; from that moment  *)
(* new readers queue, and Unlock lets every queued reader in at once.      *)
(***************************************************************************)
EXTENDS Integers, FiniteSets

CONSTANTS
    Threads,        \* goroutines
    Nodes,          \* node ids of the configuration
    UnknownNodes,   \* node ids a request may name that are not configured
    Uris,           \* libvirt connection URIs
    NodeUri,        \* nodeUri: two nodes may have the same URI
    HungUris,       \* URIs whose libvirt calls may block for ever
    MaxGen,         \* bound: connections opened per URI in one process life
    NONE

ASSUME NodeUriAssumption == NodeUri \in [Nodes -> Uris]
ASSUME NoneAssumption == NONE \notin Threads \cup Uris \cup Nodes \cup UnknownNodes
ASSUME UnknownAssumption == UnknownNodes \cap Nodes = {}
ASSUME HungAssumption == HungUris \subseteq Uris
ASSUME MaxGenAssumption == MaxGen \in Nat \ {0}

VARIABLES
    up,         \* the process runs
    pc,         \* where each thread is in Acquire, the use, or Release
    node,       \* the node of the thread's current call, NONE when idle
    wOwner,     \* cacheMu: the writer that is inside or drains the readers
    readers,    \* cacheMu: threads holding the read lock
    entries,    \* the keys of the cache map
    mu,         \* cache[uri].Mu: its holder
    gen,        \* cache[uri].Conn: 0 is nil, n is the n-th one opened
    live,       \* whether the current connection of the URI still works
    handle      \* the connection Acquire returned to the thread, 0 if none

poolVars == <<wOwner, readers, entries, mu, gen, live>>
vars == <<up, pc, node, wOwner, readers, entries, mu, gen, live, handle>>

AnyNode == Nodes \cup UnknownNodes

Uri(t) == NodeUri[node[t]]

ReaderPcs == {"mulock", "check", "open", "return", "fail"}
MuPcs     == {"check", "open", "return", "using", "release"}
WriterPcs == {"drain", "insert"}
Acquiring == {"wlock", "rlock", "rwait"} \cup WriterPcs \cup ReaderPcs
Pcs       == Acquiring \cup {"idle", "using", "release"}

TypeOK == /\ up \in BOOLEAN
          /\ pc \in [Threads -> Pcs]
          /\ node \in [Threads -> AnyNode \cup {NONE}]
          /\ wOwner \in Threads \cup {NONE}
          /\ readers \subseteq Threads
          /\ entries \subseteq Uris
          /\ mu \in [Uris -> Threads \cup {NONE}]
          /\ gen \in [Uris -> 0 .. MaxGen]
          /\ live \in [Uris -> BOOLEAN]
          /\ handle \in [Threads -> 0 .. MaxGen]

Init == /\ up = TRUE
        /\ pc = [t \in Threads |-> "idle"]
        /\ node = [t \in Threads |-> NONE]
        /\ wOwner = NONE
        /\ readers = {}
        /\ entries = {}
        /\ mu = [u \in Uris |-> NONE]
        /\ gen = [u \in Uris |-> 0]
        /\ live = [u \in Uris |-> FALSE]
        /\ handle = [t \in Threads |-> 0]

At(t, l) == up /\ pc[t] = l

Goto(t, l) == pc' = [pc EXCEPT ![t] = l]

-----------------------------------------------------------------------------
(* Acquire                                                                 *)

\* A repository calls Acquire with a non-empty node id (an empty one panics
\* before it touches the pool).
Call(t, n) == /\ At(t, "idle")
              /\ Goto(t, "wlock")
              /\ node' = [node EXCEPT ![t] = n]
              /\ UNCHANGED <<up, poolVars, handle>>

\* cacheMu.Lock, first half: own the writers' mutex, hold new readers back.
AnnounceWriter(t) == /\ At(t, "wlock")
                     /\ wOwner = NONE
                     /\ wOwner' = t
                     /\ Goto(t, "drain")
                     /\ UNCHANGED <<up, node, readers, entries, mu, gen, live, handle>>

\* cacheMu.Lock, second half: the readers that were inside have left.
EnterWriter(t) == /\ At(t, "drain")
                  /\ readers = {}
                  /\ Goto(t, "insert")
                  /\ UNCHANGED <<up, node, poolVars, handle>>

\* cacheMu.Unlock: every queued reader holds the read lock at once, the
\* unlocking thread goes to l.
UnlockWriter(t, l) ==
    LET queued == {r \in Threads : pc[r] = "rwait"}
    IN  /\ wOwner' = NONE
        /\ readers' = readers \cup queued
        /\ pc' = [r \in Threads |-> IF r = t THEN l
                                    ELSE IF r \in queued THEN "mulock" ELSE pc[r]]

\* Unknown node: ErrUnknownNode, nothing is held.
RejectNode(t) == /\ At(t, "insert")
                 /\ node[t] \notin Nodes
                 /\ UnlockWriter(t, "idle")
                 /\ node' = [node EXCEPT ![t] = NONE]
                 /\ UNCHANGED <<up, entries, mu, gen, live, handle>>

\* Create the cache entry of the URI unless there is one, and unlock.
InsertEntry(t) == /\ At(t, "insert")
                  /\ node[t] \in Nodes
                  /\ entries' = entries \cup {Uri(t)}
                  /\ UnlockWriter(t, "rlock")
                  /\ UNCHANGED <<up, node, mu, gen, live, handle>>

\* cacheMu.RLock: immediate, or queued behind a pending writer.
ReadLock(t) == /\ At(t, "rlock")
               /\ IF wOwner = NONE
                    THEN readers' = readers \cup {t} /\ Goto(t, "mulock")
                    ELSE readers' = readers /\ Goto(t, "rwait")
               /\ UNCHANGED <<up, node, wOwner, entries, mu, gen, live, handle>>

\* Mutant: the per-URI mutex is not waited for.
LockUriAnyway(t) == /\ At(t, "mulock")
                    /\ mu' = [mu EXCEPT ![Uri(t)] = t]
                    /\ Goto(t, "check")
                    /\ UNCHANGED <<up, node, wOwner, readers, entries, gen, live, handle>>

\* cache[uri].Mu.Lock, with the read lock held.
LockUri(t) == /\ At(t, "mulock")
              /\ mu[Uri(t)] = NONE
              /\ mu' = [mu EXCEPT ![Uri(t)] = t]
              /\ Goto(t, "check")
              /\ UNCHANGED <<up, node, wOwner, readers, entries, gen, live, handle>>

\* Conn is there and IsAlive says yes: hand it out.
ReuseConn(t) == /\ At(t, "check")
                /\ gen[Uri(t)] # 0
                /\ live[Uri(t)]
                /\ handle' = [handle EXCEPT ![t] = gen[Uri(t)]]
                /\ Goto(t, "return")
                /\ UNCHANGED <<up, node, poolVars>>

\* Conn is nil, or IsAlive fails or says no (it may fail on a connection that
\* works): open another one.
NeedConn(t) == /\ At(t, "check")
               /\ gen[Uri(t)] < MaxGen
               /\ Goto(t, "open")
               /\ UNCHANGED <<up, node, poolVars, handle>>

\* NewConnect succeeded: it replaces Conn, which nobody closes.
OpenConn(t) == /\ At(t, "open")
               /\ gen' = [gen EXCEPT ![Uri(t)] = @ + 1]
               /\ live' = [live EXCEPT ![Uri(t)] = TRUE]
               /\ handle' = [handle EXCEPT ![t] = gen[Uri(t)] + 1]
               /\ Goto(t, "return")
               /\ UNCHANGED <<up, node, wOwner, readers, entries, mu>>

\* Mutant: the error path unlocks the URI but returns as if it had a connection.
OpenFailsSilently(t) == /\ At(t, "open")
                        /\ mu' = [mu EXCEPT ![Uri(t)] = NONE]
                        /\ Goto(t, "return")
                        /\ UNCHANGED <<up, node, wOwner, readers, entries, gen, live, handle>>

\* NewConnect failed: unlock the URI and return the error.
OpenFails(t) == /\ At(t, "open")
                /\ mu' = [mu EXCEPT ![Uri(t)] = NONE]
                /\ Goto(t, "fail")
                /\ UNCHANGED <<up, node, wOwner, readers, entries, gen, live, handle>>

\* Mutant: the read lock is held until the connection is given back.
ReadUnlockAtRelease(t) ==
    /\ \/ At(t, "return") /\ Goto(t, "using") /\ UNCHANGED <<node, readers>>
       \/ /\ At(t, "fail")
          /\ Goto(t, "idle")
          /\ node' = [node EXCEPT ![t] = NONE]
          /\ readers' = readers \ {t}
       \/ /\ t \in readers /\ pc[t] \notin ReaderPcs \cup {"using"}
          /\ readers' = readers \ {t}
          /\ UNCHANGED <<pc, node>>
    /\ UNCHANGED <<up, wOwner, entries, mu, gen, live, handle>>

\* The deferred RUnlock; only now Acquire returns.
ReadUnlock(t) == /\ \/ At(t, "return") /\ Goto(t, "using") /\ UNCHANGED node
                    \/ /\ At(t, "fail")
                       /\ Goto(t, "idle")
                       /\ node' = [node EXCEPT ![t] = NONE]
                 /\ readers' = readers \ {t}
                 /\ UNCHANGED <<up, wOwner, entries, mu, gen, live, handle>>

-----------------------------------------------------------------------------
(* Release                                                                 *)

\* The repository's libvirt calls are over; the deferred Release starts.
EndUse(t) == /\ At(t, "using")
             /\ Goto(t, "release")
             /\ UNCHANGED <<up, node, poolVars, handle>>

\* Release looks the entry up in the map without cacheMu and unlocks it.
Release(t) == /\ At(t, "release")
              /\ mu' = [mu EXCEPT ![Uri(t)] = NONE]
              /\ handle' = [handle EXCEPT ![t] = 0]
              /\ node' = [node EXCEPT ![t] = NONE]
              /\ Goto(t, "idle")
              /\ UNCHANGED <<up, wOwner, readers, entries, gen, live>>

\* Mutant: the entry is stored again on every Acquire.
MapWriterAlways(w) == At(w, "insert") /\ node[w] \in Nodes

\* A thread is storing a key the cache map does not have yet.
MapWriter(w) == /\ At(w, "insert")
                /\ node[w] \in Nodes
                /\ Uri(w) \notin entries

\* The runtime kills the process when Release's unguarded map read overlaps a
\* map write; it may also go unnoticed, which is Release itself.
RaceCrash(t, w) == /\ At(t, "release")
                   /\ MapWriter(w)
                   /\ up' = FALSE
                   /\ pc' = [r \in Threads |-> "idle"]
                   /\ wOwner' = NONE
                   /\ readers' = {}
                   /\ entries' = {}
                   /\ mu' = [u \in Uris |-> NONE]
                   /\ gen' = [u \in Uris |-> 0]
                   /\ live' = [u \in Uris |-> FALSE]
                   /\ handle' = [r \in Threads |-> 0]
                   /\ node' = [r \in Threads |-> NONE]

\* The service manager starts the process again with an empty pool.
Restart == /\ ~up
           /\ up' = TRUE
           /\ UNCHANGED <<pc, node, poolVars, handle>>

\* libvirtd restarts or the network breaks: the cached connection is dead,
\* whether or not somebody is using it.
ConnDies(u) == /\ up
               /\ live[u]
               /\ gen[u] < MaxGen
               /\ live' = [live EXCEPT ![u] = FALSE]
               /\ UNCHANGED <<up, pc, node, wOwner, readers, entries, mu, gen, handle>>

-----------------------------------------------------------------------------

\* What a thread does on its own, waiting for nobody.
OwnStep(t) == \/ EnterWriter(t) \/ RejectNode(t) \/ InsertEntry(t)
              \/ ReadLock(t) \/ ReuseConn(t) \/ NeedConn(t)
              \/ ReadUnlock(t) \/ Release(t)

\* What a thread does when a libvirt call returns.
LibvirtReturns(t) == OpenConn(t) \/ OpenFails(t) \/ EndUse(t)

Next == \/ \E t \in Threads :
             \/ \E n \in AnyNode : Call(t, n)
             \/ AnnounceWriter(t)
             \/ LockUri(t)
             \/ OwnStep(t)
             \/ LibvirtReturns(t)
             \/ \E w \in Threads : RaceCrash(t, w)
        \/ \E u \in Uris : ConnDies(u)
        \/ Restart

Spec == Init /\ [][Next]_vars

\* Goroutines are scheduled (weak fairness); Go mutexes hand the lock to the
\* longest waiter in the end (strong fairness); libvirt calls return, except
\* on the URIs that may hang; the service manager restarts the process.
Fairness ==
    /\ \A t \in Threads :
         /\ WF_vars(OwnStep(t))
         /\ SF_vars(AnnounceWriter(t))
         /\ SF_vars(LockUri(t))
         /\ WF_vars(LibvirtReturns(t) /\ Uri(t) \notin HungUris)
    /\ WF_vars(Restart)

FairSpec == Spec /\ Fairness

-----------------------------------------------------------------------------
(* Properties                                                              *)

\* No two goroutines use the connection of one URI at the same time, whatever
\* node ids they named.
MutualExclusion ==
    \A s, t \in Threads :
       (s # t /\ pc[s] \in MuPcs /\ pc[t] \in MuPcs) => Uri(s) # Uri(t)

\* Acquire never reads the cache map while another Acquire writes it: the
\* writer is alone between cacheMu.Lock and cacheMu.Unlock.
GuardedMapRead ==
    \A w \in Threads : pc[w] = "insert" => \A t \in Threads \ {w} :
                                             pc[t] \notin ReaderPcs \cup {"insert"}

\* A goroutine that uses a connection uses the one the cache holds, and the
\* entry its Release will look up exists.
HandleIsCurrent ==
    \A t \in Threads : pc[t] \in {"return", "using", "release"} =>
       /\ Uri(t) \in entries
       /\ handle[t] = gen[Uri(t)]
       /\ handle[t] # 0

\* The three locks do what each is there for.
PoolSafe == MutualExclusion /\ GuardedMapRead /\ HandleIsCurrent

\* A connection is replaced in the cache only while nobody works with it.
NeverReplacedInUse ==
    [][\A u \in Uris : (up' /\ gen'[u] # gen[u]) =>
          \A t \in Threads : (node[t] \in Nodes /\ Uri(t) = u) =>
             pc[t] \notin {"return", "using", "release"}]_vars

\* The unguarded map read of Release ends the process only while vmango is
\* still making its first connections: one configured hypervisor has been
\* connected to and another one never has.  So it cannot happen with a single
\* hypervisor, and, however connections die or fail to open afterwards, not once
\* each has been reached in this life of the process.
RaceOnlyWhileWarming ==
    [][(up /\ ~up') => \E m, n \in Nodes : gen[NodeUri[m]] # 0 /\ gen[NodeUri[n]] = 0]_vars

\* Somebody is inside Acquire with the read lock held and cannot get on before
\* a hung libvirt answers.
WaitsForHung ==
    \E t \in Threads : /\ pc[t] \in {"mulock", "open"}
                       /\ Uri(t) \in HungUris

\* Every Acquire of a hypervisor that answers returns, with a connection or an
\* error (or with the process), and a hung hypervisor does not stop it by
\* itself: a request for another node starves only if, for ever, another
\* request for the hung one is queued inside Acquire, where it holds the read
\* lock of the whole pool.
HealthyNodeServed ==
    \A t \in Threads :
       <>[](pc[t] \in Acquiring /\ node[t] \in Nodes /\ Uri(t) \notin HungUris)
          => <>[]WaitsForHung

-----------------------------------------------------------------------------
(* Refinement                                                              *)

Users(u) == {t \in Threads : pc[t] \in {"using", "release"} /\ Uri(t) = u}

OwnerOf(u) == IF Users(u) = {} THEN NONE ELSE CHOOSE t \in Users(u) : TRUE

Wanted(t) == IF pc[t] \in Acquiring /\ node[t] \in Nodes THEN Uri(t) ELSE NONE

Promise == INSTANCE NodeLock WITH owner <- [u \in Uris |-> OwnerOf(u)],
                                  wanted <- [t \in Threads |-> Wanted(t)]

\* The pool implements the exclusive hand-out of NodeLock.
ImplementsNodeLock == Promise!Spec
=============================================================================
