------------------------ MODULE ConnectionPoolProofs ------------------------
(***************************************************************************)
(* Proofs about ConnectionPool, for every number of threads, nodes and     *)
(* URIs.                                                                   *)
(***************************************************************************)
EXTENDS ConnectionPool, TLAPS

(***************************************************************************)
(* The inductive invariant, in named parts.                                *)
(***************************************************************************)

\* A dead process runs no goroutine and has lost its cache; only a pool with
\* a configured node can have died.
DeadIsIdle == ~up => /\ \A t \in Threads : pc[t] = "idle"
                     /\ entries = {}
                     /\ Nodes # {}

\* Past the unknown-node check the node is configured and its entry exists.
KnownNode ==
    \A t \in Threads :
       /\ pc[t] \in WriterPcs \cup {"wlock"} => node[t] \in AnyNode
       /\ pc[t] \in {"rlock", "rwait"} \cup ReaderPcs \cup MuPcs =>
             node[t] \in Nodes /\ Uri(t) \in entries

\* cacheMu: writers own it, readers are counted, and they exclude each other.
WriterOwns == \A t \in Threads : pc[t] \in WriterPcs => wOwner = t
ReaderHolds == \A t \in Threads : pc[t] \in ReaderPcs => t \in readers
WriterAlone == \A t \in Threads : pc[t] = "insert" => readers = {}

\* The mutex of a URI belongs to the thread that works with its connection.
MuOwned == \A t \in Threads : pc[t] \in MuPcs => mu[Uri(t)] = t

\* A returned connection is the cached one.
HandleCached ==
    \A t \in Threads :
       /\ pc[t] \in {"return", "using", "release"} =>
             handle[t] = gen[Uri(t)] /\ handle[t] # 0
       /\ pc[t] = "open" => gen[Uri(t)] < MaxGen

\* A connection is opened only under an entry of the map, and entries stay.
OpenedKnown == \A u \in Uris : gen[u] # 0 => u \in entries

IInv == /\ TypeOK
        /\ DeadIsIdle
        /\ KnownNode
        /\ WriterOwns
        /\ ReaderHolds
        /\ WriterAlone
        /\ MuOwned
        /\ HandleCached
        /\ OpenedKnown

-----------------------------------------------------------------------------

USE NodeUriAssumption, NoneAssumption, UnknownAssumption, MaxGenAssumption

\* The pool starts in the invariant.
LEMMA InitIInv == Init => IInv
  BY DEF Init, IInv, TypeOK, DeadIsIdle, KnownNode, WriterOwns, ReaderHolds,
         WriterAlone, MuOwned, HandleCached, OpenedKnown, Pcs, Acquiring, ReaderPcs, MuPcs,
         WriterPcs, AnyNode

\* Every step keeps it.
LEMMA NextIInv == IInv /\ [Next]_vars => IInv'
  <1> SUFFICES ASSUME IInv, [Next]_vars PROVE IInv'
    OBVIOUS
  <1> USE DEF IInv, TypeOK, DeadIsIdle, KnownNode, WriterOwns, ReaderHolds,
              WriterAlone, MuOwned, HandleCached, OpenedKnown, Pcs, Acquiring, ReaderPcs,
              MuPcs, WriterPcs, AnyNode, At, Goto, Uri, poolVars
  <1>1. ASSUME NEW t \in Threads, NEW n \in AnyNode, Call(t, n) PROVE IInv'
    BY <1>1 DEF Call
  <1>2. ASSUME NEW t \in Threads, AnnounceWriter(t) PROVE IInv'
    BY <1>2 DEF AnnounceWriter
  <1>3. ASSUME NEW t \in Threads, EnterWriter(t) PROVE IInv'
    BY <1>3 DEF EnterWriter
  <1>4. ASSUME NEW t \in Threads, RejectNode(t) PROVE IInv'
    BY <1>4 DEF RejectNode, UnlockWriter
  <1>5. ASSUME NEW t \in Threads, InsertEntry(t) PROVE IInv'
    BY <1>5 DEF InsertEntry, UnlockWriter
  <1>6. ASSUME NEW t \in Threads, ReadLock(t) PROVE IInv'
    BY <1>6 DEF ReadLock
  <1>7. ASSUME NEW t \in Threads, LockUri(t) PROVE IInv'
    BY <1>7 DEF LockUri
  <1>8. ASSUME NEW t \in Threads, ReuseConn(t) PROVE IInv'
    BY <1>8 DEF ReuseConn
  <1>9. ASSUME NEW t \in Threads, NeedConn(t) PROVE IInv'
    BY <1>9 DEF NeedConn
  <1>10. ASSUME NEW t \in Threads, OpenConn(t) PROVE IInv'
    BY <1>10 DEF OpenConn
  <1>11. ASSUME NEW t \in Threads, OpenFails(t) PROVE IInv'
    BY <1>11 DEF OpenFails
  <1>12. ASSUME NEW t \in Threads, ReadUnlock(t) PROVE IInv'
    BY <1>12 DEF ReadUnlock
  <1>13. ASSUME NEW t \in Threads, EndUse(t) PROVE IInv'
    BY <1>13 DEF EndUse
  <1>14. ASSUME NEW t \in Threads, Release(t) PROVE IInv'
    BY <1>14 DEF Release
  <1>15. ASSUME NEW t \in Threads, NEW w \in Threads, RaceCrash(t, w) PROVE IInv'
    <2>1. /\ pc' = [r \in Threads |-> "idle"]
          /\ up' = FALSE
      BY <1>15 DEF RaceCrash
    <2>2. TypeOK'
      <3>1. live' = [u \in Uris |-> FALSE]
        BY <1>15 DEF RaceCrash
      <3>2. live' \in [Uris -> BOOLEAN]
        BY <3>1, Zenon
      <3>3. 0 \in 0 .. MaxGen
        OBVIOUS
      <3>4. /\ node' \in [Threads -> AnyNode \cup {NONE}]
            /\ mu' \in [Uris -> Threads \cup {NONE}]
            /\ gen' \in [Uris -> 0 .. MaxGen]
            /\ handle' \in [Threads -> 0 .. MaxGen]
        BY <1>15, <3>3 DEF RaceCrash
      <3>5. up' \in BOOLEAN /\ pc' \in [Threads -> Pcs]
        BY <2>1
      <3>6. wOwner' = NONE /\ readers' = {} /\ entries' = {}
        BY <1>15 DEF RaceCrash
      <3>7. QED
        BY <3>2, <3>4, <3>5, <3>6
    <2>3. \A r \in Threads : pc'[r] = "idle"
      BY <2>1
    <2>4. Nodes # {} /\ entries' = {} /\ OpenedKnown'
      BY <1>15 DEF RaceCrash
    <2>5. QED
      BY <2>2, <2>3, <2>4
  <1>16. ASSUME NEW u \in Uris, ConnDies(u) PROVE IInv'
    BY <1>16 DEF ConnDies
  <1>17. CASE Restart
    BY <1>17 DEF Restart
  <1>18. CASE UNCHANGED vars
    BY <1>18 DEF vars
  <1>19. QED
    BY <1>1, <1>2, <1>3, <1>4, <1>5, <1>6, <1>7, <1>8, <1>9, <1>10, <1>11,
       <1>12, <1>13, <1>14, <1>15, <1>16, <1>17, <1>18
       DEF Next, OwnStep, LibvirtReturns

\* Every reachable state satisfies the invariant.
THEOREM Invariance == Spec => []IInv
  BY InitIInv, NextIInv, PTL DEF Spec

\* The variables of the pool keep their types.
THEOREM TypeCorrect == Spec => []TypeOK
  BY Invariance, PTL DEF IInv

\* However many goroutines and nodes there are, a URI has one user at a time.
THEOREM MutualExclusionHolds == Spec => []MutualExclusion
  <1>1. IInv => MutualExclusion
    BY DEF IInv, MuOwned, MutualExclusion
  <1>2. QED
    BY <1>1, Invariance, PTL

\* No Acquire reads the cache map while another one may be storing into it.
THEOREM GuardedMapReadHolds == Spec => []GuardedMapRead
  <1>1. IInv => GuardedMapRead
    BY DEF IInv, WriterAlone, WriterOwns, ReaderHolds, GuardedMapRead, ReaderPcs,
           WriterPcs, TypeOK
  <1>2. QED
    BY <1>1, Invariance, PTL

\* A goroutine works with the connection the cache holds.
THEOREM HandleIsCurrentHolds == Spec => []HandleIsCurrent
  <1>1. IInv => HandleIsCurrent
    BY DEF IInv, HandleCached, KnownNode, HandleIsCurrent, ReaderPcs, MuPcs
  <1>2. QED
    BY <1>1, Invariance, PTL

\* The three together, as the pool's run checks them.
THEOREM PoolSafeHolds == Spec => []PoolSafe
  BY MutualExclusionHolds, GuardedMapReadHolds, HandleIsCurrentHolds, PTL DEF PoolSafe

-----------------------------------------------------------------------------
(* Action properties: each follows from the invariant in the pre-state.    *)

\* A cached connection is replaced only while nobody works with it.
THEOREM NeverReplacedInUseHolds == Spec => NeverReplacedInUse
  <1> DEFINE Kept == \A u \in Uris : (up' /\ gen'[u] # gen[u]) =>
          \A t \in Threads : (node[t] \in Nodes /\ Uri(t) = u) =>
             pc[t] \notin {"return", "using", "release"}
  <1>1. IInv /\ [Next]_vars => Kept
    <2> SUFFICES ASSUME IInv, [Next]_vars, NEW u \in Uris, up', gen'[u] # gen[u]
                 PROVE  \A t \in Threads : (node[t] \in Nodes /\ Uri(t) = u) =>
                           pc[t] \notin {"return", "using", "release"}
      BY DEF Kept
    <2>1. PICK s \in Threads : OpenConn(s)
      <3>1. gen' # gen
        OBVIOUS
      <3>2. \A s, w \in Threads : ~RaceCrash(s, w)
        BY DEF RaceCrash
      <3>3. QED
        BY <3>1, <3>2 DEF Next, OwnStep, LibvirtReturns, vars, poolVars, Call,
           AnnounceWriter, LockUri, EnterWriter, RejectNode, InsertEntry, ReadLock,
           ReuseConn, NeedConn, ReadUnlock, Release, OpenFails, EndUse, ConnDies,
           Restart
    <2>2. pc[s] = "open" /\ Uri(s) = u
      BY <2>1 DEF OpenConn, At, IInv, TypeOK, KnownNode
    <2>3. mu[u] = s
      BY <2>2 DEF IInv, MuOwned, MuPcs
    <2>4. QED
      BY <2>2, <2>3 DEF IInv, MuOwned, MuPcs
  <1>2. QED
    BY <1>1, Invariance, PTL DEF Spec, NeverReplacedInUse

\* The process is killed only between the first and the last first connection:
\* the goroutine in Release holds one that is cached, and the one that stores
\* into the map names a URI without an entry, hence never connected to.
THEOREM RaceOnlyWhileWarmingHolds == Spec => RaceOnlyWhileWarming
  <1> DEFINE Warming == \E m, n \in Nodes : gen[NodeUri[m]] # 0 /\ gen[NodeUri[n]] = 0
  <1>1. IInv /\ [Next]_vars => ((up /\ ~up') => Warming)
    <2> SUFFICES ASSUME IInv, [Next]_vars, up, ~up' PROVE Warming
      OBVIOUS
    <2>1. PICK t \in Threads, w \in Threads : RaceCrash(t, w)
      BY DEF Next, OwnStep, LibvirtReturns, vars, Call, AnnounceWriter, LockUri,
         EnterWriter, RejectNode, InsertEntry, ReadLock, ReuseConn, NeedConn, OpenConn,
         OpenFails, EndUse, ReadUnlock, Release, ConnDies, Restart
    <2>2. node[t] \in Nodes /\ gen[NodeUri[node[t]]] # 0
      BY <2>1 DEF RaceCrash, At, IInv, KnownNode, HandleCached, MuPcs, Uri
    <2>3. node[w] \in Nodes /\ gen[NodeUri[node[w]]] = 0
      BY <2>1 DEF RaceCrash, MapWriter, IInv, OpenedKnown, Uri
    <2>4. QED
      BY <2>2, <2>3
  <1>2. QED
    BY <1>1, Invariance, PTL DEF Spec, RaceOnlyWhileWarming

-----------------------------------------------------------------------------
(* The pool implements NodeLock.                                           *)

\* The owner of a URI in the abstract lock is the thread that uses it.
LEMMA OwnerIsUser ==
    ASSUME IInv, NEW t \in Threads, pc[t] \in {"using", "release"}
    PROVE  OwnerOf(Uri(t)) = t
  <1>1. Users(Uri(t)) = {t}
    BY DEF Users, IInv, MuOwned, MuPcs
  <1>2. QED
    BY <1>1 DEF OwnerOf

\* Nobody uses a URI that has no abstract owner.
LEMMA NoUserNoOwner ==
    ASSUME NEW u \in Uris,
           \A t \in Threads : pc[t] \in {"using", "release"} => Uri(t) # u
    PROVE  OwnerOf(u) = NONE
  BY DEF OwnerOf, Users

\* Steps that move no thread into or out of the use of a connection, and change
\* nobody's request, are invisible to the abstract lock.
LEMMA Invisible ==
    ASSUME \A t \in Threads :
              /\ pc'[t] \in {"using", "release"} <=> pc[t] \in {"using", "release"}
              /\ pc[t] \in {"using", "release"} => node'[t] = node[t]
              /\ Wanted(t)' = Wanted(t)
    PROVE  UNCHANGED Promise!vars
  <1>1. ASSUME NEW u \in Uris PROVE OwnerOf(u)' = OwnerOf(u)
    <2>1. Users(u)' = Users(u)
      BY DEF Users, Uri
    <2>2. QED
      BY <2>1 DEF OwnerOf
  <1>2. QED
    BY <1>1 DEF Promise!vars

\* The owner of a URI, if there is one, is a thread that uses it.
LEMMA OwnerUses ==
    ASSUME NEW u \in Uris, NEW t \in Threads, OwnerOf(u) = t
    PROVE  pc[t] \in {"using", "release"}
  BY DEF OwnerOf, Users

\* Every step of the pool is a step of NodeLock or changes nothing it sees.
LEMMA StepRefines == IInv /\ IInv' /\ [Next]_vars => [Promise!Next]_(Promise!vars)
  <1> SUFFICES ASSUME IInv, IInv', [Next]_vars
               PROVE  Promise!Next \/ UNCHANGED Promise!vars
    OBVIOUS
  <1> DEFINE Owns(t) == pc[t] \in {"using", "release"}
  <1> DEFINE Goal == Promise!Next \/ UNCHANGED Promise!vars
  <1>0. pc \in [Threads -> Pcs] /\ node \in [Threads -> AnyNode \cup {NONE}]
    BY DEF IInv, TypeOK
  <1>1. ASSUME NEW t \in Threads, NEW n \in AnyNode, Call(t, n) PROVE Goal
    <2>1. \A r \in Threads : (Owns(r)' <=> Owns(r)) /\ (Owns(r) => node'[r] = node[r])
      BY <1>0, <1>1 DEF Call, At, Goto
    <2>2. CASE n \in Nodes
      <3>1. Wanted(t) = NONE
        BY <1>1 DEF Call, At, Wanted, Acquiring, ReaderPcs, WriterPcs
      <3>2. \A v \in Uris : OwnerOf(v) # t
        BY <1>1, OwnerUses DEF Call, At
      <3>3. \A r \in Threads : Wanted(r)' = IF r = t THEN NodeUri[n] ELSE Wanted(r)
        BY <1>0, <1>1, <2>2 DEF Call, At, Goto, Wanted, Uri, Acquiring
      <3>4. ASSUME NEW v \in Uris PROVE OwnerOf(v)' = OwnerOf(v)
        <4>1. Users(v)' = Users(v)
          BY <2>1 DEF Users, Uri
        <4>2. QED
          BY <4>1 DEF OwnerOf
      <3>5. NodeUri[n] \in Uris
        BY <2>2
      <3>6. Promise!Ask(t, NodeUri[n])
        BY <3>1, <3>2, <3>3, <3>4 DEF Promise!Ask
      <3>7. QED
        BY <3>5, <3>6 DEF Promise!Next
    <2>3. CASE n \notin Nodes
      <3>1. \A r \in Threads : Wanted(r)' = Wanted(r)
        BY <2>3, <1>0, <1>1 DEF Call, At, Goto, Wanted, Uri, Acquiring, ReaderPcs,
           WriterPcs
      <3>2. QED
        BY <2>1, <3>1, Invisible
    <2>4. QED
      BY <2>2, <2>3
  <1>2. ASSUME NEW t \in Threads,
               \/ AnnounceWriter(t) \/ EnterWriter(t) \/ ReadLock(t) \/ LockUri(t)
               \/ ReuseConn(t) \/ NeedConn(t) \/ OpenConn(t) \/ OpenFails(t)
               \/ EndUse(t) \/ InsertEntry(t)
        PROVE  Goal
    <2>1. \A r \in Threads :
            /\ Owns(r)' <=> Owns(r)
            /\ node'[r] = node[r]
            /\ (pc'[r] \in Acquiring) <=> (pc[r] \in Acquiring)
      BY <1>0, <1>2 DEF AnnounceWriter, EnterWriter, ReadLock, LockUri, ReuseConn,
         NeedConn, OpenConn, OpenFails, EndUse, InsertEntry, UnlockWriter, poolVars,
         At, Goto, Acquiring, ReaderPcs, WriterPcs
    <2>2. \A r \in Threads : Wanted(r)' = Wanted(r)
      BY <2>1 DEF Wanted, Uri
    <2>3. QED
      BY <2>1, <2>2, Invisible
  <1>3. ASSUME NEW t \in Threads, RejectNode(t) PROVE Goal
    <2>1. \A r \in Threads : (Owns(r)' <=> Owns(r)) /\ (Owns(r) => node'[r] = node[r])
      BY <1>0, <1>3 DEF RejectNode, UnlockWriter, At
    <2>2. \A r \in Threads : Wanted(r)' = Wanted(r)
      BY <1>0, <1>3 DEF RejectNode, UnlockWriter, At, Wanted, Uri, Acquiring,
         ReaderPcs, WriterPcs
    <2>3. QED
      BY <2>1, <2>2, Invisible
  <1>4. ASSUME NEW t \in Threads, ReadUnlock(t), pc[t] = "return" PROVE Goal
    <2>1. /\ Uri(t) \in Uris /\ node[t] \in Nodes /\ mu[Uri(t)] = t
          /\ node' = node /\ pc' = [pc EXCEPT ![t] = "using"]
      BY <1>4 DEF ReadUnlock, At, Goto, IInv, KnownNode, MuOwned, ReaderPcs, MuPcs, Uri
    <2>2. OwnerOf(Uri(t)) = NONE
      BY <2>1, <1>4, NoUserNoOwner DEF IInv, MuOwned, MuPcs
    <2>3. OwnerOf(Uri(t))' = t
      <3>1. Users(Uri(t))' = {t}
        BY <2>1, <1>0, <1>4 DEF Users, Uri, IInv, MuOwned, MuPcs
      <3>2. QED
        BY <3>1, <2>1 DEF OwnerOf, Uri
    <2>4. ASSUME NEW v \in Uris, v # Uri(t) PROVE OwnerOf(v)' = OwnerOf(v)
      <3>1. Users(v)' = Users(v)
        BY <2>1, <2>4, <1>0, <1>4 DEF Users, Uri
      <3>2. QED
        BY <3>1 DEF OwnerOf
    <2>5. Wanted(t) = Uri(t) /\ Uri(t) # NONE
      BY <2>1, <1>4 DEF Wanted, Acquiring, ReaderPcs
    <2>6. \A r \in Threads : Wanted(r)' = IF r = t THEN NONE ELSE Wanted(r)
      BY <2>1, <1>0 DEF Wanted, Uri, Acquiring, ReaderPcs, WriterPcs
    <2>7. \A v \in Uris : OwnerOf(v)' = IF v = Uri(t) THEN t ELSE OwnerOf(v)
      BY <2>3, <2>4, <2>1 DEF Uri
    <2>8. Promise!Grant(t)
      BY <2>1, <2>2, <2>5, <2>6, <2>7 DEF Promise!Grant
    <2>9. QED
      BY <2>8 DEF Promise!Next
  <1>5. ASSUME NEW t \in Threads, ReadUnlock(t), pc[t] = "fail" PROVE Goal
    <2>1. /\ Uri(t) \in Uris /\ node[t] \in Nodes
          /\ node' = [node EXCEPT ![t] = NONE] /\ pc' = [pc EXCEPT ![t] = "idle"]
      BY <1>5 DEF ReadUnlock, At, Goto, IInv, KnownNode, ReaderPcs, Uri
    <2>2. ASSUME NEW v \in Uris PROVE OwnerOf(v)' = OwnerOf(v)
      <3>1. Users(v)' = Users(v)
        BY <2>1, <1>0, <1>5 DEF Users, Uri
      <3>2. QED
        BY <3>1 DEF OwnerOf
    <2>3. Wanted(t) = Uri(t) /\ Uri(t) # NONE
      BY <2>1, <1>5 DEF Wanted, Acquiring, ReaderPcs
    <2>4. \A r \in Threads : Wanted(r)' = IF r = t THEN NONE ELSE Wanted(r)
      BY <2>1, <1>0 DEF Wanted, Uri, Acquiring, ReaderPcs, WriterPcs
    <2>5. Promise!Refuse(t)
      BY <2>2, <2>3, <2>4 DEF Promise!Refuse
    <2>6. QED
      BY <2>5 DEF Promise!Next
  <1>6. ASSUME NEW t \in Threads, Release(t) PROVE Goal
    <2>1. /\ pc[t] = "release" /\ Uri(t) \in Uris /\ node[t] \in Nodes
          /\ mu[Uri(t)] = t
          /\ node' = [node EXCEPT ![t] = NONE] /\ pc' = [pc EXCEPT ![t] = "idle"]
      BY <1>6 DEF Release, At, Goto, IInv, KnownNode, MuOwned, MuPcs, Uri
    <2>2. OwnerOf(Uri(t)) = t
      BY <2>1, OwnerIsUser
    <2>3. ASSUME NEW v \in Uris
          PROVE  OwnerOf(v)' = IF v = Uri(t) THEN NONE ELSE OwnerOf(v)
      <3>1. CASE v = Uri(t)
        <4>1. Users(v)' = {}
          BY <2>1, <3>1, <1>0 DEF Users, Uri, IInv, MuOwned, MuPcs
        <4>2. QED
          BY <4>1, <3>1 DEF OwnerOf
      <3>2. CASE v # Uri(t)
        <4>1. Users(v)' = Users(v)
          BY <2>1, <3>2, <1>0 DEF Users, Uri
        <4>2. QED
          BY <4>1, <3>2 DEF OwnerOf
      <3>3. QED
        BY <3>1, <3>2
    <2>4. \A r \in Threads : Wanted(r)' = Wanted(r)
      BY <2>1, <1>0 DEF Wanted, Uri, Acquiring, ReaderPcs, WriterPcs
    <2>5. Promise!GiveBack(t, Uri(t))
      BY <2>1, <2>2, <2>3, <2>4 DEF Promise!GiveBack
    <2>6. QED
      BY <2>1, <2>5 DEF Promise!Next
  <1>7. ASSUME NEW t \in Threads, NEW w \in Threads, RaceCrash(t, w) PROVE Goal
    <2>1. \A r \in Threads : pc'[r] = "idle"
      BY <1>7 DEF RaceCrash
    <2>2. \A r \in Threads : Wanted(r)' = NONE
      BY <2>1 DEF Wanted, Acquiring, ReaderPcs, WriterPcs
    <2>3. \A v \in Uris : OwnerOf(v)' = NONE
      <3>1. \A v \in Uris : Users(v)' = {}
        BY <2>1 DEF Users
      <3>2. QED
        BY <3>1 DEF OwnerOf
    <2>4. Promise!Die
      BY <2>2, <2>3 DEF Promise!Die
    <2>5. QED
      BY <2>4 DEF Promise!Next
  <1>8. ASSUME UNCHANGED <<pc, node>> PROVE Goal
    <2>1. \A r \in Threads : Wanted(r)' = Wanted(r)
      BY <1>8 DEF Wanted, Uri
    <2>2. QED
      BY <1>8, <2>1, Invisible
  <1>9. (\E u \in Uris : ConnDies(u)) \/ Restart \/ UNCHANGED vars
           => UNCHANGED <<pc, node>>
    BY DEF ConnDies, Restart, vars
  <1>10. ASSUME NEW t \in Threads, ReadUnlock(t) PROVE pc[t] \in {"return", "fail"}
    BY <1>10 DEF ReadUnlock, At
  <1>11. QED
    BY <1>1, <1>2, <1>3, <1>4, <1>5, <1>6, <1>7, <1>8, <1>9, <1>10
       DEF Next, OwnStep, LibvirtReturns

\* The pool implements NodeLock: callers of Acquire and Release see one owner
\* per URI and nothing else.
THEOREM PoolImplementsNodeLock == Spec => ImplementsNodeLock
  <1>1. Init => Promise!Init
    <2> SUFFICES ASSUME Init PROVE Promise!Init
      OBVIOUS
    <2>1. \A t \in Threads : Wanted(t) = NONE
      BY DEF Init, Wanted, Acquiring, ReaderPcs, WriterPcs
    <2>2. \A u \in Uris : OwnerOf(u) = NONE
      <3>1. \A u \in Uris : Users(u) = {}
        BY DEF Init, Users
      <3>2. QED
        BY <3>1 DEF OwnerOf
    <2>3. QED
      BY <2>1, <2>2 DEF Promise!Init
  <1>2. QED
    BY <1>1, StepRefines, Invariance, PTL DEF Spec, Promise!Spec, ImplementsNodeLock
=============================================================================
