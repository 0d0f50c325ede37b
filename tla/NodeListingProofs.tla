------------------------- MODULE NodeListingProofs -------------------------
(***************************************************************************)
(* Proofs about NodeListing, for any requests, nodes and hypervisors.      *)
(***************************************************************************)
EXTENDS NodeListing, TLAPS

(***************************************************************************)
(* The inductive invariant, in named parts.                                *)
(***************************************************************************)

\* Between a miss and the store of what was parsed.
Filling == {"parse", "lockcache", "store"}
Parsed == {"lockcache", "store"}

\* An idle request has no goroutines, one that is answered has none at work.
NobodyLeft ==
    /\ \A q \in Requests : query[q] = NONE => answer[q] = NONE
    /\ \A w \in Workers :
          /\ query[w[1]] = NONE => wk[w].pc = "off"
          /\ answer[w[1]] # NONE => wk[w].pc \in {"off", "finished"}

\* A hypervisor has only paths of its own.
DrivesInPlace == \A u \in Uris, p \in Paths : drive[u][p] # 0 => p \in PathsOf[u]

\* A goroutine works on paths of its hypervisor.
WorksInPlace ==
    \A w \in Workers :
       /\ wk[w].pc \in Filling \cup {"convert"} => wk[w].todo \subseteq PathsOf[Uri(w)]
       /\ wk[w].pc \in Filling => wk[w].path \in PathsOf[Uri(w)]
       /\ wk[w].pc \in Parsed => wk[w].config \in Configs

\* No version is ahead of the changes.
Numbered ==
    /\ \A u \in Uris, p \in Paths : drive[u][p] <= changes + 1
    /\ \A p \in Exclusive : shown[p] <= changes + 1
    /\ \A w \in Workers : wk[w].pc \in Parsed => wk[w].config.version <= changes + 1

\* What was shown last is what the cache has, and the drive is not older.
CacheShown ==
    \A p \in Exclusive :
       /\ cache[p] # NONE => shown[p] = cache[p].version
       /\ \A u \in Uris : drive[u][p] # 0 => shown[p] <= drive[u][p]

\* What is about to be stored is missing from the cache, not older than what
\* was shown, and not newer than the drive.
FillsHole ==
    \A w \in Workers :
       /\ (wk[w].pc \in Filling /\ wk[w].path \in Exclusive) => cache[wk[w].path] = NONE
       /\ (wk[w].pc \in Parsed /\ wk[w].path \in Exclusive) =>
             /\ shown[wk[w].path] <= wk[w].config.version
             /\ \A u \in Uris : drive[u][wk[w].path] # 0 =>
                   wk[w].config.version <= drive[u][wk[w].path]

IInv == /\ TypeOK
        /\ NobodyLeft
        /\ OnlyHoldersOwn
        /\ DrivesInPlace
        /\ WorksInPlace
        /\ Numbered
        /\ CacheShown
        /\ FillsHole

-----------------------------------------------------------------------------

USE UriAssumption, PathsOfAssumption, QueriesAssumption, BoundAssumption, NoneAssumption

(***************************************************************************)
(* Types.                                                                  *)
(***************************************************************************)

LEMMA OffTyped == Off \in WorkerStates
  BY DEF Off, WorkerStates, Pcs

LEMMA PcTyped == ASSUME NEW s \in WorkerStates, NEW l \in Pcs
                 PROVE [s EXCEPT !.pc = l] \in WorkerStates
  BY DEF WorkerStates

LEMMA ConvertTyped ==
  ASSUME NEW s \in WorkerStates, NEW l \in Pcs, NEW T \in SUBSET Paths, NEW R \in SUBSET Rows
  PROVE [s EXCEPT !.pc = l, !.todo = T, !.path = NONE, !.config = NONE, !.rows = R]
           \in WorkerStates
  BY DEF WorkerStates

LEMMA PathsAreNames == Paths \subseteq Names
  BY DEF Names

\* The types of a worker's fields.
LEMMA WorkerTyped ==
  ASSUME TypeOK, NEW w \in Workers
  PROVE /\ wk[w] \in WorkerStates
        /\ wk[w].pc \in Pcs /\ wk[w].todo \in SUBSET Paths
        /\ wk[w].seen \in SUBSET Names
        /\ wk[w].rows \in SUBSET Rows /\ wk[w].copy \in SUBSET Rows
        /\ wk[w].path \in Paths \cup {NONE} /\ wk[w].config \in Configs \cup {NONE}
        /\ Uri(w) \in Uris /\ w[1] \in Requests /\ w[2] \in Nodes
  BY DEF TypeOK, WorkerStates, Workers, Uri

\* The row of a converted domain.
LEMMA RowTyped ==
  ASSUME NEW w \in Workers, NEW p \in Names, NEW c \in Configs \cup {NONE}
  PROVE Row(w, p, c) \in Rows
  BY DEF Row, Rows, Workers

\* What domainToVm leaves behind has its type.
LEMMA ConvertedTyped ==
  ASSUME TypeOK, NEW w \in Workers, NEW p \in Paths, NEW c \in Configs \cup {NONE},
         Converted(w, p, c)
  PROVE /\ wk' \in [Workers -> WorkerStates]
        /\ shown' \in [Paths -> {0} \cup Versions]
  <1> DEFINE s == [wk[w] EXCEPT !.pc = "convert", !.todo = @ \ {p}, !.path = NONE,
                                !.config = NONE, !.rows = @ \cup {Row(w, p, c)}]
  <1>1. wk' = [wk EXCEPT ![w] = s]
    BY DEF Converted, TypeOK
  <1>2. Row(w, p, c) \in Rows
    BY RowTyped, PathsAreNames
  <1>3. wk[w].todo \ {p} \in SUBSET Paths /\ wk[w].rows \cup {Row(w, p, c)} \in SUBSET Rows
    BY <1>2, WorkerTyped
  <1>4. s \in WorkerStates
    BY <1>3, WorkerTyped, ConvertTyped DEF Pcs, HolderPcs
  <1>5. wk' \in [Workers -> WorkerStates]
    BY <1>1, <1>4 DEF TypeOK
  <1>6. c # NONE => c.version \in Versions
    BY DEF Configs
  <1>7. shown' \in [Paths -> {0} \cup Versions]
    BY <1>6 DEF Converted, Shown, TypeOK
  <1>8. QED
    BY <1>5, <1>7

LEMMA NextType == IInv /\ [Next]_vars => TypeOK'
  <1> SUFFICES ASSUME IInv, [Next]_vars PROVE TypeOK'
    OBVIOUS
  <1>0. TypeOK /\ WorksInPlace
    BY DEF IInv
  <1>1. ASSUME NEW q \in Requests, NEW k \in Queries, NEW todo \in SUBSET Paths,
               Start(q, k, todo)
        PROVE TypeOK'
    <2>1. [Off EXCEPT !.pc = "acquire", !.todo = todo] \in WorkerStates
      BY DEF Off, WorkerStates, Pcs
    <2>2. wk' \in [Workers -> WorkerStates]
      BY <1>0, <1>1, <2>1 DEF Start, TypeOK
    <2>3. QED
      BY <1>0, <1>1, <2>2 DEF Start, TypeOK
  <1>2. ASSUME NEW q \in Requests, Return(q) PROVE TypeOK'
    BY <1>0, <1>2 DEF Return, TypeOK
  <1>3. ASSUME NEW q \in Requests, EndRequest(q) PROVE TypeOK'
    <2>1. wk' \in [Workers -> WorkerStates]
      BY <1>0, <1>3, OffTyped DEF EndRequest, TypeOK
    <2>2. query' \in [Requests -> Queries \cup {NONE}]
      BY <1>0, <1>3 DEF EndRequest, TypeOK
    <2>3. answer' \in [Requests -> (SUBSET Rows) \cup {NONE}]
      BY <1>0, <1>3 DEF EndRequest, TypeOK
    <2>4. result' \in [Requests -> SUBSET Rows]
      BY <1>0, <1>3 DEF EndRequest, TypeOK
    <2>5. QED
      BY <1>0, <1>3, <2>1, <2>2, <2>3, <2>4 DEF EndRequest, TypeOK
  <1>4. ASSUME NEW w \in Workers, Acquire(w) PROVE TypeOK'
    <2> DEFINE s == [wk[w] EXCEPT !.pc = "list"]
    <2>1. wk' = [wk EXCEPT ![w] = s]
      BY <1>0, <1>4 DEF Acquire, TypeOK, Goto
    <2>2. s \in WorkerStates
      BY <1>0, WorkerTyped DEF WorkerStates, Pcs, HolderPcs
    <2>3. wk' \in [Workers -> WorkerStates]
      BY <1>0, <2>1, <2>2 DEF TypeOK
    <2>4. QED
      BY <1>0, <1>4, <2>3, WorkerTyped DEF Acquire, TypeOK
  <1>5. ASSUME NEW w \in Workers, AcquireFails(w) PROVE TypeOK'
    <2> DEFINE s == [wk[w] EXCEPT !.pc = "finished", !.seen = {}]
    <2>1. wk' = [wk EXCEPT ![w] = s]
      BY <1>0, <1>5 DEF AcquireFails, TypeOK
    <2>2. s \in WorkerStates
      BY <1>0, WorkerTyped DEF WorkerStates, Pcs, HolderPcs
    <2>3. wk' \in [Workers -> WorkerStates]
      BY <1>0, <2>1, <2>2 DEF TypeOK
    <2>4. QED
      BY <1>0, <1>5, <2>3, WorkerTyped DEF AcquireFails, TypeOK
  <1>6. ASSUME NEW w \in Workers, NodeFails(w) PROVE TypeOK'
    <2> DEFINE s == [wk[w] EXCEPT !.pc = "release", !.todo = {}, !.seen = {}, !.rows = {}]
    <2>1. wk' = [wk EXCEPT ![w] = s]
      BY <1>0, <1>6 DEF NodeFails, TypeOK
    <2>2. s \in WorkerStates
      BY <1>0, WorkerTyped DEF WorkerStates, Pcs, HolderPcs
    <2>3. wk' \in [Workers -> WorkerStates]
      BY <1>0, <2>1, <2>2 DEF TypeOK
    <2>4. QED
      BY <1>0, <1>6, <2>3, WorkerTyped DEF NodeFails, TypeOK
  <1>7. ASSUME NEW w \in Workers, ListDomains(w) PROVE TypeOK'
    <2> DEFINE D == IF Kind(w) = "get" THEN There(Uri(w)) \cap wk[w].todo ELSE There(Uri(w))
    <2>0. There(Uri(w)) \in SUBSET Paths
      BY DEF There
    <2>1. /\ D \in SUBSET Paths
          /\ wk' = [wk EXCEPT ![w].pc = "convert", ![w].todo = D, ![w].seen = D]
      BY <1>7, <2>0 DEF ListDomains
    <2> HIDE DEF D
    <2> DEFINE s == [wk[w] EXCEPT !.pc = "convert", !.todo = D, !.seen = D]
    <2>2. wk' = [wk EXCEPT ![w] = s]
      BY <1>0, <2>1 DEF TypeOK
    <2>3. D \in SUBSET Paths /\ D \in SUBSET Names
      BY <2>1, PathsAreNames
    <2>4. s \in WorkerStates
      BY <1>0, <2>3, WorkerTyped DEF WorkerStates, Pcs, HolderPcs
    <2>5. wk' \in [Workers -> WorkerStates]
      BY <1>0, <2>2, <2>4 DEF TypeOK
    <2>6. QED
      BY <1>0, <1>7, <2>5 DEF ListDomains, TypeOK
  <1>8. ASSUME NEW w \in Workers, ListOthers(w) PROVE TypeOK'
    <2>1. PICK S \in SUBSET Names :
                wk' = [wk EXCEPT ![w].pc = "release", ![w].seen = S,
                                 ![w].rows = {[node |-> w[2], path |-> x, config |-> NONE] :
                                                x \in S}]
      <3>1. VolumeNames(Uri(w)) \in SUBSET Names
        BY PathsAreNames DEF VolumeNames, There
      <3>2. NetworkNames(Uri(w)) \in SUBSET Names
        BY <1>0, WorkerTyped DEF NetworkNames, Names
      <3>3. QED
        BY <1>8, <3>1, <3>2 DEF ListOthers
    <2> DEFINE R == {[node |-> w[2], path |-> x, config |-> NONE] : x \in S}
               s == [wk[w] EXCEPT !.pc = "release", !.seen = S, !.rows = R]
    <2>2. wk' = [wk EXCEPT ![w] = s]
      BY <1>0, <2>1 DEF TypeOK
    <2>3. R \in SUBSET Rows
      BY <1>0, WorkerTyped DEF Rows
    <2>4. s \in WorkerStates
      <3> HIDE DEF R
      <3> QED
        BY <1>0, <2>3, WorkerTyped DEF WorkerStates, Pcs, HolderPcs
    <2>5. wk' \in [Workers -> WorkerStates]
      BY <1>0, <2>2, <2>4 DEF TypeOK
    <2>6. QED
      BY <1>0, <1>8, <2>5 DEF ListOthers, TypeOK
  <1>9. ASSUME NEW w \in Workers, NEW p \in Paths, ShowCached(w, p) PROVE TypeOK'
    <2>1. cache[p] \in Configs \cup {NONE}
      BY <1>0 DEF TypeOK
    <2>2. /\ wk' \in [Workers -> WorkerStates]
          /\ shown' \in [Paths -> {0} \cup Versions]
      BY <1>0, <1>9, <2>1, ConvertedTyped DEF ShowCached
    <2>3. QED
      BY <1>0, <1>9, <2>2 DEF ShowCached, TypeOK
  <1>10. ASSUME NEW w \in Workers, NEW p \in Paths, Miss(w, p) PROVE TypeOK'
    <2> DEFINE s == [wk[w] EXCEPT !.pc = "parse", !.path = p]
    <2>1. wk' = [wk EXCEPT ![w] = s]
      BY <1>0, <1>10 DEF Miss, TypeOK
    <2>2. s \in WorkerStates
      BY <1>0, WorkerTyped DEF WorkerStates, Pcs, HolderPcs
    <2>3. wk' \in [Workers -> WorkerStates]
      BY <1>0, <2>1, <2>2 DEF TypeOK
    <2>4. QED
      BY <1>0, <1>10, <2>3 DEF Miss, TypeOK
  <1>11. ASSUME NEW w \in Workers, Parse(w) PROVE TypeOK'
    <2>1. wk[w].path \in Paths
      BY <1>0, <1>11, WorkerTyped DEF Parse, At, WorksInPlace, Filling
    <2> DEFINE c == [uri |-> Uri(w), version |-> drive[Uri(w)][wk[w].path]]
               s == [wk[w] EXCEPT !.pc = "lockcache", !.config = c]
    <2>2. drive[Uri(w)][wk[w].path] \in Versions
      BY <1>0, <1>11, <2>1, WorkerTyped DEF Parse, TypeOK
    <2>3. c \in Configs
      BY <1>0, <2>2, WorkerTyped DEF Configs
    <2>4. wk' = [wk EXCEPT ![w] = s]
      BY <1>0, <1>11 DEF Parse, TypeOK
    <2>5. s \in WorkerStates
      <3> HIDE DEF c
      <3> QED
        BY <1>0, <2>3, WorkerTyped DEF WorkerStates, Pcs, HolderPcs
    <2>6. wk' \in [Workers -> WorkerStates]
      BY <1>0, <2>4, <2>5 DEF TypeOK
    <2>7. QED
      BY <1>0, <1>11, <2>6 DEF Parse, TypeOK
  <1>12. ASSUME NEW w \in Workers, ParseFails(w) PROVE TypeOK'
    <2>1. wk[w].path \in Paths
      BY <1>0, <1>12, WorkerTyped DEF ParseFails, At, WorksInPlace, Filling
    <2>2. /\ wk' \in [Workers -> WorkerStates]
          /\ shown' \in [Paths -> {0} \cup Versions]
      BY <1>0, <1>12, <2>1, WorkerTyped, ConvertedTyped DEF ParseFails
    <2>3. QED
      BY <1>0, <1>12, <2>2 DEF ParseFails, TypeOK
  <1>13. ASSUME NEW w \in Workers, Store(w) PROVE TypeOK'
    <2>1. wk[w].path \in Paths
      BY <1>0, <1>13, WorkerTyped DEF Store, At, WorksInPlace, Filling
    <2>2. /\ wk' \in [Workers -> WorkerStates]
          /\ shown' \in [Paths -> {0} \cup Versions]
      BY <1>0, <1>13, <2>1, WorkerTyped, ConvertedTyped DEF Store
    <2>3. cache' \in [Paths -> Configs \cup {NONE}]
      BY <1>0, <1>13, <2>1, WorkerTyped DEF Store, TypeOK
    <2>4. QED
      BY <1>0, <1>13, <2>2, <2>3 DEF Store, TypeOK
  <1>14. ASSUME NEW w \in Workers, LockCache(w) PROVE TypeOK'
    <2> DEFINE s == [wk[w] EXCEPT !.pc = "store"]
    <2>1. wk' = [wk EXCEPT ![w] = s]
      BY <1>0, <1>14 DEF LockCache, TypeOK, Goto
    <2>2. s \in WorkerStates
      BY <1>0, WorkerTyped DEF WorkerStates, Pcs, HolderPcs
    <2>3. wk' \in [Workers -> WorkerStates]
      BY <1>0, <2>1, <2>2 DEF TypeOK
    <2>4. QED
      BY <1>0, <1>14, <2>3, WorkerTyped DEF LockCache, TypeOK
  <1>15. ASSUME NEW w \in Workers, Listed(w) PROVE TypeOK'
    <2> DEFINE s == [wk[w] EXCEPT !.pc = "release"]
    <2>1. wk' = [wk EXCEPT ![w] = s]
      BY <1>0, <1>15 DEF Listed, TypeOK, Goto
    <2>2. s \in WorkerStates
      BY <1>0, WorkerTyped DEF WorkerStates, Pcs, HolderPcs
    <2>3. wk' \in [Workers -> WorkerStates]
      BY <1>0, <2>1, <2>2 DEF TypeOK
    <2>4. QED
      BY <1>0, <1>15, <2>3, WorkerTyped DEF Listed, TypeOK
  <1>16. ASSUME NEW w \in Workers, Release(w) PROVE TypeOK'
    <2>1. PICK l \in Pcs : wk' = [wk EXCEPT ![w].pc = l]
      BY <1>16 DEF Release, Goto, Pcs
    <2>2. wk' \in [Workers -> WorkerStates]
      BY <1>0, <2>1, PcTyped DEF TypeOK
    <2>3. result' \in [Requests -> SUBSET Rows]
      BY <1>0, <1>16, WorkerTyped DEF Release, TypeOK
    <2>4. QED
      BY <1>0, <1>16, <2>2, <2>3 DEF Release, TypeOK
  <1>17. ASSUME NEW w \in Workers, LockResult(w) PROVE TypeOK'
    <2> DEFINE s == [wk[w] EXCEPT !.pc = "append", !.copy = result[w[1]]]
    <2>1. wk' = [wk EXCEPT ![w] = s]
      BY <1>0, <1>17 DEF LockResult, TypeOK
    <2>2. result[w[1]] \in SUBSET Rows
      BY <1>0, WorkerTyped DEF TypeOK
    <2>3. s \in WorkerStates
      BY <1>0, <2>2, WorkerTyped DEF WorkerStates, Pcs, HolderPcs
    <2>4. wk' \in [Workers -> WorkerStates]
      BY <1>0, <2>1, <2>3 DEF TypeOK
    <2>5. QED
      BY <1>0, <1>17, <2>4, WorkerTyped, <2>2 DEF LockResult, TypeOK
  <1>18. ASSUME NEW w \in Workers, Append(w) PROVE TypeOK'
    <2> DEFINE s == [wk[w] EXCEPT !.pc = "finished", !.rows = {}, !.copy = {}]
    <2>1. wk' = [wk EXCEPT ![w] = s]
      BY <1>0, <1>18 DEF Append, TypeOK
    <2>2. wk[w].copy \cup wk[w].rows \in SUBSET Rows
      BY <1>0, WorkerTyped
    <2>3. s \in WorkerStates
      BY <1>0, <2>2, WorkerTyped DEF WorkerStates, Pcs, HolderPcs
    <2>4. wk' \in [Workers -> WorkerStates]
      BY <1>0, <2>1, <2>3 DEF TypeOK
    <2>5. QED
      BY <1>0, <1>18, <2>4, WorkerTyped, <2>2 DEF Append, TypeOK
  <1>19. ASSUME NEW w \in Workers, PanicInGet(w) PROVE TypeOK'
    <2>1. [Off EXCEPT !.pc = "finished"] \in WorkerStates
      BY OffTyped, PcTyped DEF Pcs
    <2>2. wk' \in [Workers -> WorkerStates]
      BY <1>0, <1>19, <2>1 DEF PanicInGet, TypeOK
    <2>3. QED
      BY <1>0, <1>19, <2>2 DEF PanicInGet, TypeOK
  <1>20. ASSUME Die PROVE TypeOK'
    <2>1. wk' \in [Workers -> WorkerStates]
      BY <1>20, OffTyped DEF Die
    <2>2. up' = FALSE /\ changes' \in 0 .. MaxChanges
      BY <1>0, <1>20 DEF Die, Change, TypeOK
    <2>3. /\ query' \in [Requests -> Queries \cup {NONE}]
          /\ answer' \in [Requests -> (SUBSET Rows) \cup {NONE}]
          /\ result' \in [Requests -> SUBSET Rows]
      BY <1>20 DEF Die
    <2>4. /\ owner' \in [Uris -> Workers \cup {NONE}]
          /\ resultMu' \in [Requests -> Workers \cup {NONE}]
          /\ cache' \in [Paths -> Configs \cup {NONE}]
          /\ cacheMu' \in Workers \cup {NONE}
      BY <1>20 DEF Die
    <2>5. drive' = drive /\ shown' = shown
      BY <1>20 DEF Die
    <2>6. QED
      BY <1>0, <2>1, <2>2, <2>3, <2>4, <2>5 DEF TypeOK
  <1>21. ASSUME Restart PROVE TypeOK'
    BY <1>0, <1>21 DEF Restart, TypeOK
  <1>22. ASSUME NEW u \in Uris, NEW p \in Paths, Remove(u, p) PROVE TypeOK'
    BY <1>0, <1>22 DEF Remove, Change, TypeOK
  <1>23. ASSUME NEW u \in Uris, NEW p \in Paths, Create(u, p) PROVE TypeOK'
    <2>1. changes' \in 0 .. MaxChanges /\ changes + 2 \in Versions
      BY <1>0, <1>23 DEF Create, Change, TypeOK, Versions
    <2>2. drive' \in [Uris -> [Paths -> {0} \cup Versions]]
      BY <1>0, <1>23, <2>1 DEF Create, TypeOK
    <2>3. QED
      BY <1>0, <1>23, <2>1, <2>2 DEF Create, TypeOK
  <1>24. CASE UNCHANGED vars
    BY <1>0, <1>24 DEF vars, TypeOK
  <1>25. ASSUME NEW q \in Requests, NEW k \in Queries,
                ListVms(q, k) \/ ListVolumes(q, k) \/ ListNetworks(q, k) \/ GetVm(q, k)
         PROVE TypeOK'
    BY <1>1, <1>25 DEF ListVms, ListVolumes, ListNetworks, GetVm
  <1>26. QED
    BY <1>2, <1>3, <1>4, <1>5, <1>6, <1>7, <1>8, <1>9, <1>10, <1>11, <1>12,
       <1>13, <1>14, <1>15, <1>16, <1>17, <1>18, <1>19, <1>20, <1>21, <1>22, <1>23,
       <1>24, <1>25
       DEF Next, Step, Locks, PanicInList, MapRace

-----------------------------------------------------------------------------
(***************************************************************************)
(* What a step does to a goroutine.                                        *)
(***************************************************************************)

LEMMA PcSet ==
  ASSUME TypeOK, NEW w \in Workers, NEW l \in Pcs, wk' = [wk EXCEPT ![w].pc = l]
  PROVE /\ wk'[w].pc = l /\ wk'[w].todo = wk[w].todo /\ wk'[w].path = wk[w].path
        /\ wk'[w].config = wk[w].config
        /\ \A v \in Workers \ {w} : wk'[v] = wk[v]
  BY DEF TypeOK, WorkerStates

LEMMA NodeFailsEffect ==
  ASSUME TypeOK, NEW w \in Workers, NodeFails(w)
  PROVE /\ wk'[w].pc = "release"
        /\ \A v \in Workers \ {w} : wk'[v] = wk[v]
  BY DEF NodeFails, TypeOK, WorkerStates

LEMMA ConvertedEffect ==
  ASSUME TypeOK, NEW w \in Workers, NEW p, NEW c, Converted(w, p, c)
  PROVE /\ wk'[w].pc = "convert" /\ wk'[w].todo = wk[w].todo \ {p}
        /\ \A v \in Workers \ {w} : wk'[v] = wk[v]
  BY DEF Converted, TypeOK, WorkerStates

\* A goroutine that goes on with the drive it works on, or with none.
Keeps(v) ==
    /\ wk'[v].pc = "convert" => wk'[v].todo \subseteq PathsOf[Uri(v)]
    /\ wk'[v].pc = "parse" => /\ wk[v].pc = "parse"
                              /\ wk'[v].todo = wk[v].todo /\ wk'[v].path = wk[v].path
    /\ wk'[v].pc \in Parsed => /\ wk[v].pc \in Parsed
                               /\ wk'[v].todo = wk[v].todo /\ wk'[v].path = wk[v].path
                               /\ wk'[v].config = wk[v].config

DriveInv == DrivesInPlace /\ WorksInPlace /\ Numbered /\ CacheShown /\ FillsHole

LEMMA QuietStep ==
  ASSUME IInv, UNCHANGED <<cache, drive, shown, changes>>,
         \A v \in Workers : Keeps(v)
  PROVE DriveInv'
  <1>1. DrivesInPlace' /\ CacheShown'
    BY DEF IInv, DrivesInPlace, CacheShown
  <1>2. WorksInPlace'
    BY DEF IInv, WorksInPlace, Keeps, Filling, Parsed, Uri
  <1>3. Numbered'
    BY DEF IInv, Numbered, Keeps, Parsed
  <1>4. FillsHole'
    BY DEF IInv, FillsHole, Keeps, Filling, Parsed
  <1>5. QED
    BY <1>1, <1>2, <1>3, <1>4 DEF DriveInv

\* Only the holder of a hypervisor works on a path that no other one has.
LEMMA OneWorker ==
  ASSUME IInv, NEW v \in Workers, NEW w \in Workers, NEW p \in Exclusive,
         p \in PathsOf[Uri(v)], p \in PathsOf[Uri(w)],
         wk[v].pc \in HolderPcs, wk[w].pc \in HolderPcs
  PROVE v = w
  <1>1. Uri(v) \in Uris /\ Uri(w) \in Uris
    BY DEF Workers, Uri
  <1>2. Uri(v) = Uri(w)
    BY <1>1 DEF Exclusive
  <1>3. QED
    BY <1>1, <1>2 DEF IInv, OnlyHoldersOwn

\* The requests and the other goroutines stay as they are.
Alone(w) == /\ UNCHANGED <<query, answer>>
            /\ wk[w].pc \notin {"off", "finished"}
            /\ \A v \in Workers \ {w} : wk'[v] = wk[v]

LEMMA AloneNobodyLeft ==
  ASSUME IInv, NEW w \in Workers, Alone(w)
  PROVE NobodyLeft'
  BY DEF IInv, NobodyLeft, Alone, Workers

LEMMA AloneKeepsOwners ==
  ASSUME IInv, NEW w \in Workers, Alone(w), owner' = owner,
         wk'[w].pc \in HolderPcs <=> wk[w].pc \in HolderPcs
  PROVE OnlyHoldersOwn'
  BY DEF IInv, OnlyHoldersOwn, Alone, Uri

LEMMA AloneGivesBack ==
  ASSUME IInv, NEW w \in Workers, Alone(w), owner' = [owner EXCEPT ![Uri(w)] = NONE],
         wk[w].pc \in HolderPcs, wk'[w].pc \notin HolderPcs
  PROVE OnlyHoldersOwn'
  <1>1. Uri(w) \in Uris /\ owner \in [Uris -> Workers \cup {NONE}]
    BY WorkerTyped DEF IInv, TypeOK
  <1>2. \A v \in Workers : v # NONE
    BY DEF Workers
  <1>3. QED
    BY <1>1, <1>2 DEF IInv, OnlyHoldersOwn, Alone, Uri

\* A step of one goroutine that leaves cache and drives alone.
LEMMA AloneQuiet ==
  ASSUME IInv, NEW w \in Workers, Alone(w), Keeps(w),
         UNCHANGED <<cache, drive, shown, changes>>
  PROVE DriveInv'
  <1>1. ASSUME NEW v \in Workers \ {w} PROVE Keeps(v)
    BY <1>1 DEF Alone, Keeps, IInv, WorksInPlace
  <1>2. QED
    BY <1>1, QuietStep


\* The same when what was shown of the paths of one hypervisor stays.
LEMMA ShownStays ==
  ASSUME IInv, NEW w \in Workers, Alone(w), Keeps(w), UNCHANGED <<cache, drive, changes>>,
         \A p \in Exclusive : shown'[p] = shown[p]
  PROVE DriveInv'
  <1>1. ASSUME NEW v \in Workers PROVE Keeps(v)
    BY <1>1 DEF Alone, Keeps, IInv, WorksInPlace
  <1>2. DrivesInPlace' /\ CacheShown'
    BY DEF IInv, DrivesInPlace, CacheShown
  <1>3. WorksInPlace'
    BY <1>1 DEF IInv, WorksInPlace, Keeps, Filling, Parsed, Uri
  <1>4. Numbered'
    BY <1>1 DEF IInv, Numbered, Keeps, Parsed
  <1>5. FillsHole'
    BY <1>1 DEF IInv, FillsHole, Keeps, Filling, Parsed
  <1>6. QED
    BY <1>2, <1>3, <1>4, <1>5 DEF DriveInv

RestInv == NobodyLeft /\ OnlyHoldersOwn /\ DriveInv

LEMMA AloneRest ==
  ASSUME IInv, NEW w \in Workers, Alone(w), Keeps(w), owner' = owner,
         wk'[w].pc \in HolderPcs <=> wk[w].pc \in HolderPcs,
         UNCHANGED <<cache, drive, shown, changes>>
  PROVE RestInv'
  BY AloneNobodyLeft, AloneKeepsOwners, AloneQuiet DEF RestInv

-----------------------------------------------------------------------------
(***************************************************************************)
(* The actions.                                                            *)
(***************************************************************************)

LEMMA NextRest == IInv /\ [Next]_vars => RestInv'
  <1> SUFFICES ASSUME IInv, [Next]_vars PROVE RestInv'
    OBVIOUS
  <1>0. TypeOK /\ NobodyLeft /\ OnlyHoldersOwn /\ DriveInv
    BY DEF IInv, DriveInv
  <1>1. ASSUME NEW q \in Requests, NEW k \in Queries, NEW todo \in SUBSET Paths,
               Start(q, k, todo)
        PROVE RestInv'
    <2>1. \A v \in Workers : /\ v[1] = q => wk[v].pc = "off" /\ wk'[v].pc \in {"off", "acquire"}
                             /\ v[1] # q => wk'[v] = wk[v]
      <3>1. [Off EXCEPT !.pc = "acquire", !.todo = todo].pc = "acquire"
        BY DEF Off
      <3>2. \A v \in Workers : \/ wk'[v] = wk[v]
                              \/ /\ v[1] = q
                                 /\ wk'[v] = [Off EXCEPT !.pc = "acquire", !.todo = todo]
        BY <1>1 DEF Start
      <3>3. \A v \in Workers : v[1] = q => wk[v].pc = "off"
        <4>1. query[q] = NONE
          BY <1>1 DEF Start
        <4>2. QED
          BY <1>0, <4>1 DEF NobodyLeft
      <3>4. QED
        BY <3>1, <3>2, <3>3
    <2>2. NobodyLeft'
      BY <1>0, <1>1, <2>1 DEF Start, NobodyLeft, TypeOK, Workers
    <2>3. OnlyHoldersOwn'
      BY <1>0, <1>1, <2>1 DEF Start, OnlyHoldersOwn, HolderPcs, Uri
    <2>4. DriveInv'
      BY <1>1, <2>1, QuietStep DEF Start, IInv, WorksInPlace, Keeps, Filling, Parsed
    <2>5. QED
      BY <2>2, <2>3, <2>4 DEF RestInv
  <1>2. ASSUME NEW q \in Requests, Return(q) PROVE RestInv'
    <2>1. NobodyLeft'
      BY <1>0, <1>2 DEF Return, NobodyLeft, TypeOK, Workers
    <2>2. OnlyHoldersOwn'
      BY <1>0, <1>2 DEF Return, OnlyHoldersOwn
    <2>3. DriveInv'
      BY <1>2, QuietStep DEF Return, IInv, WorksInPlace, Keeps, Filling, Parsed
    <2>4. QED
      BY <2>1, <2>2, <2>3 DEF RestInv
  <1>3. ASSUME NEW q \in Requests, EndRequest(q) PROVE RestInv'
    <2>1. \A v \in Workers :
             /\ v[1] = q => wk[v].pc \in {"off", "finished"} /\ wk'[v].pc = "off"
             /\ v[1] # q => wk'[v] = wk[v]
      BY <1>0, <1>3 DEF EndRequest, NobodyLeft, Off
    <2>2. NobodyLeft'
      BY <1>0, <1>3, <2>1 DEF EndRequest, NobodyLeft, TypeOK, Workers
    <2>3. OnlyHoldersOwn'
      BY <1>0, <1>3, <2>1 DEF EndRequest, OnlyHoldersOwn, HolderPcs, Uri
    <2>4. DriveInv'
      BY <1>3, <2>1, QuietStep DEF EndRequest, IInv, WorksInPlace, Keeps, Filling, Parsed
    <2>5. QED
      BY <2>2, <2>3, <2>4 DEF RestInv
  <1>4. ASSUME NEW w \in Workers, Acquire(w) PROVE RestInv'
    <2>1. Alone(w) /\ Keeps(w) /\ wk'[w].pc = "list"
      <3>1. wk' = [wk EXCEPT ![w].pc = "list"] /\ "list" \in Pcs
        BY <1>4 DEF Acquire, Goto, Pcs, HolderPcs
      <3>2. wk'[w].pc = "list" /\ \A v \in Workers \ {w} : wk'[v] = wk[v]
        BY <1>0, <3>1, PcSet
      <3>3. QED
        BY <1>4, <3>2 DEF Acquire, At, Alone, Keeps, Parsed
    <2>2. OnlyHoldersOwn'
      <3>1. Uri(w) \in Uris /\ \A v \in Workers : v # NONE /\ Uri(v) \in Uris
        BY <1>0, WorkerTyped DEF Workers
      <3>2. wk[w].pc \notin HolderPcs /\ wk'[w].pc \in HolderPcs
        BY <1>4, <2>1 DEF Acquire, At, HolderPcs
      <3>3. QED
        BY <1>0, <1>4, <2>1, <3>1, <3>2 DEF Acquire, OnlyHoldersOwn, TypeOK, Alone, Uri
    <2>3. QED
      BY <1>4, <2>1, <2>2, AloneNobodyLeft, AloneQuiet DEF Acquire, RestInv
  <1>5. ASSUME NEW w \in Workers, AcquireFails(w) PROVE RestInv'
    <2>1. /\ Alone(w) /\ Keeps(w)
          /\ wk'[w].pc \in HolderPcs <=> wk[w].pc \in HolderPcs
      BY <1>0, <1>5 DEF AcquireFails, At, Alone, Keeps, HolderPcs, Parsed, TypeOK, WorkerStates
    <2>2. QED
      BY <1>5, <2>1, AloneRest DEF AcquireFails
  <1>6. ASSUME NEW w \in Workers, NodeFails(w) PROVE RestInv'
    <2>1. /\ Alone(w) /\ Keeps(w)
          /\ wk'[w].pc \in HolderPcs <=> wk[w].pc \in HolderPcs
      BY <1>0, <1>6, NodeFailsEffect DEF NodeFails, At, Alone, Keeps, HolderPcs, Parsed
    <2>2. QED
      BY <1>6, <2>1, AloneRest DEF NodeFails
  <1>7. ASSUME NEW w \in Workers, ListDomains(w) PROVE RestInv'
    <2>1. There(Uri(w)) \subseteq PathsOf[Uri(w)]
      BY <1>0, WorkerTyped DEF There, DriveInv, DrivesInPlace
    <2>2. /\ wk'[w].pc = "convert" /\ wk'[w].todo \subseteq There(Uri(w))
          /\ \A v \in Workers \ {w} : wk'[v] = wk[v]
      BY <1>0, <1>7 DEF ListDomains, TypeOK, WorkerStates
    <2>3. /\ Alone(w) /\ Keeps(w)
          /\ wk'[w].pc \in HolderPcs <=> wk[w].pc \in HolderPcs
      BY <1>7, <2>1, <2>2 DEF ListDomains, At, Alone, Keeps, HolderPcs, Parsed
    <2>4. QED
      BY <1>7, <2>3, AloneRest DEF ListDomains
  <1>8. ASSUME NEW w \in Workers, ListOthers(w) PROVE RestInv'
    <2>1. /\ wk'[w].pc = "release"
          /\ \A v \in Workers \ {w} : wk'[v] = wk[v]
      BY <1>0, <1>8 DEF ListOthers, TypeOK, WorkerStates
    <2>2. /\ Alone(w) /\ Keeps(w)
          /\ wk'[w].pc \in HolderPcs <=> wk[w].pc \in HolderPcs
      BY <1>8, <2>1 DEF ListOthers, At, Alone, Keeps, HolderPcs, Parsed
    <2>3. QED
      BY <1>8, <2>2, AloneRest DEF ListOthers
  <1>9. ASSUME NEW w \in Workers, NEW p \in Paths, ShowCached(w, p) PROVE RestInv'
    <2>1. /\ wk'[w].pc = "convert" /\ wk'[w].todo \subseteq PathsOf[Uri(w)]
          /\ \A v \in Workers \ {w} : wk'[v] = wk[v]
      BY <1>0, <1>9, ConvertedEffect DEF ShowCached, At, DriveInv, WorksInPlace
    <2>2. /\ Alone(w) /\ Keeps(w)
          /\ wk'[w].pc \in HolderPcs <=> wk[w].pc \in HolderPcs
      BY <1>9, <2>1 DEF ShowCached, At, Alone, Keeps, HolderPcs, Parsed
    <2>3. \A x \in Exclusive : shown'[x] = shown[x]
      BY <1>0, <1>9 DEF ShowCached, Converted, Shown, DriveInv, CacheShown, TypeOK, Exclusive
    <2>4. DriveInv'
      BY <1>9, <2>2, <2>3, ShownStays DEF ShowCached
    <2>5. QED
      BY <1>9, <2>2, <2>4, AloneNobodyLeft, AloneKeepsOwners DEF ShowCached, RestInv
  <1>10. ASSUME NEW w \in Workers, NEW p \in Paths, Miss(w, p) PROVE RestInv'
    <2>1. /\ wk'[w].pc = "parse" /\ wk'[w].path = p /\ wk'[w].todo = wk[w].todo
          /\ \A v \in Workers \ {w} : wk'[v] = wk[v]
      BY <1>0, <1>10 DEF Miss, TypeOK, WorkerStates
    <2>2. /\ Alone(w)
          /\ wk'[w].pc \in HolderPcs <=> wk[w].pc \in HolderPcs
      BY <1>10, <2>1 DEF Miss, At, Alone, HolderPcs
    <2>3. DriveInv'
      <3>1. DrivesInPlace' /\ CacheShown'
        BY <1>0, <1>10 DEF Miss, DriveInv, DrivesInPlace, CacheShown
      <3>2. WorksInPlace'
        BY <1>0, <1>10, <2>1 DEF Miss, At, DriveInv, WorksInPlace, Filling, Parsed, Uri
      <3>3. Numbered'
        BY <1>0, <1>10, <2>1 DEF Miss, DriveInv, Numbered, Parsed
      <3>4. FillsHole'
        BY <1>0, <1>10, <2>1 DEF Miss, DriveInv, FillsHole, Filling, Parsed
      <3>5. QED
        BY <3>1, <3>2, <3>3, <3>4 DEF DriveInv
    <2>4. QED
      BY <1>10, <2>2, <2>3, AloneNobodyLeft, AloneKeepsOwners DEF Miss, RestInv
  <1>11. ASSUME NEW w \in Workers, Parse(w) PROVE RestInv'
    <2> DEFINE u == Uri(w)
               x == wk[w].path
    <2>1. /\ wk'[w].pc = "lockcache" /\ wk'[w].path = x /\ wk'[w].todo = wk[w].todo
          /\ wk'[w].config = [uri |-> u, version |-> drive[u][x]]
          /\ \A v \in Workers \ {w} : wk'[v] = wk[v]
      BY <1>0, <1>11 DEF Parse, TypeOK, WorkerStates
    <2>2. /\ Alone(w)
          /\ wk'[w].pc \in HolderPcs <=> wk[w].pc \in HolderPcs
      BY <1>11, <2>1 DEF Parse, At, Alone, HolderPcs
    <2>3. u \in Uris /\ x \in Paths /\ x \in PathsOf[u] /\ wk[w].todo \subseteq PathsOf[u]
      BY <1>0, <1>11, WorkerTyped DEF Parse, At, DriveInv, WorksInPlace, Filling
    <2>4. drive[u][x] \in Versions /\ drive[u][x] # 0
      BY <1>0, <1>11, <2>3 DEF Parse, TypeOK
    <2>5. wk'[w].config \in Configs /\ wk'[w].config.version = drive[u][x]
      BY <2>1, <2>3, <2>4 DEF Configs
    <2>6. DriveInv'
      <3>1. DrivesInPlace' /\ CacheShown'
        BY <1>0, <1>11 DEF Parse, DriveInv, DrivesInPlace, CacheShown
      <3>2. WorksInPlace'
        BY <1>0, <2>1, <2>3, <2>5 DEF DriveInv, WorksInPlace, Filling, Parsed, Uri
      <3>3. Numbered'
        BY <1>0, <1>11, <2>1, <2>3, <2>5 DEF Parse, DriveInv, Numbered, Parsed
      <3>4. FillsHole'
        <4>1. x \in Exclusive => \A v \in Uris : drive[v][x] # 0 => v = u
          BY <1>0, <2>3 DEF DriveInv, DrivesInPlace, Exclusive
        <4>2. drive[u][x] <= drive[u][x]
          BY <2>4 DEF Versions
        <4>3. x \in Exclusive => cache[x] = NONE /\ shown[x] <= drive[u][x]
          BY <1>0, <1>11, <2>3, <2>4 DEF Parse, At, DriveInv, FillsHole, CacheShown, Filling
        <4>4. UNCHANGED <<cache, shown, drive>>
          BY <1>11 DEF Parse
        <4>5. ASSUME NEW v \in Workers \ {w}
              PROVE /\ (wk'[v].pc \in Filling /\ wk'[v].path \in Exclusive) =>
                         cache'[wk'[v].path] = NONE
                    /\ (wk'[v].pc \in Parsed /\ wk'[v].path \in Exclusive) =>
                         /\ shown'[wk'[v].path] <= wk'[v].config.version
                         /\ \A y \in Uris : drive'[y][wk'[v].path] # 0 =>
                               wk'[v].config.version <= drive'[y][wk'[v].path]
          BY <1>0, <2>1, <4>4 DEF DriveInv, FillsHole
        <4>6. x \in Exclusive =>
                 /\ cache'[x] = NONE
                 /\ shown'[x] <= wk'[w].config.version
                 /\ \A y \in Uris : drive'[y][x] # 0 => wk'[w].config.version <= drive'[y][x]
          BY <2>5, <4>1, <4>2, <4>3, <4>4
        <4>7. QED
          BY <2>1, <4>5, <4>6 DEF FillsHole
      <3>5. QED
        BY <3>1, <3>2, <3>3, <3>4 DEF DriveInv
    <2>7. QED
      BY <1>11, <2>2, <2>6, AloneNobodyLeft, AloneKeepsOwners DEF Parse, RestInv
  <1>12. ASSUME NEW w \in Workers, ParseFails(w) PROVE RestInv'
    <2>1. /\ wk'[w].pc = "convert" /\ wk'[w].todo \subseteq PathsOf[Uri(w)]
          /\ \A v \in Workers \ {w} : wk'[v] = wk[v]
      BY <1>0, <1>12, ConvertedEffect DEF ParseFails, At, DriveInv, WorksInPlace, Filling
    <2>2. /\ Alone(w) /\ Keeps(w)
          /\ wk'[w].pc \in HolderPcs <=> wk[w].pc \in HolderPcs
      BY <1>12, <2>1 DEF ParseFails, At, Alone, Keeps, HolderPcs, Parsed
    <2>3. QED
      BY <1>12, <2>2, AloneRest DEF ParseFails, Converted, Shown
  <1>13. ASSUME NEW w \in Workers, LockCache(w) PROVE RestInv'
    <2>1. /\ Alone(w) /\ Keeps(w)
          /\ wk'[w].pc \in HolderPcs <=> wk[w].pc \in HolderPcs
      BY <1>0, <1>13, PcSet DEF LockCache, At, Alone, Keeps, HolderPcs, Parsed, Goto, Pcs
    <2>2. QED
      BY <1>13, <2>1, AloneRest DEF LockCache
  <1>14. ASSUME NEW w \in Workers, Store(w) PROVE RestInv'
    <2> DEFINE x == wk[w].path
               c == wk[w].config
    <2>1. x \in PathsOf[Uri(w)] /\ x \in Paths /\ c \in Configs /\ c # NONE
      BY <1>0, <1>14, WorkerTyped, ConfigsAssumption
         DEF Store, At, DriveInv, WorksInPlace, Filling, Parsed
    <2>2. /\ wk'[w].pc = "convert" /\ wk'[w].todo \subseteq PathsOf[Uri(w)]
          /\ \A v \in Workers \ {w} : wk'[v] = wk[v]
      BY <1>0, <1>14, ConvertedEffect DEF Store, At, DriveInv, WorksInPlace, Filling
    <2>3. /\ Alone(w) /\ Keeps(w)
          /\ wk'[w].pc \in HolderPcs <=> wk[w].pc \in HolderPcs
      BY <1>14, <2>2 DEF Store, At, Alone, Keeps, HolderPcs, Parsed
    <2>4. /\ cache' = [cache EXCEPT ![x] = c]
          /\ shown' = [shown EXCEPT ![x] = c.version]
          /\ drive' = drive /\ changes' = changes /\ owner' = owner
      BY <1>14, <2>1 DEF Store, Converted, Shown
    <2>5. DriveInv'
      <3>1. DrivesInPlace'
        BY <1>0, <2>4 DEF DriveInv, DrivesInPlace
      <3>2. WorksInPlace'
        BY <1>0, <2>2 DEF DriveInv, WorksInPlace, Filling, Parsed, Uri
      <3>3. c.version <= changes + 1
        BY <1>0, <1>14 DEF Store, At, DriveInv, Numbered, Parsed
      <3>4. Numbered'
        BY <1>0, <2>2, <2>4, <3>3 DEF DriveInv, Numbered, Parsed, TypeOK, Exclusive
      <3>5. x \in Exclusive => \A u \in Uris : drive[u][x] # 0 => c.version <= drive[u][x]
        BY <1>0, <1>14 DEF Store, At, DriveInv, FillsHole, Parsed
      <3>6. CacheShown'
        BY <1>0, <2>1, <2>4, <3>5 DEF DriveInv, CacheShown, TypeOK, Exclusive
      <3>7. ASSUME NEW v \in Workers, wk'[v].pc \in Filling, wk'[v].path \in Exclusive
            PROVE v # w /\ wk'[v] = wk[v] /\ wk[v].path # x
        <4>1. v # w /\ wk'[v] = wk[v]
          BY <2>2, <3>7 DEF Filling
        <4>2. wk[v].path \in PathsOf[Uri(v)]
          BY <1>0, <3>7, <4>1 DEF DriveInv, WorksInPlace
        <4>3. wk[v].pc \in HolderPcs /\ wk[w].pc \in HolderPcs
          BY <1>14, <3>7, <4>1 DEF Store, At, Filling, HolderPcs
        <4>4. QED
          BY <2>1, <3>7, <4>1, <4>2, <4>3, OneWorker
      <3>8. FillsHole'
        BY <1>0, <2>4, <3>7 DEF DriveInv, FillsHole, TypeOK, Exclusive, Filling, Parsed
      <3>9. QED
        BY <3>1, <3>2, <3>4, <3>6, <3>8 DEF DriveInv
    <2>6. QED
      BY <2>3, <2>4, <2>5, AloneNobodyLeft, AloneKeepsOwners DEF RestInv
  <1>15. ASSUME NEW w \in Workers, Listed(w) PROVE RestInv'
    <2>1. /\ Alone(w) /\ Keeps(w)
          /\ wk'[w].pc \in HolderPcs <=> wk[w].pc \in HolderPcs
      BY <1>0, <1>15, PcSet DEF Listed, At, Alone, Keeps, HolderPcs, Parsed, Goto, Pcs
    <2>2. QED
      BY <1>15, <2>1, AloneRest DEF Listed
  <1>16. ASSUME NEW w \in Workers, Release(w) PROVE RestInv'
    <2>1. PICK l \in {"finished", "lockresult"} : wk' = [wk EXCEPT ![w].pc = l]
      BY <1>16 DEF Release, Goto
    <2>2. /\ Alone(w) /\ Keeps(w)
          /\ wk'[w].pc \notin HolderPcs /\ wk[w].pc \in HolderPcs
      BY <1>0, <1>16, <2>1, PcSet DEF Release, At, Alone, Keeps, HolderPcs, Parsed, Pcs
    <2>3. QED
      BY <1>16, <2>2, AloneNobodyLeft, AloneGivesBack, AloneQuiet DEF Release, RestInv
  <1>17. ASSUME NEW w \in Workers, LockResult(w) PROVE RestInv'
    <2>1. /\ Alone(w) /\ Keeps(w)
          /\ wk'[w].pc \in HolderPcs <=> wk[w].pc \in HolderPcs
      BY <1>0, <1>17 DEF LockResult, At, Alone, Keeps, HolderPcs, Parsed, TypeOK, WorkerStates
    <2>2. QED
      BY <1>17, <2>1, AloneRest DEF LockResult
  <1>18. ASSUME NEW w \in Workers, Append(w) PROVE RestInv'
    <2>1. /\ Alone(w) /\ Keeps(w)
          /\ wk'[w].pc \in HolderPcs <=> wk[w].pc \in HolderPcs
      BY <1>0, <1>18 DEF Append, At, Alone, Keeps, HolderPcs, Parsed, TypeOK, WorkerStates
    <2>2. QED
      BY <1>18, <2>1, AloneRest DEF Append
  <1>19. ASSUME NEW w \in Workers, PanicInGet(w) PROVE RestInv'
    <2>1. /\ Alone(w) /\ Keeps(w)
          /\ wk'[w].pc \notin HolderPcs /\ wk[w].pc \in HolderPcs
      BY <1>0, <1>19 DEF PanicInGet, Panics, At, Alone, Keeps, HolderPcs, Parsed, Off, TypeOK
    <2>2. QED
      BY <1>19, <2>1, AloneNobodyLeft, AloneGivesBack, AloneQuiet DEF PanicInGet, RestInv
  <1>20. ASSUME Die PROVE RestInv'
    <2>1. \A v \in Workers : wk'[v].pc = "off"
      BY <1>20 DEF Die, Off
    <2>2. NobodyLeft'
      BY <1>20, <2>1 DEF Die, NobodyLeft, Workers
    <2>3. OnlyHoldersOwn'
      BY <1>20, <2>1 DEF Die, OnlyHoldersOwn, HolderPcs, Workers
    <2>4. changes \in Nat /\ changes' = changes + 1 /\ drive' = drive /\ shown' = shown
      BY <1>0, <1>20 DEF Die, Change, TypeOK
    <2>5. DrivesInPlace' /\ WorksInPlace' /\ FillsHole'
      BY <1>0, <2>1, <2>4 DEF DriveInv, DrivesInPlace, WorksInPlace, FillsHole, Filling, Parsed
    <2>6. Numbered'
      <3>1. /\ \A u \in Uris, p \in Paths : drive[u][p] \in Nat
            /\ \A p \in Exclusive : shown[p] \in Nat
        BY <1>0 DEF TypeOK, Versions, Exclusive
      <3>2. QED
        BY <1>0, <2>1, <2>4, <3>1 DEF DriveInv, Numbered, Parsed
    <2>7. CacheShown'
      BY <1>0, <1>20, <2>4 DEF Die, DriveInv, CacheShown, Exclusive
    <2>8. QED
      BY <2>2, <2>3, <2>5, <2>6, <2>7 DEF RestInv, DriveInv
  <1>21. ASSUME UNCHANGED vars \/ Restart PROVE RestInv'
    <2>1. UNCHANGED <<query, answer, wk, owner, cache, drive, shown, changes>>
      BY <1>21 DEF vars, Restart
    <2>2. DriveInv'
      BY <1>0, <2>1 DEF DriveInv, DrivesInPlace, WorksInPlace, Numbered, CacheShown, FillsHole
    <2>3. QED
      BY <1>0, <2>1, <2>2 DEF RestInv, NobodyLeft, OnlyHoldersOwn
  <1>22. ASSUME NEW u \in Uris, NEW p \in Paths, Remove(u, p) PROVE RestInv'
    <2>1. UNCHANGED <<query, answer, wk, owner, cache, shown>>
      BY <1>22 DEF Remove
    <2>2. /\ changes \in Nat /\ changes' = changes + 1
          /\ drive' = [drive EXCEPT ![u][p] = 0]
      BY <1>0, <1>22 DEF Remove, Change, TypeOK
    <2>3. DrivesInPlace' /\ WorksInPlace'
      BY <1>0, <1>22, <2>1, <2>2 DEF Remove, DriveInv, DrivesInPlace, WorksInPlace, TypeOK
    <2>4. \A v \in Uris, x \in Paths : drive'[v][x] =
             IF v = u /\ x = p THEN 0 ELSE drive[v][x]
      BY <1>0, <2>2 DEF TypeOK
    <2>5. /\ \A v \in Uris, x \in Paths : drive[v][x] \in Nat
          /\ \A x \in Paths : shown[x] \in Nat
          /\ Exclusive \subseteq Paths
      BY <1>0 DEF TypeOK, Versions, Exclusive
    <2>6. \A w \in Workers : wk[w].pc \in Parsed =>
             wk[w].config.version \in Nat /\ wk[w].path \in Paths
      BY <1>0, WorkerTyped DEF DriveInv, WorksInPlace, Filling, Parsed, Configs, Versions
    <2>7. Numbered'
      BY <1>0, <2>1, <2>2, <2>4, <2>5, <2>6 DEF DriveInv, Numbered
    <2>8. CacheShown'
      BY <1>0, <2>1, <2>2, <2>4, <2>5 DEF DriveInv, CacheShown, Numbered
    <2>9. FillsHole'
      BY <1>0, <2>1, <2>2, <2>4, <2>5, <2>6 DEF DriveInv, FillsHole, Numbered
    <2>10. NobodyLeft' /\ OnlyHoldersOwn'
      BY <1>0, <2>1 DEF NobodyLeft, OnlyHoldersOwn
    <2>11. QED
      BY <2>3, <2>7, <2>8, <2>9, <2>10 DEF RestInv, DriveInv
  <1>23. ASSUME NEW u \in Uris, NEW p \in Paths, Create(u, p) PROVE RestInv'
    <2>1. UNCHANGED <<query, answer, wk, owner, cache, shown>>
      BY <1>23 DEF Create
    <2>2. /\ changes \in Nat /\ changes' = changes + 1
          /\ drive' = [drive EXCEPT ![u][p] = changes + 2]
      BY <1>0, <1>23 DEF Create, Change, TypeOK
    <2>3. DrivesInPlace' /\ WorksInPlace'
      BY <1>0, <1>23, <2>1, <2>2 DEF Create, DriveInv, DrivesInPlace, WorksInPlace, TypeOK
    <2>4. \A v \in Uris, x \in Paths : drive'[v][x] =
             IF v = u /\ x = p THEN changes + 2 ELSE drive[v][x]
      BY <1>0, <2>2 DEF TypeOK
    <2>5. /\ \A v \in Uris, x \in Paths : drive[v][x] \in Nat
          /\ \A x \in Paths : shown[x] \in Nat
          /\ Exclusive \subseteq Paths
      BY <1>0 DEF TypeOK, Versions, Exclusive
    <2>6. \A w \in Workers : wk[w].pc \in Parsed =>
             wk[w].config.version \in Nat /\ wk[w].path \in Paths
      BY <1>0, WorkerTyped DEF DriveInv, WorksInPlace, Filling, Parsed, Configs, Versions
    <2>7. Numbered'
      BY <1>0, <2>1, <2>2, <2>4, <2>5, <2>6 DEF DriveInv, Numbered
    <2>8. CacheShown'
      BY <1>0, <2>1, <2>2, <2>4, <2>5 DEF DriveInv, CacheShown, Numbered
    <2>9. FillsHole'
      BY <1>0, <2>1, <2>2, <2>4, <2>5, <2>6 DEF DriveInv, FillsHole, Numbered
    <2>10. NobodyLeft' /\ OnlyHoldersOwn'
      BY <1>0, <2>1 DEF NobodyLeft, OnlyHoldersOwn
    <2>11. QED
      BY <2>3, <2>7, <2>8, <2>9, <2>10 DEF RestInv, DriveInv
  <1>24. ASSUME NEW q \in Requests, NEW k \in Queries,
                ListVms(q, k) \/ ListVolumes(q, k) \/ ListNetworks(q, k) \/ GetVm(q, k)
         PROVE RestInv'
    BY <1>1, <1>24 DEF ListVms, ListVolumes, ListNetworks, GetVm
  <1>25. QED
    BY <1>2, <1>3, <1>4, <1>5, <1>6, <1>7, <1>8, <1>9, <1>10, <1>11, <1>12,
       <1>13, <1>14, <1>15, <1>16, <1>17, <1>18, <1>19, <1>20, <1>21, <1>22, <1>23,
       <1>24
       DEF Next, Step, Locks, PanicInList, MapRace

-----------------------------------------------------------------------------
(***************************************************************************)
(* Invariance.                                                             *)
(***************************************************************************)

LEMMA InitIInv == Init => IInv
  <1> SUFFICES ASSUME Init PROVE IInv
    OBVIOUS
  <1>1. wk \in [Workers -> WorkerStates]
    BY OffTyped DEF Init
  <1>2. 1 \in Versions /\ 0 \in 0 .. MaxChanges
    BY DEF Versions
  <1>3. drive \in [Uris -> [Paths -> {0} \cup Versions]]
    BY <1>2 DEF Init
  <1>4. /\ query \in [Requests -> Queries \cup {NONE}]
        /\ answer \in [Requests -> (SUBSET Rows) \cup {NONE}]
        /\ result \in [Requests -> SUBSET Rows]
    BY DEF Init
  <1>5. TypeOK
    BY <1>1, <1>2, <1>3, <1>4 DEF Init, TypeOK
  <1>6. \A w \in Workers : wk[w].pc = "off" /\ w[1] \in Requests
    BY DEF Init, Off, Workers
  <1>7. NobodyLeft
    BY <1>6 DEF Init, NobodyLeft
  <1>8. OnlyHoldersOwn
    BY <1>6 DEF Init, OnlyHoldersOwn, HolderPcs, Workers
  <1>9. DrivesInPlace /\ WorksInPlace /\ FillsHole
    BY <1>6 DEF Init, DrivesInPlace, WorksInPlace, FillsHole, Filling, Parsed
  <1>10. Numbered /\ CacheShown
    BY <1>6 DEF Init, Numbered, CacheShown, Parsed, Exclusive
  <1>11. QED
    BY <1>5, <1>7, <1>8, <1>9, <1>10 DEF IInv

LEMMA NextIInv == IInv /\ [Next]_vars => IInv'
  BY NextType, NextRest DEF IInv, RestInv, DriveInv

LEMMA Invariance == Spec => []IInv
  BY InitIInv, NextIInv, PTL DEF Spec

-----------------------------------------------------------------------------
(***************************************************************************)
(* A second invariant, of the rows: nothing gets lost between the listing  *)
(* of a hypervisor and the answer.                                         *)
(***************************************************************************)

\* What a goroutine at node n collects: its rows are of the node, what it listed
\* and has no row for is still to be converted.
Collecting(s, n) ==
    /\ \A r \in s.rows : r.node = n
    /\ s.pc \in {"off", "acquire", "list"} => s.rows = {} /\ s.seen = {}
    /\ s.pc \in Filling \cup {"convert"} => s.seen = s.todo \cup {r.path : r \in s.rows}
    /\ s.pc \in Filling => s.path \in s.todo
    /\ s.pc \in {"release", "lockresult", "append"} => s.seen = {r.path : r \in s.rows}

\* Who is between reading and assigning the slice has its mutex and the slice
\* as it still is.
Appending ==
    \A w \in Workers : /\ wk[w].pc = "append" <=> resultMu[w[1]] = w
                       /\ wk[w].pc = "append" => wk[w].copy = result[w[1]]

\* The slice shows x of node n.
Has(R, n, x) == \E r \in R : r.node = n /\ r.path = x

\* The slice has what the goroutines that finished have seen.
Appended ==
    \A w \in Workers, x \in Names :
       Has(result[w[1]], w[2], x) <=> (wk[w].pc = "finished" /\ x \in wk[w].seen)

\* Get has one goroutine: its own.
GetAlone ==
    \A v, w \in Workers :
       (v[1] = w[1] /\ query[v[1]] # NONE /\ Kind(v) = "get"
          /\ wk[v].pc # "off" /\ wk[w].pc # "off") => v = w

\* What a request returned is the slice.
Returned == \A q \in Requests : answer[q] # NONE => answer[q] = result[q]

RowsInv == /\ \A w \in Workers : Collecting(wk[w], w[2])
           /\ Appending
           /\ Appended
           /\ GetAlone
           /\ Returned

\* One goroutine collects, and neither finishes nor appends.
LEMMA CollectStep ==
  ASSUME IInv, RowsInv, NEW w \in Workers, Alone(w), UNCHANGED <<result, resultMu>>,
         wk[w].pc # "append", wk'[w].pc \notin {"off", "append"},
         wk'[w].pc = "finished" => wk'[w].seen = {},
         Collecting(wk'[w], w[2])
  PROVE RowsInv'
  <1>1. \A v \in Workers : Collecting(wk'[v], v[2])
    BY DEF RowsInv, Alone
  <1>2. wk[w].pc \notin {"off", "finished"} /\ UNCHANGED <<query, answer>>
    BY DEF Alone
  <1>3. \A v \in Workers \ {w} : wk'[v] = wk[v]
    BY DEF Alone
  <1>4. Appending'
    BY <1>3 DEF RowsInv, Appending
  <1>5. Appended'
    BY <1>2, <1>3 DEF RowsInv, Appended
  <1>6. GetAlone'
    BY <1>2, <1>3 DEF RowsInv, GetAlone, Kind
  <1>7. Returned'
    BY <1>2 DEF RowsInv, Returned
  <1>8. QED
    BY <1>1, <1>4, <1>5, <1>6, <1>7 DEF RowsInv

LEMMA OneMorePath ==
  ASSUME NEW R, NEW row
  PROVE {r.path : r \in R \cup {row}} = {r.path : r \in R} \cup {row.path}
  <1>1. ASSUME NEW x \in {r.path : r \in R \cup {row}}
        PROVE x \in {r.path : r \in R} \cup {row.path}
    BY <1>1, Zenon
  <1>2. ASSUME NEW x \in {r.path : r \in R} \cup {row.path}
        PROVE x \in {r.path : r \in R \cup {row}}
    BY <1>2, Zenon
  <1>3. QED
    BY <1>1, <1>2

\* What a conversion adds to what was collected.
LEMMA ConvertedRows ==
  ASSUME TypeOK, NEW w \in Workers, NEW p \in wk[w].todo, NEW c, Converted(w, p, c),
         Collecting(wk[w], w[2]), wk[w].pc \in Filling \cup {"convert"}
  PROVE /\ wk'[w].pc = "convert"
        /\ \A v \in Workers \ {w} : wk'[v] = wk[v]
        /\ Collecting(wk'[w], w[2])
  <1>1. /\ wk'[w].pc = "convert" /\ wk'[w].todo = wk[w].todo \ {p}
        /\ wk'[w].seen = wk[w].seen /\ wk'[w].rows = wk[w].rows \cup {Row(w, p, c)}
        /\ \A v \in Workers \ {w} : wk'[v] = wk[v]
    BY DEF Converted, TypeOK, WorkerStates
  <1>2. Row(w, p, c).path = p /\ Row(w, p, c).node = w[2]
    BY DEF Row
  <1>3. {r.path : r \in wk[w].rows \cup {Row(w, p, c)}} = {r.path : r \in wk[w].rows} \cup {p}
    <2> DEFINE row == Row(w, p, c)
               R == wk[w].rows
    <2>1. row.path = p
      BY <1>2
    <2> HIDE DEF row, R
    <2>2. {r.path : r \in R \cup {row}} = {r.path : r \in R} \cup {row.path}
      BY OneMorePath
    <2>3. {r.path : r \in R \cup {row}} = {r.path : r \in R} \cup {p}
      BY <2>1, <2>2
    <2>4. QED
      BY <2>3 DEF row, R
  <1>4. wk'[w].seen = wk'[w].todo \cup {r.path : r \in wk'[w].rows}
    <2>1. {r.path : r \in wk'[w].rows} = {r.path : r \in wk[w].rows} \cup {p}
      BY <1>1, <1>3, Zenon
    <2>2. wk[w].seen = wk[w].todo \cup {r.path : r \in wk[w].rows}
      BY DEF Collecting
    <2> DEFINE A == {r.path : r \in wk[w].rows}
               B == {r.path : r \in wk'[w].rows}
    <2> SUFFICES wk'[w].seen = wk'[w].todo \cup B
      OBVIOUS
    <2>3. B = A \cup {p} /\ wk[w].seen = wk[w].todo \cup A
      BY <2>1, <2>2
    <2> HIDE DEF A, B
    <2>4. QED
      BY <1>1, <2>3
  <1>5. \A r \in wk'[w].rows : r.node = w[2]
    BY <1>1, <1>2 DEF Collecting
  <1>6. QED
    BY <1>1, <1>4, <1>5 DEF Collecting, Filling

LEMMA NextRows == IInv /\ RowsInv /\ [Next]_vars => RowsInv'
  <1> SUFFICES ASSUME IInv, RowsInv, [Next]_vars PROVE RowsInv'
    OBVIOUS
  <1>0. /\ TypeOK /\ NobodyLeft
        /\ \A w \in Workers : Collecting(wk[w], w[2])
        /\ Appending /\ Appended /\ GetAlone /\ Returned
    BY DEF IInv, RowsInv
  <1>1. ASSUME NEW q \in Requests, NEW k \in Queries, NEW todo \in SUBSET Paths,
               Start(q, k, todo)
        PROVE RowsInv'
    <2> DEFINE s == [Off EXCEPT !.pc = "acquire", !.todo = todo]
    <2>1. query[q] = NONE /\ UNCHANGED <<answer, result, resultMu>>
      BY <1>1 DEF Start
    <2>2. \A v \in Workers :
             /\ v[1] = q => wk[v].pc = "off" /\ wk[v].seen = {}
             /\ \/ wk'[v] = wk[v]
                \/ v[1] = q /\ v[2] \in Selected(k.only) /\ wk'[v] = s
      BY <1>0, <1>1, <2>1 DEF Start, NobodyLeft, Collecting
    <2>3. s.pc = "acquire" /\ s.rows = {} /\ s.seen = {}
      BY DEF Off
    <2>4. Collecting(s, 0) /\ \A n : Collecting(s, n)
      BY <2>3 DEF Collecting, Filling
    <2> HIDE DEF s
    <2>5. \A v \in Workers : Collecting(wk'[v], v[2])
      BY <1>0, <2>2, <2>4
    <2>6. Appending'
      BY <1>0, <2>1, <2>2, <2>3 DEF Appending
    <2>7. Appended'
      BY <1>0, <2>1, <2>2, <2>3 DEF Appended
    <2>8. GetAlone'
      <3> SUFFICES ASSUME NEW v \in Workers, NEW w \in Workers,
                          v[1] = w[1], query'[v[1]] # NONE, query'[v[1]].kind = "get",
                          wk'[v].pc # "off", wk'[w].pc # "off"
                   PROVE v = w
        BY DEF GetAlone, Kind
      <3>1. CASE v[1] # q
        BY <1>0, <1>1, <2>2, <3>1 DEF GetAlone, Kind, Start, TypeOK
      <3>2. CASE v[1] = q
        <4>1. query'[q] = k
          BY <1>0, <1>1 DEF Start, TypeOK
        <4>2. k.kind = "get"
          BY <3>2, <4>1
        <4>3. PICK n : k.only = {n}
          BY <4>2
        <4>4. v[2] = n /\ w[2] = n
          BY <2>2, <3>2, <4>3 DEF Selected
        <4>5. QED
          BY <4>4 DEF Workers
      <3>3. QED
        BY <3>1, <3>2
    <2>9. Returned'
      BY <1>0, <2>1 DEF Returned
    <2>10. QED
      BY <2>5, <2>6, <2>7, <2>8, <2>9 DEF RowsInv
  <1>2. ASSUME NEW q \in Requests, Return(q) PROVE RowsInv'
    <2>1. UNCHANGED <<query, wk, result, resultMu>> /\ answer' = [answer EXCEPT ![q] = result[q]]
      BY <1>2 DEF Return
    <2>2. Appending' /\ Appended' /\ GetAlone'
      BY <1>0, <2>1 DEF Appending, Appended, GetAlone, Kind
    <2>3. Returned'
      BY <1>0, <2>1 DEF Returned, TypeOK
    <2>4. QED
      BY <1>0, <2>1, <2>2, <2>3 DEF RowsInv
  <1>3. ASSUME NEW q \in Requests, EndRequest(q) PROVE RowsInv'
    <2>1. \A v \in Workers :
             /\ v[1] = q => wk'[v] = Off /\ wk[v].pc # "append" /\ result'[v[1]] = {}
             /\ v[1] # q => wk'[v] = wk[v] /\ result'[v[1]] = result[v[1]]
                            /\ query'[v[1]] = query[v[1]]
      BY <1>0, <1>3 DEF EndRequest, NobodyLeft, TypeOK, Workers
    <2>2. Off.pc = "off" /\ Off.rows = {} /\ Off.seen = {}
      BY DEF Off
    <2>3. resultMu' = resultMu
      BY <1>3 DEF EndRequest
    <2>4. \A v \in Workers : Collecting(wk'[v], v[2])
      BY <1>0, <2>1, <2>2 DEF Collecting, Filling
    <2>5. Appending'
      BY <1>0, <2>1, <2>2, <2>3 DEF Appending
    <2>6. Appended'
      BY <1>0, <2>1, <2>2 DEF Appended, Has
    <2>7. GetAlone'
      BY <1>0, <2>1, <2>2 DEF GetAlone, Kind
    <2>8. Returned'
      BY <1>0, <1>3 DEF EndRequest, Returned, TypeOK
    <2>9. QED
      BY <2>4, <2>5, <2>6, <2>7, <2>8 DEF RowsInv
  <1>4. ASSUME NEW w \in Workers, Acquire(w) PROVE RowsInv'
    <2>1. /\ wk'[w].pc = "list" /\ wk'[w].seen = wk[w].seen /\ wk'[w].rows = wk[w].rows
          /\ \A v \in Workers \ {w} : wk'[v] = wk[v]
      BY <1>0, <1>4 DEF Acquire, Goto, TypeOK, WorkerStates
    <2>2. Alone(w) /\ Collecting(wk'[w], w[2])
      BY <1>0, <1>4, <2>1 DEF Acquire, At, Alone, Collecting, Filling
    <2>3. QED
      BY <1>4, <2>1, <2>2, CollectStep DEF Acquire, At
  <1>5. ASSUME NEW w \in Workers, AcquireFails(w) PROVE RowsInv'
    <2>1. /\ wk'[w].pc = "finished" /\ wk'[w].seen = {} /\ wk'[w].rows = wk[w].rows
          /\ \A v \in Workers \ {w} : wk'[v] = wk[v]
      BY <1>0, <1>5 DEF AcquireFails, TypeOK, WorkerStates
    <2>2. Alone(w) /\ Collecting(wk'[w], w[2])
      BY <1>0, <1>5, <2>1 DEF AcquireFails, At, Alone, Collecting, Filling
    <2>3. QED
      BY <1>5, <2>1, <2>2, CollectStep DEF AcquireFails, At
  <1>6. ASSUME NEW w \in Workers, NodeFails(w) PROVE RowsInv'
    <2>1. /\ wk'[w].pc = "release" /\ wk'[w].seen = {} /\ wk'[w].rows = {}
          /\ \A v \in Workers \ {w} : wk'[v] = wk[v]
      BY <1>0, <1>6 DEF NodeFails, TypeOK, WorkerStates
    <2>2. Alone(w) /\ Collecting(wk'[w], w[2])
      BY <1>0, <1>6, <2>1 DEF NodeFails, At, Alone, Collecting, Filling
    <2>3. QED
      BY <1>6, <2>1, <2>2, CollectStep DEF NodeFails, At
  <1>7. ASSUME NEW w \in Workers, ListDomains(w) PROVE RowsInv'
    <2>1. /\ wk'[w].pc = "convert" /\ wk'[w].seen = wk'[w].todo /\ wk'[w].rows = wk[w].rows
          /\ \A v \in Workers \ {w} : wk'[v] = wk[v]
      BY <1>0, <1>7 DEF ListDomains, TypeOK, WorkerStates
    <2>2. wk[w].rows = {}
      BY <1>0, <1>7 DEF ListDomains, At, Collecting
    <2>3. Alone(w) /\ Collecting(wk'[w], w[2])
      BY <1>7, <2>1, <2>2 DEF ListDomains, At, Alone, Collecting, Filling
    <2>4. QED
      BY <1>7, <2>1, <2>3, CollectStep DEF ListDomains, At
  <1>8. ASSUME NEW w \in Workers, ListOthers(w) PROVE RowsInv'
    <2>1. PICK S : wk' = [wk EXCEPT ![w].pc = "release", ![w].seen = S,
                            ![w].rows = {[node |-> w[2], path |-> x, config |-> NONE] :
                                            x \in S}]
      BY <1>8 DEF ListOthers
    <2> DEFINE R == {[node |-> w[2], path |-> x, config |-> NONE] : x \in S}
    <2>2. /\ wk'[w].pc = "release" /\ wk'[w].seen = S /\ wk'[w].rows = R
          /\ \A v \in Workers \ {w} : wk'[v] = wk[v]
      BY <1>0, <2>1 DEF TypeOK, WorkerStates
    <2>3. (\A r \in R : r.node = w[2]) /\ S = {r.path : r \in R}
      <3>1. \A r \in R : \E x \in S : r = [node |-> w[2], path |-> x, config |-> NONE]
        OBVIOUS
      <3>2. \A r \in R : r.node = w[2] /\ r.path \in S
        <4> HIDE DEF R
        <4> QED
          BY <3>1
      <3>3. \A x \in S : \E r \in R : r.path = x
        <4>1. ASSUME NEW x \in S PROVE \E r \in R : r.path = x
          <5>1. [node |-> w[2], path |-> x, config |-> NONE] \in R
            OBVIOUS
          <5>2. [node |-> w[2], path |-> x, config |-> NONE].path = x
            OBVIOUS
          <5> HIDE DEF R
          <5>3. QED
            BY <5>1, <5>2
        <4>2. QED
          BY <4>1
      <3> HIDE DEF R
      <3>4. QED
        BY <3>2, <3>3
    <2>4. Alone(w) /\ Collecting(wk'[w], w[2])
      <3> HIDE DEF R
      <3> QED
        BY <1>8, <2>2, <2>3 DEF ListOthers, At, Alone, Collecting, Filling
    <2>5. QED
      BY <1>8, <2>2, <2>4, CollectStep DEF ListOthers, At
  <1>9. ASSUME NEW w \in Workers, NEW p \in Paths, ShowCached(w, p) PROVE RowsInv'
    <2>1. /\ wk'[w].pc = "convert" /\ Collecting(wk'[w], w[2])
          /\ \A v \in Workers \ {w} : wk'[v] = wk[v]
      BY <1>0, <1>9, ConvertedRows DEF ShowCached, At
    <2>2. Alone(w)
      BY <1>9, <2>1 DEF ShowCached, At, Alone
    <2>3. QED
      BY <1>9, <2>1, <2>2, CollectStep DEF ShowCached, At
  <1>10. ASSUME NEW w \in Workers, NEW p \in Paths, Miss(w, p) PROVE RowsInv'
    <2>1. /\ wk'[w].pc = "parse" /\ wk'[w].path = p /\ wk'[w].todo = wk[w].todo
          /\ wk'[w].seen = wk[w].seen /\ wk'[w].rows = wk[w].rows
          /\ \A v \in Workers \ {w} : wk'[v] = wk[v]
      BY <1>0, <1>10 DEF Miss, TypeOK, WorkerStates
    <2>2. Alone(w) /\ Collecting(wk'[w], w[2])
      BY <1>0, <1>10, <2>1 DEF Miss, At, Alone, Collecting, Filling
    <2>3. QED
      BY <1>10, <2>1, <2>2, CollectStep DEF Miss, At
  <1>11. ASSUME NEW w \in Workers, Parse(w) PROVE RowsInv'
    <2>1. /\ wk'[w].pc = "lockcache" /\ wk'[w].path = wk[w].path /\ wk'[w].todo = wk[w].todo
          /\ wk'[w].seen = wk[w].seen /\ wk'[w].rows = wk[w].rows
          /\ \A v \in Workers \ {w} : wk'[v] = wk[v]
      BY <1>0, <1>11 DEF Parse, TypeOK, WorkerStates
    <2>2. Alone(w) /\ Collecting(wk'[w], w[2])
      BY <1>0, <1>11, <2>1 DEF Parse, At, Alone, Collecting, Filling
    <2>3. QED
      BY <1>11, <2>1, <2>2, CollectStep DEF Parse, At
  <1>12. ASSUME NEW w \in Workers, ParseFails(w) PROVE RowsInv'
    <2>1. wk[w].path \in wk[w].todo /\ wk[w].pc = "parse"
      BY <1>0, <1>12 DEF ParseFails, At, Collecting, Filling
    <2>2. /\ wk'[w].pc = "convert" /\ Collecting(wk'[w], w[2])
          /\ \A v \in Workers \ {w} : wk'[v] = wk[v]
      BY <1>0, <1>12, <2>1, ConvertedRows DEF ParseFails, Filling
    <2>3. Alone(w)
      BY <1>12, <2>1, <2>2 DEF ParseFails, Alone
    <2>4. QED
      BY <1>12, <2>1, <2>2, <2>3, CollectStep DEF ParseFails
  <1>13. ASSUME NEW w \in Workers, LockCache(w) PROVE RowsInv'
    <2>1. /\ wk'[w].pc = "store" /\ wk'[w].path = wk[w].path /\ wk'[w].todo = wk[w].todo
          /\ wk'[w].seen = wk[w].seen /\ wk'[w].rows = wk[w].rows
          /\ \A v \in Workers \ {w} : wk'[v] = wk[v]
      BY <1>0, <1>13 DEF LockCache, Goto, TypeOK, WorkerStates
    <2>2. Alone(w) /\ Collecting(wk'[w], w[2])
      BY <1>0, <1>13, <2>1 DEF LockCache, At, Alone, Collecting, Filling
    <2>3. QED
      BY <1>13, <2>1, <2>2, CollectStep DEF LockCache, At
  <1>14. ASSUME NEW w \in Workers, Store(w) PROVE RowsInv'
    <2>1. wk[w].path \in wk[w].todo /\ wk[w].pc = "store"
      BY <1>0, <1>14 DEF Store, At, Collecting, Filling
    <2>2. /\ wk'[w].pc = "convert" /\ Collecting(wk'[w], w[2])
          /\ \A v \in Workers \ {w} : wk'[v] = wk[v]
      BY <1>0, <1>14, <2>1, ConvertedRows DEF Store, Filling
    <2>3. Alone(w)
      BY <1>14, <2>1, <2>2 DEF Store, Alone
    <2>4. QED
      BY <1>14, <2>1, <2>2, <2>3, CollectStep DEF Store
  <1>15. ASSUME NEW w \in Workers, Listed(w) PROVE RowsInv'
    <2>1. /\ wk'[w].pc = "release"
          /\ wk'[w].seen = wk[w].seen /\ wk'[w].rows = wk[w].rows
          /\ \A v \in Workers \ {w} : wk'[v] = wk[v]
      BY <1>0, <1>15 DEF Listed, Goto, TypeOK, WorkerStates
    <2>2. Alone(w) /\ Collecting(wk'[w], w[2])
      BY <1>0, <1>15, <2>1 DEF Listed, At, Alone, Collecting, Filling
    <2>3. QED
      BY <1>15, <2>1, <2>2, CollectStep DEF Listed, At
  <1>16. ASSUME NEW w \in Workers, Release(w) PROVE RowsInv'
    <2>0. /\ wk[w].pc = "release" /\ w[1] \in Requests
          /\ \A r \in wk[w].rows : r.node = w[2]
          /\ wk[w].seen = {r.path : r \in wk[w].rows}
      BY <1>0, <1>16, WorkerTyped DEF Release, At, Collecting
    <2>1. CASE Kind(w) # "get"
      <3>1. PICK l \in {"finished", "lockresult"} :
               /\ wk' = [wk EXCEPT ![w].pc = l]
               /\ l = "finished" => wk[w].seen = {}
        BY <1>16, <2>1 DEF Release, Goto
      <3>2. /\ wk'[w].pc = l /\ wk'[w].seen = wk[w].seen /\ wk'[w].rows = wk[w].rows
            /\ \A v \in Workers \ {w} : wk'[v] = wk[v]
        BY <1>0, <3>1 DEF TypeOK, WorkerStates
      <3>3. Alone(w) /\ Collecting(wk'[w], w[2])
        BY <1>16, <2>0, <3>2 DEF Release, Alone, Collecting, Filling
      <3>4. QED
        BY <1>16, <2>0, <2>1, <3>1, <3>2, <3>3, CollectStep DEF Release
    <2>2. CASE Kind(w) = "get"
      <3>1. /\ wk'[w].pc = "finished" /\ wk'[w].seen = wk[w].seen /\ wk'[w].rows = wk[w].rows
            /\ \A v \in Workers \ {w} : wk'[v] = wk[v]
        BY <1>0, <1>16, <2>2 DEF Release, Goto, TypeOK, WorkerStates
      <3>2. /\ result'[w[1]] = wk[w].rows
            /\ \A q \in Requests \ {w[1]} : result'[q] = result[q]
            /\ UNCHANGED <<query, answer, resultMu>>
        BY <1>0, <1>16, <2>0, <2>2 DEF Release, TypeOK
      <3>3. \A v \in Workers : v[1] = w[1] /\ v # w => wk[v].pc = "off" /\ v[2] # w[2]
        <4>1. query[w[1]] # NONE
          BY <1>0, <2>0 DEF NobodyLeft
        <4>2. QED
          BY <1>0, <2>0, <2>2, <4>1 DEF GetAlone, Kind, Workers
      <3>4. \A v \in Workers : Collecting(wk'[v], v[2])
        BY <1>0, <2>0, <3>1 DEF Collecting, Filling
      <3>5. Appending'
        BY <1>0, <2>0, <3>1, <3>2, <3>3 DEF Appending, Workers
      <3>6. Appended'
        <4> SUFFICES ASSUME NEW v \in Workers, NEW x \in Names
                     PROVE Has(result'[v[1]], v[2], x) <=>
                              (wk'[v].pc = "finished" /\ x \in wk'[v].seen)
          BY DEF Appended
        <4>1. CASE v = w
          BY <2>0, <3>1, <3>2, <4>1 DEF Has
        <4>2. CASE v # w /\ v[1] = w[1]
          BY <2>0, <3>1, <3>2, <3>3, <4>2 DEF Has
        <4>3. CASE v[1] # w[1]
          BY <1>0, <3>1, <3>2, <4>3 DEF Appended, Workers
        <4>4. QED
          BY <4>1, <4>2, <4>3
      <3>7. GetAlone'
        BY <1>0, <2>0, <3>1, <3>2 DEF GetAlone, Kind
      <3>8. Returned'
        BY <1>0, <2>0, <3>2 DEF Returned, NobodyLeft
      <3>9. QED
        BY <3>4, <3>5, <3>6, <3>7, <3>8 DEF RowsInv
    <2>3. QED
      BY <2>1, <2>2
  <1>17. ASSUME NEW w \in Workers, LockResult(w) PROVE RowsInv'
    <2>1. /\ wk[w].pc = "lockresult" /\ resultMu[w[1]] = NONE
          /\ UNCHANGED <<query, answer, result>>
          /\ resultMu' = [resultMu EXCEPT ![w[1]] = w]
      BY <1>17 DEF LockResult, At
    <2>2. /\ wk'[w].pc = "append" /\ wk'[w].copy = result[w[1]]
          /\ wk'[w].seen = wk[w].seen /\ wk'[w].rows = wk[w].rows
          /\ \A v \in Workers \ {w} : wk'[v] = wk[v]
      BY <1>0, <1>17 DEF LockResult, TypeOK, WorkerStates
    <2>3. \A v \in Workers : Collecting(wk'[v], v[2])
      BY <1>0, <2>1, <2>2 DEF Collecting, Filling
    <2>4. Appending'
      <3>1. \A v \in Workers : v[1] \in Requests /\ v # NONE
        BY DEF Workers
      <3>2. \A v \in Workers : resultMu'[v[1]] = IF v[1] = w[1] THEN w ELSE resultMu[v[1]]
        BY <1>0, <2>1, <3>1 DEF TypeOK
      <3>3. QED
        BY <1>0, <2>1, <2>2, <3>1, <3>2 DEF Appending
    <2>5. Appended'
      BY <1>0, <2>1, <2>2 DEF Appended
    <2>6. GetAlone'
      BY <1>0, <2>1, <2>2 DEF GetAlone, Kind
    <2>7. Returned'
      BY <1>0, <2>1 DEF Returned
    <2>8. QED
      BY <2>3, <2>4, <2>5, <2>6, <2>7 DEF RowsInv
  <1>18. ASSUME NEW w \in Workers, Append(w) PROVE RowsInv'
    <2>0. /\ wk[w].pc = "append" /\ w[1] \in Requests
          /\ \A r \in wk[w].rows : r.node = w[2]
          /\ wk[w].seen = {r.path : r \in wk[w].rows}
          /\ wk[w].copy = result[w[1]] /\ resultMu[w[1]] = w
      BY <1>0, <1>18, WorkerTyped DEF Append, At, Collecting, Appending
    <2>1. /\ wk'[w].pc = "finished" /\ wk'[w].seen = wk[w].seen /\ wk'[w].rows = {}
          /\ \A v \in Workers \ {w} : wk'[v] = wk[v]
      BY <1>0, <1>18 DEF Append, TypeOK, WorkerStates
    <2>2. /\ result'[w[1]] = result[w[1]] \cup wk[w].rows
          /\ \A q \in Requests \ {w[1]} : result'[q] = result[q]
          /\ resultMu'[w[1]] = NONE
          /\ \A q \in Requests \ {w[1]} : resultMu'[q] = resultMu[q]
          /\ UNCHANGED <<query, answer>>
      BY <1>0, <1>18, <2>0 DEF Append, TypeOK
    <2>3. \A v \in Workers : Collecting(wk'[v], v[2])
      BY <1>0, <2>1 DEF Collecting, Filling
    <2>4. Appending'
      <3>1. \A v \in Workers : v[1] \in Requests /\ v # NONE
        BY DEF Workers
      <3>2. QED
        BY <1>0, <2>0, <2>1, <2>2, <3>1 DEF Appending
    <2>5. Appended'
      <3> SUFFICES ASSUME NEW v \in Workers, NEW x \in Names
                   PROVE Has(result'[v[1]], v[2], x) <=>
                            (wk'[v].pc = "finished" /\ x \in wk'[v].seen)
        BY DEF Appended
      <3>1. Has(result[v[1]], v[2], x) <=> (wk[v].pc = "finished" /\ x \in wk[v].seen)
        BY <1>0 DEF Appended
      <3>2. CASE v = w
        <4>1. ~ Has(result[w[1]], w[2], x)
          BY <2>0, <3>1, <3>2
        <4>2. Has(result'[w[1]], w[2], x) <=> x \in wk[w].seen
          BY <2>0, <2>2, <4>1 DEF Has
        <4>3. QED
          BY <2>1, <3>2, <4>2
      <3>3. CASE v # w /\ v[1] = w[1]
        <4>1. v[2] # w[2]
          BY <3>3 DEF Workers
        <4>2. Has(result'[v[1]], v[2], x) <=> Has(result[v[1]], v[2], x)
          BY <2>0, <2>2, <3>3, <4>1 DEF Has
        <4>3. QED
          BY <2>1, <3>1, <3>3, <4>2
      <3>4. CASE v[1] # w[1]
        BY <2>1, <2>2, <3>1, <3>4 DEF Workers
      <3>5. QED
        BY <3>2, <3>3, <3>4
    <2>6. GetAlone'
      BY <1>0, <2>0, <2>1, <2>2 DEF GetAlone, Kind
    <2>7. Returned'
      BY <1>0, <2>0, <2>2 DEF Returned, NobodyLeft
    <2>8. QED
      BY <2>3, <2>4, <2>5, <2>6, <2>7 DEF RowsInv
  <1>19. ASSUME NEW w \in Workers, PanicInGet(w) PROVE RowsInv'
    <2>1. /\ wk'[w].pc = "finished" /\ wk'[w].seen = {} /\ wk'[w].rows = {}
          /\ \A v \in Workers \ {w} : wk'[v] = wk[v]
      BY <1>0, <1>19 DEF PanicInGet, TypeOK, Off
    <2>2. Alone(w) /\ Collecting(wk'[w], w[2])
      BY <1>19, <2>1 DEF PanicInGet, Panics, At, Alone, Collecting, Filling
    <2>3. QED
      BY <1>19, <2>1, <2>2, CollectStep DEF PanicInGet, Panics, At
  <1>20. ASSUME Die PROVE RowsInv'
    <2>1. \A w \in Workers : wk'[w].pc = "off" /\ wk'[w].rows = {} /\ wk'[w].seen = {}
      BY <1>20 DEF Die, Off
    <2>2. \A w \in Workers : result'[w[1]] = {} /\ resultMu'[w[1]] = NONE /\ w # NONE
      BY <1>20 DEF Die, Workers
    <2>3. \A w \in Workers : Collecting(wk'[w], w[2])
      BY <2>1 DEF Collecting, Filling
    <2>4. Appending' /\ Appended'
      BY <2>1, <2>2 DEF Appending, Appended, Has
    <2>5. GetAlone'
      BY <2>1 DEF GetAlone
    <2>6. Returned'
      BY <1>20 DEF Die, Returned
    <2>7. QED
      BY <2>3, <2>4, <2>5, <2>6 DEF RowsInv
  <1>21. ASSUME UNCHANGED <<query, answer, result, wk, resultMu>> PROVE RowsInv'
    BY <1>0, <1>21 DEF RowsInv, Appending, Appended, GetAlone, Kind, Returned
  <1>22. ASSUME NEW q \in Requests, NEW k \in Queries,
                ListVms(q, k) \/ ListVolumes(q, k) \/ ListNetworks(q, k) \/ GetVm(q, k)
         PROVE RowsInv'
    BY <1>1, <1>22 DEF ListVms, ListVolumes, ListNetworks, GetVm
  <1>23. CASE UNCHANGED vars \/ Restart \/ \E u \in Uris, p \in Paths : Remove(u, p) \/ Create(u, p)
    BY <1>21, <1>23 DEF vars, Restart, Remove, Create
  <1>24. QED
    BY <1>2, <1>3, <1>4, <1>5, <1>6, <1>7, <1>8, <1>9, <1>10, <1>11, <1>12,
       <1>13, <1>14, <1>15, <1>16, <1>17, <1>18, <1>19, <1>20, <1>22, <1>23
       DEF Next, Step, Locks, PanicInList, MapRace

LEMMA RowsInvariance == Spec => [](IInv /\ RowsInv)
  <1>1. Init => RowsInv
    <2> SUFFICES ASSUME Init PROVE RowsInv
      OBVIOUS
    <2>1. \A w \in Workers : wk[w].pc = "off" /\ wk[w].rows = {} /\ wk[w].seen = {}
      BY DEF Init, Off
    <2>2. \A w \in Workers : result[w[1]] = {} /\ resultMu[w[1]] = NONE /\ w # NONE
      BY DEF Init, Workers
    <2>3. QED
      BY <2>1, <2>2
         DEF Init, RowsInv, Collecting, Filling, Appending, Appended, Has, GetAlone, Returned
  <1>2. QED
    BY Invariance, <1>1, NextRows, PTL DEF Spec

-----------------------------------------------------------------------------
(***************************************************************************)
(* The theorems.                                                           *)
(***************************************************************************)

\* Every variable keeps its type (List, Get, domainToVm).
THEOREM TypeCorrect == Spec => []TypeOK
  <1>1. IInv => TypeOK
    BY DEF IInv
  <1>2. QED
    BY Invariance, <1>1, PTL

\* No error and no panic of a goroutine leaves a connection locked, and nobody
\* works on a connection without its lock (List, Get).
THEOREM OnlyHoldersOwnHolds == Spec => []OnlyHoldersOwn
  <1>1. IInv => OnlyHoldersOwn
    BY DEF IInv
  <1>2. QED
    BY Invariance, <1>1, PTL

\* Goroutines of one hypervisor never race for the configdrive cache
\* (domainToVm).
THEOREM RaceNeedsTwoHypervisorsHolds == Spec => []RaceNeedsTwoHypervisors
  <1>1. IInv => RaceNeedsTwoHypervisors
    <2> SUFFICES ASSUME IInv, NEW v \in Workers, NEW w \in Workers, v # w,
                        wk[v].pc = "convert", wk[w].pc = "store", Uri(v) = Uri(w)
                 PROVE FALSE
      BY DEF RaceNeedsTwoHypervisors
    <2>1. Uri(w) \in Uris
      BY WorkerTyped DEF IInv
    <2>2. owner[Uri(w)] = v /\ owner[Uri(w)] = w
      BY <2>1 DEF IInv, OnlyHoldersOwn, HolderPcs
    <2>3. QED
      BY <2>2
  <1>2. QED
    BY Invariance, <1>1, PTL

\* A List that returns has the rows of every node that answered, whatever the
\* goroutines that append to the slice do in between (List, Get).
THEOREM AnswerCompleteHolds == Spec => []AnswerComplete
  <1>1. IInv /\ RowsInv => AnswerComplete
    <2> SUFFICES ASSUME IInv, RowsInv, NEW q \in Requests, answer[q] # NONE
                 PROVE {<<r.node, r.path>> : r \in answer[q]} =
                         UNION {{<<w[2], x>> : x \in wk[w].seen} :
                                  w \in {v \in Workers : v[1] = q}}
      BY DEF AnswerComplete
    <2>1. answer[q] = result[q] /\ result[q] \in SUBSET Rows
      BY DEF IInv, RowsInv, Returned, TypeOK
    <2>2. \A w \in Workers : w[1] = q =>
             /\ wk[w].seen \subseteq Names
             /\ wk[w].pc = "finished" \/ wk[w].seen = {}
      BY WorkerTyped DEF IInv, NobodyLeft, RowsInv, Collecting
    <2>3. ASSUME NEW r \in answer[q]
          PROVE \E w \in Workers : w[1] = q /\ w[2] = r.node /\ r.path \in wk[w].seen
      <3>1. r.node \in Nodes /\ r.path \in Names /\ <<q, r.node>> \in Workers
        BY <2>1 DEF Rows, Workers
      <3>2. Has(result[q], r.node, r.path)
        BY <2>1 DEF Has
      <3>3. r.path \in wk[<<q, r.node>>].seen
        BY <3>1, <3>2 DEF RowsInv, Appended
      <3>4. QED
        BY <3>1, <3>3
    <2>4. ASSUME NEW w \in Workers, w[1] = q, NEW x \in wk[w].seen
          PROVE \E r \in answer[q] : r.node = w[2] /\ r.path = x
      <3>1. x \in Names /\ wk[w].pc = "finished"
        BY <2>2, <2>4
      <3>2. Has(result[q], w[2], x)
        BY <2>4, <3>1 DEF RowsInv, Appended
      <3>3. QED
        BY <2>1, <3>2 DEF Has
    <2>5. QED
      BY <2>3, <2>4
  <1>2. QED
    BY RowsInvariance, <1>1, PTL

\* What the goroutines of List share goes wrong only where nothing is locked
\* (List, Get, domainToVm).
THEOREM SharingSoundHolds == Spec => []SharingSound
  BY AnswerCompleteHolds, OnlyHoldersOwnHolds, RaceNeedsTwoHypervisorsHolds, PTL
     DEF SharingSound

\* Where a path belongs to one hypervisor the pages never go back to an older
\* configuration, although nothing ever invalidates the cache (domainToVm).
THEOREM NeverBackToOlderHolds == Spec => NeverBackToOlder
  <1>1. ASSUME IInv, [Next]_vars, NEW p \in Exclusive
        PROVE shown'[p] >= shown[p]
    <2>1. /\ shown \in [Paths -> Nat] /\ p \in Paths
          /\ \A w \in Workers : wk[w].pc \in Parsed => wk[w].config.version \in Nat
      <3>1. TypeOK /\ WorksInPlace
        BY <1>1 DEF IInv
      <3>2. QED
        BY <3>1, <1>1 DEF TypeOK, Versions, Exclusive, WorksInPlace, Configs
    <2>2. ASSUME NEW w \in Workers, NEW x \in Paths, ShowCached(w, x)
          PROVE shown'[p] = shown[p]
      BY <1>1, <2>1, <2>2 DEF ShowCached, Converted, Shown, IInv, CacheShown
    <2>3. ASSUME NEW w \in Workers, Store(w)
          PROVE shown'[p] >= shown[p]
      <3>1. \/ shown' = shown
            \/ shown' = [shown EXCEPT ![wk[w].path] = wk[w].config.version]
        BY <2>3 DEF Store, Converted, Shown
      <3>2. p = wk[w].path => shown[p] <= wk[w].config.version
        BY <1>1, <2>3 DEF Store, At, IInv, FillsHole, Parsed
      <3>3. wk[w].config.version \in Nat
        BY <2>1, <2>3 DEF Store, At, Parsed
      <3>4. QED
        BY <2>1, <3>1, <3>2, <3>3
    <2>4. ASSUME shown' = shown PROVE shown'[p] >= shown[p]
      BY <2>1, <2>4
    <2>5. ASSUME NEW w \in Workers, Step(w) \/ Locks(w) PROVE shown'[p] >= shown[p]
      <3>1. \/ \E x \in Paths : ShowCached(w, x)
            \/ Store(w)
            \/ shown' = shown
        BY <2>5 DEF Step, Locks, AcquireFails, NodeFails, ListDomains, ListOthers, Miss,
                    Parse, ParseFails, Converted, Shown, Listed, Release, Append,
                    PanicInGet, Acquire, LockCache, LockResult
      <3>2. QED
        BY <2>1, <2>2, <2>3, <2>4, <3>1
    <2>6. QED
      BY <1>1, <2>4, <2>5
         DEF Next, vars, ListVms, ListVolumes, ListNetworks, GetVm, Start, Return,
             EndRequest, PanicInList, MapRace, Die, Restart, Remove, Create
  <1>2. IInv /\ [Next]_vars => [\A p \in Exclusive : shown'[p] >= shown[p]]_vars
    BY <1>1
  <1>3. QED
    BY Invariance, <1>2, PTL DEF Spec, NeverBackToOlder
=============================================================================
