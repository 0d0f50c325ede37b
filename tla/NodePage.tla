------------------------------ MODULE NodePage ------------------------------
(***************************************************************************)
(* The node page: NodeRepository.Get puts together what a sequence of      *)
(* libvirt calls tells of the memory cells, the CPUs and the pinning of    *)
(* the virtual machines of a host, using libvirt's ids as slice indices.   *)
(* It holds the connection meanwhile (ConnectionPool.tla), but the host,   *)
(* its administrator and other tools do not wait for it.                   *)
(***************************************************************************)
EXTENDS Integers, Sequences, FiniteSets, SequencesExt, FiniteSetsExt

CONSTANTS
    Cells,          \* ids of memory cells that a host may have
    CellOf,         \* CellOf[i]: the cell of CPU i
    Sizes,          \* page sizes
    MaxPages,       \* bound: pages of one size in one cell
    Wide,           \* unsigned integers are modulo Wide
    Vms,
    Vcpus,          \* of every VM
    Tunings,        \* the pinnings a VM may have
    MaxChanges,     \* bound: changes of the host
    NONE

Cpus == DOMAIN CellOf

ASSUME CellAssumption == Cells \subseteq Nat /\ Cpus \subseteq Nat /\ CellOf \in [Cpus -> Cells]
ASSUME WideAssumption == Wide \in Nat /\ 100 * MaxPages < Wide
\* NONE: the element is missing.  Without <cputune> nothing is pinned.
ASSUME TuningAssumption ==
    \A t \in Tunings : /\ t.tuned \in BOOLEAN
                       /\ t.emulator \in {NONE} \cup (SUBSET Cpus \ {{}})
                       /\ t.vcpus \in [Vcpus -> {NONE} \cup (SUBSET Cpus \ {{}})]
                       /\ ~t.tuned => t.emulator = NONE /\ t.vcpus = [v \in Vcpus |-> NONE]

VARIABLES
    cells,      \* the host: its cells,
    online,     \* its CPUs,
    pages,      \* pages[c][s] pages of size s in cell c,
    free,       \* how many of them are free,
    tuning,     \* and how the VMs are pinned
    changes,    \* how many of MaxChanges there were
    pc,         \* where Get is
    options,    \* whether pins are wanted, and of the CPUs of which cell
    numas,      \* node.Numas
    cpus,       \* node.Cpus
    todo,       \* VMs whose pins are still to be read
    changed     \* history: what of the host changed since Get began

hostVars == <<cells, online, pages, free, tuning, changes, changed>>
vars == <<hostVars, pc, options, numas, cpus, todo>>

Options == [noPins : BOOLEAN, filter : Cells \cup {NONE}]

Counts == [Sizes -> 0 .. MaxPages]
Descs == {"all", "vcpus", "emulator", "vcpu"}

\* A CPU that the filter hides has cell -1.
CpuRows == [cell : Cells \cup {-1}, pins : SUBSET [vm : Vms, desc : Descs]]

TypeOK == /\ cells \subseteq Cells
          /\ online \subseteq Cpus
          /\ pages \in [Cells -> Counts]
          /\ free \in [Cells -> Counts]
          /\ \A c \in Cells, s \in Sizes : free[c][s] <= pages[c][s]
          /\ tuning \in [Vms -> Tunings]
          /\ changes \in 0 .. MaxChanges
          /\ pc \in {"idle", "caps", "free", "list", "pins", "done", "panicked"}
          /\ options \in Options
          /\ \E n \in 0 .. Cardinality(Cells) :
               numas \in [0 .. n - 1 -> [total : Counts, free : Counts]]
          /\ \E n \in 0 .. Cardinality(Cpus) : cpus \in [0 .. n - 1 -> CpuRows]
          /\ todo \subseteq Vms
          /\ changed \subseteq {"pages", "free", "cpus", "pins"}

Nothing == [i \in 0 .. -1 |-> NONE]

\* Any host that has a cell and a CPU.
Init == /\ cells \in SUBSET Cells \ {{}}
        /\ online \in SUBSET {i \in Cpus : CellOf[i] \in cells} \ {{}}
        /\ pages = [c \in Cells |-> [s \in Sizes |-> IF c \in cells THEN MaxPages ELSE 0]]
        /\ free \in {f \in [Cells -> [Sizes -> {0, MaxPages}]] :
                       \A c \in Cells \ cells, s \in Sizes : f[c][s] = 0}
        /\ tuning \in [Vms -> Tunings]
        /\ changes = 0
        /\ pc = "idle"
        /\ options = [noPins |-> FALSE, filter |-> NONE]
        /\ numas = Nothing
        /\ cpus = Nothing
        /\ todo = {}
        /\ changed = {}

-----------------------------------------------------------------------------
(* NodeRepository.Get                                                      *)

Begin(o) == /\ pc = "idle"
            /\ pc' = "caps"
            /\ options' = o
            /\ changed' = {}
            /\ UNCHANGED <<cells, online, pages, free, tuning, changes, numas, cpus, todo>>

\* Any libvirt call may fail; what was collected is dropped.
CallFails == /\ pc \in {"caps", "free", "list", "pins"}
             /\ pc' = "idle"
             /\ numas' = Nothing
             /\ cpus' = Nothing
             /\ todo' = {}
             /\ UNCHANGED <<hostVars, options>>

\* An index is out of range.
Panic == /\ pc' = "panicked"
         /\ numas' = Nothing
         /\ cpus' = Nothing
         /\ todo' = {}
         /\ UNCHANGED <<hostVars, options>>

\* Mutant: the CPUs are counted in the last cell only.
CpuCountOfLastCell == Cardinality({i \in online : CellOf[i] = Max(cells)})

\* len(nodeCpuMap)
CpuCount == Cardinality(online)

\* A CPU id that the map does not have gives the zero value, cell 0.
CpuRow(i) == [cell |-> IF i \in online THEN CellOf[i] ELSE 0, pins |-> {}]

CellPages(c) == pages[c]

GetCapabilities ==
    /\ pc = "caps"
    /\ \A c \in cells : c < Cardinality(cells)
    /\ numas' = [c \in 0 .. Cardinality(cells) - 1 |->
                   [total |-> CellPages(c), free |-> [s \in Sizes |-> 0]]]
    /\ cpus' = [i \in 0 .. CpuCount - 1 |-> CpuRow(i)]
    /\ pc' = "free"
    /\ UNCHANGED <<hostVars, options, todo>>

PanicOnCell == /\ pc = "caps"
               /\ \E c \in cells : c >= Cardinality(cells)
               /\ Panic

\* libvirt goes through the sizes of one cell, then of the next.
FreeCounts(order) ==
    [k \in 0 .. Cardinality(cells) * Len(order) - 1 |->
        free[k \div Len(order)][order[(k % Len(order)) + 1]]]

PageSize(order, k) == order[(k % Len(order)) + 1]
NumaId(order, k) == k \div Len(order)

\* The sizes are asked for in the order in which a Go map is iterated: any.
GetFreePages(order) ==
    /\ pc = "free"
    /\ LET counts == FreeCounts(order)
           Entries(c, s) == {k \in DOMAIN counts : /\ NumaId(order, k) = c
                                                   /\ PageSize(order, k) = s}
           FreeOf(c, s) == LET found == Entries(c, s)
                           IN  IF found = {} THEN 0 ELSE counts[Max(found)]
       IN  numas' = [c \in DOMAIN numas |->
                       [numas[c] EXCEPT !.free = [s \in Sizes |-> FreeOf(c, s)]]]
    /\ pc' = IF options.noPins THEN "done" ELSE "list"
    /\ UNCHANGED <<hostVars, options, cpus, todo>>

ListDomains == /\ pc = "list"
               /\ todo' = Vms
               /\ pc' = "pins"
               /\ UNCHANGED <<hostVars, options, numas, cpus>>

\* What libvirt writes for a set of CPUs: the ranges of consecutive ones.
CpuSet(S) == {<<a, b>> \in S \X S : /\ a .. b \subseteq S /\ a <= b
                                    /\ a - 1 \notin S /\ b + 1 \notin S}

ParseCpuAffinity(ranges) == UNION {r[1] .. r[2] : r \in ranges}

Affinity(S) == ParseCpuAffinity(CpuSet(S))

PinnedVcpus(d) == {v \in Vcpus : tuning[d].vcpus[v] # NONE}

\* The three cases in which the loop goes on to the next VM: what is not pinned
\* is noted for every CPU, and what is pinned is not looked at.
PinEverywhere(d, desc) ==
    /\ pc = "pins"
    /\ d \in todo
    /\ cpus' = [i \in DOMAIN cpus |-> [cpus[i] EXCEPT !.pins = @ \cup {[vm |-> d, desc |-> desc]}]]
    /\ todo' = todo \ {d}
    /\ UNCHANGED <<hostVars, pc, options, numas>>

PinUntuned(d) == ~tuning[d].tuned /\ PinEverywhere(d, "all")

PinVcpus(d) == tuning[d].tuned /\ PinnedVcpus(d) = {} /\ PinEverywhere(d, "vcpus")

PinEmulator(d) == /\ PinnedVcpus(d) # {}
                  /\ tuning[d].emulator = NONE
                  /\ PinEverywhere(d, "emulator")

Pinned(d) == PinnedVcpus(d) # {} /\ tuning[d].emulator # NONE

VcpuCpus(d) == UNION {Affinity(tuning[d].vcpus[v]) : v \in PinnedVcpus(d)}
EmulatorCpus(d) == Affinity(tuning[d].emulator)

PinEach(d) ==
    /\ pc = "pins"
    /\ d \in todo
    /\ Pinned(d)
    /\ VcpuCpus(d) \cup EmulatorCpus(d) \subseteq DOMAIN cpus
    /\ cpus' = [i \in DOMAIN cpus |->
                  [cpus[i] EXCEPT !.pins = @
                     \cup (IF i \in EmulatorCpus(d) THEN {[vm |-> d, desc |-> "emulator"]} ELSE {})
                     \cup (IF i \in VcpuCpus(d) THEN {[vm |-> d, desc |-> "vcpu"]} ELSE {})]]
    /\ todo' = todo \ {d}
    /\ UNCHANGED <<hostVars, pc, options, numas>>

PanicOnCpu(d) == /\ pc = "pins"
                 /\ d \in todo
                 /\ Pinned(d)
                 /\ ~(VcpuCpus(d) \cup EmulatorCpus(d) \subseteq DOMAIN cpus)
                 /\ Panic

Shows(row) == options.filter = NONE \/ row.cell = options.filter

Filter == /\ pc = "pins"
          /\ todo = {}
          /\ cpus' = [i \in DOMAIN cpus |-> IF Shows(cpus[i]) THEN cpus[i]
                                            ELSE [cell |-> -1, pins |-> {}]]
          /\ pc' = "done"
          /\ UNCHANGED <<hostVars, options, numas, todo>>

\* The page is rendered; net/http recovers a panic.
EndRequest == /\ pc \in {"done", "panicked"}
              /\ pc' = "idle"
              /\ numas' = Nothing
              /\ cpus' = Nothing
              /\ UNCHANGED <<hostVars, options, todo>>

\* Unsigned subtraction.
UsedPages(c, s) == (numas[c].total[s] - numas[c].free[s]) % Wide

UsedPercent(c, s) ==
    IF numas[c].total[s] = 0 THEN 0
    ELSE ((100 * UsedPages(c, s)) % Wide) \div numas[c].total[s]

-----------------------------------------------------------------------------
(* The host                                                                *)

Change(what) == /\ changes < MaxChanges
                /\ changes' = changes + 1
                /\ changed' = changed \cup {what}
                /\ UNCHANGED <<pc, options, numas, cpus, todo>>

\* The administrator changes the number of huge pages.
SetPages(c, s, n, f) == /\ c \in cells
                        /\ f <= n
                        /\ pages' = [pages EXCEPT ![c][s] = n]
                        /\ free' = [free EXCEPT ![c][s] = f]
                        /\ Change("pages")
                        /\ UNCHANGED <<cells, online, tuning>>

\* A VM starts or stops.
UsePages(c, s, f) == /\ f <= pages[c][s]
                     /\ free' = [free EXCEPT ![c][s] = f]
                     /\ Change("free")
                     /\ UNCHANGED <<cells, online, pages, tuning>>

SetOnline(S) == /\ \A i \in S : CellOf[i] \in cells
                /\ S # {}
                /\ online' = S
                /\ Change("cpus")
                /\ UNCHANGED <<cells, pages, free, tuning>>

Retune(d, t) == /\ tuning' = [tuning EXCEPT ![d] = t]
                /\ Change("pins")
                /\ UNCHANGED <<cells, online, pages, free>>

-----------------------------------------------------------------------------

Get == \/ \E o \in Options : Begin(o)
       \/ CallFails
       \/ GetCapabilities \/ PanicOnCell
       \/ \E order \in SetToSeqs(Sizes) : GetFreePages(order)
       \/ ListDomains
       \/ \E d \in Vms : \/ PinUntuned(d) \/ PinVcpus(d) \/ PinEmulator(d)
                         \/ PinEach(d) \/ PanicOnCpu(d)
       \/ Filter
       \/ EndRequest

Host == \/ \E c \in Cells, s \in Sizes, f \in 0 .. MaxPages :
             \/ UsePages(c, s, f)
             \/ \E n \in 0 .. MaxPages : SetPages(c, s, n, f)
        \/ \E S \in SUBSET Cpus : SetOnline(S)
        \/ \E d \in Vms, t \in Tunings : Retune(d, t)

Next == Get \/ Host

Spec == Init /\ [][Next]_vars

-----------------------------------------------------------------------------
(* Properties                                                              *)

\* Each cell shows its own free pages of each size, whatever the order in which
\* the sizes were asked for, and its bar stays between 0 and 100 percent unless
\* the number of pages changed between the calls for the totals and for the
\* free ones.
CellsAreTrue ==
    (pc \in {"list", "pins", "done"} /\ "pages" \notin changed) =>
       \A c \in DOMAIN numas, s \in Sizes :
          /\ "free" \notin changed => numas[c].free[s] = free[c][s]
          /\ UsedPercent(c, s) \in 0 .. 100

NoHoles == /\ online = 0 .. Cardinality(online) - 1
           /\ cells = 0 .. Cardinality(cells) - 1

PinnedCpus(d) ==
    UNION ({tuning[d].vcpus[v] : v \in PinnedVcpus(d)}
           \cup (IF tuning[d].emulator = NONE THEN {} ELSE {tuning[d].emulator}))

\* Get panics only over a host whose ids have holes or whose CPUs come and go,
\* or over a VM pinned to CPUs the host does not have.
PanicExplained ==
    [][pc' = "panicked" /\ pc # "panicked" =>
         \/ ~NoHoles
         \/ "cpus" \in changed
         \/ \E d \in Vms : ~(PinnedCpus(d) \subseteq online)]_vars

MayRun(d, i) ==
    \/ tuning[d].emulator = NONE \/ i \in tuning[d].emulator
    \/ \E v \in Vcpus : tuning[d].vcpus[v] = NONE \/ i \in tuning[d].vcpus[v]

\* The emulator and some, not all, vcpus are pinned: Get forgets the others.
PartlyPinned(d) == Pinned(d) /\ PinnedVcpus(d) # Vcpus

\* On a host without holes that did not change, every CPU is shown with its cell
\* and with exactly the VMs that may run on it; of a partly pinned VM some may
\* be missing.
PinsAreTrue ==
    (pc = "done" /\ ~options.noPins /\ changed = {} /\ NoHoles) =>
       \A i \in online :
          LET shown == {p.vm : p \in cpus[i].pins}
              able == {d \in Vms : MayRun(d, i)}
          IN  IF options.filter \in {NONE, CellOf[i]}
                THEN /\ cpus[i].cell = CellOf[i]
                     /\ shown \subseteq able
                     /\ \A d \in able \ shown : PartlyPinned(d)
                ELSE cpus[i].cell = -1

\* The page of a node that Get could read says what the host is like.
PageIsTrue == CellsAreTrue /\ PinsAreTrue

\* Get shows the page, and panics only where it may (NodeRepository.Get).
PageSound == []PageIsTrue /\ PanicExplained
=============================================================================
