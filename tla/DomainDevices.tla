--------------------------- MODULE DomainDevices ---------------------------
(***************************************************************************)
(* How vmango edits the disks and network interfaces of one libvirt        *)
(* domain: every operation of libvirt/virtual_machine_repository.go locks  *)
(* the hypervisor's connection (ConnectionPool.tla), reads the persistent  *)
(* XML, changes it in memory and defines the domain with the result.       *)
(* Interfaces are <interface> elements, or pairs of -netdev and -device    *)
(* arguments of QEMU; DetachInterface tries the first, gives the           *)
(* connection back, and tries the second.  Operators edit the same domain  *)
(* with their own tools, which do not take vmango's lock.                  *)
(***************************************************************************)
EXTENDS Integers, Sequences, FiniteSets, SequencesExt, FiniteSetsExt, Subsequences

CONSTANTS
    Requests,       \* HTTP requests
    Paths,          \* volume paths
    Buses,          \* device buses
    Macs,           \* MAC addresses, typed or generated
    NoMac,          \* the MAC a page shows for a NIC that names none
    LastLetter,     \* libvirt knows target names up to this letter of a bus
    MaxOps,         \* bound: requests and edits
    NONE

ASSUME LetterAssumption == LastLetter \in Nat \ {0}
ASSUME MacAssumption == NoMac \notin Macs
ASSUME OpsAssumption == MaxOps \in Nat
ASSUME NoneAssumption == NONE \notin Requests /\ NONE # "done"

VARIABLES
    config,     \* the persistent configuration libvirt keeps
    running,
    owner,      \* the request that holds the connection
    jobs,       \* what each request is doing
    ops,        \* how many of MaxOps there were
    acked,      \* history: attachments reported as done and not detached since
    mishaps     \* history: what may cost somebody a device, see Mishaps

vars == <<config, running, owner, jobs, ops, acked, mishaps>>

-----------------------------------------------------------------------------
(* The configuration and what pages show of it                             *)

\* Target letters are numbers, a = 1.
Disks == [path : Paths, bus : Buses, letter : 1 .. LastLetter]

\* The netdev id "vmngmcos<n>" is the number n; NoId stands for an argument
\* that has no such parameter, ForeignId for an id vmango did not choose.
NoId == 0
ForeignId == -1

Args == [opt : {"-netdev", "-device"}, id : Int, mac : Macs \cup {NoMac}]

Netdev(n) == [opt |-> "-netdev", id |-> n, mac |-> NoMac]
Device(n, m) == [opt |-> "-device", id |-> n, mac |-> m]

\* A QEMU argument an operator added for a device that is no NIC.
OperatorDevice == Device(NoId, NoMac)

\* A NIC an operator added without naming a MAC.
OperatorNic == <<Netdev(ForeignId), Device(ForeignId, NoMac)>>

ShownPaths(c) == {d.path : d \in ToSet(c.disks)}

\* Ids that some -netdev or -device names; the arguments of one id are merged,
\* the last one deciding.
NicIds(args) == {a.id : a \in ToSet(args)} \ {NoId}

LastMac(args, n) ==
    LET devices == {i \in DOMAIN args : args[i].opt = "-device" /\ args[i].id = n}
    IN  IF devices = {} THEN NoMac ELSE args[Max(devices)].mac

ShownMacs(c) == ToSet(c.ifaces) \cup {LastMac(c.args, n) : n \in NicIds(c.args)}

Mishaps == {"overwritten",  \* an edit was made while a request held a copy
            "blind",        \* a detach went on though no device had the MAC
            "nameless"}     \* the MAC to detach was the empty one

Calls == [op : {"attachDisk"}, path : Paths, bus : Buses]
         \cup [op : {"detachDisk"}, path : Paths]
         \cup [op : {"attachNic"}, mac : Macs, net : {"libvirt", "qemu"}]
         \cup [op : {"detachNic"}, mac : Macs \cup {NoMac}]
         \cup [op : {"save"}]

\* failed: an error stopped the request, whatever it answers.
Idle == [pc |-> "idle", call |-> NONE, copy |-> NONE, outcome |-> NONE, failed |-> FALSE]

Outcomes == {"done", "error", "notfound"}

ConfigOK(c) == /\ c.disks \in Seq(Disks)
               /\ c.ifaces \in Seq(Macs)
               /\ c.args \in Seq(Args)

TypeOK == /\ ConfigOK(config)
          /\ running \in BOOLEAN
          /\ owner \in Requests \cup {NONE}
          /\ \A r \in Requests :
               /\ jobs[r].pc \in {"idle", "ask", "define", "askagain", "defineargs", "answer"}
               /\ jobs[r].call \in Calls \cup {NONE}
               /\ jobs[r].copy = NONE \/ ConfigOK(jobs[r].copy)
               /\ jobs[r].outcome \in Outcomes \cup {NONE}
               /\ jobs[r].failed \in BOOLEAN
          /\ ops \in 0 .. MaxOps
          /\ acked \subseteq Paths \cup Macs
          /\ mishaps \subseteq Mishaps

\* A stopped domain with a disk and an operator's device.
Init == /\ \E p \in Paths, b \in Buses :
             config = [disks |-> <<[path |-> p, bus |-> b, letter |-> 1]>>,
                       ifaces |-> <<>>,
                       args |-> <<OperatorDevice>>]
        /\ running = FALSE
        /\ owner = NONE
        /\ jobs = [r \in Requests |-> Idle]
        /\ ops = 0
        /\ acked = {}
        /\ mishaps = {}

-----------------------------------------------------------------------------
(* DeviceNamer                                                             *)

Letters(disks, b) == {d.letter : d \in {e \in ToSet(disks) : e.bus = b}}

\* NewDeviceNamerFromDisks keeps the letter of the last disk of the bus, Next
\* takes the one after it.
NextLetter(disks, b) ==
    LET onBus == Keep(disks, {d \in ToSet(disks) : d.bus = b})
    IN  IF onBus = <<>> THEN 1 ELSE Last(onBus).letter + 1

-----------------------------------------------------------------------------
(* Requests                                                                *)

Begin(r, c) == /\ jobs[r] = Idle
               /\ jobs' = [jobs EXCEPT ![r].pc = "ask", ![r].call = c]
               /\ acked' = acked \ (IF c.op = "detachDisk" THEN {c.path}
                                    ELSE IF c.op = "detachNic" THEN {c.mac} ELSE {})
               /\ UNCHANGED <<config, running, owner, mishaps>>

Call(r) == jobs[r].call

Detaches(r, x) == \/ Call(r).op = "detachDisk" /\ Call(r).path = x
                  \/ Call(r).op = "detachNic" /\ Call(r).mac = x

\* Mutant: the connection is given back between the copy and the definition.
ReadAndRelease(r, from, to) ==
    /\ jobs[r].pc = from
    /\ owner = NONE
    /\ running => Call(r).op = "save"
    /\ jobs' = [jobs EXCEPT ![r].pc = to, ![r].copy = config]
    /\ UNCHANGED <<config, running, owner, acked, mishaps>>

\* Acquire, the lookup, the check that the domain is stopped (Save does not
\* make it), and the copy of the XML.
Read(r, from, to) ==
    /\ jobs[r].pc = from
    /\ owner = NONE
    /\ running => Call(r).op = "save"
    /\ owner' = r
    /\ jobs' = [jobs EXCEPT ![r].pc = to, ![r].copy = config]
    /\ UNCHANGED <<config, running, acked, mishaps>>

ReadConfig(r) == Read(r, "ask", "define")
ReadForArgs(r) == Read(r, "askagain", "defineargs")

\* The request is over; everything it held is given back.
Answer(r, outcome) ==
    jobs' = [jobs EXCEPT ![r].pc = "answer", ![r].copy = NONE, ![r].outcome = outcome]

\* DetachInterface drops an error of its first half other than "not found"
\* and returns nil, as if it were done.
ErrorOf(r) == IF Call(r).op = "detachNic" /\ jobs[r].pc \in {"ask", "define"}
              THEN "done" ELSE "error"

Fails(r) == jobs' = [jobs EXCEPT ![r].pc = "answer", ![r].copy = NONE,
                                 ![r].outcome = ErrorOf(r), ![r].failed = TRUE]

\* No connection, no domain, a running domain, or no XML.
ReadFails(r) == /\ jobs[r].pc \in {"ask", "askagain"}
                /\ Fails(r)
                /\ UNCHANGED <<config, running, owner, acked, mishaps>>

Holds(r, op) == jobs[r].pc = "define" /\ Call(r).op = op

\* libvirt refuses the XML, or the call fails.
DefineFails(r) == /\ jobs[r].pc \in {"define", "defineargs"}
                  /\ owner' = NONE
                  /\ Fails(r)
                  /\ UNCHANGED <<config, running, acked, mishaps>>

\* libvirt takes the XML.  It keeps the disks of a bus ordered by their
\* letter, which they are already: vmango appends the highest one.
Define(r, c) == /\ config' = c
                /\ owner' = NONE
                /\ Answer(r, "done")
                /\ UNCHANGED running

\* An attachment counts as acknowledged unless a detach of it is under way.
Acked(x) == IF \E q \in Requests : jobs[q].pc \notin {"idle", "answer"} /\ Detaches(q, x)
              THEN acked ELSE acked \cup {x}

NewDisk(r) == [path |-> Call(r).path, bus |-> Call(r).bus,
               letter |-> NextLetter(jobs[r].copy.disks, Call(r).bus)]

\* libvirt refuses a target name that it does not know or that is taken.
AttachVolume(r) ==
    /\ Holds(r, "attachDisk")
    /\ NewDisk(r).letter <= LastLetter
    /\ NewDisk(r).letter \notin Letters(jobs[r].copy.disks, Call(r).bus)
    /\ Define(r, [jobs[r].copy EXCEPT !.disks = Append(@, NewDisk(r))])
    /\ acked' = Acked(Call(r).path)
    /\ UNCHANGED mishaps

DetachVolume(r) ==
    /\ Holds(r, "detachDisk")
    /\ Call(r).path \in ShownPaths(jobs[r].copy)
    /\ Define(r, [jobs[r].copy EXCEPT
                    !.disks = Keep(@, {d \in ToSet(@) : d.path # Call(r).path})])
    /\ UNCHANGED <<acked, mishaps>>

\* An operation that finds nothing to remove gives the connection back.
NotFound(r) == /\ owner' = NONE
               /\ Answer(r, "notfound")
               /\ UNCHANGED <<config, running, acked, mishaps>>

DetachNoVolume(r) == /\ Holds(r, "detachDisk")
                     /\ Call(r).path \notin ShownPaths(jobs[r].copy)
                     /\ NotFound(r)

AttachInterface(r) ==
    /\ Holds(r, "attachNic")
    /\ Call(r).net = "libvirt"
    /\ Define(r, [jobs[r].copy EXCEPT !.ifaces = Append(@, Call(r).mac)])
    /\ acked' = Acked(Call(r).mac)
    /\ UNCHANGED mishaps

\* One more than the highest number of vmango's own netdevs.
NextNumber(args) == Max({0} \cup {a.id : a \in {b \in ToSet(args) : b.opt = "-netdev"}}) + 1

\* The networks macos-socket-vmnet and qemu-usernet.
AttachQemuInterface(r) ==
    /\ Holds(r, "attachNic")
    /\ Call(r).net = "qemu"
    /\ LET n == NextNumber(jobs[r].copy.args)
       IN  Define(r, [jobs[r].copy EXCEPT
                        !.args = @ \o <<Netdev(n), Device(n, Call(r).mac)>>])
    /\ acked' = Acked(Call(r).mac)
    /\ UNCHANGED mishaps

DetachInterface(r) ==
    /\ Holds(r, "detachNic")
    /\ Call(r).mac \in ToSet(jobs[r].copy.ifaces)
    /\ Define(r, [jobs[r].copy EXCEPT
                    !.ifaces = Keep(@, Macs \ {Call(r).mac})])
    /\ UNCHANGED <<acked, mishaps>>

\* Mutant: "not found" in the first half ends the detach like any other error.
DropNotFound(r) ==
    /\ Holds(r, "detachNic")
    /\ Call(r).mac \notin ToSet(jobs[r].copy.ifaces)
    /\ owner' = NONE
    /\ Answer(r, "done")
    /\ UNCHANGED <<config, running, acked, mishaps>>

\* No such <interface>: give the connection back, look at the QEMU arguments.
TryQemuArgs(r) ==
    /\ Holds(r, "detachNic")
    /\ Call(r).mac \notin ToSet(jobs[r].copy.ifaces)
    /\ owner' = NONE
    /\ jobs' = [jobs EXCEPT ![r].pc = "askagain", ![r].copy = NONE]
    /\ UNCHANGED <<config, running, acked, mishaps>>

\* -device arguments that contain "=" and the MAC; every one contains "=".
Carriers(args, m) ==
    {i \in DOMAIN args : args[i].opt = "-device" /\ (args[i].mac = m \/ m = NoMac)}

\* The netdev id of the last carrier, the empty one if there is none.
Needle(args, m) ==
    LET found == Carriers(args, m)
    IN  IF found = {} THEN NoId ELSE args[Max(found)].id

\* Arguments of the needle's id go; with no carrier those without an id do.
WithoutNeedle(args, m) == Keep(args, {a \in ToSet(args) : a.id # Needle(args, m)})

DetachQemuInterface(r) ==
    /\ jobs[r].pc = "defineargs"
    /\ LET args == jobs[r].copy.args
           m == Call(r).mac
       IN  /\ WithoutNeedle(args, m) # args
           /\ Define(r, [jobs[r].copy EXCEPT !.args = WithoutNeedle(args, m)])
           /\ mishaps' = mishaps
                         \cup (IF Carriers(args, m) = {} THEN {"blind"} ELSE {})
                         \cup (IF m = NoMac THEN {"nameless"} ELSE {})
    /\ UNCHANGED acked

DetachNoInterface(r) ==
    /\ jobs[r].pc = "defineargs"
    /\ WithoutNeedle(jobs[r].copy.args, Call(r).mac) = jobs[r].copy.args
    /\ NotFound(r)

\* Save of the edit page: the devices are written back as they were read.
Save(r) == /\ Holds(r, "save")
           /\ Define(r, jobs[r].copy)
           /\ UNCHANGED <<acked, mishaps>>

EndRequest(r) == /\ jobs[r].pc = "answer"
                 /\ jobs' = [jobs EXCEPT ![r] = Idle]
                 /\ UNCHANGED <<config, running, owner, acked, mishaps>>

-----------------------------------------------------------------------------
(* Operators                                                               *)

\* virsh edit adds QEMU arguments; what a request copied before is out of date.
Edit(args) ==
    /\ config' = [config EXCEPT !.args = args \o @]
    /\ mishaps' = IF owner = NONE THEN mishaps ELSE mishaps \cup {"overwritten"}
    /\ UNCHANGED <<running, owner, jobs, acked>>

AddDevice == OperatorDevice \notin ToSet(config.args) /\ Edit(<<OperatorDevice>>)
AddNic == ForeignId \notin NicIds(config.args) /\ Edit(OperatorNic)

\* The domain is started, or stops, at any time.
Power == /\ running' = ~running
         /\ UNCHANGED <<config, owner, jobs, acked, mishaps>>

-----------------------------------------------------------------------------

Work(r) == \/ ReadConfig(r) \/ ReadForArgs(r) \/ ReadFails(r) \/ DefineFails(r)
           \/ AttachVolume(r) \/ DetachVolume(r) \/ DetachNoVolume(r)
           \/ AttachInterface(r) \/ AttachQemuInterface(r)
           \/ DetachInterface(r) \/ TryQemuArgs(r)
           \/ DetachQemuInterface(r) \/ DetachNoInterface(r)
           \/ Save(r) \/ EndRequest(r)

Count == ops < MaxOps /\ ops' = ops + 1

Next == \/ \E r \in Requests : \/ \E c \in Calls : Begin(r, c) /\ Count
                               \/ Work(r) /\ UNCHANGED ops
        \/ (AddDevice \/ AddNic) /\ Count
        \/ Power /\ UNCHANGED ops

Spec == Init /\ [][Next]_vars

-----------------------------------------------------------------------------
(* Properties                                                              *)

\* libvirt never refuses a disk because the namer chose a letter that is taken.
NamerNeverCollides ==
    \A r \in Requests : Holds(r, "attachDisk") =>
       NewDisk(r).letter \notin Letters(jobs[r].copy.disks, Call(r).bus)

\* A device whose attachment was reported as done is still there, unless a
\* detach named it: requests do not overwrite each other's changes.  The
\* exception is a detach of a NIC that names no MAC: it takes the last one.
AckedStay ==
    "nameless" \notin mishaps =>
        acked \subseteq ShownPaths(config) \cup ShownMacs(config)

\* Every netdev vmango numbered belongs to exactly one device and the reverse.
NetdevsPaired ==
    \A n \in NicIds(config.args) :
       \A opt \in {"-netdev", "-device"} :
          Cardinality({i \in DOMAIN config.args :
                         config.args[i].opt = opt /\ config.args[i].id = n}) = 1

\* A device that an operator configured by hand disappears only when the edit
\* fell between the copy and the definition of a request, or in a detach of a
\* MAC that no device has (any more) or that is empty.
OperatorDeviceKept ==
    mishaps = {} => OperatorDevice \in ToSet(config.args)

\* The devices of a domain after any sequence of attaches and detaches, each of
\* which works on a copy: names and numbers stay unique, and nothing goes that
\* nobody detached.
DevicesSound == /\ NamerNeverCollides
                /\ AckedStay
                /\ NetdevsPaired
                /\ OperatorDeviceKept

\* The NICs with the MAC m: the ids of QEMU arguments, and NoId for what
\* <interface> elements it has.
Nics(c, m) == {n \in NicIds(c.args) : LastMac(c.args, n) = m}
              \cup (IF m \in ToSet(c.ifaces) THEN {NoId} ELSE {})

\* d has the disks and the NICs of c, but for those with the MAC m.
SameBut(c, d, m) == /\ d.disks = c.disks
                    /\ \A x \in (Macs \cup {NoMac}) \ {m} : Nics(d, x) = Nics(c, x)

LosesNic(c, d, m) == /\ SameBut(c, d, m)
                     /\ \E n \in Nics(c, m) : Nics(d, m) = Nics(c, m) \ {n}

\* What a definition replaces, less what operators edited since it was copied.
Replaced(r) == IF "overwritten" \in mishaps THEN jobs[r].copy ELSE config

AnswersDetach(r) == /\ jobs[r].pc # "answer" /\ jobs'[r].pc = "answer"
                    /\ jobs'[r].outcome = "done"
                    /\ Call(r).op = "detachNic"

\* DetachInterface of a MAC that returns no error has taken one NIC with that
\* MAC, or its <interface> elements, from the domain, and no other disk or NIC,
\* whoever else worked on the domain meanwhile.  There are two exceptions, in
\* both of which it took no NIC at all: its first half failed, for example
\* because the domain ran, and the error was dropped; or its second half found
\* no QEMU arguments with the MAC (an <interface> attached since the first half
\* is not looked at) and took what has no id.  The empty MAC of a NIC that
\* names none is left out: with it the last -device goes.
DetachRemoves ==
    [][\A r \in Requests :
         AnswersDetach(r) /\ Call(r).mac # NoMac =>
            \/ /\ jobs'[r].failed /\ jobs[r].pc \in {"ask", "define"}
               /\ config' = config
            \/ LosesNic(Replaced(r), config', Call(r).mac)
            \/ /\ jobs[r].pc = "defineargs"
               /\ Nics(Replaced(r), Call(r).mac) \subseteq {NoId}
               /\ SameBut(Replaced(r), config', Call(r).mac)
               /\ Nics(config', Call(r).mac) = Nics(Replaced(r), Call(r).mac)]_vars
=============================================================================
