---------------------------- MODULE VmLifecycle ----------------------------
(***************************************************************************)
(* compute/virtual_machine_manager.go and the repository operations it is  *)
(* made of: creating a virtual machine is a dozen calls to one hypervisor, *)
(* deleting it a few more, and nothing spans them.  Each call of a         *)
(* repository holds the connection of the hypervisor from Acquire to       *)
(* Release (ConnectionPool.tla), so one call is one step here; requests    *)
(* interleave between calls, every call may fail, and the process may die  *)
(* between any two.                                                        *)
(***************************************************************************)
EXTENDS Integers, Sequences, SequencesExt, Subsequences

CONSTANTS
    Vms,            \* domain names
    Paths,          \* volume paths of the hypervisor
    Images,         \* volumes that are there from the start
    Protected,      \* volumes whose metadata says protected
    Cd,             \* Cd[v]: path of the configdrive volume, v + CdSuffix
    Requests,       \* goroutines running VirtualMachineManager methods
    CreateForms,    \* what the create form may ask for
    VolumeForms,    \* what the volume pages may create or clone
    Scripts,        \* vm_created subscriptions: TRUE where mandatory
    MaxDisks,       \* bound: disks the detail page attaches to one VM
    MaxOps,         \* bound: requests, crashes and reboots in one behaviour
    NONE

ASSUME PathsAssumption == /\ Images \subseteq Paths
                          /\ Protected \subseteq Paths
                          /\ Cd \in [Vms -> Paths]
                          /\ \A v, w \in Vms : v # w => Cd[v] # Cd[w]
ASSUME FormsAssumption ==
    \A f \in CreateForms : /\ f.vm \in Vms
                           /\ f.start \in BOOLEAN
                           /\ f.attach \in Seq(Paths)
                           /\ f.make \in Seq([from : Paths \cup {NONE}, to : Paths])
ASSUME VolumeFormsAssumption ==
    \A m \in VolumeForms : m.from \in Paths \cup {NONE} /\ m.to \in Paths
ASSUME ScriptsAssumption == Scripts \in Seq(BOOLEAN)
ASSUME NoneAssumption == NONE \notin Requests
ASSUME BoundAssumption == MaxOps \in Nat

VARIABLES
    vols,       \* content of every path: "absent", "blank" or "data"
    defined,    \* domains libvirt knows
    disks,      \* disk sources of a defined domain, in XML order
    active,     \* running domains
    autostart,  \* domains libvirt starts when the host boots
    jobs,       \* the Create or Delete each request is running
    ops,        \* how many requests, crashes and reboots there were
    creator,    \* history: the request whose Create defined the domain
    approved,   \* history: domains whose vm_created scripts are over
    booted,     \* history: domains the host started when it last booted
    outside,    \* history: domains something else than their Create touched
    byPath,     \* history: volumes attached by naming their path
    lost        \* history: volumes deleted while somebody still named them

hypervisor == <<vols, defined, disks, active, autostart>>
noted == <<approved, booted>>
history == <<creator, noted, outside, byPath, lost>>
vars == <<hypervisor, jobs, history, ops>>

NoJob == [pc |-> "idle", form |-> NONE, at |-> 1, volumes |-> <<>>,
          isNew |-> FALSE]

CreatePcs == {"make", "cd", "upload", "attach", "publish", "cleanup", "start"}
DeletePcs == {"get", "undefine", "delvols"}

DeleteForms == [vm : Vms, deleteVolumes : BOOLEAN]

TypeOK ==
    /\ vols \in [Paths -> {"absent", "blank", "data"}]
    /\ defined \subseteq Vms
    /\ disks \in [Vms -> Seq(Paths)]
    /\ active \subseteq defined
    /\ autostart \subseteq defined
    /\ \A r \in Requests :
         /\ jobs[r].pc \in {"idle", "done"} \cup CreatePcs \cup DeletePcs
         /\ jobs[r].pc \in CreatePcs => jobs[r].form \in CreateForms
         /\ jobs[r].pc \in DeletePcs => jobs[r].form \in DeleteForms
         /\ jobs[r].volumes \in Seq(Paths)
    /\ ops \in 0 .. MaxOps
    /\ creator \in [Vms -> Requests \cup {NONE}]
    /\ approved \subseteq defined
    /\ booted \subseteq defined
    /\ outside \subseteq defined
    /\ byPath \subseteq Paths
    /\ lost \subseteq Paths

\* A hypervisor with images, and perhaps domains other tools defined.
Init == /\ vols = [p \in Paths |-> IF p \in Images THEN "data" ELSE "absent"]
        /\ defined \in SUBSET Vms
        /\ disks = [v \in Vms |-> <<>>]
        /\ active = {}
        /\ autostart = {}
        /\ jobs = [r \in Requests |-> NoJob]
        /\ ops = 0
        /\ creator = [v \in Vms |-> NONE]
        /\ approved = {}
        /\ booted = {}
        /\ outside = defined
        /\ byPath = {}
        /\ lost = {}

-----------------------------------------------------------------------------
(* What libvirt does                                                       *)

Exists(p) == vols[p] # "absent"

\* A volume is made from nothing or cloned from another one, under a free path.
CanMake(m) == /\ ~Exists(m.to)
              /\ m.from # NONE => Exists(m.from)

Made(m) == [vols EXCEPT ![m.to] = IF m.from = NONE THEN "blank" ELSE "data"]

\* Create of the domain fails when it runs or when a disk is not there.
CanStart(v) == /\ v \in defined \ active
               /\ \A p \in ToSet(disks[v]) : Exists(p)

\* Undefine; the history of the domain ends with it.
Undefined(v) == /\ defined' = defined \ {v}
                /\ active' = active \ {v}
                /\ autostart' = autostart \ {v}
                /\ disks' = [disks EXCEPT ![v] = <<>>]
                /\ creator' = [creator EXCEPT ![v] = NONE]
                /\ approved' = approved \ {v}
                /\ booted' = booted \ {v}
                /\ outside' = outside \ {v}

Owners(p) == {v \in defined : p \in ToSet(disks[v]) \/ p = Cd[v]}

\* Volumes a running request will still name to libvirt.
InHand(r) == ToSet(jobs[r].volumes)
             \cup IF jobs[r].pc \in {"upload", "attach"} THEN {Cd[jobs[r].form.vm]} ELSE {}

\* A volume goes away; r is the request that deletes it, NONE for the
\* volume page.
Removed(r, p) ==
    /\ vols' = [vols EXCEPT ![p] = "absent"]
    /\ outside' = outside \cup Owners(p)
    /\ LET named == \/ \E v \in defined : p \in ToSet(disks[v])
                    \/ \E q \in Requests \ {r} : p \in InHand(q)
       IN  lost' = IF named THEN lost \cup {p} ELSE lost

-----------------------------------------------------------------------------
(* VirtualMachineManager.Create                                            *)

Form(r) == jobs[r].form
Vm(r) == Form(r).vm

\* The domain of the request's name, when another Create or tool defined it.
Strangers(r) == {v \in defined : v = Vm(r) /\ creator[v] # r}

Goto(r, l) == jobs' = [jobs EXCEPT ![r].pc = l, ![r].at = 1]

\* The method returns an error: what it did so far stays.
Fail(r) == jobs' = [jobs EXCEPT ![r] = NoJob]

\* The method returns nil; "done" lasts until the answer is sent.
Succeed(r) == jobs' = [jobs EXCEPT ![r].pc = "done", ![r].at = 1, ![r].volumes = <<>>]

BeginCreate(r, f) ==
    /\ jobs[r] = NoJob
    /\ jobs' = [jobs EXCEPT ![r].pc = "make", ![r].form = f, ![r].volumes = f.attach]
    /\ byPath' = byPath \cup ToSet(f.attach)
    /\ UNCHANGED <<hypervisor, creator, noted, outside, lost>>

\* Clone volumes, then new volumes, in the order of the form.
Making(r) == /\ jobs[r].pc = "make"
             /\ jobs[r].at <= Len(Form(r).make)

\* Mutant: a volume that is already there is taken for the one to make.
MakeOrReuseVolume(r) ==
    /\ Making(r)
    /\ LET m == Form(r).make[jobs[r].at]
       IN  /\ vols' = Made(m)
           /\ jobs' = [jobs EXCEPT ![r].at = @ + 1, ![r].volumes = Append(@, m.to)]
    /\ UNCHANGED <<defined, disks, active, autostart, history>>

MakeVolume(r) ==
    /\ Making(r)
    /\ LET m == Form(r).make[jobs[r].at]
       IN  /\ CanMake(m)
           /\ vols' = Made(m)
           /\ jobs' = [jobs EXCEPT ![r].at = @ + 1, ![r].volumes = Append(@, m.to)]
    /\ UNCHANGED <<defined, disks, active, autostart, history>>

\* An error ends Create; nothing made so far is removed, and the volume itself
\* stays when only the resize after the clone or the read-back failed.
MakeVolumeFails(r) ==
    /\ Making(r)
    /\ LET m == Form(r).make[jobs[r].at]
       IN  vols' = vols \/ (CanMake(m) /\ vols' = Made(m))
    /\ Fail(r)
    /\ UNCHANGED <<defined, disks, active, autostart, history>>

\* vms.Save
Saving(r) == /\ jobs[r].pc = "make"
             /\ jobs[r].at > Len(Form(r).make)

SetAutostart(v, on) == autostart' = IF on THEN autostart \cup {v} ELSE autostart \ {v}

\* DomainDefineXML of a new domain with the disks of the request.
Define(r, v) == /\ v \notin defined
                /\ \A p \in ToSet(jobs[r].volumes) : Exists(p)
                /\ defined' = defined \cup {v}
                /\ disks' = [disks EXCEPT ![v] = jobs[r].volumes]
                /\ creator' = [creator EXCEPT ![v] = r]

SaveNew(r) ==
    /\ Saving(r)
    /\ Define(r, Vm(r))
    /\ SetAutostart(Vm(r), Form(r).start)
    /\ jobs' = [jobs EXCEPT ![r].pc = "cd", ![r].isNew = TRUE]
    /\ UNCHANGED <<vols, active, noted, outside, byPath, lost>>

\* The name is taken: the domain keeps its disks, its settings are replaced.
SaveExisting(r) ==
    /\ Saving(r)
    /\ Vm(r) \in defined
    /\ SetAutostart(Vm(r), Form(r).start)
    /\ Goto(r, "cd")
    /\ outside' = outside \cup {Vm(r)}
    /\ UNCHANGED <<vols, defined, disks, active, creator, noted, byPath, lost>>

\* Save fails before it defines the domain, or after it, without autostart.  A
\* failed lookup counts as "no such domain"; the define is then refused because
\* the name belongs to another UUID.
SaveFails(r) ==
    /\ Saving(r)
    /\ \/ UNCHANGED <<defined, disks, creator>>
       \/ Define(r, Vm(r))
    /\ Fail(r)
    /\ UNCHANGED <<vols, active, autostart, noted, outside, byPath, lost>>

CreateCd(r) ==
    /\ jobs[r].pc = "cd"
    /\ ~Exists(Cd[Vm(r)])
    /\ vols' = [vols EXCEPT ![Cd[Vm(r)]] = "blank"]
    /\ Goto(r, "upload")
    /\ UNCHANGED <<defined, disks, active, autostart, history>>

CreateCdFails(r) ==
    /\ jobs[r].pc = "cd"
    /\ \/ vols' = vols
       \/ ~Exists(Cd[Vm(r)]) /\ vols' = [vols EXCEPT ![Cd[Vm(r)]] = "blank"]
    /\ Fail(r)
    /\ UNCHANGED <<defined, disks, active, autostart, history>>

UploadCd(r) ==
    /\ jobs[r].pc = "upload"
    /\ Exists(Cd[Vm(r)])
    /\ vols' = [vols EXCEPT ![Cd[Vm(r)]] = "data"]
    /\ Goto(r, "attach")
    /\ UNCHANGED <<defined, disks, active, autostart, history>>

UploadCdFails(r) == /\ jobs[r].pc = "upload"
                    /\ Fail(r)
                    /\ UNCHANGED <<hypervisor, history>>

\* vms.AttachVolume: the domain must be there and stopped, the volume must exist.
Attached(v, p) == /\ v \in defined \ active
                  /\ Exists(p)
                  /\ disks' = [disks EXCEPT ![v] = Append(@, p)]

\* Mutant: the domain is started before its event is published.
AttachCdAndStart(r) ==
    /\ jobs[r].pc = "attach"
    /\ Attached(Vm(r), Cd[Vm(r)])
    /\ Goto(r, IF Form(r).start THEN "start" ELSE "publish")
    /\ outside' = outside \cup Strangers(r)
    /\ UNCHANGED <<vols, defined, active, autostart, creator, noted, byPath, lost>>

AttachCd(r) ==
    /\ jobs[r].pc = "attach"
    /\ Attached(Vm(r), Cd[Vm(r)])
    /\ Goto(r, "publish")
    /\ outside' = outside \cup Strangers(r)
    /\ UNCHANGED <<vols, defined, active, autostart, creator, noted, byPath, lost>>

AttachCdFails(r) == /\ jobs[r].pc = "attach"
                    /\ Fail(r)
                    /\ UNCHANGED <<hypervisor, history>>

\* epub.Publish runs the subscribed scripts one after the other; no lock is held
\* meanwhile.  A failing script matters only where it is mandatory.
RunScript(r) == /\ jobs[r].pc = "publish"
                /\ jobs[r].at <= Len(Scripts)
                /\ jobs' = [jobs EXCEPT ![r].at = @ + 1]
                /\ UNCHANGED <<hypervisor, history>>

ScriptFails(r) == /\ jobs[r].pc = "publish"
                  /\ jobs[r].at <= Len(Scripts)
                  /\ Scripts[jobs[r].at]
                  /\ Goto(r, "cleanup")
                  /\ UNCHANGED <<hypervisor, history>>

Published(r) == /\ jobs[r].pc = "publish"
                /\ jobs[r].at > Len(Scripts)
                /\ approved' = IF creator[Vm(r)] = r THEN approved \cup {Vm(r)} ELSE approved
                /\ IF Form(r).start THEN Goto(r, "start") ELSE Succeed(r)
                /\ UNCHANGED <<hypervisor, creator, booted, outside, byPath, lost>>

\* The error of this vms.Delete is ignored: it may have removed the domain, only
\* stopped it, or done nothing.
Cleanup(r) ==
    /\ jobs[r].pc = "cleanup"
    /\ \/ Vm(r) \in defined /\ Undefined(Vm(r))
       \/ /\ active' = active \ {Vm(r)}
          /\ outside' = outside \cup Strangers(r)
          /\ UNCHANGED <<defined, disks, autostart, creator, noted>>
       \/ UNCHANGED <<defined, disks, active, autostart, creator, noted, outside>>
    /\ Fail(r)
    /\ UNCHANGED <<vols, byPath, lost>>

StartVm(r) == /\ jobs[r].pc = "start"
              /\ CanStart(Vm(r))
              /\ active' = active \cup {Vm(r)}
              /\ outside' = outside \cup Strangers(r)
              /\ Succeed(r)
              /\ UNCHANGED <<vols, defined, disks, autostart, creator, noted, byPath, lost>>

StartVmFails(r) == /\ jobs[r].pc = "start"
                   /\ Fail(r)
                   /\ UNCHANGED <<hypervisor, history>>

-----------------------------------------------------------------------------
(* VirtualMachineManager.Delete                                            *)

BeginDelete(r, f) ==
    /\ jobs[r] = NoJob
    /\ jobs' = [jobs EXCEPT ![r].form = f,
                            ![r].pc = IF f.deleteVolumes THEN "get" ELSE "undefine"]
    /\ UNCHANGED <<hypervisor, history>>

\* The volumes to delete are those the domain has now.
GetVolumes(r) == /\ jobs[r].pc = "get"
                 /\ Vm(r) \in defined
                 /\ jobs' = [jobs EXCEPT ![r].pc = "undefine", ![r].volumes = disks[Vm(r)]]
                 /\ UNCHANGED <<hypervisor, history>>

GetVolumesFails(r) == /\ jobs[r].pc = "get"
                      /\ Fail(r)
                      /\ UNCHANGED <<hypervisor, history>>

UndefineVm(r) == /\ jobs[r].pc = "undefine"
                 /\ Vm(r) \in defined
                 /\ Undefined(Vm(r))
                 /\ Goto(r, "delvols")
                 /\ UNCHANGED <<vols, byPath, lost>>

\* Mutant: the error of vms.Delete is ignored.
UndefineVmFailsOnward(r) ==
    /\ jobs[r].pc = "undefine"
    /\ Goto(r, "delvols")
    /\ UNCHANGED <<hypervisor, history>>

\* Destroy may have worked before Undefine failed.
UndefineVmFails(r) ==
    /\ jobs[r].pc = "undefine"
    /\ \/ UNCHANGED <<active, outside>>
       \/ /\ Vm(r) \in active
          /\ active' = active \ {Vm(r)}
          /\ outside' = outside \cup {Vm(r)}
    /\ Fail(r)
    /\ UNCHANGED <<vols, defined, disks, autostart, creator, noted, byPath, lost>>

\* volumes.Delete
Deletable(p) == Exists(p) /\ p \notin Protected

DeleteNextVolume(r) ==
    /\ jobs[r].pc = "delvols"
    /\ jobs[r].volumes # <<>>
    /\ Deletable(Head(jobs[r].volumes))
    /\ Removed(r, Head(jobs[r].volumes))
    /\ jobs' = [jobs EXCEPT ![r].volumes = Tail(@)]
    /\ UNCHANGED <<defined, disks, active, autostart, creator, noted, byPath>>

\* The first error ends Delete: the volumes after it stay.
DeleteNextVolumeFails(r) == /\ jobs[r].pc = "delvols"
                            /\ jobs[r].volumes # <<>>
                            /\ Fail(r)
                            /\ UNCHANGED <<hypervisor, history>>

DeleteDone(r) == /\ jobs[r].pc = "delvols"
                 /\ jobs[r].volumes = <<>>
                 /\ Succeed(r)
                 /\ UNCHANGED <<hypervisor, history>>

\* The answer is sent and the goroutine is over.
EndRequest(r) == /\ jobs[r].pc = "done"
                 /\ jobs' = [jobs EXCEPT ![r] = NoJob]
                 /\ UNCHANGED <<hypervisor, history>>

-----------------------------------------------------------------------------
(* Requests made of one repository call: when the call fails nothing happens *)

UserStart(v) == /\ CanStart(v)
                /\ active' = active \cup {v}
                /\ outside' = outside \cup {v}
                /\ UNCHANGED <<vols, defined, disks, autostart, jobs, creator, noted, byPath, lost>>

\* Poweroff from the UI, or the guest stops by itself.
UserPoweroff(v) == /\ v \in active
                   /\ active' = active \ {v}
                   /\ outside' = outside \cup {v}
                   /\ UNCHANGED <<vols, defined, disks, autostart, jobs, creator, noted, byPath, lost>>

UserAttach(v, p) == /\ Attached(v, p)
                    /\ Len(disks[v]) < MaxDisks
                    /\ outside' = outside \cup {v}
                    /\ byPath' = byPath \cup {p}
                    /\ UNCHANGED <<vols, defined, active, autostart, jobs, creator, noted, lost>>

\* DetachVolume drops every disk with that path.
UserDetach(v, p) == /\ v \in defined \ active
                    /\ p \in ToSet(disks[v])
                    /\ disks' = [disks EXCEPT ![v] = Keep(@, Paths \ {p})]
                    /\ outside' = outside \cup {v}
                    /\ UNCHANGED <<vols, defined, active, autostart, jobs, creator, noted, byPath, lost>>

\* The update form saves over the existing domain.
UserUpdate(v, on) == /\ v \in defined
                     /\ SetAutostart(v, on)
                     /\ outside' = outside \cup {v}
                     /\ UNCHANGED <<vols, defined, disks, active, jobs, creator, noted, byPath, lost>>

UserMakeVolume(m) == /\ CanMake(m)
                     /\ vols' = Made(m)
                     /\ UNCHANGED <<defined, disks, active, autostart, jobs, history>>

UserDeleteVolume(p) == /\ Deletable(p)
                       /\ Removed(NONE, p)
                       /\ UNCHANGED <<defined, disks, active, autostart, jobs, creator, noted, byPath>>

\* The host boots: exactly the autostart domains with all their disks run.
HostReboot == LET run == {v \in autostart : \A p \in ToSet(disks[v]) : Exists(p)}
              IN  /\ active' = run
                  /\ booted' = run
                  /\ UNCHANGED <<vols, defined, disks, autostart, jobs, creator, approved,
                                 outside, byPath, lost>>

\* vmango dies between two calls: what its requests did stays.
Crash == /\ jobs' = [r \in Requests |-> NoJob]
         /\ UNCHANGED <<hypervisor, history>>

-----------------------------------------------------------------------------

CreateStep(r) ==
    \/ MakeVolume(r) \/ MakeVolumeFails(r) \/ SaveNew(r) \/ SaveExisting(r) \/ SaveFails(r)
    \/ CreateCd(r) \/ CreateCdFails(r) \/ UploadCd(r) \/ UploadCdFails(r)
    \/ AttachCd(r) \/ AttachCdFails(r) \/ RunScript(r) \/ ScriptFails(r)
    \/ Published(r) \/ Cleanup(r) \/ StartVm(r) \/ StartVmFails(r)

DeleteStep(r) ==
    \/ GetVolumes(r) \/ GetVolumesFails(r) \/ UndefineVm(r) \/ UndefineVmFails(r)
    \/ DeleteNextVolume(r) \/ DeleteNextVolumeFails(r) \/ DeleteDone(r)

UserStep == \/ \E v \in Vms : \/ UserStart(v) \/ UserPoweroff(v)
                              \/ \E on \in BOOLEAN : UserUpdate(v, on)
                              \/ \E p \in Paths : UserAttach(v, p) \/ UserDetach(v, p)
            \/ \E p \in Paths : UserDeleteVolume(p)
            \/ \E m \in VolumeForms : UserMakeVolume(m)

\* What comes from outside: a new request, a crash, a reboot of the host.
Arrival == \/ \E r \in Requests : \/ \E f \in CreateForms : BeginCreate(r, f)
                                 \/ \E f \in DeleteForms : BeginDelete(r, f)
           \/ UserStep
           \/ HostReboot
           \/ Crash

Next == \/ /\ ops < MaxOps
           /\ ops' = ops + 1
           /\ Arrival
        \/ /\ UNCHANGED ops
           /\ \E r \in Requests : CreateStep(r) \/ DeleteStep(r) \/ EndRequest(r)

Spec == Init /\ [][Next]_vars

-----------------------------------------------------------------------------
(* Properties                                                              *)

\* A domain that nobody but its own Create, and the host at its boot, touched.
Untouched(v) == v \in defined /\ creator[v] # NONE /\ v \notin outside

\* When Create reports success for a domain it defined, the domain has exactly
\* the disks of the form in their order and then the filled configdrive, and it
\* runs and autostarts as asked.
CompleteOnSuccess ==
    \A r \in Requests :
       (/\ jobs[r].pc = "done" /\ jobs[r].isNew
        /\ Untouched(Vm(r)) /\ creator[Vm(r)] = r) =>
          LET f == Form(r)
              asked == f.attach \o [i \in 1 .. Len(f.make) |-> f.make[i].to]
          IN  /\ disks[f.vm] = Append(asked, Cd[f.vm])
              /\ vols[Cd[f.vm]] = "data"
              /\ f.vm \in active <=> f.start
              /\ f.vm \in autostart <=> f.start

\* vmango itself runs no half-made domain, however Create fails, interleaves or
\* dies: its configdrive is filled and attached and its mandatory scripts have
\* succeeded.  The host does: Save sets autostart as the form asks, before the
\* configdrive and the scripts, and a boot of the host meanwhile, or after Create
\* failed or vmango died, starts what there is.
RunsOnlyComplete ==
    \A v \in active : Untouched(v) =>
       \/ /\ v \in approved
          /\ Cd[v] \in ToSet(disks[v])
          /\ vols[Cd[v]] = "data"
       \/ /\ v \in booted \cap autostart
          /\ \A p \in ToSet(disks[v]) : Exists(p)

\* A Create that succeeds leaves a complete domain, through boots of the host
\* too; one that fails or dies leaves a half-made one, which only a boot of the
\* host can start.
NoHalfMadeVm == CompleteOnSuccess /\ RunsOnlyComplete

\* Two domains have a disk in common only where somebody attached it by path or
\* a volume was deleted while a domain or a request still named it.
SharingExplained ==
    \A v, w \in defined :
       v # w => ToSet(disks[v]) \cap ToSet(disks[w]) \subseteq byPath \cup lost

\* Deleting a domain with its volumes takes a disk from another domain only in
\* those same cases.
DeleteSparesOthers ==
    [][\A r \in Requests, p \in Paths :
          (jobs[r].pc = "delvols" /\ Exists(p) /\ vols'[p] = "absent" /\ jobs' # jobs)
             => \A v \in defined : p \in ToSet(disks[v]) => p \in byPath \cup lost]_vars

\* A protected image survives every request.
ProtectedSurvives == [][\A p \in Protected : Exists(p) => vols'[p] # "absent"]_vars

\* What no request deletes: a disk of somebody else's domain, except in the two
\* cases above, and a protected image, indirectly or not.
DeletesExplained == DeleteSparesOthers /\ ProtectedSurvives

\* The subscription scripts run for a newly created domain.
ScriptsOnlyForNewVm == \A r \in Requests : jobs[r].pc = "publish" => jobs[r].isNew
=============================================================================
