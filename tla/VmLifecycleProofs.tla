-------------------------- MODULE VmLifecycleProofs --------------------------
(***************************************************************************)
(* Proofs about VmLifecycle, for any virtual machines, volumes, forms,     *)
(* scripts and requests.  The inductive invariant has three parts, proved  *)
(* one after the other: Typed, what every variable may hold; SharingInv,   *)
(* to whom a volume belongs; HalfMadeInv, how far a Create is with the     *)
(* domain it defined.  The second and the third each rest on the first.    *)
(***************************************************************************)
EXTENDS VmLifecycle, SubsequencesProofs

(***************************************************************************)
(* The first part: what every variable may hold.                           *)
(***************************************************************************)

\* A Create once its domain is saved, a Delete once it knows its volumes.
PostPcs == {"cd", "upload", "attach", "publish", "cleanup", "start"}
DeletingPcs == {"undefine", "delvols"}

JobPcs == {"idle", "done"} \cup CreatePcs \cup DeletePcs

JobStates == [pc : JobPcs, form : CreateForms \cup DeleteForms \cup {NONE},
              at : Nat \ {0}, volumes : Seq(Paths), isNew : BOOLEAN]

\* A job has a form of its kind, and a new domain only after it was saved.
FormOK(r) ==
    /\ jobs[r].pc \in CreatePcs => jobs[r].form \in CreateForms
    /\ jobs[r].pc \in DeletePcs => jobs[r].form \in DeleteForms
    /\ jobs[r].isNew => jobs[r].pc \in PostPcs \cup {"done"} /\ jobs[r].form \in CreateForms

JobsTyped == /\ jobs \in [Requests -> JobStates]
             /\ \A r \in Requests : FormOK(r)

DomainsTyped ==
    /\ vols \in [Paths -> {"absent", "blank", "data"}]
    /\ defined \subseteq Vms
    /\ disks \in [Vms -> Seq(Paths)]
    /\ active \subseteq defined
    /\ autostart \subseteq defined
    /\ creator \in [Vms -> Requests \cup {NONE}]
    /\ approved \subseteq defined
    /\ booted \subseteq defined
    /\ outside \subseteq defined
    /\ byPath \subseteq Paths
    /\ lost \subseteq Paths

\* Nothing is known of a domain that is not defined.
NoTraces ==
    \A v \in Vms \ defined : disks[v] = <<>> /\ creator[v] = NONE

USE DEF noted

Typed == JobsTyped /\ DomainsTyped /\ NoTraces /\ ops \in 0 .. MaxOps

LEMMA TypedIsTypeOK == Typed => TypeOK
  BY DEF Typed, JobsTyped, JobStates, FormOK, DomainsTyped, TypeOK, JobPcs

-----------------------------------------------------------------------------
(* What a step does to the job of its request                              *)

\* The job of r gets these fields, the others stay.
Becomes(r, l, f, n, s, new) ==
    /\ jobs' \in [Requests -> JobStates]
    /\ jobs'[r].pc = l /\ jobs'[r].form = f /\ jobs'[r].at = n
    /\ jobs'[r].volumes = s /\ jobs'[r].isNew = new
    /\ \A q \in Requests \ {r} : jobs'[q] = jobs[q]

LEMMA BecomesTyped ==
  ASSUME JobsTyped, NEW r \in Requests, NEW l, NEW f, NEW n, NEW s, NEW new,
         Becomes(r, l, f, n, s, new),
         l \in CreatePcs => f \in CreateForms,
         l \in DeletePcs => f \in DeleteForms,
         new => l \in PostPcs \cup {"done"} /\ f \in CreateForms
  PROVE JobsTyped'
  BY DEF JobsTyped, Becomes, FormOK

\* What the type says of one job.
LEMMA JobParts ==
  ASSUME JobsTyped, NEW r \in Requests
  PROVE /\ jobs[r] \in JobStates /\ jobs[r].pc \in JobPcs
        /\ jobs[r].at \in Nat \ {0} /\ jobs[r].volumes \in Seq(Paths) /\ jobs[r].isNew \in BOOLEAN
        /\ jobs[r].pc \in CreatePcs => Form(r) \in CreateForms /\ Vm(r) \in Vms
        /\ jobs[r].pc \in DeletePcs => Form(r) \in DeleteForms /\ Vm(r) \in Vms
        /\ jobs[r].isNew => jobs[r].pc \in PostPcs \cup {"done"} /\ Form(r) \in CreateForms
                            /\ Vm(r) \in Vms
  BY FormsAssumption DEF JobsTyped, JobStates, FormOK, Form, Vm, DeleteForms

LEMMA GotoJob ==
  ASSUME JobsTyped, NEW r \in Requests, NEW l \in JobPcs, Goto(r, l)
  PROVE Becomes(r, l, Form(r), 1, jobs[r].volumes, jobs[r].isNew)
  <1>1. jobs \in [Requests -> JobStates] /\ 1 \in Nat \ {0}
    BY DEF JobsTyped
  <1>2. QED
    BY <1>1 DEF Goto, Becomes, JobStates, Form

LEMMA FailJob ==
  ASSUME JobsTyped, NEW r \in Requests, Fail(r)
  PROVE Becomes(r, "idle", NONE, 1, <<>>, FALSE) /\ JobsTyped'
  <1>1. NoJob \in JobStates
    BY EmptySeq DEF NoJob, JobStates, JobPcs
  <1>2. Becomes(r, "idle", NONE, 1, <<>>, FALSE)
    BY <1>1 DEF Fail, Becomes, JobsTyped, NoJob
  <1>3. QED
    BY <1>2, BecomesTyped DEF CreatePcs, DeletePcs

LEMMA SucceedJob ==
  ASSUME JobsTyped, NEW r \in Requests, Succeed(r)
  PROVE Becomes(r, "done", Form(r), 1, <<>>, jobs[r].isNew) /\ JobsTyped'
  <1>1. /\ <<>> \in Seq(Paths) /\ "done" \in JobPcs /\ 1 \in Nat \ {0}
        /\ jobs \in [Requests -> JobStates]
    BY EmptySeq DEF JobsTyped, JobPcs
  <1>2. Becomes(r, "done", Form(r), 1, <<>>, jobs[r].isNew)
    BY <1>1 DEF Succeed, Becomes, JobStates, Form
  <1>3. jobs[r].isNew => Form(r) \in CreateForms
    BY JobParts
  <1>4. QED
    BY <1>2, <1>3, BecomesTyped DEF CreatePcs, DeletePcs

LEMMA EndJob ==
  ASSUME JobsTyped, NEW r \in Requests, EndRequest(r)
  PROVE Becomes(r, "idle", NONE, 1, <<>>, FALSE) /\ JobsTyped'
  BY FailJob DEF EndRequest, Fail

LEMMA BeginCreateJob ==
  ASSUME JobsTyped, NEW r \in Requests, NEW f \in CreateForms, BeginCreate(r, f)
  PROVE Becomes(r, "make", f, 1, f.attach, FALSE) /\ JobsTyped' /\ f.attach \in Seq(Paths)
  <1>1. f.attach \in Seq(Paths)
    BY FormsAssumption
  <1>2. Becomes(r, "make", f, 1, f.attach, FALSE)
    <2>1. /\ "make" \in JobPcs /\ 1 \in Nat \ {0} /\ FALSE \in BOOLEAN
          /\ jobs \in [Requests -> JobStates] /\ NoJob \in JobStates
      BY DEF JobsTyped, JobPcs, CreatePcs, BeginCreate
    <2>2. jobs' = [jobs EXCEPT ![r] = [NoJob EXCEPT !.pc = "make", !.form = f,
                                                     !.volumes = f.attach]]
      BY <2>1 DEF BeginCreate
    <2>3. QED
      BY <1>1, <2>1, <2>2 DEF Becomes, JobStates, NoJob
  <1>3. QED
    BY <1>1, <1>2, BecomesTyped DEF CreatePcs, DeletePcs

\* The volume that Create is about to make.
LEMMA MakeTyped ==
  ASSUME JobsTyped, NEW r \in Requests, Making(r)
  PROVE /\ Form(r) \in CreateForms
        /\ Form(r).make[jobs[r].at].to \in Paths
        /\ Form(r).make[jobs[r].at].from \in Paths \cup {NONE}
  <1>1. Form(r) \in CreateForms /\ jobs[r].at \in Nat \ {0}
    BY JobParts DEF Making, CreatePcs
  <1>2. Form(r).make \in Seq([from : Paths \cup {NONE}, to : Paths])
    BY <1>1, FormsAssumption
  <1>3. jobs[r].at \in 1 .. Len(Form(r).make)
    BY <1>1, <1>2, LenProperties DEF Making
  <1>4. Form(r).make[jobs[r].at] \in [from : Paths \cup {NONE}, to : Paths]
    BY <1>2, <1>3, ElementOfSeq
  <1>5. QED
    BY <1>1, <1>4

LEMMA MakeVolumeJob ==
  ASSUME JobsTyped, NEW r \in Requests, MakeVolume(r)
  PROVE /\ Becomes(r, "make", Form(r), jobs[r].at + 1,
                   Append(jobs[r].volumes, Form(r).make[jobs[r].at].to), jobs[r].isNew)
        /\ JobsTyped'
        /\ Form(r).make[jobs[r].at].to \in Paths
  <1> DEFINE p == Form(r).make[jobs[r].at].to
  <1>1. jobs[r].pc = "make" /\ p \in Paths
    BY MakeTyped DEF MakeVolume, Making
  <1>2. jobs' = [jobs EXCEPT ![r].at = @ + 1, ![r].volumes = Append(@, p)]
    BY DEF MakeVolume
  <1>3. Form(r) \in CreateForms
    BY MakeTyped DEF MakeVolume
  <1> HIDE DEF p
  <1>4. jobs[r].at + 1 \in Nat \ {0} /\ Append(jobs[r].volumes, p) \in Seq(Paths)
    BY <1>1, JobParts, AppendProperties
  <1>5. Becomes(r, "make", Form(r), jobs[r].at + 1, Append(jobs[r].volumes, p), jobs[r].isNew)
    BY <1>1, <1>2, <1>4 DEF Becomes, JobsTyped, JobStates, Form
  <1>6. ~ jobs[r].isNew
    BY <1>1, JobParts DEF PostPcs
  <1>7. QED
    BY <1>1, <1>3, <1>5, <1>6, BecomesTyped DEF CreatePcs, DeletePcs, p

LEMMA SaveNewJob ==
  ASSUME JobsTyped, NEW r \in Requests, SaveNew(r)
  PROVE Becomes(r, "cd", Form(r), jobs[r].at, jobs[r].volumes, TRUE) /\ JobsTyped'
  <1>1. Becomes(r, "cd", Form(r), jobs[r].at, jobs[r].volumes, TRUE)
    BY DEF SaveNew, Becomes, JobsTyped, JobStates, Form, JobPcs, CreatePcs
  <1>2. Form(r) \in CreateForms
    BY JobParts DEF SaveNew, Saving, CreatePcs
  <1>3. QED
    BY <1>1, <1>2, BecomesTyped DEF CreatePcs, DeletePcs, PostPcs

LEMMA RunScriptJob ==
  ASSUME JobsTyped, NEW r \in Requests, RunScript(r)
  PROVE Becomes(r, "publish", Form(r), jobs[r].at + 1, jobs[r].volumes, jobs[r].isNew)
        /\ JobsTyped'
  <1>1. Becomes(r, "publish", Form(r), jobs[r].at + 1, jobs[r].volumes, jobs[r].isNew)
    <2>1. jobs \in [Requests -> JobStates] /\ jobs[r].at + 1 \in Nat \ {0}
      BY JobParts DEF JobsTyped
    <2>2. jobs' = [jobs EXCEPT ![r].at = jobs[r].at + 1] /\ jobs[r].pc = "publish"
      BY DEF RunScript
    <2>3. QED
      BY <2>1, <2>2 DEF Becomes, JobStates, Form
  <1>2. Form(r) \in CreateForms
    BY JobParts DEF RunScript, CreatePcs
  <1>3. QED
    BY <1>1, <1>2, BecomesTyped DEF CreatePcs, DeletePcs, PostPcs

\* From one call of Create to the next.
LEMMA CreateGoto ==
  ASSUME JobsTyped, NEW r \in Requests, jobs[r].pc \in CreatePcs,
         NEW l \in PostPcs, Goto(r, l)
  PROVE Becomes(r, l, Form(r), 1, jobs[r].volumes, jobs[r].isNew) /\ JobsTyped'
  <1>1. Becomes(r, l, Form(r), 1, jobs[r].volumes, jobs[r].isNew)
    BY GotoJob DEF JobPcs, CreatePcs, PostPcs
  <1>2. Form(r) \in CreateForms
    BY JobParts
  <1>3. QED
    BY <1>1, <1>2, BecomesTyped DEF CreatePcs, DeletePcs, PostPcs

LEMMA BeginDeleteJob ==
  ASSUME JobsTyped, NEW r \in Requests, NEW f \in DeleteForms, BeginDelete(r, f)
  PROVE JobsTyped' /\ \E l \in {"get", "undefine"} : Becomes(r, l, f, 1, <<>>, FALSE)
  <1>1. PICK l \in {"get", "undefine"} : jobs' = [jobs EXCEPT ![r].form = f, ![r].pc = l]
    BY DEF BeginDelete
  <1>2. <<>> \in Seq(Paths)
    BY EmptySeq
  <1>3. Becomes(r, l, f, 1, <<>>, FALSE)
    BY <1>1, <1>2 DEF BeginDelete, Becomes, JobsTyped, JobStates, NoJob, JobPcs, DeletePcs
  <1>4. QED
    BY <1>3, BecomesTyped DEF CreatePcs, DeletePcs

LEMMA GetVolumesJob ==
  ASSUME JobsTyped, NEW r \in Requests, GetVolumes(r), disks[Vm(r)] \in Seq(Paths)
  PROVE Becomes(r, "undefine", Form(r), jobs[r].at, disks[Vm(r)], FALSE) /\ JobsTyped'
  <1>1. jobs[r].pc = "get" /\ Form(r) \in DeleteForms /\ ~ jobs[r].isNew
    BY JobParts DEF GetVolumes, DeletePcs, PostPcs
  <1>2. Becomes(r, "undefine", Form(r), jobs[r].at, disks[Vm(r)], FALSE)
    BY <1>1 DEF GetVolumes, Becomes, JobsTyped, JobStates, Form, JobPcs, DeletePcs
  <1>3. QED
    BY <1>1, <1>2, BecomesTyped DEF CreatePcs, DeletePcs

LEMMA UndefineVmJob ==
  ASSUME JobsTyped, NEW r \in Requests, UndefineVm(r)
  PROVE Becomes(r, "delvols", Form(r), 1, jobs[r].volumes, FALSE) /\ JobsTyped'
  <1>1. jobs[r].pc = "undefine" /\ Form(r) \in DeleteForms /\ jobs[r].isNew = FALSE
    BY JobParts DEF UndefineVm, DeletePcs, PostPcs
  <1>2. Becomes(r, "delvols", Form(r), 1, jobs[r].volumes, FALSE)
    <2>1. "delvols" \in JobPcs /\ Goto(r, "delvols")
      BY DEF UndefineVm, JobPcs, DeletePcs
    <2>2. Becomes(r, "delvols", Form(r), 1, jobs[r].volumes, jobs[r].isNew)
      BY <2>1, GotoJob
    <2>3. QED
      BY <1>1, <2>2
  <1>3. QED
    BY <1>1, <1>2, BecomesTyped DEF CreatePcs, DeletePcs

LEMMA DeleteNextVolumeJob ==
  ASSUME JobsTyped, NEW r \in Requests, DeleteNextVolume(r)
  PROVE /\ Becomes(r, "delvols", Form(r), jobs[r].at, Tail(jobs[r].volumes), FALSE)
        /\ JobsTyped'
        /\ Head(jobs[r].volumes) \in Paths
  <1>1. jobs[r].pc = "delvols" /\ Form(r) \in DeleteForms /\ ~ jobs[r].isNew
    BY JobParts DEF DeleteNextVolume, DeletePcs, PostPcs
  <1>2. Head(jobs[r].volumes) \in Paths /\ Tail(jobs[r].volumes) \in Seq(Paths)
    BY JobParts, HeadTailProperties DEF DeleteNextVolume
  <1>3. Becomes(r, "delvols", Form(r), jobs[r].at, Tail(jobs[r].volumes), FALSE)
    BY <1>1, <1>2 DEF DeleteNextVolume, Becomes, JobsTyped, JobStates, Form
  <1>4. QED
    BY <1>1, <1>2, <1>3, BecomesTyped DEF CreatePcs, DeletePcs

LEMMA CrashJobs ==
  ASSUME Crash
  PROVE /\ jobs' = [r \in Requests |-> NoJob] /\ JobsTyped'
        /\ \A r \in Requests : jobs'[r].pc = "idle" /\ ~ jobs'[r].isNew /\ jobs'[r].volumes = <<>>
  <1>1. NoJob \in JobStates
    BY EmptySeq DEF NoJob, JobStates, JobPcs
  <1>2. jobs' = [r \in Requests |-> NoJob]
    BY DEF Crash
  <1>3. QED
    BY <1>1, <1>2 DEF JobsTyped, FormOK, NoJob, CreatePcs, DeletePcs

-----------------------------------------------------------------------------
(* What a step does to the hypervisor                                      *)

\* No volume goes away, none loses its data.
VolsGrow == /\ vols' \in [Paths -> {"absent", "blank", "data"}]
          /\ \A p \in Paths : /\ Exists(p) => vols'[p] # "absent"
                              /\ vols[p] = "data" => vols'[p] = "data"

LEMMA SameVols ==
  ASSUME DomainsTyped, vols' = vols
  PROVE VolsGrow
  BY DEF DomainsTyped, VolsGrow, Exists

LEMMA MadeVols ==
  ASSUME DomainsTyped, NEW m, m.to \in Paths, CanMake(m), vols' = Made(m)
  PROVE VolsGrow
  BY DEF DomainsTyped, VolsGrow, Exists, CanMake, Made

LEMMA WrittenVols ==
  ASSUME DomainsTyped, NEW p \in Paths, NEW c \in {"blank", "data"},
         c = "data" \/ ~ Exists(p), vols' = [vols EXCEPT ![p] = c]
  PROVE VolsGrow
  BY DEF DomainsTyped, VolsGrow, Exists

LEMMA DefineTyped ==
  ASSUME DomainsTyped, NoTraces, JobsTyped, NEW r \in Requests, NEW v \in Vms, Define(r, v),
         vols' = vols, active' = active, noted' = noted, outside' = outside,
         byPath' = byPath, lost' = lost, autostart' \subseteq autostart \cup {v}
  PROVE DomainsTyped' /\ NoTraces'
  <1>1. jobs[r].volumes \in Seq(Paths)
    BY JobParts
  <1>2. DomainsTyped'
    BY <1>1 DEF DomainsTyped, Define
  <1>3. NoTraces'
    BY DEF DomainsTyped, NoTraces, Define
  <1>4. QED
    BY <1>2, <1>3

LEMMA UndefinedTyped ==
  ASSUME DomainsTyped, NoTraces, NEW v \in Vms, Undefined(v),
         vols' = vols, byPath' = byPath, lost' = lost
  PROVE DomainsTyped' /\ NoTraces'
  <1>1. <<>> \in Seq(Paths)
    BY EmptySeq
  <1>2. DomainsTyped'
    BY <1>1 DEF DomainsTyped, Undefined
  <1>3. NoTraces'
    BY DEF DomainsTyped, NoTraces, Undefined
  <1>4. QED
    BY <1>2, <1>3

LEMMA AttachedTyped ==
  ASSUME DomainsTyped, NoTraces, NEW v \in Vms, NEW p \in Paths, Attached(v, p),
         vols' = vols, defined' = defined, active' = active, autostart' = autostart,
         creator' = creator, noted' = noted, outside' \subseteq defined,
         byPath' \subseteq Paths, lost' = lost
  PROVE DomainsTyped' /\ NoTraces'
  <1>1. Append(disks[v], p) \in Seq(Paths)
    BY AppendProperties DEF DomainsTyped
  <1>2. DomainsTyped'
    BY <1>1 DEF DomainsTyped, Attached
  <1>3. NoTraces'
    BY DEF DomainsTyped, NoTraces, Attached
  <1>4. QED
    BY <1>2, <1>3

LEMMA RemovedTyped ==
  ASSUME DomainsTyped, NoTraces, NEW r, NEW p \in Paths, Removed(r, p),
         UNCHANGED <<defined, disks, active, autostart, creator, noted, byPath>>
  PROVE DomainsTyped' /\ NoTraces'
  <1>1. vols' \in [Paths -> {"absent", "blank", "data"}]
    BY DEF DomainsTyped, Removed
  <1>2. outside' \subseteq defined
    BY DEF DomainsTyped, Removed, Owners
  <1>3. lost' \subseteq Paths
    BY DEF DomainsTyped, Removed
  <1>4. DomainsTyped' /\ NoTraces'
    BY <1>1, <1>2, <1>3 DEF DomainsTyped, NoTraces
  <1>5. QED
    BY <1>4

\* The domains stay as they are, but for what else is known of them.
LEMMA KeptTyped ==
  ASSUME DomainsTyped, NoTraces, vols' \in [Paths -> {"absent", "blank", "data"}],
         UNCHANGED <<defined, disks, creator, lost>>,
         active' \subseteq defined, autostart' \subseteq defined,
         approved' \subseteq defined, booted' \subseteq defined,
         outside' \subseteq defined, byPath' \subseteq Paths
  PROVE DomainsTyped' /\ NoTraces'
  BY DEF DomainsTyped, NoTraces

\* Calls of Create.
LEMMA CreateTyped ==
  ASSUME JobsTyped, DomainsTyped, NoTraces, NEW r \in Requests, CreateStep(r)
  PROVE JobsTyped' /\ DomainsTyped' /\ NoTraces'
  <1>0. jobs[r].pc \in CreatePcs /\ Vm(r) \in Vms /\ Cd[Vm(r)] \in Paths
    <2>1. jobs[r].pc \in CreatePcs
      BY DEF CreateStep, MakeVolume, MakeVolumeFails, Making, SaveNew, SaveExisting, SaveFails,
             Saving, CreateCd, CreateCdFails, UploadCd, UploadCdFails, AttachCd, AttachCdFails,
             RunScript, ScriptFails, Published, Cleanup, StartVm, StartVmFails, CreatePcs
    <2>2. QED
      BY <2>1, JobParts, PathsAssumption
  <1>1. CASE MakeVolume(r)
    <2>1. JobsTyped' /\ VolsGrow
      BY <1>1, MakeVolumeJob, MadeVols DEF MakeVolume
    <2>2. QED
      BY <1>1, <2>1, KeptTyped DEF MakeVolume, history, VolsGrow, DomainsTyped
  <1>2. CASE MakeVolumeFails(r)
    <2>1. JobsTyped' /\ VolsGrow
      BY <1>2, FailJob, MakeTyped, MadeVols, SameVols DEF MakeVolumeFails
    <2>2. QED
      BY <1>2, <2>1, KeptTyped DEF MakeVolumeFails, history, VolsGrow, DomainsTyped
  <1>3. CASE SaveNew(r)
    BY <1>0, <1>3, SaveNewJob, DefineTyped DEF SaveNew, SetAutostart
  <1>4. CASE SaveExisting(r)
    <2>1. JobsTyped'
      BY <1>0, <1>4, CreateGoto DEF SaveExisting, PostPcs
    <2>2. QED
      BY <1>4, <2>1, KeptTyped DEF SaveExisting, SetAutostart, DomainsTyped
  <1>5. CASE SaveFails(r)
    <2>1. JobsTyped'
      BY <1>5, FailJob DEF SaveFails
    <2>2. CASE UNCHANGED <<defined, disks, creator>>
      BY <1>5, <2>1, <2>2, KeptTyped DEF SaveFails, DomainsTyped
    <2>3. CASE Define(r, Vm(r))
      BY <1>0, <1>5, <2>1, <2>3, DefineTyped DEF SaveFails
    <2>4. QED
      BY <1>5, <2>2, <2>3 DEF SaveFails
  <1>6. CASE CreateCd(r)
    <2>1. JobsTyped' /\ VolsGrow
      BY <1>0, <1>6, CreateGoto, WrittenVols DEF CreateCd, PostPcs
    <2>2. QED
      BY <1>6, <2>1, KeptTyped DEF CreateCd, history, VolsGrow, DomainsTyped
  <1>7. CASE CreateCdFails(r)
    <2>1. JobsTyped' /\ VolsGrow
      BY <1>0, <1>7, FailJob, SameVols, WrittenVols DEF CreateCdFails
    <2>2. QED
      BY <1>7, <2>1, KeptTyped DEF CreateCdFails, history, VolsGrow, DomainsTyped
  <1>8. CASE UploadCd(r)
    <2>1. JobsTyped' /\ VolsGrow
      BY <1>0, <1>8, CreateGoto, WrittenVols DEF UploadCd, PostPcs
    <2>2. QED
      BY <1>8, <2>1, KeptTyped DEF UploadCd, history, VolsGrow, DomainsTyped
  <1>9. CASE AttachCd(r)
    <2>1. JobsTyped'
      BY <1>0, <1>9, CreateGoto DEF AttachCd, PostPcs
    <2>2. outside' \subseteq defined
      BY <1>9 DEF AttachCd, Strangers, DomainsTyped
    <2>3. QED
      BY <1>0, <1>9, <2>1, <2>2, AttachedTyped DEF AttachCd, DomainsTyped
  <1>10. CASE UploadCdFails(r) \/ AttachCdFails(r) \/ StartVmFails(r)
    <2>1. JobsTyped'
      BY <1>10, FailJob DEF UploadCdFails, AttachCdFails, StartVmFails
    <2>2. QED
      BY <1>10, <2>1, KeptTyped
      DEF UploadCdFails, AttachCdFails, StartVmFails, hypervisor, history, DomainsTyped
  <1>11. CASE RunScript(r)
    <2>1. JobsTyped'
      BY <1>11, RunScriptJob
    <2>2. QED
      BY <1>11, <2>1, KeptTyped DEF RunScript, hypervisor, history, DomainsTyped
  <1>12. CASE ScriptFails(r)
    <2>1. JobsTyped'
      BY <1>0, <1>12, CreateGoto DEF ScriptFails, PostPcs
    <2>2. QED
      BY <1>12, <2>1, KeptTyped DEF ScriptFails, hypervisor, history, DomainsTyped
  <1>13. CASE Published(r)
    <2>1. JobsTyped'
      BY <1>0, <1>13, CreateGoto, SucceedJob DEF Published, PostPcs
    <2>2. approved' \subseteq defined
      BY <1>0, <1>13, NoneAssumption DEF Published, DomainsTyped, NoTraces
    <2>3. QED
      BY <1>13, <2>1, <2>2, KeptTyped DEF Published, hypervisor, DomainsTyped
  <1>14. CASE Cleanup(r)
    <2>1. JobsTyped'
      BY <1>14, FailJob DEF Cleanup
    <2>2. CASE Undefined(Vm(r))
      BY <1>0, <1>14, <2>1, <2>2, UndefinedTyped DEF Cleanup
    <2>3. CASE /\ UNCHANGED <<defined, disks, autostart, creator, noted>>
               /\ active' \subseteq active /\ outside' \subseteq outside \cup Strangers(r)
      BY <1>14, <2>1, <2>3, KeptTyped DEF Cleanup, DomainsTyped, Strangers
    <2>4. QED
      BY <1>14, <2>2, <2>3 DEF Cleanup
  <1>15. CASE StartVm(r)
    <2>1. JobsTyped'
      BY <1>15, SucceedJob DEF StartVm
    <2>2. active' \subseteq defined /\ outside' \subseteq defined
      BY <1>15 DEF StartVm, CanStart, Strangers, DomainsTyped
    <2>3. QED
      BY <1>15, <2>1, <2>2, KeptTyped DEF StartVm, DomainsTyped
  <1>16. QED
    BY <1>1, <1>2, <1>3, <1>4, <1>5, <1>6, <1>7, <1>8, <1>9, <1>10, <1>11, <1>12, <1>13,
       <1>14, <1>15 DEF CreateStep

\* Calls of Delete, and the end of a request.
LEMMA DeleteTyped ==
  ASSUME JobsTyped, DomainsTyped, NoTraces, NEW r \in Requests, DeleteStep(r) \/ EndRequest(r)
  PROVE JobsTyped' /\ DomainsTyped' /\ NoTraces'
  <1>1. CASE GetVolumes(r)
    <2>1. JobsTyped'
      BY <1>1, JobParts, GetVolumesJob DEF GetVolumes, DeletePcs, DomainsTyped
    <2>2. QED
      BY <1>1, <2>1, KeptTyped DEF GetVolumes, hypervisor, history, DomainsTyped
  <1>2. CASE GetVolumesFails(r) \/ DeleteNextVolumeFails(r)
    <2>1. JobsTyped'
      BY <1>2, FailJob DEF GetVolumesFails, DeleteNextVolumeFails
    <2>2. QED
      BY <1>2, <2>1, KeptTyped
      DEF GetVolumesFails, DeleteNextVolumeFails, hypervisor, history, DomainsTyped
  <1>3. CASE UndefineVm(r)
    <2>1. JobsTyped' /\ Vm(r) \in Vms
      BY <1>3, UndefineVmJob, JobParts DEF UndefineVm, DeletePcs
    <2>2. QED
      BY <1>3, <2>1, UndefinedTyped DEF UndefineVm
  <1>4. CASE UndefineVmFails(r)
    <2>1. JobsTyped'
      BY <1>4, FailJob DEF UndefineVmFails
    <2>2. active' \subseteq defined /\ outside' \subseteq defined
      BY <1>4 DEF UndefineVmFails, DomainsTyped
    <2>3. QED
      BY <1>4, <2>1, <2>2, KeptTyped DEF UndefineVmFails, DomainsTyped
  <1>5. CASE DeleteNextVolume(r)
    <2>1. JobsTyped' /\ Head(jobs[r].volumes) \in Paths
      BY <1>5, DeleteNextVolumeJob
    <2>2. QED
      BY <1>5, <2>1, RemovedTyped DEF DeleteNextVolume
  <1>6. CASE DeleteDone(r) \/ EndRequest(r)
    <2>1. JobsTyped'
      BY <1>6, SucceedJob, EndJob DEF DeleteDone
    <2>2. QED
      BY <1>6, <2>1, KeptTyped DEF DeleteDone, EndRequest, hypervisor, history, DomainsTyped
  <1>7. QED
    BY <1>1, <1>2, <1>3, <1>4, <1>5, <1>6 DEF DeleteStep

\* What arrives from outside.
LEMMA ArrivalTyped ==
  ASSUME JobsTyped, DomainsTyped, NoTraces, Arrival
  PROVE JobsTyped' /\ DomainsTyped' /\ NoTraces'
  <1>1. ASSUME NEW r \in Requests, NEW f \in CreateForms, BeginCreate(r, f)
        PROVE JobsTyped' /\ DomainsTyped' /\ NoTraces'
    <2>1. JobsTyped' /\ f.attach \in Seq(Paths)
      BY <1>1, BeginCreateJob
    <2>2. ToSet(f.attach) \subseteq Paths
      BY <2>1, LenProperties DEF ToSet
    <2>3. QED
      BY <1>1, <2>1, <2>2, KeptTyped DEF BeginCreate, hypervisor, DomainsTyped
  <1>2. ASSUME NEW r \in Requests, NEW f \in DeleteForms, BeginDelete(r, f)
        PROVE JobsTyped' /\ DomainsTyped' /\ NoTraces'
    <2>1. JobsTyped'
      BY <1>2, BeginDeleteJob
    <2>2. QED
      BY <1>2, <2>1, KeptTyped DEF BeginDelete, hypervisor, history, DomainsTyped
  <1>3. ASSUME jobs' = jobs PROVE JobsTyped'
    BY <1>3 DEF JobsTyped, FormOK
  <1>4. ASSUME NEW v \in Vms, NEW on \in BOOLEAN,
               UserStart(v) \/ UserPoweroff(v) \/ UserUpdate(v, on)
        PROVE JobsTyped' /\ DomainsTyped' /\ NoTraces'
    BY <1>3, <1>4, KeptTyped
    DEF UserStart, UserPoweroff, UserUpdate, CanStart, SetAutostart, DomainsTyped
  <1>5. ASSUME NEW v \in Vms, NEW p \in Paths, UserAttach(v, p)
        PROVE JobsTyped' /\ DomainsTyped' /\ NoTraces'
    BY <1>3, <1>5, AttachedTyped DEF UserAttach, Attached, DomainsTyped
  <1>6. ASSUME NEW v \in Vms, NEW p \in Paths, UserDetach(v, p)
        PROVE JobsTyped' /\ DomainsTyped' /\ NoTraces'
    <2>1. Keep(disks[v], Paths \ {p}) \in Seq(Paths)
      BY KeepPlaces DEF DomainsTyped
    <2>2. DomainsTyped' /\ NoTraces'
      BY <1>6, <2>1 DEF UserDetach, DomainsTyped, NoTraces
    <2>3. QED
      BY <1>3, <1>6, <2>2 DEF UserDetach
  <1>7. ASSUME NEW p \in Paths, UserDeleteVolume(p)
        PROVE JobsTyped' /\ DomainsTyped' /\ NoTraces'
    BY <1>3, <1>7, RemovedTyped DEF UserDeleteVolume
  <1>8. ASSUME NEW m \in VolumeForms, UserMakeVolume(m)
        PROVE JobsTyped' /\ DomainsTyped' /\ NoTraces'
    <2>1. VolsGrow
      BY <1>8, VolumeFormsAssumption, MadeVols DEF UserMakeVolume
    <2>2. QED
      BY <1>3, <1>8, <2>1, KeptTyped DEF UserMakeVolume, history, VolsGrow, DomainsTyped
  <1>9. ASSUME HostReboot PROVE JobsTyped' /\ DomainsTyped' /\ NoTraces'
    BY <1>3, <1>9, KeptTyped DEF HostReboot, DomainsTyped
  <1>10. ASSUME Crash PROVE JobsTyped' /\ DomainsTyped' /\ NoTraces'
    BY <1>10, CrashJobs, KeptTyped DEF Crash, hypervisor, history, DomainsTyped
  <1>11. QED
    BY <1>1, <1>2, <1>4, <1>5, <1>6, <1>7, <1>8, <1>9, <1>10 DEF Arrival, UserStep

LEMMA NextTyped ==
  ASSUME Typed, [Next]_vars
  PROVE Typed'
  <1>1. CASE ops < MaxOps /\ ops' = ops + 1 /\ Arrival
    <2>1. ops' \in 0 .. MaxOps
      BY <1>1, BoundAssumption DEF Typed
    <2>2. QED
      BY <1>1, <2>1, ArrivalTyped DEF Typed
  <1>2. ASSUME UNCHANGED ops,
               NEW r \in Requests, CreateStep(r) \/ DeleteStep(r) \/ EndRequest(r)
        PROVE Typed'
    BY <1>2, CreateTyped, DeleteTyped DEF Typed
  <1>3. CASE UNCHANGED vars
    BY <1>3 DEF Typed, JobsTyped, FormOK, DomainsTyped, NoTraces, vars, hypervisor, history
  <1>4. QED
    BY <1>1, <1>2, <1>3 DEF Next

LEMMA InitTyped ==
  ASSUME Init
  PROVE Typed
  <1>1. NoJob \in JobStates /\ <<>> \in Seq(Paths)
    BY EmptySeq DEF NoJob, JobStates, JobPcs
  <1>2. JobsTyped
    BY <1>1 DEF Init, JobsTyped, FormOK, NoJob, CreatePcs, DeletePcs
  <1>3. DomainsTyped /\ NoTraces
    BY <1>1 DEF Init, DomainsTyped, NoTraces
  <1>4. QED
    BY <1>2, <1>3, BoundAssumption DEF Init, Typed

\* The type invariant holds throughout.
THEOREM TypeCorrect == Spec => []TypeOK
  <1>1. Spec => []Typed
    BY InitTyped, NextTyped, PTL DEF Spec
  <1>2. QED
    BY <1>1, TypedIsTypeOK, PTL

-----------------------------------------------------------------------------
(* The second part of the invariant: to whom a volume belongs              *)

\* Volumes that a request still puts into a domain or deletes.
Claims(r) == (IF jobs[r].pc \in {"make"} \cup DeletingPcs THEN ToSet(jobs[r].volumes) ELSE {})
             \cup (IF jobs[r].pc \in {"upload", "attach"} THEN {Cd[Vm(r)]} ELSE {})

\* Where a volume may come to belong to two, and the hypervisor knows it.
Explained == byPath \cup lost

HasDisk(v, p) == p \in ToSet(disks[v])

\* A volume that is gone belongs to nobody.
GoneUnclaimed ==
    \A p \in Paths \ Explained : ~ Exists(p) =>
       /\ \A v \in Vms : ~ HasDisk(v, p)
       /\ \A r \in Requests : p \notin Claims(r)

\* A volume belongs to one domain or to one request, except that several may
\* delete the same and those that will undefine a domain have its disks.
OneOwner ==
    \A p \in Paths \ Explained :
       /\ \A v, w \in Vms : HasDisk(v, p) /\ HasDisk(w, p) => v = w
       /\ \A r \in Requests, v \in Vms :
             p \in Claims(r) /\ HasDisk(v, p) => jobs[r].pc = "undefine" /\ v = Vm(r)
       /\ \A r, q \in Requests :
             p \in Claims(r) /\ p \in Claims(q) /\ jobs[r].pc \notin DeletingPcs => r = q

\* No sequence of volumes has one of them twice, but for those in X.
NotTwice(s, X) == \A i, j \in DOMAIN s : s[i] = s[j] => i = j \/ s[i] \in X

NoneTwice ==
    /\ \A v \in Vms : NotTwice(disks[v], Explained)
    /\ \A r \in Requests :
          jobs[r].pc \in {"make"} \cup DeletingPcs => NotTwice(jobs[r].volumes, Explained)

SharingInv == GoneUnclaimed /\ OneOwner /\ NoneTwice

-----------------------------------------------------------------------------
(* Steps that give nobody a volume                                         *)

\* Everything a domain or a request has after the step, it had before.
DisksShrink(v) == \A p \in Paths \ Explained' : HasDisk(v, p)' => HasDisk(v, p)

ClaimsShrink(r) ==
    \A p \in Paths \ Explained' : p \in Claims(r)' =>
       /\ p \in Claims(r)
       /\ jobs[r].pc \in DeletingPcs => jobs'[r].pc \in DeletingPcs
       /\ jobs[r].pc = "undefine" =>
            (jobs'[r].pc = "undefine" /\ Vm(r)' = Vm(r)) \/ p \notin ToSet(disks'[Vm(r)])

\* A sequence that is not new, or has nothing twice.
DisksOnce(v) == disks'[v] = disks[v] \/ NotTwice(disks'[v], Explained')

VolumesOnce(r) ==
    jobs'[r].pc \in {"make"} \cup DeletingPcs =>
       \/ jobs[r].pc \in {"make"} \cup DeletingPcs /\ jobs'[r].volumes = jobs[r].volumes
       \/ NotTwice(jobs'[r].volumes, Explained')

StillOnce == (\A v \in Vms : DisksOnce(v)) /\ (\A r \in Requests : VolumesOnce(r))

\* byPath and lost only grow.
ExplainedGrows == Explained \subseteq Explained'

LEMMA OnceStays ==
  ASSUME ExplainedGrows, NEW s, NotTwice(s, Explained)
  PROVE NotTwice(s, Explained')
  BY DEF NotTwice, ExplainedGrows

LEMMA OnceKept ==
  ASSUME NoneTwice, ExplainedGrows, StillOnce
  PROVE NoneTwice'
  <1>1. ASSUME NEW v \in Vms PROVE NotTwice(disks'[v], Explained')
    BY OnceStays DEF NoneTwice, StillOnce, DisksOnce
  <1>2. ASSUME NEW r \in Requests, jobs'[r].pc \in {"make"} \cup DeletingPcs
        PROVE NotTwice(jobs'[r].volumes, Explained')
    BY <1>2, OnceStays DEF NoneTwice, StillOnce, VolumesOnce
  <1>3. QED
    BY <1>1, <1>2 DEF NoneTwice

LEMMA ShrinkKeepsOwners ==
  ASSUME OneOwner, ExplainedGrows,
         \A v \in Vms : DisksShrink(v), \A r \in Requests : ClaimsShrink(r)
  PROVE OneOwner'
  <1>1. ASSUME NEW p \in Paths \ Explained', NEW v \in Vms, NEW w \in Vms,
               HasDisk(v, p)', HasDisk(w, p)'
        PROVE v = w
    BY <1>1 DEF OneOwner, ExplainedGrows, DisksShrink
  <1>2. ASSUME NEW p \in Paths \ Explained', NEW r \in Requests, NEW v \in Vms,
               p \in Claims(r)', HasDisk(v, p)'
        PROVE jobs'[r].pc = "undefine" /\ v = Vm(r)'
    <2>1. p \in Claims(r) /\ HasDisk(v, p)
      BY <1>2 DEF DisksShrink, ClaimsShrink
    <2>2. jobs[r].pc = "undefine" /\ v = Vm(r)
      BY <2>1 DEF OneOwner, ExplainedGrows
    <2>3. QED
      BY <1>2, <2>2 DEF ClaimsShrink, HasDisk, DeletingPcs
  <1>3. ASSUME NEW p \in Paths \ Explained', NEW r \in Requests, NEW q \in Requests,
               p \in Claims(r)', p \in Claims(q)', jobs'[r].pc \notin DeletingPcs
        PROVE r = q
    <2>1. p \in Claims(r) /\ p \in Claims(q) /\ jobs[r].pc \notin DeletingPcs
      BY <1>3 DEF ClaimsShrink
    <2>2. QED
      BY <2>1 DEF OneOwner, ExplainedGrows
  <1>4. QED
    BY <1>1, <1>2, <1>3 DEF OneOwner

LEMMA ShrinkKeepsGone ==
  ASSUME GoneUnclaimed, ExplainedGrows, VolsGrow,
         \A v \in Vms : DisksShrink(v), \A r \in Requests : ClaimsShrink(r)
  PROVE GoneUnclaimed'
  BY DEF GoneUnclaimed, ExplainedGrows, VolsGrow, DisksShrink, ClaimsShrink, Exists

\* Nothing changes for a request that does no step.
LEMMA OthersShrink ==
  ASSUME NEW q \in Requests, jobs'[q] = jobs[q]
  PROVE ClaimsShrink(q) /\ VolumesOnce(q) /\ Claims(q)' = Claims(q) /\ Vm(q)' = Vm(q)
  BY DEF ClaimsShrink, VolumesOnce, Claims, Vm, Form

LEMMA SameDisks ==
  ASSUME NEW v, disks'[v] = disks[v]
  PROVE DisksShrink(v) /\ DisksOnce(v) /\ \A p : HasDisk(v, p)' <=> HasDisk(v, p)
  BY DEF DisksShrink, DisksOnce, HasDisk

\* A request that ends, or is past the calls that claim a volume, claims none.
LEMMA NoClaims ==
  ASSUME NEW r \in Requests,
         jobs'[r].pc \notin {"make", "upload", "attach"} \cup DeletingPcs
  PROVE Claims(r)' = {} /\ ClaimsShrink(r) /\ VolumesOnce(r)
  BY DEF Claims, ClaimsShrink, VolumesOnce

\* Together: no volume goes away and nobody gets one.
LEMMA ShrinkSharing ==
  ASSUME SharingInv, ExplainedGrows, VolsGrow, StillOnce,
         \A v \in Vms : DisksShrink(v), \A r \in Requests : ClaimsShrink(r)
  PROVE SharingInv'
  BY OnceKept, ShrinkKeepsOwners, ShrinkKeepsGone DEF SharingInv

\* As above, where only r does something and no disks change.
LEMMA QuietSharing ==
  ASSUME SharingInv, ExplainedGrows, VolsGrow, NEW r \in Requests,
         disks' = disks, \A q \in Requests \ {r} : jobs'[q] = jobs[q],
         ClaimsShrink(r), VolumesOnce(r)
  PROVE SharingInv'
  <1>1. \A v \in Vms : DisksShrink(v) /\ DisksOnce(v)
    BY SameDisks
  <1>2. \A q \in Requests : ClaimsShrink(q) /\ VolumesOnce(q)
    BY OthersShrink
  <1>3. QED
    BY <1>1, <1>2, ShrinkSharing DEF StillOnce

-----------------------------------------------------------------------------
(* Steps that give a volume to somebody                                    *)

\* r makes a volume under a free path, for its domain.
LEMMA ClaimNew ==
  ASSUME SharingInv, ExplainedGrows, VolsGrow, NEW r \in Requests, NEW p0 \in Paths,
         ~ Exists(p0), vols'[p0] # "absent", disks' = disks,
         \A q \in Requests \ {r} : jobs'[q] = jobs[q],
         Claims(r)' \subseteq Claims(r) \cup {p0},
         jobs[r].pc \notin DeletingPcs, jobs'[r].pc \notin DeletingPcs,
         VolumesOnce(r)
  PROVE SharingInv'
  <1>0. /\ \A v \in Vms : DisksOnce(v)
        /\ \A v \in Vms, p \in Paths : HasDisk(v, p)' <=> HasDisk(v, p)
        /\ \A q \in Requests \ {r} : VolumesOnce(q) /\ Claims(q)' = Claims(q) /\ Vm(q)' = Vm(q)
    BY SameDisks, OthersShrink
  <1>1. NoneTwice'
    BY <1>0, OnceKept DEF SharingInv, StillOnce
  <1>2. p0 \notin Explained' =>
           /\ \A v \in Vms : ~ HasDisk(v, p0)
           /\ \A q \in Requests : p0 \notin Claims(q)
    BY DEF SharingInv, GoneUnclaimed, ExplainedGrows
  <1>3. GoneUnclaimed'
    <2>1. SUFFICES ASSUME NEW p \in Paths \ Explained', ~ Exists(p)'
                   PROVE /\ \A v \in Vms : ~ HasDisk(v, p)'
                         /\ \A q \in Requests : p \notin Claims(q)'
      BY DEF GoneUnclaimed
    <2>2. p # p0 /\ ~ Exists(p)
      BY <2>1 DEF Exists, VolsGrow
    <2>3. /\ \A v \in Vms : ~ HasDisk(v, p)
          /\ \A q \in Requests : p \notin Claims(q)
      BY <2>1, <2>2 DEF SharingInv, GoneUnclaimed, ExplainedGrows
    <2>4. QED
      BY <1>0, <2>1, <2>2, <2>3
  <1>4. OneOwner'
    <2>1. ASSUME NEW p \in Paths \ Explained', NEW v \in Vms, NEW w \in Vms,
                 HasDisk(v, p)', HasDisk(w, p)'
          PROVE v = w
      BY <1>0, <2>1 DEF SharingInv, OneOwner, ExplainedGrows
    <2>2. ASSUME NEW p \in Paths \ Explained', NEW q \in Requests, NEW v \in Vms,
                 p \in Claims(q)', HasDisk(v, p)'
          PROVE jobs'[q].pc = "undefine" /\ v = Vm(q)'
      <3>1. HasDisk(v, p) /\ p # p0
        BY <1>0, <1>2, <2>2
      <3>2. p \in Claims(q)
        BY <1>0, <2>2, <3>1
      <3>3. jobs[q].pc = "undefine" /\ v = Vm(q)
        BY <2>2, <3>1, <3>2 DEF SharingInv, OneOwner, ExplainedGrows
      <3>4. q # r
        BY <3>3 DEF DeletingPcs
      <3>5. QED
        BY <1>0, <3>3, <3>4
    <2>3. ASSUME NEW p \in Paths \ Explained', NEW q \in Requests, NEW s \in Requests,
                 p \in Claims(q)', p \in Claims(s)', jobs'[q].pc \notin DeletingPcs
          PROVE q = s
      <3>1. CASE p = p0
        BY <1>0, <1>2, <2>3, <3>1
      <3>2. CASE p # p0
        <4>1. p \in Claims(q) /\ p \in Claims(s)
          BY <1>0, <2>3, <3>2
        <4>2. jobs[q].pc \notin DeletingPcs
          BY <2>3
        <4>3. QED
          BY <2>3, <4>1, <4>2 DEF SharingInv, OneOwner, ExplainedGrows
      <3>3. QED
        BY <3>1, <3>2
    <2>4. QED
      BY <2>1, <2>2, <2>3 DEF OneOwner
  <1>5. QED
    BY <1>1, <1>3, <1>4 DEF SharingInv

\* What r claimed becomes part of domain v0.
LEMMA ClaimsMove ==
  ASSUME SharingInv, ExplainedGrows, VolsGrow, NEW r \in Requests, NEW v0 \in Vms,
         \A v \in Vms \ {v0} : disks'[v] = disks[v],
         \A p \in Paths \ Explained' : HasDisk(v0, p)' => HasDisk(v0, p) \/ p \in Claims(r),
         DisksOnce(v0),
         jobs[r].pc \notin DeletingPcs,
         jobs'[r].pc \notin {"make", "upload", "attach"} \cup DeletingPcs,
         \A q \in Requests \ {r} : jobs'[q] = jobs[q]
  PROVE SharingInv'
  <1>0. /\ Claims(r)' = {} /\ \A q \in Requests : VolumesOnce(q)
        /\ \A v \in Vms : DisksOnce(v)
        /\ \A v \in Vms \ {v0}, p \in Paths : HasDisk(v, p)' <=> HasDisk(v, p)
        /\ \A q \in Requests \ {r} : Claims(q)' = Claims(q) /\ Vm(q)' = Vm(q)
    BY SameDisks, OthersShrink, NoClaims
  <1>1. NoneTwice'
    BY <1>0, OnceKept DEF SharingInv, StillOnce
  <1>2. GoneUnclaimed'
    <2>1. SUFFICES ASSUME NEW p \in Paths \ Explained', ~ Exists(p)'
                   PROVE /\ \A v \in Vms : ~ HasDisk(v, p)'
                         /\ \A q \in Requests : p \notin Claims(q)'
      BY DEF GoneUnclaimed
    <2>2. ~ Exists(p)
      BY <2>1 DEF Exists, VolsGrow
    <2>3. /\ \A v \in Vms : ~ HasDisk(v, p)
          /\ \A q \in Requests : p \notin Claims(q)
      BY <2>1, <2>2 DEF SharingInv, GoneUnclaimed, ExplainedGrows
    <2>4. QED
      BY <1>0, <2>1, <2>3
  <1>3. OneOwner'
    <2>1. ASSUME NEW p \in Paths \ Explained', p \in Claims(r)
          PROVE /\ \A v \in Vms : ~ HasDisk(v, p)
                /\ \A q \in Requests \ {r} : p \notin Claims(q)
      BY <2>1 DEF SharingInv, OneOwner, ExplainedGrows, DeletingPcs
    <2>2. ASSUME NEW p \in Paths \ Explained', NEW v \in Vms, NEW w \in Vms,
                 HasDisk(v, p)', HasDisk(w, p)'
          PROVE v = w
      <3>1. CASE p \in Claims(r)
        BY <1>0, <2>1, <2>2, <3>1
      <3>2. CASE p \notin Claims(r)
        <4>1. HasDisk(v, p) /\ HasDisk(w, p)
          BY <1>0, <2>2, <3>2
        <4>2. QED
          BY <2>2, <4>1 DEF SharingInv, OneOwner, ExplainedGrows
      <3>3. QED
        BY <3>1, <3>2
    <2>3. ASSUME NEW p \in Paths \ Explained', NEW q \in Requests, NEW v \in Vms,
                 p \in Claims(q)', HasDisk(v, p)'
          PROVE jobs'[q].pc = "undefine" /\ v = Vm(q)'
      <3>1. q # r /\ p \in Claims(q)
        BY <1>0, <2>3
      <3>2. HasDisk(v, p)
        BY <1>0, <2>1, <2>3, <3>1
      <3>3. jobs[q].pc = "undefine" /\ v = Vm(q)
        BY <2>3, <3>1, <3>2 DEF SharingInv, OneOwner, ExplainedGrows
      <3>4. QED
        BY <1>0, <3>1, <3>3
    <2>4. ASSUME NEW p \in Paths \ Explained', NEW q \in Requests, NEW s \in Requests,
                 p \in Claims(q)', p \in Claims(s)', jobs'[q].pc \notin DeletingPcs
          PROVE q = s
      <3>1. q # r /\ s # r
        BY <1>0, <2>4
      <3>2. QED
        BY <1>0, <2>4, <3>1 DEF SharingInv, OneOwner, ExplainedGrows
    <2>5. QED
      BY <2>2, <2>3, <2>4 DEF OneOwner
  <1>4. QED
    BY <1>1, <1>2, <1>3 DEF SharingInv

\* A Delete learns the disks of its domain.
LEMMA ClaimDisks ==
  ASSUME SharingInv, JobsTyped, DomainsTyped, NEW r \in Requests, GetVolumes(r)
  PROVE SharingInv'
  <1>1. Vm(r) \in Vms /\ jobs[r].pc = "get" /\ disks[Vm(r)] \in Seq(Paths)
    BY JobParts DEF GetVolumes, DeletePcs, DomainsTyped
  <1>2. Becomes(r, "undefine", Form(r), jobs[r].at, disks[Vm(r)], FALSE)
    BY <1>1, GetVolumesJob
  <1>3. /\ vols' = vols /\ disks' = disks /\ Explained' = Explained
        /\ \A v \in Vms, p \in Paths : HasDisk(v, p)' <=> HasDisk(v, p)
    BY DEF GetVolumes, hypervisor, history, Explained, HasDisk
  <1>4. /\ Claims(r)' = ToSet(disks[Vm(r)]) /\ Claims(r) = {}
        /\ jobs'[r].pc = "undefine" /\ Vm(r)' = Vm(r)
    BY <1>1, <1>2 DEF Claims, Becomes, DeletingPcs, Vm, Form
  <1>5. \A q \in Requests \ {r} : /\ VolumesOnce(q) /\ Claims(q)' = Claims(q)
                                  /\ jobs'[q] = jobs[q] /\ Vm(q)' = Vm(q)
    BY <1>2, OthersShrink DEF Becomes
  <1>6. NoneTwice'
    <2>1. VolumesOnce(r)
      BY <1>1, <1>2, <1>3 DEF VolumesOnce, Becomes, SharingInv, NoneTwice
    <2>2. \A v \in Vms : DisksOnce(v)
      BY <1>3, SameDisks
    <2>3. QED
      BY <1>3, <1>5, <2>1, <2>2, OnceKept DEF SharingInv, StillOnce, ExplainedGrows
  <1>7. GoneUnclaimed'
    BY <1>3, <1>4, <1>5, <1>1 DEF SharingInv, GoneUnclaimed, Exists, HasDisk
  <1>8. OneOwner'
    <2>1. ASSUME NEW p \in Paths \ Explained', NEW v \in Vms, NEW w \in Vms,
                 HasDisk(v, p)', HasDisk(w, p)'
          PROVE v = w
      BY <1>3, <2>1 DEF SharingInv, OneOwner
    <2>2. ASSUME NEW p \in Paths \ Explained', NEW q \in Requests, NEW v \in Vms,
                 p \in Claims(q)', HasDisk(v, p)'
          PROVE jobs'[q].pc = "undefine" /\ v = Vm(q)'
      <3>1. CASE q = r
        <4>1. HasDisk(Vm(r), p) /\ HasDisk(v, p)
          BY <1>3, <1>4, <2>2, <3>1 DEF HasDisk
        <4>2. QED
          BY <1>1, <1>3, <1>4, <2>2, <3>1, <4>1 DEF SharingInv, OneOwner
      <3>2. CASE q # r
        BY <1>3, <1>5, <2>2, <3>2 DEF SharingInv, OneOwner
      <3>3. QED
        BY <3>1, <3>2
    <2>3. ASSUME NEW p \in Paths \ Explained', NEW q \in Requests, NEW s \in Requests,
                 p \in Claims(q)', p \in Claims(s)', jobs'[q].pc \notin DeletingPcs
          PROVE q = s
      <3>1. q # r /\ jobs[q].pc \notin DeletingPcs /\ p \in Claims(q)
        BY <1>4, <1>5, <2>3 DEF DeletingPcs
      <3>2. CASE s = r
        <4>1. HasDisk(Vm(r), p)
          BY <1>4, <2>3, <3>2 DEF HasDisk
        <4>2. QED
          BY <1>1, <1>3, <2>3, <3>1, <4>1 DEF SharingInv, OneOwner, DeletingPcs
      <3>3. CASE s # r
        BY <1>3, <1>5, <2>3, <3>1, <3>3 DEF SharingInv, OneOwner
      <3>4. QED
        BY <3>2, <3>3
    <2>4. QED
      BY <2>1, <2>2, <2>3 DEF OneOwner
  <1>9. QED
    BY <1>6, <1>7, <1>8 DEF SharingInv

\* A volume goes away; who deletes it does not need it any more.
LEMMA RemovedSharing ==
  ASSUME SharingInv, DomainsTyped, NoTraces, NEW r, NEW p0 \in Paths, Removed(r, p0),
         byPath' = byPath, disks' = disks,
         \A q \in Requests : ClaimsShrink(q) /\ VolumesOnce(q),
         r \in Requests => p0 \notin Claims(r)' \/ p0 \in Explained',
         \A q \in Requests \ {r} : Claims(q)' = Claims(q)
  PROVE SharingInv'
  <1>1. ExplainedGrows
    BY DEF ExplainedGrows, Explained, Removed
  <1>2. \A v \in Vms : DisksShrink(v) /\ DisksOnce(v)
    BY SameDisks
  <1>3. OneOwner' /\ NoneTwice'
    BY <1>1, <1>2, OnceKept, ShrinkKeepsOwners DEF SharingInv, StillOnce
  <1>4. GoneUnclaimed'
    <2>1. SUFFICES ASSUME NEW p \in Paths \ Explained', ~ Exists(p)'
                   PROVE /\ \A v \in Vms : ~ HasDisk(v, p)'
                         /\ \A q \in Requests : p \notin Claims(q)'
      BY DEF GoneUnclaimed
    <2>2. CASE p = p0
      <3>1. /\ \A v \in defined : p \notin ToSet(disks[v])
            /\ \A q \in Requests \ {r} : p \notin InHand(q)
        BY <2>1, <2>2 DEF Removed, Explained
      <3>2. \A v \in Vms : ~ HasDisk(v, p)
        BY <3>1, ToSetEmpty DEF HasDisk, NoTraces
      <3>3. \A q \in Requests \ {r} : p \notin Claims(q)
        BY <3>1 DEF InHand, Claims, Vm, Form
      <3>4. QED
        BY <1>2, <2>1, <2>2, <3>2, <3>3 DEF DisksShrink
    <2>3. CASE p # p0
      <3>1. ~ Exists(p)
        BY <2>1, <2>3 DEF Exists, Removed, DomainsTyped
      <3>2. QED
        BY <1>1, <1>2, <2>1, <3>1
        DEF SharingInv, GoneUnclaimed, ExplainedGrows, DisksShrink, ClaimsShrink
    <2>4. QED
      BY <2>2, <2>3
  <1>5. QED
    BY <1>3, <1>4 DEF SharingInv

-----------------------------------------------------------------------------
(* Every step keeps the second part                                        *)

\* A sequence with one volume more, or without its first one.
LEMMA OnceAppend ==
  ASSUME NEW s \in Seq(Paths), NEW p \in Paths, NEW X, NotTwice(s, X),
         p \notin ToSet(s) \/ p \in X
  PROVE NotTwice(Append(s, p), X)
  <1> DEFINE t == Append(s, p)
  <1>1. /\ DOMAIN t = 1 .. Len(s) + 1 /\ DOMAIN s = 1 .. Len(s) /\ Len(s) \in Nat
        /\ \A i \in 1 .. Len(s) : t[i] = s[i]
        /\ t[Len(s) + 1] = p
    BY AppendProperties, LenProperties
  <1>2. \A i \in 1 .. Len(s) : s[i] \in ToSet(s)
    BY InToSet
  <1> HIDE DEF t
  <1>3. \A i \in 1 .. Len(s) + 1 : i = Len(s) + 1 \/ i \in 1 .. Len(s)
    BY <1>1
  <1>4. QED
    BY <1>1, <1>2, <1>3 DEF NotTwice, t

LEMMA OnceTail ==
  ASSUME NEW s \in Seq(Paths), NEW X, s # <<>>, NotTwice(s, X)
  PROVE NotTwice(Tail(s), X) /\ (Head(s) \in ToSet(Tail(s)) => Head(s) \in X)
  <1>1. /\ Tail(s) \in Seq(Paths) /\ Len(Tail(s)) = Len(s) - 1 /\ Len(s) \in Nat \ {0}
        /\ \A i \in 1 .. Len(Tail(s)) : Tail(s)[i] = s[i + 1]
        /\ DOMAIN Tail(s) = 1 .. Len(Tail(s)) /\ DOMAIN s = 1 .. Len(s)
        /\ Head(s) = s[1]
    BY HeadTailProperties, LenProperties, EmptySeq, ToSetHeadTail
  <1>2. NotTwice(Tail(s), X)
    <2>1. SUFFICES ASSUME NEW i \in 1 .. Len(s) - 1, NEW j \in 1 .. Len(s) - 1,
                          Tail(s)[i] = Tail(s)[j]
                   PROVE i = j \/ Tail(s)[i] \in X
      BY <1>1 DEF NotTwice
    <2>2. i + 1 \in 1 .. Len(s) /\ j + 1 \in 1 .. Len(s) /\ s[i + 1] = s[j + 1]
      BY <1>1, <2>1
    <2>3. i + 1 = j + 1 \/ s[i + 1] \in X
      BY <1>1, <2>2 DEF NotTwice
    <2>4. QED
      BY <1>1, <2>1, <2>3
  <1>3. ASSUME Head(s) \in ToSet(Tail(s)) PROVE Head(s) \in X
    <2>1. PICK i \in 1 .. Len(Tail(s)) : Tail(s)[i] = Head(s)
      BY <1>1, <1>3, InToSet
    <2>2. 1 \in 1 .. Len(s) /\ i + 1 \in 1 .. Len(s) /\ i + 1 # 1 /\ s[i + 1] = s[1]
      BY <1>1, <2>1
    <2>3. QED
      BY <1>1, <2>2 DEF NotTwice
  <1>4. QED
    BY <1>2, <1>3

LEMMA OnceKeep ==
  ASSUME NEW s \in Seq(Paths), NEW S, NEW X, NotTwice(s, X)
  PROVE NotTwice(Keep(s, S), X)
  <1>1. DOMAIN Keep(s, S) = 1 .. Len(Keep(s, S)) /\ DOMAIN s = 1 .. Len(s)
    BY KeepPlaces, LenProperties
  <1>2. SUFFICES ASSUME NEW i \in 1 .. Len(Keep(s, S)), NEW j \in 1 .. Len(Keep(s, S)),
                        i # j, Keep(s, S)[i] = Keep(s, S)[j]
                 PROVE Keep(s, S)[i] \in X
    BY <1>1 DEF NotTwice
  <1>3. PICK k \in 1 .. Len(s), l \in 1 .. Len(s) :
             k # l /\ s[k] = Keep(s, S)[i] /\ s[l] = Keep(s, S)[i]
    BY <1>2, KeepTwice
  <1>4. QED
    BY <1>1, <1>3 DEF NotTwice

\* A request fails, is over, or goes on to a call that claims nothing.
LEMMA QuietStep ==
  ASSUME SharingInv, DomainsTyped, NEW r \in Requests, VolsGrow, disks' = disks,
         byPath' = byPath, lost' = lost, \A q \in Requests \ {r} : jobs'[q] = jobs[q],
         jobs'[r].pc \notin {"make", "upload", "attach"} \cup DeletingPcs
  PROVE SharingInv'
  BY NoClaims, QuietSharing DEF ExplainedGrows, Explained

LEMMA MakeVolumeSharing ==
  ASSUME SharingInv, JobsTyped, DomainsTyped, NEW r \in Requests, MakeVolume(r)
  PROVE SharingInv'
  <1> DEFINE s == jobs[r].volumes
             p == Form(r).make[jobs[r].at].to
  <1>1. /\ p \in Paths /\ jobs[r].pc = "make" /\ s \in Seq(Paths)
        /\ jobs'[r].pc = "make" /\ jobs'[r].volumes = Append(s, p)
        /\ \A q \in Requests \ {r} : jobs'[q] = jobs[q]
    BY MakeVolumeJob, JobParts DEF MakeVolume, Making, Becomes
  <1>2. /\ ~ Exists(p) /\ vols'[p] # "absent" /\ VolsGrow
        /\ disks' = disks /\ Explained' = Explained
    BY <1>1, MadeVols DEF MakeVolume, CanMake, Made, DomainsTyped, history, Explained
  <1> HIDE DEF p
  <1>3. Claims(r) = ToSet(s) /\ Claims(r)' = ToSet(s) \cup {p}
    BY <1>1, ToSetAppend DEF Claims
  <1>4. VolumesOnce(r)
    <2>1. p \notin ToSet(s) \/ p \in Explained
      BY <1>1, <1>2, <1>3 DEF SharingInv, GoneUnclaimed
    <2>2. NotTwice(s, Explained)
      BY <1>1 DEF SharingInv, NoneTwice
    <2>3. NotTwice(Append(s, p), Explained)
      BY <1>1, <2>1, <2>2, OnceAppend
    <2>4. QED
      BY <1>1, <1>2, <2>3 DEF VolumesOnce
  <1>5. jobs[r].pc \notin DeletingPcs /\ jobs'[r].pc \notin DeletingPcs /\ ExplainedGrows
    BY <1>1, <1>2 DEF DeletingPcs, ExplainedGrows
  <1>6. QED
    BY <1>1, <1>2, <1>3, <1>4, <1>5, ClaimNew

\* The disks of the request become those of its new domain.
LEMMA DefineSharing ==
  ASSUME SharingInv, JobsTyped, DomainsTyped, NoTraces, NEW r \in Requests, NEW v \in Vms,
         Define(r, v), jobs[r].pc = "make", vols' = vols, byPath' = byPath, lost' = lost,
         jobs'[r].pc \notin {"make", "upload", "attach"} \cup DeletingPcs,
         \A q \in Requests \ {r} : jobs'[q] = jobs[q]
  PROVE SharingInv'
  <1>1. /\ disks'[v] = jobs[r].volumes /\ \A w \in Vms \ {v} : disks'[w] = disks[w]
        /\ Explained' = Explained /\ VolsGrow
    BY SameVols DEF Define, DomainsTyped, Explained
  <1>2. \A p \in Paths \ Explained' : HasDisk(v, p)' => p \in Claims(r)
    BY <1>1 DEF HasDisk, Claims
  <1>3. DisksOnce(v)
    BY <1>1 DEF DisksOnce, SharingInv, NoneTwice
  <1>4. jobs[r].pc \notin DeletingPcs /\ ExplainedGrows
    BY <1>1 DEF DeletingPcs, ExplainedGrows
  <1>5. QED
    BY <1>1, <1>2, <1>3, <1>4, ClaimsMove

LEMMA CreateCdSharing ==
  ASSUME SharingInv, JobsTyped, DomainsTyped, NEW r \in Requests, CreateCd(r)
  PROVE SharingInv'
  <1> DEFINE p == Cd[Vm(r)]
  <1>1. jobs[r].pc = "cd" /\ Vm(r) \in Vms /\ p \in Paths
    BY JobParts, PathsAssumption DEF CreateCd, CreatePcs
  <1>2. /\ ~ Exists(p) /\ vols'[p] # "absent" /\ VolsGrow
        /\ disks' = disks /\ Explained' = Explained
    BY <1>1, WrittenVols DEF CreateCd, DomainsTyped, history, Explained
  <1>3. Becomes(r, "upload", Form(r), 1, jobs[r].volumes, jobs[r].isNew)
    BY <1>1, CreateGoto DEF CreateCd, CreatePcs, PostPcs
  <1>4. Claims(r)' \subseteq Claims(r) \cup {p}
    BY <1>3 DEF Becomes, Claims, Vm, Form, DeletingPcs
  <1>5. VolumesOnce(r) /\ jobs'[r].pc \notin DeletingPcs /\ jobs[r].pc \notin DeletingPcs
    BY <1>1, <1>3 DEF Becomes, VolumesOnce, DeletingPcs
  <1>6. \A q \in Requests \ {r} : jobs'[q] = jobs[q]
    BY <1>3 DEF Becomes
  <1>7. ExplainedGrows
    BY <1>2 DEF ExplainedGrows
  <1>8. QED
    BY <1>1, <1>2, <1>4, <1>5, <1>6, <1>7, ClaimNew

LEMMA UploadCdSharing ==
  ASSUME SharingInv, JobsTyped, DomainsTyped, NEW r \in Requests, UploadCd(r)
  PROVE SharingInv'
  <1>1. jobs[r].pc = "upload" /\ Vm(r) \in Vms /\ Cd[Vm(r)] \in Paths
    BY JobParts, PathsAssumption DEF UploadCd, CreatePcs
  <1>2. VolsGrow /\ disks' = disks /\ Explained' = Explained
    BY <1>1, WrittenVols DEF UploadCd, history, Explained
  <1>3. Becomes(r, "attach", Form(r), 1, jobs[r].volumes, jobs[r].isNew)
    BY <1>1, CreateGoto DEF UploadCd, CreatePcs, PostPcs
  <1>4. Claims(r)' = Claims(r)
    BY <1>1, <1>3 DEF Becomes, Claims, Vm, Form, DeletingPcs
  <1>5. ClaimsShrink(r) /\ VolumesOnce(r) /\ ExplainedGrows
    BY <1>1, <1>2, <1>3, <1>4 DEF Becomes, ClaimsShrink, VolumesOnce, DeletingPcs, ExplainedGrows
  <1>6. \A q \in Requests \ {r} : jobs'[q] = jobs[q]
    BY <1>3 DEF Becomes
  <1>7. QED
    BY <1>2, <1>5, <1>6, QuietSharing

LEMMA AttachCdSharing ==
  ASSUME SharingInv, JobsTyped, DomainsTyped, NEW r \in Requests, AttachCd(r)
  PROVE SharingInv'
  <1>0. PICK v \in Vms, p \in Paths : v = Vm(r) /\ p = Cd[Vm(r)]
    BY JobParts, PathsAssumption DEF AttachCd, CreatePcs
  <1>1. jobs[r].pc = "attach" /\ disks[v] \in Seq(Paths)
    BY DEF AttachCd, DomainsTyped
  <1>2. Becomes(r, "publish", Form(r), 1, jobs[r].volumes, jobs[r].isNew)
    BY <1>1, CreateGoto DEF AttachCd, CreatePcs, PostPcs
  <1>3. /\ disks'[v] = Append(disks[v], p) /\ \A w \in Vms \ {v} : disks'[w] = disks[w]
        /\ VolsGrow /\ Explained' = Explained
    BY <1>0, <1>1, SameVols DEF AttachCd, Attached, DomainsTyped, Explained
  <1>4. p \in Claims(r)
    BY <1>0, <1>1 DEF Claims
  <1>5. \A x \in Paths : HasDisk(v, x)' => HasDisk(v, x) \/ x = p
    BY <1>1, <1>3, ToSetAppend DEF HasDisk
  <1>6. DisksOnce(v)
    <2>1. p \notin ToSet(disks[v]) \/ p \in Explained
      BY <1>1, <1>4 DEF SharingInv, OneOwner, HasDisk
    <2>2. NotTwice(Append(disks[v], p), Explained)
      BY <1>1, <2>1, OnceAppend DEF SharingInv, NoneTwice
    <2>3. QED
      BY <1>3, <2>2 DEF DisksOnce
  <1>7. /\ jobs[r].pc \notin DeletingPcs /\ ExplainedGrows
        /\ jobs'[r].pc \notin {"make", "upload", "attach"} \cup DeletingPcs
        /\ \A q \in Requests \ {r} : jobs'[q] = jobs[q]
    BY <1>1, <1>2, <1>3 DEF Becomes, DeletingPcs, ExplainedGrows
  <1>8. QED
    BY <1>1, <1>3, <1>4, <1>5, <1>6, <1>7, ClaimsMove

\* The disks of an undefined domain belong to nobody, or to who deletes them.
LEMMA UndefineSharing ==
  ASSUME SharingInv, DomainsTyped, NEW r \in Requests, NEW v \in Vms, Undefined(v),
         vols' = vols, byPath' = byPath, lost' = lost,
         \A q \in Requests \ {r} : jobs'[q] = jobs[q],
         ClaimsShrink(r), VolumesOnce(r)
  PROVE SharingInv'
  <1>1. ExplainedGrows /\ VolsGrow
    BY SameVols DEF ExplainedGrows, Explained
  <1>2. /\ disks'[v] = <<>> /\ \A w \in Vms \ {v} : disks'[w] = disks[w]
    BY DEF Undefined, DomainsTyped
  <1>3. DisksShrink(v) /\ DisksOnce(v)
    <2>1. NotTwice(<<>>, Explained')
      BY EmptySeq, LenProperties DEF NotTwice
    <2>2. QED
      BY <1>2, <2>1, ToSetEmpty DEF DisksShrink, DisksOnce, HasDisk
  <1>4. \A w \in Vms : DisksShrink(w) /\ DisksOnce(w)
    BY <1>2, <1>3, SameDisks
  <1>5. \A q \in Requests : ClaimsShrink(q) /\ VolumesOnce(q)
    BY OthersShrink
  <1>6. QED
    BY <1>1, <1>4, <1>5, ShrinkSharing DEF StillOnce

LEMMA CreateSharing ==
  ASSUME SharingInv, JobsTyped, DomainsTyped, NoTraces, NEW r \in Requests, CreateStep(r)
  PROVE SharingInv'
  <1>1. CASE MakeVolume(r)
    BY <1>1, MakeVolumeSharing
  <1>2. CASE MakeVolumeFails(r)
    <2>1. VolsGrow
      BY <1>2, MakeTyped, MadeVols, SameVols DEF MakeVolumeFails
    <2>2. Becomes(r, "idle", NONE, 1, <<>>, FALSE)
      BY <1>2, FailJob DEF MakeVolumeFails
    <2>3. QED
      BY <1>2, <2>1, <2>2, QuietStep DEF MakeVolumeFails, Becomes, DeletingPcs, history
  <1>3. CASE SaveNew(r)
    <2>1. Vm(r) \in Vms /\ jobs[r].pc = "make" /\ Define(r, Vm(r))
      BY <1>3, JobParts DEF SaveNew, Saving, CreatePcs
    <2>2. Becomes(r, "cd", Form(r), jobs[r].at, jobs[r].volumes, TRUE)
      BY <1>3, SaveNewJob
    <2>3. QED
      BY <1>3, <2>1, <2>2, DefineSharing DEF SaveNew, Becomes, DeletingPcs
  <1>4. CASE SaveExisting(r)
    <2>1. Becomes(r, "cd", Form(r), 1, jobs[r].volumes, jobs[r].isNew)
      BY <1>4, CreateGoto DEF SaveExisting, Saving, CreatePcs, PostPcs
    <2>2. QED
      BY <1>4, <2>1, SameVols, QuietStep DEF SaveExisting, Becomes, DeletingPcs
  <1>5. CASE SaveFails(r)
    <2>1. Becomes(r, "idle", NONE, 1, <<>>, FALSE)
      BY <1>5, FailJob DEF SaveFails
    <2>2. CASE UNCHANGED <<defined, disks, creator>>
      BY <1>5, <2>1, <2>2, SameVols, QuietStep DEF SaveFails, Becomes, DeletingPcs
    <2>3. CASE Define(r, Vm(r))
      <3>1. Vm(r) \in Vms /\ jobs[r].pc = "make"
        BY <1>5, JobParts DEF SaveFails, Saving, CreatePcs
      <3>2. QED
        BY <1>5, <2>1, <2>3, <3>1, DefineSharing DEF SaveFails, Becomes, DeletingPcs
    <2>4. QED
      BY <1>5, <2>2, <2>3 DEF SaveFails
  <1>6. CASE CreateCd(r)
    BY <1>6, CreateCdSharing
  <1>7. CASE CreateCdFails(r)
    <2>1. Becomes(r, "idle", NONE, 1, <<>>, FALSE) /\ Vm(r) \in Vms /\ Cd[Vm(r)] \in Paths
      BY <1>7, FailJob, JobParts, PathsAssumption DEF CreateCdFails, CreatePcs
    <2>2. VolsGrow
      BY <1>7, <2>1, SameVols, WrittenVols DEF CreateCdFails
    <2>3. QED
      BY <1>7, <2>1, <2>2, QuietStep DEF CreateCdFails, Becomes, DeletingPcs, history
  <1>8. CASE UploadCd(r)
    BY <1>8, UploadCdSharing
  <1>9. CASE AttachCd(r)
    BY <1>9, AttachCdSharing
  <1>10. CASE UploadCdFails(r) \/ AttachCdFails(r) \/ StartVmFails(r)
    <2>1. Becomes(r, "idle", NONE, 1, <<>>, FALSE)
      BY <1>10, FailJob DEF UploadCdFails, AttachCdFails, StartVmFails
    <2>2. QED
      BY <1>10, <2>1, SameVols, QuietStep
      DEF UploadCdFails, AttachCdFails, StartVmFails, Becomes, DeletingPcs, hypervisor, history
  <1>11. CASE RunScript(r)
    <2>1. Becomes(r, "publish", Form(r), jobs[r].at + 1, jobs[r].volumes, jobs[r].isNew)
      BY <1>11, RunScriptJob
    <2>2. QED
      BY <1>11, <2>1, SameVols, QuietStep DEF RunScript, Becomes, DeletingPcs, hypervisor, history
  <1>12. CASE ScriptFails(r)
    <2>1. Becomes(r, "cleanup", Form(r), 1, jobs[r].volumes, jobs[r].isNew)
      BY <1>12, CreateGoto DEF ScriptFails, CreatePcs, PostPcs
    <2>2. QED
      BY <1>12, <2>1, SameVols, QuietStep
      DEF ScriptFails, Becomes, DeletingPcs, hypervisor, history
  <1>13. CASE Published(r)
    <2>1. \/ Becomes(r, "start", Form(r), 1, jobs[r].volumes, jobs[r].isNew)
          \/ Becomes(r, "done", Form(r), 1, <<>>, jobs[r].isNew)
      BY <1>13, CreateGoto, SucceedJob DEF Published, CreatePcs, PostPcs
    <2>2. QED
      BY <1>13, <2>1, SameVols, QuietStep DEF Published, Becomes, DeletingPcs, hypervisor
  <1>14. CASE Cleanup(r)
    <2>1. Becomes(r, "idle", NONE, 1, <<>>, FALSE) /\ Vm(r) \in Vms
      BY <1>14, FailJob, JobParts DEF Cleanup, CreatePcs
    <2>2. CASE Undefined(Vm(r))
      BY <1>14, <2>1, <2>2, NoClaims, UndefineSharing DEF Cleanup, Becomes, DeletingPcs
    <2>3. CASE disks' = disks
      BY <1>14, <2>1, <2>3, SameVols, QuietStep DEF Cleanup, Becomes, DeletingPcs
    <2>4. QED
      BY <1>14, <2>2, <2>3 DEF Cleanup
  <1>15. CASE StartVm(r)
    <2>1. Becomes(r, "done", Form(r), 1, <<>>, jobs[r].isNew)
      BY <1>15, SucceedJob DEF StartVm
    <2>2. QED
      BY <1>15, <2>1, SameVols, QuietStep DEF StartVm, Becomes, DeletingPcs
  <1>16. QED
    BY <1>1, <1>2, <1>3, <1>4, <1>5, <1>6, <1>7, <1>8, <1>9, <1>10, <1>11, <1>12, <1>13,
       <1>14, <1>15 DEF CreateStep

LEMMA DeleteNextVolumeSharing ==
  ASSUME SharingInv, JobsTyped, DomainsTyped, NoTraces, NEW r \in Requests, DeleteNextVolume(r)
  PROVE SharingInv'
  <1>1. PICK s \in Seq(Paths), p \in Paths :
             s = jobs[r].volumes /\ p = Head(jobs[r].volumes) /\ s # <<>>
    BY JobParts, DeleteNextVolumeJob DEF DeleteNextVolume
  <1>2. /\ jobs[r].pc = "delvols" /\ Removed(r, p) /\ byPath' = byPath /\ disks' = disks
        /\ jobs'[r].pc = "delvols" /\ jobs'[r].volumes = Tail(s)
        /\ \A q \in Requests \ {r} : jobs'[q] = jobs[q]
    BY <1>1, DeleteNextVolumeJob DEF DeleteNextVolume, Becomes
  <1>3. ExplainedGrows
    BY <1>2 DEF ExplainedGrows, Explained, Removed
  <1>4. Claims(r) = ToSet(s) /\ Claims(r)' = ToSet(Tail(s))
    BY <1>1, <1>2 DEF Claims, DeletingPcs
  <1>5. NotTwice(s, Explained')
    BY <1>1, <1>2, <1>3, OnceStays DEF SharingInv, NoneTwice, DeletingPcs
  <1>6. NotTwice(Tail(s), Explained') /\ (p \in ToSet(Tail(s)) => p \in Explained')
    BY <1>1, <1>5, OnceTail
  <1>7. ClaimsShrink(r) /\ VolumesOnce(r)
    BY <1>1, <1>2, <1>4, <1>6, ToSetHeadTail DEF ClaimsShrink, VolumesOnce, DeletingPcs
  <1>8. \A q \in Requests \ {r} : ClaimsShrink(q) /\ VolumesOnce(q) /\ Claims(q)' = Claims(q)
    BY <1>2, OthersShrink
  <1>9. QED
    BY <1>1, <1>2, <1>4, <1>6, <1>7, <1>8, RemovedSharing

LEMMA DeleteSharing ==
  ASSUME SharingInv, JobsTyped, DomainsTyped, NoTraces, NEW r \in Requests,
         DeleteStep(r) \/ EndRequest(r)
  PROVE SharingInv'
  <1>1. CASE GetVolumes(r)
    BY <1>1, ClaimDisks
  <1>2. CASE GetVolumesFails(r) \/ DeleteNextVolumeFails(r)
    <2>1. Becomes(r, "idle", NONE, 1, <<>>, FALSE)
      BY <1>2, FailJob DEF GetVolumesFails, DeleteNextVolumeFails
    <2>2. QED
      BY <1>2, <2>1, SameVols, QuietStep
      DEF GetVolumesFails, DeleteNextVolumeFails, Becomes, DeletingPcs, hypervisor, history
  <1>3. CASE UndefineVm(r)
    <2>1. PICK v \in Vms : v = Vm(r)
      BY <1>3, JobParts DEF UndefineVm, DeletePcs
    <2>2. Becomes(r, "delvols", Form(r), 1, jobs[r].volumes, FALSE) /\ jobs[r].pc = "undefine"
      BY <1>3, UndefineVmJob DEF UndefineVm
    <2>3. disks'[v] = <<>>
      BY <1>3, <2>1 DEF UndefineVm, Undefined, DomainsTyped
    <2>4. ClaimsShrink(r) /\ VolumesOnce(r)
      <3>1. Claims(r)' = Claims(r)
        BY <2>2 DEF Claims, Becomes, DeletingPcs
      <3>2. QED
        BY <2>1, <2>2, <2>3, <3>1, ToSetEmpty
        DEF ClaimsShrink, VolumesOnce, Becomes, DeletingPcs
    <2>5. QED
      BY <1>3, <2>1, <2>2, <2>4, UndefineSharing DEF UndefineVm, Becomes
  <1>4. CASE UndefineVmFails(r)
    <2>1. Becomes(r, "idle", NONE, 1, <<>>, FALSE)
      BY <1>4, FailJob DEF UndefineVmFails
    <2>2. QED
      BY <1>4, <2>1, SameVols, QuietStep DEF UndefineVmFails, Becomes, DeletingPcs
  <1>5. CASE DeleteNextVolume(r)
    BY <1>5, DeleteNextVolumeSharing
  <1>6. CASE DeleteDone(r) \/ EndRequest(r)
    <2>1. \/ Becomes(r, "done", Form(r), 1, <<>>, jobs[r].isNew)
          \/ Becomes(r, "idle", NONE, 1, <<>>, FALSE)
      BY <1>6, SucceedJob, EndJob DEF DeleteDone
    <2>2. QED
      BY <1>6, <2>1, SameVols, QuietStep
      DEF DeleteDone, EndRequest, Becomes, DeletingPcs, hypervisor, history
  <1>7. QED
    BY <1>1, <1>2, <1>3, <1>4, <1>5, <1>6 DEF DeleteStep

\* Requests of one call: no job changes.
LEMMA UserSharing ==
  ASSUME SharingInv, JobsTyped, DomainsTyped, NoTraces, UserStep
  PROVE SharingInv'
  <1>1. \A q \in Requests : ClaimsShrink(q) /\ VolumesOnce(q) /\ Claims(q)' = Claims(q)
    <2>1. jobs' = jobs
      BY DEF UserStep, UserStart, UserPoweroff, UserUpdate, UserAttach, UserDetach,
             UserDeleteVolume, UserMakeVolume
    <2>2. QED
      BY <2>1, OthersShrink
  <1>2. ASSUME VolsGrow, disks' = disks, ExplainedGrows PROVE SharingInv'
    <2>1. \A v \in Vms : DisksShrink(v) /\ DisksOnce(v)
      BY <1>2, SameDisks
    <2>2. QED
      BY <1>1, <1>2, <2>1, ShrinkSharing DEF StillOnce
  <1>3. ASSUME NEW v \in Vms, NEW on \in BOOLEAN,
               UserStart(v) \/ UserPoweroff(v) \/ UserUpdate(v, on)
        PROVE SharingInv'
    BY <1>2, <1>3, SameVols
    DEF UserStart, UserPoweroff, UserUpdate, ExplainedGrows, Explained
  <1>4. ASSUME NEW v \in Vms, NEW p \in Paths, UserAttach(v, p)
        PROVE SharingInv'
    <2>1. disks[v] \in Seq(Paths) /\ VolsGrow /\ ExplainedGrows /\ p \in Explained'
      BY <1>4, SameVols DEF UserAttach, DomainsTyped, ExplainedGrows, Explained
    <2>2. disks'[v] = Append(disks[v], p) /\ \A w \in Vms \ {v} : disks'[w] = disks[w]
      BY <1>4 DEF UserAttach, Attached, DomainsTyped
    <2>3. DisksShrink(v)
      BY <2>1, <2>2, ToSetAppend DEF DisksShrink, HasDisk
    <2>4. DisksOnce(v)
      <3>1. NotTwice(disks[v], Explained')
        BY <2>1, OnceStays DEF SharingInv, NoneTwice
      <3>2. QED
        BY <2>1, <2>2, <3>1, OnceAppend DEF DisksOnce
    <2>5. \A w \in Vms : DisksShrink(w) /\ DisksOnce(w)
      BY <2>2, <2>3, <2>4, SameDisks
    <2>6. QED
      BY <1>1, <2>1, <2>5, ShrinkSharing DEF StillOnce
  <1>5. ASSUME NEW v \in Vms, NEW p \in Paths, UserDetach(v, p)
        PROVE SharingInv'
    <2>1. disks[v] \in Seq(Paths) /\ VolsGrow /\ ExplainedGrows
      BY <1>5, SameVols DEF UserDetach, DomainsTyped, ExplainedGrows, Explained
    <2>2. disks'[v] = Keep(disks[v], Paths \ {p}) /\ \A w \in Vms \ {v} : disks'[w] = disks[w]
      BY <1>5 DEF UserDetach, DomainsTyped
    <2>3. DisksShrink(v)
      BY <2>1, <2>2, ToSetKeep DEF DisksShrink, HasDisk
    <2>4. DisksOnce(v)
      <3>1. NotTwice(disks[v], Explained')
        BY <2>1, OnceStays DEF SharingInv, NoneTwice
      <3>2. QED
        BY <2>1, <2>2, <3>1, OnceKeep DEF DisksOnce
    <2>5. \A w \in Vms : DisksShrink(w) /\ DisksOnce(w)
      BY <2>2, <2>3, <2>4, SameDisks
    <2>6. QED
      BY <1>1, <2>1, <2>5, ShrinkSharing DEF StillOnce
  <1>6. ASSUME NEW p \in Paths, UserDeleteVolume(p)
        PROVE SharingInv'
    BY <1>1, <1>6, NoneAssumption, RemovedSharing DEF UserDeleteVolume
  <1>7. ASSUME NEW m \in VolumeForms, UserMakeVolume(m)
        PROVE SharingInv'
    <2>1. VolsGrow
      BY <1>7, VolumeFormsAssumption, MadeVols DEF UserMakeVolume
    <2>2. QED
      BY <1>2, <1>7, <2>1 DEF UserMakeVolume, history, ExplainedGrows, Explained
  <1>8. QED
    BY <1>3, <1>4, <1>5, <1>6, <1>7 DEF UserStep

LEMMA ArrivalSharing ==
  ASSUME SharingInv, JobsTyped, DomainsTyped, NoTraces, Arrival
  PROVE SharingInv'
  <1>1. ASSUME NEW r \in Requests, NEW f \in CreateForms, BeginCreate(r, f)
        PROVE SharingInv'
    <2>1. Becomes(r, "make", f, 1, f.attach, FALSE) /\ f.attach \in Seq(Paths)
      BY <1>1, BeginCreateJob
    <2>2. /\ ToSet(f.attach) \subseteq Explained' /\ ExplainedGrows
          /\ VolsGrow /\ disks' = disks
      BY <1>1, SameVols DEF BeginCreate, Explained, ExplainedGrows, hypervisor
    <2>3. ClaimsShrink(r)
      BY <2>1, <2>2 DEF ClaimsShrink, Claims, Becomes, DeletingPcs
    <2>4. VolumesOnce(r)
      <3>1. NotTwice(f.attach, Explained')
        BY <2>1, <2>2, LenProperties, InToSet DEF NotTwice
      <3>2. QED
        BY <2>1, <3>1 DEF VolumesOnce, Becomes
    <2>5. QED
      BY <2>1, <2>2, <2>3, <2>4, QuietSharing DEF Becomes
  <1>2. ASSUME NEW r \in Requests, NEW f \in DeleteForms, BeginDelete(r, f)
        PROVE SharingInv'
    <2>1. PICK l \in {"get", "undefine"} : Becomes(r, l, f, 1, <<>>, FALSE)
      BY <1>2, BeginDeleteJob
    <2>2. ExplainedGrows /\ VolsGrow /\ disks' = disks
      BY <1>2, SameVols DEF BeginDelete, Explained, ExplainedGrows, hypervisor, history
    <2>3. Claims(r)' = {}
      BY <2>1, ToSetEmpty DEF Claims, Becomes
    <2>4. VolumesOnce(r)
      <3>1. NotTwice(<<>>, Explained')
        BY EmptySeq, LenProperties DEF NotTwice
      <3>2. QED
        BY <2>1, <3>1 DEF VolumesOnce, Becomes
    <2>5. QED
      BY <2>1, <2>2, <2>3, <2>4, QuietSharing DEF Becomes, ClaimsShrink
  <1>3. CASE HostReboot
    <2>1. VolsGrow /\ ExplainedGrows /\ disks' = disks /\ jobs' = jobs
      BY <1>3, SameVols DEF HostReboot, Explained, ExplainedGrows
    <2>2. /\ \A v \in Vms : DisksShrink(v) /\ DisksOnce(v)
          /\ \A q \in Requests : ClaimsShrink(q) /\ VolumesOnce(q)
      BY <2>1, SameDisks, OthersShrink
    <2>3. QED
      BY <2>1, <2>2, ShrinkSharing DEF StillOnce
  <1>4. CASE Crash
    <2>1. VolsGrow /\ ExplainedGrows /\ disks' = disks
      BY <1>4, SameVols DEF Crash, hypervisor, history, Explained, ExplainedGrows
    <2>2. /\ \A v \in Vms : DisksShrink(v) /\ DisksOnce(v)
          /\ \A q \in Requests : ClaimsShrink(q) /\ VolumesOnce(q)
      BY <1>4, <2>1, CrashJobs, SameDisks, NoClaims DEF DeletingPcs
    <2>3. QED
      BY <2>1, <2>2, ShrinkSharing DEF StillOnce
  <1>5. QED
    BY <1>1, <1>2, <1>3, <1>4, UserSharing DEF Arrival

LEMMA NextSharing ==
  ASSUME Typed, SharingInv, [Next]_vars
  PROVE SharingInv'
  <1>1. CASE Arrival
    BY <1>1, ArrivalSharing DEF Typed
  <1>2. ASSUME NEW r \in Requests, CreateStep(r) \/ DeleteStep(r) \/ EndRequest(r)
        PROVE SharingInv'
    BY <1>2, CreateSharing, DeleteSharing DEF Typed
  <1>3. CASE UNCHANGED vars
    <2>1. VolsGrow /\ ExplainedGrows /\ disks' = disks /\ jobs' = jobs
      BY <1>3, SameVols DEF Typed, vars, hypervisor, history, Explained, ExplainedGrows
    <2>2. /\ \A v \in Vms : DisksShrink(v) /\ DisksOnce(v)
          /\ \A q \in Requests : ClaimsShrink(q) /\ VolumesOnce(q)
      BY <2>1, SameDisks, OthersShrink
    <2>3. QED
      BY <2>1, <2>2, ShrinkSharing DEF StillOnce
  <1>4. QED
    BY <1>1, <1>2, <1>3 DEF Next

LEMMA InitSharing ==
  ASSUME Init
  PROVE SharingInv
  <1>1. /\ \A v \in Vms : disks[v] = <<>> /\ ToSet(disks[v]) = {}
        /\ \A r \in Requests : jobs[r].pc = "idle"
    BY ToSetEmpty DEF Init, NoJob
  <1>2. \A r \in Requests : Claims(r) = {}
    BY <1>1 DEF Claims, DeletingPcs
  <1>3. GoneUnclaimed /\ OneOwner
    BY <1>1, <1>2 DEF GoneUnclaimed, OneOwner, HasDisk
  <1>4. NotTwice(<<>>, Explained)
    BY EmptySeq, LenProperties DEF NotTwice
  <1>5. NoneTwice
    BY <1>1, <1>4 DEF NoneTwice, DeletingPcs
  <1>6. QED
    BY <1>3, <1>5 DEF SharingInv

\* Two domains share a disk only where it was attached by its path or deleted
\* while somebody named it, however many requests interleave.
THEOREM SharingExplainedHolds == Spec => []SharingExplained
  <1>1. Spec => [](Typed /\ SharingInv)
    <2>1. Init => Typed /\ SharingInv
      BY InitTyped, InitSharing
    <2>2. Typed /\ SharingInv /\ [Next]_vars => (Typed /\ SharingInv)'
      BY NextTyped, NextSharing
    <2>3. QED
      BY <2>1, <2>2, PTL DEF Spec
  <1>2. Typed /\ SharingInv => SharingExplained
    <2>1. SUFFICES ASSUME Typed, SharingInv, NEW v \in defined, NEW w \in defined, v # w,
                          NEW p, p \in ToSet(disks[v]), p \in ToSet(disks[w])
                   PROVE p \in Explained
      BY DEF SharingExplained, Explained
    <2>2. v \in Vms /\ w \in Vms /\ p \in Paths
      BY <2>1, ToSetTyped DEF Typed, DomainsTyped
    <2>3. QED
      BY <2>1, <2>2 DEF SharingInv, OneOwner, HasDisk
  <1>3. QED
    BY <1>1, <1>2, PTL

-----------------------------------------------------------------------------
(* Which steps make a volume go away                                       *)

LEMMA CreateKeepsVols ==
  ASSUME JobsTyped, DomainsTyped, NEW r \in Requests, CreateStep(r)
  PROVE VolsGrow
  <1>0. Making(r) => Form(r).make[jobs[r].at].to \in Paths
    BY MakeTyped
  <1>1. jobs[r].pc \in CreatePcs => Cd[Vm(r)] \in Paths
    BY JobParts, PathsAssumption
  <1>2. CASE MakeVolume(r)
    BY <1>0, <1>2, MadeVols DEF MakeVolume
  <1>3. CASE MakeVolumeFails(r)
    BY <1>0, <1>3, SameVols, MadeVols DEF MakeVolumeFails
  <1>4. CASE CreateCd(r) \/ CreateCdFails(r)
    BY <1>1, <1>4, SameVols, WrittenVols DEF CreateCd, CreateCdFails, CreatePcs
  <1>5. CASE UploadCd(r)
    BY <1>1, <1>5, WrittenVols DEF UploadCd, CreatePcs
  <1>6. CASE vols' = vols
    BY <1>6, SameVols
  <1>7. QED
    BY <1>2, <1>3, <1>4, <1>5, <1>6
    DEF CreateStep, SaveNew, SaveExisting, SaveFails, UploadCdFails, AttachCd, AttachCdFails,
        RunScript, ScriptFails, Published, Cleanup, StartVm, StartVmFails, hypervisor

LEMMA OnlyDeletesRemove ==
  ASSUME Typed, [Next]_vars
  PROVE \/ VolsGrow
        \/ \E r \in Requests : DeleteNextVolume(r)
        \/ jobs' = jobs /\ \E p \in Paths : UserDeleteVolume(p)
  <1>1. CASE vols' = vols
    BY <1>1, SameVols DEF Typed
  <1>2. ASSUME NEW r \in Requests, CreateStep(r) PROVE VolsGrow
    BY <1>2, CreateKeepsVols DEF Typed
  <1>3. ASSUME NEW m \in VolumeForms, UserMakeVolume(m) PROVE VolsGrow
    BY <1>3, VolumeFormsAssumption, MadeVols DEF UserMakeVolume, Typed
  <1>4. ASSUME NEW r \in Requests, DeleteStep(r) \/ EndRequest(r)
        PROVE vols' = vols \/ DeleteNextVolume(r)
    BY <1>4 DEF DeleteStep, EndRequest, GetVolumes, GetVolumesFails, UndefineVm, UndefineVmFails,
                DeleteNextVolumeFails, DeleteDone, hypervisor
  <1>5. ASSUME UserStep
        PROVE \/ vols' = vols
              \/ \E m \in VolumeForms : UserMakeVolume(m)
              \/ jobs' = jobs /\ \E p \in Paths : UserDeleteVolume(p)
    BY <1>5 DEF UserStep, UserStart, UserPoweroff, UserUpdate, UserAttach, UserDetach,
                UserDeleteVolume
  <1>6. ASSUME Arrival
        PROVE vols' = vols \/ UserStep
    BY <1>6 DEF Arrival, BeginCreate, BeginDelete, HostReboot, Crash, hypervisor
  <1>7. CASE UNCHANGED vars
    BY <1>1, <1>7 DEF vars, hypervisor
  <1>8. QED
    BY <1>1, <1>2, <1>3, <1>4, <1>5, <1>6, <1>7 DEF Next

\* Deleting a domain with its volumes spares the disks of other domains, and no
\* request deletes a protected image.
THEOREM DeletesExplainedHolds == Spec => DeletesExplained
  <1> DEFINE Spares == \A r \in Requests, p \in Paths :
                         (jobs[r].pc = "delvols" /\ Exists(p) /\ vols'[p] = "absent" /\ jobs' # jobs)
                           => \A v \in defined : p \in ToSet(disks[v]) => p \in byPath \cup lost
             Survive == \A p \in Protected : Exists(p) => vols'[p] # "absent"
  <1>1. Spec => [](Typed /\ SharingInv)
    <2>1. Init => Typed /\ SharingInv
      BY InitTyped, InitSharing
    <2>2. Typed /\ SharingInv /\ [Next]_vars => (Typed /\ SharingInv)'
      BY NextTyped, NextSharing
    <2>3. QED
      BY <2>1, <2>2, PTL DEF Spec
  <1>2. Typed /\ SharingInv /\ [Next]_vars => Spares
    <2>1. SUFFICES ASSUME Typed, SharingInv, [Next]_vars, NEW p \in Paths,
                          Exists(p), vols'[p] = "absent", jobs' # jobs,
                          NEW v \in defined, p \in ToSet(disks[v])
                   PROVE p \in Explained
      BY DEF Explained
    <2>2. PICK r \in Requests : DeleteNextVolume(r)
      BY <2>1, OnlyDeletesRemove DEF VolsGrow
    <2>3. jobs[r].volumes \in Seq(Paths) /\ jobs[r].volumes # <<>> /\ jobs[r].pc = "delvols"
      BY <2>1, <2>2, JobParts DEF DeleteNextVolume, Typed
    <2>4. p = Head(jobs[r].volumes)
      BY <2>1, <2>2 DEF DeleteNextVolume, Removed, Exists, Typed, DomainsTyped
    <2>5. p \in Claims(r)
      BY <2>3, <2>4, ToSetHeadTail DEF Claims, DeletingPcs
    <2>6. QED
      BY <2>1, <2>3, <2>5 DEF SharingInv, OneOwner, HasDisk, Typed, DomainsTyped
  <1>3. Typed /\ [Next]_vars => Survive
    <2>1. SUFFICES ASSUME Typed, [Next]_vars, NEW p \in Protected, Exists(p), vols'[p] = "absent"
                   PROVE FALSE
      OBVIOUS
    <2>2. p \in Paths
      BY PathsAssumption
    <2>3. PICK q \in Paths : q \notin Protected /\ vols' = [vols EXCEPT ![q] = "absent"]
      BY <2>1, <2>2, OnlyDeletesRemove, DeleteNextVolumeJob
      DEF VolsGrow, DeleteNextVolume, UserDeleteVolume, Deletable, Removed, Typed
    <2>4. QED
      BY <2>1, <2>2, <2>3 DEF Exists, Typed, DomainsTyped
  <1> HIDE DEF Spares, Survive
  <1>4. Spec => [][Spares]_vars /\ [][Survive]_vars
    BY <1>1, <1>2, <1>3, PTL DEF Spec
  <1>5. QED
    BY <1>4 DEF DeletesExplained, DeleteSparesOthers, ProtectedSurvives, Spares, Survive

-----------------------------------------------------------------------------
(* The third part of the invariant: how far a Create is                    *)

\* The volumes of the first n clones and new volumes, after the ones named.
Asked(f, n) == f.attach \o [i \in 1 .. n |-> f.make[i].to]

InOrder(r) == /\ jobs[r].at <= Len(Form(r).make) + 1
              /\ jobs[r].volumes = Asked(Form(r), jobs[r].at - 1)

MakesInOrder == \A r \in Requests : jobs[r].pc = "make" => InOrder(r)

Complete(f) == /\ disks[f.vm] = Append(Asked(f, Len(f.make)), Cd[f.vm])
               /\ vols[Cd[f.vm]] = "data"

\* The domain runs only if the host started it.
BootOnly(v) == v \in active => v \in booted \cap autostart

\* How far the Create of r is with a domain that is its own.
Progress(r) ==
    LET f == Form(r)
        l == jobs[r].pc
    IN  /\ l \in PostPcs => BootOnly(f.vm) /\ (f.vm \in autostart <=> f.start)
        /\ l \in {"cd", "upload", "attach"} => disks[f.vm] = Asked(f, Len(f.make))
        /\ l = "attach" => vols[Cd[f.vm]] = "data"
        /\ l \in {"publish", "cleanup", "start", "done"} => Complete(f)
        /\ l = "start" => f.start /\ f.vm \in approved
        /\ l = "done" => /\ f.vm \in active <=> f.start
                         /\ f.vm \in autostart <=> f.start

Creating(r) == \/ jobs[r].pc \in PostPcs
               \/ jobs[r].pc = "done" /\ jobs[r].isNew

Own(r) == Creating(r) /\ Untouched(Vm(r)) /\ creator[Vm(r)] = r => Progress(r)

OwnProgress == \A r \in Requests : Own(r)

HasDisks(v) == \A p \in ToSet(disks[v]) : Exists(p)

RunsOK(v) == Untouched(v) =>
                /\ HasDisks(v)
                /\ v \in active => \/ /\ v \in approved
                                     /\ Cd[v] \in ToSet(disks[v])
                                     /\ vols[Cd[v]] = "data"
                                  \/ v \in booted \cap autostart

HalfMadeInv == /\ MakesInOrder
               /\ OwnProgress
               /\ \A v \in Vms : RunsOK(v)

-----------------------------------------------------------------------------
(* The volumes a form asks for                                             *)

LEMMA MadePath ==
  ASSUME NEW f \in CreateForms, NEW i \in 1 .. Len(f.make)
  PROVE f.make[i].to \in Paths
  <1>1. f.make \in Seq([from : Paths \cup {NONE}, to : Paths])
    BY FormsAssumption
  <1>2. f.make[i] \in [from : Paths \cup {NONE}, to : Paths]
    BY <1>1, ElementOfSeq
  <1>3. QED
    BY <1>2

LEMMA MadePaths ==
  ASSUME NEW f \in CreateForms, NEW n \in 0 .. Len(f.make)
  PROVE /\ [i \in 1 .. n |-> f.make[i].to] \in Seq(Paths)
        /\ Len([i \in 1 .. n |-> f.make[i].to]) = n
  <1> DEFINE t == [i \in 1 .. n |-> f.make[i].to]
  <1>1. n \in Nat /\ \A i \in 1 .. n : i \in 1 .. Len(f.make)
    BY FormsAssumption, LenProperties
  <1>2. \A i \in 1 .. n : f.make[i].to \in Paths
    BY <1>1, MadePath
  <1>3. t \in [1 .. n -> Paths] /\ DOMAIN t = 1 .. n
    BY <1>2
  <1>4. t \in Seq(Paths)
    BY <1>1, <1>3, SeqDef
  <1>5. QED
    BY <1>1, <1>3, <1>4, LenProperties

LEMMA AskedTyped ==
  ASSUME NEW f \in CreateForms, NEW n \in 0 .. Len(f.make)
  PROVE Asked(f, n) \in Seq(Paths)
  BY MadePaths, FormsAssumption, ConcatProperties DEF Asked

LEMMA AskedNone ==
  ASSUME NEW f \in CreateForms
  PROVE Asked(f, 0) = f.attach
  <1>1. [i \in 1 .. 0 |-> f.make[i].to] = <<>>
    OBVIOUS
  <1>2. QED
    BY <1>1, FormsAssumption, ConcatEmptySeq DEF Asked

\* One more element after two sequences in a row.
LEMMA ConcatAppend ==
  ASSUME NEW A, NEW s \in Seq(A), NEW t \in Seq(A), NEW e \in A
  PROVE s \o Append(t, e) = Append(s \o t, e)
  <1>1. <<e>> \in Seq(A) /\ s \o t \in Seq(A)
    BY ConcatProperties
  <1>2. Append(t, e) = t \o <<e>> /\ Append(s \o t, e) = (s \o t) \o <<e>>
    BY <1>1, AppendIsConcat
  <1>3. (s \o t) \o <<e>> = s \o (t \o <<e>>)
    BY <1>1, ConcatAssociative
  <1>4. QED
    BY <1>2, <1>3

LEMMA AskedNext ==
  ASSUME NEW f \in CreateForms, NEW n \in 1 .. Len(f.make)
  PROVE Asked(f, n) = Append(Asked(f, n - 1), f.make[n].to)
  <1> DEFINE t == [i \in 1 .. n |-> f.make[i].to]
             u == [i \in 1 .. n - 1 |-> f.make[i].to]
             e == f.make[n].to
  <1>1. Len(f.make) \in Nat /\ f.attach \in Seq(Paths)
    BY FormsAssumption, LenProperties
  <1>2. n \in 0 .. Len(f.make) /\ n - 1 \in 0 .. Len(f.make)
    BY <1>1
  <1>3. /\ t \in Seq(Paths) /\ Len(t) = n /\ u \in Seq(Paths) /\ Len(u) = n - 1
        /\ e \in Paths
    BY <1>2, MadePaths, MadePath
  <1>4. /\ \A i \in 1 .. n : t[i] = f.make[i].to
        /\ \A i \in 1 .. n - 1 : u[i] = f.make[i].to
    OBVIOUS
  <1>5. Asked(f, n) = f.attach \o t /\ Asked(f, n - 1) = f.attach \o u
    BY DEF Asked
  <1> HIDE DEF t, u
  <1>6. t = Append(u, e)
    <2>1. /\ Append(u, e) \in Seq(Paths) /\ Len(Append(u, e)) = n
          /\ \A i \in 1 .. n - 1 : Append(u, e)[i] = u[i]
          /\ Append(u, e)[n] = e
      BY <1>1, <1>2, <1>3, AppendProperties
    <2>2. \A i \in 1 .. n : i = n \/ i \in 1 .. n - 1
      BY <1>2
    <2>3. \A i \in 1 .. Len(t) : t[i] = Append(u, e)[i]
      BY <1>3, <1>4, <2>1, <2>2
    <2>4. QED
      BY <1>3, <2>1, <2>3, SeqEqual
  <1> HIDE DEF e
  <1>7. f.attach \o Append(u, e) = Append(f.attach \o u, e)
    <2>1. PICK s \in Seq(Paths) : s = f.attach
      BY <1>1
    <2>2. s \o Append(u, e) = Append(s \o u, e)
      BY <1>3, ConcatAppend
    <2>3. QED
      BY <2>1, <2>2
  <1>8. Asked(f, n) = Append(Asked(f, n - 1), e)
    BY <1>5, <1>6, <1>7
  <1>9. QED
    BY <1>8 DEF e

-----------------------------------------------------------------------------
(* Steps that leave a domain and its Create alone                          *)

\* If the domain is nobody else's after the step, the step left it alone.
DomainKept(v) ==
    Untouched(v)' => /\ Untouched(v)
                     /\ creator'[v] = creator[v]
                     /\ disks'[v] = disks[v]
                     /\ v \in active' <=> v \in active
                     /\ v \in autostart' <=> v \in autostart
                     /\ v \in approved => v \in approved'
                     /\ v \in booted => v \in booted'
                     /\ vols[Cd[v]] = "data" => vols'[Cd[v]] = "data"
                     /\ HasDisks(v) => HasDisks(v)'

\* The volumes of the domain stay, and nothing else concerns it.
LEMMA LeftDomain ==
  ASSUME NEW v \in Vms, vols[Cd[v]] = "data" => vols'[Cd[v]] = "data",
         \A p \in ToSet(disks[v]) : Exists(p) => vols'[p] # "absent",
         v \in defined' => v \in defined, disks'[v] = disks[v], creator'[v] = creator[v],
         v \in active' <=> v \in active, v \in autostart' <=> v \in autostart,
         v \in approved => v \in approved', v \in booted => v \in booted',
         v \in outside => v \in outside'
  PROVE DomainKept(v)
  <1>1. HasDisks(v) => HasDisks(v)'
    BY DEF HasDisks, Exists, ToSet
  <1>2. QED
    BY <1>1 DEF DomainKept, Untouched

LEMMA SameDomain ==
  ASSUME NEW v \in Vms, vols' = vols,
         v \in defined' => v \in defined, disks'[v] = disks[v], creator'[v] = creator[v],
         v \in active' <=> v \in active, v \in autostart' <=> v \in autostart,
         v \in approved => v \in approved', v \in booted => v \in booted',
         v \in outside => v \in outside'
  PROVE DomainKept(v)
  BY LeftDomain DEF Exists

LEMMA TouchedDomain ==
  ASSUME NEW v \in Vms, v \in outside' \/ v \notin defined'
  PROVE DomainKept(v)
  BY DEF DomainKept, Untouched

\* The calls that change no domain.
LEMMA SameDomains ==
  ASSUME DomainsTyped, VolsGrow, UNCHANGED <<defined, disks, active, autostart, creator>>,
         approved \subseteq approved', booted' = booted, outside \subseteq outside'
  PROVE \A v \in Vms : DomainKept(v)
  <1>1. ASSUME NEW v \in Vms PROVE ToSet(disks[v]) \subseteq Paths
    BY LenProperties DEF ToSet, DomainsTyped
  <1>2. QED
    BY <1>1, PathsAssumption, LeftDomain DEF VolsGrow

LEMMA KeptRuns ==
  ASSUME NEW v \in Vms, RunsOK(v), DomainKept(v)
  PROVE RunsOK(v)'
  BY DEF RunsOK, DomainKept

LEMMA KeptOwn ==
  ASSUME JobsTyped, OwnProgress, NEW q \in Requests, jobs'[q] = jobs[q],
         \A v \in Vms : DomainKept(v) \/ creator'[v] # q
  PROVE Own(q)'
  <1>1. SUFFICES ASSUME Creating(q), Untouched(Vm(q))', creator'[Vm(q)] = q
                 PROVE Progress(q)'
    BY DEF Own, Creating, Vm, Form
  <1>2. PICK v \in Vms, f \in CreateForms : v = Vm(q) /\ f = Form(q) /\ v = f.vm
    BY <1>1, JobParts DEF Creating, CreatePcs, PostPcs, Vm
  <1>3. Untouched(v)' /\ creator'[v] = q
    BY <1>1, <1>2 DEF Untouched, Vm, Form
  <1>4. DomainKept(v)
    BY <1>3
  <1>5. Untouched(Vm(q)) /\ creator[Vm(q)] = q
    BY <1>2, <1>3, <1>4 DEF DomainKept
  <1>6. Progress(q)
    BY <1>1, <1>5 DEF OwnProgress, Own
  <1>7. BootOnly(v) => BootOnly(v)'
    BY <1>3, <1>4 DEF DomainKept, BootOnly
  <1>8. QED
    BY <1>2, <1>3, <1>4, <1>6, <1>7 DEF Progress, DomainKept, Complete, Form

\* A step of r keeps the third part when it keeps what concerns r, and leaves
\* alone every domain but the one r defined.
LEMMA StepKeeps ==
  ASSUME JobsTyped, HalfMadeInv, NEW r \in Requests,
         \A q \in Requests \ {r} : jobs'[q] = jobs[q],
         \A v \in Vms : DomainKept(v) \/ (creator'[v] = r /\ RunsOK(v)'),
         Own(r)', jobs'[r].pc = "make" => InOrder(r)'
  PROVE HalfMadeInv'
  <1>1. MakesInOrder'
    BY DEF HalfMadeInv, MakesInOrder, InOrder, Form
  <1>2. OwnProgress'
    <2>1. ASSUME NEW q \in Requests, q # r PROVE Own(q)'
      BY <2>1, KeptOwn DEF HalfMadeInv
    <2>2. QED
      BY <2>1 DEF OwnProgress
  <1>3. ASSUME NEW v \in Vms PROVE RunsOK(v)'
    BY KeptRuns DEF HalfMadeInv
  <1>4. QED
    BY <1>1, <1>2, <1>3 DEF HalfMadeInv

\* The request ends, or does not get past the save of its domain.
LEMMA StepEnds ==
  ASSUME JobsTyped, HalfMadeInv, NEW r \in Requests,
         \A q \in Requests \ {r} : jobs'[q] = jobs[q],
         \A v \in Vms : DomainKept(v) \/ (creator'[v] = r /\ RunsOK(v)'),
         jobs'[r].pc \notin {"make"} \cup PostPcs,
         jobs'[r].pc = "done" => jobs'[r].isNew = FALSE
  PROVE HalfMadeInv'
  BY StepKeeps DEF Own, Creating

\* A Create goes on with a domain that is its own only if that was so before.
LEMMA WasOwn ==
  ASSUME JobsTyped, HalfMadeInv, NEW r \in Requests, jobs[r].pc \in PostPcs,
         NEW v \in Vms, v = Vm(r), DomainKept(v), Untouched(v)', creator'[v] = r
  PROVE Progress(r)
  BY DEF HalfMadeInv, OwnProgress, Own, Creating, DomainKept

LEMMA MakeVolumeHalf ==
  ASSUME HalfMadeInv, JobsTyped, DomainsTyped, NEW r \in Requests, MakeVolume(r)
  PROVE HalfMadeInv'
  <1> DEFINE f == Form(r)
             n == jobs[r].at
             p == Form(r).make[jobs[r].at].to
  <1>1. Becomes(r, "make", f, n + 1, Append(jobs[r].volumes, p), jobs[r].isNew) /\ p \in Paths
    BY MakeVolumeJob
  <1>2. f \in CreateForms /\ n \in Nat \ {0} /\ n <= Len(f.make) /\ jobs[r].pc = "make"
    BY MakeTyped, JobParts DEF MakeVolume, Making
  <1>3. Len(f.make) \in Nat
    BY <1>2, FormsAssumption, LenProperties
  <1>4. n \in 1 .. Len(f.make)
    BY <1>2, <1>3
  <1>5. jobs[r].volumes = Asked(f, n - 1)
    BY <1>2 DEF HalfMadeInv, MakesInOrder, InOrder
  <1>6. Asked(f, n) = Append(jobs[r].volumes, p)
    BY <1>2, <1>4, <1>5, AskedNext
  <1>7. InOrder(r)'
    <2>1. Form(r)' = f /\ jobs'[r].at = n + 1 /\ jobs'[r].volumes = Asked(f, n)
      BY <1>1, <1>6 DEF Becomes, Form
    <2>2. (n + 1) - 1 = n /\ n + 1 <= Len(f.make) + 1
      BY <1>3, <1>4
    <2>3. QED
      BY <2>1, <2>2 DEF InOrder, Asked
  <1>8. \A v \in Vms : DomainKept(v)
    BY <1>1, MadeVols, SameDomains DEF MakeVolume, history
  <1>9. Own(r)' /\ \A q \in Requests \ {r} : jobs'[q] = jobs[q]
    BY <1>1 DEF Becomes, Own, Creating, PostPcs
  <1>10. QED
    BY <1>7, <1>8, <1>9, StepKeeps

\* A domain that Define makes does not run.
LEMMA DefineHalf ==
  ASSUME DomainsTyped, NEW r \in Requests, NEW v \in Vms, Define(r, v),
         vols' = vols, active' = active, noted' = noted, outside' = outside, JobsTyped,
         \A w \in Vms \ {v} : w \in autostart' <=> w \in autostart
  PROVE \A w \in Vms : DomainKept(w) \/ (creator'[w] = r /\ RunsOK(w)')
  <1>1. creator'[v] = r /\ v \notin active'
    BY DEF Define, DomainsTyped
  <1>2. \A w \in Vms \ {v} : DomainKept(w)
    BY SameDomain DEF Define, DomainsTyped
  <1>3. HasDisks(v)'
    <2>1. disks'[v] = jobs[r].volumes /\ \A p \in ToSet(jobs[r].volumes) : Exists(p)
      BY DEF Define, DomainsTyped
    <2>2. QED
      BY <2>1 DEF HasDisks, Exists, ToSet
  <1>4. QED
    BY <1>1, <1>2, <1>3 DEF RunsOK

LEMMA SaveNewHalf ==
  ASSUME HalfMadeInv, JobsTyped, DomainsTyped, NEW r \in Requests, SaveNew(r)
  PROVE HalfMadeInv'
  <1>1. PICK v \in Vms, f \in CreateForms : v = Vm(r) /\ f = Form(r) /\ v = f.vm
    BY JobParts DEF SaveNew, Saving, CreatePcs, Vm
  <1>2. Becomes(r, "cd", f, jobs[r].at, jobs[r].volumes, TRUE)
    BY <1>1, SaveNewJob
  <1>3. Define(r, v) /\ jobs[r].pc = "make" /\ jobs[r].at > Len(f.make) /\ jobs[r].at \in Nat
    BY <1>1, JobParts DEF SaveNew, Saving
  <1>4. autostart' = IF f.start THEN autostart \cup {v} ELSE autostart \ {v}
    BY <1>1 DEF SaveNew, SetAutostart
  <1>5. \A w \in Vms : DomainKept(w) \/ (creator'[w] = r /\ RunsOK(w)')
    BY <1>3, <1>4, DefineHalf DEF SaveNew
  <1>6. disks'[v] = Asked(f, Len(f.make))
    <2>1. Len(f.make) \in Nat
      BY FormsAssumption, LenProperties
    <2>2. jobs[r].at - 1 = Len(f.make) /\ jobs[r].volumes = Asked(f, jobs[r].at - 1)
      BY <1>1, <1>3, <2>1 DEF HalfMadeInv, MakesInOrder, InOrder
    <2>3. QED
      BY <1>3, <2>2 DEF Define, DomainsTyped
  <1>7. Own(r)'
    <2>1. Form(r)' = f /\ jobs'[r].pc = "cd"
      BY <1>2 DEF Becomes, Form
    <2>2. v \notin active' /\ (v \in autostart' <=> f.start)
      BY <1>3, <1>4 DEF SaveNew, Define, DomainsTyped
    <2>3. Progress(r)'
      BY <1>1, <1>3, <1>6, <2>1, <2>2 DEF Progress, Asked, BootOnly, SaveNew
    <2>4. QED
      BY <2>3 DEF Own
  <1>8. jobs'[r].pc # "make" /\ \A q \in Requests \ {r} : jobs'[q] = jobs[q]
    BY <1>2 DEF Becomes
  <1>9. QED
    BY <1>5, <1>7, <1>8, StepKeeps

\* The domain was somebody else's: it is marked as touched.
LEMMA SaveExistingHalf ==
  ASSUME HalfMadeInv, JobsTyped, DomainsTyped, NEW r \in Requests, SaveExisting(r)
  PROVE HalfMadeInv'
  <1>1. PICK v \in Vms : v = Vm(r)
    BY JobParts DEF SaveExisting, Saving, CreatePcs
  <1>2. Becomes(r, "cd", Form(r), 1, jobs[r].volumes, jobs[r].isNew)
    BY CreateGoto DEF SaveExisting, Saving, CreatePcs, PostPcs
  <1>3. v \in outside' /\ \A w \in Vms \ {v} : w \in autostart' <=> w \in autostart
    BY <1>1 DEF SaveExisting, SetAutostart
  <1>4. \A w \in Vms : DomainKept(w)
    BY <1>3, TouchedDomain, SameDomain DEF SaveExisting
  <1>5. Own(r)'
    BY <1>1, <1>2, <1>3 DEF Own, Untouched, Becomes, Vm, Form
  <1>6. jobs'[r].pc # "make" /\ \A q \in Requests \ {r} : jobs'[q] = jobs[q]
    BY <1>2 DEF Becomes
  <1>7. QED
    BY <1>4, <1>5, <1>6, StepKeeps

LEMMA SaveFailsHalf ==
  ASSUME HalfMadeInv, JobsTyped, DomainsTyped, NEW r \in Requests, SaveFails(r)
  PROVE HalfMadeInv'
  <1>1. Becomes(r, "idle", NONE, 1, <<>>, FALSE) /\ Vm(r) \in Vms
    BY FailJob, JobParts DEF SaveFails, Saving, CreatePcs
  <1>2. CASE UNCHANGED <<defined, disks, creator>>
    BY <1>1, <1>2, SameVols, SameDomains, StepEnds DEF SaveFails, Becomes, PostPcs
  <1>3. CASE Define(r, Vm(r))
    BY <1>1, <1>3, DefineHalf, StepEnds DEF SaveFails, Becomes, PostPcs
  <1>4. QED
    BY <1>2, <1>3 DEF SaveFails

\* The calls that fill and attach the configdrive, the scripts and the start.
LEMMA CdHalf ==
  ASSUME HalfMadeInv, JobsTyped, DomainsTyped, NEW r \in Requests, CreateCd(r) \/ UploadCd(r)
  PROVE HalfMadeInv'
  <1>1. PICK v \in Vms, f \in CreateForms : v = Vm(r) /\ f = Form(r) /\ v = f.vm
    BY JobParts DEF CreateCd, UploadCd, CreatePcs, Vm
  <1>2. PICK l \in {"upload", "attach"} : Becomes(r, l, f, 1, jobs[r].volumes, jobs[r].isNew)
    BY <1>1, CreateGoto DEF CreateCd, UploadCd, CreatePcs, PostPcs
  <1>3. VolsGrow
    BY <1>1, WrittenVols, PathsAssumption DEF CreateCd, UploadCd
  <1>4. \A w \in Vms : DomainKept(w)
    BY <1>3, SameDomains DEF CreateCd, UploadCd, history
  <1>5. Own(r)'
    <2>1. SUFFICES ASSUME Untouched(v)', creator'[v] = r PROVE Progress(r)'
      BY <1>1, <1>2 DEF Own, Untouched, Becomes, Vm, Form
    <2>2. jobs[r].pc \in PostPcs
      BY DEF CreateCd, UploadCd, PostPcs
    <2>3. Progress(r) /\ DomainKept(v)
      BY <1>1, <1>4, <2>1, <2>2, WasOwn
    <2>4. BootOnly(v)' /\ (v \in autostart' <=> f.start) /\ disks'[v] = Asked(f, Len(f.make))
      <3>1. BootOnly(v) /\ (v \in autostart <=> f.start) /\ disks[v] = Asked(f, Len(f.make))
        BY <1>1, <2>2, <2>3 DEF Progress, CreateCd, UploadCd
      <3>2. QED
        BY <3>1 DEF CreateCd, UploadCd, history, BootOnly
    <2>5. jobs'[r].pc = "attach" => vols'[Cd[v]] = "data"
      <3>1. CASE CreateCd(r)
        <4>1. jobs'[r].pc = "upload"
          BY <3>1, GotoJob DEF CreateCd, JobPcs, CreatePcs, Becomes
        <4>2. QED
          BY <4>1
      <3>2. CASE UploadCd(r)
        BY <1>1, <3>2, PathsAssumption DEF UploadCd, DomainsTyped
      <3>3. QED
        BY <3>1, <3>2
    <2>6. Form(r)' = f /\ jobs'[r].pc \in {"upload", "attach"}
      BY <1>2 DEF Becomes, Form
    <2>7. QED
      BY <1>1, <2>4, <2>5, <2>6 DEF Progress, Asked
  <1>6. jobs'[r].pc # "make" /\ \A q \in Requests \ {r} : jobs'[q] = jobs[q]
    BY <1>2 DEF Becomes
  <1>7. QED
    BY <1>4, <1>5, <1>6, StepKeeps

LEMMA AttachCdHalf ==
  ASSUME HalfMadeInv, JobsTyped, DomainsTyped, NEW r \in Requests, AttachCd(r)
  PROVE HalfMadeInv'
  <1>1. PICK v \in Vms, f \in CreateForms : v = Vm(r) /\ f = Form(r) /\ v = f.vm
    BY JobParts DEF AttachCd, CreatePcs, Vm
  <1>2. Becomes(r, "publish", f, 1, jobs[r].volumes, jobs[r].isNew)
    BY <1>1, CreateGoto DEF AttachCd, CreatePcs, PostPcs
  <1>3. /\ jobs[r].pc = "attach" /\ v \in defined /\ v \notin active'
        /\ disks'[v] = Append(disks[v], Cd[v])
        /\ \A w \in Vms \ {v} : disks'[w] = disks[w]
    BY <1>1 DEF AttachCd, Attached, DomainsTyped
  <1>4. creator[v] # r => v \in outside'
    BY <1>1, <1>3 DEF AttachCd, Strangers
  <1>5. \A w \in Vms : DomainKept(w) \/ (creator'[w] = r /\ RunsOK(w)')
    <2>1. \A w \in Vms \ {v} : DomainKept(w)
      BY <1>3, SameDomain DEF AttachCd
    <2>2. CASE creator[v] # r
      BY <1>4, <2>1, <2>2, TouchedDomain
    <2>3. CASE creator[v] = r
      <3>1. SUFFICES ASSUME Untouched(v)' PROVE HasDisks(v)'
        BY <1>3, <2>1, <2>3 DEF RunsOK, AttachCd
      <3>2. HasDisks(v)
        BY <3>1 DEF HalfMadeInv, RunsOK, Untouched, AttachCd
      <3>3. ToSet(disks'[v]) = ToSet(disks[v]) \cup {Cd[v]}
        BY <1>3, ToSetAppend, PathsAssumption DEF DomainsTyped
      <3>4. Exists(Cd[v]) /\ vols' = vols
        BY <1>1 DEF AttachCd, Attached
      <3>5. QED
        BY <3>2, <3>3, <3>4 DEF HasDisks, Exists
    <2>4. QED
      BY <2>2, <2>3
  <1>6. Own(r)'
    <2>1. SUFFICES ASSUME Untouched(v)', creator'[v] = r PROVE Progress(r)'
      BY <1>1, <1>2 DEF Own, Untouched, Becomes, Vm, Form
    <2>2. Untouched(v) /\ creator[v] = r
      BY <2>1 DEF Untouched, AttachCd
    <2>3. Progress(r)
      BY <1>1, <1>3, <2>2 DEF HalfMadeInv, OwnProgress, Own, Creating, PostPcs
    <2>4. /\ v \in autostart <=> f.start
          /\ disks[v] = Asked(f, Len(f.make)) /\ vols[Cd[v]] = "data"
      BY <1>1, <1>3, <2>3 DEF Progress, PostPcs
    <2>5. /\ v \in autostart' <=> f.start
          /\ disks'[v] = Append(Asked(f, Len(f.make)), Cd[v]) /\ vols'[Cd[v]] = "data"
      BY <1>3, <2>4 DEF AttachCd
    <2>6. Form(r)' = f /\ jobs'[r].pc = "publish"
      BY <1>2 DEF Becomes, Form
    <2>7. QED
      BY <1>1, <1>3, <2>5, <2>6 DEF Progress, Complete, Asked, BootOnly
  <1>7. jobs'[r].pc # "make" /\ \A q \in Requests \ {r} : jobs'[q] = jobs[q]
    BY <1>2 DEF Becomes
  <1>8. QED
    BY <1>5, <1>6, <1>7, StepKeeps

LEMMA ScriptHalf ==
  ASSUME HalfMadeInv, JobsTyped, DomainsTyped, NEW r \in Requests, RunScript(r) \/ ScriptFails(r)
  PROVE HalfMadeInv'
  <1>1. PICK v \in Vms, f \in CreateForms : v = Vm(r) /\ f = Form(r) /\ v = f.vm
    BY JobParts DEF RunScript, ScriptFails, CreatePcs, Vm
  <1>2. PICK l \in {"publish", "cleanup"}, n \in Nat :
             Becomes(r, l, f, n, jobs[r].volumes, jobs[r].isNew)
    <2>1. jobs[r].at + 1 \in Nat /\ 1 \in Nat
      BY JobParts
    <2>2. CASE RunScript(r)
      BY <1>1, <2>1, <2>2, RunScriptJob
    <2>3. CASE ScriptFails(r)
      BY <1>1, <2>1, <2>3, CreateGoto DEF ScriptFails, CreatePcs, PostPcs
    <2>4. QED
      BY <2>2, <2>3
  <1>3. UNCHANGED <<hypervisor, creator, approved, booted, outside>> /\ jobs[r].pc = "publish"
    BY DEF RunScript, ScriptFails, history
  <1>4. \A w \in Vms : DomainKept(w)
    BY <1>3, SameVols, SameDomains DEF hypervisor
  <1>5. Own(r)'
    <2>1. SUFFICES ASSUME Untouched(v)', creator'[v] = r PROVE Progress(r)'
      BY <1>1, <1>2 DEF Own, Untouched, Becomes, Vm, Form
    <2>2. Progress(r)
      BY <1>1, <1>3, <1>4, <2>1, WasOwn DEF PostPcs
    <2>3. BootOnly(v) /\ (v \in autostart <=> f.start) /\ Complete(f)
      BY <1>1, <1>3, <2>2 DEF Progress, PostPcs
    <2>4. BootOnly(v)' /\ (v \in autostart' <=> f.start) /\ Complete(f)'
      BY <1>3, <2>3 DEF hypervisor, Complete, BootOnly
    <2>5. Form(r)' = f /\ jobs'[r].pc \in {"publish", "cleanup"}
      BY <1>2 DEF Becomes, Form
    <2>6. QED
      BY <1>1, <2>4, <2>5 DEF Progress, Complete
  <1>6. jobs'[r].pc # "make" /\ \A q \in Requests \ {r} : jobs'[q] = jobs[q]
    BY <1>2 DEF Becomes
  <1>7. QED
    BY <1>4, <1>5, <1>6, StepKeeps

LEMMA PublishedHalf ==
  ASSUME HalfMadeInv, JobsTyped, DomainsTyped, NEW r \in Requests, Published(r)
  PROVE HalfMadeInv'
  <1>1. PICK v \in Vms, f \in CreateForms : v = Vm(r) /\ f = Form(r) /\ v = f.vm
    BY JobParts DEF Published, CreatePcs, Vm
  <1>2. IF f.start THEN Becomes(r, "start", f, 1, jobs[r].volumes, jobs[r].isNew)
        ELSE Becomes(r, "done", f, 1, <<>>, jobs[r].isNew)
    <2>1. CASE f.start
      <3>1. Goto(r, "start") /\ jobs[r].pc \in CreatePcs /\ "start" \in PostPcs
        BY <1>1, <2>1 DEF Published, CreatePcs, PostPcs
      <3>2. QED
        BY <1>1, <2>1, <3>1, CreateGoto
    <2>2. CASE ~ f.start
      <3>1. Succeed(r)
        BY <1>1, <2>2 DEF Published
      <3>2. QED
        BY <1>1, <2>2, <3>1, SucceedJob
    <2>3. QED
      BY <2>1, <2>2
  <1>3. UNCHANGED <<hypervisor, creator, booted, outside>> /\ jobs[r].pc = "publish"
    BY DEF Published
  <1>4. approved' = IF creator[v] = r THEN approved \cup {v} ELSE approved
    BY <1>1 DEF Published
  <1>5. \A w \in Vms : DomainKept(w)
    BY <1>3, <1>4, SameVols, SameDomains DEF hypervisor
  <1>6. Own(r)'
    <2>1. SUFFICES ASSUME Untouched(v)', creator'[v] = r PROVE Progress(r)'
      BY <1>1, <1>2 DEF Own, Untouched, Becomes, Vm, Form
    <2>2. Progress(r)
      BY <1>1, <1>3, <1>5, <2>1, WasOwn DEF PostPcs
    <2>3. BootOnly(v) /\ (v \in autostart <=> f.start) /\ Complete(f)
      BY <1>1, <1>3, <2>2 DEF Progress, PostPcs
    <2>4. BootOnly(v)' /\ (v \in autostart' <=> f.start) /\ Complete(f)' /\ v \in approved'
      BY <1>3, <1>4, <2>1, <2>3 DEF hypervisor, Complete, BootOnly
    <2>5. /\ Form(r)' = f
          /\ \/ f.start /\ jobs'[r].pc = "start"
             \/ ~ f.start /\ jobs'[r].pc = "done"
      BY <1>2 DEF Becomes, Form
    <2>6. QED
      BY <1>1, <2>4, <2>5 DEF Progress, Complete, PostPcs, BootOnly
  <1>7. jobs'[r].pc # "make" /\ \A q \in Requests \ {r} : jobs'[q] = jobs[q]
    BY <1>2 DEF Becomes
  <1>8. QED
    BY <1>5, <1>6, <1>7, StepKeeps

LEMMA CleanupHalf ==
  ASSUME HalfMadeInv, JobsTyped, DomainsTyped, NEW r \in Requests, Cleanup(r)
  PROVE HalfMadeInv'
  <1>1. PICK v \in Vms : v = Vm(r)
    BY JobParts DEF Cleanup, CreatePcs
  <1>2. Becomes(r, "idle", NONE, 1, <<>>, FALSE)
    BY FailJob DEF Cleanup
  <1>3. \A w \in Vms : DomainKept(w) \/ (creator'[w] = r /\ RunsOK(w)')
    <2>1. CASE Undefined(v)
      <3>1. DomainKept(v)
        BY <2>1, TouchedDomain DEF Undefined
      <3>2. \A w \in Vms \ {v} : DomainKept(w)
        BY <2>1, SameDomain DEF Cleanup, Undefined, DomainsTyped
      <3>3. QED
        BY <3>1, <3>2
    <2>2. CASE /\ active' = active \ {v} /\ outside' = outside \cup Strangers(r)
               /\ UNCHANGED <<defined, disks, autostart, creator, noted>>
      <3>1. creator[v] # r => v \in outside' \/ v \notin defined'
        BY <1>1, <2>2 DEF Strangers
      <3>2. DomainKept(v) \/ (creator'[v] = r /\ RunsOK(v)')
        <4>1. CASE creator[v] # r
          BY <3>1, <4>1, TouchedDomain
        <4>2. CASE creator[v] = r
          <5>1. RunsOK(v) /\ v \notin active' /\ vols' = vols
            BY <2>2 DEF HalfMadeInv, Cleanup
          <5>2. HasDisks(v)' <=> HasDisks(v)
            BY <2>2, <5>1 DEF HasDisks, Exists
          <5>3. Untouched(v)' => Untouched(v)
            BY <2>2 DEF Untouched
          <5>4. QED
            BY <2>2, <4>2, <5>1, <5>2, <5>3 DEF RunsOK
        <4>3. QED
          BY <4>1, <4>2
      <3>3. \A w \in Vms \ {v} : DomainKept(w)
        BY <2>2, SameDomain DEF Cleanup
      <3>4. QED
        BY <3>2, <3>3
    <2>3. CASE UNCHANGED <<defined, disks, active, autostart, creator, noted, outside>>
      BY <2>3, SameVols, SameDomains DEF Cleanup
    <2>4. QED
      BY <1>1, <2>1, <2>2, <2>3 DEF Cleanup
  <1>4. QED
    BY <1>2, <1>3, StepEnds DEF Becomes, PostPcs

LEMMA StartVmHalf ==
  ASSUME HalfMadeInv, JobsTyped, DomainsTyped, NEW r \in Requests, StartVm(r)
  PROVE HalfMadeInv'
  <1>1. PICK v \in Vms, f \in CreateForms : v = Vm(r) /\ f = Form(r) /\ v = f.vm
    BY JobParts DEF StartVm, CreatePcs, Vm
  <1>2. Becomes(r, "done", f, 1, <<>>, jobs[r].isNew)
    BY <1>1, SucceedJob DEF StartVm
  <1>3. jobs[r].pc = "start" /\ v \in defined /\ active' = active \cup {v}
    BY <1>1 DEF StartVm, CanStart
  <1>4. creator[v] # r => v \in outside'
    BY <1>1, <1>3 DEF StartVm, Strangers
  <1>5. ASSUME Untouched(v)', creator[v] = r
        PROVE /\ v \in autostart <=> f.start
              /\ Complete(f) /\ f.start /\ v \in approved
    <2>1. Untouched(v)
      BY <1>5 DEF Untouched, StartVm
    <2>2. Progress(r)
      BY <1>1, <1>3, <1>5, <2>1 DEF HalfMadeInv, OwnProgress, Own, Creating, PostPcs
    <2>3. QED
      BY <1>1, <1>3, <2>2 DEF Progress, PostPcs
  <1>6. \A w \in Vms : DomainKept(w) \/ (creator'[w] = r /\ RunsOK(w)')
    <2>1. \A w \in Vms \ {v} : DomainKept(w)
      BY <1>3, SameDomain DEF StartVm
    <2>2. CASE creator[v] # r
      BY <1>4, <2>1, <2>2, TouchedDomain
    <2>3. CASE creator[v] = r
      <3>1. SUFFICES ASSUME Untouched(v)'
                     PROVE /\ HasDisks(v)'
                           /\ v \in approved' /\ Cd[v] \in ToSet(disks'[v]) /\ vols'[Cd[v]] = "data"
        BY <2>1, <2>3 DEF RunsOK, StartVm
      <3>2. Complete(f) /\ v \in approved
        BY <1>5, <2>3, <3>1
      <3>3. Asked(f, Len(f.make)) \in Seq(Paths) /\ Cd[v] \in Paths
        BY AskedTyped, FormsAssumption, LenProperties, PathsAssumption
      <3>4. Cd[v] \in ToSet(disks[v])
        BY <1>1, <3>2, <3>3, ToSetAppend DEF Complete
      <3>5. HasDisks(v)'
        BY <1>1 DEF StartVm, CanStart, HasDisks, Exists
      <3>6. QED
        BY <1>1, <3>2, <3>4, <3>5 DEF Complete, StartVm
    <2>4. QED
      BY <2>2, <2>3
  <1>7. Own(r)'
    <2>1. SUFFICES ASSUME Untouched(v)', creator'[v] = r PROVE Progress(r)'
      BY <1>1, <1>2 DEF Own, Untouched, Becomes, Vm, Form
    <2>2. (v \in autostart <=> f.start) /\ Complete(f) /\ f.start
      BY <1>5, <2>1 DEF StartVm
    <2>3. (v \in autostart' <=> f.start) /\ Complete(f)' /\ v \in active'
      BY <1>3, <2>2 DEF Complete, StartVm
    <2>4. Form(r)' = f /\ jobs'[r].pc = "done"
      BY <1>2 DEF Becomes, Form
    <2>5. QED
      BY <1>1, <2>2, <2>3, <2>4 DEF Progress, Complete, PostPcs
  <1>8. jobs'[r].pc # "make" /\ \A q \in Requests \ {r} : jobs'[q] = jobs[q]
    BY <1>2 DEF Becomes
  <1>9. QED
    BY <1>6, <1>7, <1>8, StepKeeps

LEMMA CreateHalf ==
  ASSUME HalfMadeInv, JobsTyped, DomainsTyped, NEW r \in Requests, CreateStep(r)
  PROVE HalfMadeInv'
  <1>1. CASE MakeVolumeFails(r) \/ CreateCdFails(r)
    <2>1. Becomes(r, "idle", NONE, 1, <<>>, FALSE)
      BY <1>1, FailJob DEF MakeVolumeFails, CreateCdFails
    <2>2. \A v \in Vms : DomainKept(v)
      BY <1>1, CreateKeepsVols, SameDomains DEF MakeVolumeFails, CreateCdFails, history
    <2>3. QED
      BY <2>1, <2>2, StepEnds DEF Becomes, PostPcs
  <1>2. CASE UploadCdFails(r) \/ AttachCdFails(r) \/ StartVmFails(r)
    <2>1. Becomes(r, "idle", NONE, 1, <<>>, FALSE)
      BY <1>2, FailJob DEF UploadCdFails, AttachCdFails, StartVmFails
    <2>2. \A v \in Vms : DomainKept(v)
      BY <1>2, SameVols, SameDomains
      DEF UploadCdFails, AttachCdFails, StartVmFails, hypervisor, history
    <2>3. QED
      BY <2>1, <2>2, StepEnds DEF Becomes, PostPcs
  <1>3. QED
    BY <1>1, <1>2, MakeVolumeHalf, SaveNewHalf, SaveExistingHalf, SaveFailsHalf, CdHalf,
       AttachCdHalf, ScriptHalf, PublishedHalf, CleanupHalf, StartVmHalf DEF CreateStep

\* Whoever has the volume that goes away is marked as touched.
LEMMA RemovedHalf ==
  ASSUME DomainsTyped, NEW r, NEW p, Removed(r, p),
         UNCHANGED <<defined, disks, active, autostart, creator, noted>>
  PROVE \A v \in Vms : DomainKept(v)
  <1>1. SUFFICES ASSUME NEW v \in Vms, v \notin outside', v \in defined' PROVE DomainKept(v)
    BY TouchedDomain
  <1>2. p # Cd[v] /\ p \notin ToSet(disks[v])
    BY <1>1 DEF Removed, Owners
  <1>3. /\ vols'[Cd[v]] = vols[Cd[v]]
        /\ \A q \in ToSet(disks[v]) : Exists(q) => vols'[q] # "absent"
    <2>1. ToSet(disks[v]) \subseteq Paths
      BY LenProperties DEF ToSet, DomainsTyped
    <2>2. QED
      BY <1>2, <2>1, PathsAssumption DEF Removed, DomainsTyped, Exists
  <1>4. QED
    BY <1>1, <1>3, LeftDomain DEF Removed

LEMMA DeleteHalf ==
  ASSUME HalfMadeInv, JobsTyped, DomainsTyped, NEW r \in Requests, DeleteStep(r) \/ EndRequest(r)
  PROVE HalfMadeInv'
  <1>1. CASE GetVolumes(r)
    <2>1. Becomes(r, "undefine", Form(r), jobs[r].at, disks[Vm(r)], FALSE)
      BY <1>1, JobParts, GetVolumesJob DEF GetVolumes, DeletePcs, DomainsTyped
    <2>2. \A v \in Vms : DomainKept(v)
      BY <1>1, SameVols, SameDomains DEF GetVolumes, hypervisor, history
    <2>3. QED
      BY <2>1, <2>2, StepEnds DEF Becomes, PostPcs
  <1>2. CASE GetVolumesFails(r) \/ DeleteNextVolumeFails(r) \/ EndRequest(r)
    <2>1. Becomes(r, "idle", NONE, 1, <<>>, FALSE)
      BY <1>2, FailJob, EndJob DEF GetVolumesFails, DeleteNextVolumeFails
    <2>2. \A v \in Vms : DomainKept(v)
      BY <1>2, SameVols, SameDomains
      DEF GetVolumesFails, DeleteNextVolumeFails, EndRequest, hypervisor, history
    <2>3. QED
      BY <2>1, <2>2, StepEnds DEF Becomes, PostPcs
  <1>3. CASE UndefineVm(r)
    <2>1. PICK v \in Vms : v = Vm(r)
      BY <1>3, JobParts DEF UndefineVm, DeletePcs
    <2>2. Becomes(r, "delvols", Form(r), 1, jobs[r].volumes, FALSE)
      BY <1>3, UndefineVmJob
    <2>3. Undefined(v) /\ vols' = vols
      BY <1>3, <2>1 DEF UndefineVm
    <2>4. DomainKept(v)
      BY <2>3, TouchedDomain DEF Undefined
    <2>5. \A w \in Vms \ {v} : DomainKept(w)
      BY <2>3, SameDomain DEF Undefined, DomainsTyped
    <2>6. QED
      BY <2>2, <2>4, <2>5, StepEnds DEF Becomes, PostPcs
  <1>4. CASE UndefineVmFails(r)
    <2>1. PICK v \in Vms : v = Vm(r)
      BY <1>4, JobParts DEF UndefineVmFails, DeletePcs
    <2>2. Becomes(r, "idle", NONE, 1, <<>>, FALSE)
      BY <1>4, FailJob DEF UndefineVmFails
    <2>3. CASE UNCHANGED <<active, outside>>
      BY <1>4, <2>2, <2>3, SameVols, SameDomains, StepEnds DEF UndefineVmFails, Becomes, PostPcs
    <2>4. CASE active' = active \ {v} /\ outside' = outside \cup {v}
      <3>1. DomainKept(v)
        BY <2>4, TouchedDomain
      <3>2. \A w \in Vms \ {v} : DomainKept(w)
        BY <1>4, <2>4, SameDomain DEF UndefineVmFails
      <3>3. QED
        BY <2>2, <3>1, <3>2, StepEnds DEF Becomes, PostPcs
    <2>5. QED
      BY <1>4, <2>1, <2>3, <2>4 DEF UndefineVmFails
  <1>5. CASE DeleteNextVolume(r)
    <2>1. Becomes(r, "delvols", Form(r), jobs[r].at, Tail(jobs[r].volumes), FALSE)
      BY <1>5, DeleteNextVolumeJob
    <2>2. \A v \in Vms : DomainKept(v)
      BY <1>5, RemovedHalf DEF DeleteNextVolume
    <2>3. QED
      BY <2>1, <2>2, StepEnds DEF Becomes, PostPcs
  <1>6. CASE DeleteDone(r)
    <2>1. jobs[r].isNew = FALSE
      BY <1>6, JobParts DEF DeleteDone, PostPcs
    <2>2. Becomes(r, "done", Form(r), 1, <<>>, FALSE)
      BY <1>6, <2>1, SucceedJob DEF DeleteDone
    <2>3. \A v \in Vms : DomainKept(v)
      BY <1>6, SameVols, SameDomains DEF DeleteDone, hypervisor, history
    <2>4. QED
      BY <2>2, <2>3, StepEnds DEF Becomes, PostPcs
  <1>7. QED
    BY <1>1, <1>2, <1>3, <1>4, <1>5, <1>6 DEF DeleteStep

\* No job does anything, and every domain is left alone or marked as touched.
LEMMA UserKeeps ==
  ASSUME JobsTyped, HalfMadeInv, jobs' = jobs, \A v \in Vms : DomainKept(v)
  PROVE HalfMadeInv'
  <1>1. MakesInOrder'
    BY DEF HalfMadeInv, MakesInOrder, InOrder, Form
  <1>2. OwnProgress'
    BY KeptOwn DEF HalfMadeInv, OwnProgress
  <1>3. ASSUME NEW v \in Vms PROVE RunsOK(v)'
    BY KeptRuns DEF HalfMadeInv
  <1>4. QED
    BY <1>1, <1>2, <1>3 DEF HalfMadeInv

LEMMA UserHalf ==
  ASSUME HalfMadeInv, JobsTyped, DomainsTyped, UserStep
  PROVE HalfMadeInv'
  <1>1. ASSUME NEW v \in Vms, v \in outside', vols' = vols, outside \subseteq outside',
               UNCHANGED <<defined, jobs, creator, noted>>,
               \A w \in Vms \ {v} : /\ disks'[w] = disks[w]
                                    /\ w \in active' <=> w \in active
                                    /\ w \in autostart' <=> w \in autostart
        PROVE HalfMadeInv'
    <2>1. DomainKept(v)
      BY <1>1, TouchedDomain
    <2>2. \A w \in Vms \ {v} : DomainKept(w)
      BY <1>1, SameDomain
    <2>3. QED
      BY <1>1, <2>1, <2>2, UserKeeps
  <1>2. ASSUME NEW v \in Vms, NEW on \in BOOLEAN,
               UserStart(v) \/ UserPoweroff(v) \/ UserUpdate(v, on)
        PROVE HalfMadeInv'
    BY <1>1, <1>2 DEF UserStart, UserPoweroff, UserUpdate, SetAutostart
  <1>3. ASSUME NEW v \in Vms, NEW p \in Paths, UserAttach(v, p) \/ UserDetach(v, p)
        PROVE HalfMadeInv'
    BY <1>1, <1>3 DEF UserAttach, UserDetach, Attached, DomainsTyped
  <1>4. ASSUME NEW p \in Paths, UserDeleteVolume(p)
        PROVE HalfMadeInv'
    BY <1>4, RemovedHalf, UserKeeps DEF UserDeleteVolume
  <1>5. ASSUME NEW m \in VolumeForms, UserMakeVolume(m)
        PROVE HalfMadeInv'
    <2>1. VolsGrow
      BY <1>5, VolumeFormsAssumption, MadeVols DEF UserMakeVolume
    <2>2. QED
      BY <1>5, <2>1, SameDomains, UserKeeps DEF UserMakeVolume, history
  <1>6. QED
    BY <1>2, <1>3, <1>4, <1>5 DEF UserStep

\* The host's boot starts a domain that is still being made only if its form
\* asks for a start, and every finished one that asks for it.
LEMMA RebootHalf ==
  ASSUME HalfMadeInv, JobsTyped, DomainsTyped, HostReboot
  PROVE HalfMadeInv'
  <1>1. /\ active' = {v \in autostart : HasDisks(v)} /\ booted' = active'
        /\ UNCHANGED <<vols, defined, disks, autostart, jobs, creator, approved, outside>>
    <2>1. {v \in autostart : HasDisks(v)} = {v \in autostart : \A p \in ToSet(disks[v]) : Exists(p)}
      BY DEF HasDisks
    <2>2. QED
      BY <2>1 DEF HostReboot
  <1>2. \A v \in Vms : (HasDisks(v)' <=> HasDisks(v)) /\ (Untouched(v)' <=> Untouched(v))
    <2>1. ASSUME NEW v \in Vms PROVE ToSet(disks[v])' = ToSet(disks[v])
      BY <1>1 DEF ToSet
    <2>2. QED
      BY <1>1, <2>1 DEF HasDisks, Exists, Untouched
  <1>3. ASSUME NEW v \in Vms PROVE RunsOK(v)'
    BY <1>1, <1>2 DEF HalfMadeInv, RunsOK
  <1>4. ASSUME NEW q \in Requests PROVE Own(q)'
    <2>1. SUFFICES ASSUME Creating(q), Untouched(Vm(q))', creator'[Vm(q)] = q
                   PROVE Progress(q)'
      BY <1>1 DEF Own, Creating, Vm, Form
    <2>2. PICK v \in Vms, f \in CreateForms : v = Vm(q) /\ f = Form(q) /\ v = f.vm
      BY <2>1, JobParts DEF Creating, CreatePcs, PostPcs, Vm
    <2>3. Untouched(v) /\ HasDisks(v) /\ Progress(q)
      BY <1>1, <1>2, <2>1, <2>2 DEF HalfMadeInv, RunsOK, OwnProgress, Own, Untouched, Vm, Form
    <2>4. /\ v \in active' <=> v \in autostart
          /\ BootOnly(v)'
      BY <1>1, <2>3 DEF BootOnly
    <2>5. Form(q)' = f /\ jobs'[q].pc = jobs[q].pc /\ (Complete(f) => Complete(f)')
      BY <1>1, <2>2 DEF Form, Complete
    <2>6. QED
      BY <1>1, <2>2, <2>3, <2>4, <2>5 DEF Progress
  <1>5. MakesInOrder'
    BY <1>1 DEF HalfMadeInv, MakesInOrder, InOrder, Form
  <1>6. QED
    BY <1>3, <1>4, <1>5 DEF HalfMadeInv, OwnProgress

LEMMA ArrivalHalf ==
  ASSUME HalfMadeInv, JobsTyped, DomainsTyped, Arrival
  PROVE HalfMadeInv'
  <1>1. ASSUME NEW r \in Requests, NEW f \in CreateForms, BeginCreate(r, f)
        PROVE HalfMadeInv'
    <2>1. Becomes(r, "make", f, 1, f.attach, FALSE)
      BY <1>1, BeginCreateJob
    <2>2. InOrder(r)'
      <3>1. Len(f.make) \in Nat /\ f.attach = Asked(f, 0)
        BY AskedNone, FormsAssumption, LenProperties
      <3>2. Form(r)' = f /\ jobs'[r].at = 1 /\ jobs'[r].volumes = Asked(f, 0)
        BY <2>1, <3>1 DEF Becomes, Form
      <3>3. QED
        BY <3>1, <3>2 DEF InOrder, Asked
    <2>3. \A v \in Vms : DomainKept(v)
      BY <1>1, SameVols, SameDomains DEF BeginCreate, hypervisor
    <2>4. Own(r)' /\ \A q \in Requests \ {r} : jobs'[q] = jobs[q]
      BY <2>1 DEF Becomes, Own, Creating, PostPcs
    <2>5. QED
      BY <2>2, <2>3, <2>4, StepKeeps
  <1>2. ASSUME NEW r \in Requests, NEW f \in DeleteForms, BeginDelete(r, f)
        PROVE HalfMadeInv'
    <2>1. PICK l \in {"get", "undefine"} : Becomes(r, l, f, 1, <<>>, FALSE)
      BY <1>2, BeginDeleteJob
    <2>2. \A v \in Vms : DomainKept(v)
      BY <1>2, SameVols, SameDomains DEF BeginDelete, hypervisor, history
    <2>3. QED
      BY <2>1, <2>2, StepEnds DEF Becomes, PostPcs
  <1>3. CASE HostReboot
    BY <1>3, RebootHalf
  <1>4. CASE Crash
    <2>1. \A v \in Vms : DomainKept(v)
      BY <1>4, SameVols, SameDomains DEF Crash, hypervisor, history
    <2>2. \A v \in Vms : RunsOK(v)'
      BY <2>1, KeptRuns DEF HalfMadeInv
    <2>3. MakesInOrder' /\ OwnProgress'
      BY <1>4, CrashJobs DEF MakesInOrder, OwnProgress, Own, Creating, PostPcs
    <2>4. QED
      BY <2>2, <2>3 DEF HalfMadeInv
  <1>5. QED
    BY <1>1, <1>2, <1>3, <1>4, UserHalf DEF Arrival

LEMMA NextHalf ==
  ASSUME Typed, HalfMadeInv, [Next]_vars
  PROVE HalfMadeInv'
  <1>1. CASE Arrival
    BY <1>1, ArrivalHalf DEF Typed
  <1>2. ASSUME NEW r \in Requests, CreateStep(r) \/ DeleteStep(r) \/ EndRequest(r)
        PROVE HalfMadeInv'
    BY <1>2, CreateHalf, DeleteHalf DEF Typed
  <1>3. CASE UNCHANGED vars
    BY <1>3, SameVols, SameDomains, UserKeeps DEF Typed, vars, hypervisor, history
  <1>4. QED
    BY <1>1, <1>2, <1>3 DEF Next

LEMMA InitHalf ==
  ASSUME Init
  PROVE HalfMadeInv
  BY DEF Init, HalfMadeInv, MakesInOrder, OwnProgress, Own, Creating, PostPcs, RunsOK, NoJob,
         Untouched

\* A Create that reports success leaves the whole domain its form asks for,
\* whenever the host boots; a half-made one runs only if the host's boot started
\* it, as autostart has it do.
THEOREM NoHalfMadeVmHolds == Spec => []NoHalfMadeVm
  <1>1. Spec => [](Typed /\ HalfMadeInv)
    <2>1. Init => Typed /\ HalfMadeInv
      BY InitTyped, InitHalf
    <2>2. Typed /\ HalfMadeInv /\ [Next]_vars => (Typed /\ HalfMadeInv)'
      BY NextTyped, NextHalf
    <2>3. QED
      BY <2>1, <2>2, PTL DEF Spec
  <1>2. Typed /\ HalfMadeInv => NoHalfMadeVm
    <2>1. ASSUME HalfMadeInv PROVE CompleteOnSuccess
      BY <2>1 DEF HalfMadeInv, OwnProgress, Own, Creating, Progress, Complete, Asked,
                  CompleteOnSuccess, Form, Vm
    <2>2. ASSUME Typed, HalfMadeInv PROVE RunsOnlyComplete
      BY <2>2 DEF Typed, DomainsTyped, HalfMadeInv, RunsOK, HasDisks, RunsOnlyComplete
    <2>3. QED
      BY <2>1, <2>2 DEF NoHalfMadeVm
  <1>3. QED
    BY <1>1, <1>2, PTL
=============================================================================
