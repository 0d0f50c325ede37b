---------------------------- MODULE VolumeSizes ----------------------------
(***************************************************************************)
(* The sizes of volumes, from the number and unit of a form to libvirt's   *)
(* capacity: compute/size.go in machine words, and Create, Clone and       *)
(* Resize of libvirt/volume_repository.go.  Create and Clone hand libvirt  *)
(* number and unit; Resize, and the second half of a qcow2 Clone, hand it  *)
(* Bytes().                                                                *)
(*                                                                         *)
(* The calls of one request hold the connection, so requests of vmango     *)
(* come one after the other (NodeLock); an operator with virsh comes in    *)
(* between.                                                                *)
(***************************************************************************)
EXTENDS Integers, FiniteSets

CONSTANTS
    Names,          \* names of volumes
    Values,         \* numbers a form may carry, below Word
    Kilo,           \* 1024
    Word            \* 2^64

ASSUME WordAssumption == Kilo \in Nat \ {0} /\ Word \in Nat \ {0}
ASSUME ValuesAssumption == Values \subseteq 0 .. Word - 1

Units == {"B", "K", "M", "G"}
Formats == {"raw", "qcow2", "other"}

VARIABLES
    volumes,        \* capacity and format of the volumes there are
    job,            \* the request under way
    answer,         \* what the last request was answered
    meddled         \* history: an operator changed a volume during the request

sizeVars == <<volumes, job, answer, meddled>>

NoVolume == [capacity |-> 0, format |-> "none"]
Exists(n) == volumes[n] # NoVolume
Volume(c, f) == [capacity |-> c, format |-> f]

NoRequest == [pc |-> "idle"]

-----------------------------------------------------------------------------
(* compute.Size                                                            *)

\* The handlers of volumes refuse a unit they do not know; the handler of new
\* machines does not.
Sizes == [value : Values, unit : Units]
FormSizes == [value : Values, unit : Units \cup {"unknown"}]

Factor == [B |-> 1, K |-> Kilo, M |-> Kilo * Kilo, G |-> Kilo * Kilo * Kilo]

\* What the form asked for, and whether a word holds it.
Asked(size) == size.value * Factor[size.unit]
Fits(size) == Asked(size) < Word

\* Mutant: a G is taken for an M.
BytesOfM(size) == (size.value * (IF size.unit = "G" THEN Kilo * Kilo ELSE Factor[size.unit])) % Word

Bytes(size) == Asked(size) % Word

\* Bytes, and the conversion to libvirt's units, panic.
Panics(size) == size.unit = "unknown"

-----------------------------------------------------------------------------
(* Requests                                                                *)

\* A request starts (before is history); it is answered with success or an
\* error.
Begin(j) == /\ job = NoRequest
            /\ job' = j
            /\ answer' = "none"
            /\ UNCHANGED <<volumes, meddled>>

Answer(a) == /\ job' = NoRequest
             /\ answer' = a
             /\ meddled' = FALSE

Step(pc) == /\ job' = [job EXCEPT !.pc = pc]
            /\ UNCHANGED <<answer, meddled>>

\* VolumeRepository.Create.
CreateVolume(n, f, size) ==
    Begin([pc |-> "create", name |-> n, format |-> f, size |-> size, before |-> volumes])

\* VolumeRepository.Clone, up to GetInfo.
CloneVolume(o, n, f, size) ==
    /\ Exists(o)
    /\ Begin([pc |-> "clone", orig |-> o, name |-> n, format |-> f, size |-> size,
              seen |-> volumes[o].capacity, before |-> volumes])

\* VolumeRepository.Resize.
ResizeVolume(n, size) ==
    /\ Exists(n)
    /\ Begin([pc |-> "resize", name |-> n, size |-> size, before |-> volumes])

\* Libvirt refuses a call, or cannot do it, or vmango panics before it.
Fail == /\ job # NoRequest
        /\ Answer("error")
        /\ UNCHANGED volumes

\* StorageVolCreateXML: a new name, and a size that libvirt can hold.
StorageVolCreateXML ==
    /\ job.pc = "create" /\ ~Panics(job.size)
    /\ ~Exists(job.name) /\ Fits(job.size)
    /\ volumes' = [volumes EXCEPT ![job.name] =
                      Volume(Asked(job.size), IF job.format = "qcow2" THEN "qcow2" ELSE "raw")]
    /\ Step("describe")

\* The clone's own size is set afterwards.
Grows(j) == j.format = "qcow2" /\ j.seen < Bytes(j.size)

\* StorageVolCreateXMLFrom: a qcow2 clone has the size of the original, any
\* other the size asked for if that is larger.
StorageVolCreateXMLFrom ==
    /\ job.pc = "clone" /\ ~Panics(job.size)
    /\ Exists(job.orig) /\ ~Exists(job.name) /\ Fits(job.size)
    /\ LET c == volumes[job.orig].capacity
           a == Asked(job.size)
       IN  volumes' = [volumes EXCEPT ![job.name] =
                          IF job.format = "qcow2" THEN Volume(c, "qcow2")
                                                  ELSE Volume(IF c < a THEN a ELSE c, "raw")]
    /\ Step(IF Grows(job) THEN "grow" ELSE "describe")

\* StorageVolume.Resize without the flag that lets it shrink, in Resize or
\* after a clone.
StorageVolResize ==
    /\ job.pc \in {"resize", "grow"}
    /\ Exists(job.name)
    /\ volumes[job.name].capacity <= Bytes(job.size)
    /\ volumes' = [volumes EXCEPT ![job.name].capacity = Bytes(job.size)]
    /\ IF job.pc = "grow" THEN Step("describe") ELSE Answer("ok")

\* virVolumeToVolume: Create and Clone read the new volume back.
Describe == /\ job.pc = "describe"
            /\ Exists(job.name)
            /\ Answer("ok")
            /\ UNCHANGED volumes

-----------------------------------------------------------------------------

\* virsh vol-resize --shrink, vol-delete.
Operator(n) == /\ Exists(n)
               /\ volumes' \in {[volumes EXCEPT ![n].capacity = c] : c \in Values}
                               \cup {[volumes EXCEPT ![n] = NoVolume]}
               /\ job' = IF job = NoRequest THEN job ELSE [job EXCEPT !.before = volumes']
               /\ meddled' = (job # NoRequest)
               /\ answer' = "none"

SizeInit == /\ volumes \in [Names -> {NoVolume} \cup {Volume(c, f) : c \in Values, f \in {"raw", "qcow2"}}]
            /\ job = NoRequest
            /\ answer = "none"
            /\ meddled = FALSE

SizeNext == \/ \E n \in Names, size \in Sizes : ResizeVolume(n, size)
            \/ \E n \in Names, f \in Formats, size \in FormSizes :
                  \/ CreateVolume(n, f, size)
                  \/ \E o \in Names : CloneVolume(o, n, f, size)
            \/ StorageVolCreateXML \/ StorageVolCreateXMLFrom \/ StorageVolResize \/ Describe \/ Fail
            \/ \E n \in Names : Operator(n)

SizeSpec == SizeInit /\ [][SizeNext]_sizeVars

-----------------------------------------------------------------------------
(* Properties                                                              *)

\* The request is answered with a in this step; what an operator did while it
\* ran is not its doing.
Answered(a) == job # NoRequest /\ answer' = a /\ ~meddled /\ job' = NoRequest

\* A request that is answered with success leaves a volume at least as large as
\* its form asked for: number and unit go to libvirt separately, or are
\* multiplied only when libvirt has accepted them.  Only Resize multiplies
\* first: a size that no word holds then gives a smaller one, and success
\* (Create, Clone, Resize, Size.Bytes).
SizeAsAsked ==
    [][Answered("ok") => \/ volumes'[job.name].capacity >= Asked(job.size)
                         \/ job.pc = "resize" /\ ~Fits(job.size)]_sizeVars

\* A request that fails leaves everything as it was, or all but the volume it
\* made, which has the name the user would try again: a volume that could not be
\* read back, or a qcow2 clone in the size of its original (Create, Clone,
\* Resize).
FailureLeavesOneVolume ==
    [][Answered("error") =>
        \/ volumes' = job.before
        \/ /\ [volumes' EXCEPT ![job.name] = NoVolume] = job.before
           /\ \/ job.pc = "describe"
              \/ job.pc = "grow" /\ volumes'[job.name].format = "qcow2"]_sizeVars

\* Whatever an operator does meanwhile, vmango never makes a volume smaller
\* and never touches one that its request did not name (Clone, Resize).
NeverShrinks ==
    [][job'.pc # job.pc
        => \A n \in Names :
              /\ Exists(n) => volumes'[n].capacity >= volumes[n].capacity
              /\ (volumes'[n] # volumes[n]) => (job.name = n)]_sizeVars

\* What the answer to a request says of the sizes is so, and nothing else
\* changes (Create, Clone, Resize).
SizesSound == SizeAsAsked /\ FailureLeavesOneVolume /\ NeverShrinks
=============================================================================
