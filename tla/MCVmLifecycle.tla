--------------------------- MODULE MCVmLifecycle ---------------------------
(***************************************************************************)
(* One hypervisor with one image; two VM names.  The form for a clones the *)
(* image to path ra; the form for b makes an empty volume under the same   *)
(* path (volume names are free text).                                      *)
(***************************************************************************)
EXTENDS VmLifecycle, TLC

CONSTANTS a, b, img, ra, ca, cb

MCVms == {a, b}
MCPaths == {img, ra, ca, cb}
MCCd == [v \in MCVms |-> IF v = a THEN ca ELSE cb]

CloneImage == [from |-> img, to |-> ra]
NewVolume == [from |-> NONE, to |-> ra]

FormA == [vm |-> a, attach |-> <<>>, make |-> <<CloneImage>>, start |-> TRUE]
FormB == [vm |-> b, attach |-> <<>>, make |-> <<NewVolume>>, start |-> FALSE]

\* Two requests for the same name, and one request with every kind of disk.
FormBig == [vm |-> a, attach |-> <<img>>, make |-> <<CloneImage, [from |-> NONE, to |-> cb]>>,
            start |-> TRUE]
OneVm == {a}
OneCd == [v \in OneVm |-> ca]
OneForms == {FormA, FormBig}
AllForms == {FormA, FormB, FormBig}

PageVolumes == {NewVolume}
TwoScripts == <<FALSE, TRUE>>

RequestSymmetry == Permutations(Requests)
=============================================================================
