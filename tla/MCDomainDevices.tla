-------------------------- MODULE MCDomainDevices --------------------------
(***************************************************************************)
(* One domain, few volumes, MACs and letters.                              *)
(***************************************************************************)
EXTENDS DomainDevices, TLC

Symmetry == Permutations(Requests) \cup Permutations(Paths) \cup Permutations(Macs)
=============================================================================
