----------------------------- MODULE MCNodePage -----------------------------
(***************************************************************************)
(* Two cells, of two CPUs and of one; six kinds of pinning.                *)
(***************************************************************************)
EXTENDS NodePage, TLC

MCCellOf == (0 :> 0) @@ (1 :> 0) @@ (2 :> 1)

Tuning(e, a, b) == [tuned |-> TRUE, emulator |-> e, vcpus |-> (1 :> a) @@ (2 :> b)]

MCTunings == {[tuned |-> FALSE, emulator |-> NONE, vcpus |-> [v \in {1, 2} |-> NONE]],
              Tuning({0}, NONE, NONE),
              Tuning(NONE, {0}, {1}),
              Tuning({0}, {1}, NONE),
              Tuning({0}, {0, 1}, {2}),
              Tuning({1, 2}, {0, 2}, {1})}

VmSymmetry == Permutations(Vms)
=============================================================================
