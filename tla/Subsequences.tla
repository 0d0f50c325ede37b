---------------------------- MODULE Subsequences ----------------------------
(***************************************************************************)
(* What a loop that drops elements of a slice leaves.  The operator takes  *)
(* a set where SelectSeq takes a test, and recursion is over a function,   *)
(* so that facts about it can be proved (SubsequencesProofs.tla).          *)
(***************************************************************************)
EXTENDS Integers, Sequences

\* The elements of s that are in S, in their order.
Keep(s, S) ==
    LET kept[n \in 0 .. Len(s)] ==
          IF n = 0 THEN <<>>
          ELSE IF s[n] \in S THEN Append(kept[n - 1], s[n])
          ELSE kept[n - 1]
    IN  kept[Len(s)]
=============================================================================
