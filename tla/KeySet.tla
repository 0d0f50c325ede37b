------------------------------- MODULE KeySet -------------------------------
(***************************************************************************)
(* What the key repository promises: a set of public keys, one entry per   *)
(* fingerprint.  KeyFile.tla implements it as long as requests that change *)
(* the file do not overlap.                                                *)
(***************************************************************************)
CONSTANT Keys

VARIABLE keys

Init == keys \subseteq Keys

Add(k) == /\ k \notin keys
          /\ keys' = keys \cup {k}

Delete(k) == /\ k \in keys
             /\ keys' = keys \ {k}

Next == \E k \in Keys : Add(k) \/ Delete(k)

Spec == Init /\ [][Next]_keys
=============================================================================
