------------------------------ MODULE NodeLock ------------------------------
(***************************************************************************)
(* What libvirt.ConnectionPool promises to the repositories, with none of  *)
(* its locking: a caller asks for the connection of a URI, and later is    *)
(* either refused or becomes the only user of that URI until it gives it   *)
(* back.  The death of the process takes every request and every grant     *)
(* away.  ConnectionPool.tla implements this module.                       *)
(***************************************************************************)

CONSTANTS Threads, Uris, NONE

VARIABLES
    owner,      \* owner[u] is the thread that may use the connection of u
    wanted      \* wanted[t] is the URI thread t is waiting for, or NONE

vars == <<owner, wanted>>

Init == /\ owner = [u \in Uris |-> NONE]
        /\ wanted = [t \in Threads |-> NONE]

Ask(t, u) == /\ wanted[t] = NONE
             /\ \A v \in Uris : owner[v] # t
             /\ wanted' = [wanted EXCEPT ![t] = u]
             /\ UNCHANGED owner

Grant(t) == /\ wanted[t] # NONE
            /\ owner[wanted[t]] = NONE
            /\ owner' = [owner EXCEPT ![wanted[t]] = t]
            /\ wanted' = [wanted EXCEPT ![t] = NONE]

Refuse(t) == /\ wanted[t] # NONE
             /\ wanted' = [wanted EXCEPT ![t] = NONE]
             /\ UNCHANGED owner

GiveBack(t, u) == /\ owner[u] = t
                  /\ owner' = [owner EXCEPT ![u] = NONE]
                  /\ UNCHANGED wanted

\* The process dies: nobody waits and nobody owns anything.
Die == /\ owner' = [u \in Uris |-> NONE]
       /\ wanted' = [t \in Threads |-> NONE]

Next == \/ \E t \in Threads, u \in Uris : Ask(t, u) \/ GiveBack(t, u)
        \/ \E t \in Threads : Grant(t) \/ Refuse(t)
        \/ Die

Spec == Init /\ [][Next]_vars
=============================================================================
