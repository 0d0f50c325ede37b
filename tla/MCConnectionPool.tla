-------------------------- MODULE MCConnectionPool --------------------------
(***************************************************************************)
(* A small pool: two hypervisor URIs, one of which two node ids share and  *)
(* may hang, and a node id nobody configured.                              *)
(***************************************************************************)
EXTENDS ConnectionPool, TLC

CONSTANTS t1, t2, t3, n1, n2, n3, u1, u2

MCNodes == {n1, n2, n3}
MCUris == {u1, u2}
MCNodeUri == (n1 :> u1) @@ (n2 :> u1) @@ (n3 :> u2)

\* Who asks for what: t1 for the first hypervisor under either name, t2 for
\* both hypervisors, t3 for the second one and for an unknown node.
Asks == (t1 :> {n1, n2}) @@ (t2 :> {n2, n3}) @@ (t3 :> {n3} \cup UnknownNodes)

AsAsked == \A t \in Threads : node'[t] \in {node[t], NONE} \cup Asks[t]

MCSpec == Init /\ [][Next /\ AsAsked]_vars /\ Fairness
=============================================================================
