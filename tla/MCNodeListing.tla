--------------------------- MODULE MCNodeListing ---------------------------
(***************************************************************************)
(* Two hypervisors, each with a VM of its own.  The volume of the first    *)
(* one's VM is hidden; the conversion of the second one's panics.          *)
(***************************************************************************)
EXTENDS NodeListing, TLC

CONSTANTS n1, n2, q1, q2, u1, u2, own, odd, net

MCNodeUri == (n1 :> u1) @@ (n2 :> u2)
MCNetworks == (u1 :> {net}) @@ (u2 :> {net})
MCPathsOf == (u1 :> {own}) @@ (u2 :> {odd})

PageQueries == {[kind |-> "vms", only |-> {}],
                [kind |-> "get", only |-> {n1}, path |-> own],
                [kind |-> "get", only |-> {n2}, path |-> odd],
                [kind |-> "vols", only |-> {n1}],
                [kind |-> "nets", only |-> {}]}

\* The first browser looks at one VM or at volumes, the second at the VMs or
\* networks of both hypervisors.
Asks == (q1 :> {"get", "vols"}) @@ (q2 :> {"vms", "nets"})

AsAsked == \A q \in Requests :
             (query[q] = NONE /\ query'[q] # NONE) => query'[q].kind \in Asks[q]

MCSpec == Init /\ [][Next /\ AsAsked]_vars /\ Fairness
=============================================================================
