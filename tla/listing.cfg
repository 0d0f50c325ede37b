SPECIFICATION MCSpec
CONSTANTS
    n1 = n1
    n2 = n2
    q1 = q1
    q2 = q2
    u1 = u1
    u2 = u2
    own = own
    odd = odd
    net = net
    NONE = NONE
    Requests = {q1, q2}
    Nodes = {n1, n2}
    Uris = {u1, u2}
    Paths = {own, odd}
    Odd = {odd}
    Hidden = {own}
    NodeUri <- MCNodeUri
    PathsOf <- MCPathsOf
    Networks <- MCNetworks
    Queries <- PageQueries
    MaxChanges = 2
INVARIANT SharingSound
PROPERTY NeverBackToOlder
PROPERTY ListReturns
