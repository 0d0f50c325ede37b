SPECIFICATION Spec
CONSTANTS
    Requests = {q1, q2}
    Paths = {p1, p2}
    Buses = {virtio, ide}
    Macs = {m1, m2}
    NoMac = NoMac
    LastLetter = 2
    MaxOps = 4
    NONE = NONE
SYMMETRY Symmetry
INVARIANT DevicesSound
PROPERTY DetachRemoves
