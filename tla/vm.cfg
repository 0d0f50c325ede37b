SPECIFICATION Spec
CONSTANTS
    a = a
    b = b
    img = img
    ra = ra
    ca = ca
    cb = cb
    Vms <- MCVms
    Paths <- MCPaths
    Images = {img}
    Protected = {img}
    Cd <- MCCd
    Requests = {r1, r2}
    CreateForms <- AllForms
    VolumeForms <- PageVolumes
    Scripts <- TwoScripts
    MaxDisks = 3
    MaxOps = 4
    NONE = NONE
SYMMETRY RequestSymmetry
CHECK_DEADLOCK FALSE
INVARIANTS
    NoHalfMadeVm
    SharingExplained
PROPERTIES
    DeletesExplained
