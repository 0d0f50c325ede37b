SPECIFICATION Spec
CONSTANTS
    a = a
    b = b
    img = img
    ra = ra
    ca = ca
    cb = cb
    Vms <- OneVm
    Paths <- MCPaths
    Images = {img}
    Protected = {img}
    Cd <- OneCd
    Requests = {r1, r2}
    CreateForms <- OneForms
    VolumeForms <- PageVolumes
    Scripts <- TwoScripts
    MaxDisks = 3
    MaxOps = 2
    NONE = NONE
SYMMETRY RequestSymmetry
CHECK_DEADLOCK FALSE
INVARIANT ScriptsOnlyForNewVm
