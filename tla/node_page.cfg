SPECIFICATION Spec
CONSTANTS
    Cells = {0, 1}
    Sizes = {small, huge}
    MaxPages = 1
    Wide = 1024
    Vms = {v1, v2}
    Vcpus = {1, 2}
    MaxChanges = 1
    NONE = NONE
    CellOf <- MCCellOf
    Tunings <- MCTunings
SYMMETRY VmSymmetry
PROPERTY PageSound
