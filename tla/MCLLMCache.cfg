\* Two processes, three keys of which two fit.
CONSTANTS
    p1 = p1
    p2 = p2
    k1 = k1
    k2 = k2
    k3 = k3
    Procs <- MCProcs
    Keys <- MCKeys
    MaxEntries = 2
    MaxSaves = 5
SYMMETRY Symmetry
SPECIFICATION Spec
INVARIANTS
    SizeBounded
    SerialSavesKept
PROPERTY UndisturbedSaveReadable
CHECK_DEADLOCK FALSE
