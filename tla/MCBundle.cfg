SPECIFICATION Spec
CONSTANTS
    Procs = {p1, p2}
    Files = {f}
    Texts = {a, b, c}
    Absent = Absent
    Missing = Missing
    WriterKinds = {TRUE, FALSE}
    Returns = FALSE
    MaxEdits = 2
    MaxRefreshes = 3
SYMMETRY Symmetric
INVARIANTS TypeOK AcceptedCurrent RefreshRepairs
CHECK_DEADLOCK FALSE
