SPECIFICATION Spec
CONSTANTS
    Procs = {p1}
    Files = {f}
    Texts = {a, b}
    Absent = Absent
    Missing = Missing
    WriterKinds = {FALSE}
    Returns = FALSE
    MaxEdits = 1
    MaxRefreshes = 1
INVARIANT MetricsNeverStale
CHECK_DEADLOCK FALSE
