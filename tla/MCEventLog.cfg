\* Two writers, killed and overlapping or neither; two events fill the file.
CONSTANTS
    w1 = w1
    w2 = w2
    Writers <- MCWriters
    RotateSize = 3
    MaxEvents = 6
    MaxMonth = 2
SYMMETRY Symmetry
SPECIFICATION Spec
INVARIANTS
    LogReadsBack
    LogExact
    LastEventsRead
    SpoiltBounded
CHECK_DEADLOCK FALSE
