SPECIFICATION Spec
CONSTANTS
    Procs = {p1, p2}
    None = None
    Life = 2
    MaxRotations = 1
    MaxClock = 1
    MaxCommands = 3
SYMMETRY Symmetric
INVARIANTS CommandsCompose SignatureRefusedOnlyAfterRotation RefusalKeepsSession
CHECK_DEADLOCK FALSE
