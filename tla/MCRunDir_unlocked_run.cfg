\* A probe of retention meets a run that is just taking its lock.
CONSTANTS
    Procs = {p1, p2, p3}
    NoProc = NoProc
    Modules = {}
    Shared = Shared
    TagDir = TagDir
    Modes = {"single"}
    RetainRuns = 1
    RetainAge = 0
    CustomName = FALSE
    Interrupts = FALSE
    Faults = {}
    Forking = FALSE
    MaxClock = 1
SPECIFICATION Spec
SYMMETRY Alike
CHECK_DEADLOCK FALSE
INVARIANT OpenFileNeverReaped
