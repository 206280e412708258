\* Three processes, one file each or a common tag, keep the newest run; a process may
\* fork, a lock may not be opened or probed, log_dir not be listed for the locks, and
\* the directory of a tag not be made.
CONSTANTS
    Procs = {p1, p2, p3}
    NoProc = NoProc
    Modules = {}
    Shared = Shared
    TagDir = TagDir
    Modes = {"single", "tagged"}
    RetainRuns = 1
    RetainAge = 0
    CustomName = FALSE
    Interrupts = FALSE
    Faults = {"runlock", "tagdir", "listlocks", "probe"}
    Forking = TRUE
    MaxClock = 1
SPECIFICATION Spec
SYMMETRY Alike
CHECK_DEADLOCK FALSE
INVARIANTS
    LockedRunNeverReaped
    SweepKeepsNewest
PROPERTIES
    SweepLeavesNoOrphan
    RotatesRuns
