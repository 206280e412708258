\* Two processes with or without a tag; every call that Faults can name may fail, a signal
\* may end the wait for the structure lock, a process may fork; runs are retained by number
\* and by age.
CONSTANTS
    Procs = {p1, p2}
    NoProc = NoProc
    Modules = {}
    Shared = Shared
    TagDir = TagDir
    Modes = {"single", "tagged"}
    RetainRuns = 1
    RetainAge = 1
    CustomName = FALSE
    Interrupts = TRUE
    Faults = {"dir", "runlock", "structlock", "listlatest", "rename", "tagdir", "opendir",
              "first", "listlocks", "probe", "listfiles", "unlink"}
    Forking = TRUE
    MaxClock = 2
SPECIFICATION FairSpec
CHECK_DEADLOCK FALSE
INVARIANT FailureHoldsNothing
PROPERTY StartupCompletes
