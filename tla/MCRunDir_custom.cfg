\* All runs have one file.name or one tag; module files are opened with no lock, by
\* forked children too; every call that precedes retention may fail but the listing of
\* latest and rename.
CONSTANTS
    Procs = {p1, p2, p3}
    NoProc = NoProc
    Modules = {m1}
    Shared = Shared
    TagDir = TagDir
    Modes = {"single", "module", "tagged"}
    RetainRuns = 0
    RetainAge = 0
    CustomName = TRUE
    Interrupts = FALSE
    Faults = {"dir", "runlock", "structlock", "tagdir", "opendir", "first"}
    Forking = TRUE
    MaxClock = 0
SPECIFICATION Spec
SYMMETRY Alike
CHECK_DEADLOCK FALSE
INVARIANTS
    OneRunInLatest
    NothingReplaced
