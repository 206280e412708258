\* Two threads, two modules; every open may fail, the error handler logs, the program
\* reconfigures, shuts down, forks and restarts, and reuses descriptors.
CONSTANTS
    Threads = {t1, t2}
    NoThread = NoThread
    Modules = {m1, m2}
    NoModule = NoModule
    Shared = Shared
    MaxFd = 2
    MaxCrashFds = 1
    MaxEpoch = 1
    OpenRunFails = TRUE
    FileOpenFails = TRUE
    Reconfigure = TRUE
    HandlerLogs = TRUE
SPECIFICATION FairSpec
INVARIANTS
    TypeOK
    RunOpenedOnce
    LineGoesToItsFile
    OpenFdsAreTheLogs
    CrashTableIsCurrent
    ClosedRunStaysClosed
    FailureWasReported
    FailureReportedOnce
PROPERTY MutexIsReleased
