\* Two threads fail at the same time.
SPECIFICATION Spec
CONSTANTS
    t1 = t1
    t2 = t2
    Threads <- MCThreads
    MaxLines <- MCOneEach
    MaxMsg = 1
    Sizes <- MCOneSize
    HandlerLogs = FALSE
    MayClear = FALSE
    MayUninstall = FALSE
    MayRunOut = FALSE
INVARIANT HandlerGetsItsFailure
CHECK_DEADLOCK FALSE
