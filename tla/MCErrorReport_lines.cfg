\* Two threads fail, clear the error, and remove and install a handler that logs.
SPECIFICATION Spec
CONSTANTS
    t1 = t1
    t2 = t2
    Threads <- MCThreads
    MaxLines <- MCTwoAndOne
    MaxMsg = 4
    Sizes <- MCSizes
    HandlerLogs = TRUE
    MayClear = TRUE
    MayUninstall = TRUE
    MayRunOut = TRUE
INVARIANTS
    OutputIsTheMessage
    LinesAreWrittenOrCounted
    OneNotePerCode
    HandlerSeesEveryLoss
CHECK_DEADLOCK FALSE
