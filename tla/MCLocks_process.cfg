\* Two threads make every call that takes a mutex; handlers call back; one fork.
SPECIFICATION FairSpec
CONSTANTS
    t1 = t1
    t2 = t2
    Nobody = Nobody
    Threads <- MCThreads
    MaxCalls <- MCMaxCalls
    MaxForks = 1
    Calls = {"log", "first_log", "init", "set", "configure", "load_file", "reset", "flush",
             "add_level", "fork", "set_error_handler", "remove_error_handler",
             "clear_error", "last_error"}
    HandlerCalls = {"log", "set", "last_error", "remove_error_handler"}
INVARIANTS
    PairsAreWhole
    HandlersHoldNothing
    IdsAreOwn
PROPERTY CallsReturn
CHECK_DEADLOCK FALSE
