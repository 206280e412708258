\* One thread records a failure while another one forks.
SPECIFICATION Spec
CONSTANTS
    t1 = t1
    t2 = t2
    Nobody = Nobody
    Threads <- MCThreads
    MaxCalls <- MCMaxCalls
    MaxForks = 1
    Calls = {"log", "fork"}
    HandlerCalls = {}
INVARIANT ChildInheritsNoMutex
CHECK_DEADLOCK FALSE
