\* Three threads pass one call site of each kind.
SPECIFICATION Spec
CONSTANTS
    Threads = {t1, t2, t3}
    N = 2
    Gap = 2
    MaxCalls = 3
    MaxClock = 4
SYMMETRY Alike
INVARIANTS EveryNthCall FirstNCalls StampsAreSpaced FirstCallFires
CHECK_DEADLOCK FALSE
