\* Two threads write while the prefix is changed and writes are cut short or fail.
SPECIFICATION Spec
CONSTANTS
    t1 = t1
    t2 = t2
    Characters <- MCCharacters
    MaxLine = 11
    MaxMsg = 5
    BuiltinLevels = {"WARNING"}
    Threads <- MCThreads
    Records <- MCRecords
    Configurations <- MCConfigurations
    Defaults <- MCDefaults
    Loaded <- MCLoaded
    Severe = {"WARNING"}
    MaxLines <- MCMaxLines
    MaxReloads = 1
    MaxShort = 1
    MaxClock = 1
SYMMETRY Alike
INVARIANTS
    LineIsPromised
    OneLinePerRecord
    UnsplitLinesAreWhole
    LinesAreCompleteOrCounted
    SevereLinesAreDurable
    PublishedIsCurrent
CHECK_DEADLOCK FALSE
