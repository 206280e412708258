\* A file, an environment, calls of the program and an added level, in any order
\* with the log call of a thread.
SPECIFICATION Spec
CONSTANTS
    LevelNames <- MCNames
    LevelValues = {25}
    Inherit <- MCInherit
    Off <- MCOff
    IntHalf = 64
    MaxLevels = 1
    Modules = {"net", "db"}
    Threads = {t1}
    CallLevels = {30}
    LevelCalls <- MCLevelCalls
    TextCalls <- MCTextCalls
    Configs <- MCConfigs
    Files <- MCFiles
    Envs <- MCEnvs
    MaxChanges = 2
    MaxCalls = 1
INVARIANTS
    ThresholdsFollowLayers
    QuietCallsFollowSettings
    FileLineJustified
    DistinctNamesRoundTrip
PROPERTY ReloadReportsWhatItSkips
CHECK_DEADLOCK FALSE
