SPECIFICATION Spec
CONSTANTS
    NULL = NULL
    Plugins = {"core", "other", "ini", "json"}
    Backends = {"ini", "json"}
    Words <- MCWords
    Letters = {"_", "x"}
    Values <- MCValues
    Files <- MCFiles
    BindNames = {"sleep", "exit", "focus next"}
    Spelling <- MCSpelling
    Combos <- MCCombos
    Requests <- MCRequests
    KeyEvents <- MCKeyEvents
    DefaultPrefix = "logo"
    PoolSize = 2
INVARIANTS TypeOK ShownRun TableIsFile
CHECK_DEADLOCK FALSE
