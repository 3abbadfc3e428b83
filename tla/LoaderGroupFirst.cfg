SPECIFICATION Spec
CONSTANTS
    NULL = NULL
    Core = "orbment"
    Objects <- GroupFirstObjects
    Info <- GroupFirstInfo
    Names <- AllNames
    PoolSize = 4
INVARIANT RequiredLoaded
CHECK_DEADLOCK FALSE
