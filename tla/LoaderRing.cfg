SPECIFICATION Spec
CONSTANTS
    NULL = NULL
    Core = "orbment"
    Objects <- RingObjects
    Info <- RingInfo
    Names <- AllNames
    PoolSize = 4
INVARIANT NoReentry
CHECK_DEADLOCK FALSE
