SPECIFICATION Spec
CONSTANTS
    NULL = NULL
    Core = "orbment"
    Objects <- OddObjects
    Info <- OddInfo
    Names <- AllNames
    PoolSize = 8
INVARIANTS TypeOK GroupsResolve RequiredLoaded NoReentry
PROPERTIES LoadOrder LoadEnds
CHECK_DEADLOCK FALSE
