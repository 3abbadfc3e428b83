SPECIFICATION Spec
CONSTANTS
    NULL = NULL
    Core = "orbment"
    Objects <- NamesakeObjects
    Info <- NamesakeInfo
    Names <- AllNames
    PoolSize = 4
PROPERTY GroupConflictChecked
CHECK_DEADLOCK FALSE
