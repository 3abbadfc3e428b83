SPECIFICATION HSpec
CONSTANTS
    NULL = NULL
    Core = "orbment"
    Objects <- TreeObjects
    Info <- TreeInfo
    Names <- TreeNames
    PoolSize = 6
    HookTypes <- TreeHookTypes
    APIs <- TreeAPIs
    InitCalls <- TreeCalls
    Dynamic = {"fickle"}
    MaxShifts = 2
INVARIANTS HooksTypeOK HooksAlive EntriesAlive RegistrationsKept CalledOnce
PROPERTIES ApiReady
CHECK_DEADLOCK FALSE
