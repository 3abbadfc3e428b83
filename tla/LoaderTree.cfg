\* The in-tree plugins around core-screenshot.
SPECIFICATION SSpec
CONSTANTS
    NULL = NULL
    Core = "orbment"
    Objects <- TreeObjects
    Info <- TreeInfo
    Names <- TreeNames
    PoolSize = 6
    HookTypes <- TreeHookTypes
    APIs = {"keybind", "compressor"}
    InitCalls <- TreeCalls
    Dynamic = {}
    MaxShifts = 0
    Shot = "core-screenshot"
    Outputs = {"DP-1"}
    QueueSize = 2
INVARIANTS NamesResolve WorkerRunsMapped BoundStays
PROPERTIES ImplementsLifecycle RemoveEnds
CHECK_DEADLOCK FALSE
