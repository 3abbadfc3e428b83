\* The in-tree plugins around core-screenshot.
SPECIFICATION SSpec
CONSTANTS
    NULL = NULL
    Core = "orbment"
    Objects <- TreeObjects
    Info <- StrayInfo
    Names <- TreeNames
    PoolSize = 6
    HookTypes <- TreeHookTypes
    APIs = {"keybind", "compressor"}
    InitCalls <- TreeCalls
    Dynamic = {}
    MaxShifts = 0
    Shot = "core-screenshot"
    Outputs = {"DP-1"}
    QueueSize = 2
INVARIANT WorkerRunsMapped

CHECK_DEADLOCK FALSE
