SPECIFICATION Spec
CONSTANTS
    None = "none"
    Kind <- KindOf
    Views = {"a", "b"}
    Orphans = {"a", "b"}
    OutputList <- TwoOutputs
    Spaces = 1
    Elsewhere = FALSE
    Dragged = {}
    FollowFocus = FALSE
INVARIANTS OneActivated
