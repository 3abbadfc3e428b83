SPECIFICATION Spec
CONSTANTS
    None = "none"
    Kind <- KindOf
    Views = {"a", "b", "c"}
    Orphans = {"a", "b", "c"}
    OutputList <- TwoOutputs
    Spaces = 2
    Elsewhere = TRUE
    Dragged = {"a"}
    FollowFocus = FALSE
INVARIANTS TypeOK ShownHasFocus
PROPERTIES LooksKept PeekLasts
