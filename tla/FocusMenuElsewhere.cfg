SPECIFICATION Spec
CONSTANTS
    None = "none"
    Kind <- KindOf
    Views = {"a", "menu"}
    Orphans = {"a", "menu"}
    OutputList <- TwoOutputs
    Spaces = 1
    Elsewhere = TRUE
    Dragged = {}
    FollowFocus = FALSE
INVARIANTS BemenuHasFocus
