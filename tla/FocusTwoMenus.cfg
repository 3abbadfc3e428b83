SPECIFICATION Spec
CONSTANTS
    None = "none"
    Kind <- KindOf
    Views = {"menu", "menu2"}
    Orphans = {"menu", "menu2"}
    OutputList <- TwoOutputs
    Spaces = 1
    Elsewhere = TRUE
    Dragged = {}
    FollowFocus = FALSE
INVARIANTS OneBemenu
