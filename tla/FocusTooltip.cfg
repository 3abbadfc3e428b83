SPECIFICATION Spec
CONSTANTS
    None = "none"
    Kind <- KindOf
    Views = {"a", "b", "tip"}
    Orphans = {"a", "b"}
    OutputList <- OneOutput
    Spaces = 1
    Elsewhere = FALSE
    Dragged = {}
    FollowFocus = FALSE
PROPERTIES PassedOn
