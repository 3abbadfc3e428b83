SPECIFICATION PreviousKeySpec
CONSTANTS
    None = "none"
    Kind <- KindOf
    Views = {"a", "b", "c"}
    Orphans = {"a", "b", "c"}
    OutputList <- OneOutput
    Spaces = 1
    Elsewhere = FALSE
    Dragged = {}
    FollowFocus = FALSE
PROPERTIES RotatesThroughClients
