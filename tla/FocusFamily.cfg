SPECIFICATION Spec
CONSTANTS
    None = "none"
    Kind <- KindOf
    Views = {"a", "b", "c", "menu", "menu2"}
    Orphans = {"a", "menu", "menu2"}
    OutputList <- OneOutput
    Spaces = 2
    Elsewhere = FALSE
    Dragged = {}
    FollowFocus = TRUE
INVARIANTS ActiveIsOpen BemenuHasFocus
PROPERTIES NoStealing BackToParent OverParentLasts
