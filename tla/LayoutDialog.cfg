SPECIFICATION Spec
CONSTANTS
    NULL = NULL
    Own = Own
    Plugins = {"core-layouts", "other"}
    Layouts <- MCLayouts
    Startup <- MCStartup
    Late <- MCLate
    Outputs = {"DP-1", "HDMI-1"}
    Views = {v1, v2, v3}
    Room <- MCRoom
    Spaces <- MCSpaces
    Sizes <- MCSizes
    CutStep = 50
    Strays = FALSE
    v1 = v1
    v2 = v2
    v3 = v3
CONSTRAINT Bound
SYMMETRY ViewSymmetry
INVARIANT DialogsToo
