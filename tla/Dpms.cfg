SPECIFICATION Spec
CONSTANTS
    Outputs = {"DP-1", "HDMI-1"}
    Delays = {0, 1, 3, 8, 16, 17}
    Millis = 4
    Wrap = 64
INVARIANTS TypeOK ForceIsDue
PROPERTIES SleepIsEarned SleepComes
