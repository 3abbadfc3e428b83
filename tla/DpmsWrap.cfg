SPECIFICATION Spec
CONSTANTS
    Outputs = {"DP-1"}
    Delays = {1, 17}
    Millis = 4
    Wrap = 64
PROPERTIES SleepsAfterDelay
