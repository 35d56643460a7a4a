SPECIFICATION Spec
CONSTANTS
    Pins = {0, 1, 8}
    AlwaysOutput = {1}
    AlwaysInput = {8}
    PolarityDefault = {0, 8}
    Ops = {"attach", "get", "config", "polarity", "output"}
    MaxChanges = 2
    MaxCalls = 2
    MaxFailures = 1
    MaxRestarts = 1
INVARIANTS UpToDate Obeyed
PROPERTY AllTold
CHECK_DEADLOCK FALSE
