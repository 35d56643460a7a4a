SPECIFICATION Spec
CONSTANTS
    Callbacks = {c1, c2}
    Targets = {0, 1, 2}
    TaskOps = {"new", "update", "delete"}
    ProgramOps = {"update", "delete"}
    MaxTasks = 2
    MaxCalls = 2
INVARIANTS TasksListed OnTime
PROPERTY Served
