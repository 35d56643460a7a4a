CONSTANTS
    t1 = t1
    t2 = t2
    isr = isr
    NoOne = NoOne
    Threads = {t1, t2}
    Sources = {isr}
    VMCore = 0
    CoreOf <- OnVMCore
    SchedDepth = 2
    MaxCalls = 4
    MaxDels = 2
    MaxInterrupts = 1
SPECIFICATION CooperativeSpec
INVARIANTS FifoOnce LockCounts WakeupKept
PROPERTIES NeverPreempts ScheduledRuns
