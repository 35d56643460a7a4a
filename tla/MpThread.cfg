CONSTANTS
    main = main
    t1 = t1
    t2 = t2
    NoOne = NoOne
    All = All
    Threads <- MCThreads
    Main = main
    QueueItems = 1
    MaxCreates = 2
    MaxStrings = 2
    MaxDepth = 1
SPECIFICATION Spec
INVARIANTS TypeOK ListIntact SuspendedParked NotificationKept StringsOwned
SYMMETRY MCSymmetry
CHECK_DEADLOCK FALSE
