CONSTANTS
    main = main
    t1 = t1
    t2 = t2
    NoOne = NoOne
    All = All
    Threads <- MCThreads
    Main = main
    QueueItems = 1
    MaxCreates = 2
    MaxStrings = 0
    MaxDepth = 2
SPECIFICATION CollectingSpec
INVARIANT LocalsKept
CHECK_DEADLOCK FALSE
