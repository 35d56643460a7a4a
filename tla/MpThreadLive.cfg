CONSTANTS
    main = main
    t1 = t1
    t2 = t2
    NoOne = NoOne
    All = All
    Threads <- OneMore
    Main = main
    QueueItems = 1
    MaxCreates = 3
    MaxStrings = 2
    MaxDepth = 1
SPECIFICATION FairSpec
PROPERTIES NotifiedWakes EndedIsCleaned
CHECK_DEADLOCK FALSE
