SPECIFICATION Spec
CONSTANTS
    Sizes = {0, 1, 3, 4}
    MaxSize = 3
    SeqMod = 4
    MaxWrong = 2
    MaxErrors = 3
    MaxGreetings = 2
    MaxTries = 3
    MaxSpoilt = 1
INVARIANT Delivered
PROPERTY BothEnd
CHECK_DEADLOCK FALSE
