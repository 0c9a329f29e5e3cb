SPECIFICATION FairSpec
CONSTANTS
    Texts <- MCHello
    RxWindow = 3
    Drains = 3
    Cols = 2
    MaxInput = 1
PROPERTIES AllArrives
CHECK_DEADLOCK FALSE
