SPECIFICATION FairSpec
CONSTANTS
    Texts <- MCTexts
    RxWindow = 3
    Drains = 3
    Cols = 2
    MaxInput = 1
INVARIANTS TypeOK WindowTracked NothingHidden LinesKept
PROPERTIES HangupNoticed HangupLosesOneWindow
CHECK_DEADLOCK FALSE
