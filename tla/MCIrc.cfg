SPECIFICATION FairSpec
CONSTANTS
    Texts <- MCTexts
    RxWindow = 3
    Drains = 1
    Pings = {"P1", "P2"}
    Kept <- MCKept
    Channels = {"#a", "#b"}
    RxLine = 2
    MaxInput = 1
INVARIANTS TypeOK OutIsOneLine PingRemembered ChannelJoined
PROPERTIES PingAnswered
CHECK_DEADLOCK FALSE
