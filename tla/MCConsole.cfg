CONSTANTS
    Addresses <- MCAddresses
    Retries = 5
    Digits <- MCDigits
    Keys <- MCKeys
    Parts = 2
    ByteMod = 4
    WordMod = 8
    LineMax = 6
    MaxNick = 2
    MaxChan = 3
    DefaultPort = 5
    Cols = 4
    Rows = 3
    MaxInput = 3
    Typed = {"a", "b"}
    Texts <- MCTexts
    Prefix <- MCPrefix
SPECIFICATION ConsoleFair
INVARIANTS TypeOK RequestsVerify AllTried AddressAsTyped ReadyToDial LogIntact InputShown
PROPERTIES PingEnds
CHECK_DEADLOCK FALSE
