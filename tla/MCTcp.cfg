CONSTANTS
    p1 = p1
    p2 = p2
    x = x
    y = y
    z = z
    SeqMod = 16
    Ports = {p1, p2}
    FirstPort = p1
    Isn <- MCIsn
    Data = {x, y, z}
    Messages <- MCMessages
    Garbage = garbage
    InPlace = {FALSE}
    Windows = {0, 2, 3}
    MaxWindow = 2
    MaxRetries = 1
    MaxConnects = 2
    StreamLen = 3
    MaxStream = 2
    MaxSent = 6
    MaxPackets = 4
SPECIFICATION FairSpec
INVARIANTS TypeOK AckedIsReceived AckWithinSent DataFits OnlyOurBytes
PROPERTIES NeverRegresses InOrderOnce IsByteStream CallsReturn
CHECK_DEADLOCK FALSE
