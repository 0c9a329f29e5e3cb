CONSTANTS
    p1 = p1
    p2 = p2
    x = x
    y = y
    z = z
    SeqMod = 16
    Ports = {p1}
    FirstPort = p1
    Isn <- MCIsn
    Data = {x, y, z}
    Messages <- MCMessages
    Garbage = garbage
    InPlace = {FALSE}
    Windows = {0, 2, 3}
    MaxWindow = 2
    MaxRetries = 1
    MaxConnects = 1
    StreamLen = 3
    MaxStream = 2
    MaxSent = 6
    MaxPackets = 4
SPECIFICATION Spec
INVARIANT SuccessMeansAcked
CHECK_DEADLOCK FALSE
