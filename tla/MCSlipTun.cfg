CONSTANTS
    Packets <- MCPackets
    MTU = 2
    IP_HDR_MIN = 1
    RxCap = 1
    MaxInst = 2
    MaxTx = 1
    MaxTun = 2
    MaxStarts = 2
    SlowRestart = TRUE
SPECIFICATION Spec
INVARIANTS TypeOK NoLeftovers InjectedWhole
PROPERTIES StableClientAttached GoneClientDetached
