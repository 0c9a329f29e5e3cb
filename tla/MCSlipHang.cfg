CONSTANTS
    Packets <- MCPackets
    BufLen = 2
    Ticks = {1, 3, 4}
    MaxFrames = 1
    MaxStalls = 0
SPECIFICATION Spec
PROPERTY AlwaysReturns
