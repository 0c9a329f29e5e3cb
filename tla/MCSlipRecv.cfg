CONSTANTS
    Packets <- MCPackets
    BufLen = 2
    Ticks = {1, 3, 4}
    MaxFrames = 3
    MaxStalls = 2
SPECIFICATION Spec
INVARIANTS TypeOK ReturnsSentPackets
PROPERTIES FrameEndsCall StopsOnlyAtBorder
