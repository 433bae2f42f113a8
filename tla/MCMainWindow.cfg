SPECIFICATION Spec
CONSTANTS
    Bits = {"b"}
    InitReadout <- BothReadout
    MAX_BLK_WORDS_PER_PKG = 1
    Addresses = {"control"}
    Interfaces = {1, 2}
    HostsChange = TRUE
    CloseMayFail = FALSE
    Lucks <- OneFault
    MaxFifo = 2
CHECK_DEADLOCK FALSE
INVARIANT ConnectionIsAsShown
PROPERTY ListIsFifoFront
