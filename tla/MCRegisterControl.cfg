CONSTANTS
    Value = {0, 1, 9, 35}
    FifoDepth = 2
    CountLag = 1
    Addresses = {"BULK_DATA", "BULK_DATA_FILL", "DEV0_CONFIG"}
    Writes = {1, 9}
    DeviceWords = {9, 35}
    MaxWords = 4
SPECIFICATION MCSpec
INVARIANT NoWordLost
INVARIANT FillCounterHasNoGap
INVARIANT ConfigIsThereWhenAnnounced
