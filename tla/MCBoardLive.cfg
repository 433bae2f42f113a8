CONSTANTS
    MAX_BLK_WORDS_PER_PKG = 2
    Packets <- AccessPackets
    Addr = {"LED_REG", "BULK_DATA", "NONE"}
    ZeroAddr = "NONE"
    Value = {0, 1, 2, 3, 4, 5}
    Port = {"PC"}
    timeout_for_waiting = 4
    RxCountMod = 256
    PkgCtrMod = 2
    BlkCtrMod = 2
    FifoDepth = 3
    CountLag = 0
    UDP_HDR_BYTES = 2
    ETH_HDR_BYTES = 1
    IP_HDR_BYTES = 1
    Overlap = FALSE
    ARP_MAX_PKT_TMO = 1
    ArpFails = TRUE
    MacStalls = FALSE
    MaxWords = 2
SPECIFICATION FairSpec
INVARIANT ReplyIntact
INVARIANT CleanReplyIsTrue
PROPERTY EveryRequestAnswered
PROPERTY AlwaysReadyAgain
