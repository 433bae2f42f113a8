CONSTANTS
    MAX_BLK_WORDS_PER_PKG = 1
    Addr = {"NONE"}
    ZeroAddr = "NONE"
    Value = {0, 1, 2}
    timeout_for_waiting = 4
    Port = {"PC"}
    RxCountMod = 256
    PkgCtrMod = 1
    BlkCtrMod = 1
    Kind = {"ping", "read", "write", "bulk", "drop"}
    MaxLen = 12
SPECIFICATION MCSpec
INVARIANT HeaderAnnouncesReply
INVARIANT WaitIsBounded
