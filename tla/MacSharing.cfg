CONSTANTS
    Host = {h1, h2}
    ZeroHost = none
    BroadcastHost = all
    ARP_MAX_PKT_TMO = 0
    Length = 2
    UDP_HDR_BYTES = 1
    ETH_HDR_BYTES = 1
    IP_HDR_BYTES = 1
    ARP_BYTES = 2
SPECIFICATION FairSpec
INVARIANT ArpOwnsChannel
INVARIANT FailedIsNotSent
PROPERTY IpKeepsChannel
PROPERTY BothGetTheirTurn
