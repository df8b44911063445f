SPECIFICATION FairSpec
CONSTANTS
    Modes = {1, 2, 3, 4, 5}
    FreePages = {3, 6, 7, 10}
    NUM_RX_DESC = 3
    NUM_TX_DESC = 2
    RX_BATCH_MAX = 2
    RX_FREE_POOL_SIZE = 2
    RX_QUEUE_SIZE = 2
    ARP_CACHE_SIZE = 2
    Traffic <- MCTraffic
INVARIANTS
    TypeOK
    PagesAccounted
    DeliveredInOrder
    SendsTruthful
    ArpCurrent
PROPERTIES
    ReceivedIsHandled
CHECK_DEADLOCK FALSE
