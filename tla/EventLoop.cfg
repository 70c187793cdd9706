SPECIFICATION TurnsSpec
CONSTANTS
    HostAddr = "host"
    Datagrams <- MCDatagrams
    LowWords = {0, 1}
    RcvBuf = 2
    MaxArrivals = 3
    MaxTyped = 1
INVARIANTS
    TypeOK
    NoBlockingRecv
    SourceKnown
    InOrderAtMostOnce
    NoSilentLoss
    ServedInTurn
PROPERTY ImplementsRelay
CHECK_DEADLOCK FALSE
