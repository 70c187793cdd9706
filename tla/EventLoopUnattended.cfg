SPECIFICATION FairPrintingSpec
CONSTANTS
    HostAddr = "host"
    Datagrams <- MCDatagrams
    LowWords = {1}
    RcvBuf = 2
    MaxArrivals = 2
    MaxTyped = 1
PROPERTY ReceptionTriggersForwarding
CHECK_DEADLOCK FALSE
