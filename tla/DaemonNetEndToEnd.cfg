SPECIFICATION FairLoopSpec
CONSTANTS
    Nodes = {"n1", "n2", "n3"}
    Outside = {"newcomer"}
    NoAddress = {"newcomer"}
    Networks = {"lan", "wan"}
    attached <- MCAttached
    iface <- MCIface
    Configs <- MCHygienic
    Msgs = {"m1"}
    origin <- MCOrigin
    RcvBuf = 2
    MaxCopies = 2
    MaxRelays = 2
INVARIANT AtMostOnce
PROPERTY EndToEnd
CHECK_DEADLOCK FALSE
