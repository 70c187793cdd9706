SPECIFICATION FairLoopSpec
CONSTANTS
    Nodes = {"n1", "n3"}
    Outside = {"newcomer"}
    NoAddress = {"newcomer"}
    Networks = {"lan", "wan"}
    attached <- MCAttached
    iface <- MCIface
    Configs <- MCConfigs
    Msgs = {"m1", "addressless"}
    origin <- MCOrigin
    RcvBuf = 1
    MaxCopies = 1
    MaxRelays = 2
PROPERTIES
    CallbacksAreAtomic
    StormFree
CHECK_DEADLOCK FALSE
