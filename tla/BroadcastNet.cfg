SPECIFICATION Spec
CONSTANTS
    Nodes = {"n1", "n2", "n3"}
    Outside = {"host"}
    NoAddress = {}
    Networks = {"lan", "wan"}
    attached <- MCAttached
    iface <- MCIface
    Configs <- MCConfigs
    Msgs = {"m2", "foreign"}
    origin <- MCOrigin
    RcvBuf = 1
    MaxCopies = 1
    MaxRelays = 2
INVARIANTS
    TypeOK
    HopBound
    Wiring
    AtMostOnce
CHECK_DEADLOCK FALSE
