SPECIFICATION Spec
CONSTANTS
    Nodes = {"n1", "n2"}
    Outside = {"host"}
    NoAddress = {}
    Networks = {"lan", "wan"}
    attached <- MCAttached
    iface <- MCIface
    Configs <- MCRebroadcast
    Msgs = {"m1"}
    origin <- MCOrigin
    RcvBuf = 2
    MaxCopies = 2
    MaxRelays = 3
INVARIANT SelfBroadcastNotReceived
CHECK_DEADLOCK FALSE
