SPECIFICATION Spec
CONSTANTS
    Argvs <- MCArgvs
    Truncated <- MCTruncated
    inet_addr <- MCinet_addr
    Ephemeral = {40000, 40001}
    OtherPorts = {6667, 40000}
    Interfaces = {"eth0"}
INVARIANTS
    OpensWhatIsAsked
    PortsAreCommandLine
