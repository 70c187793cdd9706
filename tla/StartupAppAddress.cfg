SPECIFICATION Spec
CONSTANTS
    Configs <- MCUsual
    Ephemeral = {40000, 40001}
    OtherPorts = {6666, 40000}
    Interfaces = {"eth0"}
INVARIANT ForwardsToAppAddress
