SPECIFICATION FairSpec
CONSTANTS
    Configs <- MCConfigs
    Ephemeral = {40000, 40001}
    OtherPorts = {6666, 40000}
    Interfaces = {"eth0"}
INVARIANTS
    TypeOK
    ReadyForLoop
    OwnPorts
PROPERTIES
    NeedsInterface
    StartupEnds
