SPECIFICATION Spec
CONSTANTS
    Argvs <- MCArgvs
    Truncated <- MCTruncated
    inet_addr <- MCinet_addr
INVARIANTS
    ConfigurationIsCommandLine
    OutcomeIsDecided
CHECK_DEADLOCK FALSE
