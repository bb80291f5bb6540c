\* A foreign listener in range that answers hello with another message type.
CONSTANTS
    MinPort <- MCMinPort
    MaxPort <- MCMaxPort
    ManagerPorts <- MCManagerPorts
    ForeignPorts <- MCForeignPorts
    MaxCalls <- MCMaxCalls
SPECIFICATION FairSpec
PROPERTY HandshakeTerminates
CHECK_DEADLOCK FALSE
