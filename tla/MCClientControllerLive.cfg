\* The handshake ends when every listener in range is a manager or closed.
CONSTANTS
    MinPort <- MCMinPort
    MaxPort <- MCMaxPort
    ManagerPorts <- MCManagerPorts
    ForeignPorts <- MCNoForeignPorts
    MaxCalls <- MCMaxCalls
SPECIFICATION FairSpec
PROPERTY HandshakeTerminates
\* The controller is passive once its handshake has ended and the bounded
\* caller has made its calls.
CHECK_DEADLOCK FALSE
