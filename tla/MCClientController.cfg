\* Safety of the handshake and of StartVault with a foreign listener in range.
CONSTANTS
    MinPort <- MCMinPort
    MaxPort <- MCMaxPort
    ManagerPorts <- MCManagerPorts
    ForeignPorts <- MCForeignPorts
    MaxCalls <- MCMaxCalls
SPECIFICATION Spec
INVARIANT TypeOK
INVARIANT StartRequestsReachManager
INVARIANT FailedOnlyAfterExhaustion
PROPERTY HandshakeSettles DiscoveryRefined
\* Once the handshake has ended and the caller has made its bounded calls,
\* the controller is passive: nothing in the code acts on its own.
CHECK_DEADLOCK FALSE
