\* A start response or transport error after StartVault gave up waiting,
\* meeting a later StartVault call.
CONSTANTS
    MinPort <- MCMinPort
    MaxPort <- MCMaxPort
    ManagerPorts <- MCManagerPorts
    ForeignPorts <- MCForeignPorts
    MaxCalls <- MCMaxCalls
SPECIFICATION Spec
INVARIANT StartVaultReturnsOwnResult
CHECK_DEADLOCK FALSE
