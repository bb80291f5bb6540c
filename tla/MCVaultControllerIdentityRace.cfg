CONSTANTS
    e1 = e1
    e2 = e2
    e3 = e3
    own = own
    other = other
    ManagerPort <- MCManagerPort
    OwnIndex <- own
    OtherIndex <- other
    IdEps <- MCIdEps
    BootEps <- MCBootEps
    Endpoints <- MCEndpoints
    MaxCalls <- MCMaxCalls
    MaxStops <- MCMaxStops
SPECIFICATION Spec
\* The vault thread stops for good once the constructor has thrown, and
\* the bounds on calls and shutdown requests end every behaviour.
CHECK_DEADLOCK FALSE
INVARIANT NoIdentityHandlerAfterReturn
