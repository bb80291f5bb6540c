CONSTANTS
    PidStrings <- MCPidStrings
    NumeralValue <- MCNumeralValue
    MaxStarts <- MCMaxStarts
SPECIFICATION Spec
INVARIANT ConnectsToParsedPort
CHECK_DEADLOCK FALSE
