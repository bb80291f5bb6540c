CONSTANTS
    PidStrings <- MCPidStrings
    NumeralValue <- MCNumeralValue
    MaxStarts <- MCMaxStarts
SPECIFICATION Spec
INVARIANT MalformedIdentifierFatal
CHECK_DEADLOCK FALSE
