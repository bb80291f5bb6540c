CONSTANTS
    PidStrings <- MCPidStrings
    NumeralValue <- MCNumeralValue
    MaxStarts <- MCMaxStarts
SPECIFICATION Spec
INVARIANT NoUseAfterDestroy
CHECK_DEADLOCK FALSE
