CONSTANTS
    Name = "vault"
    Platform = "linux"
    Cpu = "64"
    Lines <- MCLines
    NumeralValue <- MCNumeralValue
    MaxLines <- MCMaxLines
    CurrentVersions <- MCCurrentVersions
    CurrentPatchlevels <- MCCurrentPatchlevels
    Body <- MCBody
    MaxCalls <- MCMaxCalls
    U32Max <- MCU32Max
SPECIFICATION Spec
INVARIANT DownloadFailsOnlyOnFault
CHECK_DEADLOCK FALSE
