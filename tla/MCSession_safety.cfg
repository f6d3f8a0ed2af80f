SPECIFICATION Spec
CONSTANTS
    MaxInFlight = 5
    SilentCodes = TRUE
    Reinstalls = TRUE
INVARIANTS
    TypeOK
    AccountScreensNeedToken
    NeverUnwrapsMissingToken
    AutoLoginOnlyAtLaunch
PROPERTIES
    KeepsGate
