SPECIFICATION FairSpec
CONSTANTS
    MaxInFlight = 4
    SilentCodes = FALSE
    Reinstalls = FALSE
INVARIANTS
    SpinnerHasOwner
PROPERTIES
    LaunchResolves
    SpinnerClears
