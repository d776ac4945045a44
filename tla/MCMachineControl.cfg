SPECIFICATION Spec
CONSTANTS
    few = few
    many = many
    test = test
    Options <- MCOptions
    TooMany <- MCTooMany
    DefaultOption = few
    TestOption = test
    Programs = 1
    MaxCount = 1
    Faults <- MCAllFaults
    MaxInFlight = 2
    MaxLosses = 1
    MaxStrays = 1
INVARIANTS TypeOK LockIsPending ViewAgrees SettingsAgree HangsOnlyHere
CHECK_DEADLOCK FALSE
