SPECIFICATION FairSpec
CONSTANTS
    few = few
    many = many
    test = test
    Options <- MCOptions
    TooMany <- MCNone
    DefaultOption = few
    TestOption = test
    Programs = 2
    MaxCount = 2
    Faults <- MCNone
    MaxInFlight = 2
    MaxLosses = 1
    MaxStrays = 1
PROPERTIES LockReleased StartedAgain
