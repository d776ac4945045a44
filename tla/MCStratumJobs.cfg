SPECIFICATION FairSpec
CONSTANTS
    None = None
    Machines <- MCMachines
    JobIds <- MCJobIds
    Times <- MCOneTime
    Bytes = 2
    Extranonces = 2
    MaxHanded = 4
    MaxSubmits = 1
    MaxSessions = 2
INVARIANTS DistinctSearch HeaderMatches JobsAreCurrent SharesAccounted
PROPERTIES SharesSettle
