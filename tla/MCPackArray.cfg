SPECIFICATION Spec
CONSTANTS
    Characters <- MCCharacters
    Records <- MCRecords
    Name <- MCName
    MaxSize = 31
    MaxRecent = 5
INVARIANT PageFindsLast
