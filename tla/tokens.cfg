CONSTANTS
    s1 = s1
    s2 = s2
    t1 = t1
    t2 = t2
    Servers <- TwoServers
    Tokens <- TwoTokens
    MaxTokens = 1
    MaxAttempts = 2
    MaxCalls = 2
SPECIFICATION FairSpec
INVARIANTS
    TypeOK
    MintedStays
    NoFalseAlarm
PROPERTIES
    OneBook
    MintSpreads
