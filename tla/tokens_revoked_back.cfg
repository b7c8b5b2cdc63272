CONSTANTS
    s1 = s1
    s2 = s2
    t1 = t1
    t2 = t2
    Servers <- TwoServers
    Tokens <- OneToken
    MaxTokens = 2
    MaxAttempts = 2
    MaxCalls = 2
SPECIFICATION Spec
INVARIANT RevokedStaysOut
