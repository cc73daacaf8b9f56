SPECIFICATION FairSpec
CONSTANTS
    c1 = c1
    c2 = c2
    None = None
    Callers <- TwoCallers
    MaxRetries = 2
    Faults <- AllFaults
    Second = 4
    MaxWait = 6
    MaxDuration = 63
    Limits <- SomeLimits
    MaxChanges = 1
INVARIANT AnswersWereTrue
INVARIANT RateLimitIsHonoured
INVARIANT IInv
PROPERTY CallsEnd
PROPERTY StaleAnswersExpire
