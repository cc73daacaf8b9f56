SPECIFICATION FairSpec
CONSTANTS
    alice = alice
    bob = bob
    Recipients <- TwoRecipients
    Deadlines <- SomeDeadlines
    Timeout = 4
    MaxAttempts = 3
    InitialWait = 1
    Growth <- Doubling
    MaxWait = 4
    Credentials = TRUE
    Horizon = 12
CHECK_DEADLOCK FALSE
INVARIANT NilMeansAccepted
INVARIANT CopiesAreLostAnswers
INVARIANT EndsInTime
INVARIANT GivesUpForCause
INVARIANT IInv
PROPERTY CallReturns
