SPECIFICATION FairLifeSpec
CONSTANTS
    alice = alice
    known = known
    q1 = q1
    q2 = q2
    None = None
    Emails <- OneEmail
    Repos <- OneRepo
    OnGitHub <- OneRepo
    Requests <- TwoRequests
    Faults <- OutsideFaults
    MaxSerial = 2
    OverHTTP <- FirstRequest
    MaxStarts = 2
CHECK_DEADLOCK FALSE
INVARIANT LifeTypeOK
INVARIANT StrandedOnlyIfCut
PROPERTY OnlySlowHttpIsCut
PROPERTY ResolvedUnlessCut
PROPERTY ShutdownEnds
