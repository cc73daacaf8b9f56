SPECIFICATION Spec
CONSTANTS
    alice = alice
    bob = bob
    known = known
    unknown = unknown
    q1 = q1
    q2 = q2
    None = None
    Emails <- OneEmail
    Repos <- OneRepo
    OnGitHub <- OneRepo
    Requests <- TwoRequests
    Faults <- CancelFault
    MaxSerial = 1
SYMMETRY RequestSymmetry
PROPERTY FailedSubscribeIsRolledBack
