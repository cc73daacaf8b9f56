SPECIFICATION Spec
CONSTANTS
    alice = alice
    bob = bob
    known = known
    unknown = unknown
    q1 = q1
    q2 = q2
    None = None
    Emails <- OneEmail
    Repos <- OneRepo
    OnGitHub <- OneRepo
    Requests <- TwoRequests
    Faults <- MailFault
    MaxSerial = 1
SYMMETRY RequestSymmetry
INVARIANT ConfirmedIsRecorded
