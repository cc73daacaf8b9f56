SPECIFICATION Spec
CONSTANTS
    alice = alice
    bob = bob
    known = known
    unknown = unknown
    q1 = q1
    q2 = q2
    None = None
    Emails <- OneEmail
    Repos <- OneRepo
    OnGitHub <- OneRepo
    Requests <- TwoRequests
    Faults <- NoFaults
    MaxSerial = 3
SYMMETRY RequestSymmetry
INVARIANT DuplicateIsConflict
