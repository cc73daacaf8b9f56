SPECIFICATION Spec
CONSTANTS
    alice = alice
    bob = bob
    repoA = repoA
    repoB = repoB
    None = None
    Emails <- TwoEmails
    Repos <- OneRepo
    Flaky <- NoRepo
    Faults <- AllFaults
    MaxFaults = 2
    MaxAttempts = 2
    MaxTag = 3
    MaxSerial = 2
SYMMETRY EmailSymmetry
INVARIANT SnapshotIsFresh
INVARIANT CopiesPaidFor
INVARIANT OnlyConfirmedAreMailed
INVARIANT NewsFollowsBaseline
INVARIANT IInv
PROPERTY RecordedOnceTried
