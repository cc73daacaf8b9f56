SPECIFICATION Spec
CONSTANTS
    alice = alice
    bob = bob
    repoA = repoA
    repoB = repoB
    None = None
    Emails <- OneEmail
    Repos <- OneRepo
    Flaky <- NoRepo
    Faults <- CacheOnly
    MaxFaults = 1
    MaxAttempts = 2
    MaxTag = 2
    MaxSerial = 1
INVARIANT AnnouncedAfterBaseline
