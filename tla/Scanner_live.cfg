SPECIFICATION FairSpec
CONSTANTS
    alice = alice
    bob = bob
    repoA = repoA
    repoB = repoB
    None = None
    Emails <- OneEmail
    Repos <- TwoRepos
    Flaky <- FlakyB
    Faults <- RetriedFaults
    MaxFaults = 1
    MaxAttempts = 2
    MaxTag = 2
    MaxSerial = 2
PROPERTY ReleasesAreRecorded
PROPERTY SubscribersAreTold
