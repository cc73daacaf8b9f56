SPECIFICATION Spec
CONSTANTS
    alice = alice
    bob = bob
    repoA = repoA
    repoB = repoB
    None = None
    Emails <- OneEmail
    Repos <- OneRepo
    Flaky <- NoRepo
    Faults <- RecipientsOnly
    MaxFaults = 1
    MaxAttempts = 2
    MaxTag = 2
    MaxSerial = 1
PROPERTY RecordedOnceNotified
