SPECIFICATION ServiceSpec
CONSTANTS
    alice = alice
    repoA = repoA
    q1 = q1
    q2 = q2
    None = None
    Emails <- OneEmail
    Repos <- OneRepo
    OnGitHub <- OneRepo
    Flaky <- NoRepo
    Clients <- TwoClients
    Faults <- CycleFaults
    RequestFaults <- CallFaults
    MaxFaults = 1
    MaxAttempts = 2
    MaxTag = 2
    MaxSerial = 2
SYMMETRY ClientSymmetry
INVARIANT MailedByConsent
INVARIANT ServiceIInv
PROPERTY KeepsToScanner
PROPERTY KeepsToSubscriptions
PROPERTY GoodbyeIsFinal
