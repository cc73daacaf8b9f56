SPECIFICATION Spec
CONSTANTS
    alice = alice
    bob = bob
    known = known
    unknown = unknown
    q1 = q1
    q2 = q2
    None = None
    Emails <- TwoEmails
    Repos <- TwoRepos
    OnGitHub <- OneRepo
    Requests <- TwoRequests
    Faults <- AllFaults
    MaxSerial = 3
SYMMETRY Symmetry
INVARIANT OneRowPerSubscriber
INVARIANT OptIn
INVARIANT SubscribedIsRecorded
INVARIANT ConfirmedIsNotPending
INVARIANT UnsubscribedIsGone
INVARIANT IInv
PROPERTY NoUnauthorisedRemoval
PROPERTY ImplementsDoubleOptIn
