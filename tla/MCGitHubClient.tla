--------------------------- MODULE MCGitHubClient ---------------------------
(* A finite instance of GitHubClient for TLC. *)
EXTENDS GitHubClient

CONSTANTS c1, c2

TwoCallers == {c1, c2}
AllFaults == {"cache", "network", "server", "limit", "status", "body", "cancel"}

\* With Second = 4, MaxWait = 6 and MaxDuration = 63: the backoffs are one below
\* the cap and one beyond it.  A reset beyond the cap, and one where adding a
\* second overflows; beside a reset within the cap, which they overrule, a
\* Retry-After beyond the cap and one of zero.
SomeLimits ==
    {[reset |-> 30, after |-> None], [reset |-> 60, after |-> None],
     [reset |-> 1, after |-> 2], [reset |-> 1, after |-> 0]}
=============================================================================
