----------------------------- MODULE MCScanner -----------------------------
(* Finite instances of Scanner for TLC. *)
EXTENDS Scanner, TLC

CONSTANTS alice, bob, repoA, repoB

OneEmail == {alice}
TwoEmails == {alice, bob}
OneRepo == {repoA}
TwoRepos == {repoA, repoB}
NoRepo == {}
FlakyB == {repoB}

EmailSymmetry == Permutations(TwoEmails)

\* Every fault after which the same mails are tried again.
RetriedFaults == {"github", "list", "record", "dial", "lost", "slow", "crash"}
AllFaults == RetriedFaults \cup {"cache", "recipients", "refused", "withdrawn"}
CacheOnly == {"cache"}
RecipientsOnly == {"recipients"}
=============================================================================
