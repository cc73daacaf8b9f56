-------------------------- MODULE MCSubscriptions --------------------------
(* Finite instances of Subscriptions for TLC. *)
EXTENDS Subscriptions, TLC

CONSTANTS alice, bob, known, unknown, q1, q2

OneEmail == {alice}
TwoEmails == {alice, bob}
OneRepo == {known}
TwoRepos == {known, unknown}
TwoRequests == {q1, q2}

AllFaults == {"github", "db", "mail", "cancel", "crash"}
NoFaults == {}
CancelFault == {"cancel"}
MailFault == {"mail"}

\* Requests, and addresses, are interchangeable (safety runs only).
RequestSymmetry == Permutations(TwoRequests)
Symmetry == Permutations(TwoRequests) \cup Permutations(TwoEmails)
=============================================================================
