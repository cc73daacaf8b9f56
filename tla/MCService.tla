----------------------------- MODULE MCService -----------------------------
(* Finite instances of Service for TLC. *)
EXTENDS Service, TLC

CONSTANTS alice, repoA, q1, q2

OneEmail == {alice}
OneRepo == {repoA}
TwoClients == {q1, q2}
NoRepo == {}
CycleFaults == {"dial", "lost", "slow", "crash"}
CallFaults == {"db", "mail", "crash"}

\* Requests are interchangeable.
ClientSymmetry == Permutations(TwoClients)
=============================================================================
