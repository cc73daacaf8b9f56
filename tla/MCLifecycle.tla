---------------------------- MODULE MCLifecycle ----------------------------
(* Finite instances of Lifecycle for TLC. *)
EXTENDS Lifecycle, TLC

CONSTANTS alice, known, q1, q2

OneEmail == {alice}
OneRepo == {known}
TwoRequests == {q1, q2}
FirstRequest == {q1}
OutsideFaults == {"github", "mail"}
=============================================================================
