------------------------------ MODULE MCMailer ------------------------------
(* Finite instances of Mailer for TLC. *)
EXTENDS Mailer, TLC

CONSTANTS alice, bob

TwoRecipients == {alice, bob}
SomeDeadlines == {3, 8}
Doubling == [a \in 0..2 |-> 2 ^ a]
=============================================================================
