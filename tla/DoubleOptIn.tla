---------------------------- MODULE DoubleOptIn ----------------------------
(***************************************************************************)
(* What the subscription service promises, with no requests, processes or  *)
(* mail server: an address has at most one subscription to a repository;   *)
(* it becomes active only for an owner who was sent its link; and it ends  *)
(* only through the Subscribe that made it, while that has no answer yet,  *)
(* or after the notifier had it on its list, by a link in a release mail.  *)
(***************************************************************************)
EXTENDS Naturals

CONSTANTS Emails, Repos

VARIABLES
    entry,      \* each (email, repo) pair's subscription, or Nobody
    issued,     \* ids 1..issued were handed out; an id is never reused
    open,       \* ids whose Subscribe may still withdraw them
    invited,    \* ids whose owner was sent the confirmation link
    told        \* ids that were on the list of a release mail

vars == <<entry, issued, open, invited, told>>

Pairs == Emails \X Repos
Nobody == [id |-> 0, active |-> FALSE]

Init ==
    /\ entry = [p \in Pairs |-> Nobody]
    /\ issued = 0
    /\ open = {}
    /\ invited = {}
    /\ told = {}

\* An id may also be drawn for a registration that is then rejected.
Draw ==
    /\ issued' = issued + 1
    /\ UNCHANGED <<entry, open, invited, told>>

Register(p) ==
    /\ entry[p] = Nobody
    /\ issued' = issued + 1
    /\ entry' = [entry EXCEPT ![p] = [id |-> issued', active |-> FALSE]]
    /\ open' \in {open, open \cup {issued'}}
    /\ UNCHANGED <<invited, told>>

\* The link is sent by the Subscribe, which may be answered at once.
Invite(p) ==
    /\ entry[p].id \in open
    /\ ~entry[p].active
    /\ invited' = invited \cup {entry[p].id}
    /\ open' \in {open, open \ {entry[p].id}}
    /\ UNCHANGED <<entry, issued, told>>

\* Subscribes are answered, or lost with the process.
Close ==
    /\ open' \in SUBSET open
    /\ UNCHANGED <<entry, issued, invited, told>>

Withdraw(p) ==
    /\ entry[p].id \in open
    /\ entry' = [entry EXCEPT ![p] = Nobody]
    /\ open' = open \ {entry[p].id}
    /\ UNCHANGED <<issued, invited, told>>

Activate(p) ==
    /\ entry[p].id \in invited
    /\ entry' = [entry EXCEPT ![p].active = TRUE]
    /\ UNCHANGED <<issued, open, invited, told>>

\* A release mail goes to all active subscriptions of some group of pairs.
Tell ==
    /\ \E P \in SUBSET {p \in Pairs : entry[p].active} :
          told' = told \cup {entry[p].id : p \in P}
    /\ UNCHANGED <<entry, issued, open, invited>>

Leave(p) ==
    /\ entry[p].id \in told
    /\ entry' = [entry EXCEPT ![p] = Nobody]
    /\ UNCHANGED <<issued, open, invited, told>>

Next ==
    \/ Draw
    \/ Close
    \/ Tell
    \/ \E p \in Pairs :
          \/ Register(p) \/ Invite(p) \/ Withdraw(p)
          \/ Activate(p) \/ Leave(p)

Spec == Init /\ [][Next]_vars
=============================================================================
