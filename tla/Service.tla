------------------------------ MODULE Service ------------------------------
(***************************************************************************)
(* The running program: main gives the request handlers and the scanner    *)
(* the same repository and the same mailer, and lets them run side by      *)
(* side.  The steps are those of Subscriptions and of Scanner; here they   *)
(* share the tables and the id sequence, a mail of the scanner brings its  *)
(* unsubscribe link to the mailbox the requests take their tokens from,    *)
(* and one crash hits both.  Each of the two modules stands in for the     *)
(* other by a few actions of its environment; the composition shows that   *)
(* these allow all that the other really does.                             *)
(***************************************************************************)
EXTENDS Scanner

CONSTANTS
    Clients,        \* slots for requests in flight
    OnGitHub,       \* the repositories that exist on GitHub
    RequestFaults   \* the faults that hit requests

ASSUME ClientsAssumption == IsFiniteSet(Clients)
\* What Subscriptions assumes of its constants.
ASSUME RequestsAssumption ==
    /\ None \notin Emails \cup Repos \cup Tokens
    /\ OnGitHub \subseteq Repos
    /\ RequestFaults \subseteq {"github", "db", "mail", "cancel", "crash"}

VARIABLES
    requests, listed, inbox,    \* as in Subscriptions
    used        \* history: ids whose confirmation link was presented

Sub == INSTANCE Subscriptions WITH Requests <- Clients, Faults <- RequestFaults

serviceVars == <<vars, requests, listed, inbox, used>>

ServiceInit == Init /\ Sub!Init /\ used = {}

\* The id whose confirmation link a request brings to Confirm, if any.
ToConfirm(q) == {i \in Ids : q.at = "findToConfirm" /\ q.token = ConfirmToken(i)}

RequestStep(r) ==
    /\ Sub!Arrival(r) \/ Sub!SubscribeStep(r) \/ Sub!TokenStep(r) \/ Sub!ClientGone(r)
    /\ used' = used \cup ToConfirm(requests'[r])
    /\ UNCHANGED <<scan, github, faults, history>>

\* Those that a step of the scanner delivers a release mail to.
Mailed == {i \in Ids : \E t \in Tags : copies'[<<i, t>>] # copies[<<i, t>>]}

ScanStep ==
    /\ ScannerStep \/ RepoDeadline \/ CycleDeadline
          \/ \E r \in Repos : Publish(r) \/ Withdraw(r) \/ CacheExpires(r)
    /\ listed' = listed \cup unsent'
    /\ inbox' = inbox \cup {UnsubscribeToken(i) : i \in Mailed}
    /\ UNCHANGED <<requests, used>>

\* One process: the scanner's cycle and the requests go together.
ProcessCrash == Crash /\ Sub!Crash /\ UNCHANGED used

ServiceNext == (\E r \in Clients : RequestStep(r)) \/ ScanStep \/ ProcessCrash

ServiceSpec == ServiceInit /\ [][ServiceNext]_serviceVars

-----------------------------------------------------------------------------
(* Properties. *)

\* The requests do nothing that Scanner does not expect of its environment: in
\* whatever order their statements interleave with a cycle, a row is inserted
\* only for a recorded repository, under a new id, and for a free pair.
KeepsToScanner == Spec

\* The scanner does nothing that Subscriptions does not expect of the notifier
\* (its tags are not in that module's view of the tables).
SubView == INSTANCE Subscriptions WITH
    Requests <- Clients, Faults <- RequestFaults,
    lastSeenTag <- [r \in Repos |-> NoTag]
KeepsToSubscriptions == SubView!Spec

\* From end to end: a release mail goes only to somebody who was sent the
\* confirmation link of this very subscription before, and presented it to
\* Confirm.
MailedByConsent ==
    \A i \in Ids, t \in Tags : copies[<<i, t>>] > 0 => ConfirmToken(i) \in inbox /\ i \in used

\* "Unsubscribed successfully" is final: except for a round of mails that had
\* its list before, the scanner never mails that subscription again, and a new
\* one of the same address is another subscription.
GoodbyeIsFinal ==
    [][\A r \in Clients : LET i == requests[r].id IN
          requests[r].reply = "unsubscribed" /\ i \notin unsent =>
              i \notin unsent' /\ i \notin Mailed]_serviceVars

-----------------------------------------------------------------------------
(* The inductive invariant behind these properties: the invariants of the two
   parts, each of which holds as the other keeps to its environment, and what
   relates their states.  ServiceProofs shows that every step keeps it. *)

\* The list being mailed was read from the table while the process was up.
UnsentAreListed == unsent \subseteq listed

\* Nobody is confirmed, or listed as a recipient, but by a link that was mailed.
LinksWereUsed ==
    /\ \A i \in used : ConfirmToken(i) \in inbox
    /\ \A r \in Clients : /\ ToConfirm(requests[r]) \subseteq used
                          /\ requests[r].at = "confirm" => requests[r].id \in used
    /\ \A s \in subscriptions : s.confirmed => s.id \in used
    /\ listed \subseteq used

\* Every Subscribe before its INSERT has an id left to draw.
SerialsSuffice == serial + Sub!SerialsReserved <= MaxSerial

ServiceIInv ==
    /\ IInv
    /\ SubView!IInv
    /\ UnsentAreListed /\ LinksWereUsed /\ SerialsSuffice /\ MailedByConsent
=============================================================================
