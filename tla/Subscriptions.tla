--------------------------- MODULE Subscriptions ---------------------------
(***************************************************************************)
(* application.SubscriptionService behind its HTTP and gRPC handlers.      *)
(* Every request runs in a goroutine of its own and makes one outbound     *)
(* call after another (GitHub, PostgreSQL, SMTP), so the calls of          *)
(* concurrent requests interleave freely; here each call is one action.    *)
(* Around the requests stand the faults the code handles: a call fails, a  *)
(* statement commits but its answer is lost, a mail is delivered but the   *)
(* SMTP reply is lost, the client goes away (which cancels the context     *)
(* every later call of the request takes), the process dies.               *)
(***************************************************************************)
EXTENDS Store, FiniteSets

CONSTANTS
    Requests,   \* slots for requests in flight
    OnGitHub,   \* the repositories that exist on GitHub
    None,       \* an absent, empty or malformed argument
    Faults,     \* the faults of the environment, see below
    MaxSerial   \* bound on the ids the subscriptions table hands out

ASSUME NoneAssumption == None \notin Emails \cup Repos \cup Tokens
ASSUME GitHubAssumption == OnGitHub \subseteq Repos
ASSUME MaxSerialAssumption == MaxSerial \in Nat
\* github: the GitHub call fails       db:     a statement fails or times out
\* mail:   the SMTP dialogue fails     cancel: the client goes away
\* crash:  the process is killed
ASSUME FaultsAssumption ==
    Faults \subseteq {"github", "db", "mail", "cancel", "crash"}

VARIABLES
    requests,   \* the requests, each at the call it makes next
    serial,     \* last value of the subscriptions.id sequence
    listed,     \* ids the notifier has read as recipients of a release mail
    inbox       \* tokens that reached their owner's mailbox, in links

vars == <<repositories, lastSeenTag, subscriptions,
          requests, serial, listed, inbox>>

\* The calls a Subscribe makes, in order; then those of Confirm and Unsubscribe.
BeforeInsert ==
    {"repoExists", "createRepository", "checkExisting", "createSubscription"}
SubscribeCalls == BeforeInsert \cup {"sendConfirmation", "rollback"}
Calls == SubscribeCalls \cup {"findToConfirm", "confirm", "findToRemove", "remove"}

\* What the client is told; "error" is HTTP 500 and gRPC Internal.
Replies ==
    {"none", "subscribed", "confirmed", "unsubscribed", "invalidEmail",
     "invalidRepoFormat", "invalidToken", "repoNotFound", "tokenNotFound",
     "alreadySubscribed", "error"}

Request ==
    [at : Calls \cup {"idle"}, email : Emails \cup {None},
     repo : Repos \cup {None}, token : Tokens \cup {None}, id : Nat,
     ctx : {"live", "done"}, reply : Replies]

\* A slot before any request uses it, and after a crash.
FreshRequest ==
    [at |-> "idle", email |-> None, repo |-> None, token |-> None, id |-> 0,
     ctx |-> "live", reply |-> "none"]

TypeOK ==
    /\ StoreTypeOK
    /\ requests \in [Requests -> Request]
    /\ serial \in Nat
    /\ listed \subseteq Nat \ {0}
    /\ inbox \subseteq Tokens

Init ==
    /\ StoreInit
    /\ requests = [r \in Requests |-> FreshRequest]
    /\ serial = 0
    /\ listed = {}
    /\ inbox = {}

-----------------------------------------------------------------------------
(* Common parts of the steps. *)

Running(r) == requests[r].at # "idle"

\* The call can reach the other side: the context is not cancelled.
CallRuns(r) == requests[r].ctx = "live"

\* A database call returns an error without effect.
CallFails(r) == requests[r].ctx = "done" \/ "db" \in Faults

\* A statement committed, yet the caller gets an error: the connection broke,
\* or the deadline or cancellation fired before the answer came.
AnswerLost == Faults \cap {"db", "cancel"} # {}

Goto(r, call) == requests' = [requests EXCEPT ![r].at = call]
GotoWith(r, call, i) ==
    requests' = [requests EXCEPT ![r] = [@ EXCEPT !.at = call, !.id = i]]

\* The handler answers; of the request only the answer and its row are kept.
Return(r, x) ==
    requests' = [requests EXCEPT
        ![r] = [FreshRequest EXCEPT !.id = requests[r].id, !.reply = x]]

Arrive(r, call, e, rp, t) ==
    requests' = [requests EXCEPT
        ![r] = [FreshRequest EXCEPT !.at = call, !.email = e,
                                    !.repo = rp, !.token = t]]
Refuse(r, x) ==
    requests' = [requests EXCEPT ![r] = [FreshRequest EXCEPT !.reply = x]]

\* Ids that requests in flight may still draw, counted for the bound MaxSerial.
SerialsReserved == Cardinality({r \in Requests : requests[r].at \in BeforeInsert})

-----------------------------------------------------------------------------
(* Subscribe.  The reply "error" leaves id at 0 when the INSERT returned no
   id, as sub.ID stays unset. *)

\* Faulty variant: the address is not validated.
SubscribeArrivesUnchecked(r) ==
    /\ ~Running(r)
    /\ serial + SerialsReserved < MaxSerial
    /\ \E e \in Emails \cup {None}, rp \in Repos : Arrive(r, "repoExists", e, rp, None)
    /\ UNCHANGED <<store, serial, listed, inbox>>

SubscribeArrives(r) ==
    /\ ~Running(r)
    /\ serial + SerialsReserved < MaxSerial
    /\ \E e \in Emails \cup {None}, rp \in Repos \cup {None} :
          \/ e = None /\ Refuse(r, "invalidEmail")
          \/ e # None /\ rp = None /\ Refuse(r, "invalidRepoFormat")
          \/ e # None /\ rp # None /\ Arrive(r, "repoExists", e, rp, None)
    /\ UNCHANGED <<store, serial, listed, inbox>>

\* What GitHub answers (200 or 404); it is the same for as long as it is cached.
RepoExists(rp) == rp \in OnGitHub

SubscribeChecksRepo(r) ==
    /\ requests[r].at = "repoExists"
    /\ \/ CallRuns(r) /\ RepoExists(requests[r].repo) /\ Goto(r, "createRepository")
       \/ CallRuns(r) /\ ~RepoExists(requests[r].repo) /\ Return(r, "repoNotFound")
       \/ (~CallRuns(r) \/ "github" \in Faults) /\ Return(r, "error")
    /\ UNCHANGED <<store, serial, listed, inbox>>

SubscribeCreatesRepo(r) ==
    /\ requests[r].at = "createRepository"
    /\ \/ /\ CallRuns(r)
          /\ CreateRepository(requests[r].repo)
          /\ Goto(r, "checkExisting") \/ (AnswerLost /\ Return(r, "error"))
       \/ CallFails(r) /\ Return(r, "error") /\ UNCHANGED store
    /\ UNCHANGED <<serial, listed, inbox>>

SubscribeLooksUp(r) ==
    /\ requests[r].at = "checkExisting"
    /\ LET existing ==
              GetSubscriptionByEmailAndRepo(requests[r].email, requests[r].repo)
       IN  \/ CallRuns(r) /\ existing = {} /\ Goto(r, "createSubscription")
           \/ CallRuns(r) /\ existing # {} /\ Return(r, "alreadySubscribed")
           \/ CallFails(r) /\ Return(r, "error")
    /\ UNCHANGED <<store, serial, listed, inbox>>

\* Faulty variant: ON CONFLICT (email, repository_id) DO UPDATE makes the row of
\* a pair that is taken pending again.
SubscribeInsertsOrRenews(r) ==
    LET existing ==
           GetSubscriptionByEmailAndRepo(requests[r].email, requests[r].repo)
    IN  /\ requests[r].at = "createSubscription"
        /\ CallRuns(r)
        /\ serial' = serial + 1
        /\ \/ /\ CreateSubscription(serial + 1, requests[r].email, requests[r].repo)
              /\ GotoWith(r, "sendConfirmation", serial + 1)
           \/ \E s \in existing :
                 /\ subscriptions' = (subscriptions \ existing) \cup
                                         {[s EXCEPT !.confirmed = FALSE]}
                 /\ GotoWith(r, "sendConfirmation", s.id)
                 /\ UNCHANGED <<repositories, lastSeenTag>>
        /\ UNCHANGED <<listed, inbox>>

\* A rejected INSERT has drawn its id from the sequence all the same.
SubscribeInserts(r) ==
    /\ requests[r].at = "createSubscription"
    /\ \/ /\ CallRuns(r)
          /\ CreateSubscription(serial + 1, requests[r].email, requests[r].repo)
          /\ serial' = serial + 1
          /\ \/ GotoWith(r, "sendConfirmation", serial + 1)
             \/ AnswerLost /\ Return(r, "error")
       \/ /\ CallRuns(r)
          /\ ~Admits(requests[r].email, requests[r].repo)
          /\ serial' = serial + 1
          /\ Return(r, "error")
          /\ UNCHANGED store
       \/ CallFails(r) /\ Return(r, "error") /\ UNCHANGED <<store, serial>>
    /\ UNCHANGED <<listed, inbox>>

\* The SMTP dialogue of sendEmail.  A cancelled context stops the dial; once
\* connected only the dialogue can fail, and then the mail may have left.
MailDelivered(r) == inbox' = inbox \cup {ConfirmToken(requests[r].id)}
MailSent(r) == CallRuns(r) /\ MailDelivered(r)
MailFails(r) ==
    \/ ~CallRuns(r) /\ UNCHANGED inbox
    \/ CallRuns(r) /\ "mail" \in Faults /\ (MailDelivered(r) \/ UNCHANGED inbox)

\* Faulty variant: the failure of the mail is logged and the request goes on.
SubscribeMailsUnchecked(r) ==
    /\ requests[r].at = "sendConfirmation"
    /\ MailSent(r) \/ MailFails(r)
    /\ Return(r, "subscribed")
    /\ UNCHANGED <<store, serial, listed>>

\* Faulty variant: the failure of the mail is reported, the row stays.
SubscribeMailsWithoutRollback(r) ==
    /\ requests[r].at = "sendConfirmation"
    /\ \/ MailSent(r) /\ Return(r, "subscribed")
       \/ MailFails(r) /\ Return(r, "error")
    /\ UNCHANGED <<store, serial, listed>>

SubscribeMails(r) ==
    /\ requests[r].at = "sendConfirmation"
    /\ \/ MailSent(r) /\ Return(r, "subscribed")
       \/ MailFails(r) /\ Goto(r, "rollback")
    /\ UNCHANGED <<store, serial, listed>>

\* Faulty variant: the rollback deletes by address and repository.
SubscribeRollsBackPair(r) ==
    /\ requests[r].at = "rollback"
    /\ \/ /\ CallRuns(r)
          /\ subscriptions' = subscriptions \
                GetSubscriptionByEmailAndRepo(requests[r].email, requests[r].repo)
          /\ UNCHANGED <<repositories, lastSeenTag>>
       \/ CallFails(r) /\ UNCHANGED store
    /\ Return(r, "error")
    /\ UNCHANGED <<serial, listed, inbox>>

\* The DELETE takes the context of the request; its error is only logged.
SubscribeRollsBack(r) ==
    /\ requests[r].at = "rollback"
    /\ \/ CallRuns(r) /\ DeleteSubscription(requests[r].id)
       \/ CallFails(r) /\ UNCHANGED store
    /\ Return(r, "error")
    /\ UNCHANGED <<serial, listed, inbox>>

-----------------------------------------------------------------------------
(* Confirm and Unsubscribe.  The client holds tokens from mail it received,
   and may present either kind to either endpoint. *)

Links == inbox \cup {None}

ConfirmArrives(r) ==
    /\ ~Running(r)
    /\ \E t \in Links :
          \/ t = None /\ Refuse(r, "invalidToken")
          \/ t # None /\ Arrive(r, "findToConfirm", None, None, t)
    /\ UNCHANGED <<store, serial, listed, inbox>>

\* The rows a lookup returned decide between the write and "tokenNotFound".
Found(r, rows, write) ==
    \/ CallRuns(r) /\ \E s \in rows : GotoWith(r, write, s.id)
    \/ CallRuns(r) /\ rows = {} /\ Return(r, "tokenNotFound")
    \/ CallFails(r) /\ Return(r, "error")

ConfirmLooksUp(r) ==
    /\ requests[r].at = "findToConfirm"
    /\ Found(r, GetSubscriptionByConfirmToken(requests[r].token), "confirm")
    /\ UNCHANGED <<store, serial, listed, inbox>>

\* The UPDATE succeeds on no row too: RowsAffected is not read.
ConfirmUpdates(r) ==
    /\ requests[r].at = "confirm"
    /\ \/ /\ CallRuns(r)
          /\ ConfirmSubscription(requests[r].id)
          /\ Return(r, "confirmed") \/ (AnswerLost /\ Return(r, "error"))
       \/ CallFails(r) /\ Return(r, "error") /\ UNCHANGED store
    /\ UNCHANGED <<serial, listed, inbox>>

UnsubscribeArrives(r) ==
    /\ ~Running(r)
    /\ \E t \in Links :
          \/ t = None /\ Refuse(r, "invalidToken")
          \/ t # None /\ Arrive(r, "findToRemove", None, None, t)
    /\ UNCHANGED <<store, serial, listed, inbox>>

UnsubscribeLooksUp(r) ==
    /\ requests[r].at = "findToRemove"
    /\ Found(r, GetSubscriptionByUnsubscribeToken(requests[r].token), "remove")
    /\ UNCHANGED <<store, serial, listed, inbox>>

\* Faulty variant: the error of the DELETE is dropped.
UnsubscribeDeletesUnchecked(r) ==
    /\ requests[r].at = "remove"
    /\ \/ CallRuns(r) /\ DeleteSubscription(requests[r].id)
       \/ CallFails(r) /\ UNCHANGED store
    /\ Return(r, "unsubscribed")
    /\ UNCHANGED <<serial, listed, inbox>>

UnsubscribeDeletes(r) ==
    /\ requests[r].at = "remove"
    /\ \/ /\ CallRuns(r)
          /\ DeleteSubscription(requests[r].id)
          /\ Return(r, "unsubscribed") \/ (AnswerLost /\ Return(r, "error"))
       \/ CallFails(r) /\ Return(r, "error") /\ UNCHANGED store
    /\ UNCHANGED <<serial, listed, inbox>>

-----------------------------------------------------------------------------
(* GetSubscriptions changes nothing: one valid address, one SELECT. *)

\* The lines of the answer, with what a client sees of a row.
GetSubscriptions(e) ==
    {[repo |-> s.repo, confirmed |-> s.confirmed, lastSeenTag |-> lastSeenTag[s.repo]] :
        s \in GetSubscriptionsByEmail(e)}

-----------------------------------------------------------------------------
(* The environment. *)

\* The peer closes the connection: net/http and grpc cancel the context.
ClientGone(r) ==
    /\ "cancel" \in Faults
    /\ Running(r)
    /\ CallRuns(r)
    /\ requests' = [requests EXCEPT ![r].ctx = "done"]
    /\ UNCHANGED <<store, serial, listed, inbox>>

\* The process dies and is started again: only the tables survive.
Crash ==
    /\ "crash" \in Faults
    /\ requests' = [r \in Requests |-> FreshRequest]
    /\ UNCHANGED <<store, serial, listed, inbox>>

\* NotifySubscribers reads the confirmed rows of a repository, and mails them
\* later, each mail with the row's unsubscribe link.
NotifierLists ==
    /\ \E rp \in Repos : listed' =
          listed \cup {s.id : s \in GetConfirmedSubscriptionsByRepoID(rp)}
    /\ UNCHANGED <<store, requests, serial, inbox>>

NotifierMails ==
    /\ \E i \in listed : inbox' = inbox \cup {UnsubscribeToken(i)}
    /\ UNCHANGED <<store, requests, serial, listed>>

-----------------------------------------------------------------------------

SubscribeStep(r) ==
    \/ SubscribeChecksRepo(r) \/ SubscribeCreatesRepo(r) \/ SubscribeLooksUp(r)
    \/ SubscribeInserts(r) \/ SubscribeMails(r) \/ SubscribeRollsBack(r)

TokenStep(r) ==
    \/ ConfirmLooksUp(r) \/ ConfirmUpdates(r)
    \/ UnsubscribeLooksUp(r) \/ UnsubscribeDeletes(r)

Arrival(r) == SubscribeArrives(r) \/ ConfirmArrives(r) \/ UnsubscribeArrives(r)

Next ==
    \/ \E r \in Requests :
          Arrival(r) \/ SubscribeStep(r) \/ TokenStep(r) \/ ClientGone(r)
    \/ Crash
    \/ NotifierLists \/ NotifierMails

Spec == Init /\ [][Next]_vars

-----------------------------------------------------------------------------
(* Properties. *)

Invited(i) == ConfirmToken(i) \in inbox
CanLeave(i) == UnsubscribeToken(i) \in inbox

\* An address has at most one row for a repository, however many Subscribes
\* passed checkExisting before the first of them inserted.
OneRowPerSubscriber ==
    \A s, t \in subscriptions :
        s.email = t.email /\ s.repo = t.repo => s = t

\* Double opt-in: a row is confirmed only after the mail with its confirmation
\* link reached the owner of the address.
OptIn == \A s \in subscriptions : s.confirmed => Invited(s.id)

\* "Subscription successful. Confirmation email sent." is true: the mail was
\* delivered, and the row is there unless its owner could unsubscribe.
SubscribedIsRecorded ==
    \A r \in Requests : requests[r].reply = "subscribed" =>
        /\ Invited(requests[r].id)
        /\ \/ \E s \in subscriptions : s.id = requests[r].id
           \/ CanLeave(requests[r].id)

\* After "Subscription confirmed successfully" the row is never pending.
ConfirmedIsNotPending ==
    \A r \in Requests : requests[r].reply = "confirmed" =>
        \A s \in subscriptions : s.id = requests[r].id => s.confirmed

\* After "Unsubscribed successfully" the row stays gone: a Confirm or a
\* rollback that is still in flight does not bring it back.
UnsubscribedIsGone ==
    \A r \in Requests : requests[r].reply = "unsubscribed" =>
        \A s \in subscriptions : s.id # requests[r].id

\* A row disappears only under a token that was mailed in a release
\* notification, or by the rollback of the very Subscribe that inserted it.
RemovalIsAuthorised ==
    \A s \in subscriptions :
        s.id \notin {t.id : t \in subscriptions'} =>
            \/ CanLeave(s.id)
            \/ \E r \in Requests :
                  /\ requests[r].at = "rollback"
                  /\ requests[r].id = s.id
                  /\ requests[r].email = s.email
                  /\ requests[r].repo = s.repo

NoUnauthorisedRemoval == [][RemovalIsAuthorised]_vars

\* The Subscribe calls of r between the INSERT and the answer.
Registering(r) == requests[r].at \in {"sendConfirmation", "rollback"}

\* A pending row whose owner never got the link can never be confirmed and
\* blocks every further Subscribe of the pair with 409.
Stranded(i) ==
    \E s \in subscriptions : s.id = i /\ ~s.confirmed /\ ~Invited(i)

\* A row without a link has its Subscribe still running to mail or remove it
\* (as long as only GitHub and the mail server fail).
StrandedIsInFlight ==
    \A s \in subscriptions : Stranded(s.id) =>
        \E r \in Requests : Registering(r) /\ requests[r].id = s.id

\* The service does what DoubleOptIn promises.
Entry(e, rp) ==
    LET rows == GetSubscriptionByEmailAndRepo(e, rp)
    IN  IF rows = {} THEN [id |-> 0, active |-> FALSE]
        ELSE LET s == CHOOSE s \in rows : TRUE
             IN  [id |-> s.id, active |-> s.confirmed]

Entries == [p \in Emails \X Repos |-> Entry(p[1], p[2])]
OpenIds == {requests[r].id : r \in {q \in Requests : Registering(q)}}
InvitedIds == {i \in 1..serial : Invited(i)}

Promise == INSTANCE DoubleOptIn WITH
    entry   <- Entries,
    issued  <- serial,
    open    <- OpenIds,
    invited <- InvitedIds,
    told    <- listed

ImplementsDoubleOptIn == Promise!Spec

-----------------------------------------------------------------------------
(* The inductive invariant behind the safety properties.  SubscriptionsProofs
   shows that every step keeps it; here it is stated so that TLC checks it. *)

\* A Subscribe in flight has valid arguments, and an id once it has a row.
ArgumentsOK ==
    \A r \in Requests :
        /\ requests[r].at \in SubscribeCalls =>
              requests[r].email \in Emails /\ requests[r].repo \in Repos
        /\ Registering(r) => requests[r].id # 0
        /\ requests[r].reply # "none" => ~Running(r)

\* No id is known anywhere before the sequence handed it out.
IdsAreIssued ==
    /\ \A s \in subscriptions : s.id <= serial
    /\ \A r \in Requests : requests[r].id <= serial
    /\ \A i \in listed : i <= serial
    /\ \A t \in inbox : t[2] <= serial

\* id is the primary key.
IdsAreKeys == \A s, t \in subscriptions : s.id = t.id => s = t

\* Whoever writes by token has it from a mail; a release mail goes only to
\* those listed, and those listed were confirmed, hence invited.
TokensAreMailed ==
    /\ \A r \in Requests :
          /\ requests[r].token \in inbox \cup {None}
          /\ requests[r].at = "confirm" => Invited(requests[r].id)
          /\ requests[r].at = "remove" => CanLeave(requests[r].id)
    /\ \A i \in listed : Invited(i)
    /\ \A t \in inbox : t[1] = "unsubscribe" => t[2] \in listed

\* r is the Subscribe that made the row with its id.
Owns(r) == Registering(r) \/ requests[r].reply = "subscribed"

\* A row has one Subscribe that made it.
OwnersDiffer ==
    \A q, r \in Requests :
        Owns(q) /\ Owns(r) /\ requests[q].id = requests[r].id => q = r

\* The row under the id of a Subscribe in flight is the one it asked for.
OwnRow ==
    \A r \in Requests : Registering(r) =>
        \A s \in subscriptions : s.id = requests[r].id =>
            s.email = requests[r].email /\ s.repo = requests[r].repo

\* Until the first attempt to mail the link, the row cannot go away.
AwaitsMail ==
    \A r \in Requests : requests[r].at = "sendConfirmation" =>
        /\ ~Invited(requests[r].id)
        /\ \E s \in subscriptions : s.id = requests[r].id

\* What every interleaving of requests, faults, crashes and release mails keeps.
IInv ==
    /\ TypeOK /\ ArgumentsOK
    /\ IdsAreIssued /\ IdsAreKeys /\ OneRowPerSubscriber
    /\ TokensAreMailed /\ OptIn
    /\ OwnersDiffer /\ OwnRow /\ AwaitsMail
    /\ SubscribedIsRecorded /\ ConfirmedIsNotPending /\ UnsubscribedIsGone

-----------------------------------------------------------------------------
(* What the documentation and the tests say, and the code does not keep. *)

\* subscription_service_test.go, EmailFailure_RollsBackSubscription: "subscription
\* should be rolled back after email failure": a Subscribe that answers "error"
\* after its mail failed leaves no row of its own.
FailedSubscribeIsRolledBack ==
    [][\A r \in Requests :
          requests[r].at = "rollback" /\ requests'[r].reply = "error" =>
              \A s \in subscriptions' : s.id # requests[r].id]_vars

\* README, POST /api/subscribe: a duplicate is "409 Conflict"; with every
\* call succeeding no request ends in 500.
DuplicateIsConflict == \A r \in Requests : requests[r].reply # "error"

\* README, GET /api/confirm: "200 OK - Confirmed": the confirmed row exists,
\* unless its owner could unsubscribe since.
ConfirmedIsRecorded ==
    \A r \in Requests : requests[r].reply = "confirmed" =>
        \/ \E s \in subscriptions : s.id = requests[r].id /\ s.confirmed
        \/ CanLeave(requests[r].id)
=============================================================================
