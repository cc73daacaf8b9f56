------------------------ MODULE SubscriptionsProofs ------------------------
(* Theorems about Subscriptions for every value of its constants. *)
EXTENDS Subscriptions, TLAPS

-----------------------------------------------------------------------------
(* Typing. *)

\* Only the record of r changes, and to a record w of the right type.
Becomes(r, w) ==
    /\ requests' \in [Requests -> Request]
    /\ requests'[r] = w
    /\ \A q \in Requests \ {r} : requests'[q] = requests[q]

\* What each of the operators that change a request does to its record.
LEMMA RequestChanges ==
    ASSUME requests \in [Requests -> Request], NEW r \in Requests
    PROVE  /\ \A c \in Calls \cup {"idle"} :
                 Goto(r, c) => Becomes(r, [requests[r] EXCEPT !.at = c])
           /\ \A c \in Calls, i \in Nat :
                 GotoWith(r, c, i) => Becomes(r, [requests[r] EXCEPT !.at = c, !.id = i])
           /\ \A x \in Replies :
                 Return(r, x) => Becomes(r, [FreshRequest EXCEPT !.id = requests[r].id, !.reply = x])
           /\ \A x \in Replies :
                 Refuse(r, x) => Becomes(r, [FreshRequest EXCEPT !.reply = x])
           /\ \A c \in Calls, e \in Emails \cup {None}, rp \in Repos \cup {None},
                 t \in Tokens \cup {None} :
                 Arrive(r, c, e, rp, t) =>
                     Becomes(r, [FreshRequest EXCEPT !.at = c, !.email = e,
                                                     !.repo = rp, !.token = t])
<1>1. ASSUME NEW w \in Request, requests' = [requests EXCEPT ![r] = w]
      PROVE  Becomes(r, w)
  BY <1>1 DEF Becomes
<1>2. ASSUME NEW c \in Calls \cup {"idle"}, Goto(r, c)
      PROVE  Becomes(r, [requests[r] EXCEPT !.at = c])
  <2>1. [requests[r] EXCEPT !.at = c] \in Request
    BY <1>2 DEF Request
  <2>2. requests' = [requests EXCEPT ![r] = [requests[r] EXCEPT !.at = c]]
    BY <1>2 DEF Goto
  <2> QED BY <1>1, <2>1, <2>2
<1>3. ASSUME NEW c \in Calls, NEW i \in Nat, GotoWith(r, c, i)
      PROVE  Becomes(r, [requests[r] EXCEPT !.at = c, !.id = i])
  <2>1. [requests[r] EXCEPT !.at = c, !.id = i] \in Request
    BY <1>3 DEF Request
  <2> QED BY <1>1, <2>1, <1>3 DEF GotoWith
<1>4. FreshRequest \in Request
  BY DEF FreshRequest, Request, Replies
<1>5. ASSUME NEW x \in Replies, Return(r, x)
      PROVE  Becomes(r, [FreshRequest EXCEPT !.id = requests[r].id, !.reply = x])
  <2>1. [FreshRequest EXCEPT !.id = requests[r].id, !.reply = x] \in Request
    BY <1>4, <1>5 DEF Request
  <2> QED BY <1>1, <2>1, <1>5 DEF Return
<1>6. ASSUME NEW x \in Replies, Refuse(r, x)
      PROVE  Becomes(r, [FreshRequest EXCEPT !.reply = x])
  <2>1. [FreshRequest EXCEPT !.reply = x] \in Request
    BY <1>4, <1>6 DEF Request
  <2> QED BY <1>1, <2>1, <1>6 DEF Refuse
<1>7. ASSUME NEW c \in Calls, NEW e \in Emails \cup {None}, NEW rp \in Repos \cup {None},
             NEW t \in Tokens \cup {None}, Arrive(r, c, e, rp, t)
      PROVE  Becomes(r, [FreshRequest EXCEPT !.at = c, !.email = e,
                                             !.repo = rp, !.token = t])
  <2>1. [FreshRequest EXCEPT !.at = c, !.email = e, !.repo = rp, !.token = t] \in Request
    BY <1>4, <1>7 DEF Request
  <2> QED BY <1>1, <2>1, <1>7 DEF Arrive
<1> QED BY <1>2, <1>3, <1>5, <1>6, <1>7

\* The statements keep the tables well typed.
LEMMA StoreTypes ==
    ASSUME StoreTypeOK
    PROVE  /\ UNCHANGED store => StoreTypeOK'
           /\ \A r \in Repos : CreateRepository(r) => StoreTypeOK'
           /\ \A i \in Nat \ {0}, e \in Emails, r \in Repos :
                 CreateSubscription(i, e, r) => StoreTypeOK'
           /\ \A i \in Nat : ConfirmSubscription(i) => StoreTypeOK'
           /\ \A i \in Nat : DeleteSubscription(i) => StoreTypeOK'
<1>1. UNCHANGED store => StoreTypeOK'
  BY DEF store, StoreTypeOK
<1>2. \A r \in Repos : CreateRepository(r) => StoreTypeOK'
  BY DEF CreateRepository, StoreTypeOK
<1>3. ASSUME NEW i \in Nat \ {0}, NEW e \in Emails, NEW r \in Repos,
             CreateSubscription(i, e, r)
      PROVE  StoreTypeOK'
  <2>1. [id |-> i, email |-> e, repo |-> r, confirmed |-> FALSE] \in SubscriptionRow
    BY <1>3 DEF SubscriptionRow
  <2> QED BY <1>3, <2>1 DEF CreateSubscription, StoreTypeOK
<1>4. ASSUME NEW i \in Nat, ConfirmSubscription(i)
      PROVE  StoreTypeOK'
  <2>1. \A s \in SubscriptionRow : [s EXCEPT !.confirmed = TRUE] \in SubscriptionRow
    BY DEF SubscriptionRow
  <2> QED BY <1>4, <2>1 DEF ConfirmSubscription, StoreTypeOK
<1>5. \A i \in Nat : DeleteSubscription(i) => StoreTypeOK'
  BY DEF DeleteSubscription, StoreTypeOK
<1> QED BY <1>1, <1>2, <1>3, <1>4, <1>5

\* The two tokens drawn for a row are tokens.
LEMMA TokenTypes == \A i \in Nat \ {0} : ConfirmToken(i) \in Tokens /\ UnsubscribeToken(i) \in Tokens
BY DEF ConfirmToken, UnsubscribeToken, Tokens

-----------------------------------------------------------------------------
(* The inductive invariant. *)

\* The service starts with empty tables and no request in flight.
LEMMA InitInvariant == Init => IInv
<1> SUFFICES ASSUME Init PROVE IInv
  OBVIOUS
<1> USE DEF Init, StoreInit
<1>1. FreshRequest \in Request
  BY DEF FreshRequest, Request, Replies
<1>2. TypeOK
  BY <1>1 DEF TypeOK, StoreTypeOK, NoTag
<1>3. \A r \in Requests : requests[r] = FreshRequest
  OBVIOUS
<1>4. ArgumentsOK
  BY <1>3 DEF ArgumentsOK, FreshRequest, SubscribeCalls, BeforeInsert, Registering, Running
<1>5. IdsAreIssued /\ IdsAreKeys /\ OneRowPerSubscriber /\ OptIn
  BY <1>3 DEF IdsAreIssued, IdsAreKeys, OneRowPerSubscriber, OptIn, FreshRequest
<1>6. TokensAreMailed
  BY <1>3 DEF TokensAreMailed, FreshRequest
<1>7. OwnersDiffer /\ OwnRow /\ AwaitsMail
  BY <1>3 DEF OwnersDiffer, OwnRow, AwaitsMail, Owns, Registering, FreshRequest
<1>8. SubscribedIsRecorded /\ ConfirmedIsNotPending /\ UnsubscribedIsGone
  BY <1>3 DEF SubscribedIsRecorded, ConfirmedIsNotPending, UnsubscribedIsGone, FreshRequest
<1> QED BY <1>2, <1>4, <1>5, <1>6, <1>7, <1>8 DEF IInv

\* What a record w must satisfy to replace that of r while the rows of the
\* subscriptions, the ids and the mailboxes stay as they are.
Harmless(r, w) ==
    /\ w.at \in SubscribeCalls => w.email \in Emails /\ w.repo \in Repos
    /\ w.at \in {"sendConfirmation", "rollback"} =>
          /\ Registering(r)
          /\ w.id = requests[r].id
          /\ w.email = requests[r].email
          /\ w.repo = requests[r].repo
    /\ w.at = "sendConfirmation" => requests[r].at = "sendConfirmation"
    /\ w.reply # "none" => w.at = "idle"
    /\ w.reply \notin {"subscribed", "confirmed", "unsubscribed"}
    /\ w.id <= serial
    /\ w.token \in inbox \cup {None}
    /\ w.at = "confirm" => Invited(w.id)
    /\ w.at = "remove" => CanLeave(w.id)

\* A step of request r that leaves the rows, the mailboxes and the lists alone
\* keeps the invariant when the record it leaves for r is harmless.
LEMMA HarmlessStep ==
    ASSUME IInv, NEW r \in Requests, NEW w, Becomes(r, w), Harmless(r, w),
           StoreTypeOK', UNCHANGED <<subscriptions, serial, listed, inbox>>
    PROVE  IInv'
<1> USE DEF IInv, Becomes, Harmless
<1>1. TypeOK'
  BY DEF TypeOK
<1>2. ArgumentsOK'
  BY DEF ArgumentsOK, Registering, Running
<1>3. (IdsAreIssued /\ IdsAreKeys /\ OneRowPerSubscriber)'
  BY DEF IdsAreIssued, IdsAreKeys, OneRowPerSubscriber
<1>4. (TokensAreMailed /\ OptIn)'
  BY DEF TokensAreMailed, OptIn, Invited, CanLeave
<1>5. OwnersDiffer'
  BY DEF OwnersDiffer, Owns, Registering
<1>6. OwnRow'
  BY DEF OwnRow, Registering
<1>7. AwaitsMail'
  BY DEF AwaitsMail, Invited
<1>8. (SubscribedIsRecorded /\ ConfirmedIsNotPending /\ UnsubscribedIsGone)'
  BY DEF SubscribedIsRecorded, ConfirmedIsNotPending, UnsubscribedIsGone, Invited, CanLeave
<1> QED BY <1>1, <1>2, <1>3, <1>4, <1>5, <1>6, <1>7, <1>8

\* Requests that return an error, or go to a call that reads, are harmless.
LEMMA ReturnKeeps ==
    ASSUME IInv, NEW r \in Requests,
           NEW x \in Replies \ {"subscribed", "confirmed", "unsubscribed"}, Return(r, x),
           StoreTypeOK', UNCHANGED <<subscriptions, serial, listed, inbox>>
    PROVE  IInv'
<1> DEFINE w == [FreshRequest EXCEPT !.id = requests[r].id, !.reply = x]
<1>1. Becomes(r, w)
  BY RequestChanges DEF IInv, TypeOK
<1>2. w.at = "idle" /\ w.reply = x /\ w.id = requests[r].id /\ w.token = None
  BY DEF FreshRequest
<1>3. Harmless(r, w)
  BY <1>2 DEF Harmless, IInv, IdsAreIssued, SubscribeCalls, BeforeInsert
<1> QED BY <1>1, <1>3, HarmlessStep

\* A request turned away for its arguments, before any call.
LEMMA RefuseKeeps ==
    ASSUME IInv, NEW r \in Requests,
           NEW x \in {"invalidEmail", "invalidRepoFormat", "invalidToken"}, Refuse(r, x),
           UNCHANGED <<store, serial, listed, inbox>>
    PROVE  IInv'
<1> DEFINE w == [FreshRequest EXCEPT !.reply = x]
<1>1. Becomes(r, w)
  BY RequestChanges DEF IInv, TypeOK, Replies
<1>2. w.at = "idle" /\ w.reply = x /\ w.id = 0 /\ w.token = None
  BY DEF FreshRequest
<1>3. serial \in Nat
  BY DEF IInv, TypeOK
<1>4. Harmless(r, w)
  BY <1>2, <1>3 DEF Harmless, SubscribeCalls, BeforeInsert
<1>5. StoreTypeOK' /\ UNCHANGED subscriptions
  BY StoreTypes DEF store, IInv, TypeOK
<1> QED BY <1>1, <1>4, <1>5, HarmlessStep

\* A request taken on: its token, if it has one, comes from a mailbox.
LEMMA ArriveKeeps ==
    ASSUME IInv, NEW r \in Requests, NEW c \in {"repoExists", "findToConfirm", "findToRemove"},
           NEW e \in Emails \cup {None}, NEW rp \in Repos \cup {None}, NEW t \in inbox \cup {None},
           c = "repoExists" => e \in Emails /\ rp \in Repos,
           Arrive(r, c, e, rp, t), UNCHANGED <<store, serial, listed, inbox>>
    PROVE  IInv'
<1> DEFINE w == [FreshRequest EXCEPT !.at = c, !.email = e, !.repo = rp, !.token = t]
<1>1. c \in Calls /\ t \in Tokens \cup {None}
  BY DEF Calls, SubscribeCalls, BeforeInsert, IInv, TypeOK
<1>2. Becomes(r, w)
  BY <1>1, RequestChanges DEF IInv, TypeOK
<1>3. /\ w.at = c /\ w.reply = "none" /\ w.id = 0
      /\ w.email = e /\ w.repo = rp /\ w.token = t
  BY DEF FreshRequest
<1>4. serial \in Nat
  BY DEF IInv, TypeOK
<1>5. Harmless(r, w)
  BY <1>3, <1>4 DEF Harmless, SubscribeCalls, BeforeInsert
<1>6. StoreTypeOK' /\ UNCHANGED subscriptions
  BY StoreTypes DEF store, IInv, TypeOK
<1> QED BY <1>2, <1>5, <1>6, HarmlessStep

\* A Subscribe that moves on to its next call before the INSERT.
LEMMA GotoKeeps ==
    ASSUME IInv, NEW r \in Requests,
           NEW c \in {"createRepository", "checkExisting", "createSubscription", "rollback"},
           requests[r].at \in SubscribeCalls, Goto(r, c),
           c = "rollback" => requests[r].at = "sendConfirmation",
           StoreTypeOK', UNCHANGED <<subscriptions, serial, listed, inbox>>
    PROVE  IInv'
<1> DEFINE w == [requests[r] EXCEPT !.at = c]
<1>1. requests[r] \in Request /\ c \in Calls
  BY DEF IInv, TypeOK, Calls, SubscribeCalls, BeforeInsert
<1>2. Becomes(r, w)
  BY <1>1, RequestChanges DEF IInv, TypeOK
<1>3. /\ w.at = c /\ w.reply = requests[r].reply /\ w.id = requests[r].id
      /\ w.token = requests[r].token
      /\ w.email = requests[r].email /\ w.repo = requests[r].repo
  BY <1>1 DEF Request
<1>4. Harmless(r, w)
  BY <1>3 DEF Harmless, IInv, ArgumentsOK, Registering, Running, IdsAreIssued,
              TokensAreMailed, SubscribeCalls, BeforeInsert
<1> QED BY <1>2, <1>4, HarmlessStep

\* The outcome of a lookup by token: the row's id, no row, or an error.
LEMMA FoundKeeps ==
    ASSUME IInv, NEW r \in Requests, NEW rows \in SUBSET subscriptions,
           NEW c \in {"confirm", "remove"}, Found(r, rows, c), Running(r),
           c = "confirm" => \A s \in rows : Invited(s.id),
           c = "remove" => \A s \in rows : CanLeave(s.id),
           UNCHANGED <<store, serial, listed, inbox>>
    PROVE  IInv'
<1>1. StoreTypeOK' /\ UNCHANGED subscriptions
  BY StoreTypes DEF store, IInv, TypeOK
<1>2. CASE Return(r, "tokenNotFound") \/ Return(r, "error")
  BY <1>1, <1>2, ReturnKeeps DEF Replies
<1>3. ASSUME NEW s \in rows, GotoWith(r, c, s.id)
      PROVE  IInv'
  <2> DEFINE w == [requests[r] EXCEPT !.at = c, !.id = s.id]
  <2>1. requests[r] \in Request /\ c \in Calls /\ s.id \in Nat /\ s.id <= serial
    BY DEF IInv, TypeOK, StoreTypeOK, SubscriptionRow, Calls, IdsAreIssued
  <2>2. Becomes(r, w)
    BY <1>3, <2>1, RequestChanges DEF IInv, TypeOK
  <2>3. /\ w.at = c /\ w.id = s.id
        /\ w.reply = requests[r].reply /\ w.token = requests[r].token
    BY <2>1 DEF Request
  <2>4. Harmless(r, w)
    BY <2>1, <2>3 DEF Harmless, IInv, ArgumentsOK, TokensAreMailed, SubscribeCalls, BeforeInsert
  <2> QED BY <1>1, <2>2, <2>4, HarmlessStep
<1> QED BY <1>2, <1>3 DEF Found

\* A cancelled context changes nothing but the fate of later calls.
LEMMA ClientGoneKeeps == ASSUME IInv, NEW r \in Requests, ClientGone(r) PROVE IInv'
<1> DEFINE w == [requests[r] EXCEPT !.ctx = "done"]
<1>1. requests[r] \in Request
  BY DEF IInv, TypeOK
<1>2. w \in Request
  BY <1>1 DEF Request
<1>3. Becomes(r, w)
  BY <1>2 DEF ClientGone, Becomes, IInv, TypeOK
<1>4. /\ w.at = requests[r].at /\ w.reply = requests[r].reply /\ w.id = requests[r].id
      /\ w.token = requests[r].token
      /\ w.email = requests[r].email /\ w.repo = requests[r].repo
  BY <1>1 DEF Request
<1>5. Harmless(r, w)
  BY <1>4 DEF ClientGone, Harmless, IInv, ArgumentsOK, Registering, Running, IdsAreIssued,
              TokensAreMailed
<1>6. StoreTypeOK' /\ UNCHANGED <<subscriptions, serial, listed, inbox>>
  BY StoreTypes DEF ClientGone, store, IInv, TypeOK
<1> QED BY <1>3, <1>5, <1>6, HarmlessStep

\* The steps of Subscribe up to the INSERT, and those that only look up.
LEMMA ArrivalKeeps == ASSUME IInv, NEW r \in Requests, Arrival(r) PROVE IInv'
<1> USE DEF Links
<1>1. CASE SubscribeArrives(r)
  BY <1>1, RefuseKeeps, ArriveKeeps DEF SubscribeArrives
<1>2. CASE ConfirmArrives(r)
  BY <1>2, RefuseKeeps, ArriveKeeps DEF ConfirmArrives
<1>3. CASE UnsubscribeArrives(r)
  BY <1>3, RefuseKeeps, ArriveKeeps DEF UnsubscribeArrives
<1> QED BY <1>1, <1>2, <1>3 DEF Arrival

\* RepoExists, CreateRepository and GetSubscriptionByEmailAndRepo.
LEMMA BeforeInsertKeeps ==
    ASSUME IInv, NEW r \in Requests,
           SubscribeChecksRepo(r) \/ SubscribeCreatesRepo(r) \/ SubscribeLooksUp(r)
    PROVE  IInv'
<1> USE DEF SubscribeCalls, BeforeInsert, Replies
<1>1. CASE SubscribeChecksRepo(r)
  <2>1. StoreTypeOK' /\ UNCHANGED subscriptions
    BY <1>1, StoreTypes DEF SubscribeChecksRepo, store, IInv, TypeOK
  <2> QED BY <1>1, <2>1, ReturnKeeps, GotoKeeps DEF SubscribeChecksRepo
<1>2. CASE SubscribeCreatesRepo(r)
  <2>1. requests[r].repo \in Repos
    BY <1>2 DEF SubscribeCreatesRepo, IInv, ArgumentsOK
  <2>2. StoreTypeOK' /\ UNCHANGED subscriptions
    BY <1>2, <2>1, StoreTypes DEF SubscribeCreatesRepo, CreateRepository, store, IInv, TypeOK
  <2> QED BY <1>2, <2>2, ReturnKeeps, GotoKeeps DEF SubscribeCreatesRepo
<1>3. CASE SubscribeLooksUp(r)
  <2>1. StoreTypeOK' /\ UNCHANGED subscriptions
    BY <1>3, StoreTypes DEF SubscribeLooksUp, store, IInv, TypeOK
  <2> QED BY <1>3, <2>1, ReturnKeeps, GotoKeeps DEF SubscribeLooksUp
<1> QED BY <1>1, <1>2, <1>3

\* A lookup by token finds a row whose token the client was mailed.
LEMMA LookupKeeps ==
    ASSUME IInv, NEW r \in Requests, ConfirmLooksUp(r) \/ UnsubscribeLooksUp(r)
    PROVE  IInv'
<1>1. requests[r].token \in inbox \cup {None}
  BY DEF IInv, TokensAreMailed
<1>2. \A s \in subscriptions :
          ConfirmToken(s.id) # None /\ UnsubscribeToken(s.id) # None
  BY TokenTypes, NoneAssumption DEF IInv, TypeOK, StoreTypeOK, SubscriptionRow
<1>3. CASE ConfirmLooksUp(r)
  <2> DEFINE rows == GetSubscriptionByConfirmToken(requests[r].token)
  <2>1. rows \in SUBSET subscriptions /\ \A s \in rows : Invited(s.id)
    BY <1>1, <1>2 DEF GetSubscriptionByConfirmToken, Invited
  <2> QED BY <1>3, <2>1, FoundKeeps DEF ConfirmLooksUp, Running
<1>4. CASE UnsubscribeLooksUp(r)
  <2> DEFINE rows == GetSubscriptionByUnsubscribeToken(requests[r].token)
  <2>1. rows \in SUBSET subscriptions /\ \A s \in rows : CanLeave(s.id)
    BY <1>1, <1>2 DEF GetSubscriptionByUnsubscribeToken, CanLeave
  <2> QED BY <1>4, <2>1, FoundKeeps DEF UnsubscribeLooksUp, Running
<1> QED BY <1>3, <1>4

\* The INSERT: a new id, and a row under it unless the pair is taken.
LEMMA InsertKeeps == ASSUME IInv, NEW r \in Requests, SubscribeInserts(r) PROVE IInv'
<1> USE DEF IInv
<1>1. /\ requests[r] \in Request /\ requests[r].at = "createSubscription"
      /\ requests[r].email \in Emails /\ requests[r].repo \in Repos
      /\ requests[r].reply = "none" /\ serial \in Nat
  BY DEF SubscribeInserts, TypeOK, ArgumentsOK, Running, SubscribeCalls, BeforeInsert
<1>2. CASE CallFails(r) /\ Return(r, "error") /\ UNCHANGED <<store, serial, listed, inbox>>
  <2>1. StoreTypeOK' /\ UNCHANGED <<subscriptions, serial, listed, inbox>>
    BY <1>2, StoreTypes DEF store, TypeOK
  <2> QED BY <1>2, <2>1, ReturnKeeps DEF Replies
<1>3. ASSUME serial' = serial + 1, UNCHANGED <<listed, inbox>>, StoreTypeOK',
             NEW w, Becomes(r, w), w.token \in {None, requests[r].token},
             NEW row, row.id = serial + 1, ~row.confirmed,
             row.email = requests[r].email, row.repo = requests[r].repo,
             NEW new \in SUBSET {row}, subscriptions' = subscriptions \cup new,
             new # {} => PairIsFree(requests[r].email, requests[r].repo),
             \/ w.at = "idle" /\ w.reply = "error" /\ w.id = requests[r].id
             \/ /\ new # {}
                /\ w.at = "sendConfirmation" /\ w.reply = "none" /\ w.id = serial + 1
                /\ w.email = requests[r].email /\ w.repo = requests[r].repo
      PROVE  IInv'
  <2> USE <1>1, <1>3 DEF Becomes
  <2>1. \A s \in new : /\ s.id = serial + 1 /\ ~s.confirmed
                        /\ s.email = requests[r].email /\ s.repo = requests[r].repo
    OBVIOUS
  <2>2. \A s, t \in new : s = t
    OBVIOUS
  <2>3. \A s \in subscriptions : s.id <= serial /\ s.id \in Nat
    BY DEF IdsAreIssued, TypeOK, StoreTypeOK, SubscriptionRow
  <2>4. \A q \in Requests : requests[q].id <= serial /\ requests[q].id \in Nat
    BY DEF IdsAreIssued, TypeOK, Request
  <2>5. TypeOK'
    BY DEF TypeOK
  <2>6. ArgumentsOK'
    BY DEF ArgumentsOK, Registering, Running, SubscribeCalls, BeforeInsert
  <2>7. IdsAreIssued'
    <3>1. \A i \in listed : i \in Nat /\ i <= serial
      BY DEF IdsAreIssued, TypeOK
    <3>2. \A t \in inbox : t[2] \in Nat /\ t[2] <= serial
      BY DEF IdsAreIssued, TypeOK, Tokens
    <3> QED BY <2>1, <2>3, <2>4, <3>1, <3>2 DEF IdsAreIssued
  <2>8. IdsAreKeys'
    BY <2>1, <2>2, <2>3 DEF IdsAreKeys
  <2>9. OneRowPerSubscriber'
    BY <2>1, <2>2 DEF OneRowPerSubscriber, PairIsFree, GetSubscriptionByEmailAndRepo
  <2>10. (TokensAreMailed /\ OptIn)'
    BY <2>1 DEF TokensAreMailed, OptIn, Invited, CanLeave
  <2>11. OwnersDiffer'
    BY <2>4 DEF OwnersDiffer, Owns, Registering
  <2>12. OwnRow'
    BY <2>1, <2>3, <2>4 DEF OwnRow, Registering
  <2>13. AwaitsMail'
    <3>1. ~Invited(serial + 1)
      BY DEF Invited, ConfirmToken, IdsAreIssued
    <3> QED BY <2>1, <3>1 DEF AwaitsMail, Invited
  <2>14. (SubscribedIsRecorded /\ ConfirmedIsNotPending /\ UnsubscribedIsGone)'
    BY <2>1, <2>4 DEF SubscribedIsRecorded, ConfirmedIsNotPending, UnsubscribedIsGone,
                      Invited, CanLeave
  <2> QED BY <2>5, <2>6, <2>7, <2>8, <2>9, <2>10, <2>11, <2>12, <2>13, <2>14
<1>4. ASSUME Return(r, "error")
      PROVE  \E w : /\ Becomes(r, w) /\ w.at = "idle" /\ w.reply = "error"
                    /\ w.id = requests[r].id /\ w.token = None
  <2> DEFINE w == [FreshRequest EXCEPT !.id = requests[r].id, !.reply = "error"]
  <2>1. Becomes(r, w)
    BY <1>4, RequestChanges DEF TypeOK, Replies
  <2>2. /\ w.at = "idle" /\ w.reply = "error"
        /\ w.id = requests[r].id /\ w.token = None
    BY DEF FreshRequest
  <2> QED BY <2>1, <2>2
<1>5. CASE /\ CreateSubscription(serial + 1, requests[r].email, requests[r].repo)
           /\ serial' = serial + 1 /\ UNCHANGED <<listed, inbox>>
           /\ GotoWith(r, "sendConfirmation", serial + 1) \/ Return(r, "error")
  <2> DEFINE row == [id |-> serial + 1, email |-> requests[r].email,
                     repo |-> requests[r].repo, confirmed |-> FALSE]
  <2>1. StoreTypeOK'
    BY <1>1, <1>5, StoreTypes DEF TypeOK
  <2>2. /\ row.id = serial + 1 /\ ~row.confirmed
        /\ row.email = requests[r].email /\ row.repo = requests[r].repo
        /\ {row} \in SUBSET {row} /\ {row} # {}
        /\ subscriptions' = subscriptions \cup {row}
        /\ PairIsFree(requests[r].email, requests[r].repo)
    BY <1>5 DEF CreateSubscription, Admits
  <2>3. CASE GotoWith(r, "sendConfirmation", serial + 1)
    <3> DEFINE w == [requests[r] EXCEPT !.at = "sendConfirmation", !.id = serial + 1]
    <3>1. "sendConfirmation" \in Calls /\ serial + 1 \in Nat
      BY <1>1 DEF Calls, SubscribeCalls
    <3>2. Becomes(r, w)
      BY <2>3, <3>1, RequestChanges DEF TypeOK
    <3>3. /\ w.at = "sendConfirmation" /\ w.reply = "none" /\ w.id = serial + 1
          /\ w.token = requests[r].token
          /\ w.email = requests[r].email /\ w.repo = requests[r].repo
      BY <1>1 DEF Request
    <3> HIDE DEF w, row
    <3> QED BY <1>3, <1>5, <2>1, <2>2, <3>2, <3>3
  <2>4. CASE Return(r, "error")
    <3> HIDE DEF row
    <3> QED BY <1>3, <1>4, <1>5, <2>1, <2>2, <2>4
  <2> QED BY <1>5, <2>3, <2>4
<1>6. CASE serial' = serial + 1 /\ Return(r, "error") /\ UNCHANGED <<store, listed, inbox>>
  <2>1. StoreTypeOK' /\ subscriptions' = subscriptions \cup {}
    BY <1>6, StoreTypes DEF store, TypeOK
  <2>2. PICK w : /\ Becomes(r, w) /\ w.at = "idle" /\ w.reply = "error"
                 /\ w.id = requests[r].id /\ w.token = None
    BY <1>4, <1>6
  <2> DEFINE row == [id |-> serial + 1, email |-> requests[r].email,
                     repo |-> requests[r].repo, confirmed |-> FALSE]
  <2>3. /\ row.id = serial + 1 /\ ~row.confirmed
        /\ row.email = requests[r].email /\ row.repo = requests[r].repo
        /\ {} \in SUBSET {row}
    OBVIOUS
  <2> HIDE DEF row
  <2> QED BY <1>3, <1>6, <2>1, <2>2, <2>3
<1> QED BY <1>2, <1>5, <1>6 DEF SubscribeInserts

\* The confirmation mail: the link may reach its owner, and nobody else.
LEMMA MailKeeps == ASSUME IInv, NEW r \in Requests, SubscribeMails(r) PROVE IInv'
<1> USE DEF IInv
<1> DEFINE i == requests[r].id
           mailed == inbox \cup {ConfirmToken(i)}
<1>1. /\ requests[r] \in Request /\ requests[r].at = "sendConfirmation"
      /\ i \in Nat \ {0} /\ i <= serial /\ Registering(r)
      /\ \E s \in subscriptions : s.id = i
      /\ requests[r].reply = "none"
  BY DEF SubscribeMails, TypeOK, Request, ArgumentsOK, IdsAreIssued, AwaitsMail, Registering, Running
<1>2. /\ StoreTypeOK' /\ UNCHANGED <<subscriptions, serial, listed>>
  BY StoreTypes DEF SubscribeMails, store, TypeOK
<1>3. CASE Goto(r, "rollback") /\ inbox' = inbox
  BY <1>1, <1>2, <1>3, GotoKeeps DEF SubscribeCalls
<1>4. ASSUME inbox' = mailed, NEW w, Becomes(r, w), w.id = i,
             w.token \in {None, requests[r].token},
             \/ w.at = "idle" /\ w.reply = "subscribed"
             \/ /\ w.at = "rollback" /\ w.reply = "none"
                /\ w.email = requests[r].email /\ w.repo = requests[r].repo
      PROVE  IInv'
  <2> USE <1>1, <1>2, <1>4 DEF Becomes
  <2>1. \A j : Invited(j) => Invited(j)'
    BY DEF Invited
  <2>2. Invited(i)'
    BY DEF Invited
  <2>3. \A j : CanLeave(j)' <=> CanLeave(j)
    BY DEF CanLeave, ConfirmToken, UnsubscribeToken
  <2>4. \A q \in Requests \ {r} : requests[q].at = "sendConfirmation" => requests[q].id # i
    BY DEF OwnersDiffer, Owns, Registering
  <2>5. TypeOK'
    BY TokenTypes DEF TypeOK
  <2>6. ArgumentsOK'
    BY DEF ArgumentsOK, Registering, Running, SubscribeCalls, BeforeInsert
  <2>7. (IdsAreIssued /\ IdsAreKeys /\ OneRowPerSubscriber)'
    BY DEF IdsAreIssued, IdsAreKeys, OneRowPerSubscriber, ConfirmToken
  <2>8. TokensAreMailed'
    <3>1. \A q \in Requests :
             /\ requests'[q].token \in inbox' \cup {None}
             /\ requests'[q].at = "confirm" => ConfirmToken(requests'[q].id) \in inbox'
             /\ requests'[q].at = "remove" => UnsubscribeToken(requests'[q].id) \in inbox'
      BY DEF TokensAreMailed, Invited, CanLeave
    <3>2. \A j \in listed' : Invited(j)'
      BY <2>1 DEF TokensAreMailed
    <3>3. \A t \in inbox' : t[1] = "unsubscribe" => t[2] \in listed'
      BY DEF TokensAreMailed, ConfirmToken
    <3> QED BY <3>1, <3>2, <3>3 DEF TokensAreMailed, Invited, CanLeave
  <2>9. OptIn'
    BY <2>1 DEF OptIn, Invited
  <2>10. OwnersDiffer'
    BY DEF OwnersDiffer, Owns, Registering
  <2>11. OwnRow'
    BY DEF OwnRow, Registering
  <2>12. AwaitsMail'
    <3>1. \A j \in Nat : j # i /\ ~Invited(j) => ~Invited(j)'
      BY DEF Invited, ConfirmToken
    <3>2. \A q \in Requests : requests[q].id \in Nat
      BY DEF TypeOK, Request
    <3> QED BY <2>4, <3>1, <3>2 DEF AwaitsMail, Invited
  <2>13. SubscribedIsRecorded'
    BY <2>1, <2>2, <2>3 DEF SubscribedIsRecorded, Invited, CanLeave
  <2>14. (ConfirmedIsNotPending /\ UnsubscribedIsGone)'
    BY DEF ConfirmedIsNotPending, UnsubscribedIsGone
  <2> QED BY <2>5, <2>6, <2>7, <2>8, <2>9, <2>10, <2>11, <2>12, <2>13, <2>14
<1>5. CASE Goto(r, "rollback") /\ inbox' = mailed
  <2> DEFINE w == [requests[r] EXCEPT !.at = "rollback"]
  <2>1. "rollback" \in Calls
    BY DEF Calls, SubscribeCalls
  <2>2. Becomes(r, w)
    BY <1>5, <2>1, RequestChanges DEF TypeOK
  <2>3. /\ w.at = "rollback" /\ w.reply = "none" /\ w.id = i /\ w.token = requests[r].token
        /\ w.email = requests[r].email /\ w.repo = requests[r].repo
    BY <1>1 DEF Request
  <2> HIDE DEF w
  <2> QED BY <1>4, <1>5, <2>2, <2>3
<1>6. CASE Return(r, "subscribed") /\ inbox' = mailed
  <2> DEFINE w == [FreshRequest EXCEPT !.id = requests[r].id, !.reply = "subscribed"]
  <2>1. Becomes(r, w)
    BY <1>6, RequestChanges DEF TypeOK, Replies
  <2>2. w.at = "idle" /\ w.reply = "subscribed" /\ w.id = i /\ w.token = None
    BY DEF FreshRequest
  <2> HIDE DEF w
  <2> QED BY <1>4, <1>6, <2>1, <2>2
<1> QED BY <1>3, <1>5, <1>6 DEF SubscribeMails, MailSent, MailFails, MailDelivered

\* The DELETE of r's id, in the two places that run it.
LEMMA DeleteKeeps ==
    ASSUME IInv, NEW r \in Requests, NEW x \in {"error", "unsubscribed"},
           DeleteSubscription(requests[r].id), Return(r, x),
           UNCHANGED <<serial, listed, inbox>>,
           \/ requests[r].at = "remove"
           \/ requests[r].at = "rollback" /\ x = "error"
    PROVE  IInv'
<1> USE DEF IInv
<1> DEFINE i == requests[r].id
           w == [FreshRequest EXCEPT !.id = requests[r].id, !.reply = x]
<1>1. requests[r] \in Request /\ i \in Nat /\ requests[r].reply = "none"
  BY DEF TypeOK, Request, ArgumentsOK, Running
<1>2. Becomes(r, w)
  BY RequestChanges DEF TypeOK, Replies
<1>3. w.at = "idle" /\ w.reply = x /\ w.id = i /\ w.token = None
  BY DEF FreshRequest
<1>4. StoreTypeOK'
  BY <1>1, StoreTypes DEF TypeOK
<1>5. subscriptions' = {s \in subscriptions : s.id # i}
  BY DEF DeleteSubscription
<1> HIDE DEF w
<1> USE <1>1, <1>2, <1>3, <1>4, <1>5 DEF Becomes
<1>6. TypeOK'
  BY DEF TypeOK
<1>7. ArgumentsOK'
  BY DEF ArgumentsOK, Registering, Running, SubscribeCalls, BeforeInsert
<1>8. (IdsAreIssued /\ IdsAreKeys /\ OneRowPerSubscriber)'
  BY DEF IdsAreIssued, IdsAreKeys, OneRowPerSubscriber
<1>9. (TokensAreMailed /\ OptIn)'
  BY DEF TokensAreMailed, OptIn, Invited, CanLeave
<1>10. OwnersDiffer'
  BY DEF OwnersDiffer, Owns, Registering
<1>11. OwnRow'
  BY DEF OwnRow, Registering
<1>12. requests[r].at = "remove" => Invited(i) /\ CanLeave(i)
  <2>1. CanLeave(i) => i \in listed
    BY DEF TokensAreMailed, CanLeave, UnsubscribeToken
  <2> QED BY <2>1 DEF TokensAreMailed
<1>13. AwaitsMail'
  <2>1. \A q \in Requests \ {r} : requests[q].at = "sendConfirmation" => requests[q].id # i
    BY <1>12 DEF AwaitsMail, OwnersDiffer, Owns, Registering
  <2> QED BY <2>1 DEF AwaitsMail, Invited
<1>14. SubscribedIsRecorded'
  <2>1. \A q \in Requests \ {r} :
            requests[q].reply = "subscribed" /\ requests[q].id = i => CanLeave(i)
    BY <1>12 DEF OwnersDiffer, Owns, Registering
  <2> QED BY <2>1 DEF SubscribedIsRecorded, Invited, CanLeave
<1>15. (ConfirmedIsNotPending /\ UnsubscribedIsGone)'
  BY DEF ConfirmedIsNotPending, UnsubscribedIsGone
<1> QED BY <1>6, <1>7, <1>8, <1>9, <1>10, <1>11, <1>13, <1>14, <1>15

\* Unsubscribe's DELETE: its client holds the row's unsubscribe link.
LEMMA UnsubscribeKeeps == ASSUME IInv, NEW r \in Requests, UnsubscribeDeletes(r) PROVE IInv'
<1>1. CASE CallFails(r) /\ Return(r, "error") /\ UNCHANGED store
  <2>1. StoreTypeOK' /\ UNCHANGED <<subscriptions, serial, listed, inbox>>
    BY <1>1, StoreTypes DEF UnsubscribeDeletes, store, IInv, TypeOK
  <2> QED BY <1>1, <2>1, ReturnKeeps DEF Replies
<1>2. CASE /\ DeleteSubscription(requests[r].id)
           /\ Return(r, "unsubscribed") \/ Return(r, "error")
  BY <1>2, DeleteKeeps DEF UnsubscribeDeletes
<1> QED BY <1>1, <1>2 DEF UnsubscribeDeletes

\* The DELETE of a Subscribe whose mail failed.
LEMMA RollbackKeeps == ASSUME IInv, NEW r \in Requests, SubscribeRollsBack(r) PROVE IInv'
<1>1. CASE UNCHANGED store
  <2>1. StoreTypeOK' /\ UNCHANGED <<subscriptions, serial, listed, inbox>>
    BY <1>1, StoreTypes DEF SubscribeRollsBack, store, IInv, TypeOK
  <2> QED BY <2>1, ReturnKeeps DEF SubscribeRollsBack, Replies
<1>2. CASE DeleteSubscription(requests[r].id)
  BY <1>2, DeleteKeeps DEF SubscribeRollsBack
<1> QED BY <1>1, <1>2 DEF SubscribeRollsBack

\* The UPDATE confirms at most the row of r's id.
LEMMA ConfirmKeeps == ASSUME IInv, NEW r \in Requests, ConfirmUpdates(r) PROVE IInv'
<1> USE DEF IInv
<1>1. /\ requests[r] \in Request /\ requests[r].id \in Nat
      /\ requests[r].reply = "none" /\ Invited(requests[r].id)
  BY DEF ConfirmUpdates, TypeOK, Request, ArgumentsOK, TokensAreMailed, Running
<1>2. CASE CallFails(r) /\ Return(r, "error") /\ UNCHANGED store
  <2>1. StoreTypeOK' /\ UNCHANGED <<subscriptions, serial, listed, inbox>>
    BY <1>2, StoreTypes DEF ConfirmUpdates, store, TypeOK
  <2> QED BY <1>2, <2>1, ReturnKeeps DEF Replies
<1>3. ASSUME NEW x \in {"error", "confirmed"}, Return(r, x),
             ConfirmSubscription(requests[r].id)
      PROVE  IInv'
  <2> DEFINE i == requests[r].id
             w == [FreshRequest EXCEPT !.id = requests[r].id, !.reply = x]
             upd(s) == IF s.id = i THEN [s EXCEPT !.confirmed = TRUE] ELSE s
  <2>1. Becomes(r, w)
    BY <1>3, RequestChanges DEF TypeOK, Replies
  <2>2. w.at = "idle" /\ w.reply = x /\ w.id = i /\ w.token = None
    BY DEF FreshRequest
  <2>3. StoreTypeOK'
    BY <1>1, <1>3, StoreTypes DEF TypeOK
  <2>4. subscriptions' = {upd(s) : s \in subscriptions}
    BY <1>3 DEF ConfirmSubscription
  <2>5. \A s \in subscriptions : /\ upd(s).id = s.id
                                /\ upd(s).email = s.email
                                /\ upd(s).repo = s.repo
    BY DEF TypeOK, StoreTypeOK, SubscriptionRow
  <2>6. \A s \in subscriptions : /\ s.id = i => upd(s).confirmed = TRUE
                                 /\ s.id # i => upd(s) = s
    BY DEF TypeOK, StoreTypeOK, SubscriptionRow
  <2>7. UNCHANGED <<serial, listed, inbox>>
    BY DEF ConfirmUpdates
  <2> HIDE DEF w, upd
  <2> USE <1>1, <1>3, <2>1, <2>2, <2>3, <2>4, <2>5, <2>7 DEF Becomes
  <2>8. TypeOK'
    BY DEF TypeOK
  <2>9. ArgumentsOK'
    BY DEF ArgumentsOK, Registering, Running, SubscribeCalls, BeforeInsert
  <2>10. IdsAreIssued'
    BY DEF IdsAreIssued
  <2>11. (IdsAreKeys /\ OneRowPerSubscriber)'
    BY DEF IdsAreKeys, OneRowPerSubscriber
  <2>12. (TokensAreMailed /\ OptIn)'
    <3>1. TokensAreMailed'
      BY DEF TokensAreMailed, Invited, CanLeave
    <3>2. ASSUME NEW t \in subscriptions', t.confirmed
          PROVE  ConfirmToken(t.id) \in inbox
      <4>1. PICK s \in subscriptions : t = upd(s)
        BY <3>2
      <4>2. CASE s.id = i
        BY <4>1, <4>2 DEF Invited
      <4>3. CASE s.id # i
        BY <2>6, <3>2, <4>1, <4>3 DEF OptIn, Invited
      <4> QED BY <4>2, <4>3
    <3> QED BY <3>1, <3>2 DEF OptIn, Invited
  <2>13. OwnersDiffer'
    BY DEF OwnersDiffer, Owns, Registering
  <2>14. OwnRow'
    BY DEF OwnRow, Registering
  <2>15. AwaitsMail'
    BY DEF AwaitsMail, Invited
  <2>16. SubscribedIsRecorded'
    BY DEF SubscribedIsRecorded, Invited, CanLeave
  <2>17. ConfirmedIsNotPending'
    <3>1. ASSUME NEW q \in Requests, requests'[q].reply = "confirmed",
                 NEW t \in subscriptions', t.id = requests'[q].id
          PROVE  t.confirmed
      <4>1. PICK s \in subscriptions : t = upd(s)
        BY <3>1
      <4>2. CASE s.id = i
        <5>1. t.confirmed = TRUE
          BY <2>6, <4>1, <4>2
        <5> QED BY <5>1
      <4>3. CASE s.id # i
        <5>1. t = s /\ q # r
          BY <2>6, <3>1, <4>1, <4>3
        <5> QED BY <3>1, <5>1 DEF ConfirmedIsNotPending
      <4> QED BY <4>2, <4>3
    <3> QED BY <3>1 DEF ConfirmedIsNotPending
  <2>18. UnsubscribedIsGone'
    BY DEF UnsubscribedIsGone
  <2> QED BY <2>8, <2>9, <2>10, <2>11, <2>12, <2>13, <2>14, <2>15, <2>16, <2>17, <2>18
<1> QED BY <1>2, <1>3 DEF ConfirmUpdates

-----------------------------------------------------------------------------

\* A restart forgets the requests; the tables and mailboxes stay.
LEMMA RestartKeeps ==
    ASSUME IInv, requests' = [r \in Requests |-> FreshRequest],
           UNCHANGED <<store, serial, listed, inbox>>
    PROVE  IInv'
<1> USE DEF IInv
<1>1. FreshRequest \in Request
  BY DEF FreshRequest, Request, Replies
<1>2. \A r \in Requests : requests'[r] = FreshRequest
  OBVIOUS
<1>3. StoreTypeOK' /\ UNCHANGED <<subscriptions, serial, listed, inbox>>
  BY StoreTypes DEF store, TypeOK
<1>4. /\ FreshRequest.at = "idle" /\ FreshRequest.id = 0
      /\ FreshRequest.token = None /\ FreshRequest.reply = "none"
  BY DEF FreshRequest
<1>5. TypeOK'
  BY <1>1, <1>3 DEF TypeOK
<1> USE <1>2, <1>3, <1>4
<1>6. ArgumentsOK'
  BY DEF ArgumentsOK, Registering, Running, SubscribeCalls, BeforeInsert
<1>7. (IdsAreIssued /\ IdsAreKeys /\ OneRowPerSubscriber)'
  BY DEF IdsAreIssued, IdsAreKeys, OneRowPerSubscriber, TypeOK
<1>8. (TokensAreMailed /\ OptIn)'
  BY DEF TokensAreMailed, OptIn, Invited, CanLeave
<1>9. (OwnersDiffer /\ OwnRow /\ AwaitsMail)'
  BY DEF OwnersDiffer, OwnRow, AwaitsMail, Owns, Registering
<1>10. (SubscribedIsRecorded /\ ConfirmedIsNotPending /\ UnsubscribedIsGone)'
  BY DEF SubscribedIsRecorded, ConfirmedIsNotPending, UnsubscribedIsGone
<1> QED BY <1>5, <1>6, <1>7, <1>8, <1>9, <1>10

\* The notifier lists confirmed rows only, and their owners were invited.
LEMMA NotifierListsKeeps == ASSUME IInv, NotifierLists PROVE IInv'
<1> USE DEF IInv
<1>1. PICK rp \in Repos :
          listed' = listed \cup {s.id : s \in GetConfirmedSubscriptionsByRepoID(rp)}
  BY DEF NotifierLists
<1>2. \A i \in listed' \ listed : i \in Nat \ {0} /\ i <= serial /\ Invited(i)
  BY <1>1 DEF TypeOK, StoreTypeOK, SubscriptionRow, IdsAreIssued, OptIn,
             GetConfirmedSubscriptionsByRepoID
<1>3. UNCHANGED <<subscriptions, requests, serial, inbox>> /\ StoreTypeOK'
  BY StoreTypes DEF NotifierLists, store, TypeOK
<1> USE <1>1, <1>2, <1>3
<1>4. TypeOK' /\ ArgumentsOK'
  BY DEF TypeOK, ArgumentsOK, Registering, Running
<1>5. (IdsAreIssued /\ IdsAreKeys /\ OneRowPerSubscriber)'
  BY DEF IdsAreIssued, IdsAreKeys, OneRowPerSubscriber
<1>6. (TokensAreMailed /\ OptIn)'
  BY DEF TokensAreMailed, OptIn, Invited, CanLeave
<1>7. (OwnersDiffer /\ OwnRow /\ AwaitsMail)'
  BY DEF OwnersDiffer, OwnRow, AwaitsMail, Owns, Registering, Invited
<1>8. (SubscribedIsRecorded /\ ConfirmedIsNotPending /\ UnsubscribedIsGone)'
  BY DEF SubscribedIsRecorded, ConfirmedIsNotPending, UnsubscribedIsGone, Invited, CanLeave
<1> QED BY <1>4, <1>5, <1>6, <1>7, <1>8

\* A release mail carries the unsubscribe link of a listed row.
LEMMA NotifierMailsKeeps == ASSUME IInv, NotifierMails PROVE IInv'
<1> USE DEF IInv
<1>1. PICK i \in listed : inbox' = inbox \cup {UnsubscribeToken(i)}
  BY DEF NotifierMails
<1>2. i \in Nat \ {0} /\ i <= serial
  BY <1>1 DEF TypeOK, IdsAreIssued
<1>3. UNCHANGED <<subscriptions, requests, serial, listed>> /\ StoreTypeOK'
  BY StoreTypes DEF NotifierMails, store, TypeOK
<1>4. \A j : Invited(j)' <=> Invited(j)
  BY <1>1 DEF Invited, ConfirmToken, UnsubscribeToken
<1> USE <1>1, <1>2, <1>3
<1>5. TypeOK' /\ ArgumentsOK'
  BY TokenTypes DEF TypeOK, ArgumentsOK, Registering, Running
<1>6. (IdsAreIssued /\ IdsAreKeys /\ OneRowPerSubscriber)'
  <2>1. \A t \in inbox' : t[2] <= serial
    BY DEF IdsAreIssued, UnsubscribeToken
  <2> QED BY <2>1 DEF IdsAreIssued, IdsAreKeys, OneRowPerSubscriber
<1>7. (TokensAreMailed /\ OptIn)'
  <2>1. \A t \in inbox' : t[1] = "unsubscribe" => t[2] \in listed
    BY DEF TokensAreMailed, UnsubscribeToken
  <2> QED BY <2>1 DEF TokensAreMailed, OptIn, Invited, CanLeave
<1>8. (OwnersDiffer /\ OwnRow)'
  BY DEF OwnersDiffer, OwnRow, Owns, Registering
<1>9. AwaitsMail'
  BY <1>4 DEF AwaitsMail, Invited
<1>10. (SubscribedIsRecorded /\ ConfirmedIsNotPending /\ UnsubscribedIsGone)'
  BY DEF SubscribedIsRecorded, ConfirmedIsNotPending, UnsubscribedIsGone, Invited, CanLeave
<1> QED BY <1>5, <1>6, <1>7, <1>8, <1>9, <1>10

\* The invariant speaks of the variables only.
LEMMA StutterKeeps == ASSUME IInv, UNCHANGED vars PROVE IInv'
<1> USE DEF IInv, vars
<1>1. (TypeOK /\ ArgumentsOK)'
  BY DEF TypeOK, StoreTypeOK, ArgumentsOK, Registering, Running
<1>2. (IdsAreIssued /\ IdsAreKeys /\ OneRowPerSubscriber /\ TokensAreMailed /\ OptIn)'
  BY DEF IdsAreIssued, IdsAreKeys, OneRowPerSubscriber, TokensAreMailed, OptIn, Invited, CanLeave
<1>3. (OwnersDiffer /\ OwnRow /\ AwaitsMail)'
  BY DEF OwnersDiffer, OwnRow, AwaitsMail, Owns, Registering, Invited
<1>4. (SubscribedIsRecorded /\ ConfirmedIsNotPending /\ UnsubscribedIsGone)'
  BY DEF SubscribedIsRecorded, ConfirmedIsNotPending, UnsubscribedIsGone, Invited, CanLeave
<1> QED BY <1>1, <1>2, <1>3, <1>4

\* The invariant is inductive: every step of the service keeps it.
LEMMA NextKeeps == ASSUME IInv, [Next]_vars PROVE IInv'
<1>1. ASSUME NEW r \in Requests, Arrival(r) PROVE IInv'
  BY <1>1, ArrivalKeeps
<1>2. ASSUME NEW r \in Requests, SubscribeStep(r) PROVE IInv'
  BY <1>2, BeforeInsertKeeps, InsertKeeps, MailKeeps, RollbackKeeps DEF SubscribeStep
<1>3. ASSUME NEW r \in Requests, TokenStep(r) PROVE IInv'
  BY <1>3, LookupKeeps, ConfirmKeeps, UnsubscribeKeeps DEF TokenStep
<1>4. ASSUME NEW r \in Requests, ClientGone(r) PROVE IInv'
  BY <1>4, ClientGoneKeeps
<1>5. CASE Crash \/ NotifierLists \/ NotifierMails
  BY <1>5, RestartKeeps, NotifierListsKeeps, NotifierMailsKeeps DEF Crash
<1>6. CASE UNCHANGED vars
  BY <1>6, StutterKeeps
<1> QED BY <1>1, <1>2, <1>3, <1>4, <1>5, <1>6 DEF Next

-----------------------------------------------------------------------------
(* The theorems. *)

\* The inductive invariant holds in every behaviour of the service, for any
\* number of addresses, repositories, requests and ids, and under every fault.
THEOREM Invariance == Spec => []IInv
<1>1. Init => IInv
  BY InitInvariant
<1>2. IInv /\ [Next]_vars => IInv'
  BY NextKeeps
<1> QED BY <1>1, <1>2, PTL DEF Spec

\* Every variable keeps its type, in every interleaving and under every fault.
THEOREM TypeCorrect == Spec => []TypeOK
<1>1. IInv => TypeOK
  BY DEF IInv
<1> QED BY <1>1, Invariance, PTL

\* The check-then-insert of Subscribe never leaves two rows for one address
\* and repository.
THEOREM Uniqueness == Spec => []OneRowPerSubscriber
<1>1. IInv => OneRowPerSubscriber
  BY DEF IInv
<1> QED BY <1>1, Invariance, PTL

\* No row is confirmed before the owner of its address has its link.
THEOREM DoubleOptInHolds == Spec => []OptIn
<1>1. IInv => OptIn
  BY DEF IInv
<1> QED BY <1>1, Invariance, PTL

\* What Subscribe, Confirm and Unsubscribe answered stays true.
THEOREM AnswersAreTrue ==
    Spec => [](SubscribedIsRecorded /\ ConfirmedIsNotPending /\ UnsubscribedIsGone)
<1>1. IInv => SubscribedIsRecorded /\ ConfirmedIsNotPending /\ UnsubscribedIsGone
  BY DEF IInv
<1> QED BY <1>1, Invariance, PTL

\* A row that a Confirm was answered for is never pending again.
THEOREM ConfirmedStays == Spec => []ConfirmedIsNotPending
<1> QED BY AnswersAreTrue, PTL

\* A row that an Unsubscribe was answered for never comes back.
THEOREM UnsubscribedStays == Spec => []UnsubscribedIsGone
<1> QED BY AnswersAreTrue, PTL

\* The ids of the rows change only in an INSERT or a DELETE.
LEMMA RemovalStep == ASSUME IInv, [Next]_vars PROVE [RemovalIsAuthorised]_vars
<1> SUFFICES ASSUME Next, NEW s \in subscriptions,
                    s.id \notin {t.id : t \in subscriptions'}
             PROVE  \/ CanLeave(s.id)
                    \/ \E r \in Requests :
                          /\ requests[r].at = "rollback"
                          /\ requests[r].id = s.id
                          /\ requests[r].email = s.email
                          /\ requests[r].repo = s.repo
  BY DEF RemovalIsAuthorised
<1>1. ~(subscriptions \subseteq subscriptions')
  OBVIOUS
<1>2. ASSUME NEW r \in Requests, SubscribeStep(r)
      PROVE  requests[r].at = "rollback" /\ DeleteSubscription(requests[r].id)
  <2> USE <1>1, <1>2 DEF store
  <2>1. ~SubscribeChecksRepo(r)
    BY DEF SubscribeChecksRepo
  <2>2. ~SubscribeCreatesRepo(r)
    BY DEF SubscribeCreatesRepo, CreateRepository
  <2>3. ~SubscribeLooksUp(r)
    BY DEF SubscribeLooksUp
  <2>4. ~SubscribeInserts(r)
    BY DEF SubscribeInserts, CreateSubscription
  <2>5. ~SubscribeMails(r)
    BY DEF SubscribeMails
  <2>6. SubscribeRollsBack(r)
    BY <2>1, <2>2, <2>3, <2>4, <2>5 DEF SubscribeStep
  <2> QED BY <2>6 DEF SubscribeRollsBack
<1>3. ASSUME NEW r \in Requests, TokenStep(r)
      PROVE  requests[r].at = "remove" /\ DeleteSubscription(requests[r].id)
  <2>1. ~ConfirmLooksUp(r) /\ ~UnsubscribeLooksUp(r)
    BY <1>1 DEF ConfirmLooksUp, UnsubscribeLooksUp, store
  <2>2. ~ConfirmUpdates(r)
    <3>1. ASSUME ConfirmSubscription(requests[r].id) PROVE FALSE
      <4> DEFINE u == IF s.id = requests[r].id THEN [s EXCEPT !.confirmed = TRUE] ELSE s
      <4>1. u \in subscriptions'
        BY <3>1 DEF ConfirmSubscription
      <4>2. u.id = s.id
        BY DEF IInv, TypeOK, StoreTypeOK, SubscriptionRow
      <4> QED BY <4>1, <4>2
    <3> QED BY <1>1, <3>1 DEF ConfirmUpdates, store
  <2>3. UnsubscribeDeletes(r)
    BY <1>3, <2>1, <2>2 DEF TokenStep
  <2> QED BY <1>1, <2>3 DEF UnsubscribeDeletes, store
<1>4. ASSUME NEW r \in Requests, Arrival(r) \/ ClientGone(r)
      PROVE  FALSE
  BY <1>1, <1>4 DEF Arrival, SubscribeArrives, ConfirmArrives, UnsubscribeArrives,
                    ClientGone, store
<1>5. ~(Crash \/ NotifierLists \/ NotifierMails)
  BY <1>1 DEF Crash, NotifierLists, NotifierMails, store
<1>6. PICK r \in Requests : SubscribeStep(r) \/ TokenStep(r)
  BY <1>4, <1>5 DEF Next
<1>7. DeleteSubscription(requests[r].id)
  BY <1>2, <1>3, <1>6
<1>8. s.id = requests[r].id
  BY <1>7 DEF DeleteSubscription
<1>9. CASE SubscribeStep(r)
  BY <1>2, <1>8, <1>9 DEF IInv, OwnRow, Registering
<1>10. CASE TokenStep(r)
  BY <1>3, <1>8, <1>10 DEF IInv, TokensAreMailed
<1> QED BY <1>6, <1>9, <1>10

\* Only the owner, by a mailed link, or the Subscribe that made it removes a row.
THEOREM RemovalsAreAuthorised == Spec => NoUnauthorisedRemoval
<1>1. IInv /\ [Next]_vars => [RemovalIsAuthorised]_vars
  BY RemovalStep
<1> QED BY <1>1, Invariance, PTL DEF Spec, NoUnauthorisedRemoval

-----------------------------------------------------------------------------
(* A process whose database answers and whose clients wait. *)

AllLive == \A r \in Requests : requests[r].ctx = "live"

\* A step of a request changes no other request and not its context.
OthersStay(r) ==
    /\ requests'[r].ctx = "live"
    /\ \A q \in Requests \ {r} : requests'[q] = requests[q]

\* A step of request r leaves the other requests as they are.
LEMMA RequestStepStays ==
    ASSUME TypeOK, AllLive, NEW r \in Requests, Arrival(r) \/ SubscribeStep(r) \/ TokenStep(r)
    PROVE  OthersStay(r)
<1>1. requests[r].ctx = "live" /\ requests[r] \in Request /\ requests \in [Requests -> Request]
  BY DEF AllLive, TypeOK
<1>2. ASSUME NEW c, Goto(r, c) PROVE OthersStay(r)
  <2>1. [requests[r] EXCEPT !.at = c].ctx = "live"
    BY <1>1 DEF Request
  <2> QED BY <1>1, <1>2, <2>1 DEF Goto, OthersStay
<1>3. ASSUME NEW c, NEW i, GotoWith(r, c, i) PROVE OthersStay(r)
  <2>1. [requests[r] EXCEPT !.at = c, !.id = i].ctx = "live"
    BY <1>1 DEF Request
  <2> QED BY <1>1, <1>3, <2>1 DEF GotoWith, OthersStay
<1>4. ASSUME NEW x, Return(r, x) PROVE OthersStay(r)
  <2>1. [FreshRequest EXCEPT !.id = requests[r].id, !.reply = x].ctx = "live"
    BY DEF FreshRequest
  <2> QED BY <1>1, <1>4, <2>1 DEF Return, OthersStay
<1>5. ASSUME NEW x, Refuse(r, x) PROVE OthersStay(r)
  BY <1>1, <1>5 DEF Refuse, OthersStay, FreshRequest
<1>6. ASSUME NEW c, NEW e, NEW rp, NEW t, Arrive(r, c, e, rp, t) PROVE OthersStay(r)
  BY <1>1, <1>6 DEF Arrive, OthersStay, FreshRequest
<1>7. CASE Arrival(r)
  BY <1>5, <1>6, <1>7 DEF Arrival, SubscribeArrives, ConfirmArrives, UnsubscribeArrives
<1>8. CASE SubscribeStep(r)
  <2>1. CASE SubscribeChecksRepo(r) \/ SubscribeCreatesRepo(r) \/ SubscribeLooksUp(r)
    BY <1>2, <1>4, <2>1 DEF SubscribeChecksRepo, SubscribeCreatesRepo, SubscribeLooksUp
  <2>2. CASE SubscribeInserts(r) \/ SubscribeMails(r) \/ SubscribeRollsBack(r)
    BY <1>2, <1>3, <1>4, <2>2 DEF SubscribeInserts, SubscribeMails, SubscribeRollsBack
  <2> QED BY <1>8, <2>1, <2>2 DEF SubscribeStep
<1>9. CASE TokenStep(r)
  BY <1>3, <1>4, <1>9 DEF TokenStep, ConfirmLooksUp, ConfirmUpdates, UnsubscribeLooksUp,
                          UnsubscribeDeletes, Found
<1> QED BY <1>7, <1>8, <1>9

\* A row without a link is one of C, or its Subscribe is in flight.
InFlightOr(C) ==
    \A s \in subscriptions : Stranded(s.id) =>
        s.id \in C \/ \E r \in Requests : Registering(r) /\ requests[r].id = s.id

\* Rows that were stranded before the step of r have another owner in flight.
LEMMA StrandedStays ==
    ASSUME NEW C, InFlightOr(C), NEW r \in Requests, ~Registering(r), OthersStay(r),
           inbox \subseteq inbox',
           \A t \in subscriptions' : ~t.confirmed =>
               \E s \in subscriptions : s.id = t.id /\ ~s.confirmed
    PROVE  InFlightOr(C)'
<1> SUFFICES ASSUME NEW t \in subscriptions', Stranded(t.id)', t.id \notin C
             PROVE  \E q \in Requests : (Registering(q) /\ requests[q].id = t.id)'
  BY DEF InFlightOr
<1>1. PICK s \in subscriptions : s.id = t.id /\ ~s.confirmed
  BY DEF Stranded
<1>2. Stranded(s.id)
  BY <1>1 DEF Stranded, Invited
<1>3. PICK q \in Requests : Registering(q) /\ requests[q].id = s.id
  BY <1>1, <1>2 DEF InFlightOr
<1> QED BY <1>1, <1>3 DEF OthersStay, Registering

\* With only GitHub and the mail server failing, no step leaves a row without
\* a link and without a Subscribe that will mail it or remove it.
LEMMA StrandedStep ==
    ASSUME Faults \subseteq {"github", "mail"}, NEW C,
           IInv, AllLive, InFlightOr(C), [Next]_vars
    PROVE  AllLive' /\ InFlightOr(C)'
<1> USE DEF IInv
<1>1. \A r \in Requests : CallRuns(r) /\ ~CallFails(r)
  BY DEF AllLive, CallRuns, CallFails
<1>2. ~AnswerLost
  BY DEF AnswerLost
<1>3. ASSUME NEW r \in Requests, Arrival(r) \/ SubscribeStep(r) \/ TokenStep(r)
      PROVE  AllLive'
  BY <1>3, RequestStepStays DEF AllLive, OthersStay
<1>4. ASSUME NEW r \in Requests, Arrival(r) PROVE InFlightOr(C)'
  <2>1. ~Registering(r) /\ UNCHANGED <<subscriptions, inbox>>
    BY <1>4 DEF Arrival, SubscribeArrives, ConfirmArrives, UnsubscribeArrives, store,
                Running, Registering
  <2> QED BY <1>4, <2>1, RequestStepStays, StrandedStays
<1>5. ASSUME NEW r \in Requests, TokenStep(r) PROVE InFlightOr(C)'
  <2>1. ~Registering(r) /\ UNCHANGED inbox
    BY <1>5 DEF TokenStep, ConfirmLooksUp, ConfirmUpdates, UnsubscribeLooksUp,
                UnsubscribeDeletes, Registering
  <2>2. \A t \in subscriptions' : ~t.confirmed =>
            \E s \in subscriptions : s.id = t.id /\ ~s.confirmed
    <3>1. CASE UNCHANGED subscriptions
      BY <3>1
    <3>2. CASE DeleteSubscription(requests[r].id)
      BY <3>2 DEF DeleteSubscription
    <3>3. CASE ConfirmSubscription(requests[r].id)
      <4>1. \A s \in subscriptions : [s EXCEPT !.confirmed = TRUE].confirmed = TRUE
        BY DEF TypeOK, StoreTypeOK, SubscriptionRow
      <4>2. ASSUME NEW t \in subscriptions', ~t.confirmed PROVE t \in subscriptions
        BY <3>3, <4>1, <4>2 DEF ConfirmSubscription
      <4> QED BY <4>2
    <3>4. UNCHANGED subscriptions \/ DeleteSubscription(requests[r].id)
            \/ ConfirmSubscription(requests[r].id)
      BY <1>5 DEF TokenStep, ConfirmLooksUp, ConfirmUpdates, UnsubscribeLooksUp,
                  UnsubscribeDeletes, store
    <3> QED BY <3>1, <3>2, <3>3, <3>4
  <2> QED BY <1>5, <2>1, <2>2, RequestStepStays, StrandedStays
<1>6. ASSUME NEW r \in Requests, SubscribeStep(r) PROVE InFlightOr(C)'
  <2>1. OthersStay(r)
    BY <1>6, RequestStepStays
  <2>2. CASE SubscribeChecksRepo(r) \/ SubscribeCreatesRepo(r) \/ SubscribeLooksUp(r)
    <3>1. ~Registering(r) /\ UNCHANGED <<subscriptions, inbox>>
      BY <2>2 DEF SubscribeChecksRepo, SubscribeCreatesRepo, SubscribeLooksUp,
                  CreateRepository, store, Registering
    <3> QED BY <2>1, <3>1, StrandedStays
  <2>3. CASE SubscribeInserts(r)
    <3>1. ~Registering(r) /\ UNCHANGED inbox
      BY <2>3 DEF SubscribeInserts, Registering
    <3>2. CASE UNCHANGED subscriptions
      BY <2>1, <3>1, <3>2, StrandedStays
    <3>3. CASE /\ CreateSubscription(serial + 1, requests[r].email, requests[r].repo)
               /\ GotoWith(r, "sendConfirmation", serial + 1)
      <4>1. requests'[r].at = "sendConfirmation" /\ requests'[r].id = serial + 1
        <5>1. /\ [requests[r] EXCEPT !.at = "sendConfirmation", !.id = serial + 1].at
                    = "sendConfirmation"
              /\ [requests[r] EXCEPT !.at = "sendConfirmation", !.id = serial + 1].id
                    = serial + 1
          BY DEF TypeOK, Request
        <5> QED BY <3>3, <5>1 DEF GotoWith, TypeOK
      <4>2. \A t \in subscriptions' : t.id # serial + 1 => t \in subscriptions
        BY <3>3 DEF CreateSubscription
      <4> SUFFICES ASSUME NEW t \in subscriptions', Stranded(t.id)', t.id \notin C
                   PROVE  \E q \in Requests : (Registering(q) /\ requests[q].id = t.id)'
        BY DEF InFlightOr
      <4>3. CASE t.id = serial + 1
        BY <4>1, <4>3 DEF Registering
      <4>4. CASE t.id # serial + 1
        <5>1. PICK s \in subscriptions' : s.id = t.id /\ ~s.confirmed
          BY DEF Stranded
        <5>2. s \in subscriptions /\ Stranded(s.id)
          BY <3>1, <4>2, <4>4, <5>1 DEF Stranded, Invited
        <5>3. PICK q \in Requests : Registering(q) /\ requests[q].id = s.id
          BY <5>1, <5>2 DEF InFlightOr
        <5> QED BY <2>1, <3>1, <5>1, <5>3 DEF OthersStay, Registering
      <4> QED BY <4>3, <4>4
    <3> QED BY <1>1, <1>2, <2>3, <3>2, <3>3 DEF SubscribeInserts, store
  <2>4. CASE SubscribeMails(r)
    <3> DEFINE i == requests[r].id
    <3>1. UNCHANGED subscriptions /\ inbox \subseteq inbox' /\ requests[r].at = "sendConfirmation"
      BY <2>4 DEF SubscribeMails, MailSent, MailFails, MailDelivered, store
    <3>2. \/ ConfirmToken(i) \in inbox'
          \/ requests'[r].at = "rollback" /\ requests'[r].id = i
      <4>1. CASE Goto(r, "rollback")
        <5>1. /\ [requests[r] EXCEPT !.at = "rollback"].at = "rollback"
              /\ [requests[r] EXCEPT !.at = "rollback"].id = i
          BY DEF TypeOK, Request
        <5> QED BY <4>1, <5>1 DEF Goto, TypeOK
      <4>2. CASE inbox' = inbox \cup {ConfirmToken(i)}
        BY <4>2
      <4> QED BY <1>1, <2>4, <4>1, <4>2 DEF SubscribeMails, MailSent, MailDelivered
    <3> SUFFICES ASSUME NEW t \in subscriptions', Stranded(t.id)', t.id \notin C
                 PROVE  \E q \in Requests : (Registering(q) /\ requests[q].id = t.id)'
      BY DEF InFlightOr
    <3>3. t \in subscriptions /\ Stranded(t.id) /\ ConfirmToken(t.id) \notin inbox'
      BY <3>1 DEF Stranded, Invited
    <3>4. PICK q \in Requests : Registering(q) /\ requests[q].id = t.id
      BY <3>3 DEF InFlightOr
    <3>5. CASE q = r
      BY <3>2, <3>3, <3>4, <3>5 DEF Registering
    <3>6. CASE q # r
      BY <2>1, <3>4, <3>6 DEF OthersStay, Registering
    <3> QED BY <3>5, <3>6
  <2>5. CASE SubscribeRollsBack(r)
    <3>1. DeleteSubscription(requests[r].id) /\ UNCHANGED inbox
      BY <1>1, <2>5 DEF SubscribeRollsBack
    <3> SUFFICES ASSUME NEW t \in subscriptions', Stranded(t.id)', t.id \notin C
                 PROVE  \E q \in Requests : (Registering(q) /\ requests[q].id = t.id)'
      BY DEF InFlightOr
    <3>2. t \in subscriptions /\ Stranded(t.id) /\ t.id # requests[r].id
      BY <3>1 DEF DeleteSubscription, Stranded, Invited
    <3>3. PICK q \in Requests : Registering(q) /\ requests[q].id = t.id
      BY <3>2 DEF InFlightOr
    <3> QED BY <2>1, <3>2, <3>3 DEF OthersStay, Registering
  <2> QED BY <1>6, <2>2, <2>3, <2>4, <2>5 DEF SubscribeStep
<1>7. \A r \in Requests : ~ClientGone(r)
  BY DEF ClientGone
<1>8. ~Crash
  BY DEF Crash
<1>9. CASE NotifierLists \/ NotifierMails \/ UNCHANGED vars
  <2>1. UNCHANGED <<subscriptions, requests>> /\ inbox \subseteq inbox'
    BY <1>9 DEF NotifierLists, NotifierMails, vars, store
  <2>2. AllLive'
    BY <2>1 DEF AllLive
  <2>3. InFlightOr(C)'
    BY <2>1 DEF InFlightOr, Stranded, Invited, Registering
  <2> QED BY <2>2, <2>3
<1> QED BY <1>3, <1>4, <1>5, <1>6, <1>7, <1>8, <1>9 DEF Next

\* While only GitHub and the mail server fail, a row whose owner has no link is
\* still being worked on by the Subscribe that inserted it.
THEOREM NothingIsStranded ==
    ASSUME Faults \subseteq {"github", "mail"}
    PROVE  Spec => []StrandedIsInFlight
<1>1. Init => AllLive /\ StrandedIsInFlight
  BY DEF Init, StoreInit, AllLive, StrandedIsInFlight, FreshRequest
<1>2. StrandedIsInFlight <=> InFlightOr({})
  BY DEF StrandedIsInFlight, InFlightOr
<1>3. IInv /\ AllLive /\ InFlightOr({}) /\ [Next]_vars => AllLive' /\ InFlightOr({})'
  BY StrandedStep
<1> QED BY <1>1, <1>2, <1>3, Invariance, PTL DEF Spec
=============================================================================
