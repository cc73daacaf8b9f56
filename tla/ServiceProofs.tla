--------------------------- MODULE ServiceProofs ---------------------------
(* Theorems about Service for every value of its constants: the two parts  *)
(* keep to what each expects of the other, so that the theorems about each *)
(* hold of the whole.                                                      *)
EXTENDS Service, ScannerProofs, FiniteSetTheorems

\* The theorems about Subscriptions, in the scanner's world.
View == INSTANCE SubscriptionsProofs WITH
    Requests <- Clients, Faults <- RequestFaults,
    lastSeenTag <- [r \in Repos |-> NoTag]

-----------------------------------------------------------------------------
(* The same under both names. *)

LEMMA ViewAssumptions ==
    /\ View!NoneAssumption /\ View!GitHubAssumption
    /\ View!MaxSerialAssumption /\ View!FaultsAssumption
BY RequestsAssumption, BoundsAssumption
DEF View!NoneAssumption, View!GitHubAssumption, View!MaxSerialAssumption,
    View!FaultsAssumption, View!Tokens, Tokens

\* A step of a request is one in the view that leaves the tags out, under the
\* name that Service gives the view and under the one the theorems have.
LEMMA RequestInView ==
    ASSUME NEW r \in Clients, RequestStep(r)
    PROVE  View!Next /\ SubView!Next
<1>1. ASSUME Sub!Arrival(r) PROVE View!Arrival(r) /\ SubView!Arrival(r)
  <2>1. ASSUME Sub!SubscribeArrives(r)
        PROVE  View!SubscribeArrives(r) /\ SubView!SubscribeArrives(r)
    <3>0. /\ \A x : Sub!Refuse(r, x) <=> View!Refuse(r, x)
          /\ \A c, e, rp, t : Sub!Arrive(r, c, e, rp, t) <=> View!Arrive(r, c, e, rp, t)
      BY DEF Sub!Refuse, View!Refuse, Sub!Arrive, View!Arrive, Sub!FreshRequest, View!FreshRequest
    <3>1. /\ \A x : Sub!Refuse(r, x) <=> SubView!Refuse(r, x)
          /\ \A c, e, rp, t : Sub!Arrive(r, c, e, rp, t) <=> SubView!Arrive(r, c, e, rp, t)
      BY DEF Sub!Refuse, SubView!Refuse, Sub!Arrive, SubView!Arrive, Sub!FreshRequest, SubView!FreshRequest
    <3>2. /\ ~Sub!Running(r) /\ serial + Sub!SerialsReserved < MaxSerial
          /\ UNCHANGED <<store, serial, listed, inbox>>
      BY <2>1 DEF Sub!SubscribeArrives, Sub!store, store
    <3>3. PICK e \in Emails \cup {None}, rp \in Repos \cup {None} :
             \/ e = None /\ Sub!Refuse(r, "invalidEmail")
             \/ e # None /\ rp = None /\ Sub!Refuse(r, "invalidRepoFormat")
             \/ e # None /\ rp # None /\ Sub!Arrive(r, "repoExists", e, rp, None)
      BY <2>1 DEF Sub!SubscribeArrives
    <3>4. View!SubscribeArrives(r)
      <4>0. (Sub!Running(r) <=> View!Running(r)) /\ Sub!SerialsReserved = View!SerialsReserved
        BY DEF Sub!Running, View!Running, Sub!SerialsReserved, View!SerialsReserved,
            Sub!BeforeInsert, View!BeforeInsert, Sub!Cardinality, View!Cardinality
      <4>1. ~View!Running(r) /\ serial + View!SerialsReserved < MaxSerial
        BY <3>2, <4>0
      <4>2. UNCHANGED <<View!store, serial, listed, inbox>>
        BY <3>2 DEF View!store, store
      <4>3. \/ e = None /\ View!Refuse(r, "invalidEmail")
            \/ e # None /\ rp = None /\ View!Refuse(r, "invalidRepoFormat")
            \/ e # None /\ rp # None /\ View!Arrive(r, "repoExists", e, rp, None)
        BY <3>0, <3>3
      <4> QED BY <4>1, <4>2, <4>3 DEF View!SubscribeArrives
    <3>5. SubView!SubscribeArrives(r)
      <4>0. (Sub!Running(r) <=> SubView!Running(r)) /\ Sub!SerialsReserved = SubView!SerialsReserved
        BY DEF Sub!Running, SubView!Running, Sub!SerialsReserved, SubView!SerialsReserved,
            Sub!BeforeInsert, SubView!BeforeInsert, Sub!Cardinality, SubView!Cardinality
      <4>1. ~SubView!Running(r) /\ serial + SubView!SerialsReserved < MaxSerial
        BY <3>2, <4>0
      <4>2. UNCHANGED <<SubView!store, serial, listed, inbox>>
        BY <3>2 DEF SubView!store, store
      <4>3. \/ e = None /\ SubView!Refuse(r, "invalidEmail")
            \/ e # None /\ rp = None /\ SubView!Refuse(r, "invalidRepoFormat")
            \/ e # None /\ rp # None /\ SubView!Arrive(r, "repoExists", e, rp, None)
        BY <3>1, <3>3
      <4> QED BY <4>1, <4>2, <4>3 DEF SubView!SubscribeArrives
    <3> QED BY <3>4, <3>5
  <2>2. ASSUME Sub!ConfirmArrives(r) PROVE View!ConfirmArrives(r) /\ SubView!ConfirmArrives(r)
    <3>1. View!ConfirmArrives(r)
      BY <2>2
      DEF Sub!ConfirmArrives, Sub!Running, Sub!Links, Sub!Refuse, Sub!Arrive,
          Sub!store, Sub!FreshRequest,
          View!ConfirmArrives, View!Running, View!Links, View!Refuse, View!Arrive,
          View!store, View!FreshRequest,
          store
    <3>2. SubView!ConfirmArrives(r)
      BY <2>2
      DEF Sub!ConfirmArrives, Sub!Running, Sub!Links, Sub!Refuse, Sub!Arrive,
          Sub!store, Sub!FreshRequest,
          SubView!ConfirmArrives, SubView!Running, SubView!Links, SubView!Refuse,
          SubView!Arrive, SubView!store, SubView!FreshRequest,
          store
    <3> QED BY <3>1, <3>2
  <2>3. ASSUME Sub!UnsubscribeArrives(r)
        PROVE  View!UnsubscribeArrives(r) /\ SubView!UnsubscribeArrives(r)
    <3>1. View!UnsubscribeArrives(r)
      BY <2>3
      DEF Sub!UnsubscribeArrives, Sub!Running, Sub!Links, Sub!Refuse, Sub!Arrive,
          Sub!store, Sub!FreshRequest,
          View!UnsubscribeArrives, View!Running, View!Links, View!Refuse,
          View!Arrive, View!store, View!FreshRequest,
          store
    <3>2. SubView!UnsubscribeArrives(r)
      BY <2>3
      DEF Sub!UnsubscribeArrives, Sub!Running, Sub!Links, Sub!Refuse, Sub!Arrive,
          Sub!store, Sub!FreshRequest,
          SubView!UnsubscribeArrives, SubView!Running, SubView!Links,
          SubView!Refuse, SubView!Arrive, SubView!store, SubView!FreshRequest,
          store
    <3> QED BY <3>1, <3>2
  <2> QED BY <1>1, <2>1, <2>2, <2>3 DEF Sub!Arrival, View!Arrival, SubView!Arrival
<1>2. ASSUME Sub!SubscribeStep(r) PROVE View!SubscribeStep(r) /\ SubView!SubscribeStep(r)
  BY <1>2
  DEF Sub!SubscribeStep, Sub!SubscribeChecksRepo, Sub!SubscribeCreatesRepo,
      Sub!SubscribeLooksUp, Sub!SubscribeInserts, Sub!SubscribeMails,
      Sub!SubscribeRollsBack, Sub!CallRuns, Sub!RepoExists, Sub!Goto, Sub!Return,
      Sub!store, Sub!CreateRepository, Sub!AnswerLost, Sub!CallFails,
      Sub!GetSubscriptionByEmailAndRepo, Sub!CreateSubscription, Sub!GotoWith,
      Sub!PairIsFree, Sub!RepositoryIsThere, Sub!Admits, Sub!MailSent, Sub!MailFails, Sub!DeleteSubscription,
      Sub!FreshRequest, Sub!MailDelivered, Sub!ConfirmToken,
      View!SubscribeStep, View!SubscribeChecksRepo, View!SubscribeCreatesRepo,
      View!SubscribeLooksUp, View!SubscribeInserts, View!SubscribeMails,
      View!SubscribeRollsBack, View!CallRuns, View!RepoExists, View!Goto,
      View!Return, View!store, View!CreateRepository, View!AnswerLost,
      View!CallFails, View!GetSubscriptionByEmailAndRepo, View!CreateSubscription,
      View!GotoWith, View!PairIsFree, View!RepositoryIsThere, View!Admits, View!MailSent, View!MailFails,
      View!DeleteSubscription, View!FreshRequest, View!MailDelivered,
      View!ConfirmToken,
      SubView!SubscribeStep, SubView!SubscribeChecksRepo,
      SubView!SubscribeCreatesRepo, SubView!SubscribeLooksUp,
      SubView!SubscribeInserts, SubView!SubscribeMails, SubView!SubscribeRollsBack,
      SubView!CallRuns, SubView!RepoExists, SubView!Goto, SubView!Return,
      SubView!store, SubView!CreateRepository, SubView!AnswerLost,
      SubView!CallFails, SubView!GetSubscriptionByEmailAndRepo,
      SubView!CreateSubscription, SubView!GotoWith, SubView!PairIsFree,
      SubView!RepositoryIsThere, SubView!Admits,
      SubView!MailSent, SubView!MailFails, SubView!DeleteSubscription,
      SubView!FreshRequest, SubView!MailDelivered, SubView!ConfirmToken,
      store
<1>3. ASSUME Sub!TokenStep(r) PROVE View!TokenStep(r) /\ SubView!TokenStep(r)
  BY <1>3
  DEF Sub!TokenStep, Sub!ConfirmLooksUp, Sub!ConfirmUpdates, Sub!UnsubscribeLooksUp,
      Sub!UnsubscribeDeletes, Sub!Found, Sub!GetSubscriptionByConfirmToken,
      Sub!store, Sub!CallRuns, Sub!ConfirmSubscription, Sub!Return, Sub!AnswerLost,
      Sub!CallFails, Sub!GetSubscriptionByUnsubscribeToken, Sub!DeleteSubscription,
      Sub!GotoWith, Sub!ConfirmToken, Sub!FreshRequest, Sub!UnsubscribeToken,
      View!TokenStep, View!ConfirmLooksUp, View!ConfirmUpdates,
      View!UnsubscribeLooksUp, View!UnsubscribeDeletes, View!Found,
      View!GetSubscriptionByConfirmToken, View!store, View!CallRuns,
      View!ConfirmSubscription, View!Return, View!AnswerLost, View!CallFails,
      View!GetSubscriptionByUnsubscribeToken, View!DeleteSubscription,
      View!GotoWith, View!ConfirmToken, View!FreshRequest, View!UnsubscribeToken,
      SubView!TokenStep, SubView!ConfirmLooksUp, SubView!ConfirmUpdates,
      SubView!UnsubscribeLooksUp, SubView!UnsubscribeDeletes, SubView!Found,
      SubView!GetSubscriptionByConfirmToken, SubView!store, SubView!CallRuns,
      SubView!ConfirmSubscription, SubView!Return, SubView!AnswerLost,
      SubView!CallFails, SubView!GetSubscriptionByUnsubscribeToken,
      SubView!DeleteSubscription, SubView!GotoWith, SubView!ConfirmToken,
      SubView!FreshRequest, SubView!UnsubscribeToken,
      store
<1>4. ASSUME Sub!ClientGone(r) PROVE View!ClientGone(r) /\ SubView!ClientGone(r)
  BY <1>4
  DEF Sub!ClientGone, Sub!Running, Sub!CallRuns, Sub!store,
      View!ClientGone, View!Running, View!CallRuns, View!store,
      SubView!ClientGone, SubView!Running, SubView!CallRuns, SubView!store,
      store
<1> QED BY <1>1, <1>2, <1>3, <1>4 DEF RequestStep, View!Next, SubView!Next

\* The two names of the view agree.
LEMMA OneView ==
    /\ View!IInv <=> SubView!IInv
    /\ View!Init <=> SubView!Init
    /\ View!vars = SubView!vars
<1>1. View!IInv <=> SubView!IInv
  BY DEF View!IInv, View!TypeOK, View!ArgumentsOK, View!IdsAreIssued, View!IdsAreKeys,
      View!OneRowPerSubscriber, View!TokensAreMailed, View!OptIn, View!OwnersDiffer,
      View!OwnRow, View!AwaitsMail, View!SubscribedIsRecorded,
      View!ConfirmedIsNotPending, View!UnsubscribedIsGone, View!StoreTypeOK,
      View!Request, View!Tokens, View!SubscribeCalls, View!Registering,
      View!Running, View!Invited, View!CanLeave, View!Owns, View!SubscriptionRow,
      View!Calls, View!Replies, View!BeforeInsert, View!ConfirmToken,
      View!UnsubscribeToken,
      SubView!IInv, SubView!TypeOK, SubView!ArgumentsOK, SubView!IdsAreIssued,
      SubView!IdsAreKeys, SubView!OneRowPerSubscriber, SubView!TokensAreMailed,
      SubView!OptIn, SubView!OwnersDiffer, SubView!OwnRow, SubView!AwaitsMail,
      SubView!SubscribedIsRecorded, SubView!ConfirmedIsNotPending,
      SubView!UnsubscribedIsGone, SubView!StoreTypeOK, SubView!Request,
      SubView!Tokens, SubView!SubscribeCalls, SubView!Registering, SubView!Running,
      SubView!Invited, SubView!CanLeave, SubView!Owns, SubView!SubscriptionRow,
      SubView!Calls, SubView!Replies, SubView!BeforeInsert, SubView!ConfirmToken,
      SubView!UnsubscribeToken
<1>2. View!Init <=> SubView!Init
  BY DEF View!Init, View!StoreInit, View!FreshRequest, View!NoTag,
      SubView!Init, SubView!StoreInit, SubView!FreshRequest, SubView!NoTag
<1>3. View!vars = SubView!vars
  BY DEF View!vars,
      SubView!vars
<1> QED BY <1>1, <1>2, <1>3

-----------------------------------------------------------------------------
(* What a step of the scanner is for the requests. *)

\* It leaves their tables alone, and mails at most one of those on the list;
\* a new list is read from the table.
LEMMA ScanShape ==
    ASSUME IInv, ScanStep
    PROVE  /\ UNCHANGED <<repositories, subscriptions, serial, requests>>
           /\ \/ unsent' \subseteq unsent /\ Mailed = {}
              \/ unsent' \subseteq unsent /\ \E i \in unsent : Mailed \subseteq {i}
              \/ Mailed = {} /\ \E rp \in Repos : unsent' = Confirmed(rp)
<1>1. UNCHANGED copies => Mailed = {}
  BY DEF Mailed
<1>2. CASE ListSubscribers
  <2>1. UNCHANGED <<repositories, subscriptions, serial, requests, copies>>
    BY <1>2 DEF ListSubscribers, ScanStep, store
  <2>2. unsent' = Confirmed(current.repo) \/ unsent' = unsent
    BY <1>2 DEF ListSubscribers
  <2>3. current.repo \in Repos
    BY <1>2 DEF ListSubscribers, IInv, TypeOK, LocalsOK, Checking, Announcing, Watch
  <2> QED BY <1>1, <2>1, <2>2, <2>3
<1>3. ASSUME NEW i \in Ids, SendMail(i)
      PROVE  /\ UNCHANGED <<repositories, subscriptions, serial>>
             /\ unsent' \subseteq unsent /\ i \in unsent /\ Mailed \subseteq {i}
  <2>1. UNCHANGED <<repositories, subscriptions, serial>> /\ i \in unsent
    BY <1>3 DEF SendMail, store
  <2>2. unsent' \subseteq unsent
    BY <1>3 DEF SendMail, DoneWith, Retry, GiveUp
  <2>3. UNCHANGED copies \/ Deliver(i)
    BY <1>3 DEF SendMail
  <2>4. ASSUME Deliver(i), NEW j \in Ids, NEW t \in Tags, j # i
        PROVE  copies'[<<j, t>>] = copies[<<j, t>>]
    <3>1. <<j, t>> # <<i, release>> /\ <<j, t>> \in DOMAIN copies
      BY <2>4 DEF IInv, TypeOK
    <3> QED BY <2>4, <3>1 DEF Deliver
  <2> QED BY <1>1, <2>1, <2>2, <2>3, <2>4 DEF Mailed
<1>4. CASE StartCycle \/ ListRepos \/ NextRepo \/ Fetch \/ NotifyEnds \/ Record
  <2>1. UNCHANGED <<repositories, subscriptions, serial, copies>>
    BY <1>4 DEF StartCycle, ListRepos, NextRepo, Fetch, NotifyEnds, Record, Applied,
                UpdateLastSeenTag, store, history
  <2>2. unsent' = unsent \/ unsent' = {}
    BY <1>4 DEF StartCycle, ListRepos, NextRepo, Fetch, GetLatestRelease, Compare,
                NotifyEnds, Record, CheckEnds, CycleEnds
  <2> QED BY <1>1, <2>1, <2>2 DEF ScanStep
<1>5. CASE RepoDeadline \/ CycleDeadline \/ \E r \in Repos : Publish(r) \/ Withdraw(r) \/ CacheExpires(r)
  <2>1. UNCHANGED <<repositories, subscriptions, serial, copies, unsent>>
    BY <1>5 DEF RepoDeadline, CycleDeadline, Publish, Withdraw, CacheExpires, store, scan, history
  <2> QED BY <1>1, <2>1 DEF ScanStep
<1> QED BY <1>2, <1>3, <1>4, <1>5 DEF ScanStep, ScannerStep

\* For Subscriptions it is a step of the notifier, or none.
LEMMA ScanInView ==
    ASSUME IInv, UnsentAreListed, ScanStep
    PROVE  /\ [View!Next]_(View!vars)
           /\ [SubView!Next]_(SubView!vars)
<1>1. /\ listed' = listed \cup unsent'
      /\ inbox' = inbox \cup {UnsubscribeToken(i) : i \in Mailed}
      /\ UNCHANGED <<repositories, subscriptions, serial, requests>>
  BY ScanShape DEF ScanStep
<1>2. CASE unsent' \subseteq unsent /\ Mailed = {}
  <2>1. UNCHANGED <<listed, inbox>>
    BY <1>1, <1>2 DEF UnsentAreListed
  <2> QED BY <1>1, <2>1 DEF View!vars, SubView!vars
<1>3. ASSUME unsent' \subseteq unsent, NEW i \in unsent, Mailed \subseteq {i}
      PROVE  (UNCHANGED View!vars \/ View!NotifierMails)
             /\ (UNCHANGED SubView!vars \/ SubView!NotifierMails)
  <2>1. listed' = listed /\ i \in listed
    BY <1>1, <1>3 DEF UnsentAreListed
  <2>2. Mailed = {} \/ Mailed = {i}
    BY <1>3
  <2>3. inbox' = inbox \/ inbox' = inbox \cup {UnsubscribeToken(i)}
    BY <1>1, <2>2
  <2> QED BY <1>1, <2>1, <2>3
      DEF View!NotifierMails, SubView!NotifierMails, View!vars, SubView!vars,
          View!store, SubView!store, View!UnsubscribeToken, SubView!UnsubscribeToken,
          UnsubscribeToken
<1>4. ASSUME Mailed = {}, NEW rp \in Repos, unsent' = Confirmed(rp)
      PROVE  View!NotifierLists /\ SubView!NotifierLists
  <2>1. inbox' = inbox /\ listed' = listed \cup Confirmed(rp)
    BY <1>1, <1>4
  <2> QED BY <1>1, <2>1
      DEF View!NotifierLists, SubView!NotifierLists, View!store, SubView!store,
          View!GetConfirmedSubscriptionsByRepoID, SubView!GetConfirmedSubscriptionsByRepoID,
          Confirmed, GetConfirmedSubscriptionsByRepoID
<1> QED BY <1>2, <1>3, <1>4, ScanShape DEF View!Next, SubView!Next

\* One crash is a crash of both.
LEMMA CrashInView ==
    ASSUME ProcessCrash PROVE View!Next /\ SubView!Next
<1>1. Sub!Crash
  BY DEF ProcessCrash
<1>2. View!Crash /\ SubView!Crash
  BY <1>1 DEF Sub!Crash, View!Crash, SubView!Crash, Sub!FreshRequest, View!FreshRequest,
              SubView!FreshRequest, Sub!store, View!store, SubView!store
<1> QED BY <1>2 DEF View!Next, SubView!Next

\* Every step of the service is one of Subscriptions, in its view.
LEMMA NextInView ==
    ASSUME IInv, UnsentAreListed, [ServiceNext]_serviceVars
    PROVE  /\ [View!Next]_(View!vars)
           /\ [SubView!Next]_(SubView!vars)
<1>1. CASE UNCHANGED serviceVars
  BY <1>1 DEF serviceVars, vars, View!vars, SubView!vars
<1> QED BY <1>1, RequestInView, ScanInView, CrashInView DEF ServiceNext

-----------------------------------------------------------------------------
(* The ids that requests in flight may still draw. *)

\* The requests that hold back an id, when requests is x.
Reserving(x) == {q \in Clients : x[q].at \in Sub!BeforeInsert}

LEMMA ReservedCount ==
    /\ Sub!SerialsReserved = Cardinality(Reserving(requests))
    /\ Sub!SerialsReserved' = Cardinality(Reserving(requests'))
<1>1. \A S : Sub!Cardinality(S) = Cardinality(S)
  BY DEF Sub!Cardinality, Cardinality
<1> QED BY <1>1 DEF Sub!SerialsReserved, Reserving, Sub!BeforeInsert

\* One request more or less.
LEMMA ReservedByOne ==
    ASSUME NEW x, NEW y, NEW r \in Clients, \A q \in Clients \ {r} : y[q] = x[q]
    PROVE  LET X == Cardinality(Reserving(x))
               Y == Cardinality(Reserving(y))
           IN  /\ X \in Nat /\ Y \in Nat
               /\ Y <= X + 1
               /\ r \in Reserving(x) => X >= 1
               /\ r \notin Reserving(y) \/ r \in Reserving(x) => Y <= X
               /\ r \in Reserving(x) /\ r \notin Reserving(y) => Y = X - 1
<1> DEFINE S == Reserving(x)
           T == Reserving(y)
<1>1. IsFiniteSet(S) /\ IsFiniteSet(T)
  BY ClientsAssumption, FS_Subset DEF Reserving
<1>2. Cardinality(S) \in Nat /\ Cardinality(T) \in Nat
  BY <1>1, FS_CardinalityType
<1>3. T \ {r} = S \ {r}
  BY DEF Reserving
<1> HIDE DEF S, T
<1>4. Cardinality(S \ {r}) = IF r \in S THEN Cardinality(S) - 1 ELSE Cardinality(S)
  BY <1>1, FS_RemoveElement
<1>5. Cardinality(T \ {r}) = IF r \in T THEN Cardinality(T) - 1 ELSE Cardinality(T)
  BY <1>1, FS_RemoveElement
<1>6. r \in S => Cardinality(S) >= 1
  BY <1>1, <1>2, FS_EmptySet
<1>7. /\ Cardinality(T) <= Cardinality(S) + 1
      /\ r \notin T \/ r \in S => Cardinality(T) <= Cardinality(S)
      /\ r \in S /\ r \notin T => Cardinality(T) = Cardinality(S) - 1
  BY <1>2, <1>3, <1>4, <1>5
<1> QED BY <1>2, <1>6, <1>7 DEF S, T

-----------------------------------------------------------------------------
(* What a step of a request is for the scanner. *)

\* It changes its own record and nothing of the scanner's; mails stay.
LEMMA RequestShape ==
    ASSUME View!TypeOK, NEW r \in Clients, RequestStep(r)
    PROVE  /\ UNCHANGED <<scan, github, faults, history, listed>>
           /\ inbox \subseteq inbox'
           /\ \A q \in Clients \ {r} : requests'[q] = requests[q]
<1> USE DEF Sub!Arrive, Sub!Refuse, Sub!Return, Sub!Goto, Sub!GotoWith
<1>1. UNCHANGED <<scan, github, faults, history>>
  BY DEF RequestStep
<1>2. requests \in [Clients -> View!Request]
  BY DEF View!TypeOK
<1>3. ASSUME Sub!Arrival(r)
      PROVE  /\ UNCHANGED <<listed, inbox>>
             /\ \A q \in Clients \ {r} : requests'[q] = requests[q]
  BY <1>2, <1>3 DEF Sub!Arrival, Sub!SubscribeArrives, Sub!ConfirmArrives,
                    Sub!UnsubscribeArrives
<1>4. ASSUME Sub!SubscribeStep(r)
      PROVE  /\ UNCHANGED listed /\ inbox \subseteq inbox'
             /\ \A q \in Clients \ {r} : requests'[q] = requests[q]
  BY <1>2, <1>4 DEF Sub!SubscribeStep, Sub!SubscribeChecksRepo, Sub!SubscribeCreatesRepo,
                    Sub!SubscribeLooksUp, Sub!SubscribeInserts, Sub!SubscribeMails,
                    Sub!SubscribeRollsBack, Sub!MailSent, Sub!MailFails, Sub!MailDelivered
<1>5. ASSUME Sub!TokenStep(r)
      PROVE  /\ UNCHANGED <<listed, inbox>>
             /\ \A q \in Clients \ {r} : requests'[q] = requests[q]
  BY <1>2, <1>5 DEF Sub!TokenStep, Sub!ConfirmLooksUp, Sub!UnsubscribeLooksUp,
                    Sub!ConfirmUpdates, Sub!UnsubscribeDeletes, Sub!Found
<1>6. ASSUME Sub!ClientGone(r)
      PROVE  /\ UNCHANGED <<listed, inbox>>
             /\ \A q \in Clients \ {r} : requests'[q] = requests[q]
  BY <1>2, <1>6 DEF Sub!ClientGone
<1> QED BY <1>1, <1>3, <1>4, <1>5, <1>6 DEF RequestStep

\* Where a request is after a step, if it has an id to draw then.
LEMMA DrawsLater ==
    ASSUME View!TypeOK, NEW r \in Clients, RequestStep(r)
    PROVE  \/ /\ Sub!SubscribeArrives(r) /\ UNCHANGED serial
           \/ /\ requests[r].at = "createSubscription"
              /\ r \notin Reserving(requests')
              /\ serial' \in {serial, serial + 1}
           \/ /\ r \notin Reserving(requests') \/ r \in Reserving(requests)
              /\ UNCHANGED serial
<1> USE DEF Reserving, Sub!BeforeInsert
<1>1. requests \in [Clients -> View!Request]
  BY DEF View!TypeOK
<1>2. \A x : Sub!Return(r, x) \/ Sub!Refuse(r, x) => r \notin Reserving(requests')
  BY <1>1 DEF Sub!Return, Sub!Refuse, Sub!FreshRequest
<1>3. \A c : Sub!Goto(r, c) => requests'[r].at = c
  BY <1>1 DEF Sub!Goto, View!Request
<1>4. \A c, i : Sub!GotoWith(r, c, i) => requests'[r].at = c
  BY <1>1 DEF Sub!GotoWith, View!Request
<1>5. \A c, e, rp, t : Sub!Arrive(r, c, e, rp, t) => requests'[r].at = c
  BY <1>1 DEF Sub!Arrive, Sub!FreshRequest
<1>6. ASSUME Sub!SubscribeArrives(r) PROVE UNCHANGED serial
  BY <1>6 DEF Sub!SubscribeArrives
<1>7. ASSUME Sub!ConfirmArrives(r) \/ Sub!UnsubscribeArrives(r)
      PROVE  r \notin Reserving(requests') /\ UNCHANGED serial
  BY <1>2, <1>5, <1>7 DEF Sub!ConfirmArrives, Sub!UnsubscribeArrives
<1>8. ASSUME \/ Sub!SubscribeChecksRepo(r) \/ Sub!SubscribeCreatesRepo(r)
             \/ Sub!SubscribeLooksUp(r)
      PROVE  r \in Reserving(requests) /\ UNCHANGED serial
  BY <1>8 DEF Sub!SubscribeChecksRepo, Sub!SubscribeCreatesRepo, Sub!SubscribeLooksUp
<1>9. ASSUME Sub!SubscribeInserts(r)
      PROVE  /\ requests[r].at = "createSubscription"
             /\ r \notin Reserving(requests')
             /\ serial' \in {serial, serial + 1}
  BY <1>2, <1>4, <1>9 DEF Sub!SubscribeInserts
<1>10. ASSUME Sub!SubscribeMails(r) \/ Sub!SubscribeRollsBack(r)
       PROVE  r \notin Reserving(requests') /\ UNCHANGED serial
  BY <1>2, <1>3, <1>10 DEF Sub!SubscribeMails, Sub!SubscribeRollsBack
<1>11. ASSUME Sub!TokenStep(r)
       PROVE  r \notin Reserving(requests') /\ UNCHANGED serial
  BY <1>2, <1>4, <1>11 DEF Sub!TokenStep, Sub!ConfirmLooksUp, Sub!UnsubscribeLooksUp,
                           Sub!ConfirmUpdates, Sub!UnsubscribeDeletes, Sub!Found
<1>12. ASSUME Sub!ClientGone(r)
       PROVE  requests'[r].at = requests[r].at /\ UNCHANGED serial
  BY <1>1, <1>12 DEF Sub!ClientGone, View!Request
<1> QED BY <1>6, <1>7, <1>8, <1>9, <1>10, <1>11, <1>12
    DEF RequestStep, Sub!Arrival, Sub!SubscribeStep

\* The statements it runs are those Scanner expects of requests.
LEMMA RequestInScanner ==
    ASSUME View!IInv, SerialsSuffice, serial \in Nat,
           NEW r \in Clients, RequestStep(r)
    PROVE  [Next]_vars
<1>1. View!TypeOK
  BY DEF View!IInv
<1>2. UNCHANGED <<scan, github, faults, history>>
  BY <1>1, RequestShape
<1> DEFINE e == requests[r].email
           rp == requests[r].repo
           i == requests[r].id
<1>3. ASSUME Sub!SubscribeCreatesRepo(r)
      PROVE  RequestWrites \/ UNCHANGED <<store, serial>>
  <2>1. rp \in Repos
    BY <1>3 DEF View!IInv, View!ArgumentsOK, View!SubscribeCalls, View!BeforeInsert,
                Sub!SubscribeCreatesRepo
  <2>2. UNCHANGED serial /\ (CreateRepository(rp) \/ UNCHANGED store)
    BY <1>3 DEF Sub!SubscribeCreatesRepo, Sub!CreateRepository, CreateRepository,
                Sub!store, store
  <2> QED BY <2>1, <2>2 DEF RequestWrites
<1>4. ASSUME Sub!SubscribeInserts(r)
      PROVE  RequestWrites \/ UNCHANGED <<store, serial>>
  <2>1. requests[r].at = "createSubscription"
    BY <1>4 DEF Sub!SubscribeInserts
  <2>2. e \in Emails /\ rp \in Repos
    BY <2>1 DEF View!IInv, View!ArgumentsOK, View!SubscribeCalls, View!BeforeInsert
  <2>3. serial < MaxSerial
    <3>1. r \in Reserving(requests)
      BY <2>1 DEF Reserving, Sub!BeforeInsert
    <3>2. Sub!SerialsReserved \in Nat /\ Sub!SerialsReserved >= 1
      BY <3>1, ReservedByOne, ReservedCount
    <3> QED BY <3>2, BoundsAssumption DEF SerialsSuffice
  <2>4. \/ /\ serial' = serial + 1
           /\ CreateSubscription(serial + 1, e, rp) \/ UNCHANGED store
        \/ UNCHANGED <<store, serial>>
    BY <1>4 DEF Sub!SubscribeInserts, Sub!CreateSubscription, CreateSubscription,
                Sub!Admits, Admits, Sub!RepositoryIsThere, RepositoryIsThere,
                Sub!PairIsFree, PairIsFree, Sub!GetSubscriptionByEmailAndRepo,
                GetSubscriptionByEmailAndRepo, Sub!store, store
  <2>5. serial' = serial + 1 /\ CreateSubscription(serial + 1, e, rp) =>
            CreateSubscription(serial', e, rp)
    OBVIOUS
  <2> HIDE DEF e, rp
  <2> QED BY <2>2, <2>3, <2>4, <2>5 DEF RequestWrites
<1>5. ASSUME Sub!SubscribeRollsBack(r) \/ Sub!ConfirmUpdates(r) \/ Sub!UnsubscribeDeletes(r)
      PROVE  RequestWrites \/ UNCHANGED <<store, serial>>
  <2>1. UNCHANGED serial
    BY <1>5 DEF Sub!SubscribeRollsBack, Sub!ConfirmUpdates, Sub!UnsubscribeDeletes
  <2>2. ConfirmSubscription(i) \/ DeleteSubscription(i) \/ UNCHANGED store
    BY <1>5 DEF Sub!SubscribeRollsBack, Sub!ConfirmUpdates, Sub!UnsubscribeDeletes,
                Sub!ConfirmSubscription, ConfirmSubscription,
                Sub!DeleteSubscription, DeleteSubscription, Sub!store, store
  <2>3. ASSUME \A s \in subscriptions : s.id # i, ~UNCHANGED store PROVE FALSE
    <3>1. {IF s.id = i THEN [s EXCEPT !.confirmed = TRUE] ELSE s : s \in subscriptions}
            = subscriptions
      BY <2>3
    <3>2. {s \in subscriptions : s.id # i} = subscriptions
      BY <2>3
    <3> QED BY <2>2, <2>3, <3>1, <3>2 DEF ConfirmSubscription, DeleteSubscription, store
  <2> HIDE DEF i
  <2> QED BY <2>1, <2>2, <2>3 DEF RequestWrites
<1>6. ASSUME \/ Sub!Arrival(r) \/ Sub!ClientGone(r)
             \/ Sub!SubscribeChecksRepo(r) \/ Sub!SubscribeLooksUp(r) \/ Sub!SubscribeMails(r)
             \/ Sub!ConfirmLooksUp(r) \/ Sub!UnsubscribeLooksUp(r)
      PROVE  UNCHANGED <<store, serial>>
  BY <1>6 DEF Sub!Arrival, Sub!SubscribeArrives, Sub!ConfirmArrives, Sub!UnsubscribeArrives,
              Sub!ClientGone, Sub!SubscribeChecksRepo, Sub!SubscribeLooksUp,
              Sub!SubscribeMails, Sub!ConfirmLooksUp, Sub!UnsubscribeLooksUp, Sub!store, store
<1>7. RequestWrites \/ UNCHANGED <<store, serial>>
  BY <1>3, <1>4, <1>5, <1>6 DEF RequestStep, Sub!SubscribeStep, Sub!TokenStep
<1> QED BY <1>2, <1>7 DEF Next, Requests, vars, store, github, history

LEMMA CrashInScanner == ASSUME ProcessCrash PROVE Next
BY DEF ProcessCrash, Next

LEMMA ScanInScanner == ASSUME ScanStep PROVE Next
BY DEF ScanStep, Next

-----------------------------------------------------------------------------
(* The inductive invariant, with the view under the theorems' name. *)

Kept ==
    /\ IInv
    /\ View!IInv
    /\ UnsentAreListed /\ LinksWereUsed /\ SerialsSuffice /\ MailedByConsent

LEMMA KeptIsInvariant == Kept <=> ServiceIInv
BY OneView DEF Kept, ServiceIInv

LEMMA InitKept == ASSUME ServiceInit PROVE Kept /\ View!Init
<1>1. IInv
  BY InitInvariant DEF ServiceInit
<1>2. /\ subscriptions = {} /\ serial = 0 /\ unsent = {}
      /\ requests = [r \in Clients |-> Sub!FreshRequest]
  BY DEF ServiceInit, Init, StoreInit, Idle, Sub!Init
<1>3. View!Init
  BY DEF ServiceInit, Sub!Init, Sub!StoreInit, View!Init, View!StoreInit,
         Sub!FreshRequest, View!FreshRequest, View!NoTag, NoTag
<1>4. View!IInv
  BY <1>3, ViewAssumptions, View!InitInvariant
<1>5. Reserving(requests) = {}
  BY <1>2 DEF Sub!FreshRequest, Reserving, Sub!BeforeInsert
<1>6. UnsentAreListed /\ SerialsSuffice
  BY <1>2, <1>5, ReservedCount, FS_EmptySet, BoundsAssumption
  DEF UnsentAreListed, SerialsSuffice
<1>7. MailedByConsent
  BY DEF MailedByConsent, ServiceInit, Init
<1>8. LinksWereUsed
  BY <1>2 DEF LinksWereUsed, ToConfirm, ServiceInit, Sub!Init, Sub!FreshRequest
<1> QED BY <1>1, <1>3, <1>4, <1>6, <1>7, <1>8 DEF Kept

\* A step of the whole is one of Scanner, and keeps to the bound of the ids.
LEMMA NextInScanner ==
    ASSUME Kept, [ServiceNext]_serviceVars PROVE [Next]_vars
<1>1. serial \in Nat
  BY BoundsAssumption DEF Kept, IInv, TypeOK
<1>2. CASE UNCHANGED serviceVars
  BY <1>2 DEF serviceVars, vars
<1> QED BY <1>1, <1>2, RequestInScanner, CrashInScanner, ScanInScanner DEF Kept, ServiceNext

LEMMA SerialsKept ==
    ASSUME Kept, [ServiceNext]_serviceVars PROVE SerialsSuffice'
<1> DEFINE X == Cardinality(Reserving(requests))
           Y == Cardinality(Reserving(requests'))
<1>1. serial \in Nat /\ serial <= MaxSerial /\ MaxSerial \in Nat /\ View!TypeOK
  BY BoundsAssumption DEF Kept, IInv, TypeOK, View!IInv
<1>2. serial + X <= MaxSerial
  BY ReservedCount DEF Kept, SerialsSuffice
<1>3. SUFFICES serial' + Y <= MaxSerial
  BY ReservedCount DEF SerialsSuffice
<1>4. ASSUME NEW r \in Clients, RequestStep(r) PROVE serial' + Y <= MaxSerial
  <2>1. /\ X \in Nat /\ Y \in Nat
        /\ Y <= X + 1
        /\ r \in Reserving(requests) => X >= 1
        /\ r \notin Reserving(requests') \/ r \in Reserving(requests) => Y <= X
        /\ r \in Reserving(requests) /\ r \notin Reserving(requests') => Y = X - 1
    BY <1>1, <1>4, RequestShape, ReservedByOne
  <2>2. CASE Sub!SubscribeArrives(r) /\ UNCHANGED serial
    <3>1. serial + X < MaxSerial
      BY <2>2, ReservedCount DEF Sub!SubscribeArrives
    <3> HIDE DEF X, Y
    <3> QED BY <1>1, <2>1, <2>2, <3>1
  <2>3. CASE /\ requests[r].at = "createSubscription"
             /\ r \notin Reserving(requests')
             /\ serial' \in {serial, serial + 1}
    <3>1. r \in Reserving(requests)
      BY <2>3 DEF Reserving, Sub!BeforeInsert
    <3> HIDE DEF X, Y
    <3> QED BY <1>1, <1>2, <2>1, <2>3, <3>1
  <2>4. CASE /\ r \notin Reserving(requests') \/ r \in Reserving(requests)
             /\ UNCHANGED serial
    <3> HIDE DEF X, Y
    <3> QED BY <1>1, <1>2, <2>1, <2>4
  <2> QED BY <1>1, <1>4, <2>2, <2>3, <2>4, DrawsLater
<1>5. CASE ScanStep
  BY <1>2, <1>5, ScanShape DEF Kept
<1>6. CASE ProcessCrash
  <2>1. serial' = serial /\ requests' = [r \in Clients |-> Sub!FreshRequest]
    BY <1>6 DEF ProcessCrash, Crash, Sub!Crash
  <2>2. Reserving(requests') = {}
    BY <2>1 DEF Reserving, Sub!FreshRequest, Sub!BeforeInsert
  <2> QED BY <1>1, <2>1, <2>2, FS_EmptySet
<1>7. CASE UNCHANGED serviceVars
  BY <1>2, <1>7 DEF serviceVars, vars
<1> QED BY <1>4, <1>5, <1>6, <1>7 DEF ServiceNext

\* A request reaches the UPDATE of Confirm by the link of the row it names, and
\* only that UPDATE confirms a row.
LEMMA ConfirmedByLink ==
    ASSUME View!TypeOK, NEW r \in Clients, RequestStep(r)
    PROVE  /\ requests'[r].at = "confirm" =>
                 \/ requests[r].at = "confirm" /\ requests'[r].id = requests[r].id
                 \/ /\ requests[r].at = "findToConfirm"
                    /\ \E s \in subscriptions :
                          requests[r].token = ConfirmToken(s.id) /\ requests'[r].id = s.id
           /\ \A s \in subscriptions' : s.confirmed =>
                 \/ \E o \in subscriptions : o.id = s.id /\ o.confirmed
                 \/ requests[r].at = "confirm" /\ requests[r].id = s.id
<1>1. requests \in [Clients -> View!Request] /\ subscriptions \subseteq View!SubscriptionRow
  BY DEF View!TypeOK, View!StoreTypeOK
<1>2. \A x : Sub!Return(r, x) \/ Sub!Refuse(r, x) => requests'[r].at = "idle"
  BY <1>1 DEF Sub!Return, Sub!Refuse, Sub!FreshRequest
<1>3. \A c : Sub!Goto(r, c) => requests'[r].at = c
  BY <1>1 DEF Sub!Goto, View!Request
<1>4. \A c, i : Sub!GotoWith(r, c, i) => requests'[r].at = c /\ requests'[r].id = i
  BY <1>1 DEF Sub!GotoWith, View!Request
<1>5. \A c, e, rp, t : Sub!Arrive(r, c, e, rp, t) => requests'[r].at = c
  BY <1>1 DEF Sub!Arrive, Sub!FreshRequest
<1>6. ASSUME Sub!Arrival(r)
      PROVE  requests'[r].at # "confirm" /\ UNCHANGED subscriptions
  BY <1>2, <1>5, <1>6 DEF Sub!Arrival, Sub!SubscribeArrives, Sub!ConfirmArrives,
                          Sub!UnsubscribeArrives, Sub!store
<1>7. ASSUME \/ Sub!SubscribeChecksRepo(r) \/ Sub!SubscribeCreatesRepo(r)
             \/ Sub!SubscribeLooksUp(r) \/ Sub!SubscribeMails(r)
      PROVE  requests'[r].at # "confirm" /\ UNCHANGED subscriptions
  BY <1>2, <1>3, <1>7 DEF Sub!SubscribeChecksRepo, Sub!SubscribeCreatesRepo,
                          Sub!SubscribeLooksUp, Sub!SubscribeMails, Sub!CreateRepository,
                          Sub!store
<1>8. ASSUME Sub!SubscribeInserts(r)
      PROVE  /\ requests'[r].at # "confirm"
             /\ \A s \in subscriptions' : s.confirmed => s \in subscriptions
  BY <1>2, <1>4, <1>8 DEF Sub!SubscribeInserts, Sub!CreateSubscription, Sub!store
<1>9. ASSUME Sub!SubscribeRollsBack(r) \/ Sub!UnsubscribeDeletes(r)
      PROVE  requests'[r].at # "confirm" /\ subscriptions' \subseteq subscriptions
  BY <1>2, <1>9 DEF Sub!SubscribeRollsBack, Sub!UnsubscribeDeletes, Sub!DeleteSubscription,
                    Sub!store
<1>10. ASSUME Sub!UnsubscribeLooksUp(r)
       PROVE  requests'[r].at # "confirm" /\ UNCHANGED subscriptions
  BY <1>2, <1>4, <1>10 DEF Sub!UnsubscribeLooksUp, Sub!Found, Sub!store
<1>11. ASSUME Sub!ConfirmLooksUp(r), requests'[r].at = "confirm"
       PROVE  /\ requests[r].at = "findToConfirm"
              /\ \E s \in subscriptions :
                    requests[r].token = ConfirmToken(s.id) /\ requests'[r].id = s.id
  BY <1>2, <1>4, <1>11 DEF Sub!ConfirmLooksUp, Sub!Found, Sub!GetSubscriptionByConfirmToken,
                           Sub!ConfirmToken, ConfirmToken
<1>12. ASSUME Sub!ConfirmLooksUp(r) PROVE UNCHANGED subscriptions
  BY <1>12 DEF Sub!ConfirmLooksUp, Sub!store
<1>13. ASSUME Sub!ConfirmUpdates(r)
       PROVE  /\ requests'[r].at # "confirm" /\ requests[r].at = "confirm"
              /\ \A s \in subscriptions' : s.confirmed =>
                    \/ \E o \in subscriptions : o.id = s.id /\ o.confirmed
                    \/ requests[r].id = s.id
  BY <1>1, <1>2, <1>13 DEF Sub!ConfirmUpdates, Sub!ConfirmSubscription, View!SubscriptionRow,
                           Sub!store
<1>14. ASSUME Sub!ClientGone(r)
       PROVE  /\ requests'[r].at = requests[r].at /\ requests'[r].id = requests[r].id
              /\ UNCHANGED subscriptions
  BY <1>1, <1>14 DEF Sub!ClientGone, View!Request, Sub!store
<1> QED BY <1>6, <1>7, <1>8, <1>9, <1>10, <1>11, <1>12, <1>13, <1>14
    DEF RequestStep, Sub!SubscribeStep, Sub!TokenStep

\* A link is used by who presents it, and only mailed links are presented.
LEMMA LinksKept ==
    ASSUME Kept, View!IInv', [ServiceNext]_serviceVars PROVE LinksWereUsed'
<1>1. ASSUME UNCHANGED <<requests, subscriptions, used>>, inbox \subseteq inbox',
             listed' \subseteq used
      PROVE  LinksWereUsed'
  BY <1>1 DEF Kept, LinksWereUsed, ToConfirm
<1>2. ASSUME NEW r \in Clients, RequestStep(r) PROVE LinksWereUsed'
  <2>1. View!TypeOK /\ IInv
    BY DEF Kept, View!IInv
  <2>2. /\ used' = used \cup ToConfirm(requests'[r]) /\ inbox \subseteq inbox'
        /\ listed' = listed /\ \A q \in Clients \ {r} : requests'[q] = requests[q]
    BY <1>2, <2>1, RequestShape DEF RequestStep
  <2>3. \A i \in ToConfirm(requests'[r]) : ConfirmToken(i) \in inbox'
    <3>1. requests'[r].token \in inbox' \cup {None}
      BY DEF View!IInv, View!TokensAreMailed
    <3>2. \A i \in Ids : ConfirmToken(i) # None
      BY RequestsAssumption, BoundsAssumption DEF Ids, Tokens, ConfirmToken
    <3> QED BY <3>1, <3>2 DEF ToConfirm
  <2>4. \A i \in used' : ConfirmToken(i) \in inbox'
    BY <2>2, <2>3 DEF Kept, LinksWereUsed
  <2>5. ASSUME requests'[r].at = "confirm" PROVE requests'[r].id \in used
    <3>1. CASE requests[r].at = "confirm" /\ requests'[r].id = requests[r].id
      BY <3>1 DEF Kept, LinksWereUsed
    <3>2. ASSUME requests[r].at = "findToConfirm", NEW s \in subscriptions,
                 requests[r].token = ConfirmToken(s.id), requests'[r].id = s.id
          PROVE  requests'[r].id \in used
      <4>1. s.id \in Ids
        BY <2>1, RowTypes
      <4>2. s.id \in ToConfirm(requests[r])
        BY <3>2, <4>1 DEF ToConfirm
      <4> QED BY <3>2, <4>2 DEF Kept, LinksWereUsed
    <3> QED BY <1>2, <2>1, <2>5, <3>1, <3>2, ConfirmedByLink
  <2>6. \A s \in subscriptions' : s.confirmed => s.id \in used
    BY <1>2, <2>1, ConfirmedByLink DEF Kept, LinksWereUsed
  <2>7. \A q \in Clients : /\ ToConfirm(requests'[q]) \subseteq used'
                           /\ requests'[q].at = "confirm" => requests'[q].id \in used'
    BY <2>2, <2>5 DEF Kept, LinksWereUsed
  <2> QED BY <2>2, <2>4, <2>6, <2>7 DEF Kept, LinksWereUsed, ToConfirm, ConfirmToken, Ids
<1>3. ASSUME ScanStep PROVE LinksWereUsed'
  <2>1. unsent' \subseteq used
    <3>1. unsent \subseteq used
      BY DEF Kept, UnsentAreListed, LinksWereUsed
    <3>2. \A rp \in Repos : Confirmed(rp) \subseteq used
      BY DEF Kept, LinksWereUsed, Confirmed, GetConfirmedSubscriptionsByRepoID
    <3> QED BY <1>3, <3>1, <3>2, ScanShape DEF Kept
  <2>2. /\ listed' \subseteq used /\ inbox \subseteq inbox'
        /\ UNCHANGED <<requests, subscriptions, used>>
    BY <1>3, <2>1, ScanShape DEF ScanStep, Kept, LinksWereUsed
  <2> QED BY <1>1, <2>2
<1>4. ASSUME ProcessCrash PROVE LinksWereUsed'
  <2>1. /\ requests' = [r \in Clients |-> Sub!FreshRequest]
        /\ UNCHANGED <<subscriptions, inbox, listed, used>>
    BY <1>4 DEF ProcessCrash, Sub!Crash, Sub!store
  <2> QED BY <2>1 DEF Kept, LinksWereUsed, ToConfirm, Sub!FreshRequest
<1>5. ASSUME UNCHANGED serviceVars PROVE LinksWereUsed'
  BY <1>1, <1>5 DEF serviceVars, vars, Kept, LinksWereUsed
<1> QED BY <1>2, <1>3, <1>4, <1>5 DEF ServiceNext

\* A mail goes to somebody on a list, hence to somebody who used the link.
LEMMA ConsentKept ==
    ASSUME Kept, [ServiceNext]_serviceVars PROVE (UnsentAreListed /\ MailedByConsent)'
<1>1. ASSUME UNCHANGED copies, inbox \subseteq inbox', used \subseteq used' PROVE MailedByConsent'
  BY <1>1 DEF Kept, MailedByConsent, ConfirmToken
<1>2. ASSUME NEW r \in Clients, RequestStep(r) PROVE (UnsentAreListed /\ MailedByConsent)'
  <2>1. UNCHANGED <<scan, history, listed>> /\ inbox \subseteq inbox' /\ used \subseteq used'
    BY <1>2, RequestShape DEF Kept, View!IInv, RequestStep
  <2> QED BY <1>1, <2>1 DEF Kept, UnsentAreListed, scan, history
<1>3. ASSUME ScanStep PROVE (UnsentAreListed /\ MailedByConsent)'
  <2>1. listed' = listed \cup unsent' /\ inbox \subseteq inbox' /\ used' = used
    BY <1>3 DEF ScanStep
  <2>2. \A i \in Mailed : ConfirmToken(i) \in inbox /\ i \in used
    <3>1. Mailed \subseteq unsent
      BY <1>3, ScanShape DEF Kept
    <3> QED BY <3>1 DEF Kept, UnsentAreListed, LinksWereUsed
  <2>3. \A i \in Ids \ Mailed, t \in Tags : copies'[<<i, t>>] = copies[<<i, t>>]
    BY DEF Mailed
  <2>4. MailedByConsent'
    <3> SUFFICES ASSUME NEW i \in Ids, NEW t \in Tags, copies'[<<i, t>>] > 0
                 PROVE  ConfirmToken(i) \in inbox' /\ i \in used'
      BY DEF MailedByConsent, ConfirmToken
    <3>1. CASE i \in Mailed
      BY <2>1, <2>2, <3>1
    <3>2. CASE i \notin Mailed
      BY <2>1, <2>3, <3>2 DEF Kept, MailedByConsent
    <3> QED BY <3>1, <3>2
  <2> QED BY <2>1, <2>4 DEF UnsentAreListed
<1>4. ASSUME ProcessCrash PROVE (UnsentAreListed /\ MailedByConsent)'
  <2>1. unsent' = {} /\ UNCHANGED <<copies, inbox, used>>
    BY <1>4 DEF ProcessCrash, Crash, CycleEnds, Sub!Crash
  <2> QED BY <1>1, <2>1 DEF UnsentAreListed
<1>5. ASSUME UNCHANGED serviceVars PROVE (UnsentAreListed /\ MailedByConsent)'
  BY <1>1, <1>5 DEF serviceVars, vars, scan, Kept, UnsentAreListed
<1> QED BY <1>2, <1>3, <1>4, <1>5 DEF ServiceNext

LEMMA NextKept == ASSUME Kept, [ServiceNext]_serviceVars PROVE Kept'
<1>1. [View!Next]_(View!vars)
  BY NextInView DEF Kept
<1>2. View!IInv'
  BY <1>1, ViewAssumptions, View!NextKeeps DEF Kept
<1>3. IInv'
  BY NextInScanner, NextKeeps DEF Kept
<1> QED BY <1>2, <1>3, SerialsKept, LinksKept, ConsentKept DEF Kept

-----------------------------------------------------------------------------
(* The theorems. *)

\* The invariants of both parts hold of the whole, and with them all that rests
\* on them.
THEOREM ServiceInvariance == ServiceSpec => []ServiceIInv
<1>1. ServiceInit => Kept
  BY InitKept
<1>2. Kept /\ [ServiceNext]_serviceVars => Kept'
  BY NextKept
<1>3. Kept <=> ServiceIInv
  BY KeptIsInvariant
<1> QED BY <1>1, <1>2, <1>3, PTL DEF ServiceSpec

\* A release mail goes only to somebody who was sent the confirmation link and
\* presented it to Confirm.
THEOREM MailsAreWanted == ServiceSpec => []MailedByConsent
<1>1. ServiceIInv => MailedByConsent
  BY DEF ServiceIInv
<1> QED BY <1>1, ServiceInvariance, PTL

\* Requests do nothing that Scanner does not expect of its environment.
THEOREM RequestsKeepToScanner == ServiceSpec => KeepsToScanner
<1>1. ServiceInit => Init
  BY DEF ServiceInit
<1>2. ServiceIInv /\ [ServiceNext]_serviceVars => [Next]_vars
  BY NextInScanner, KeptIsInvariant
<1> QED BY <1>1, <1>2, ServiceInvariance, PTL DEF ServiceSpec, KeepsToScanner, Spec

\* The scanner does nothing that Subscriptions does not expect of the notifier.
THEOREM ScannerKeepsToRequests == ServiceSpec => KeepsToSubscriptions
<1>1. ServiceInit => SubView!Init
  BY InitKept, OneView
<1>2. ServiceIInv /\ [ServiceNext]_serviceVars => [SubView!Next]_(SubView!vars)
  BY NextInView DEF ServiceIInv
<1> QED BY <1>1, <1>2, ServiceInvariance, PTL
    DEF ServiceSpec, KeepsToSubscriptions, SubView!Spec

\* A row that is gone is on no later list, and a mail goes to those on a list.
LEMMA GoodbyeStep ==
    ASSUME Kept, [ServiceNext]_serviceVars,
           NEW r \in Clients, requests[r].reply = "unsubscribed",
           requests[r].id \notin unsent, ~UNCHANGED serviceVars
    PROVE  requests[r].id \notin unsent' /\ requests[r].id \notin Mailed
<1>1. CASE ScanStep
  <2>1. \A rp \in Repos : requests[r].id \notin Confirmed(rp)
    BY DEF Kept, View!IInv, View!UnsubscribedIsGone, Confirmed, GetConfirmedSubscriptionsByRepoID
  <2> QED BY <1>1, <2>1, ScanShape DEF Kept
<1>2. ASSUME NEW q \in Clients, RequestStep(q) PROVE UNCHANGED <<unsent, copies>>
  BY <1>2 DEF RequestStep, scan, history
<1>3. ASSUME ProcessCrash PROVE unsent' = {} /\ UNCHANGED copies
  BY <1>3 DEF ProcessCrash, Crash, CycleEnds
<1> QED BY <1>1, <1>2, <1>3 DEF ServiceNext, Mailed

\* Whoever was told goodbye is mailed by no later round.
THEOREM GoodbyesAreFinal == ServiceSpec => GoodbyeIsFinal
<1>1. ServiceIInv /\ [ServiceNext]_serviceVars =>
          [\A r \in Clients : LET i == requests[r].id IN
              requests[r].reply = "unsubscribed" /\ i \notin unsent =>
                  i \notin unsent' /\ i \notin Mailed]_serviceVars
  BY GoodbyeStep, KeptIsInvariant
<1> QED BY <1>1, ServiceInvariance, PTL DEF ServiceSpec, GoodbyeIsFinal
=============================================================================
