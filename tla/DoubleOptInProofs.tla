------------------------- MODULE DoubleOptInProofs -------------------------
(* Subscriptions implements DoubleOptIn, for every value of the constants.  *)
EXTENDS SubscriptionsProofs

-----------------------------------------------------------------------------
(* The entries that a table of subscriptions stands for. *)

Pairs == Emails \X Repos
Nobody == [id |-> 0, active |-> FALSE]
PairOf(s) == <<s.email, s.repo>>
EntryOf(s) == [id |-> s.id, active |-> s.confirmed]

\* Rows S that keep UNIQUE(email, repository_id).
Table(S) ==
    /\ S \subseteq SubscriptionRow
    /\ \A s, t \in S : s.email = t.email /\ s.repo = t.repo => s = t

RowsAt(S, p) == {s \in S : s.email = p[1] /\ s.repo = p[2]}

Book(S) ==
    [p \in Pairs |->
        IF RowsAt(S, p) = {} THEN Nobody
        ELSE EntryOf(CHOOSE s \in RowsAt(S, p) : TRUE)]

\* Entries is the book of the table, before a step and after it.
LEMMA EntriesAreBook ==
    Entries = Book(subscriptions) /\ Entries' = Book(subscriptions')
<1>1. ASSUME NEW S, NEW p \in Pairs
      PROVE  RowsAt(S, <<p[1], p[2]>>) = RowsAt(S, p)
  BY DEF RowsAt
<1>2. Entries = Book(subscriptions)
  BY DEF Entries, Entry, GetSubscriptionByEmailAndRepo, Book, RowsAt, EntryOf, Nobody, Pairs
<1>3. Entries' = Book(subscriptions')
  BY DEF Entries, Entry, GetSubscriptionByEmailAndRepo, Book, RowsAt, EntryOf, Nobody, Pairs
<1> QED BY <1>2, <1>3

\* A pair without a row has no entry.
LEMMA FreePair ==
    ASSUME NEW S, NEW p \in Pairs, \A s \in S : PairOf(s) # p, Table(S)
    PROVE  Book(S)[p] = Nobody
<1>1. RowsAt(S, p) = {}
  BY DEF RowsAt, PairOf, Pairs
<1> QED BY <1>1 DEF Book

\* A row is the entry of its pair.
LEMMA TakenPair ==
    ASSUME NEW S, Table(S), NEW s \in S
    PROVE  /\ PairOf(s) \in Pairs
           /\ Book(S)[PairOf(s)] = EntryOf(s)
<1> DEFINE p == PairOf(s)
<1>1. p \in Pairs /\ p[1] = s.email /\ p[2] = s.repo
  BY DEF PairOf, Pairs, Table, SubscriptionRow
<1>2. RowsAt(S, p) = {s}
  BY <1>1 DEF RowsAt, Table
<1>3. (CHOOSE t \in RowsAt(S, p) : TRUE) = s
  BY <1>2
<1>4. Book(S)[p] = IF RowsAt(S, p) = {} THEN Nobody ELSE EntryOf(CHOOSE t \in RowsAt(S, p) : TRUE)
  BY <1>1 DEF Book
<1>5. RowsAt(S, p) # {}
  BY <1>2
<1> HIDE DEF p
<1>6. Book(S)[p] = EntryOf(s)
  BY <1>3, <1>4, <1>5
<1> QED BY <1>1, <1>6 DEF p

\* Pairs with the same rows have the same entry.
LEMMA SamePair ==
    ASSUME NEW S, NEW T, NEW p \in Pairs, RowsAt(S, p) = RowsAt(T, p)
    PROVE  Book(S)[p] = Book(T)[p]
BY DEF Book

\* The tables differ in the rows of p only, and T has the row s there.
LEMMA BookChanges ==
    ASSUME NEW S, NEW T, Table(T), NEW s \in T,
           \A q \in Pairs \ {PairOf(s)} : RowsAt(S, q) = RowsAt(T, q)
    PROVE  Book(T) = [Book(S) EXCEPT ![PairOf(s)] = EntryOf(s)]
<1>1. PairOf(s) \in Pairs /\ Book(T)[PairOf(s)] = EntryOf(s)
  BY TakenPair
<1>2. \A q \in Pairs \ {PairOf(s)} : Book(T)[q] = Book(S)[q]
  BY SamePair
<1>3. Book(T) = [q \in Pairs |-> Book(T)[q]] /\ Book(S) = [q \in Pairs |-> Book(S)[q]]
  BY DEF Book
<1>4. DOMAIN Book(S) = Pairs
  BY DEF Book
<1> QED BY <1>1, <1>2, <1>3, <1>4

\* The same when T has no row there.
LEMMA BookLoses ==
    ASSUME NEW S, NEW T, Table(T), NEW p \in Pairs,
           \A s \in T : PairOf(s) # p,
           \A q \in Pairs \ {p} : RowsAt(S, q) = RowsAt(T, q)
    PROVE  Book(T) = [Book(S) EXCEPT ![p] = Nobody]
<1>1. Book(T)[p] = Nobody
  BY FreePair
<1>2. \A q \in Pairs \ {p} : Book(T)[q] = Book(S)[q]
  BY SamePair
<1>3. Book(T) = [q \in Pairs |-> Book(T)[q]] /\ Book(S) = [q \in Pairs |-> Book(S)[q]]
  BY DEF Book
<1>4. DOMAIN Book(S) = Pairs
  BY DEF Book
<1> QED BY <1>1, <1>2, <1>3, <1>4

\* The invariant keeps the table one, in this state and the next.
LEMMA TablesAreKept ==
    ASSUME IInv, IInv' PROVE Table(subscriptions) /\ Table(subscriptions')
BY DEF IInv, TypeOK, StoreTypeOK, OneRowPerSubscriber, Table

-----------------------------------------------------------------------------
(* The Subscribes that may still withdraw their row. *)

InsertedAt == {"sendConfirmation", "rollback"}

\* A request neither begins nor stops registering.
LEMMA OpenStays ==
    ASSUME NEW r \in Requests, NEW w, Becomes(r, w),
           w.at \in InsertedAt <=> requests[r].at \in InsertedAt,
           Registering(r) => w.id = requests[r].id
    PROVE  OpenIds' = OpenIds
<1>1. \A q \in Requests : requests'[q].at \in InsertedAt <=> requests[q].at \in InsertedAt
  BY DEF Becomes
<1>2. \A q \in Requests : requests[q].at \in InsertedAt => requests'[q].id = requests[q].id
  BY DEF Becomes, Registering, InsertedAt
<1>3. OpenIds = {requests[q].id : q \in {x \in Requests : requests[x].at \in InsertedAt}}
  BY DEF OpenIds, Registering, InsertedAt
<1>4. OpenIds' = {requests'[q].id : q \in {x \in Requests : requests'[x].at \in InsertedAt}}
  BY DEF OpenIds, Registering, InsertedAt
<1> QED BY <1>1, <1>2, <1>3, <1>4

\* The INSERT begins it.
LEMMA OpenBegins ==
    ASSUME NEW r \in Requests, NEW w, Becomes(r, w),
           w.at \in InsertedAt, ~Registering(r)
    PROVE  OpenIds' = OpenIds \cup {w.id}
<1>1. \A q \in Requests \ {r} : requests'[q] = requests[q]
  BY DEF Becomes
<1>2. requests'[r] = w /\ requests[r].at \notin InsertedAt
  BY DEF Becomes, Registering, InsertedAt
<1>3. OpenIds = {requests[q].id : q \in {x \in Requests : requests[x].at \in InsertedAt}}
  BY DEF OpenIds, Registering, InsertedAt
<1>4. OpenIds' = {requests'[q].id : q \in {x \in Requests : requests'[x].at \in InsertedAt}}
  BY DEF OpenIds, Registering, InsertedAt
<1> QED BY <1>1, <1>2, <1>3, <1>4

\* The answer ends it: no other Subscribe has the same id.
LEMMA OpenEnds ==
    ASSUME IInv, NEW r \in Requests, NEW w, Becomes(r, w),
           w.at \notin InsertedAt, Registering(r)
    PROVE  OpenIds' = OpenIds \ {requests[r].id}
<1>1. \A q \in Requests \ {r} : requests'[q] = requests[q]
  BY DEF Becomes
<1>2. requests'[r] = w /\ requests[r].at \in InsertedAt
  BY DEF Becomes, Registering, InsertedAt
<1>3. OpenIds = {requests[q].id : q \in {x \in Requests : requests[x].at \in InsertedAt}}
  BY DEF OpenIds, Registering, InsertedAt
<1>4. OpenIds' = {requests'[q].id : q \in {x \in Requests : requests'[x].at \in InsertedAt}}
  BY DEF OpenIds, Registering, InsertedAt
<1>5. \A q \in Requests \ {r} : requests[q].at \in InsertedAt => requests[q].id # requests[r].id
  BY <1>2 DEF IInv, OwnersDiffer, Owns, Registering, InsertedAt
<1> QED BY <1>1, <1>2, <1>3, <1>4, <1>5

-----------------------------------------------------------------------------
(* Steps that DoubleOptIn does not see, and the closing of Subscribes. *)

Unseen == UNCHANGED <<Entries, serial, OpenIds, InvitedIds, listed>>

LEMMA UnseenIsStutter == ASSUME Unseen PROVE UNCHANGED Promise!vars
BY DEF Unseen, Promise!vars

LEMMA SameEntries == ASSUME subscriptions' = subscriptions PROVE Entries' = Entries
BY EntriesAreBook

LEMMA SameInvited ==
    ASSUME serial' = serial, inbox' = inbox PROVE InvitedIds' = InvitedIds
BY DEF InvitedIds, Invited

\* A request changes and nothing else: it has no row before and after, or it
\* keeps it.
LEMMA RequestUnseen ==
    ASSUME NEW r \in Requests, NEW w, Becomes(r, w),
           w.at \in InsertedAt <=> requests[r].at \in InsertedAt,
           Registering(r) => w.id = requests[r].id,
           UNCHANGED <<subscriptions, serial, listed, inbox>>
    PROVE  Unseen
BY OpenStays, SameEntries, SameInvited DEF Unseen

\* Every way to answer, refuse or receive a request leaves it without a row.
LEMMA WithoutRow ==
    ASSUME TypeOK, NEW r \in Requests, ~Registering(r),
           UNCHANGED <<subscriptions, serial, listed, inbox>>
    PROVE  /\ \A x \in Replies : Return(r, x) \/ Refuse(r, x) => Unseen
           /\ \A c \in Calls \ InsertedAt :
                 Goto(r, c) \/ (\E i \in Nat : GotoWith(r, c, i)) => Unseen
           /\ \A c \in Calls \ InsertedAt, e \in Emails \cup {None},
                 rp \in Repos \cup {None}, t \in Tokens \cup {None} :
                 Arrive(r, c, e, rp, t) => Unseen
<1> USE DEF TypeOK, Request
<1>0. requests[r].at \notin InsertedAt /\ requests[r] \in Request
  BY DEF Registering, InsertedAt
<1>1. ASSUME NEW x \in Replies, Return(r, x) PROVE Unseen
  <2> DEFINE w == [FreshRequest EXCEPT !.id = requests[r].id, !.reply = x]
  <2>1. Becomes(r, w)
    BY <1>1, RequestChanges
  <2>2. w.at \notin InsertedAt
    BY DEF FreshRequest, InsertedAt
  <2> HIDE DEF w
  <2> QED BY <1>0, <2>1, <2>2, RequestUnseen DEF Registering, InsertedAt
<1>2. ASSUME NEW x \in Replies, Refuse(r, x) PROVE Unseen
  <2> DEFINE w == [FreshRequest EXCEPT !.reply = x]
  <2>1. Becomes(r, w)
    BY <1>2, RequestChanges
  <2>2. w.at \notin InsertedAt
    BY DEF FreshRequest, InsertedAt
  <2> HIDE DEF w
  <2> QED BY <1>0, <2>1, <2>2, RequestUnseen DEF Registering, InsertedAt
<1>3. ASSUME NEW c \in Calls \ InsertedAt, Goto(r, c) PROVE Unseen
  <2> DEFINE w == [requests[r] EXCEPT !.at = c]
  <2>1. Becomes(r, w)
    BY <1>3, RequestChanges
  <2>2. w.at \notin InsertedAt
    BY <1>0, <1>3
  <2> HIDE DEF w
  <2> QED BY <1>0, <2>1, <2>2, RequestUnseen DEF Registering, InsertedAt
<1>4. ASSUME NEW c \in Calls \ InsertedAt, NEW i \in Nat, GotoWith(r, c, i) PROVE Unseen
  <2> DEFINE w == [requests[r] EXCEPT !.at = c, !.id = i]
  <2>1. Becomes(r, w)
    BY <1>4, RequestChanges
  <2>2. w.at \notin InsertedAt
    BY <1>0, <1>4
  <2> HIDE DEF w
  <2> QED BY <1>0, <2>1, <2>2, RequestUnseen DEF Registering, InsertedAt
<1>5. ASSUME NEW c \in Calls \ InsertedAt, NEW e \in Emails \cup {None},
             NEW rp \in Repos \cup {None}, NEW t \in Tokens \cup {None},
             Arrive(r, c, e, rp, t)
      PROVE  Unseen
  <2> DEFINE w == [FreshRequest EXCEPT !.at = c, !.email = e, !.repo = rp, !.token = t]
  <2>1. Becomes(r, w)
    BY <1>5, RequestChanges
  <2>2. w.at \notin InsertedAt
    BY <1>5 DEF FreshRequest
  <2> HIDE DEF w
  <2> QED BY <1>0, <2>1, <2>2, RequestUnseen DEF Registering, InsertedAt
<1> QED BY <1>1, <1>2, <1>3, <1>4, <1>5

\* The answer to a request without a row is none of DoubleOptIn's.
LEMMA AnswerKeepsOpen ==
    ASSUME TypeOK, NEW r \in Requests, ~Registering(r), \E x \in Replies : Return(r, x)
    PROVE  OpenIds' = OpenIds
<1>1. PICK x \in Replies : Return(r, x)
  OBVIOUS
<1> DEFINE w == [FreshRequest EXCEPT !.id = requests[r].id, !.reply = x]
<1>2. Becomes(r, w)
  BY <1>1, RequestChanges DEF TypeOK
<1>3. w.at \notin InsertedAt
  BY DEF FreshRequest, InsertedAt
<1> HIDE DEF w
<1> QED BY <1>2, <1>3, OpenStays DEF Registering, InsertedAt

\* What a step of the service must be for DoubleOptIn.
Promised == [Promise!Next]_(Promise!vars)

LEMMA UnseenIsPromised == ASSUME Unseen PROVE Promised
BY UnseenIsStutter DEF Promised

\* Subscribes are answered or lost, nothing else happens.
LEMMA ClosePromised ==
    ASSUME OpenIds' \subseteq OpenIds,
           UNCHANGED <<subscriptions, serial, listed, inbox>>
    PROVE  Promised
<1>1. Entries' = Entries /\ InvitedIds' = InvitedIds
  BY SameEntries, SameInvited
<1> QED BY <1>1 DEF Promised, Promise!Next, Promise!Close

-----------------------------------------------------------------------------
(* The steps, one by one. *)

LEMMA ArrivalPromised ==
    ASSUME TypeOK, NEW r \in Requests, Arrival(r) PROVE Promised
<1>1. ~Registering(r) /\ UNCHANGED <<subscriptions, serial, listed, inbox>>
  BY DEF Arrival, SubscribeArrives, ConfirmArrives, UnsubscribeArrives, Running,
         Registering, store
<1>2. CASE SubscribeArrives(r)
  BY <1>1, <1>2, WithoutRow, UnseenIsPromised
  DEF SubscribeArrives, Calls, SubscribeCalls, BeforeInsert, Replies, InsertedAt
<1>3. None \in Emails \cup {None} /\ None \in Repos \cup {None} /\ None \in Tokens \cup {None}
  OBVIOUS
<1>4. \A t \in Links : t \in Tokens \cup {None}
  BY DEF Links, TypeOK
<1>5. CASE ConfirmArrives(r) \/ UnsubscribeArrives(r)
  BY <1>1, <1>3, <1>4, <1>5, WithoutRow, UnseenIsPromised
  DEF ConfirmArrives, UnsubscribeArrives, Calls, Replies, InsertedAt
<1> QED BY <1>2, <1>5 DEF Arrival

LEMMA BeforeInsertPromised ==
    ASSUME TypeOK, NEW r \in Requests,
           SubscribeChecksRepo(r) \/ SubscribeCreatesRepo(r) \/ SubscribeLooksUp(r)
    PROVE  Promised
<1>1. ~Registering(r) /\ UNCHANGED <<subscriptions, serial, listed, inbox>>
  BY DEF SubscribeChecksRepo, SubscribeCreatesRepo, SubscribeLooksUp,
         CreateRepository, Registering, store
<1>2. \/ \E x \in Replies : Return(r, x)
      \/ \E c \in Calls \ InsertedAt : Goto(r, c)
  BY DEF SubscribeChecksRepo, SubscribeCreatesRepo, SubscribeLooksUp,
         Calls, SubscribeCalls, BeforeInsert, Replies, InsertedAt
<1> QED BY <1>1, <1>2, WithoutRow, UnseenIsPromised

LEMMA LookupPromised ==
    ASSUME TypeOK, NEW r \in Requests, ConfirmLooksUp(r) \/ UnsubscribeLooksUp(r)
    PROVE  Promised
<1>1. ~Registering(r) /\ UNCHANGED <<subscriptions, serial, listed, inbox>>
  BY DEF ConfirmLooksUp, UnsubscribeLooksUp, Registering, store
<1>2. \A s \in subscriptions : s.id \in Nat
  BY DEF TypeOK, StoreTypeOK, SubscriptionRow
<1>3. \/ \E x \in Replies : Return(r, x)
      \/ \E c \in Calls \ InsertedAt, i \in Nat : GotoWith(r, c, i)
  BY <1>2 DEF ConfirmLooksUp, UnsubscribeLooksUp, Found, Calls, Replies, InsertedAt,
         GetSubscriptionByConfirmToken, GetSubscriptionByUnsubscribeToken
<1> QED BY <1>1, <1>3, WithoutRow, UnseenIsPromised

LEMMA ClientGonePromised ==
    ASSUME TypeOK, NEW r \in Requests, ClientGone(r) PROVE Promised
<1> DEFINE w == [requests[r] EXCEPT !.ctx = "done"]
<1>1. requests[r] \in Request
  BY DEF TypeOK
<1>2. w \in Request /\ w.at = requests[r].at /\ w.id = requests[r].id
  BY <1>1 DEF Request
<1>3. requests' = [requests EXCEPT ![r] = w]
  BY DEF ClientGone
<1> HIDE DEF w
<1>4. Becomes(r, w)
  BY <1>2, <1>3 DEF Becomes, TypeOK
<1>5. UNCHANGED <<subscriptions, serial, listed, inbox>>
  BY DEF ClientGone, store
<1> QED BY <1>2, <1>4, <1>5, RequestUnseen, UnseenIsPromised

LEMMA CrashPromised == ASSUME Crash PROVE Promised
<1>1. OpenIds' = {}
  BY DEF Crash, OpenIds, Registering, FreshRequest
<1>2. UNCHANGED <<subscriptions, serial, listed, inbox>>
  BY DEF Crash, store
<1> QED BY <1>1, <1>2, ClosePromised

LEMMA NotifierListsPromised ==
    ASSUME IInv, IInv', NotifierLists PROVE Promised
<1>1. UNCHANGED <<subscriptions, requests, serial, inbox>>
  BY DEF NotifierLists, store
<1>2. Entries' = Entries /\ InvitedIds' = InvitedIds /\ OpenIds' = OpenIds
  BY <1>1, SameEntries, SameInvited DEF OpenIds, Registering
<1>3. PICK rp \in Repos :
          listed' = listed \cup {s.id : s \in GetConfirmedSubscriptionsByRepoID(rp)}
  BY DEF NotifierLists
<1> DEFINE L == GetConfirmedSubscriptionsByRepoID(rp)
           P == {PairOf(s) : s \in L}
<1>4. \A s \in L : /\ PairOf(s) \in Pairs
                   /\ Entries[PairOf(s)] = EntryOf(s)
                   /\ s.confirmed = TRUE
  <2>1. L \subseteq subscriptions /\ \A s \in L : s.confirmed
    BY DEF GetConfirmedSubscriptionsByRepoID
  <2>2. \A s \in L : s.confirmed \in BOOLEAN
    BY <2>1 DEF IInv, TypeOK, StoreTypeOK, SubscriptionRow
  <2> HIDE DEF L
  <2> QED BY <2>1, <2>2, TablesAreKept, TakenPair, EntriesAreBook
<1>5. \A s \in L : Entries[PairOf(s)].active = TRUE /\ Entries[PairOf(s)].id = s.id
  <2> SUFFICES ASSUME NEW s \in L
               PROVE  Entries[PairOf(s)].active = TRUE /\ Entries[PairOf(s)].id = s.id
    OBVIOUS
  <2> HIDE DEF L
  <2>1. Entries[PairOf(s)] = EntryOf(s) /\ s.confirmed = TRUE
    BY <1>4
  <2> QED BY <2>1 DEF EntryOf
<1>6. P \in SUBSET {p \in Pairs : Entries[p].active}
  <2> HIDE DEF L
  <2> QED BY <1>4, <1>5
<1>7. {Entries[p].id : p \in P} = {s.id : s \in L}
  <2> HIDE DEF L
  <2> QED BY <1>5
<1>8. \E Q \in SUBSET {p \in Pairs : Entries[p].active} :
          listed' = listed \cup {Entries[p].id : p \in Q}
  <2> HIDE DEF P
  <2> QED BY <1>3, <1>6, <1>7
<1>9. Promise!Tell
  BY <1>1, <1>2, <1>8 DEF Promise!Tell, Promise!Pairs, Pairs
<1> QED BY <1>9 DEF Promised, Promise!Next

LEMMA NotifierMailsPromised == ASSUME NotifierMails PROVE Promised
<1>1. UNCHANGED <<subscriptions, requests, serial, listed>>
  BY DEF NotifierMails, store
<1>2. \A i : Invited(i)' <=> Invited(i)
  BY DEF NotifierMails, Invited, ConfirmToken, UnsubscribeToken
<1>3. InvitedIds' = InvitedIds
  BY <1>1, <1>2 DEF InvitedIds
<1>4. OpenIds' = OpenIds
  BY <1>1 DEF OpenIds, Registering
<1> QED BY <1>1, <1>3, <1>4, SameEntries, UnseenIsPromised DEF Unseen

\* The INSERT registers the pair, and the Subscribe may be answered with an
\* error at once; a rejected INSERT only draws an id.
LEMMA InsertPromised ==
    ASSUME IInv, IInv', NEW r \in Requests, SubscribeInserts(r) PROVE Promised
<1> DEFINE i == serial + 1
           e == requests[r].email
           rp == requests[r].repo
<1>1. TypeOK /\ serial \in Nat /\ i \in Nat \ {0} /\ ~Registering(r) /\ requests[r] \in Request
  BY DEF IInv, TypeOK, SubscribeInserts, Registering
<1>2. e \in Emails /\ rp \in Repos
  BY DEF IInv, ArgumentsOK, SubscribeInserts, SubscribeCalls, BeforeInsert
<1>3. UNCHANGED <<listed, inbox>>
  BY DEF SubscribeInserts
<1>4. ~Invited(i)
  <2>1. \A t \in inbox : t[2] <= serial
    BY DEF IInv, IdsAreIssued
  <2> QED BY <1>1, <2>1 DEF Invited, ConfirmToken
<1>5. serial' = i => InvitedIds' = InvitedIds
  <2>1. 1..i = (1..serial) \cup {i}
    BY <1>1
  <2>2. ASSUME serial' = i PROVE InvitedIds' = {j \in 1..i : Invited(j)}
    BY <2>2, <1>3 DEF InvitedIds, Invited
  <2> HIDE DEF i
  <2> QED BY <2>1, <2>2, <1>4 DEF InvitedIds
<1>6. ASSUME NEW x \in Replies, Return(r, x) PROVE OpenIds' = OpenIds
  BY <1>1, <1>6, AnswerKeepsOpen
<1>7. ASSUME GotoWith(r, "sendConfirmation", i) PROVE OpenIds' = OpenIds \cup {i}
  <2> DEFINE w == [requests[r] EXCEPT !.at = "sendConfirmation", !.id = i]
  <2>1. Becomes(r, w)
    BY <1>1, <1>7, RequestChanges DEF TypeOK, Calls, SubscribeCalls
  <2>2. w.at \in InsertedAt /\ w.id = i
    BY <1>1 DEF Request, InsertedAt
  <2> HIDE DEF w, i
  <2> QED BY <1>1, <2>1, <2>2, OpenBegins
<1>8. CASE CreateSubscription(i, e, rp) /\ serial' = i
           /\ (GotoWith(r, "sendConfirmation", i) \/ Return(r, "error"))
  <2> DEFINE s == [id |-> i, email |-> e, repo |-> rp, confirmed |-> FALSE]
             p == <<e, rp>>
  <2>1. PairOf(s) = p /\ EntryOf(s) = [id |-> i, active |-> FALSE] /\ p \in Pairs
    BY <1>2 DEF PairOf, EntryOf, Pairs
  <2>2. s \in subscriptions' /\ subscriptions' = subscriptions \cup {s}
    BY <1>8 DEF CreateSubscription
  <2>3. \A t \in subscriptions : PairOf(t) # p
    BY <1>8 DEF CreateSubscription, Admits, PairIsFree, GetSubscriptionByEmailAndRepo, PairOf
  <2>4. s.email = e /\ s.repo = rp
    OBVIOUS
  <2>5. \A q \in Pairs \ {p} : RowsAt(subscriptions, q) = RowsAt(subscriptions', q)
    <3> SUFFICES ASSUME NEW q \in Pairs \ {p}
                 PROVE  ~(s.email = q[1] /\ s.repo = q[2])
      BY <2>2 DEF RowsAt
    <3> QED BY <2>4 DEF Pairs
  <2> HIDE DEF s, p, i
  <2>6. Entries' = [Entries EXCEPT ![p] = [id |-> i, active |-> FALSE]]
    <3>1. Book(subscriptions') = [Book(subscriptions) EXCEPT ![PairOf(s)] = EntryOf(s)]
      BY <2>1, <2>2, <2>5, BookChanges, TablesAreKept
    <3> QED BY <2>1, <3>1, EntriesAreBook
  <2>7. Entries[p] = Nobody
    BY <2>1, <2>3, FreePair, EntriesAreBook, TablesAreKept
  <2>8. OpenIds' \in {OpenIds, OpenIds \cup {i}}
    BY <1>6, <1>7, <1>8 DEF Replies
  <2>9. Promise!Register(p)
    BY <1>3, <1>5, <1>8, <2>6, <2>7, <2>8 DEF Promise!Register, Promise!Nobody, Nobody, i
  <2> QED BY <2>1, <2>9 DEF Promised, Promise!Next, Promise!Pairs, Pairs
<1>9. CASE serial' = i /\ Return(r, "error") /\ UNCHANGED store
  <2>1. Entries' = Entries /\ OpenIds' = OpenIds
    BY <1>6, <1>9, SameEntries DEF store, Replies
  <2>2. Promise!Draw
    BY <1>3, <1>5, <1>9, <2>1 DEF Promise!Draw
  <2> QED BY <2>2 DEF Promised, Promise!Next
<1>10. CASE Return(r, "error") /\ UNCHANGED <<store, serial>>
  BY <1>1, <1>3, <1>10, WithoutRow, UnseenIsPromised DEF store, Replies
<1> QED BY <1>8, <1>9, <1>10 DEF SubscribeInserts

\* A delivered mail invites, and its Subscribe is answered or goes on to its
\* rollback; without a delivery there is only the rollback ahead.
LEMMA MailPromised ==
    ASSUME IInv, IInv', NEW r \in Requests, SubscribeMails(r) PROVE Promised
<1> DEFINE i == requests[r].id
<1>1. TypeOK /\ requests[r] \in Request /\ Registering(r) /\ requests[r].at \in InsertedAt
  BY DEF IInv, TypeOK, SubscribeMails, Registering, InsertedAt
<1>2. UNCHANGED <<subscriptions, serial, listed>>
  BY DEF SubscribeMails, store
<1>3. ASSUME Goto(r, "rollback") PROVE OpenIds' = OpenIds
  <2> DEFINE w == [requests[r] EXCEPT !.at = "rollback"]
  <2>1. Becomes(r, w)
    BY <1>1, <1>3, RequestChanges DEF TypeOK, Calls, SubscribeCalls
  <2>2. w.at \in InsertedAt /\ w.id = requests[r].id
    BY <1>1 DEF Request, InsertedAt
  <2> HIDE DEF w
  <2> QED BY <1>1, <2>1, <2>2, OpenStays
<1>4. ASSUME Return(r, "subscribed") PROVE OpenIds' = OpenIds \ {i}
  <2> DEFINE w == [FreshRequest EXCEPT !.id = requests[r].id, !.reply = "subscribed"]
  <2>1. Becomes(r, w)
    BY <1>1, <1>4, RequestChanges DEF TypeOK, Replies
  <2>2. w.at \notin InsertedAt
    BY DEF FreshRequest, InsertedAt
  <2> HIDE DEF w
  <2> QED BY <1>1, <2>1, <2>2, OpenEnds
<1>5. CASE MailDelivered(r) /\ OpenIds' \in {OpenIds, OpenIds \ {i}}
  <2>1. PICK s \in subscriptions : s.id = i
    BY DEF IInv, AwaitsMail, SubscribeMails
  <2>2. ~s.confirmed /\ i \in 1..serial
    <3>1. ~Invited(i)
      BY DEF IInv, AwaitsMail, SubscribeMails
    <3>2. i \in Nat \ {0} /\ serial \in Nat
      BY <2>1 DEF IInv, TypeOK, StoreTypeOK, SubscriptionRow
    <3>3. i <= serial
      BY <2>1 DEF IInv, IdsAreIssued
    <3>4. s.confirmed => Invited(s.id)
      BY DEF IInv, OptIn
    <3> QED BY <2>1, <3>1, <3>2, <3>3, <3>4
  <2>3. InvitedIds' = InvitedIds \cup {i}
    <3>1. \A j : Invited(j)' <=> Invited(j) \/ j = i
      BY <1>5 DEF MailDelivered, Invited, ConfirmToken
    <3> HIDE DEF i
    <3> QED BY <1>2, <2>2, <3>1 DEF InvitedIds
  <2> DEFINE p == PairOf(s)
  <2>4. p \in Pairs /\ Entries[p] = EntryOf(s)
    BY TakenPair, EntriesAreBook, TablesAreKept
  <2>5. Entries[p].id = i /\ ~Entries[p].active
    BY <2>1, <2>2, <2>4 DEF EntryOf
  <2>6. i \in OpenIds
    BY <1>1 DEF OpenIds
  <2> HIDE DEF p, i
  <2>7. Promise!Invite(p)
    BY <1>2, <1>5, <2>3, <2>5, <2>6, SameEntries DEF Promise!Invite
  <2> QED BY <2>4, <2>7 DEF Promised, Promise!Next, Promise!Pairs, Pairs
<1>6. CASE Goto(r, "rollback") /\ UNCHANGED inbox
  BY <1>2, <1>3, <1>6, SameEntries, SameInvited, UnseenIsPromised DEF Unseen
<1> QED BY <1>3, <1>4, <1>5, <1>6 DEF SubscribeMails, MailSent, MailFails

\* A DELETE or UPDATE by an id that no row has leaves the table alone.
LEMMA NoSuchRow ==
    ASSUME NEW i, \A s \in subscriptions : s.id # i
    PROVE  DeleteSubscription(i) \/ ConfirmSubscription(i) => subscriptions' = subscriptions
<1>1. DeleteSubscription(i) => subscriptions' = subscriptions
  BY DEF DeleteSubscription
<1>2. {IF s.id = i THEN [s EXCEPT !.confirmed = TRUE] ELSE s : s \in subscriptions}
        = subscriptions
  OBVIOUS
<1> QED BY <1>1, <1>2 DEF ConfirmSubscription

\* The DELETE of a row clears its pair and no other.
LEMMA DeleteClears ==
    ASSUME IInv, IInv', NEW s \in subscriptions, DeleteSubscription(s.id)
    PROVE  /\ PairOf(s) \in Pairs
           /\ Entries[PairOf(s)] = EntryOf(s)
           /\ Entries' = [Entries EXCEPT ![PairOf(s)] = Nobody]
<1>1. subscriptions' = subscriptions \ {s}
  BY DEF DeleteSubscription, IInv, IdsAreKeys
<1>2. PairOf(s) \in Pairs /\ Entries[PairOf(s)] = EntryOf(s)
  BY TakenPair, EntriesAreBook, TablesAreKept
<1>3. \A t \in subscriptions' : PairOf(t) # PairOf(s)
  BY <1>1 DEF PairOf, IInv, OneRowPerSubscriber
<1>4. \A q \in Pairs \ {PairOf(s)} : RowsAt(subscriptions, q) = RowsAt(subscriptions', q)
  BY <1>1 DEF RowsAt, PairOf, Pairs
<1>5. Book(subscriptions') = [Book(subscriptions) EXCEPT ![PairOf(s)] = Nobody]
  BY <1>2, <1>3, <1>4, BookLoses, TablesAreKept
<1> QED BY <1>2, <1>5, EntriesAreBook

\* The UPDATE of a row activates the entry of its pair and no other.
LEMMA UpdateActivates ==
    ASSUME IInv, IInv', NEW s \in subscriptions, ConfirmSubscription(s.id)
    PROVE  /\ PairOf(s) \in Pairs
           /\ Entries[PairOf(s)] = EntryOf(s)
           /\ Entries' = [Entries EXCEPT ![PairOf(s)].active = TRUE]
<1> DEFINE u == [s EXCEPT !.confirmed = TRUE]
<1>1. subscriptions' = (subscriptions \ {s}) \cup {u}
  BY DEF ConfirmSubscription, IInv, IdsAreKeys
<1>2. PairOf(s) \in Pairs /\ Entries[PairOf(s)] = EntryOf(s)
  BY TakenPair, EntriesAreBook, TablesAreKept
<1>3. s \in SubscriptionRow
  BY DEF IInv, TypeOK, StoreTypeOK
<1>4. /\ PairOf(u) = PairOf(s)
      /\ u.email = s.email /\ u.repo = s.repo
      /\ EntryOf(u) = [id |-> s.id, active |-> TRUE]
  BY <1>3 DEF PairOf, EntryOf, SubscriptionRow
<1> HIDE DEF u
<1>5. \A q \in Pairs \ {PairOf(s)} : RowsAt(subscriptions, q) = RowsAt(subscriptions', q)
  BY <1>1, <1>4 DEF RowsAt, PairOf, Pairs
<1>6. Book(subscriptions') = [Book(subscriptions) EXCEPT ![PairOf(u)] = EntryOf(u)]
  <2>1. u \in subscriptions' /\ Table(subscriptions')
    BY <1>1, TablesAreKept
  <2>2. \A q \in Pairs \ {PairOf(u)} : RowsAt(subscriptions, q) = RowsAt(subscriptions', q)
    BY <1>4, <1>5
  <2> QED BY <2>1, <2>2, BookChanges
<1>7. Entries' = [Entries EXCEPT ![PairOf(s)] = [id |-> s.id, active |-> TRUE]]
  BY <1>4, <1>6, EntriesAreBook
<1>8. [EntryOf(s) EXCEPT !.active = TRUE] = [id |-> s.id, active |-> TRUE]
  <2>1. EntryOf(s) \in [id : Nat, active : BOOLEAN] /\ EntryOf(s).id = s.id
    BY <1>3 DEF EntryOf, SubscriptionRow
  <2> DEFINE e == EntryOf(s)
             w == [e EXCEPT !.active = TRUE]
  <2> HIDE DEF e
  <2>2. w \in [id : Nat, active : BOOLEAN] /\ w.id = e.id /\ w.active = TRUE
    BY <2>1 DEF e
  <2> HIDE DEF w
  <2>3. w = [id |-> w.id, active |-> w.active]
    BY <2>2
  <2> QED BY <2>1, <2>2, <2>3 DEF w, e
<1> QED BY <1>2, <1>7, <1>8

\* A rollback withdraws the row, if its owner or another fault left it there.
LEMMA RollbackPromised ==
    ASSUME IInv, IInv', NEW r \in Requests, SubscribeRollsBack(r) PROVE Promised
<1> DEFINE i == requests[r].id
           w == [FreshRequest EXCEPT !.id = requests[r].id, !.reply = "error"]
<1>1. requests \in [Requests -> Request] /\ Registering(r) /\ requests[r].at \in InsertedAt
  BY DEF IInv, TypeOK, SubscribeRollsBack, Registering, InsertedAt
<1>2. UNCHANGED <<serial, listed, inbox>>
  BY DEF SubscribeRollsBack
<1>3. OpenIds' = OpenIds \ {i}
  <2>1. Becomes(r, w)
    BY <1>1, RequestChanges DEF SubscribeRollsBack, Replies
  <2>2. w.at \notin InsertedAt
    BY DEF FreshRequest, InsertedAt
  <2> HIDE DEF w
  <2> QED BY <1>1, <2>1, <2>2, OpenEnds
<1>4. CASE UNCHANGED subscriptions
  BY <1>2, <1>3, <1>4, ClosePromised
<1>5. ASSUME DeleteSubscription(i), NEW s \in subscriptions, s.id = i PROVE Promised
  <2> DEFINE p == PairOf(s)
  <2>1. /\ p \in Pairs
        /\ Entries[p] = EntryOf(s)
        /\ Entries' = [Entries EXCEPT ![p] = Nobody]
    BY <1>5, DeleteClears
  <2>2. i \in OpenIds
    BY <1>1 DEF OpenIds
  <2>3. Entries[p].id = i
    BY <1>5, <2>1 DEF EntryOf
  <2> HIDE DEF p, i
  <2>4. Promise!Withdraw(p)
    BY <1>2, <1>3, <2>1, <2>2, <2>3, SameInvited DEF Promise!Withdraw, Promise!Nobody, Nobody
  <2> QED BY <2>1, <2>4 DEF Promised, Promise!Next, Promise!Pairs, Pairs
<1> QED BY <1>4, <1>5, NoSuchRow DEF SubscribeRollsBack, store

\* A Confirm activates the row it looked up, or finds nothing any more.
LEMMA ConfirmPromised ==
    ASSUME IInv, IInv', NEW r \in Requests, ConfirmUpdates(r) PROVE Promised
<1> DEFINE i == requests[r].id
<1>1. TypeOK /\ ~Registering(r) /\ UNCHANGED <<serial, listed, inbox>>
  BY DEF IInv, ConfirmUpdates, Registering
<1>2. \E x \in Replies : Return(r, x)
  BY DEF ConfirmUpdates, Replies
<1>3. CASE UNCHANGED subscriptions
  BY <1>1, <1>2, <1>3, WithoutRow, UnseenIsPromised
<1>4. ASSUME ConfirmSubscription(i), NEW s \in subscriptions, s.id = i PROVE Promised
  <2> DEFINE p == PairOf(s)
  <2>1. /\ p \in Pairs
        /\ Entries[p] = EntryOf(s)
        /\ Entries' = [Entries EXCEPT ![p].active = TRUE]
    BY <1>4, UpdateActivates
  <2>2. i \in InvitedIds
    <3>1. Invited(i)
      BY DEF IInv, TokensAreMailed, ConfirmUpdates
    <3>2. i \in Nat \ {0} /\ serial \in Nat /\ i <= serial
      BY <1>4 DEF IInv, TypeOK, StoreTypeOK, SubscriptionRow, IdsAreIssued
    <3> QED BY <3>1, <3>2 DEF InvitedIds
  <2>3. Entries[p].id = i
    BY <1>4, <2>1 DEF EntryOf
  <2>4. OpenIds' = OpenIds
    BY <1>1, <1>2, AnswerKeepsOpen
  <2> HIDE DEF p, i
  <2>5. Promise!Activate(p)
    BY <1>1, <2>1, <2>2, <2>3, <2>4, SameInvited DEF Promise!Activate
  <2> QED BY <2>1, <2>5 DEF Promised, Promise!Next, Promise!Pairs, Pairs
<1> QED BY <1>3, <1>4, NoSuchRow DEF ConfirmUpdates, store

\* An Unsubscribe removes the row it looked up, or finds nothing any more.
LEMMA UnsubscribePromised ==
    ASSUME IInv, IInv', NEW r \in Requests, UnsubscribeDeletes(r) PROVE Promised
<1> DEFINE i == requests[r].id
<1>1. TypeOK /\ ~Registering(r) /\ UNCHANGED <<serial, listed, inbox>>
  BY DEF IInv, UnsubscribeDeletes, Registering
<1>2. \E x \in Replies : Return(r, x)
  BY DEF UnsubscribeDeletes, Replies
<1>3. CASE UNCHANGED subscriptions
  BY <1>1, <1>2, <1>3, WithoutRow, UnseenIsPromised
<1>4. ASSUME DeleteSubscription(i), NEW s \in subscriptions, s.id = i PROVE Promised
  <2> DEFINE p == PairOf(s)
  <2>1. /\ p \in Pairs
        /\ Entries[p] = EntryOf(s)
        /\ Entries' = [Entries EXCEPT ![p] = Nobody]
    BY <1>4, DeleteClears
  <2>2. i \in listed
    BY DEF IInv, TokensAreMailed, UnsubscribeDeletes, CanLeave, UnsubscribeToken
  <2>3. Entries[p].id = i
    BY <1>4, <2>1 DEF EntryOf
  <2>4. OpenIds' = OpenIds
    BY <1>1, <1>2, AnswerKeepsOpen
  <2> HIDE DEF p, i
  <2>5. Promise!Leave(p)
    BY <1>1, <2>1, <2>2, <2>3, <2>4, SameInvited DEF Promise!Leave, Promise!Nobody, Nobody
  <2> QED BY <2>1, <2>5 DEF Promised, Promise!Next, Promise!Pairs, Pairs
<1> QED BY <1>3, <1>4, NoSuchRow DEF UnsubscribeDeletes, store

-----------------------------------------------------------------------------
(* The theorem. *)

LEMMA InitPromised == Init => Promise!Init
<1> SUFFICES ASSUME Init PROVE Promise!Init
  OBVIOUS
<1>1. Entries = [p \in Pairs |-> Nobody]
  BY DEF Init, StoreInit, Entries, Entry, GetSubscriptionByEmailAndRepo, Pairs, Nobody
<1>2. OpenIds = {} /\ InvitedIds = {}
  BY DEF Init, OpenIds, InvitedIds, Registering, Invited, FreshRequest
<1> QED BY <1>1, <1>2 DEF Init, Promise!Init, Promise!Pairs, Promise!Nobody, Pairs, Nobody

LEMMA NextPromised == ASSUME IInv, IInv', [Next]_vars PROVE Promised
<1>0. TypeOK
  BY DEF IInv
<1>1. ASSUME NEW r \in Requests, Arrival(r) \/ ClientGone(r) PROVE Promised
  BY <1>0, <1>1, ArrivalPromised, ClientGonePromised
<1>2. ASSUME NEW r \in Requests, SubscribeStep(r) PROVE Promised
  BY <1>0, <1>2, BeforeInsertPromised, InsertPromised, MailPromised, RollbackPromised
  DEF SubscribeStep
<1>3. ASSUME NEW r \in Requests, TokenStep(r) PROVE Promised
  BY <1>0, <1>3, LookupPromised, ConfirmPromised, UnsubscribePromised DEF TokenStep
<1>4. CASE Crash \/ NotifierLists \/ NotifierMails
  BY <1>4, CrashPromised, NotifierListsPromised, NotifierMailsPromised
<1>5. CASE UNCHANGED vars
  <2>1. Unseen
    BY <1>5, SameEntries, SameInvited DEF vars, Unseen, OpenIds, Registering
  <2> QED BY <2>1, UnseenIsPromised
<1> QED BY <1>1, <1>2, <1>3, <1>4, <1>5 DEF Next

\* The requests, however they interleave with each other, with faults, crashes
\* and release mails, do nothing that the double opt-in contract forbids.
THEOREM ContractKept == Spec => ImplementsDoubleOptIn
<1>1. Init => Promise!Init
  BY InitPromised
<1>2. IInv /\ IInv' /\ [Next]_vars => [Promise!Next]_(Promise!vars)
  BY NextPromised DEF Promised
<1> QED BY <1>1, <1>2, Invariance, PTL DEF Spec, ImplementsDoubleOptIn, Promise!Spec
=============================================================================
