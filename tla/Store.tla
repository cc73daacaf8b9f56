------------------------------- MODULE Store -------------------------------
(***************************************************************************)
(* The PostgreSQL schema and the statements the service runs on it         *)
(* (migrations/000001_init.up.sql, adapter/outbound/postgres).  Each        *)
(* statement is one auto-committed transaction, so each operator below is  *)
(* one atomic change of the tables, or one atomic read.                    *)
(*                                                                         *)
(* A repository row is identified with its (owner, repo) name, which the   *)
(* table makes unique.  A subscription's id comes from a SERIAL column and *)
(* its two tokens from 32 random bytes each; none of the three repeats, so *)
(* a token is represented by its column and the id of the row it was       *)
(* drawn for.                                                              *)
(***************************************************************************)
EXTENDS Naturals

CONSTANTS
    Emails,     \* subscriber addresses that pass validateEmail
    Repos       \* "owner/repo" names that pass parseRepoFullName

VARIABLES
    repositories,   \* names that have a row in the table repositories
    lastSeenTag,    \* column last_seen_tag (NoTag: NULL, or no such row)
    subscriptions   \* rows of the table subscriptions

store == <<repositories, lastSeenTag, subscriptions>>

\* The empty tag: NULL in the column, "" in domain.Repository.  Published
\* tags are positive numbers, in the order of their publication.
NoTag == 0

SubscriptionRow ==
    [id : Nat \ {0}, email : Emails, repo : Repos, confirmed : BOOLEAN]

Tokens == {"confirm", "unsubscribe"} \X (Nat \ {0})
ConfirmToken(i) == <<"confirm", i>>
UnsubscribeToken(i) == <<"unsubscribe", i>>

StoreTypeOK ==
    /\ repositories \subseteq Repos
    /\ lastSeenTag \in [Repos -> Nat]
    /\ subscriptions \subseteq SubscriptionRow

StoreInit ==
    /\ repositories = {}
    /\ lastSeenTag = [r \in Repos |-> NoTag]
    /\ subscriptions = {}

-----------------------------------------------------------------------------
(* Reads. *)

GetSubscriptionByEmailAndRepo(e, r) ==
    {s \in subscriptions : s.email = e /\ s.repo = r}

GetSubscriptionByConfirmToken(t) ==
    {s \in subscriptions : ConfirmToken(s.id) = t}

\* Faulty variant: the lookup searches the confirm_token column.
FindUnsubscribeByEitherToken(t) ==
    {s \in subscriptions : t \in {ConfirmToken(s.id), UnsubscribeToken(s.id)}}

GetSubscriptionByUnsubscribeToken(t) ==
    {s \in subscriptions : UnsubscribeToken(s.id) = t}

\* An INNER JOIN, and no condition on confirmed.
GetSubscriptionsByEmail(e) ==
    {s \in subscriptions : s.email = e /\ s.repo \in repositories}

GetRepositoriesWithConfirmedSubs ==
    {r \in repositories : \E s \in subscriptions : s.repo = r /\ s.confirmed}

\* Faulty variant: the WHERE clause forgets confirmed = TRUE.
GetSubscriptionsByRepoID(r) ==
    {s \in subscriptions : s.repo = r}

GetConfirmedSubscriptionsByRepoID(r) ==
    {s \in subscriptions : s.repo = r /\ s.confirmed}

-----------------------------------------------------------------------------
(* Writes. *)

\* Faulty variant: the upsert replaces the row and its last_seen_tag.
CreateRepositoryAnew(r) ==
    /\ repositories' = repositories \cup {r}
    /\ lastSeenTag' = [lastSeenTag EXCEPT ![r] = NoTag]
    /\ UNCHANGED subscriptions

\* ON CONFLICT (owner, repo) DO UPDATE touches updated_at alone.
CreateRepository(r) ==
    /\ repositories' = repositories \cup {r}
    /\ UNCHANGED <<lastSeenTag, subscriptions>>

\* Rows of repositories are never deleted, so the row named here exists.
UpdateLastSeenTag(r, t) ==
    /\ lastSeenTag' = [lastSeenTag EXCEPT ![r] = t]
    /\ UNCHANGED <<repositories, subscriptions>>

\* Faulty variant: the table has no such constraint.
PairIsAlwaysFree(e, r) == TRUE

\* UNIQUE(email, repository_id) admits a row for this pair.
PairIsFree(e, r) == GetSubscriptionByEmailAndRepo(e, r) = {}

\* repository_id REFERENCES repositories(id).
RepositoryIsThere(r) == r \in repositories

\* The constraints of the table admit the row.
Admits(e, r) == PairIsFree(e, r) /\ RepositoryIsThere(r)

\* Faulty variant: the row is born confirmed.
CreateConfirmedSubscription(i, e, r) ==
    /\ Admits(e, r)
    /\ subscriptions' = subscriptions \cup
          {[id |-> i, email |-> e, repo |-> r, confirmed |-> TRUE]}
    /\ UNCHANGED <<repositories, lastSeenTag>>

CreateSubscription(i, e, r) ==
    /\ Admits(e, r)
    /\ subscriptions' = subscriptions \cup
          {[id |-> i, email |-> e, repo |-> r, confirmed |-> FALSE]}
    /\ UNCHANGED <<repositories, lastSeenTag>>

\* The UPDATE and the DELETE name the row by id and succeed on no row too.
ConfirmSubscription(i) ==
    /\ subscriptions' = {IF s.id = i THEN [s EXCEPT !.confirmed = TRUE] ELSE s :
                            s \in subscriptions}
    /\ UNCHANGED <<repositories, lastSeenTag>>

DeleteSubscription(i) ==
    /\ subscriptions' = {s \in subscriptions : s.id # i}
    /\ UNCHANGED <<repositories, lastSeenTag>>
=============================================================================
