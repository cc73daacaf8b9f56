# TLA+ verification of the GitHub Release Notification API

The service lets people subscribe an e-mail address to the releases of a GitHub
repository. It is one Go process over PostgreSQL, with an optional Redis cache,
an SMTP server and the GitHub REST API around it. This directory holds its
TLA+ specifications, the TLC configurations that check them on small instances,
and TLAPS proofs for instances of any size. Paths below are relative to the
repository; line numbers of every definition are in `PROJECT.json`, "map".

## 1. The system

| Part | State it keeps | Operations | Correct when |
|---|---|---|---|
| Tables (`migrations`, `adapter/outbound/postgres`) | rows of `repositories` and `subscriptions` | one auto-committed statement per operation | an address has one row per repository; ids and tokens name one row for ever |
| Requests (`application/subscription_service.go`, HTTP and gRPC handlers) | the call a request is at, its arguments, its context | Subscribe, Confirm, Unsubscribe, GetSubscriptions | double opt-in; what the client was told stays true; only the owner or a failed Subscribe removes a row; no row is stranded without a link |
| Scanner (`application/scanner_service.go`) | the listing of the cycle, the row under check, two nested deadlines | `scan`, `checkRepo` | baseline first, then each newest release announced and then recorded; a failing repository does not hold up the others |
| Notifier (`application/notifier_service.go`) and retry (`platform/retry.go`) | the subscribers still to mail, the attempt | `NotifySubscribers`, `Do` | only confirmed subscribers are mailed; one copy, plus at most one per failure |
| SMTP sender (`adapter/outbound/email`) | one connection per mail, with a deadline | `SendConfirmation`, `SendReleaseNotification` | nil means that the server took the mail over; an error does not mean that it did not; the call ends |
| GitHub client, cache, Redis (`adapter/outbound/github`, `redis`) | entries with a TTL | `RepoExists`, `GetLatestRelease` | a stale entry never undoes what was recorded |
| Process (`cmd/server/main.go`, `grpc/server.go`) | root context, two listeners, shutdown timeout | start, graceful stop, exit | calls in flight end, or are cut off only when the time is over; the tables survive |
| Metrics, router, API key, config, web page, Terraform | counters, settings | - | not modelled, see section 8 |

How they interact. Every request runs in its own goroutine and makes its
outbound calls in sequence: GitHub, then several statements, then SMTP. There
is no transaction across statements and no lock, so the calls of concurrent
requests interleave, and only the table's `UNIQUE` constraint arbitrates. The
scanner is a single goroutine which shares nothing with the requests but the
tables. The request's context (cancelled when the client leaves) is passed to
every call, the rollback included; the scanner's contexts nest: process, cycle
(4 min), repository (30 s). Requests and scanner share one GitHub client and its
cache.

What is hard here: check-then-act over several statements; a failure between two
steps of which the first stays done; answers lost after the effect took place
(SQL commit, SMTP reply); cancellation and deadlines in the middle; a cache that
may be older than the table; crashes between a side effect and its record. The
list with source lines is `PROJECT.json`, "hazards".

## 2. Modules

| Module | Models | Remarks |
|---|---|---|
| `Store` | tables and statements | each operator one atomic read or change; used by both components |
| `Subscriptions` | concurrent Subscribe, Confirm and Unsubscribe | one action per outbound call |
| `DoubleOptIn` | what the requests promise together | abstract: no requests, calls or faults |
| `Scanner` | cycles, checks, notifications, cache, deadlines | one action per outbound call |
| `GitHubClient` | cached GitHub calls: Redis, retry loop, waits | one action per outbound call or wait |
| `Mailer` | one notification or confirmation: recipients, retries, SMTP dialogue | one action per command, wait or tick of the clock |
| `Lifecycle` | `Subscriptions` within a process that starts, stops and exits | extends `Subscriptions` |
| `Service` | `Subscriptions` and `Scanner` over one `Store` | the composition |
| `SubscriptionsProofs` | theorems about `Subscriptions` | TLAPS |
| `DoubleOptInProofs` | `Subscriptions` implements `DoubleOptIn` | TLAPS; extends `SubscriptionsProofs` |
| `LifecycleProofs` | theorems about `Lifecycle` | TLAPS; extends `SubscriptionsProofs` |
| `ScannerProofs`, `MailerProofs`, `GitHubClientProofs` | theorems about these modules | TLAPS |
| `ServiceProofs` | theorems about `Service` | TLAPS; extends `ScannerProofs`, instantiates `SubscriptionsProofs` |
| `MCSubscriptions`, `MCLifecycle`, `MCScanner`, `MCGitHubClient`, `MCMailer`, `MCService` | finite instances for TLC | sets, fault sets, symmetry |

How they build on each other: `Subscriptions` and `Scanner` extend `Store`;
`Lifecycle` extends `Subscriptions`; `Service` extends `Scanner` and instantiates
`Subscriptions`, which in turn instantiates `DoubleOptIn`. `GitHubClient` and
`Mailer` show what a single call of the other modules can end in.

### Store

`repositories`, `lastSeenTag` and `subscriptions` are the two tables. A repository
row is identified with its `owner/repo` name (`UNIQUE(owner, repo)`). A subscription
row has the id of its `SERIAL` column; its two tokens are 256 random bits each and
are represented as `<<"confirm", id>>` and `<<"unsubscribe", id>>`, that is, tokens
of different rows or columns differ. An INSERT is admitted (`Admits`) if
`UNIQUE(email, repository_id)` and the foreign key to `repositories` allow it. Time
stamps and indexes are left out. A release tag is a positive number in the order of
publication; 0 stands for NULL and "".

### Subscriptions

`requests[r]` is the state of slot `r`: `at` names the outbound call the handler
makes next (`idle`: none), `email`, `repo`, `token` its arguments, `id` the row
id it learnt, `ctx` its context, `reply` what the handler returned last.

| Action | Code |
|---|---|
| `SubscribeArrives` | `validateEmail`, `parseRepoFullName` |
| `SubscribeChecksRepo` | `RepoExists` |
| `SubscribeCreatesRepo` | `CreateRepository` (upsert) |
| `SubscribeLooksUp` | `GetSubscriptionByEmailAndRepo` |
| `SubscribeInserts` | token generation, `CreateSubscription` |
| `SubscribeMails` | `SendConfirmation` |
| `SubscribeRollsBack` | `DeleteSubscription` after a failed mail, then the error |
| `ConfirmArrives`, `ConfirmLooksUp`, `ConfirmUpdates` | `Confirm` |
| `UnsubscribeArrives`, `UnsubscribeLooksUp`, `UnsubscribeDeletes` | `Unsubscribe` |
| `GetSubscriptions` (an operator: it changes nothing) | `GetSubscriptions`, HTTP and gRPC |
| `ClientGone`, `Crash` | cancellation by net/http or gRPC; the end of the process |
| `NotifierLists`, `NotifierMails` | the notifier, as far as it hands out unsubscribe links |

`serial` is the id sequence (a rejected INSERT consumes a value), `inbox` the
tokens that reached their owner, `listed` the ids the notifier read. A client
presents a token that was mailed, or an empty one; an unknown token finds no row,
like one whose row has gone. `GetSubscriptions` is stated for completeness: no
property is about the listing.

Faults are a constant, `Faults`, so that each run says which failures it allows:
`github` and `mail` (the call fails; a mail may leave all the same), `db` (a
statement fails, or commits and its answer is lost), `cancel` (the client
leaves; a statement under way may commit or not), `crash`.

### Scanner

`pc` is the call the scanner makes next, `queue` the rows of the listing still to
be checked, each with the tag it had (`seen`), `current` and `release` the check
in progress, `unsent` and `mail` the notifier's loop and retry, `cycleCtx` and
`repoCtx` the contexts. `latest` is GitHub, where a release appears (`Publish`) or is
taken back (`Withdraw`), and `cached` Redis. The statements of
concurrent requests are the single action `Requests`, which is free to run any of
them at any time: more than `Subscriptions` would allow, so what holds here holds
with the real requests (`Service` checks that). `copies` (mails per row and tag),
`baseline`, `due` and `excused` are history variables, read by no action. `faults`
counts the faults against `MaxFaults`; those of the cache and withdrawn releases are
counted apart, too (`Staleness`).

`Deliver` and the retry follow `platform.Do`: a transient error is retried while
attempts are left, a permanent one is not, and an expired context ends it. The
waits between attempts take no action, since nothing distinguishes them from
slowness here; `Mailer` has them.

### GitHubClient

`calls[c]` is the call of goroutine `c`: at the Redis `get`, an HTTP `request`, the
`wait` before the next attempt, or the Redis `set`. `CacheGet`, `SendRequest`,
`Sleep` and `CacheSet` are these four; `Try` is the head of the `for` loop,
`CalcRateLimitWait` the pure function of the two rate-limit headers in `int64`
arithmetic (`Wrap`). Both endpoints go through the same actions: a 404 is the
answer 0, which is cached for `repo_exists` and not for `latest_release`
(`Cacheable`). `github` is what GitHub answers now; it may change while calls are
under way. `seen` is history: the answers GitHub gave since the call, or the call
that filled the cache entry, began.

`Subscriptions` and `Scanner` use the outcome of such a call only: an answer or
an error (and, in `Scanner`, the cache entry it leaves).

### Mailer

`send` is the attempt under way: `at` the point at which the call blocks (the
dial, a command of the dialogue, the wait of `platform.Do`), the recipient, the
attempt, when it began (`since`), when the wait ends (`wake`) and what STARTTLS
made of the connection (`conn`: plain, tls or broken). `job` says whether this is
a notification or a confirmation and when its context expires; a request's
context has no deadline (`Never`), unless a gRPC client sent one. `now` is the
clock.

| Action | Code |
|---|---|
| `Begin`, `WaitEnds` | the loops of `NotifySubscribers` and `platform.Do` |
| `Dial`, `DialFails` | `net.Dialer` with its `Timeout` and its `Deadline` |
| `StartTLS`, `Command`, `CommandFails` | the dialogue up to the data |
| `Accept` | the server takes the mail over, while the client waits in `w.Close` |
| `ReplyArrives`, `ReplyLost` | the 250 reaches `w.Close`; or the connection breaks, or its deadline comes first |
| `Quit` | `client.Quit`, whose error is only logged |
| `Cancel`, `Tick` | the caller's cancellation; time, which stands still while a timer is due |

`ConnDeadline` is the one line that decides how long a dialogue may last; `Fail`
is `isTransientMailError`, with the words of a refusal left open.

### Lifecycle

`main` is where `main()` is: not running, waiting for a signal, in `GracefulStop`,
in `Shutdown`, in the deferred closes of database and Redis. `up` are the listeners
that accept, `stream` says that a client holds a gRPC reflection stream, `expired`
that the shutdown timeout is over. A slot of `Requests` belongs to one of the
servers (`Proto`). The steps of requests are those of `Subscriptions`; arrivals need
an open listener. A request that outlasts the timeout may find the database closed
(`StatementRefused`) before `ProcessEnds` cuts it off; `Exit` is what all ends of
the process have in common. The context of a request is not the one `main` cancels,
so `Signal` leaves requests alone. `cut` is history: the rows whose Subscribe was
cut off between the INSERT and the answer, or kept from its rollback by the closed
database.

### Service

The state of `Scanner` and of `Subscriptions` side by side, the tables and `serial`
being one and the same. `RequestStep` is a step of `Subscriptions`, `ScanStep` one of
`Scanner`, which also puts the links it mails into `inbox`; `ProcessCrash` hits
both. `Scanner!Requests` and `Subscriptions!NotifierLists`, `NotifierMails` do not
occur: they are what each module assumes of the other, and `KeepsToScanner` and
`KeepsToSubscriptions` say that the assumption is met. `used` is history: the ids whose
confirmation link was presented to Confirm.

### DoubleOptIn

The contract, in terms of pairs (address, repository): at most one entry, made
inactive by `Register`, made active only after `Invite`, removed by `Withdraw`
while its Subscribe is still open, or by `Leave` once it was on the list of a
release mail. `Subscriptions!Promise` is the refinement mapping: `Entries` has the
row of each pair, `OpenIds` the ids whose Subscribe is at the mail or the rollback,
`InvitedIds` those whose link reached the mailbox.

## 3. Runs

| Run | Instance | Checks |
|---|---|---|
| `subscriptions_safety` | 2 addresses, 2 repositories (1 on GitHub), 2 requests, 3 ids, all faults | `OneRowPerSubscriber`, `OptIn`, `SubscribedIsRecorded`, `ConfirmedIsNotPending`, `UnsubscribedIsGone`, `IInv`, `NoUnauthorisedRemoval`, `ImplementsDoubleOptIn` |
| `lifecycle` | 1 address, 1 repository, 1 request over HTTP and 1 over gRPC, 2 ids, 2 starts; GitHub and mail fail | `LifeTypeOK`, `StrandedOnlyIfCut`, `OnlySlowHttpIsCut`, `ResolvedUnlessCut`, `ShutdownEnds` |
| `scanner_safety` | 2 addresses, 1 repository, 2 ids, 3 tags, 2 faults of any kind, 2 attempts | `SnapshotIsFresh`, `CopiesPaidFor`, `OnlyConfirmedAreMailed`, `NewsFollowsBaseline`, `IInv`, `RecordedOnceTried` |
| `scanner_live` | 1 address, 2 repositories (1 always may fail), 2 ids, 2 tags, 1 fault, 2 attempts | `ReleasesAreRecorded`, `SubscribersAreTold` |
| `github_client` | 2 callers, both endpoints, 2 attempts, 1 change of GitHub's answer, all faults; 4 rate-limit responses around a cap of 6 | `AnswersWereTrue`, `RateLimitIsHonoured`, `IInv`, `CallsEnd`, `StaleAnswersExpire` |
| `mail` | 2 recipients, 3 attempts, SMTP timeout 4, context deadline 3, 8 or none, waits of 1 to 4 | `NilMeansAccepted`, `CopiesAreLostAnswers`, `EndsInTime`, `GivesUpForCause`, `IInv`, `CallReturns` |
| `service` | 1 address, 1 repository, 2 requests, 2 ids, 2 tags, 1 fault of the scanner; database and mail of the requests, crashes | `MailedByConsent`, `ServiceIInv`, `KeepsToScanner`, `KeepsToSubscriptions`, `GoodbyeIsFinal` |

Why the bounds are enough. Two requests in flight are what a race on one row needs,
and the slots are reused, so that a behaviour holds any number of requests one after
another; three ids let a pair be registered, removed, registered by a second request
and once more while the first still runs. Two addresses and two repositories give
four pairs, whose requests share the repository row only. For the scanner, three
tags give a baseline, a release and one that arrives during its check; two faults
give every pair of failures, such as a lost SMTP reply followed by a crash, or a
withdrawn release and a failed Redis call; two attempts have a first, a last, and a
retry between them (the program's own three are in `mail`); two addresses let one be
mailed and the other not. In `scanner_live` the one fault cannot use up two
attempts, which is the condition under which the code promises a notice. For the
client, two callers can race to fill one entry and one change of the answer tells an
old fill from a new one; two attempts have a first, a last and a wait between. There
a second is 4 ticks, the cap 6 and the largest duration 63, so that the backoffs, 4
and 8, lie on either side of the cap, and the responses are a reset beyond the cap,
a reset where adding a second overflows, a `Retry-After` beyond the cap and one of
zero. In `mail`, one deadline is shorter and one longer than the SMTP timeout, and
the waits are such that the third attempt may or may not fit (`Growth` is the
configured multiplier raised to the attempt, here powers of two). In `lifecycle`,
two starts have a shutdown, a restart and a second shutdown; two ids let a row
stranded by the first exit meet a second Subscribe. In `service`, two tags are a
baseline and a release, and two ids a subscription and the one that replaces it.

`MaxSerial`, `MaxTag`, `MaxFaults`, `MaxChanges`, `MaxStarts` and `Horizon` are the
bounds, the other numbers are the program's own parameters; `SerialsReserved`
keeps a Subscribe from being admitted that could not finish within `MaxSerial`, so
that the bound never stops a request half way. `Horizon` lies behind every
deadline. Symmetry is used in safety runs only. Deadlock is checked but for
`mail`, where the call has returned, and `lifecycle`, where the process has been
stopped for the last time.

The runs named after a disagreement show, each with a shortest trace, where the
code does not do what its documentation or tests say:

| Run | What TLC shows |
|---|---|
| `subscriptions_rollback` | the client leaves, the mail fails for it, and so does the rollback: the row stays |
| `subscriptions_duplicate` | two racing Subscribes: the loser gets 500, not 409 |
| `subscriptions_confirmed` | "confirmed" is answered while a rollback removes the row (lost SMTP reply) |
| `scanner_stale` | one Redis outage: the baseline is announced and `last_seen_tag` goes back |
| `scanner_unlisted` | listing the subscribers fails once: the tag is recorded, nobody is told |

Types are checked with the inductive invariants: `TypeOK` is the first conjunct of
every `IInv`, and `SubView!IInv` of `ServiceIInv` has that of `Subscriptions`.

Every property of a passing run has a mutant (`PROJECT.json`, "mutants"): a
"Faulty variant" that stands before the definition it would replace and with
which TLC finds the property violated.

## 4. Fairness

`Lifecycle!FairLifeSpec` is weak fairness of each request's steps: every outbound
call of a request is bounded, statements by `withTimeout`, GitHub by the HTTP
client's timeout and a bounded number of attempts, SMTP by its deadline; so a
request in flight takes its next step as long as the process runs. `main` goes on as
soon as `GracefulStop`, `Shutdown` and the closes return, and its timer fires.
Clients, streams, faults, signals, starts and the notifier have no fairness: nobody
must confirm, and nothing must fail.

`Scanner!FairSpec` is weak fairness of the scanner's own step, as the ticker keeps
firing and each call is bounded, and of the expiry of cache entries, which have a
TTL. Publishing, withdrawals, requests, deadlines and crashes have none. Faults
other than those of a flaky repository are finitely many, which liveness needs: a
database that never answers again stops everything.

`GitHubClient!FairSpec` is weak fairness of every call's steps (HTTP and Redis
timeouts, finite waits) and of the expiry of entries.

`Mailer!FairSpec` is weak fairness of the clock, and of the call's own step when a
timer has run out or nothing blocks it (`Due`). The mail server has none: it need
never answer.

## 5. What is proved

Every safety property of the passing runs is a theorem, for every value of the
constants that meets the assumptions of its module; so is the refinement of
`DoubleOptIn`, and that each half of `Service` keeps to what the other expects. TLC
checks the inductive invariants below before they are proved (`IInv` and
`ServiceIInv` are invariants of the runs) and evaluates the assumptions.

| Module | Theorem | Statement |
|---|---|---|
| `SubscriptionsProofs` | `Invariance` | `Spec => []IInv` |
| | `TypeCorrect` | `Spec => []TypeOK` |
| | `Uniqueness` | `Spec => []OneRowPerSubscriber` |
| | `DoubleOptInHolds` | `Spec => []OptIn` |
| | `AnswersAreTrue` | `Spec => []` of `SubscribedIsRecorded`, `ConfirmedIsNotPending`, `UnsubscribedIsGone` |
| | `ConfirmedStays`, `UnsubscribedStays` | the last two of these by themselves |
| | `RemovalsAreAuthorised` | `Spec => NoUnauthorisedRemoval` |
| | `NothingIsStranded` | `Spec => []StrandedIsInFlight`, if `Faults \subseteq {"github", "mail"}` |
| `DoubleOptInProofs` | `ContractKept` | `Spec => ImplementsDoubleOptIn` |
| `LifecycleProofs` | `SafeThroughLife` | `LifeSpec => []IInv` |
| | `OnlyExitsStrand` | `LifeSpec => []StrandedOnlyIfCut`, if `Faults \subseteq {"github", "mail"}` |
| | `LifeTypesHold` | `LifeSpec => []LifeTypeOK` |
| | `ShutdownSparesCalls` | `LifeSpec => OnlySlowHttpIsCut` |
| `ScannerProofs` | `Invariance`, `TypeCorrect` | `Spec => []IInv`, `Spec => []TypeOK` |
| | `FreshSnapshot` | `Spec => []SnapshotIsFresh` |
| | `ConsentToNews` | `Spec => []OnlyConfirmedAreMailed` |
| | `NoFreeCopies` | `Spec => []CopiesPaidFor` |
| | `BaselineFirst` | `Spec => []NewsFollowsBaseline` |
| | `TriedBeforeRecorded` | `Spec => RecordedOnceTried` |
| `MailerProofs` | `Invariance` | `Spec => []IInv` |
| | `BackoffCapped` | `Spec => []WaitsAreCapped` |
| | `NilIsTrue` | `Spec => []NilMeansAccepted` |
| | `CopiesExplained` | `Spec => []CopiesAreLostAnswers` |
| | `Punctual` | `Spec => []EndsInTime` |
| | `NotGivenUpEarly` | `Spec => []GivesUpForCause` |
| `GitHubClientProofs` | `Invariance`, `TypeCorrect` | `Spec => []IInv`, `Spec => []TypeOK` |
| | `AnswersAreTrue` | `Spec => []AnswersWereTrue` |
| | `WaitsAsAsked` | `Spec => []RateLimitIsHonoured` |
| `ServiceProofs` | `ServiceInvariance` | `ServiceSpec => []ServiceIInv` |
| | `MailsAreWanted` | `ServiceSpec => []MailedByConsent` |
| | `RequestsKeepToScanner` | `ServiceSpec => KeepsToScanner` |
| | `ScannerKeepsToRequests` | `ServiceSpec => KeepsToSubscriptions` |
| | `GoodbyesAreFinal` | `ServiceSpec => GoodbyeIsFinal` |

The constants of the program (attempts, waits, timeouts, growth of the waits, the
largest duration) are arbitrary in these theorems, and so are the bounds that make
TLC's instances finite.

### Assumptions

They are named and stand in the modules that declare the constants. `None` differs
from every argument it stands beside; the bounds are natural numbers; `Faults` are
the names of the faults. Those that say something about the program:
`BoundsAssumption` and `NumbersAssumption`, that at least one attempt is made
(`MaxAttempts` is positive, as in `cmd/server/main.go`); `RecipientsAssumption`, that
a notification has a recipient (without one, `NotifySubscribers` returns at once);
`DurationsAssumption`, that the cap on a rate-limit wait and one second more fit a
`time.Duration` (the code's cap is 60 s); `HeadersAssumption`, that a reset time, seen
as a duration from now, is one, since `time.Until` saturates; `ClientsAssumption`,
that finitely many requests are in flight at a time.

### Subscriptions

None of the properties is inductive by itself. `IInv` adds, in the order in which
the argument needs them:

- `IdsAreIssued`: no id is known anywhere - in a row, a request, a mail or the
  notifier's list - before the sequence handed it out. Hence an INSERT uses an
  id nobody else holds, and `IdsAreKeys` follows.
- `TokensAreMailed`: a request that is about to write by token holds a token
  that was mailed; unsubscribe links go only to listed ids, and those were
  invited. This gives `OptIn` for the UPDATE and authorisation for the DELETE.
- `OwnersDiffer`, `OwnRow`: a row has one Subscribe that made it, and as long as
  that is in flight the row under its id is its own pair's. So a rollback by id
  removes nobody else's row.
- `AwaitsMail`: before the first attempt to mail the link, the row exists and
  nobody could have removed it. So "subscribed" is true when it is answered.

The proof has one lemma per action or group of actions. Steps that touch one request
only go through `HarmlessStep`, which lists what the new record of the request
must satisfy; the INSERT, the mail, the UPDATE and the DELETE are proved
conjunct by conjunct. `NextKeeps` collects them.

`NothingIsStranded` carries that no context is ever cancelled (`AllLive`);
without its assumption the statement is false, as `subscriptions_rollback` shows.

`ContractKept` maps every step, under `IInv`, to a step of `DoubleOptIn` or to a
stutter. What the mapping makes of a table is the operator `Book`, with a lemma for
each kind of change: a row more (`BookChanges`, only if the pair was free: this is
where `OneRowPerSubscriber` is needed), a row less (`BookLoses`), the rows of other
pairs untouched. `OpenStays`, `OpenBegins` and `OpenEnds` do the same for the open
ids. The hard cases are the two that act by an id read earlier. A rollback is
`Withdraw` because its id is still open, and no other Subscribe's (`OwnersDiffer`);
a Confirm whose row has gone changes no entry, and one whose row is there
is `Activate` because its token was mailed (`TokensAreMailed`).

### Lifecycle

Every step of `LifeNext` is a step of `Subscriptions`, leaves its variables alone, is
`Exit`, or is `StatementRefused` (`NextOrExit`). `Exit` keeps `IInv` because it only
forgets requests, `StatementRefused` because it only ends one (`ReturnKeeps`).
`OnlyExitsStrand` uses the lemma behind `NothingIsStranded` with the ids in `cut` in
place of none (`InFlightOr(C)`): an exit moves the rows of the Subscribes in flight
from the one side to the other, and a refused rollback does so with its own row
(`RefusalStrands`). `ShutdownSparesCalls` rests on the last conjunct of
`LifeTypeOK`: gRPC calls and streams are there only before `GracefulStop` returned,
because a request starts only at an open listener (`OnlyAcceptedRun`), and that of
gRPC is open only while `main` serves.

### Scanner

`IInv` follows the check from the comparison to the record:

- `LocalsOK`, `TagsArePublished`: what the locals hold at each call, and that nothing
  is cached or recorded that GitHub did not publish. `SnapshotIsFresh` is inductive
  with these: only `Record` writes a tag that was set, and only for `current`, which
  has left the queue.
- `IdsAreKeys`, `RecipientsAreConfirmed`: an id on the list names a row that is
  confirmed for this repository, or no row. An INSERT cannot bring it back, since
  the sequence has passed it.
- `TagsAdvance`, `CacheAgrees`: unless Redis failed or a release was withdrawn, the
  recorded tag is never ahead of the cache entry, so that what a check finds new is
  newer, too. This gives `NewsFollowsBaseline`.
- `TriedSoFar`: whoever is off the list of a live check was mailed or given up. As
  `Record` runs only when the list is empty, this gives `RecordedOnceTried`.
- `CopiesAccounted`, for `CopiesPaidFor`. The number of copies alone is not
  inductive: after one free copy nothing in it says that the next one is not free as
  well. The invariant counts what is still to come: one mail if the check under way
  has the subscriber before it (`Soon`), one if a later check could announce the tag
  again though nothing failed (`Later`: it is not published yet, or GitHub or the
  cache would return it while another tag is recorded). Copies and those to come are
  at most one more than the faults. A step that makes the tag new again - a deadline
  or a crash before the record, a Redis entry left behind, a release withdrawn - is
  a fault, and so pays for the copy; `Record` turns `Later` off.

### Mailer

`NotBegun` and `UnderWay` tie the history to the loop: the attempt under way is
counted, its recipient has no answer yet, and those in `todo` have nothing.
`HandedWasTaken` is the one fact that connects the server's taking the mail over
with the `nil` given steps later. `WaitsAreCapped` bounds the wait between two
attempts by the longest wait and a quarter of it, since `Do` adds the jitter after
the cap. `OneConfirmation` says that a confirmation is one attempt begun at once,
which is why `Timeout` alone bounds it; for a notification every dialogue ends at
the context's deadline, and `Punctual` follows because the clock stands still while
a timer is due.

### GitHubClient

`CallsFollowGitHub`: a running call has seen what GitHub answers now, so whatever the
next response brings was true; `EntriesWereTrue` says this of the cache entries, and
survives two callers that race to fill one. `WaitsAsAsked` needs `LimitHonoured`, a
case analysis of `CalcRateLimitWait` over headers of any size. It says that no wait
exceeds the cap, and what the wait is where nothing overflows: the sum and the product
are taken in `int64` (`WrapTyped`), which leaves every Duration as it is (`WrapExact`).
Of a header that overflows it claims the cap and nothing more.

### Service

Each part assumes of the other what `Scanner!Requests` and `Subscriptions!NotifierLists`
and `NotifierMails` allow. The argument is not circular: every step of the whole is
a step of `Scanner` and, with the tags left out, one of `Subscriptions`, if the
invariants of both hold before it (`NextInScanner`, `NextInView`); hence both
invariants hold after it, by the theorems about the parts. `View` is the instance of
`SubscriptionsProofs` with the program's variables, and `ViewAssumptions` proves what
that module assumes. Two facts relate the parts: `UnsentAreListed`, that a mail goes
only to an id that the notifier listed, so that it was invited (`TokensAreMailed`);
and `SerialsSuffice`, that every Subscribe before its INSERT has an id left, without
which `Scanner` would not admit the INSERT. It counts requests, so that the proof needs
the cardinality of a finite set with an element more or less (`ReservedByOne`).
`LinksWereUsed` says that only Confirm sets the flag: a confirmed row's
link was presented, and so was that of every listed id; with `UnsentAreListed` this
gives `MailedByConsent`.
`GoodbyesAreFinal` combines the halves: a row that is gone is on no later list.

## 6. What is only model-checked

Liveness rests on fairness, hence on ENABLED, about which the installed provers know
nothing. It stays with TLC, on the instances of section 3:
`ResolvedUnlessCut`, `ShutdownEnds`, `ReleasesAreRecorded`, `SubscribersAreTold`,
`CallsEnd`, `StaleAnswersExpire`, `CallReturns`. The five runs of section 3 that end
in a violation are counterexamples and need no proof.

That one attempt of `Mailer`, and one call of `GitHubClient`, can only end in what
the single actions of `Scanner` and `Subscriptions` allow follows from reading the
modules side by side; it is neither checked nor proved.

## 7. Findings

The five disagreements of section 3 are listed in `PROJECT.json`, "findings", with
the line of the code and the sentence it contradicts. Three of them lose
something for good: after `subscriptions_rollback` the pair is answered 409 for
ever and its link was never sent; after `scanner_unlisted` nobody hears of the
release; after `subscriptions_confirmed` the subscriber believes to be
subscribed.

Repeated mails are no finding of their own: `CopiesPaidFor` bounds them by the
number of faults. A deadline that falls between the mails and the update repeats
them once; one that falls there in every cycle, because the list is too long for
the 30 s of a check, repeats them in every cycle.

Two properties hold only under a condition that the code does not secure, and each
has its counterpart in the code: `NewsFollowsBaseline` while no call to Redis has
failed (`scanner_stale`) and no release was withdrawn - the comparison is `!=`, so
that the release before a withdrawn one, possibly from before the baseline, is
announced and recorded as if it were new - and `RecordedOnceTried` but for
subscribers who were given up, a failed listing included (`scanner_unlisted`).
`StrandedOnlyIfCut` and `ResolvedUnlessCut` are about failures of GitHub and of the
mail server only; with a client that leaves, `subscriptions_rollback` shows the row
that stays.

What `mail` makes visible without contradicting any document: `SMTP_TIMEOUT`
bounds a dialogue only when the context has no deadline, so in the scanner one
silent server uses up the whole check; a refusal is retried or not by the words
of its text; a failed STARTTLS handshake is logged as "continuing plaintext" and
fails every command after it. What `lifecycle` makes visible: the shutdown timeout
runs while gRPC drains, so HTTP may get nothing of it, and "server stopped
gracefully" is logged also when requests were cut off. A request that outlasts the
timeout may meet a closed database, so that its rollback fails.

Seen while modelling, and the subject of no run: `GET /api/subscriptions` returns
pending rows as well, marked `"confirmed": false`, where `api/swagger.yaml` speaks of
active subscriptions.

## 8. Not modelled, and why

- The spelling of addresses and names: `validateEmail` and `parseRepoFullName`
  are represented by whether they accept. Two spellings of one mailbox are two
  members of `Emails`.
- In `Subscriptions`, `OnGitHub` is constant: a repository that comes or goes while
  its answer is cached is the subject of `GitHubClient`.
- Which network errors count as transient: either may happen at any attempt.
- The contents of mails. `MaxAttempts = 0` of `platform.Do`, which no caller passes.
- The steps of `main` before the listeners open, as one action `Start`: a failed
  connection or migration ends the process before it has any state, and a
  migration that a crash interrupts leaves the "dirty" mark of golang-migrate, which
  an operator must clear. A `SCANNER_INTERVAL` of zero or less panics in
  `time.NewTicker` at the start.
- Whether the reply of a handler reaches the client: `reply` is what it returns.
- Metrics: read by nobody inside. (`active_subscriptions`, which the repository's
  README lists, is registered and never set; `scan_cycles_total` counts the cycles
  that start, not those that complete.) The comparison of the API key, router
  and static files, configuration, generated gRPC code, Terraform.

## 9. Plan

The models of the plan are written and their safety properties proved. What is left,
the most important first:

1. An abstract specification of one mail, as the actions of `Scanner` and
   `Subscriptions` take it to be (mailed or not, answered nil or with an error, an
   error after the mail was taken over being a lost answer), and a proof that
   `Mailer` implements it.
2. The same for `GitHubClient` and the calls of `RepoExists` and `GetLatestRelease`.
3. `Scanner` against an abstract specification of the announcements of one
   repository: baseline, announce, record.
