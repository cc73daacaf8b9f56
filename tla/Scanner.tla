------------------------------ MODULE Scanner ------------------------------
(***************************************************************************)
(* application.ScannerService and the NotifierService it calls, over the   *)
(* cached GitHub client and the SMTP sender.  One goroutine walks through  *)
(* cycles; each of its outbound calls is one action here, and between two  *)
(* of them GitHub publishes releases or loses the newest, the cache expires *)
(* entries, requests change the tables (their statements are the actions   *)
(* of Requests below), deadlines fire and the process may die.             *)
(***************************************************************************)
EXTENDS Store, FiniteSets

CONSTANTS
    None,           \* no repository is being checked
    Flaky,          \* repositories whose GitHub calls may always fail
    Faults,         \* the faults of the environment, see below
    MaxFaults,      \* bound on the number of faults
    MaxAttempts,    \* RetryConfig.MaxAttempts of the mail retry
    MaxTag,         \* bound on the releases published per repository
    MaxSerial       \* bound on the ids the subscriptions table hands out

ASSUME NoneAssumption == None \notin [repo : Repos, seen : Nat]
ASSUME FlakyAssumption == Flaky \subseteq Repos
ASSUME BoundsAssumption ==
    /\ MaxFaults \in Nat /\ MaxSerial \in Nat
    /\ MaxTag \in Nat \ {0} /\ MaxAttempts \in Nat \ {0}
\* github: GetLatestRelease fails       cache:  the Redis GET, the SET or both fail
\* list, recipients, record: the statement of that step fails
\* dial:   a transient SMTP error       refused: a permanent one
\* lost:   a mail is delivered, the SMTP reply is lost
\* slow:   a deadline fires, or shutdown cancels   crash: the process is killed
\* withdrawn: the newest releases of a repository are deleted on GitHub
ASSUME FaultsAssumption ==
    Faults \subseteq {"github", "cache", "list", "recipients", "record",
                      "dial", "refused", "lost", "slow", "crash", "withdrawn"}

VARIABLES
    pc,         \* the call the scanner makes next
    queue,      \* rows of the listing that are still to be checked
    current,    \* the row being checked: its name and the tag it had
    release,    \* the tag the current check found and must record
    unsent,     \* ids of subscribers the notifier has still to mail
    mail,       \* the id being mailed (0: none yet) and failed attempts
    cycleCtx,   \* the contexts of the cycle and of the current check
    repoCtx,
    latest,     \* GitHub: the newest release of each repository
    cached,     \* Redis: gh:latest_release (NoTag: no entry)
    serial,     \* last value of the subscriptions.id sequence
    faults,     \* number of faults so far, see Fault
    copies,     \* release mails delivered to a subscriber about a tag
    baseline,   \* history: the first tag recorded for a repository
    due,        \* history: ids confirmed when the current release was found
    excused     \* history: those of them the notifier gave up for a cause

scan == <<pc, queue, current, release, unsent, mail, cycleCtx, repoCtx>>
vars == <<repositories, lastSeenTag, subscriptions, scan,
          latest, cached, serial, faults, copies, baseline, due, excused>>

Ids == 1..MaxSerial
Tags == 1..MaxTag
Watch == [repo : Repos, seen : Nat]
NoMail == [id |-> 0, attempt |-> 0]
Contexts == {"live", "done"}
PCs == {"idle", "list", "next", "fetch", "recipients", "send", "record"}

TypeOK ==
    /\ StoreTypeOK
    /\ pc \in PCs
    /\ queue \subseteq Watch
    /\ current \in Watch \cup {None}
    /\ release \in Nat
    /\ unsent \subseteq Ids
    /\ mail \in [id : {0} \cup Ids, attempt : 0..(MaxAttempts - 1)]
    /\ cycleCtx \in Contexts
    /\ repoCtx \in Contexts
    /\ latest \in [Repos -> Nat]
    /\ cached \in [Repos -> Nat]
    /\ serial \in 0..MaxSerial
    /\ faults \in [stale : 0..MaxFaults, other : 0..MaxFaults]
    /\ copies \in [Ids \X Tags -> Nat]
    /\ baseline \in [Repos -> Nat]
    /\ due \subseteq Ids
    /\ excused \subseteq due

Idle ==
    /\ pc = "idle"
    /\ queue = {}
    /\ current = None
    /\ release = NoTag
    /\ unsent = {}
    /\ mail = NoMail
    /\ cycleCtx = "live"
    /\ repoCtx = "live"

Init ==
    /\ StoreInit
    /\ Idle
    /\ latest \in [Repos -> {NoTag, 1}]
    /\ cached = [r \in Repos |-> NoTag]
    /\ serial = 0
    /\ faults = [stale |-> 0, other |-> 0]
    /\ copies = [d \in Ids \X Tags |-> 0]
    /\ baseline = [r \in Repos |-> NoTag]
    /\ due = {}
    /\ excused = {}

-----------------------------------------------------------------------------
(* Common parts of the steps. *)

FaultCount == faults.stale + faults.other

\* After these an older tag may be taken for the newest.
Staleness == {"cache", "withdrawn"}

Fault(kind) ==
    /\ kind \in Faults
    /\ FaultCount < MaxFaults
    /\ faults' = IF kind \in Staleness THEN [faults EXCEPT !.stale = @ + 1]
                                       ELSE [faults EXCEPT !.other = @ + 1]

\* Faulty variant: pending subscribers are listed with the others.
PendingToo(r) == {s.id : s \in GetSubscriptionsByRepoID(r)}

Confirmed(r) == {s.id : s \in GetConfirmedSubscriptionsByRepoID(r)}

github == <<latest, cached>>
history == <<copies, baseline, due, excused>>

\* The cycle is over: scan returns to the ticker.  Locals are forgotten.
CycleEnds ==
    /\ pc' = "idle"
    /\ queue' = {}
    /\ current' = None
    /\ release' = NoTag
    /\ unsent' = {}
    /\ mail' = NoMail
    /\ cycleCtx' = "live"
    /\ repoCtx' = "live"

\* checkRepo returns, with nil or with an error that is only logged.
CheckEnds ==
    /\ pc' = "next"
    /\ current' = None
    /\ release' = NoTag
    /\ unsent' = {}
    /\ mail' = NoMail
    /\ repoCtx' = cycleCtx
    /\ due' = {}
    /\ excused' = {}
    /\ UNCHANGED <<queue, cycleCtx>>

-----------------------------------------------------------------------------
(* A cycle. *)

\* The ticker fires, or Start runs its first scan.
StartCycle ==
    /\ pc = "idle"
    /\ pc' = "list"
    /\ UNCHANGED <<store, queue, current, release, unsent, mail, cycleCtx,
                   repoCtx, github, serial, faults, history>>

ListRepos ==
    /\ pc = "list"
    /\ \/ /\ cycleCtx = "live"
          /\ queue' = {[repo |-> r, seen |-> lastSeenTag[r]] :
                          r \in GetRepositoriesWithConfirmedSubs}
          /\ pc' = "next"
          /\ UNCHANGED <<current, release, unsent, mail, cycleCtx, repoCtx, faults>>
       \/ cycleCtx = "done" /\ CycleEnds /\ UNCHANGED faults
       \/ Fault("list") /\ CycleEnds
    /\ UNCHANGED <<store, github, serial, history>>

\* The SELECT has no ORDER BY, so any row may come next.
NextRepo ==
    /\ pc = "next"
    /\ \/ /\ cycleCtx = "live"
          /\ \E w \in queue : current' = w /\ queue' = queue \ {w}
          /\ pc' = "fetch"
          /\ UNCHANGED <<release, unsent, mail, cycleCtx, repoCtx>>
       \/ (queue = {} \/ cycleCtx = "done") /\ CycleEnds
    /\ UNCHANGED <<store, github, serial, faults, history>>

-----------------------------------------------------------------------------
(* checkRepo. *)

\* Faulty variant: a row without a tag is treated like any other.
NoBaseline(tag) ==
    \/ tag \in {NoTag, current.seen} /\ CheckEnds
    \/ /\ tag \notin {NoTag, current.seen}
       /\ release' = tag
       /\ pc' = "recipients"
       /\ due' = Confirmed(current.repo)
       /\ UNCHANGED <<queue, current, unsent, mail, cycleCtx, repoCtx, excused>>

\* No release, the one already seen, the first one, or a new one.
Compare(tag) ==
    \/ tag \in {NoTag, current.seen} /\ CheckEnds
    \/ /\ tag \notin {NoTag, current.seen}
       /\ release' = tag
       /\ \/ current.seen = NoTag /\ pc' = "record" /\ due' = {}
          \/ /\ current.seen # NoTag
             /\ pc' = "recipients"
             /\ due' = Confirmed(current.repo)
       /\ UNCHANGED <<queue, current, unsent, mail, cycleCtx, repoCtx, excused>>

\* CachedClient.GetLatestRelease: "no release" is not cached, an entry is
\* believed as long as it lasts, and a failed GET or SET is only logged.
GetLatestRelease ==
    LET r == current.repo
        filled == IF latest[r] = NoTag THEN cached ELSE [cached EXCEPT ![r] = latest[r]]
    IN  \/ cached[r] # NoTag /\ Compare(cached[r]) /\ UNCHANGED <<cached, faults>>
        \/ /\ cached[r] = NoTag
           /\ Compare(latest[r])
           /\ cached' = filled
           /\ UNCHANGED faults
        \/ Fault("cache") /\ Compare(latest[r]) /\ cached' \in {cached, filled}
        \/ /\ cached[r] = NoTag \/ "cache" \in Faults
           /\ Fault("github") \/ (r \in Flaky /\ UNCHANGED faults)
           /\ CheckEnds
           /\ UNCHANGED cached

\* Faulty variant: the first repository that fails ends the whole cycle.
FetchOrGiveUp ==
    /\ pc = "fetch"
    /\ \/ repoCtx = "live" /\ current.repo \notin Flaky /\ GetLatestRelease
       \/ /\ repoCtx = "done" \/ current.repo \in Flaky
          /\ CycleEnds /\ due' = {} /\ excused' = {} /\ UNCHANGED <<cached, faults>>
    /\ UNCHANGED <<store, latest, serial, copies, baseline>>

Fetch ==
    /\ pc = "fetch"
    /\ \/ repoCtx = "live" /\ GetLatestRelease
       \/ repoCtx = "done" /\ CheckEnds /\ UNCHANGED <<cached, faults>>
    /\ UNCHANGED <<store, latest, serial, copies, baseline>>

\* checkRepo logs an error of NotifySubscribers and goes on to record the tag.
ListSubscribers ==
    /\ pc = "recipients"
    /\ \/ /\ repoCtx = "live"
          /\ unsent' = Confirmed(current.repo)
          /\ pc' = "send"
          /\ UNCHANGED <<faults, excused>>
       \/ /\ \/ repoCtx = "done" /\ UNCHANGED <<faults, excused>>
             \/ Fault("recipients") /\ excused' = due
          /\ pc' = "record"
          /\ UNCHANGED unsent
    /\ UNCHANGED <<store, queue, current, release, mail, cycleCtx, repoCtx,
                   github, serial, copies, baseline, due>>

-----------------------------------------------------------------------------
(* NotifySubscribers: one mail after another, each through platform.DoVoid. *)

Deliver(i) == copies' = [copies EXCEPT ![<<i, release>>] = @ + 1]

\* The loop goes on to the next subscriber.
DoneWith(i) == unsent' = unsent \ {i} /\ mail' = NoMail

\* ... with the mail refused, or failed as often as it is tried.
GiveUp(i) == DoneWith(i) /\ excused' = excused \cup ({i} \cap due)

\* Faulty variant: the last attempt is followed by one more.
RetryOnceMore(i) ==
    \/ /\ mail.attempt < MaxAttempts
       /\ mail' = [id |-> i, attempt |-> mail.attempt + 1]
       /\ UNCHANGED <<unsent, excused>>
    \/ mail.attempt = MaxAttempts /\ GiveUp(i)

\* A transient error: wait and try again, unless that was the last attempt.
Retry(i) ==
    \/ /\ mail.attempt + 1 < MaxAttempts
       /\ mail' = [id |-> i, attempt |-> mail.attempt + 1]
       /\ UNCHANGED <<unsent, excused>>
    \/ mail.attempt + 1 = MaxAttempts /\ GiveUp(i)

\* A context that is done fails the dial; Do then sees it and gives up.
SendMail(i) ==
    /\ pc = "send"
    /\ i \in unsent
    /\ mail.id \in {0, i}
    /\ \/ /\ repoCtx = "live"
          /\ \/ Deliver(i) /\ DoneWith(i) /\ UNCHANGED <<faults, excused>>
             \/ Fault("dial") /\ Retry(i) /\ UNCHANGED copies
             \/ Fault("lost") /\ Deliver(i) /\ Retry(i)
             \/ Fault("refused") /\ GiveUp(i) /\ UNCHANGED copies
       \/ repoCtx = "done" /\ DoneWith(i) /\ UNCHANGED <<copies, faults, excused>>
    /\ UNCHANGED <<store, pc, queue, current, release, cycleCtx, repoCtx,
                   github, serial, baseline, due>>

NotifyEnds ==
    /\ pc = "send"
    /\ unsent = {}
    /\ pc' = "record"
    /\ UNCHANGED <<store, queue, current, release, unsent, mail, cycleCtx,
                   repoCtx, github, serial, faults, history>>

\* Faulty variant: after a notification the tag of the listing is written back.
AppliedOldTag ==
    LET tag == IF current.seen = NoTag THEN release ELSE current.seen
    IN  /\ UpdateLastSeenTag(current.repo, tag)
        /\ baseline' = [baseline EXCEPT ![current.repo] = IF @ = NoTag THEN tag ELSE @]

\* Applied covers the commit whose answer is lost.
Applied ==
    /\ UpdateLastSeenTag(current.repo, release)
    /\ baseline' = [baseline EXCEPT ![current.repo] =
                        IF @ = NoTag THEN release ELSE @]

\* Faulty variant: the update takes a context of its own.
RecordDetached ==
    /\ pc = "record"
    /\ Applied
    /\ CheckEnds
    /\ UNCHANGED <<github, serial, faults, copies>>

Record ==
    /\ pc = "record"
    /\ \/ repoCtx = "live" /\ Applied /\ UNCHANGED faults
       \/ repoCtx = "live" /\ Fault("record") /\ (Applied \/ UNCHANGED <<store, baseline>>)
       \/ repoCtx = "done" /\ UNCHANGED <<store, baseline, faults>>
    /\ CheckEnds
    /\ UNCHANGED <<github, serial, copies>>

-----------------------------------------------------------------------------
(* Deadlines, shutdown and crashes. *)

RepoDeadline ==
    /\ pc \in {"fetch", "recipients", "send", "record"}
    /\ repoCtx = "live"
    /\ Fault("slow")
    /\ repoCtx' = "done"
    /\ UNCHANGED <<store, pc, queue, current, release, unsent, mail, cycleCtx,
                   github, serial, history>>

\* The context of the current check is derived from the cycle's.
CycleDeadline ==
    /\ pc # "idle"
    /\ cycleCtx = "live"
    /\ Fault("slow")
    /\ cycleCtx' = "done"
    /\ repoCtx' = "done"
    /\ UNCHANGED <<store, pc, queue, current, release, unsent, mail,
                   github, serial, history>>

Crash ==
    /\ Fault("crash")
    /\ CycleEnds
    /\ due' = {}
    /\ excused' = {}
    /\ UNCHANGED <<store, github, serial, copies, baseline>>

-----------------------------------------------------------------------------
(* GitHub, Redis, and the statements of the requests (module Subscriptions). *)

\* Also a tag that was withdrawn may be published again.
Publish(r) ==
    /\ latest[r] < MaxTag
    /\ latest' = [latest EXCEPT ![r] = @ + 1]
    /\ UNCHANGED <<store, scan, cached, serial, faults, history>>

Withdraw(r) ==
    /\ Fault("withdrawn")
    /\ \E tag \in 0..(latest[r] - 1) : latest' = [latest EXCEPT ![r] = tag]
    /\ UNCHANGED <<store, scan, cached, serial, history>>

CacheExpires(r) ==
    /\ cached[r] # NoTag
    /\ cached' = [cached EXCEPT ![r] = NoTag]
    /\ UNCHANGED <<store, scan, latest, serial, faults, history>>

\* A rejected INSERT draws an id all the same.
RequestWrites ==
    \/ \E r \in Repos : CreateRepository(r) /\ UNCHANGED serial
    \/ /\ serial < MaxSerial
       /\ serial' = serial + 1
       /\ \/ \E e \in Emails, r \in Repos : CreateSubscription(serial', e, r)
          \/ UNCHANGED store
    \/ \E s \in subscriptions :
          (ConfirmSubscription(s.id) \/ DeleteSubscription(s.id)) /\ UNCHANGED serial

Requests ==
    RequestWrites /\ UNCHANGED <<scan, github, faults, history>>

-----------------------------------------------------------------------------

ScannerStep ==
    \/ StartCycle \/ ListRepos \/ NextRepo \/ Fetch \/ ListSubscribers
    \/ (\E i \in Ids : SendMail(i)) \/ NotifyEnds \/ Record

Next ==
    \/ ScannerStep
    \/ RepoDeadline \/ CycleDeadline \/ Crash
    \/ \E r \in Repos : Publish(r) \/ Withdraw(r) \/ CacheExpires(r)
    \/ Requests

Spec == Init /\ [][Next]_vars

\* The ticker keeps firing, every call of the scanner ends within a timeout,
\* and a cache entry expires with its TTL.
FairSpec ==
    /\ Spec
    /\ WF_vars(ScannerStep)
    /\ \A r \in Repos : WF_vars(CacheExpires(r))

-----------------------------------------------------------------------------
(* Properties. *)

\* The tag read by ListRepos, possibly many mails earlier, is still the tag in
\* the table when the check that compares and overwrites it runs.
SnapshotIsFresh ==
    \A w \in queue \cup ({current} \ {None}) : w.seen = lastSeenTag[w.repo]

\* A subscriber gets no more copies of a notice than one, plus one for each
\* fault: retries and repeated cycles add a copy only after something failed.
CopiesPaidFor == \A d \in Ids \X Tags : copies[d] <= 1 + FaultCount

\* No subscriber hears of the baseline or of a release before it, as long as
\* the cache has not failed and no release was withdrawn: its entries and the
\* recorded tags then move forward together, whichever releases, expiries and
\* crashes come in between.
NewsFollowsBaseline ==
    faults.stale = 0 =>
        \A s \in subscriptions, t \in Tags :
            copies[<<s.id, t>>] > 0 => baseline[s.repo] # NoTag /\ t > baseline[s.repo]

\* A subscription that is not confirmed has never been mailed a release.
OnlyConfirmedAreMailed ==
    \A s \in subscriptions : ~s.confirmed =>
        \A t \in Tags : copies[<<s.id, t>>] = 0

\* A new tag is recorded only when whoever was confirmed as it was found has
\* the mail, has unsubscribed, or was given up for a cause (a permanent error,
\* the last of the attempts, a failed list of recipients): a deadline, a
\* shutdown or a crash in between never drops a notice that was not tried.
Served(r, ids) ==
    \A s \in subscriptions : s.id \in ids => copies[<<s.id, lastSeenTag'[r]>>] > 0
Advances(r) == lastSeenTag'[r] # lastSeenTag[r] /\ lastSeenTag[r] # NoTag

RecordedOnceTried ==
    [][\A r \in Repos : Advances(r) => Served(r, due \ excused)]_vars

\* A release is not forgotten: as long as somebody is subscribed, the scanner
\* comes to record it or a later one, and a repository whose checks keep
\* failing does not hold up the others.
Watched(r) == r \in GetRepositoriesWithConfirmedSubs
ReleasesAreRecorded ==
    \A r \in Repos \ Flaky, t \in Tags :
        latest[r] >= t /\ Watched(r) ~> lastSeenTag[r] >= t \/ ~Watched(r)

\* Whoever was confirmed before a release was published, and after the
\* baseline, gets a mail about it or a later one, unless he unsubscribes: as
\* long as each mail can still be retried, a lost answer, a deadline or a
\* crash delays the notice and does not swallow it.
Subscribed(i, r) == i \in Confirmed(r)
Told(i, t) == \E u \in Tags : u >= t /\ copies[<<i, u>>] > 0
SubscribersAreTold ==
    \A r \in Repos \ Flaky, i \in Ids, t \in Tags :
        Subscribed(i, r) /\ lastSeenTag[r] # NoTag /\ latest[r] < t
            ~> Told(i, t) \/ ~Subscribed(i, r) \/ [](latest[r] < t)

-----------------------------------------------------------------------------
(* The inductive invariant behind the safety properties.  ScannerProofs shows
   that every step keeps it; here it is stated so that TLC checks it. *)

Announcing == {"recipients", "send", "record"}
Checking == {"fetch"} \cup Announcing

\* What the locals of a check hold, by the call that comes next.
LocalsOK ==
    /\ pc \in Checking <=> current # None
    /\ current \notin queue
    /\ pc \in {"recipients", "send"} => current.seen # NoTag
    /\ pc \in Announcing =>
          release \in Tags /\ release # current.seen
    /\ unsent # {} => pc = "send"
    /\ due # {} => pc \in Announcing

\* Nothing is recorded, cached or announced that GitHub did not publish, and,
\* unless it was withdrawn or Redis has failed, nothing newer than its newest.
TagsArePublished ==
    /\ \A r \in Repos : lastSeenTag[r] <= MaxTag /\ cached[r] <= MaxTag /\ latest[r] <= MaxTag
    /\ faults.stale = 0 =>
          /\ \A r \in Repos : lastSeenTag[r] <= latest[r] /\ cached[r] <= latest[r]
          /\ pc \in Announcing => release <= latest[current.repo]

\* Ids are keys, and no id is mailed before the sequence handed it out.
IdsAreKeys ==
    /\ \A s \in subscriptions : s.id <= serial
    /\ \A s, t \in subscriptions : s.id = t.id => s = t
    /\ unsent \cup due \subseteq 1..serial
    /\ \A i \in Ids, t \in Tags : i > serial => copies[<<i, t>>] = 0

\* Those the notifier has still to mail, or had to as the release was found,
\* are confirmed for this very repository, or gone.
RecipientsAreConfirmed ==
    \A s \in subscriptions : s.id \in unsent \cup due => s.confirmed /\ s.repo = current.repo

\* The cache agrees with the release of the check, unless Redis has failed.
CacheAgrees ==
    pc \in Announcing => cached[current.repo] \in {NoTag, release} \/ faults.stale > 0

\* Without a failure of Redis or a withdrawal, tags only move forward.
TagsAdvance ==
    /\ \A r \in Repos : baseline[r] = NoTag <=> lastSeenTag[r] = NoTag
    /\ faults.stale = 0 =>
          /\ \A r \in Repos : /\ baseline[r] <= lastSeenTag[r]
                              /\ cached[r] # NoTag => lastSeenTag[r] <= cached[r]
          /\ pc \in Announcing => current.seen < release

\* Whoever is off the list of a check that goes on was mailed or given up.
TriedSoFar ==
    pc \in {"send", "record"} /\ repoCtx = "live" =>
        \A s \in subscriptions : s.id \in due \ (excused \cup unsent) => copies[<<s.id, release>>] > 0

\* The tag that will be recorded for r if nothing fails from here on.
Settled(r) ==
    IF pc \in Announcing /\ repoCtx = "live" /\ r = current.repo THEN release
    ELSE lastSeenTag[r]

\* A later check may announce t for r although nothing fails from here on, as
\* it is cached or the newest.
Later(r, t) ==
    \/ t = cached[r] /\ t # Settled(r)
    \/ t = latest[r] /\ (t # Settled(r) \/ cached[r] \notin {NoTag, t})

\* The check under way may announce t to s.
Soon(s, t) ==
    /\ repoCtx = "live" /\ t = release
    /\ (pc = "recipients" /\ s.repo = current.repo) \/ s.id \in unsent

\* ... and once more when t is published, for the first time or again.
Coming(r, t) == (IF Later(r, t) THEN 1 ELSE 0) + (IF t > latest[r] THEN 1 ELSE 0)

\* Each copy beyond the first is paid for by a fault, those to come included.
MailsToCome(s, t) == (IF Soon(s, t) THEN 1 ELSE 0) + Coming(s.repo, t)
CopiesAccounted ==
    /\ \A s \in subscriptions, t \in Tags :
          copies[<<s.id, t>>] + MailsToCome(s, t) <= 1 + FaultCount
    /\ \A i \in unsent : repoCtx = "live" => copies[<<i, release>>] <= FaultCount

IInv ==
    /\ TypeOK /\ LocalsOK /\ TagsArePublished /\ IdsAreKeys
    /\ SnapshotIsFresh /\ RecipientsAreConfirmed /\ OnlyConfirmedAreMailed
    /\ CacheAgrees /\ TagsAdvance /\ NewsFollowsBaseline
    /\ TriedSoFar /\ CopiesPaidFor /\ CopiesAccounted

-----------------------------------------------------------------------------
(* What the README says, and the code does not keep. *)

\* README: "Emails go out only when a new release tag appears after the
\* baseline", whatever fails.
AnnouncedAfterBaseline ==
    \A s \in subscriptions, t \in Tags :
        copies[<<s.id, t>>] > 0 => baseline[s.repo] # NoTag /\ t > baseline[s.repo]

\* README: "Subscribers are notified, then last_seen_tag is updated".
RecordedOnceNotified == [][\A r \in Repos : Advances(r) => Served(r, due)]_vars

=============================================================================
