---------------------------- MODULE GitHubClient ----------------------------
(***************************************************************************)
(* The GitHub client behind Subscribe and the scanner: CachedClient over   *)
(* Redis, over Client.doRequestWithRetry, for one repository.  Calls of    *)
(* different goroutines interleave at their outbound calls (Redis GET, the *)
(* HTTP request, the wait before the next attempt, Redis SET) while the    *)
(* repository appears, disappears and gets releases on GitHub.             *)
(*                                                                         *)
(* An endpoint's answer is a number: 0 for 404; else 1 for an existing     *)
(* repository, or the newest release.  Durations are in clock ticks.       *)
(***************************************************************************)
EXTENDS Integers

CONSTANTS
    Callers,        \* goroutines that may be inside the client
    MaxRetries,     \* GITHUB_MAX_RETRIES
    None,           \* a header that is absent, and other absent things
    Faults,         \* the faults of the environment, see below
    Second,         \* ticks per second
    MaxWait,        \* maxWait, the longest wait for a rate limit
    MaxDuration,    \* the largest time.Duration, MaxInt64 in the code
    Limits,         \* what a rate limited response says: its reset time as the
                    \* time from now, and its Retry-After in seconds, or None
    MaxChanges      \* bound on the changes GitHub makes to an answer

ASSUME RetriesAssumption == MaxRetries \in Nat
ASSUME DurationsAssumption ==
    /\ Second \in Nat \ {0} /\ MaxWait \in Nat /\ MaxDuration \in Nat
    /\ MaxWait + Second <= MaxDuration
\* time.Until saturates, so that a reset time is a Duration.
ASSUME HeadersAssumption ==
    /\ None \notin Int
    /\ \A l \in Limits : /\ l.reset \in (-MaxDuration)..MaxDuration \cup {None}
                         /\ l.after \in Int \cup {None}
\* cache: Redis fails       network: the request fails     server: status 5xx
\* limit: 429, or 403 with no requests left    status: any other status
\* body: the answer cannot be read or parsed   cancel: the context ends
ASSUME FaultsAssumption ==
    Faults \subseteq {"cache", "network", "server", "limit", "status", "body", "cancel"}
ASSUME ChangesAssumption == MaxChanges \in Nat

VARIABLES
    calls,      \* the call of each goroutine: where it is, and what it holds
    entry,      \* Redis: gh:repo_exists and gh:latest_release
    github,     \* what GitHub answers now
    changes     \* number of changes so far

vars == <<calls, entry, github, changes>>

Endpoints == {"repo_exists", "latest_release"}
Values == 0..(MaxChanges + 1)
Durations == (-(MaxDuration + 1))..MaxDuration

Call ==
    [at : {"idle", "get", "request", "wait", "set"}, endpoint : Endpoints,
     attempt : 0..MaxRetries, backoff : Durations, wait : Durations,
     limit : Limits \cup {None}, ctx : {"live", "done"}, value : Values,
     reply : {"none", "answer", "rateLimited", "error"}, seen : SUBSET Values]

Entry == [value : Values, expires : BOOLEAN, seen : SUBSET Values]

\* A call as it starts; seen is history: the answers GitHub gave since then.
NewCall(ep) ==
    [at |-> "get", endpoint |-> ep, attempt |-> 0, backoff |-> Second, wait |-> 0,
     limit |-> None, ctx |-> "live", value |-> 0, reply |-> "none",
     seen |-> {github[ep]}]

TypeOK ==
    /\ calls \in [Callers -> Call]
    /\ entry \in [Endpoints -> Entry \cup {None}]
    /\ github \in [Endpoints -> Values]
    /\ changes \in 0..MaxChanges

Init ==
    /\ github \in [Endpoints -> {0, 1}]
    /\ calls = [c \in Callers |->
                   [NewCall("repo_exists") EXCEPT !.at = "idle", !.seen = {}]]
    /\ entry = [ep \in Endpoints |-> None]
    /\ changes = 0

-----------------------------------------------------------------------------
(* How long to wait. *)

\* int64 arithmetic.
Wrap(d) == ((d + MaxDuration + 1) % (2 * (MaxDuration + 1))) - (MaxDuration + 1)

Capped(d) == IF d > MaxWait THEN MaxWait ELSE d

\* Faulty variant: the wait is capped before Retry-After is read.
CapBeforeRetryAfter(limit, fallback) ==
    LET reset == IF limit.reset = None THEN 0 ELSE Wrap(limit.reset + Second)
    IN  IF limit.after # None THEN Wrap(limit.after * Second)
        ELSE Capped(IF reset > 0 THEN reset ELSE fallback)

\* Retry-After wins over a reset time in the future, that over the backoff.
CalcRateLimitWait(limit, fallback) ==
    LET reset == IF limit.reset = None THEN 0 ELSE Wrap(limit.reset + Second)
    IN  Capped(IF limit.after # None THEN Wrap(limit.after * Second)
               ELSE IF reset > 0 THEN reset
               ELSE fallback)

-----------------------------------------------------------------------------
(* Steps of a call. *)

Running(c) == calls[c].at # "idle"

\* The call ends; what only the retry loop needs is forgotten.
Ended(call, reply) ==
    [call EXCEPT !.at = "idle", !.reply = reply, !.endpoint = "repo_exists",
                 !.attempt = 0, !.backoff = Second, !.wait = 0, !.limit = None,
                 !.ctx = "live", !.seen = IF reply = "answer" THEN @ ELSE {}]

Return(c, reply) == calls' = [calls EXCEPT ![c] = Ended(@, reply)]

Begin(c) ==
    /\ ~Running(c)
    /\ \E ep \in Endpoints : calls' = [calls EXCEPT ![c] = NewCall(ep)]
    /\ UNCHANGED <<entry, github, changes>>

\* The for loop: another attempt, unless all are used up.
Try(c, call) ==
    calls' = [calls EXCEPT ![c] =
                 IF call.attempt < MaxRetries THEN [call EXCEPT !.at = "request"]
                 ELSE Ended(call, "rateLimited")]

\* cache.Get: a hit is returned; a miss and an error go on to GitHub.
CacheGet(c) ==
    LET call == calls[c]
        hit == entry[call.endpoint]
    IN  /\ call.at = "get"
        /\ \/ /\ call.ctx = "live" /\ hit # None
              /\ calls' = [calls EXCEPT ![c] =
                     Ended([call EXCEPT !.value = hit.value, !.seen = @ \cup hit.seen],
                           "answer")]
           \/ (hit = None \/ call.ctx = "done" \/ "cache" \in Faults) /\ Try(c, call)
        /\ UNCHANGED <<entry, github, changes>>

WaitFor(c, d, limit) ==
    calls' = [calls EXCEPT ![c] = [@ EXCEPT !.at = "wait", !.wait = d, !.limit = limit]]

\* "No release" is not cached, "no repository" is.
Cacheable(ep, v) == ep = "repo_exists" \/ v # 0

Answer(c, v) ==
    IF Cacheable(calls[c].endpoint, v)
    THEN calls' = [calls EXCEPT ![c] = [@ EXCEPT !.at = "set", !.value = v]]
    ELSE calls' = [calls EXCEPT ![c] = Ended([@ EXCEPT !.value = v], "answer")]

\* Faulty variant: whatever is not 200 means that the repository is missing.
AnswerMissing(c) == Answer(c, 0)

\* A status the caller does not expect is an error and is not cached.
Unexpected(c) == Return(c, "error")

\* One attempt.  A transient network error and a 5xx wait for the backoff, a
\* rate limit for what GitHub asks; anything else goes back to the caller.
SendRequest(c) ==
    LET call == calls[c]
        v == github[call.endpoint]
    IN  /\ call.at = "request"
        /\ \/ call.ctx = "done" /\ Return(c, "error")
           \/ /\ call.ctx = "live"
              /\ \/ Answer(c, v)
                 \/ {"network", "server"} \cap Faults # {} /\ WaitFor(c, call.backoff, None)
                 \/ "network" \in Faults /\ Return(c, "error")
                 \/ /\ "limit" \in Faults
                    /\ \E l \in Limits : WaitFor(c, CalcRateLimitWait(l, call.backoff), l)
                 \/ "status" \in Faults /\ Unexpected(c)
                 \/ /\ "body" \in Faults /\ call.endpoint = "latest_release"
                    /\ Return(c, "error")
        /\ UNCHANGED <<entry, github, changes>>

\* Faulty variant: a wait for a rate limit does not use up an attempt.
SleepUncounted(c) ==
    LET call == calls[c]
        next == [call EXCEPT !.attempt = IF call.limit = None THEN @ + 1 ELSE @,
                             !.backoff = IF call.limit = None THEN Wrap(2 * @) ELSE @,
                             !.wait = 0, !.limit = None]
    IN  /\ call.at = "wait"
        /\ \/ call.ctx = "done" /\ Return(c, "error")
           \/ call.ctx = "live" /\ Try(c, next)
        /\ UNCHANGED <<entry, github, changes>>

\* Faulty variant: one attempt too many.
SleepOnceMore(c) ==
    LET call == calls[c]
        next == [call EXCEPT !.attempt = @ + 1, !.backoff = Wrap(2 * @), !.wait = 0, !.limit = None]
    IN  /\ call.at = "wait"
        /\ calls' = [calls EXCEPT ![c] =
                        IF next.attempt <= MaxRetries + 1 THEN [next EXCEPT !.at = "request"]
                        ELSE Ended(next, "rateLimited")]
        /\ UNCHANGED <<entry, github, changes>>

\* sleepWithContext, then the next round of the loop - after the last attempt
\* too.  With both channels ready, as with a wait that is not positive, select
\* takes either.
Sleep(c) ==
    LET call == calls[c]
        next == [call EXCEPT !.attempt = @ + 1, !.backoff = Wrap(2 * @), !.wait = 0, !.limit = None]
    IN  /\ call.at = "wait"
        /\ \/ call.ctx = "done" /\ Return(c, "error")
           \/ (call.ctx = "live" \/ call.wait <= 0) /\ Try(c, next)
        /\ UNCHANGED <<entry, github, changes>>

\* Faulty variant: a TTL of 0, which is "for ever".
StoredForEver(call) == [value |-> call.value, expires |-> FALSE, seen |-> call.seen]

Stored(call) == [value |-> call.value, expires |-> TRUE, seen |-> call.seen]

\* cache.Set: an error is only logged.
CacheSet(c) ==
    LET call == calls[c]
    IN  /\ call.at = "set"
        /\ \/ call.ctx = "live" /\ entry' = [entry EXCEPT ![call.endpoint] = Stored(call)]
           \/ (call.ctx = "done" \/ "cache" \in Faults) /\ UNCHANGED entry
        /\ Return(c, "answer")
        /\ UNCHANGED <<github, changes>>

-----------------------------------------------------------------------------
(* The environment. *)

Cancel(c) ==
    /\ "cancel" \in Faults
    /\ Running(c)
    /\ calls[c].ctx = "live"
    /\ calls' = [calls EXCEPT ![c] = [@ EXCEPT !.ctx = "done"]]
    /\ UNCHANGED <<entry, github, changes>>

CacheExpires(ep) ==
    /\ entry[ep] # None
    /\ entry[ep].expires
    /\ entry' = [entry EXCEPT ![ep] = None]
    /\ UNCHANGED <<calls, github, changes>>

\* The repository comes or goes, or the newest release is another one.
GitHubChanges(ep, v) ==
    /\ changes < MaxChanges
    /\ v # github[ep]
    /\ ep = "repo_exists" => v \in {0, 1}
    /\ github' = [github EXCEPT ![ep] = v]
    /\ changes' = changes + 1
    /\ calls' = [c \in Callers |->
          IF Running(c) /\ calls[c].endpoint = ep THEN [calls[c] EXCEPT !.seen = @ \cup {v}]
          ELSE calls[c]]
    /\ entry' = [e \in Endpoints |->
          IF e = ep /\ entry[e] # None THEN [entry[e] EXCEPT !.seen = @ \cup {v}]
          ELSE entry[e]]

-----------------------------------------------------------------------------

CallStep(c) == CacheGet(c) \/ SendRequest(c) \/ Sleep(c) \/ CacheSet(c)

Next ==
    \/ \E c \in Callers : Begin(c) \/ CallStep(c) \/ Cancel(c)
    \/ \E ep \in Endpoints :
          CacheExpires(ep) \/ \E v \in Values : GitHubChanges(ep, v)

Spec == Init /\ [][Next]_vars

\* Requests have the HTTP client's timeout, waits are finite, Redis calls have
\* timeouts, and an entry expires with its TTL.
FairSpec ==
    /\ Spec
    /\ \A c \in Callers : WF_vars(CallStep(c))
    /\ \A ep \in Endpoints : WF_vars(CacheExpires(ep))

-----------------------------------------------------------------------------
(* Properties. *)

\* What a caller is told was GitHub's answer at some time since the call began
\* or, if it came from the cache, since the call that filled the entry began.
\* No failure is ever taken for an answer.
AnswersWereTrue ==
    \A c \in Callers : calls[c].reply = "answer" => calls[c].value \in calls[c].seen

\* A wait is what the headers of a rate limited response ask for.
Honoured(wait, limit, backoff) ==
    /\ wait <= MaxWait
    /\ limit.after # None =>
          (limit.after * Second \in Durations => wait = Capped(limit.after * Second))
    /\ limit.after = None /\ limit.reset # None =>
          /\ limit.reset \in 0..(MaxDuration - Second) => wait >= Capped(limit.reset)
          /\ limit.reset <= -Second => wait = Capped(backoff)
    /\ limit.after = None /\ limit.reset = None => wait = Capped(backoff)

\* A wait for a rate limit never exceeds MaxWait, whatever the headers say.
\* Within that cap it is what Retry-After asks; without a Retry-After it lasts
\* until the reset; and without a reset to come it is the call's own backoff.
\* A header that overflows a Duration gets the cap and nothing else.
RateLimitIsHonoured ==
    \A c \in Callers :
        calls[c].at = "wait" /\ calls[c].limit # None =>
            Honoured(calls[c].wait, calls[c].limit, calls[c].backoff)

\* Every call comes back, whatever GitHub and Redis do: none runs for ever.
CallsEnd == \A c \in Callers : []<>~Running(c)

\* Once GitHub's answer no longer changes, no other one stays in the cache: a
\* repository created after a 404 can in the end be subscribed to.
StaleAnswersExpire ==
    \A ep \in Endpoints, v \in Values :
        <>[](github[ep] = v) => <>[](entry[ep] # None => entry[ep].value = v)

-----------------------------------------------------------------------------
(* The inductive invariant behind the safety properties (see                *)
(* GitHubClientProofs).                                                     *)

\* A call that runs has told nothing yet, has seen what GitHub answers now,
\* stores nothing but what it has seen, and asks while attempts are left.
CallsFollowGitHub ==
    \A c \in Callers : Running(c) =>
        /\ calls[c].reply # "answer"
        /\ github[calls[c].endpoint] \in calls[c].seen
        /\ calls[c].at = "set" => calls[c].value \in calls[c].seen
        /\ calls[c].at \in {"request", "wait"} => calls[c].attempt < MaxRetries

EntriesWereTrue ==
    \A ep \in Endpoints : entry[ep] # None => entry[ep].value \in entry[ep].seen

IInv ==
    /\ TypeOK /\ CallsFollowGitHub /\ EntriesWereTrue
    /\ AnswersWereTrue /\ RateLimitIsHonoured
=============================================================================
