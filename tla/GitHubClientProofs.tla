------------------------- MODULE GitHubClientProofs -------------------------
(* Theorems about GitHubClient for every value of its constants. *)
EXTENDS GitHubClient, TLAPS

-----------------------------------------------------------------------------
(* int64 arithmetic. *)

LEMMA Remainder ==
    ASSUME NEW d \in Int, NEW m \in Nat \ {0}
    PROVE  d % m \in 0..(m - 1)
OBVIOUS

LEMMA SmallRemainder ==
    ASSUME NEW m \in Nat \ {0}, NEW d \in 0..(m - 1)
    PROVE  d % m = d
OBVIOUS

LEMMA WrapTyped == ASSUME NEW d \in Int PROVE Wrap(d) \in Durations
<1> DEFINE m == MaxDuration + 1
<1>1. m \in Nat \ {0} /\ 2 * m \in Nat \ {0} /\ d + MaxDuration + 1 \in Int
  BY DurationsAssumption
<1> DEFINE rest == (d + MaxDuration + 1) % (2 * m)
<1>2. rest \in 0..(2 * m - 1)
  BY <1>1, Remainder
<1>3. Wrap(d) = rest - m
  BY DEF Wrap
<1> HIDE DEF rest
<1> QED BY <1>2, <1>3, DurationsAssumption DEF Durations

\* Nothing is lost of a duration that fits.
LEMMA WrapExact == ASSUME NEW d \in Durations PROVE Wrap(d) = d
<1> DEFINE m == MaxDuration + 1
<1>1. d \in Int /\ 2 * m \in Nat \ {0} /\ d + MaxDuration + 1 \in 0..(2 * m - 1)
  BY DurationsAssumption DEF Durations
<1>2. (d + MaxDuration + 1) % (2 * m) = d + MaxDuration + 1
  BY <1>1, SmallRemainder
<1>3. Wrap(d) = ((d + MaxDuration + 1) % (2 * m)) - m
  BY DEF Wrap
<1> QED BY <1>1, <1>2, <1>3, DurationsAssumption

\* A rate limit is honoured, and the wait is a duration.
LEMMA LimitHonoured ==
    ASSUME NEW l \in Limits, NEW fallback \in Durations
    PROVE  /\ CalcRateLimitWait(l, fallback) \in Durations
           /\ Honoured(CalcRateLimitWait(l, fallback), l, fallback)
<1> DEFINE reset == IF l.reset = None THEN 0 ELSE Wrap(l.reset + Second)
           asked == IF l.after # None THEN Wrap(l.after * Second)
                    ELSE IF reset > 0 THEN reset ELSE fallback
           wait == Capped(asked)
<1>1. /\ MaxWait \in Nat /\ Second \in Nat /\ Second > 0 /\ MaxDuration \in Nat
      /\ MaxWait + Second <= MaxDuration
  BY DurationsAssumption
<1>2. /\ None \notin Int /\ l.after \in Int \cup {None}
      /\ l.reset \in (-MaxDuration)..MaxDuration \cup {None}
  BY HeadersAssumption
<1>3. l.after # None => l.after * Second \in Int /\ Wrap(l.after * Second) \in Durations
  BY <1>1, <1>2, WrapTyped
<1>4. l.reset # None => l.reset + Second \in Int /\ Wrap(l.reset + Second) \in Durations
  BY <1>1, <1>2, WrapTyped
<1>5. Durations \subseteq Int /\ 0 \in Durations /\ MaxWait \in Durations
  BY <1>1 DEF Durations
<1>6. asked \in Durations
  BY <1>3, <1>4, <1>5
<1>7. wait \in Durations /\ wait <= MaxWait
  <2> HIDE DEF asked
  <2> QED BY <1>1, <1>5, <1>6 DEF Capped
<1>8. ASSUME l.after # None, l.after * Second \in Durations
      PROVE  wait = Capped(l.after * Second)
  <2>1. asked = l.after * Second
    BY <1>8, WrapExact
  <2> QED BY <2>1
<1>9. ASSUME l.after = None, l.reset # None, l.reset \in 0..(MaxDuration - Second)
      PROVE  wait >= Capped(l.reset)
  <2>1. l.reset + Second \in Durations /\ l.reset + Second > 0
    BY <1>1, <1>9 DEF Durations
  <2>2. asked = l.reset + Second
    BY <1>9, <2>1, WrapExact
  <2> HIDE DEF asked
  <2> QED BY <1>1, <1>9, <2>2 DEF Capped
<1>10. ASSUME l.after = None, l.reset # None, l.reset <= -Second
       PROVE  wait = Capped(fallback)
  <2>1. l.reset + Second \in Durations /\ ~(l.reset + Second > 0)
    BY <1>1, <1>2, <1>10 DEF Durations
  <2>2. ~(reset > 0)
    BY <1>10, <2>1, WrapExact
  <2>3. asked = fallback
    BY <1>10, <2>2
  <2> QED BY <2>3
<1>11. ASSUME l.after = None, l.reset = None PROVE wait = Capped(fallback)
  BY <1>11
<1>12. CalcRateLimitWait(l, fallback) = wait
  BY DEF CalcRateLimitWait
<1> HIDE DEF wait
<1> QED BY <1>7, <1>8, <1>9, <1>10, <1>11, <1>12 DEF Honoured

-----------------------------------------------------------------------------
(* The invariant, call by call. *)

\* A call as the invariant wants it, with GitHub's answers of the moment.
Sound(call, answers) ==
    /\ call \in Call
    /\ call.reply = "answer" => call.value \in call.seen
    /\ call.at # "idle" =>
          /\ call.reply # "answer"
          /\ answers[call.endpoint] \in call.seen
          /\ call.at = "set" => call.value \in call.seen
          /\ call.at \in {"request", "wait"} => call.attempt < MaxRetries
    /\ call.at = "wait" /\ call.limit # None => Honoured(call.wait, call.limit, call.backoff)

SoundEntry(e) == e # None => e \in Entry /\ e.value \in e.seen

AllSound ==
    /\ calls \in [Callers -> Call] /\ entry \in [Endpoints -> Entry \cup {None}]
    /\ github \in [Endpoints -> Values] /\ changes \in 0..MaxChanges
    /\ \A c \in Callers : Sound(calls[c], github)
    /\ \A ep \in Endpoints : SoundEntry(entry[ep])

LEMMA InvariantByCall == IInv <=> AllSound
<1>1. IInv => AllSound
  BY DEF IInv, AllSound, TypeOK, CallsFollowGitHub, EntriesWereTrue, AnswersWereTrue,
         RateLimitIsHonoured, Sound, SoundEntry, Running
<1>2. AllSound => IInv
  BY DEF IInv, AllSound, TypeOK, CallsFollowGitHub, EntriesWereTrue, AnswersWereTrue,
         RateLimitIsHonoured, Sound, SoundEntry, Running
<1> QED BY <1>1, <1>2

\* A step that gives one call a sound state, and an entry a true one.
LEMMA UpdateKeeps ==
    ASSUME AllSound, NEW c \in Callers, NEW new, Sound(new, github),
           calls' = [calls EXCEPT ![c] = new], UNCHANGED <<github, changes>>,
           \/ UNCHANGED entry
           \/ \E ep \in Endpoints, e \in Entry :
                 entry' = [entry EXCEPT ![ep] = e] /\ e.value \in e.seen
    PROVE  AllSound'
<1>1. new \in Call
  BY DEF Sound
<1>2. calls' \in [Callers -> Call] /\ \A d \in Callers : Sound(calls'[d], github)
  BY <1>1 DEF AllSound
<1>3. entry' \in [Endpoints -> Entry \cup {None}] /\ \A ep \in Endpoints : SoundEntry(entry'[ep])
  <2>1. CASE UNCHANGED entry
    BY <2>1 DEF AllSound
  <2>2. ASSUME NEW ep \in Endpoints, NEW e \in Entry, entry' = [entry EXCEPT ![ep] = e],
               e.value \in e.seen
        PROVE  /\ entry' \in [Endpoints -> Entry \cup {None}]
               /\ \A q \in Endpoints : SoundEntry(entry'[q])
    BY <2>2 DEF AllSound, SoundEntry
  <2> QED BY <2>1, <2>2
<1>4. UNCHANGED <<github, changes>>
  OBVIOUS
<1> QED BY <1>2, <1>3, <1>4 DEF AllSound

LEMMA ConstantsTyped ==
    /\ Second \in Durations /\ 0 \in Durations /\ 0 \in 0..MaxRetries /\ 0 \in Values
BY DurationsAssumption, RetriesAssumption, ChangesAssumption DEF Durations, Values

LEMMA NewCallSound ==
    ASSUME github \in [Endpoints -> Values], NEW ep \in Endpoints
    PROVE  Sound(NewCall(ep), github)
BY ConstantsTyped DEF NewCall, Sound, Call

LEMMA EndedSound ==
    ASSUME NEW call \in Call, NEW reply \in {"answer", "rateLimited", "error"},
           reply = "answer" => call.value \in call.seen
    PROVE  Sound(Ended(call, reply), github)
<1> DEFINE new == Ended(call, reply)
<1>1. /\ new.at = "idle" /\ new.reply = reply /\ new.value = call.value
      /\ new.seen = IF reply = "answer" THEN call.seen ELSE {}
  BY DEF Ended, Call
<1>2. new \in Call
  BY ConstantsTyped DEF Ended, Call, Endpoints
<1> QED BY <1>1, <1>2 DEF Sound

\* The next attempt, or the end of the call when none is left.
LEMMA TrySound ==
    ASSUME NEW call \in Call, call.reply # "answer", github[call.endpoint] \in call.seen
    PROVE  Sound(IF call.attempt < MaxRetries THEN [call EXCEPT !.at = "request"]
                 ELSE Ended(call, "rateLimited"), github)
<1>1. CASE call.attempt < MaxRetries
  <2> DEFINE new == [call EXCEPT !.at = "request"]
  <2>1. /\ new \in Call /\ new.at = "request" /\ new.reply = call.reply /\ new.seen = call.seen
        /\ new.endpoint = call.endpoint /\ new.attempt = call.attempt
    BY DEF Call
  <2> QED BY <1>1, <2>1 DEF Sound
<1>2. CASE ~(call.attempt < MaxRetries)
  BY <1>2, EndedSound
<1> QED BY <1>1, <1>2

-----------------------------------------------------------------------------
(* The steps. *)

LEMMA BeginKeeps == ASSUME AllSound, NEW c \in Callers, Begin(c) PROVE AllSound'
<1>1. PICK ep \in Endpoints : calls' = [calls EXCEPT ![c] = NewCall(ep)]
  BY DEF Begin
<1>2. Sound(NewCall(ep), github)
  BY NewCallSound DEF AllSound
<1> QED BY <1>1, <1>2, UpdateKeeps DEF Begin

LEMMA CacheGetKeeps == ASSUME AllSound, NEW c \in Callers, CacheGet(c) PROVE AllSound'
<1> DEFINE call == calls[c]
           hit == entry[call.endpoint]
           told == [call EXCEPT !.value = hit.value, !.seen = call.seen \cup hit.seen]
<1>1. /\ call \in Call /\ call.at = "get" /\ Sound(call, github)
      /\ call.reply # "answer" /\ github[call.endpoint] \in call.seen
  BY DEF CacheGet, AllSound, Sound
<1>2. call.endpoint \in Endpoints /\ SoundEntry(hit)
  BY <1>1 DEF AllSound, Call
<1>3. CASE hit # None /\ calls' = [calls EXCEPT ![c] = Ended(told, "answer")]
  <2>1. hit.value \in Values /\ hit.seen \subseteq Values /\ hit.value \in hit.seen
    BY <1>2, <1>3 DEF SoundEntry, Entry
  <2>2. told \in Call /\ told.value \in told.seen
    BY <1>1, <2>1 DEF Call
  <2> HIDE DEF told
  <2>3. Sound(Ended(told, "answer"), github)
    BY <2>2, EndedSound
  <2> QED BY <1>3, <2>3, UpdateKeeps DEF CacheGet
<1>4. CASE Try(c, call)
  <2>1. Sound(IF call.attempt < MaxRetries THEN [call EXCEPT !.at = "request"]
              ELSE Ended(call, "rateLimited"), github)
    BY <1>1, TrySound
  <2> QED BY <1>4, <2>1, UpdateKeeps DEF CacheGet, Try
<1> QED BY <1>3, <1>4 DEF CacheGet

LEMMA SendRequestKeeps == ASSUME AllSound, NEW c \in Callers, SendRequest(c) PROVE AllSound'
<1> DEFINE call == calls[c]
           v == github[call.endpoint]
<1>1. /\ call \in Call /\ call.at = "request" /\ Sound(call, github)
      /\ call.reply # "answer" /\ v \in call.seen /\ call.attempt < MaxRetries
      /\ UNCHANGED <<entry, github, changes>>
  BY DEF SendRequest, AllSound, Sound
<1>2. v \in Values /\ call.endpoint \in Endpoints /\ call.backoff \in Durations
  BY <1>1 DEF AllSound, Call
<1>3. CASE Return(c, "error")
  <2>1. Sound(Ended(call, "error"), github)
    BY <1>1, EndedSound
  <2> QED BY <1>1, <1>3, <2>1, UpdateKeeps DEF Return
<1>4. CASE Answer(c, v)
  <2>1. CASE calls' = [calls EXCEPT ![c] = [call EXCEPT !.at = "set", !.value = v]]
    <3> DEFINE new == [call EXCEPT !.at = "set", !.value = v]
    <3>1. /\ new \in Call /\ new.at = "set" /\ new.value = v /\ new.seen = call.seen
          /\ new.reply = call.reply /\ new.endpoint = call.endpoint
      BY <1>1, <1>2 DEF Call
    <3> HIDE DEF new
    <3>2. Sound(new, github)
      BY <1>1, <3>1 DEF Sound
    <3> QED BY <1>1, <2>1, <3>2, UpdateKeeps DEF new
  <2>2. CASE calls' = [calls EXCEPT ![c] = Ended([call EXCEPT !.value = v], "answer")]
    <3> DEFINE told == [call EXCEPT !.value = v]
    <3>1. told \in Call /\ told.value \in told.seen
      BY <1>1, <1>2 DEF Call
    <3>2. Sound(Ended(told, "answer"), github)
      BY <3>1, EndedSound
    <3> QED BY <1>1, <2>2, <3>2, UpdateKeeps
  <2> QED BY <1>4, <2>1, <2>2 DEF Answer
<1>5. ASSUME NEW d \in Durations, NEW l \in Limits \cup {None}, WaitFor(c, d, l),
             l # None => Honoured(d, l, call.backoff)
      PROVE  AllSound'
  <2> DEFINE new == [call EXCEPT !.at = "wait", !.wait = d, !.limit = l]
  <2>1. /\ new \in Call /\ new.at = "wait" /\ new.wait = d /\ new.limit = l
        /\ new.seen = call.seen /\ new.reply = call.reply /\ new.endpoint = call.endpoint
        /\ new.attempt = call.attempt /\ new.backoff = call.backoff
    BY <1>1 DEF Call
  <2>2. calls' = [calls EXCEPT ![c] = new]
    BY <1>5 DEF WaitFor
  <2> HIDE DEF new
  <2>3. Sound(new, github)
    BY <1>1, <1>5, <2>1 DEF Sound
  <2> QED BY <1>1, <2>2, <2>3, UpdateKeeps
<1>6. CASE WaitFor(c, call.backoff, None)
  BY <1>2, <1>5, <1>6
<1>7. CASE \E l \in Limits : WaitFor(c, CalcRateLimitWait(l, call.backoff), l)
  BY <1>2, <1>5, <1>7, LimitHonoured
<1> QED BY <1>3, <1>4, <1>6, <1>7 DEF SendRequest, Unexpected

LEMMA SleepKeeps == ASSUME AllSound, NEW c \in Callers, Sleep(c) PROVE AllSound'
<1> DEFINE call == calls[c]
           next == [call EXCEPT !.attempt = call.attempt + 1, !.backoff = Wrap(2 * call.backoff),
                                !.wait = 0, !.limit = None]
<1>1. /\ call \in Call /\ call.at = "wait" /\ Sound(call, github)
      /\ call.reply # "answer" /\ github[call.endpoint] \in call.seen
      /\ call.attempt < MaxRetries /\ UNCHANGED <<entry, github, changes>>
  BY DEF Sleep, AllSound, Sound
<1>2. CASE Return(c, "error")
  <2>1. Sound(Ended(call, "error"), github)
    BY <1>1, EndedSound
  <2> QED BY <1>1, <1>2, <2>1, UpdateKeeps DEF Return
<1>3. CASE Try(c, next)
  <2>1. call.attempt + 1 \in 0..MaxRetries
    BY <1>1, RetriesAssumption DEF Call
  <2>2. Wrap(2 * call.backoff) \in Durations
    <3>1. call.backoff \in Int
      BY <1>1, DurationsAssumption DEF Call, Durations
    <3> QED BY <3>1, WrapTyped
  <2>3. /\ next \in Call /\ next.reply = call.reply /\ next.seen = call.seen
        /\ next.endpoint = call.endpoint
    BY <1>1, <2>1, <2>2, ConstantsTyped DEF Call
  <2> HIDE DEF next
  <2>4. Sound(IF next.attempt < MaxRetries THEN [next EXCEPT !.at = "request"]
              ELSE Ended(next, "rateLimited"), github)
    BY <1>1, <2>3, TrySound
  <2> QED BY <1>1, <1>3, <2>4, UpdateKeeps DEF Try
<1> QED BY <1>2, <1>3 DEF Sleep

LEMMA CacheSetKeeps == ASSUME AllSound, NEW c \in Callers, CacheSet(c) PROVE AllSound'
<1> DEFINE call == calls[c]
<1>1. /\ call \in Call /\ call.at = "set" /\ Sound(call, github) /\ call.value \in call.seen
      /\ calls' = [calls EXCEPT ![c] = Ended(call, "answer")] /\ UNCHANGED <<github, changes>>
  BY DEF CacheSet, AllSound, Sound, Return
<1>2. Sound(Ended(call, "answer"), github)
  BY <1>1, EndedSound
<1>3. Stored(call) \in Entry /\ Stored(call).value \in Stored(call).seen
  BY <1>1 DEF Stored, Entry, Call
<1>4. call.endpoint \in Endpoints
  BY <1>1 DEF Call
<1> QED BY <1>1, <1>2, <1>3, <1>4, UpdateKeeps DEF CacheSet

LEMMA CancelKeeps == ASSUME AllSound, NEW c \in Callers, Cancel(c) PROVE AllSound'
<1> DEFINE call == calls[c]
           new == [call EXCEPT !.ctx = "done"]
<1>1. call \in Call /\ Sound(call, github)
  BY DEF AllSound, Sound
<1>2. /\ new \in Call /\ new.at = call.at /\ new.reply = call.reply /\ new.value = call.value
      /\ new.seen = call.seen /\ new.endpoint = call.endpoint /\ new.attempt = call.attempt
      /\ new.wait = call.wait /\ new.limit = call.limit /\ new.backoff = call.backoff
  BY <1>1 DEF Call
<1>3. calls' = [calls EXCEPT ![c] = new] /\ UNCHANGED <<entry, github, changes>>
  BY DEF Cancel
<1> HIDE DEF new
<1>4. Sound(new, github)
  BY <1>1, <1>2 DEF Sound
<1> QED BY <1>3, <1>4, UpdateKeeps

LEMMA CacheExpiresKeeps ==
    ASSUME AllSound, NEW ep \in Endpoints, CacheExpires(ep)
    PROVE  AllSound'
BY DEF CacheExpires, AllSound, SoundEntry

\* The history of every call and entry the answer is about takes it up.
LEMMA GitHubChangesKeeps ==
    ASSUME AllSound, NEW ep \in Endpoints, NEW v \in Values, GitHubChanges(ep, v)
    PROVE  AllSound'
<1>1. /\ github' \in [Endpoints -> Values] /\ github'[ep] = v
      /\ \A q \in Endpoints \ {ep} : github'[q] = github[q]
  BY DEF GitHubChanges, AllSound
<1>2. changes' \in 0..MaxChanges
  BY ChangesAssumption DEF GitHubChanges, AllSound
<1>3. ASSUME NEW c \in Callers PROVE calls'[c] \in Call /\ Sound(calls'[c], github')
  <2>1. calls[c] \in Call /\ Sound(calls[c], github) /\ calls[c].endpoint \in Endpoints
    BY DEF AllSound, Sound, Call
  <2>2. CASE Running(c) /\ calls[c].endpoint = ep
    <3> DEFINE new == [calls[c] EXCEPT !.seen = calls[c].seen \cup {v}]
    <3>1. calls'[c] = new
      BY <2>2 DEF GitHubChanges
    <3>2. /\ new \in Call /\ new.at = calls[c].at /\ new.reply = calls[c].reply
          /\ new.value = calls[c].value /\ new.seen = calls[c].seen \cup {v}
          /\ new.endpoint = calls[c].endpoint /\ new.attempt = calls[c].attempt
          /\ new.wait = calls[c].wait /\ new.limit = calls[c].limit
          /\ new.backoff = calls[c].backoff
      BY <2>1 DEF Call
    <3> HIDE DEF new
    <3> QED BY <1>1, <2>1, <2>2, <3>1, <3>2 DEF Sound
  <2>3. CASE ~(Running(c) /\ calls[c].endpoint = ep)
    <3>1. calls'[c] = calls[c]
      BY <2>3 DEF GitHubChanges
    <3> QED BY <1>1, <2>1, <2>3, <3>1 DEF Sound, Running
  <2> QED BY <2>2, <2>3
<1>4. calls' \in [Callers -> Call]
  BY <1>3 DEF GitHubChanges
<1>5. ASSUME NEW q \in Endpoints PROVE entry'[q] \in Entry \cup {None} /\ SoundEntry(entry'[q])
  <2>1. SoundEntry(entry[q]) /\ entry \in [Endpoints -> Entry \cup {None}]
    BY DEF AllSound
  <2>2. CASE q # ep \/ entry[q] = None
    <3>1. entry'[q] = entry[q]
      BY <2>1, <2>2 DEF GitHubChanges
    <3> QED BY <2>1, <3>1
  <2>3. CASE q = ep /\ entry[q] # None
    <3>1. entry'[q] = [entry[q] EXCEPT !.seen = entry[q].seen \cup {v}]
      BY <2>3 DEF GitHubChanges
    <3>2. entry[q] \in Entry /\ entry[q].value \in entry[q].seen
      BY <2>1, <2>3 DEF SoundEntry
    <3> QED BY <3>1, <3>2 DEF SoundEntry, Entry
  <2> QED BY <2>2, <2>3
<1>6. entry' \in [Endpoints -> Entry \cup {None}]
  <2>1. entry' = [q \in Endpoints |-> entry'[q]]
    BY DEF GitHubChanges, AllSound
  <2> QED BY <1>5, <2>1
<1> QED BY <1>1, <1>2, <1>3, <1>4, <1>5, <1>6 DEF AllSound

LEMMA NextKeeps == ASSUME IInv, [Next]_vars PROVE IInv'
<1>1. AllSound
  BY InvariantByCall
<1>2. AllSound'
  <2>1. CASE UNCHANGED vars
    BY <1>1, <2>1 DEF vars, AllSound
  <2> QED BY <1>1, <2>1, BeginKeeps, CacheGetKeeps, SendRequestKeeps, SleepKeeps, CacheSetKeeps,
            CancelKeeps, CacheExpiresKeeps, GitHubChangesKeeps DEF Next, CallStep
<1>3. AllSound' => IInv'
  BY DEF IInv, AllSound, TypeOK, CallsFollowGitHub, EntriesWereTrue, AnswersWereTrue,
         RateLimitIsHonoured, Sound, SoundEntry, Running
<1> QED BY <1>2, <1>3

LEMMA InitInvariant == ASSUME Init PROVE IInv
<1>1. 0 \in Values /\ 1 \in Values
  BY ChangesAssumption DEF Values
<1>2. github \in [Endpoints -> Values]
  BY <1>1 DEF Init
<1>3. "repo_exists" \in Endpoints
  BY DEF Endpoints
<1> DEFINE idle == [NewCall("repo_exists") EXCEPT !.at = "idle", !.seen = {}]
<1>4. NewCall("repo_exists") \in Call /\ NewCall("repo_exists").reply = "none"
  BY <1>2, <1>3, NewCallSound DEF Sound, NewCall
<1>5. idle \in Call /\ idle.at = "idle" /\ idle.reply = "none"
  BY <1>4 DEF Call
<1>6. calls = [c \in Callers |-> idle] /\ entry = [ep \in Endpoints |-> None] /\ changes = 0
  BY DEF Init
<1> HIDE DEF idle
<1>7. AllSound
  BY <1>2, <1>5, <1>6, ChangesAssumption DEF AllSound, Sound, SoundEntry
<1> QED BY <1>7, InvariantByCall

-----------------------------------------------------------------------------
(* Every behaviour. *)

\* The inductive invariant holds for any number of callers, whatever GitHub
\* and Redis answer and whenever they change their minds.
THEOREM Invariance == Spec => []IInv
<1>1. Init => IInv
  BY InitInvariant
<1>2. IInv /\ [Next]_vars => IInv'
  BY NextKeeps
<1> QED BY <1>1, <1>2, PTL DEF Spec

\* Attempts stay within the limit, and backoffs and waits within int64.
THEOREM TypeCorrect == Spec => []TypeOK
<1>1. IInv => TypeOK
  BY DEF IInv
<1> QED BY <1>1, Invariance, PTL

\* No failure and no stale entry is ever taken for an answer GitHub never gave.
THEOREM AnswersAreTrue == Spec => []AnswersWereTrue
<1>1. IInv => AnswersWereTrue
  BY DEF IInv
<1> QED BY <1>1, Invariance, PTL

\* A wait for a rate limit never exceeds its cap, not even where a header
\* overflows a Duration; where nothing overflows it is what the headers ask for.
THEOREM WaitsAsAsked == Spec => []RateLimitIsHonoured
<1>1. IInv => RateLimitIsHonoured
  BY DEF IInv
<1> QED BY <1>1, Invariance, PTL
=============================================================================
