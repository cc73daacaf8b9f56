--------------------------- MODULE ScannerProofs ---------------------------
(* Theorems about Scanner for every value of its constants. *)
EXTENDS Scanner, TLAPS

-----------------------------------------------------------------------------
(* Faults. *)

FaultsTyped == faults \in [stale : 0..MaxFaults, other : 0..MaxFaults]

\* A step counts no fault, or more of them than before.
FaultsGrow ==
    /\ FaultsTyped'
    /\ FaultCount' >= FaultCount
    /\ faults'.stale >= faults.stale

LEMMA FaultCounts ==
    ASSUME FaultsTyped
    PROVE  /\ FaultCount \in Nat /\ faults.stale \in Nat
           /\ faults.stale > 0 => FaultCount > 0
           /\ UNCHANGED faults => FaultsGrow /\ FaultCount' = FaultCount
           /\ \A kind : Fault(kind) =>
                 /\ FaultsGrow
                 /\ FaultCount' = FaultCount + 1
                 /\ kind \in Staleness => faults'.stale > 0
<1>1. faults.stale \in 0..MaxFaults /\ faults.other \in 0..MaxFaults
  BY DEF FaultsTyped
<1>2. FaultCount \in Nat /\ faults.stale \in Nat /\ (faults.stale > 0 => FaultCount > 0)
  BY <1>1, BoundsAssumption DEF FaultCount
<1>3. UNCHANGED faults => FaultsGrow /\ FaultCount' = FaultCount
  BY <1>1, <1>2 DEF FaultsGrow, FaultsTyped, FaultCount
<1>4. ASSUME NEW kind, Fault(kind)
      PROVE  /\ FaultsGrow
             /\ FaultCount' = FaultCount + 1
             /\ kind \in Staleness => faults'.stale > 0
  <2>1. CASE kind \in Staleness
    <3>1. faults' = [stale |-> faults.stale + 1, other |-> faults.other]
      BY <1>4, <2>1 DEF Fault, FaultsTyped
    <3> QED BY <1>1, <1>4, <3>1, BoundsAssumption DEF Fault, FaultsGrow, FaultsTyped, FaultCount
  <2>2. CASE kind \notin Staleness
    <3>1. faults' = [stale |-> faults.stale, other |-> faults.other + 1]
      BY <1>4, <2>2 DEF Fault, FaultsTyped
    <3> QED BY <1>1, <1>4, <2>2, <3>1, BoundsAssumption
            DEF Fault, FaultsGrow, FaultsTyped, FaultCount
  <2> QED BY <2>1, <2>2
<1> QED BY <1>2, <1>3, <1>4

-----------------------------------------------------------------------------
(* Rows and copies. *)

LEMMA CopyTypes ==
    ASSUME TypeOK, NEW i \in Ids, NEW t \in Tags
    PROVE  <<i, t>> \in Ids \X Tags /\ copies[<<i, t>>] \in Nat
BY DEF TypeOK

\* An id in the table is below the bound, so copies are counted for it.
LEMMA RowTypes ==
    ASSUME IInv, NEW s \in subscriptions
    PROVE  /\ s.id \in Ids /\ s.email \in Emails /\ s.repo \in Repos
           /\ s.confirmed \in BOOLEAN
           /\ \A t \in Tags : copies[<<s.id, t>>] \in Nat
<1>1. s \in SubscriptionRow /\ s.id <= serial /\ serial \in 0..MaxSerial
  BY DEF IInv, TypeOK, StoreTypeOK, IdsAreKeys
<1>2. s.id \in Ids /\ s.email \in Emails /\ s.repo \in Repos /\ s.confirmed \in BOOLEAN
  BY <1>1, BoundsAssumption DEF SubscriptionRow, Ids
<1> QED BY <1>2, CopyTypes DEF IInv

\* As long as GitHub is the same, mails to come come from the cache or the tables.
LEMMA ComingBounds ==
    ASSUME NEW r, NEW t, UNCHANGED latest
    PROVE  /\ Coming(r, t) \in Nat /\ Coming(r, t)' \in Nat
           /\ Coming(r, t)' <= Coming(r, t) + 1
           /\ (Later(r, t)' => Later(r, t)) => Coming(r, t)' <= Coming(r, t)
BY DEF Coming

-----------------------------------------------------------------------------
(* The steps of a cycle outside the announcement of a release. *)

\* The scanner is, after the step, not about to announce or record anything.
AtRest ==
    /\ pc' \in PCs \ Announcing
    /\ pc' = "fetch" <=> current' # None
    /\ queue' \subseteq Watch /\ current' \in Watch \cup {None} /\ current' \notin queue'
    /\ \A w \in queue' \cup ({current'} \ {None}) : w.seen = lastSeenTag'[w.repo]
    /\ release' \in Nat
    /\ unsent' = {}
    /\ mail' \in [id : {0} \cup Ids, attempt : 0..(MaxAttempts - 1)]
    /\ cycleCtx' \in Contexts /\ repoCtx' \in Contexts
    /\ due' = {} /\ excused' = {}

\* The step leaves an announcement that would have gone on only by a fault.
LeavesForCause ==
    FaultCount' > FaultCount \/ pc \notin Announcing \/ repoCtx = "done"

LEMMA RestKeeps ==
    ASSUME IInv, AtRest, FaultsGrow, LeavesForCause,
           UNCHANGED <<store, github, serial, copies, baseline>>
    PROVE  IInv'
<1> USE DEF store, github
<1>1. TypeOK'
  BY DEF IInv, TypeOK, StoreTypeOK, AtRest, FaultsGrow, FaultsTyped
<1>2. LocalsOK'
  BY DEF AtRest, LocalsOK, Checking, Announcing
<1>3. OnlyConfirmedAreMailed'
  BY DEF IInv, OnlyConfirmedAreMailed
<1>4. IdsAreKeys' /\ RecipientsAreConfirmed'
  BY DEF IInv, IdsAreKeys, RecipientsAreConfirmed, AtRest
<1>5. SnapshotIsFresh' /\ CacheAgrees' /\ TriedSoFar'
  BY DEF SnapshotIsFresh, CacheAgrees, TriedSoFar, AtRest, Announcing
<1>6. faults.stale \in Nat /\ faults'.stale \in Nat /\ FaultCount \in Nat /\ FaultCount' \in Nat
  BY DEF IInv, TypeOK, FaultsGrow, FaultsTyped, FaultCount
<1>7. faults'.stale = 0 => faults.stale = 0
  BY <1>6 DEF FaultsGrow
<1>8. TagsAdvance' /\ TagsArePublished'
  BY <1>7 DEF IInv, TagsAdvance, TagsArePublished, AtRest
<1>9. NewsFollowsBaseline'
  BY <1>7 DEF IInv, NewsFollowsBaseline
<1>10. CopiesPaidFor'
  BY <1>6 DEF IInv, TypeOK, CopiesPaidFor, FaultsGrow
<1>11. CopiesAccounted'
  <2> SUFFICES ASSUME NEW s \in subscriptions, NEW t \in Tags
               PROVE  copies[<<s.id, t>>] + MailsToCome(s, t)' <= 1 + FaultCount'
    BY DEF CopiesAccounted, AtRest
  <2>1. copies[<<s.id, t>>] + MailsToCome(s, t) <= 1 + FaultCount /\ copies[<<s.id, t>>] \in Nat
    BY RowTypes DEF IInv, CopiesAccounted
  <2>2. ~Soon(s, t)' /\ (Later(s.repo, t)' => Later(s.repo, t) \/ FaultCount' > FaultCount)
    BY DEF LeavesForCause, AtRest, Soon, Later, Settled, Announcing
  <2>3. /\ Coming(s.repo, t) \in Nat /\ Coming(s.repo, t)' \in Nat
        /\ Coming(s.repo, t)' <= Coming(s.repo, t) + FaultCount' - FaultCount
    BY <1>6, <2>2, ComingBounds DEF FaultsGrow
  <2> QED BY <1>6, <2>1, <2>2, <2>3 DEF MailsToCome, FaultsGrow
<1> QED BY <1>1, <1>2, <1>3, <1>4, <1>5, <1>8, <1>9, <1>10, <1>11 DEF IInv

\* Outside an announcement there is nobody to mail, and nothing due.
LEMMA Quiescent ==
    ASSUME IInv, pc \notin Announcing
    PROVE  unsent = {} /\ due = {} /\ excused = {}
BY DEF IInv, TypeOK, LocalsOK, Announcing

LEMMA NoMailTyped == NoMail \in [id : {0} \cup Ids, attempt : 0..(MaxAttempts - 1)]
BY BoundsAssumption DEF NoMail

LEMMA CycleEndsAtRest ==
    ASSUME CycleEnds, due' = {}, excused' = {}
    PROVE  AtRest
BY NoMailTyped DEF CycleEnds, AtRest, PCs, Announcing, Contexts, NoTag

LEMMA CheckEndsAtRest ==
    ASSUME IInv, CheckEnds, UNCHANGED lastSeenTag
    PROVE  AtRest
<1>1. \A w \in queue : w.seen = lastSeenTag[w.repo]
  BY DEF IInv, SnapshotIsFresh
<1>2. None \notin queue /\ queue \subseteq Watch /\ cycleCtx \in Contexts
  BY NoneAssumption DEF IInv, TypeOK, Watch
<1>3. pc' \in PCs \ Announcing /\ pc' # "fetch"
  BY DEF CheckEnds, PCs, Announcing
<1> QED BY <1>1, <1>2, <1>3, NoMailTyped DEF CheckEnds, AtRest, NoTag

LEMMA StartCycleKeeps == ASSUME IInv, StartCycle PROVE IInv'
<1>1. pc \notin Announcing /\ current = None
  BY DEF IInv, StartCycle, Announcing, LocalsOK, Checking
<1>2. AtRest
  BY <1>1, Quiescent DEF StartCycle, IInv, TypeOK, AtRest, PCs, Announcing, SnapshotIsFresh,
                         LocalsOK, history, store
<1> QED BY <1>1, <1>2, RestKeeps, FaultCounts
        DEF IInv, TypeOK, FaultsTyped, StartCycle, LeavesForCause, history

LEMMA ListReposKeeps == ASSUME IInv, ListRepos PROVE IInv'
<1>1. pc \notin Announcing /\ current = None /\ due' = {} /\ excused' = {}
  BY Quiescent DEF IInv, ListRepos, Announcing, LocalsOK, Checking, history
<1>2. FaultsGrow
  BY FaultCounts DEF ListRepos, IInv, TypeOK, FaultsTyped
<1>3. AtRest
  <2>1. CASE CycleEnds
    BY <1>1, <2>1, CycleEndsAtRest
  <2>2. CASE ~CycleEnds
    <3>1. queue' = {[repo |-> r, seen |-> lastSeenTag[r]] : r \in GetRepositoriesWithConfirmedSubs}
      BY <2>2 DEF ListRepos
    <3>2. GetRepositoriesWithConfirmedSubs \subseteq Repos
      BY DEF GetRepositoriesWithConfirmedSubs, IInv, TypeOK, StoreTypeOK
    <3>3. queue' \subseteq Watch /\ \A w \in queue' : w.seen = lastSeenTag[w.repo]
      BY <3>1, <3>2 DEF Watch, IInv, TypeOK, StoreTypeOK
    <3>4. None \notin queue'
      BY <3>3, NoneAssumption DEF Watch
    <3>5. unsent = {}
      BY <1>1, Quiescent
    <3> QED BY <1>1, <2>2, <3>3, <3>4, <3>5
            DEF ListRepos, AtRest, PCs, Announcing, IInv, TypeOK, store
  <2> QED BY <2>1, <2>2
<1> QED BY <1>1, <1>2, <1>3, RestKeeps DEF ListRepos, LeavesForCause, history

LEMMA NextRepoKeeps == ASSUME IInv, NextRepo PROVE IInv'
<1>1. pc \notin Announcing /\ current = None /\ due' = {} /\ excused' = {}
  BY Quiescent DEF IInv, NextRepo, Announcing, LocalsOK, Checking, history
<1>2. FaultsGrow
  BY FaultCounts DEF NextRepo, IInv, TypeOK, FaultsTyped
<1>3. AtRest
  <2>1. CASE CycleEnds
    BY <1>1, <2>1, CycleEndsAtRest
  <2>2. CASE ~CycleEnds
    <3>1. PICK w \in queue : current' = w /\ queue' = queue \ {w}
      BY <2>2 DEF NextRepo
    <3>2. queue \subseteq Watch /\ None \notin queue /\ \A v \in queue : v.seen = lastSeenTag[v.repo]
      BY NoneAssumption DEF IInv, TypeOK, Watch, SnapshotIsFresh
    <3>3. unsent = {}
      BY <1>1, Quiescent
    <3> QED BY <1>1, <2>2, <3>1, <3>2, <3>3
            DEF NextRepo, AtRest, PCs, Announcing, IInv, TypeOK, store
  <2> QED BY <2>1, <2>2
<1> QED BY <1>1, <1>2, <1>3, RestKeeps DEF NextRepo, LeavesForCause, history

LEMMA CrashKeeps == ASSUME IInv, Crash PROVE IInv'
<1>1. FaultsGrow /\ FaultCount' > FaultCount
  BY FaultCounts DEF Crash, IInv, TypeOK, FaultsTyped
<1> QED BY <1>1, CycleEndsAtRest, RestKeeps DEF Crash, LeavesForCause

-----------------------------------------------------------------------------
(* The steps of an announcement that deliver no mail. *)

\* Whoever is listed has a confirmed row of that repository, and only one.
LEMMA ConfirmedRows ==
    ASSUME IInv, NEW r \in Repos
    PROVE  /\ Confirmed(r) \subseteq Ids /\ Confirmed(r) \subseteq 1..serial
           /\ \A s \in subscriptions : s.id \in Confirmed(r) <=> s.repo = r /\ s.confirmed
           /\ \A i \in Confirmed(r) : \E s \in subscriptions : s.id = i
<1>1. \A s \in subscriptions : s.id \in Ids /\ s.id \in 1..serial
  BY RowTypes DEF IInv, IdsAreKeys, TypeOK, Ids
<1>2. \A s, t \in subscriptions : s.id = t.id => s = t
  BY DEF IInv, IdsAreKeys
<1> QED BY <1>1, <1>2 DEF Confirmed, GetConfirmedSubscriptionsByRepoID

LEMMA CurrentTyped ==
    ASSUME IInv, pc \in Checking
    PROVE  current \in Watch /\ current.repo \in Repos /\ current.seen \in Nat
           /\ current.seen = lastSeenTag[current.repo]
BY DEF IInv, TypeOK, LocalsOK, Watch, SnapshotIsFresh

LEMMA ReleaseIsTag == ASSUME IInv, pc \in Announcing PROVE release \in Tags
BY DEF IInv, LocalsOK

\* The announcement goes on, or stops to record its release.
Continues ==
    /\ pc \in Announcing /\ pc' \in Announcing
    /\ pc' \in {"recipients", "send"} => pc \in {"recipients", "send"}
    /\ pc' = "recipients" => pc = "recipients"
    /\ unsent' # {} => pc' = "send"
    /\ unsent' \subseteq unsent \/ (pc = "recipients" /\ unsent' = Confirmed(current.repo))
    /\ mail' \in [id : {0} \cup Ids, attempt : 0..(MaxAttempts - 1)]
    /\ excused' \subseteq due
    /\ UNCHANGED <<store, queue, current, release, github, serial, baseline, due>>

LEMMA ContinueKeeps ==
    ASSUME IInv, Continues, FaultsGrow, TriedSoFar', UNCHANGED copies,
           cycleCtx' \in Contexts, repoCtx' \in Contexts,
           repoCtx' = repoCtx \/ (FaultCount' > FaultCount /\ repoCtx' = "done")
    PROVE  IInv'
<1> USE DEF store, github
<1>1. current.repo \in Repos
  BY CurrentTyped DEF Continues, Checking
<1>2. unsent' \subseteq Ids /\ unsent' \subseteq 1..serial
  BY <1>1, ConfirmedRows DEF Continues, IInv, TypeOK, IdsAreKeys
<1>3. TypeOK'
  BY <1>2 DEF IInv, TypeOK, StoreTypeOK, Continues, FaultsGrow, FaultsTyped, PCs, Announcing
<1>4. LocalsOK'
  BY DEF IInv, LocalsOK, Checking, Announcing, Continues
<1>5. OnlyConfirmedAreMailed' /\ SnapshotIsFresh'
  BY DEF IInv, OnlyConfirmedAreMailed, SnapshotIsFresh, Continues
<1>6. IdsAreKeys'
  BY <1>2 DEF IInv, IdsAreKeys, Continues
<1>7. RecipientsAreConfirmed'
  BY <1>1, ConfirmedRows DEF IInv, RecipientsAreConfirmed, Continues
<1>8. faults.stale \in Nat /\ faults'.stale \in Nat /\ FaultCount \in Nat /\ FaultCount' \in Nat
  BY DEF IInv, TypeOK, FaultsGrow, FaultsTyped, FaultCount
<1>9. CacheAgrees'
  BY <1>8 DEF IInv, CacheAgrees, Continues, FaultsGrow
<1>10. TagsAdvance' /\ TagsArePublished' /\ NewsFollowsBaseline'
  BY <1>8 DEF IInv, TagsAdvance, TagsArePublished, NewsFollowsBaseline, Continues, FaultsGrow
<1>11. CopiesPaidFor'
  BY <1>8 DEF IInv, TypeOK, CopiesPaidFor, FaultsGrow
<1>12. CopiesAccounted'
  <2>1. ASSUME NEW s \in subscriptions, NEW t \in Tags
        PROVE  copies[<<s.id, t>>] + MailsToCome(s, t)' <= 1 + FaultCount'
    <3>1. /\ copies[<<s.id, t>>] + MailsToCome(s, t) <= 1 + FaultCount
          /\ copies[<<s.id, t>>] \in Nat
          /\ Coming(s.repo, t) \in Nat /\ Coming(s.repo, t)' \in Nat
          /\ Coming(s.repo, t)' <= Coming(s.repo, t) + 1
      BY RowTypes, ComingBounds DEF IInv, CopiesAccounted, Continues
    <3>2. CASE repoCtx' = repoCtx
      <4>1. Soon(s, t)' => Soon(s, t)
        BY <1>1, <3>2, ConfirmedRows DEF Soon, Continues
      <4>2. Coming(s.repo, t)' = Coming(s.repo, t)
        BY <3>2 DEF Coming, Later, Settled, Continues
      <4> QED BY <1>8, <3>1, <4>1, <4>2 DEF MailsToCome, FaultsGrow
    <3>3. CASE FaultCount' > FaultCount /\ repoCtx' = "done"
      <4>1. ~Soon(s, t)'
        BY <3>3 DEF Soon
      <4> QED BY <1>8, <3>1, <3>3, <4>1 DEF MailsToCome, FaultsGrow
    <3> QED BY <3>2, <3>3
  <2>2. ASSUME NEW i \in unsent', repoCtx' = "live"
        PROVE  copies[<<i, release>>] <= FaultCount'
    <3>1. repoCtx = "live"
      BY <2>2
    <3>2. CASE i \in unsent
      <4>1. copies[<<i, release>>] \in Nat
        BY <3>2, ReleaseIsTag, CopyTypes DEF IInv, TypeOK, Continues
      <4> QED BY <1>8, <3>1, <3>2, <4>1 DEF IInv, CopiesAccounted, FaultsGrow
    <3>3. CASE pc = "recipients" /\ i \in Confirmed(current.repo)
      <4>1. PICK s \in subscriptions : s.id = i /\ s.repo = current.repo
        BY <1>1, <3>3, ConfirmedRows
      <4>2. release \in Tags
        BY ReleaseIsTag DEF Continues
      <4>3. Soon(s, release)
        BY <3>1, <3>3, <4>1 DEF Soon
      <4>4. copies[<<i, release>>] + MailsToCome(s, release) <= 1 + FaultCount
        BY <4>1, <4>2 DEF IInv, CopiesAccounted
      <4>5. copies[<<i, release>>] \in Nat /\ Coming(s.repo, release) \in Nat
        BY <4>1, <4>2, RowTypes DEF Coming
      <4> QED BY <1>8, <4>3, <4>4, <4>5 DEF MailsToCome, FaultsGrow
    <3> QED BY <2>2, <3>2, <3>3 DEF Continues
  <2> QED BY <2>1, <2>2 DEF CopiesAccounted, Continues
<1> QED BY <1>3, <1>4, <1>5, <1>6, <1>7, <1>9, <1>10, <1>11, <1>12 DEF IInv

LEMMA ListSubscribersKeeps == ASSUME IInv, ListSubscribers PROVE IInv'
<1>1. pc = "recipients" /\ unsent = {} /\ current.repo \in Repos
  BY CurrentTyped DEF ListSubscribers, IInv, LocalsOK, Checking, Announcing
<1>2. FaultsGrow
  BY FaultCounts DEF ListSubscribers, IInv, TypeOK, FaultsTyped
<1>3. Continues
  BY <1>1 DEF ListSubscribers, Continues, Announcing, IInv, TypeOK
<1>4. TriedSoFar'
  <2> SUFFICES ASSUME repoCtx = "live", NEW s \in subscriptions, s.id \in due
               PROVE  s.id \in excused' \cup unsent'
    BY DEF TriedSoFar, ListSubscribers, store
  <2>1. s.id \in Confirmed(current.repo)
    BY <1>1, ConfirmedRows DEF IInv, RecipientsAreConfirmed
  <2> QED BY <2>1 DEF ListSubscribers
<1>5. UNCHANGED <<copies, cycleCtx, repoCtx>> /\ cycleCtx \in Contexts /\ repoCtx \in Contexts
  BY DEF ListSubscribers, IInv, TypeOK
<1> QED BY <1>2, <1>3, <1>4, <1>5, ContinueKeeps

LEMMA NotifyEndsKeeps == ASSUME IInv, NotifyEnds PROVE IInv'
<1>1. FaultsGrow
  BY FaultCounts DEF NotifyEnds, IInv, TypeOK, FaultsTyped
<1>2. Continues
  BY DEF NotifyEnds, Continues, Announcing, IInv, TypeOK, history
<1>3. TriedSoFar'
  BY DEF NotifyEnds, TriedSoFar, IInv, history, store
<1>4. UNCHANGED <<copies, cycleCtx, repoCtx>> /\ cycleCtx \in Contexts /\ repoCtx \in Contexts
  BY DEF NotifyEnds, IInv, TypeOK, history
<1> QED BY <1>1, <1>2, <1>3, <1>4, ContinueKeeps

\* A deadline during an announcement, or at any other time.
LEMMA DeadlineKeeps == ASSUME IInv, RepoDeadline \/ CycleDeadline PROVE IInv'
<1>1. FaultsGrow /\ FaultCount' > FaultCount
  BY FaultCounts DEF RepoDeadline, CycleDeadline, IInv, TypeOK, FaultsTyped
<1>2. /\ repoCtx' = "done" /\ cycleCtx' \in Contexts
      /\ UNCHANGED <<store, pc, queue, current, release, unsent, mail, github, serial, history>>
  BY DEF RepoDeadline, CycleDeadline, IInv, TypeOK, Contexts
<1>3. CASE pc \in Announcing
  <2>1. Continues /\ TriedSoFar'
    BY <1>2, <1>3 DEF Continues, TriedSoFar, IInv, TypeOK, LocalsOK, history
  <2> QED BY <1>1, <1>2, <2>1, ContinueKeeps DEF history, Contexts
<1>4. CASE pc \notin Announcing
  <2>1. unsent = {} /\ due = {} /\ excused = {}
    BY <1>4, Quiescent
  <2>2. AtRest
    BY <1>2, <1>4, <2>1 DEF AtRest, IInv, TypeOK, LocalsOK, SnapshotIsFresh, Contexts, history,
                            store, Checking, Announcing
  <2> QED BY <1>1, <1>2, <2>2, RestKeeps DEF LeavesForCause, history
<1> QED BY <1>3, <1>4

-----------------------------------------------------------------------------
(* One mail. *)

\* A copy is delivered to i, who stays on the list only at the price of a fault.
Delivers(i) ==
    /\ pc = "send" /\ repoCtx = "live" /\ i \in unsent /\ Deliver(i)
    /\ unsent' \subseteq unsent /\ unsent \ unsent' \subseteq {i}
    /\ i \notin unsent' \/ FaultCount' > FaultCount
    /\ mail' \in [id : {0} \cup Ids, attempt : 0..(MaxAttempts - 1)]
    /\ excused \subseteq excused' /\ excused' \subseteq due
    /\ UNCHANGED <<store, pc, queue, current, release, cycleCtx, repoCtx, github, serial,
                   baseline, due>>

LEMMA DeliverKeeps == ASSUME IInv, NEW i \in Ids, Delivers(i), FaultsGrow PROVE IInv'
<1> USE DEF store, github
<1>1. /\ release \in Tags /\ release \in Nat /\ current.repo \in Repos /\ current.seen \in Nat
      /\ current.seen = lastSeenTag[current.repo] /\ current.seen # NoTag
  BY ReleaseIsTag, CurrentTyped
     DEF Delivers, Announcing, Checking, IInv, TypeOK, LocalsOK
<1>2. /\ copies \in [Ids \X Tags -> Nat] /\ <<i, release>> \in Ids \X Tags
      /\ copies' = [copies EXCEPT ![<<i, release>>] = copies[<<i, release>>] + 1]
  BY <1>1 DEF IInv, TypeOK, Delivers, Deliver
<1>3. copies' \in [Ids \X Tags -> Nat]
  BY <1>2
<1>4. ASSUME NEW j \in Ids, NEW t \in Tags
      PROVE  /\ copies[<<j, t>>] \in Nat
             /\ copies'[<<j, t>>] = IF j = i /\ t = release THEN copies[<<j, t>>] + 1
                                    ELSE copies[<<j, t>>]
  BY <1>2
<1>5. TypeOK'
  BY <1>3 DEF IInv, TypeOK, StoreTypeOK, Delivers, FaultsGrow, FaultsTyped
<1>6. LocalsOK'
  BY DEF IInv, LocalsOK, Delivers, Announcing, Checking
<1>7. SnapshotIsFresh'
  BY DEF IInv, SnapshotIsFresh, Delivers
<1>8. IdsAreKeys'
  <2>1. i <= serial /\ i \in Nat /\ serial \in Nat
    BY BoundsAssumption DEF IInv, IdsAreKeys, TypeOK, Delivers, Ids
  <2>2. ASSUME NEW j \in Ids, NEW t \in Tags, j > serial PROVE copies'[<<j, t>>] = 0
    BY <1>4, <2>1, <2>2 DEF IInv, IdsAreKeys, Ids
  <2>3. unsent' \cup due' \subseteq 1..serial'
    BY DEF IInv, IdsAreKeys, Delivers
  <2>4. UNCHANGED <<subscriptions, serial>>
    BY DEF Delivers
  <2> QED BY <2>2, <2>3, <2>4 DEF IInv, IdsAreKeys
<1>9. RecipientsAreConfirmed'
  BY DEF IInv, RecipientsAreConfirmed, Delivers
<1>10. OnlyConfirmedAreMailed'
  BY <1>4, RowTypes DEF IInv, OnlyConfirmedAreMailed, RecipientsAreConfirmed, Delivers
<1>11. faults.stale \in Nat /\ faults'.stale \in Nat /\ FaultCount \in Nat /\ FaultCount' \in Nat
  BY DEF IInv, TypeOK, FaultsGrow, FaultsTyped, FaultCount
<1>12. CacheAgrees' /\ TagsAdvance' /\ TagsArePublished'
  BY <1>11 DEF IInv, CacheAgrees, TagsAdvance, TagsArePublished, Delivers, FaultsGrow
<1>13. NewsFollowsBaseline'
  <2> SUFFICES ASSUME faults'.stale = 0, NEW s \in subscriptions, NEW t \in Tags,
                      copies'[<<s.id, t>>] > 0
               PROVE  baseline[s.repo] # NoTag /\ t > baseline[s.repo]
    BY DEF NewsFollowsBaseline, Delivers
  <2>1. faults.stale = 0 /\ s.id \in Ids
    BY <1>11, RowTypes DEF FaultsGrow
  <2>2. CASE s.id = i /\ t = release
    <3>1. s.repo = current.repo
      BY <2>2 DEF IInv, RecipientsAreConfirmed, Delivers
    <3>2. /\ baseline[current.repo] \in Nat /\ baseline[current.repo] <= current.seen
          /\ current.seen < release /\ baseline[current.repo] # NoTag
      BY <1>1, <2>1 DEF IInv, TypeOK, TagsAdvance, Delivers, Announcing
    <3> QED BY <1>1, <2>2, <3>1, <3>2
  <2>3. CASE ~(s.id = i /\ t = release)
    BY <1>4, <2>1, <2>3 DEF IInv, NewsFollowsBaseline
  <2> QED BY <2>2, <2>3
<1>14. TriedSoFar'
  <2> SUFFICES ASSUME NEW s \in subscriptions, s.id \in due \ (excused' \cup unsent')
               PROVE  copies'[<<s.id, release>>] > 0
    BY DEF TriedSoFar, Delivers
  <2>1. s.id \in Ids
    BY RowTypes
  <2>2. CASE s.id = i
    BY <1>1, <1>4, <2>1, <2>2
  <2>3. CASE s.id # i
    <3>1. copies[<<s.id, release>>] > 0
      BY <2>3 DEF Delivers, IInv, TriedSoFar
    <3> QED BY <1>1, <1>4, <2>1, <2>3, <3>1
  <2> QED BY <2>2, <2>3
<1>15. copies[<<i, release>>] <= FaultCount
  BY DEF IInv, CopiesAccounted, Delivers
<1>16. CopiesPaidFor'
  <2> SUFFICES ASSUME NEW j \in Ids, NEW t \in Tags
               PROVE  copies'[<<j, t>>] <= 1 + FaultCount'
    BY DEF CopiesPaidFor
  <2>1. copies[<<j, t>>] <= 1 + FaultCount
    BY DEF IInv, CopiesPaidFor
  <2> QED BY <1>4, <1>11, <1>15, <2>1 DEF FaultsGrow
<1>17. CopiesAccounted'
  <2>1. ASSUME NEW s \in subscriptions, NEW t \in Tags
        PROVE  copies'[<<s.id, t>>] + MailsToCome(s, t)' <= 1 + FaultCount'
    <3>1. /\ copies[<<s.id, t>>] + MailsToCome(s, t) <= 1 + FaultCount
          /\ s.id \in Ids /\ Coming(s.repo, t) \in Nat
      BY RowTypes DEF IInv, CopiesAccounted, Coming
    <3>2. Coming(s.repo, t)' = Coming(s.repo, t)
      BY DEF Coming, Later, Settled, Delivers
    <3>3. CASE s.id = i /\ t = release
      <4>1. Soon(s, t) /\ (Soon(s, t)' => FaultCount' > FaultCount)
        BY <3>3 DEF Soon, Delivers
      <4> QED BY <1>4, <1>11, <3>1, <3>2, <3>3, <4>1 DEF MailsToCome, FaultsGrow
    <3>4. CASE ~(s.id = i /\ t = release)
      <4>1. Soon(s, t)' => Soon(s, t)
        BY DEF Soon, Delivers
      <4> QED BY <1>4, <1>11, <3>1, <3>2, <3>4, <4>1 DEF MailsToCome, FaultsGrow
    <3> QED BY <3>3, <3>4
  <2>2. ASSUME NEW j \in unsent' PROVE copies'[<<j, release>>] <= FaultCount'
    <3>1. j \in unsent /\ j \in Ids /\ (j = i => FaultCount' > FaultCount)
      BY <1>5, <2>2 DEF Delivers, TypeOK
    <3>2. copies[<<j, release>>] <= FaultCount
      BY <3>1 DEF IInv, CopiesAccounted, Delivers
    <3> QED BY <1>1, <1>4, <1>11, <3>1, <3>2 DEF FaultsGrow
  <2> QED BY <2>1, <2>2 DEF CopiesAccounted, Delivers
<1> QED BY <1>5, <1>6, <1>7, <1>8, <1>9, <1>10, <1>12, <1>13, <1>14, <1>16, <1>17 DEF IInv

\* After a transient error i is tried again, or given up.
LEMMA RetryEffect ==
    ASSUME IInv, NEW i \in unsent, Retry(i) \/ GiveUp(i)
    PROVE  /\ mail' \in [id : {0} \cup Ids, attempt : 0..(MaxAttempts - 1)]
           /\ excused \subseteq excused' /\ excused' \subseteq due
           /\ unsent' \subseteq unsent
           /\ unsent \ unsent' \subseteq {i}
           /\ unsent \cap due \subseteq excused' \cup unsent'
<1>1. i \in Ids /\ excused \subseteq due /\ mail.attempt \in 0..(MaxAttempts - 1)
  BY DEF IInv, TypeOK
<1>2. CASE GiveUp(i)
  BY <1>1, <1>2, NoMailTyped DEF GiveUp, DoneWith
<1>3. CASE Retry(i) /\ ~GiveUp(i)
  <2>1. mail' = [id |-> i, attempt |-> mail.attempt + 1] /\ mail.attempt + 1 < MaxAttempts
        /\ UNCHANGED <<unsent, excused>>
    BY <1>3 DEF Retry
  <2> QED BY <1>1, <2>1, BoundsAssumption
<1> QED BY <1>2, <1>3

LEMMA SendMailKeeps == ASSUME IInv, NEW i \in Ids, SendMail(i) PROVE IInv'
<1>1. /\ pc = "send" /\ i \in unsent /\ cycleCtx \in Contexts /\ repoCtx \in Contexts
      /\ UNCHANGED <<store, pc, queue, current, release, cycleCtx, repoCtx, github, serial,
                     baseline, due>>
  BY DEF SendMail, IInv, TypeOK
<1>2. DoneWith(i) => mail' \in [id : {0} \cup Ids, attempt : 0..(MaxAttempts - 1)]
  BY NoMailTyped DEF DoneWith
<1>3. CASE repoCtx = "live" /\ Deliver(i) /\ DoneWith(i) /\ UNCHANGED <<faults, excused>>
  <2>1. Delivers(i) /\ FaultsGrow
    BY <1>1, <1>2, <1>3, FaultCounts DEF Delivers, DoneWith, IInv, TypeOK, FaultsTyped
  <2> QED BY <2>1, DeliverKeeps
<1>4. CASE repoCtx = "live" /\ Fault("lost") /\ Deliver(i) /\ Retry(i)
  <2>1. FaultsGrow /\ FaultCount' = FaultCount + 1 /\ FaultCount \in Nat
    BY <1>4, FaultCounts DEF IInv, TypeOK, FaultsTyped
  <2>2. Delivers(i)
    BY <1>1, <1>4, <2>1, RetryEffect DEF Delivers
  <2> QED BY <2>1, <2>2, DeliverKeeps
<1>5. CASE /\ repoCtx = "live" /\ UNCHANGED copies
           /\ (Fault("dial") /\ Retry(i)) \/ (Fault("refused") /\ GiveUp(i))
  <2>1. FaultsGrow
    BY <1>5, FaultCounts DEF IInv, TypeOK, FaultsTyped
  <2>2. Continues
    BY <1>1, <1>5, RetryEffect DEF Continues, Announcing
  <2>3. TriedSoFar'
    BY <1>1, <1>5, RetryEffect DEF TriedSoFar, IInv, store
  <2> QED BY <1>1, <1>5, <2>1, <2>2, <2>3, ContinueKeeps
<1>6. CASE repoCtx = "done" /\ DoneWith(i) /\ UNCHANGED <<copies, faults, excused>>
  <2>1. FaultsGrow
    BY <1>6, FaultCounts DEF IInv, TypeOK, FaultsTyped
  <2>2. Continues
    BY <1>1, <1>2, <1>6 DEF Continues, Announcing, DoneWith, IInv, TypeOK
  <2>3. TriedSoFar'
    BY <1>1, <1>6 DEF TriedSoFar
  <2> QED BY <1>1, <1>6, <2>1, <2>2, <2>3, ContinueKeeps
<1> QED BY <1>3, <1>4, <1>5, <1>6 DEF SendMail

-----------------------------------------------------------------------------
(* What a check learns from the cache or from GitHub. *)

\* The check learns tag and leaves c in the cache: without a fault they agree,
\* and tag comes from GitHub only if the cache has nothing.
Learns(tag, c) ==
    LET r == current.repo
    IN  /\ pc = "fetch" /\ repoCtx = "live"
        /\ tag \in {cached[r], latest[r]} /\ c \in {cached[r], latest[r]}
        /\ cached' = [cached EXCEPT ![r] = c]
        /\ FaultsGrow
        /\ \/ c = tag /\ (tag = cached[r] \/ cached[r] = NoTag)
           \/ faults'.stale > 0 /\ FaultCount' > FaultCount /\ tag = latest[r]
        /\ UNCHANGED <<store, latest, serial, copies, baseline>>

\* The facts that the proofs below need of such a step.
Learnt(tag, c) ==
    /\ current.repo \in Repos /\ current \in Watch /\ current.seen \in Nat
    /\ current.seen = lastSeenTag[current.repo]
    /\ tag \in Nat /\ c \in Nat
    /\ tag <= MaxTag /\ c <= MaxTag
    /\ faults.stale = 0 => tag <= latest[current.repo] /\ c <= latest[current.repo]
    /\ cached'[current.repo] = c /\ cached' \in [Repos -> Nat]
    /\ \A q \in Repos \ {current.repo} : cached'[q] = cached[q]
    /\ FaultCount \in Nat /\ FaultCount' \in Nat
    /\ faults.stale \in Nat /\ faults'.stale \in Nat
    /\ faults'.stale = 0 => faults.stale = 0
    /\ pc \notin Announcing /\ unsent = {} /\ due = {} /\ excused = {}

LEMMA LearnsTyped ==
    ASSUME IInv, NEW tag, NEW c, Learns(tag, c)
    PROVE  Learnt(tag, c)
<1>1. /\ current.repo \in Repos /\ current \in Watch /\ current.seen \in Nat
      /\ current.seen = lastSeenTag[current.repo]
  BY CurrentTyped DEF Learns, Checking
<1>2. pc \notin Announcing /\ unsent = {} /\ due = {} /\ excused = {}
  BY Quiescent DEF Learns, Announcing
<1>3. /\ cached \in [Repos -> Nat] /\ latest \in [Repos -> Nat]
      /\ cached[current.repo] <= MaxTag /\ latest[current.repo] <= MaxTag
      /\ faults.stale = 0 => cached[current.repo] <= latest[current.repo]
  BY <1>1 DEF IInv, TypeOK, TagsArePublished
<1>4. /\ tag \in Nat /\ c \in Nat /\ tag <= MaxTag /\ c <= MaxTag
      /\ faults.stale = 0 => tag <= latest[current.repo] /\ c <= latest[current.repo]
  BY <1>1, <1>3 DEF Learns
<1>5. /\ cached' \in [Repos -> Nat] /\ cached'[current.repo] = c
      /\ \A q \in Repos \ {current.repo} : cached'[q] = cached[q]
  BY <1>1, <1>3, <1>4 DEF Learns
<1>6. /\ FaultCount \in Nat /\ FaultCount' \in Nat
      /\ faults.stale \in Nat /\ faults'.stale \in Nat
  BY DEF Learns, IInv, TypeOK, FaultsGrow, FaultsTyped, FaultCount
<1>7. faults'.stale = 0 => faults.stale = 0
  BY <1>6 DEF Learns, FaultsGrow
<1> QED BY <1>1, <1>2, <1>4, <1>5, <1>6, <1>7 DEF Learnt

\* What holds whether or not there is something to announce.
LEMMA LearnsSafely ==
    ASSUME IInv, NEW tag, NEW c, Learns(tag, c)
    PROVE  /\ OnlyConfirmedAreMailed' /\ NewsFollowsBaseline' /\ CopiesPaidFor'
           /\ (pc' \in Announcing => release' = tag /\ current' = current) => TagsArePublished'
           /\ \A q \in Repos : baseline[q] = NoTag <=> lastSeenTag[q] = NoTag
           /\ faults'.stale = 0 =>
                 /\ \A q \in Repos : /\ baseline[q] <= lastSeenTag[q]
                                     /\ cached'[q] # NoTag => lastSeenTag[q] <= cached'[q]
                 /\ tag # NoTag => lastSeenTag[current.repo] <= tag
<1> USE DEF store
<1>0. Learnt(tag, c)
  BY LearnsTyped
<1>1. ASSUME pc' \in Announcing => release' = tag /\ current' = current
      PROVE  TagsArePublished'
  <2>1. ASSUME NEW q \in Repos
        PROVE  /\ lastSeenTag[q] <= MaxTag /\ cached'[q] <= MaxTag /\ latest[q] <= MaxTag
               /\ faults'.stale = 0 => lastSeenTag[q] <= latest[q] /\ cached'[q] <= latest[q]
    BY <1>0 DEF Learnt, IInv, TagsArePublished
  <2>2. ASSUME faults'.stale = 0, pc' \in Announcing
        PROVE  release' <= latest[current'.repo]
    BY <1>0, <1>1, <2>2 DEF Learnt, Learns
  <2> QED BY <2>1, <2>2 DEF TagsArePublished, Learns
<1>2. OnlyConfirmedAreMailed'
  BY DEF IInv, OnlyConfirmedAreMailed, Learns
<1>3. NewsFollowsBaseline'
  BY <1>0 DEF Learnt, IInv, NewsFollowsBaseline, Learns
<1>4. CopiesPaidFor'
  <2> SUFFICES ASSUME NEW d \in Ids \X Tags PROVE copies[d] <= 1 + FaultCount'
    BY DEF CopiesPaidFor, Learns
  <2>1. copies[d] <= 1 + FaultCount /\ copies[d] \in Nat
    BY DEF IInv, TypeOK, CopiesPaidFor
  <2> QED BY <2>1, <1>0 DEF Learnt, Learns, FaultsGrow
<1>5. ASSUME faults'.stale = 0
      PROVE  /\ \A q \in Repos : /\ baseline[q] <= lastSeenTag[q]
                                 /\ cached'[q] # NoTag => lastSeenTag[q] <= cached'[q]
             /\ tag # NoTag => lastSeenTag[current.repo] <= tag
  <2>1. /\ c = tag
        /\ tag = cached[current.repo] \/ (cached[current.repo] = NoTag /\ tag = latest[current.repo])
    BY <1>5 DEF Learns
  <2>2. \A q \in Repos : /\ baseline[q] <= lastSeenTag[q] /\ lastSeenTag[q] <= latest[q]
                         /\ cached[q] # NoTag => lastSeenTag[q] <= cached[q]
    BY <1>5, <1>0 DEF Learnt, IInv, TagsAdvance, TagsArePublished
  <2>3. tag # NoTag => lastSeenTag[current.repo] <= tag
    BY <2>1, <2>2, <1>0 DEF Learnt
  <2>4. ASSUME NEW q \in Repos, cached'[q] # NoTag PROVE lastSeenTag[q] <= cached'[q]
    BY <2>1, <2>2, <2>3, <2>4, <1>0 DEF Learnt
  <2> QED BY <2>2, <2>3, <2>4
<1> QED BY <1>1, <1>2, <1>3, <1>4, <1>5 DEF IInv, TagsAdvance

LEMMA NothingNewKeeps ==
    ASSUME IInv, NEW tag, NEW c, Learns(tag, c), tag \in {NoTag, current.seen}, CheckEnds
    PROVE  IInv'
<1> USE DEF store
<1>0. Learnt(tag, c)
  BY LearnsTyped
<1>1. AtRest
  BY CheckEndsAtRest DEF Learns
<1>2. TypeOK'
  BY <1>1, <1>0 DEF Learnt, IInv, TypeOK, StoreTypeOK, AtRest, Learns, FaultsGrow, FaultsTyped
<1>3. LocalsOK' /\ CacheAgrees' /\ TriedSoFar' /\ SnapshotIsFresh'
  BY <1>1 DEF AtRest, LocalsOK, CacheAgrees, TriedSoFar, SnapshotIsFresh, Checking, Announcing
<1>4. IdsAreKeys' /\ RecipientsAreConfirmed'
  BY <1>1 DEF IInv, IdsAreKeys, RecipientsAreConfirmed, AtRest, Learns
<1>5. TagsAdvance'
  BY <1>1, LearnsSafely DEF TagsAdvance, AtRest, Learns
<1>6. CopiesAccounted'
  <2> SUFFICES ASSUME NEW s \in subscriptions, NEW t \in Tags
               PROVE  copies[<<s.id, t>>] + MailsToCome(s, t)' <= 1 + FaultCount'
    BY <1>1 DEF CopiesAccounted, AtRest, Learns
  <2>1. /\ copies[<<s.id, t>>] + MailsToCome(s, t) <= 1 + FaultCount
        /\ copies[<<s.id, t>>] \in Nat /\ s.repo \in Repos
    BY RowTypes DEF IInv, CopiesAccounted
  <2>2. ~Soon(s, t)' /\ t # NoTag
    BY <1>1 DEF AtRest, Soon, Announcing, Tags, NoTag
  <2>3. Settled(s.repo)' = lastSeenTag[s.repo] /\ Settled(s.repo) = lastSeenTag[s.repo]
    BY <1>1, <1>0 DEF Learnt, Settled, AtRest, Learns
  <2>4. Later(s.repo, t)' => Later(s.repo, t) \/ FaultCount' > FaultCount
    <3>1. CASE s.repo # current.repo
      BY <2>1, <2>3, <3>1, <1>0 DEF Learnt, Later, Learns
    <3>2. CASE s.repo = current.repo
      BY <2>2, <2>3, <3>2, <1>0 DEF Learnt, Later, Learns
    <3> QED BY <3>1, <3>2
  <2>5. /\ Coming(s.repo, t) \in Nat /\ Coming(s.repo, t)' \in Nat
        /\ Coming(s.repo, t)' <= Coming(s.repo, t) + FaultCount' - FaultCount
    BY <2>4, <1>0, ComingBounds DEF Learnt, Learns, FaultsGrow
  <2> QED BY <2>1, <2>2, <2>5, <1>0 DEF Learnt, MailsToCome, Learns, FaultsGrow
<1>7. pc' \notin Announcing
  BY <1>1 DEF AtRest
<1> QED BY <1>2, <1>3, <1>4, <1>5, <1>6, <1>7, LearnsSafely DEF IInv

\* The check has found a release to record, and to announce if it is not the first.
Found(tag) ==
    /\ tag \notin {NoTag, current.seen}
    /\ release' = tag
    /\ \/ current.seen = NoTag /\ pc' = "record" /\ due' = {}
       \/ current.seen # NoTag /\ pc' = "recipients" /\ due' = Confirmed(current.repo)
    /\ UNCHANGED <<queue, current, unsent, mail, cycleCtx, repoCtx, excused>>

\* The mails a check now sends are those a later check would have sent.
LEMMA FoundAccounted ==
    ASSUME IInv, NEW tag, NEW c, Learns(tag, c), Found(tag),
           NEW s \in subscriptions, NEW t \in Tags
    PROVE  copies[<<s.id, t>>] + MailsToCome(s, t)' <= 1 + FaultCount'
<1>0. Learnt(tag, c)
  BY LearnsTyped
<1>1. /\ copies[<<s.id, t>>] + MailsToCome(s, t) <= 1 + FaultCount
      /\ copies[<<s.id, t>>] \in Nat /\ s.repo \in Repos
  BY RowTypes DEF IInv, CopiesAccounted
<1>2. t \in Nat \ {NoTag} /\ pc' \in Announcing /\ unsent' = {} /\ repoCtx' = "live"
  BY <1>0 DEF Tags, NoTag, Found, Announcing, Learns, Learnt
<1>3. /\ Settled(s.repo) = lastSeenTag[s.repo]
      /\ Settled(s.repo)' = IF s.repo = current.repo THEN tag ELSE lastSeenTag[s.repo]
  BY <1>0, <1>2 DEF Settled, Found, Learns, Learnt, store
<1>4. /\ Coming(s.repo, t) \in Nat /\ Coming(s.repo, t)' \in Nat
      /\ Coming(s.repo, t)' <= Coming(s.repo, t) + 1
      /\ (Later(s.repo, t)' => Later(s.repo, t)) => Coming(s.repo, t)' <= Coming(s.repo, t)
      /\ Later(s.repo, t) /\ ~Later(s.repo, t)' => Coming(s.repo, t)' + 1 <= Coming(s.repo, t)
  BY DEF Coming, Learns
<1>5. CASE s.repo # current.repo
  <2>1. ~Soon(s, t)'
    BY <1>2, <1>5 DEF Soon, Found
  <2>2. Later(s.repo, t)' = Later(s.repo, t)
    BY <1>0, <1>1, <1>3, <1>5 DEF Later, Learns, Learnt
  <2> QED BY <1>0, <1>1, <1>4, <2>1, <2>2 DEF MailsToCome, Learns, Learnt, FaultsGrow
<1>6. CASE s.repo = current.repo
  <2>1. Soon(s, t)' => t = tag
    BY DEF Soon, Found
  <2>2. t = tag => Later(s.repo, t)
    BY <1>0, <1>2, <1>3, <1>6 DEF Later, Learns, Learnt, Found
  <2>3. t = tag /\ Later(s.repo, t)' => FaultCount' > FaultCount
    BY <1>0, <1>2, <1>3, <1>6 DEF Later, Learns, Learnt, Found
  <2>4. Later(s.repo, t)' => Later(s.repo, t) \/ FaultCount' > FaultCount
    BY <1>0, <1>2, <1>3, <1>6 DEF Later, Learns, Learnt, Found
  <2> QED BY <1>0, <1>1, <1>4, <2>1, <2>2, <2>3, <2>4 DEF MailsToCome, Learns, Learnt, FaultsGrow
<1> QED BY <1>5, <1>6

LEMMA FoundKeeps ==
    ASSUME IInv, NEW tag, NEW c, Learns(tag, c), Found(tag)
    PROVE  IInv'
<1> USE DEF store
<1>0. Learnt(tag, c)
  BY LearnsTyped
<1>1. pc' \in Announcing /\ unsent' = {} /\ due' \subseteq Ids /\ due' \subseteq 1..serial
  BY <1>0, ConfirmedRows DEF Found, Announcing, Learnt
<1>2. TypeOK'
  BY <1>0, <1>1 DEF IInv, TypeOK, StoreTypeOK, Found, Learns, Learnt, FaultsGrow, FaultsTyped,
                    PCs, Announcing
<1>3. LocalsOK'
  <2>1. tag \in Tags
    BY <1>0, BoundsAssumption DEF Learnt, Found, Tags, NoTag
  <2> QED BY <1>0, <1>1, <2>1 DEF IInv, LocalsOK, Found, Learns, Learnt, Checking, Announcing
<1>4. SnapshotIsFresh'
  BY DEF IInv, SnapshotIsFresh, Found, Learns
<1>5. IdsAreKeys'
  BY <1>1 DEF IInv, IdsAreKeys, Found, Learns
<1>6. RecipientsAreConfirmed'
  BY <1>0, <1>1, ConfirmedRows DEF RecipientsAreConfirmed, Found, Learns, Learnt
<1>7. CacheAgrees'
  BY <1>0 DEF CacheAgrees, Found, Learns, Learnt
<1>8. TagsAdvance'
  <2>1. faults'.stale = 0 => current.seen < tag
    BY <1>0, LearnsSafely DEF Learnt, Found
  <2> QED BY <2>1, LearnsSafely DEF TagsAdvance, Found, Learns
<1>9. TriedSoFar'
  BY DEF TriedSoFar, Found
<1>10. CopiesAccounted'
  BY <1>1, FoundAccounted DEF CopiesAccounted, Learns
<1>11. release' = tag /\ current' = current
  BY DEF Found
<1> QED BY <1>2, <1>3, <1>4, <1>5, <1>6, <1>7, <1>8, <1>9, <1>10, <1>11, LearnsSafely DEF IInv

LEMMA CompareKeeps ==
    ASSUME IInv, NEW tag, NEW c, Learns(tag, c), Compare(tag)
    PROVE  IInv'
<1>1. CASE tag \in {NoTag, current.seen} /\ CheckEnds
  BY <1>1, NothingNewKeeps
<1>2. CASE Found(tag)
  BY <1>2, FoundKeeps
<1> QED BY <1>1, <1>2 DEF Compare, Found

LEMMA FetchKeeps == ASSUME IInv, Fetch PROVE IInv'
<1>1. /\ pc = "fetch" /\ pc \notin Announcing /\ current.repo \in Repos
      /\ UNCHANGED <<store, latest, serial, copies, baseline>>
  BY CurrentTyped DEF Fetch, Announcing, Checking
<1>2. /\ UNCHANGED faults => FaultsGrow
      /\ \A kind : Fault(kind) =>
            FaultsGrow /\ FaultCount' > FaultCount /\ (kind \in Staleness => faults'.stale > 0)
      /\ "cache" \in Staleness
  BY FaultCounts DEF IInv, TypeOK, FaultsTyped, Staleness
<1>3. cached \in [Repos -> Nat]
  BY DEF IInv, TypeOK
<1>4. CASE /\ repoCtx = "live" /\ cached[current.repo] # NoTag
           /\ Compare(cached[current.repo]) /\ UNCHANGED <<cached, faults>>
  <2>1. Learns(cached[current.repo], cached[current.repo])
    BY <1>1, <1>2, <1>3, <1>4 DEF Learns
  <2> QED BY <1>4, <2>1, CompareKeeps
<1>5. CASE /\ repoCtx = "live" /\ cached[current.repo] = NoTag /\ Compare(latest[current.repo])
           /\ cached' = IF latest[current.repo] = NoTag THEN cached
                        ELSE [cached EXCEPT ![current.repo] = latest[current.repo]]
           /\ UNCHANGED faults
  <2>1. cached' = [cached EXCEPT ![current.repo] = latest[current.repo]]
    BY <1>1, <1>3, <1>5
  <2>2. Learns(latest[current.repo], latest[current.repo])
    BY <1>1, <1>2, <1>5, <2>1 DEF Learns
  <2> QED BY <1>5, <2>2, CompareKeeps
<1>6. CASE /\ repoCtx = "live" /\ Fault("cache") /\ Compare(latest[current.repo])
           /\ \/ cached' = cached
              \/ cached' = [cached EXCEPT ![current.repo] = latest[current.repo]]
  <2>1. PICK c \in {cached[current.repo], latest[current.repo]} :
           cached' = [cached EXCEPT ![current.repo] = c]
    BY <1>1, <1>3, <1>6
  <2>2. Learns(latest[current.repo], c)
    BY <1>1, <1>2, <1>6, <2>1 DEF Learns
  <2> QED BY <1>6, <2>2, CompareKeeps
<1>7. CASE CheckEnds /\ FaultsGrow /\ UNCHANGED cached
  BY <1>1, <1>7, CheckEndsAtRest, RestKeeps DEF LeavesForCause, store, github
<1>8. CASE repoCtx = "live" /\ GetLatestRelease
  BY <1>2, <1>4, <1>5, <1>6, <1>7, <1>8 DEF GetLatestRelease
<1>9. CASE CheckEnds /\ UNCHANGED <<cached, faults>>
  BY <1>2, <1>7, <1>9
<1> QED BY <1>8, <1>9 DEF Fetch

-----------------------------------------------------------------------------
(* The tag is recorded, or not. *)

LEMMA AppliedKeeps ==
    ASSUME IInv, pc = "record", repoCtx = "live", Applied, CheckEnds, FaultsGrow,
           UNCHANGED <<github, serial, copies>>
    PROVE  IInv'
<1> DEFINE r == current.repo
<1> USE DEF github
<1>1. /\ r \in Repos /\ current \in Watch /\ current.seen = lastSeenTag[r] /\ release \in Tags
      /\ release \in Nat /\ release # NoTag /\ release # current.seen /\ release <= MaxTag
      /\ pc \in Announcing /\ unsent = {}
  BY CurrentTyped, ReleaseIsTag, BoundsAssumption
     DEF IInv, TypeOK, LocalsOK, Checking, Announcing, Tags, NoTag
<1>2. /\ lastSeenTag' = [lastSeenTag EXCEPT ![r] = release]
      /\ baseline' = [baseline EXCEPT ![r] = IF baseline[r] = NoTag THEN release ELSE baseline[r]]
      /\ lastSeenTag \in [Repos -> Nat] /\ baseline \in [Repos -> Nat]
      /\ UNCHANGED <<repositories, subscriptions>>
  BY DEF Applied, UpdateLastSeenTag, IInv, TypeOK, StoreTypeOK
<1>3. /\ lastSeenTag' \in [Repos -> Nat] /\ baseline' \in [Repos -> Nat]
      /\ lastSeenTag'[r] = release
      /\ baseline'[r] = IF baseline[r] = NoTag THEN release ELSE baseline[r]
      /\ \A q \in Repos \ {r} : lastSeenTag'[q] = lastSeenTag[q] /\ baseline'[q] = baseline[q]
  BY <1>1, <1>2
<1>4. TypeOK'
  BY <1>2, <1>3, NoMailTyped
     DEF IInv, TypeOK, StoreTypeOK, CheckEnds, FaultsGrow, FaultsTyped, PCs, NoTag
<1>5. LocalsOK'
  BY NoneAssumption DEF IInv, TypeOK, LocalsOK, CheckEnds, Checking, Announcing, Watch
<1>6. faults.stale \in Nat /\ faults'.stale \in Nat /\ FaultCount \in Nat /\ FaultCount' \in Nat
  BY DEF IInv, TypeOK, FaultsGrow, FaultsTyped, FaultCount
<1>7. IdsAreKeys' /\ RecipientsAreConfirmed' /\ OnlyConfirmedAreMailed'
  BY <1>2 DEF IInv, IdsAreKeys, RecipientsAreConfirmed, OnlyConfirmedAreMailed, CheckEnds
<1>8. SnapshotIsFresh'
  <2> SUFFICES ASSUME NEW w \in queue PROVE w.seen = lastSeenTag'[w.repo]
    BY DEF SnapshotIsFresh, CheckEnds
  <2>1. w \in Watch /\ w.repo \in Repos /\ w.seen = lastSeenTag[w.repo] /\ w # current
    BY DEF IInv, TypeOK, SnapshotIsFresh, LocalsOK, Watch
  <2>2. w.repo # r
    BY <1>1, <2>1 DEF Watch
  <2> QED BY <1>3, <2>1, <2>2
<1>9. CacheAgrees' /\ TriedSoFar'
  BY DEF CacheAgrees, TriedSoFar, CheckEnds, Announcing
<1>10. TagsArePublished'
  <2>1. faults'.stale = 0 => faults.stale = 0
    BY <1>6 DEF FaultsGrow
  <2>2. \A q \in Repos : lastSeenTag'[q] <= MaxTag
    BY <1>1, <1>3 DEF IInv, TagsArePublished
  <2>3. ASSUME faults'.stale = 0, NEW q \in Repos PROVE lastSeenTag'[q] <= latest[q]
    BY <1>1, <1>3, <2>1, <2>3 DEF IInv, TagsArePublished
  <2> QED BY <2>1, <2>2, <2>3 DEF IInv, TagsArePublished, CheckEnds, Announcing
<1>11. TagsAdvance'
  <2>1. \A q \in Repos : baseline'[q] = NoTag <=> lastSeenTag'[q] = NoTag
    BY <1>1, <1>3 DEF IInv, TagsAdvance
  <2>2. ASSUME faults'.stale = 0, NEW q \in Repos
        PROVE  baseline'[q] <= lastSeenTag'[q] /\ (cached[q] # NoTag => lastSeenTag'[q] <= cached[q])
    <3>1. faults.stale = 0
      BY <1>6, <2>2 DEF FaultsGrow
    <3>2. baseline[q] <= lastSeenTag[q] /\ (cached[q] # NoTag => lastSeenTag[q] <= cached[q])
      BY <3>1 DEF IInv, TagsAdvance
    <3>3. current.seen < release /\ cached[r] \in {NoTag, release}
      BY <1>1, <3>1 DEF IInv, TagsAdvance, CacheAgrees
    <3>4. baseline[q] \in Nat /\ lastSeenTag[q] \in Nat
      BY <1>2
    <3> QED BY <1>1, <1>3, <3>2, <3>3, <3>4
  <2> QED BY <2>1, <2>2 DEF TagsAdvance, CheckEnds, Announcing
<1>12. NewsFollowsBaseline'
  <2> SUFFICES ASSUME faults'.stale = 0, NEW s \in subscriptions, NEW t \in Tags,
                      copies[<<s.id, t>>] > 0
               PROVE  baseline'[s.repo] # NoTag /\ t > baseline'[s.repo]
    BY <1>2 DEF NewsFollowsBaseline
  <2>1. faults.stale = 0 /\ s.repo \in Repos
    BY <1>6, RowTypes DEF FaultsGrow
  <2>2. baseline[s.repo] # NoTag /\ t > baseline[s.repo]
    BY <2>1 DEF IInv, NewsFollowsBaseline
  <2> QED BY <1>3, <2>1, <2>2
<1>13. CopiesPaidFor'
  <2> SUFFICES ASSUME NEW d \in Ids \X Tags PROVE copies[d] <= 1 + FaultCount'
    BY DEF CopiesPaidFor
  <2>1. copies[d] <= 1 + FaultCount /\ copies[d] \in Nat
    BY DEF IInv, TypeOK, CopiesPaidFor
  <2> QED BY <1>6, <2>1 DEF FaultsGrow
<1>14. CopiesAccounted'
  <2> SUFFICES ASSUME NEW s \in subscriptions, NEW t \in Tags
               PROVE  copies[<<s.id, t>>] + MailsToCome(s, t)' <= 1 + FaultCount'
    BY <1>2 DEF CopiesAccounted, CheckEnds
  <2>1. /\ copies[<<s.id, t>>] + MailsToCome(s, t) <= 1 + FaultCount
        /\ copies[<<s.id, t>>] \in Nat /\ s.repo \in Repos /\ Coming(s.repo, t) \in Nat
    BY RowTypes DEF IInv, CopiesAccounted, Coming
  <2>2. ~Soon(s, t)'
    BY DEF Soon, CheckEnds
  <2>3. Settled(s.repo)' = Settled(s.repo)
    BY <1>1, <1>3, <2>1 DEF Settled, CheckEnds, Announcing
  <2>4. Coming(s.repo, t)' = Coming(s.repo, t)
    BY <2>3 DEF Coming, Later
  <2> QED BY <1>6, <2>1, <2>2, <2>4 DEF MailsToCome, FaultsGrow
<1> QED BY <1>4, <1>5, <1>7, <1>8, <1>9, <1>10, <1>11, <1>12, <1>13, <1>14 DEF IInv

LEMMA RecordKeeps == ASSUME IInv, Record PROVE IInv'
<1>1. /\ pc = "record" /\ CheckEnds /\ UNCHANGED <<github, serial, copies>>
      /\ repoCtx \in {"live", "done"}
  BY DEF Record
<1>2. /\ UNCHANGED faults => FaultsGrow
      /\ Fault("record") => FaultsGrow /\ FaultCount' > FaultCount
  BY FaultCounts DEF IInv, TypeOK, FaultsTyped
<1>3. CASE repoCtx = "live" /\ Applied /\ FaultsGrow
  BY <1>1, <1>3, AppliedKeeps
<1>4. CASE /\ UNCHANGED <<store, baseline>> /\ FaultsGrow
           /\ FaultCount' > FaultCount \/ repoCtx = "done"
  BY <1>1, <1>4, CheckEndsAtRest, RestKeeps DEF LeavesForCause, store
<1> QED BY <1>1, <1>2, <1>3, <1>4 DEF Record

-----------------------------------------------------------------------------
(* GitHub and Redis on their own. *)

LEMMA OutsideKeeps ==
    ASSUME IInv, FaultsGrow, latest' \in [Repos -> Nat], TagsArePublished',
           cached' \in [Repos -> Nat], \A r \in Repos : cached'[r] \in {NoTag, cached[r]},
           \A r \in Repos, t \in Tags :
              Coming(r, t)' <= Coming(r, t) + FaultCount' - FaultCount,
           UNCHANGED <<store, scan, serial, history>>
    PROVE  IInv'
<1> USE DEF store, scan, history
<1>1. TypeOK'
  BY DEF IInv, TypeOK, StoreTypeOK, FaultsGrow, FaultsTyped
<1>2. LocalsOK'
  BY DEF IInv, LocalsOK, Checking
<1>3. IdsAreKeys' /\ SnapshotIsFresh' /\ RecipientsAreConfirmed' /\ OnlyConfirmedAreMailed'
  BY DEF IInv, IdsAreKeys, SnapshotIsFresh, RecipientsAreConfirmed, OnlyConfirmedAreMailed
<1>4. faults.stale \in Nat /\ faults'.stale \in Nat /\ FaultCount \in Nat /\ FaultCount' \in Nat
  BY DEF IInv, TypeOK, FaultsGrow, FaultsTyped, FaultCount
<1>5. faults'.stale = 0 => faults.stale = 0
  BY <1>4 DEF FaultsGrow
<1>6. CacheAgrees'
  BY CurrentTyped, <1>4 DEF IInv, CacheAgrees, Checking, FaultsGrow
<1>7. TagsAdvance' /\ NewsFollowsBaseline' /\ TriedSoFar'
  BY <1>5 DEF IInv, TagsAdvance, NewsFollowsBaseline, TriedSoFar
<1>8. CopiesPaidFor'
  BY <1>4 DEF IInv, TypeOK, CopiesPaidFor, FaultsGrow
<1>9. CopiesAccounted'
  <2>1. ASSUME NEW s \in subscriptions, NEW t \in Tags
        PROVE  copies[<<s.id, t>>] + MailsToCome(s, t)' <= 1 + FaultCount'
    <3>1. /\ copies[<<s.id, t>>] + MailsToCome(s, t) <= 1 + FaultCount
          /\ copies[<<s.id, t>>] \in Nat /\ s.repo \in Repos
          /\ Coming(s.repo, t) \in Nat /\ Coming(s.repo, t)' \in Nat
      BY RowTypes DEF IInv, CopiesAccounted, Coming
    <3>2. Soon(s, t)' = Soon(s, t)
      BY DEF Soon
    <3>3. Coming(s.repo, t)' <= Coming(s.repo, t) + FaultCount' - FaultCount
      BY <3>1
    <3> QED BY <1>4, <3>1, <3>2, <3>3 DEF MailsToCome
  <2>2. ASSUME NEW i \in unsent, repoCtx = "live" PROVE copies[<<i, release>>] <= FaultCount'
    <3>1. copies[<<i, release>>] \in Nat /\ copies[<<i, release>>] <= FaultCount
      BY <2>2, ReleaseIsTag, CopyTypes
         DEF IInv, TypeOK, LocalsOK, CopiesAccounted, Announcing
    <3> QED BY <1>4, <3>1 DEF FaultsGrow
  <2> QED BY <2>1, <2>2 DEF CopiesAccounted
<1> QED BY <1>1, <1>2, <1>3, <1>6, <1>7, <1>8, <1>9 DEF IInv

LEMMA PublishKeeps == ASSUME IInv, NEW r \in Repos, Publish(r) PROVE IInv'
<1>1. /\ latest \in [Repos -> Nat] /\ latest' = [latest EXCEPT ![r] = latest[r] + 1]
      /\ cached \in [Repos -> Nat] /\ cached' = cached /\ UNCHANGED <<store, scan, faults>>
  BY DEF Publish, IInv, TypeOK
<1>2. FaultsGrow /\ FaultCount' = FaultCount /\ FaultCount \in Nat
  BY <1>1, FaultCounts DEF IInv, TypeOK, FaultsTyped
<1>3. latest' \in [Repos -> Nat] /\ \A q \in Repos : latest'[q] \in {latest[q], latest[q] + 1}
  BY <1>1
<1>4. TagsArePublished'
  <2>1. \A q \in Repos : latest'[q] <= MaxTag
    BY <1>1, <1>3, BoundsAssumption DEF IInv, TagsArePublished, Publish
  <2>2. ASSUME faults.stale = 0, NEW q \in Repos
        PROVE  lastSeenTag[q] <= latest'[q] /\ cached[q] <= latest'[q]
    BY <1>1, <1>3, <2>2 DEF IInv, TypeOK, StoreTypeOK, TagsArePublished
  <2>3. ASSUME faults.stale = 0, pc \in Announcing PROVE release <= latest'[current.repo]
    <3>1. current.repo \in Repos /\ release \in Nat /\ release <= latest[current.repo]
      BY <2>3, CurrentTyped DEF IInv, TypeOK, TagsArePublished, Checking
    <3> QED BY <1>1, <1>3, <3>1
  <2> QED BY <1>1, <2>1, <2>2, <2>3 DEF IInv, TagsArePublished, store, scan
<1>5. ASSUME NEW q \in Repos, NEW t \in Tags
      PROVE  Coming(q, t)' <= Coming(q, t) + FaultCount' - FaultCount
  <2>1. Settled(q)' = Settled(q) /\ cached'[q] = cached[q] /\ t \in Nat
    BY <1>1 DEF Settled, scan, store, Tags
  <2>2. CASE latest'[q] = latest[q]
    BY <1>2, <2>1, <2>2 DEF Coming, Later
  <2>3. CASE latest'[q] = latest[q] + 1
    <3>1. t > latest'[q] => t > latest[q]
      BY <1>1, <2>1, <2>3
    <3>2. Later(q, t)' => Later(q, t) \/ (t > latest[q] /\ ~(t > latest'[q]))
      BY <1>1, <2>1, <2>3 DEF Later
    <3> QED BY <1>2, <3>1, <3>2 DEF Coming
  <2> QED BY <1>3, <2>2, <2>3
<1> QED BY <1>1, <1>2, <1>3, <1>4, <1>5, OutsideKeeps DEF Publish

\* A withdrawal may bring one more mail of each tag, and is counted as a fault.
LEMMA WithdrawKeeps == ASSUME IInv, NEW r \in Repos, Withdraw(r) PROVE IInv'
<1>1. PICK tag \in 0..(latest[r] - 1) : latest' = [latest EXCEPT ![r] = tag]
  BY DEF Withdraw
<1>2. /\ latest \in [Repos -> Nat] /\ tag \in Nat /\ tag < latest[r]
      /\ cached \in [Repos -> Nat] /\ cached' = cached /\ UNCHANGED <<store, scan>>
  BY <1>1 DEF Withdraw, IInv, TypeOK
<1>3. /\ FaultsGrow /\ FaultCount' = FaultCount + 1 /\ FaultCount \in Nat
      /\ faults'.stale > 0
  BY FaultCounts DEF Withdraw, Staleness, IInv, TypeOK, FaultsTyped
<1>4. latest' \in [Repos -> Nat] /\ \A q \in Repos : latest'[q] <= latest[q]
  BY <1>1, <1>2
<1>5. TagsArePublished'
  <2>1. \A q \in Repos : latest'[q] <= MaxTag
    BY <1>2, <1>4, BoundsAssumption DEF IInv, TagsArePublished
  <2>2. faults'.stale # 0
    BY <1>3 DEF FaultsGrow, FaultsTyped
  <2> QED BY <1>2, <2>1, <2>2 DEF IInv, TagsArePublished, store
<1>6. ASSUME NEW q \in Repos, NEW t \in Tags
      PROVE  Coming(q, t)' <= Coming(q, t) + FaultCount' - FaultCount
  <2>1. Settled(q)' = Settled(q) /\ cached'[q] = cached[q] /\ t \in Nat
    BY <1>2 DEF Settled, scan, store, Tags
  <2>2. latest[q] \in Nat /\ latest'[q] \in Nat
    BY <1>2, <1>4
  <2>3. t > latest[q] => t > latest'[q] /\ (Later(q, t)' => Later(q, t))
    BY <1>4, <2>1, <2>2 DEF Later
  <2>4. t > latest'[q] /\ Later(q, t)' => Later(q, t)
    BY <2>1, <2>2 DEF Later
  <2> QED BY <1>3, <2>3, <2>4 DEF Coming
<1> QED BY <1>2, <1>3, <1>4, <1>5, <1>6, OutsideKeeps DEF Withdraw

LEMMA CacheExpiresKeeps == ASSUME IInv, NEW r \in Repos, CacheExpires(r) PROVE IInv'
<1>1. /\ cached \in [Repos -> Nat] /\ cached' = [cached EXCEPT ![r] = NoTag]
      /\ latest \in [Repos -> Nat] /\ latest' = latest /\ UNCHANGED <<store, scan, faults>>
  BY DEF CacheExpires, IInv, TypeOK
<1>2. cached' \in [Repos -> Nat] /\ \A q \in Repos : cached'[q] \in {NoTag, cached[q]}
  BY <1>1 DEF NoTag
<1>3. FaultsGrow /\ FaultCount' = FaultCount /\ FaultCount \in Nat
  BY <1>1, FaultCounts DEF IInv, TypeOK, FaultsTyped
<1>4. TagsArePublished'
  <2>1. \A q \in Repos : NoTag <= MaxTag /\ NoTag <= latest[q]
    BY <1>1, BoundsAssumption DEF NoTag
  <2> QED BY <1>1, <1>2, <2>1 DEF IInv, TagsArePublished, store, scan
<1>5. ASSUME NEW q \in Repos, NEW t \in Tags
      PROVE  Coming(q, t)' <= Coming(q, t) + FaultCount' - FaultCount
  <2>1. Settled(q)' = Settled(q) /\ t # NoTag /\ latest'[q] = latest[q]
    BY <1>1 DEF Settled, scan, store, Tags, NoTag
  <2>2. Later(q, t)' => Later(q, t)
    BY <1>2, <2>1 DEF Later
  <2> QED BY <1>1, <1>3, <2>2, ComingBounds
<1> QED BY <1>1, <1>2, <1>3, <1>4, <1>5, OutsideKeeps DEF CacheExpires

-----------------------------------------------------------------------------
(* The statements of the requests. *)

\* A row was there before, and was not confirmed if it is not; or it is new.
OldRow(s) ==
    \E o \in subscriptions : o.id = s.id /\ o.repo = s.repo /\ (o.confirmed => s.confirmed)
NewRow(s) == s.id = serial + 1 /\ serial' = serial + 1 /\ ~s.confirmed

LEMMA RequestRows ==
    ASSUME IInv, RequestWrites
    PROVE  /\ StoreTypeOK' /\ lastSeenTag' = lastSeenTag
           /\ serial' \in {serial, serial + 1} /\ serial' \in 0..MaxSerial
           /\ \A s \in subscriptions' : s.id <= serial'
           /\ \A s, t \in subscriptions' : s.id = t.id => s = t
           /\ \A s \in subscriptions' : OldRow(s) \/ NewRow(s)
<1>1. /\ repositories \subseteq Repos /\ lastSeenTag \in [Repos -> Nat]
      /\ subscriptions \subseteq SubscriptionRow /\ serial \in 0..MaxSerial /\ serial \in Nat
      /\ \A s \in subscriptions : s.id <= serial
      /\ \A s, t \in subscriptions : s.id = t.id => s = t
  BY BoundsAssumption DEF IInv, TypeOK, StoreTypeOK, IdsAreKeys
<1>2. CASE \E r \in Repos : CreateRepository(r) /\ UNCHANGED serial
  BY <1>1, <1>2 DEF CreateRepository, StoreTypeOK, OldRow
<1>3. CASE serial < MaxSerial /\ serial' = serial + 1 /\ UNCHANGED store
  <2>1. serial' \in 0..MaxSerial /\ \A n \in Nat : n <= serial => n <= serial'
    BY <1>1, <1>3, BoundsAssumption
  <2>2. \A s \in subscriptions : s.id \in Nat
    BY <1>1 DEF SubscriptionRow
  <2>3. StoreTypeOK' /\ UNCHANGED <<lastSeenTag, subscriptions>>
    BY <1>1, <1>3 DEF store, StoreTypeOK
  <2>4. \A s \in subscriptions' : OldRow(s)
    BY <2>3 DEF OldRow
  <2> QED BY <1>1, <1>3, <2>1, <2>2, <2>3, <2>4
<1>4. ASSUME serial < MaxSerial, serial' = serial + 1, NEW e \in Emails, NEW r \in Repos,
             CreateSubscription(serial', e, r)
      PROVE  /\ StoreTypeOK' /\ lastSeenTag' = lastSeenTag
             /\ serial' \in {serial, serial + 1} /\ serial' \in 0..MaxSerial
             /\ \A s \in subscriptions' : s.id <= serial'
             /\ \A s, t \in subscriptions' : s.id = t.id => s = t
             /\ \A s \in subscriptions' : OldRow(s) \/ NewRow(s)
  <2> DEFINE n == [id |-> serial + 1, email |-> e, repo |-> r, confirmed |-> FALSE]
  <2>1. /\ subscriptions' = subscriptions \cup {n} /\ lastSeenTag' = lastSeenTag
        /\ repositories' = repositories
    BY <1>4 DEF CreateSubscription
  <2>2. n \in SubscriptionRow /\ n.id = serial + 1 /\ ~n.confirmed
    BY <1>1, <1>4 DEF SubscriptionRow
  <2> HIDE DEF n
  <2>3. StoreTypeOK' /\ serial' \in 0..MaxSerial
    BY <1>1, <1>4, <2>1, <2>2, BoundsAssumption DEF StoreTypeOK
  <2>4. \A s \in subscriptions : s.id \in Nat /\ s.id # serial + 1
    BY <1>1 DEF SubscriptionRow
  <2>5. \A s \in subscriptions' : s.id <= serial'
    BY <1>1, <1>4, <2>1, <2>2, <2>4
  <2>6. \A s, t \in subscriptions' : s.id = t.id => s = t
    BY <1>1, <2>1, <2>2, <2>4
  <2>7. \A s \in subscriptions' : OldRow(s) \/ NewRow(s)
    BY <1>4, <2>1, <2>2 DEF OldRow, NewRow
  <2> QED BY <1>4, <2>1, <2>3, <2>5, <2>6, <2>7
<1>5. ASSUME NEW i, ConfirmSubscription(i), UNCHANGED serial
      PROVE  /\ StoreTypeOK' /\ lastSeenTag' = lastSeenTag
             /\ serial' \in {serial, serial + 1} /\ serial' \in 0..MaxSerial
             /\ \A s \in subscriptions' : s.id <= serial'
             /\ \A s, t \in subscriptions' : s.id = t.id => s = t
             /\ \A s \in subscriptions' : OldRow(s) \/ NewRow(s)
  <2>1. ASSUME NEW s \in subscriptions'
        PROVE  \E o \in subscriptions :
                  /\ s \in SubscriptionRow /\ s.id = o.id /\ s.repo = o.repo
                  /\ o.confirmed => s.confirmed
                  /\ s = IF o.id = i THEN [o EXCEPT !.confirmed = TRUE] ELSE o
    BY <1>1, <1>5, <2>1 DEF ConfirmSubscription, SubscriptionRow
  <2>2. subscriptions' \subseteq SubscriptionRow
    BY <2>1
  <2>3. \A s, t \in subscriptions' : s.id = t.id => s = t
    <3> TAKE s, t \in subscriptions'
    <3>1. PICK o \in subscriptions :
             s.id = o.id /\ s = IF o.id = i THEN [o EXCEPT !.confirmed = TRUE] ELSE o
      BY <2>1
    <3>2. PICK p \in subscriptions :
             t.id = p.id /\ t = IF p.id = i THEN [p EXCEPT !.confirmed = TRUE] ELSE p
      BY <2>1
    <3>3. s.id = t.id => o = p
      BY <1>1, <3>1, <3>2
    <3> QED BY <3>1, <3>2, <3>3
  <2> QED BY <1>1, <1>5, <2>1, <2>2, <2>3 DEF ConfirmSubscription, StoreTypeOK, OldRow
<1>6. ASSUME NEW i, DeleteSubscription(i), UNCHANGED serial
      PROVE  /\ StoreTypeOK' /\ lastSeenTag' = lastSeenTag
             /\ serial' \in {serial, serial + 1} /\ serial' \in 0..MaxSerial
             /\ \A s \in subscriptions' : s.id <= serial'
             /\ \A s, t \in subscriptions' : s.id = t.id => s = t
             /\ \A s \in subscriptions' : OldRow(s) \/ NewRow(s)
  BY <1>1, <1>6 DEF DeleteSubscription, StoreTypeOK, OldRow
<1> QED BY <1>2, <1>3, <1>4, <1>5, <1>6 DEF RequestWrites

LEMMA RequestsKeep == ASSUME IInv, Requests PROVE IInv'
<1> USE DEF scan, github, history
<1>1. /\ StoreTypeOK' /\ lastSeenTag' = lastSeenTag
      /\ serial' \in {serial, serial + 1} /\ serial' \in 0..MaxSerial
      /\ \A s \in subscriptions' : s.id <= serial'
      /\ \A s, t \in subscriptions' : s.id = t.id => s = t
      /\ \A s \in subscriptions' : OldRow(s) \/ NewRow(s)
  BY RequestRows DEF Requests
<1>2. UNCHANGED <<scan, github, faults, history>> /\ serial \in Nat /\ serial <= serial'
  BY <1>1, BoundsAssumption DEF Requests, IInv, TypeOK
<1>3. TypeOK'
  BY <1>1, <1>2 DEF IInv, TypeOK
<1>4. LocalsOK' /\ TagsArePublished' /\ SnapshotIsFresh' /\ CacheAgrees' /\ TagsAdvance'
  BY <1>1, <1>2 DEF IInv, LocalsOK, TagsArePublished, SnapshotIsFresh, CacheAgrees, TagsAdvance,
                    Checking
<1>5. CopiesPaidFor'
  BY <1>2 DEF IInv, CopiesPaidFor, FaultCount
<1>6. ASSUME NEW s \in subscriptions', NewRow(s)
      PROVE  /\ s.id \notin unsent \cup due /\ s.repo \in Repos
             /\ \A t \in Tags : copies[<<s.id, t>>] = 0
  <2>1. s.id > serial /\ s.id \in Ids /\ s.repo \in Repos
    BY <1>1, <1>2, <1>6, BoundsAssumption DEF NewRow, Ids, StoreTypeOK, SubscriptionRow
  <2> QED BY <1>2, <2>1 DEF IInv, IdsAreKeys
<1>7. IdsAreKeys'
  <2>1. unsent \cup due \subseteq 1..serial'
    BY <1>1, <1>2 DEF IInv, IdsAreKeys
  <2>2. \A i \in Ids, t \in Tags : i > serial' => copies[<<i, t>>] = 0
    BY <1>1, <1>2 DEF IInv, IdsAreKeys, Ids
  <2> QED BY <1>1, <1>2, <2>1, <2>2 DEF IdsAreKeys
<1>8. RecipientsAreConfirmed'
  BY <1>1, <1>2, <1>6 DEF IInv, RecipientsAreConfirmed, OldRow
<1>9. OnlyConfirmedAreMailed'
  <2> SUFFICES ASSUME NEW s \in subscriptions', ~s.confirmed, NEW t \in Tags
               PROVE  copies[<<s.id, t>>] = 0
    BY <1>2 DEF OnlyConfirmedAreMailed
  <2>1. CASE OldRow(s)
    BY <2>1 DEF IInv, OnlyConfirmedAreMailed, OldRow
  <2> QED BY <1>1, <1>6, <2>1
<1>10. NewsFollowsBaseline'
  <2> SUFFICES ASSUME faults.stale = 0, NEW s \in subscriptions', NEW t \in Tags,
                      copies[<<s.id, t>>] > 0
               PROVE  baseline[s.repo] # NoTag /\ t > baseline[s.repo]
    BY <1>2 DEF NewsFollowsBaseline
  <2>1. OldRow(s)
    BY <1>1, <1>6
  <2> QED BY <2>1 DEF IInv, NewsFollowsBaseline, OldRow
<1>11. TriedSoFar'
  <2> SUFFICES ASSUME pc \in {"send", "record"}, repoCtx = "live", NEW s \in subscriptions',
                      s.id \in due \ (excused \cup unsent)
               PROVE  copies[<<s.id, release>>] > 0
    BY <1>2 DEF TriedSoFar
  <2>1. OldRow(s)
    BY <1>1, <1>6
  <2> QED BY <2>1 DEF IInv, TriedSoFar, OldRow
<1>12. CopiesAccounted'
  <2>1. FaultCount' = FaultCount /\ FaultCount \in Nat /\ (faults.stale > 0 => FaultCount > 0)
    BY <1>2, FaultCounts DEF IInv, TypeOK, FaultsTyped
  <2>2. ASSUME NEW s \in subscriptions', NEW t \in Tags
        PROVE  copies[<<s.id, t>>] + MailsToCome(s, t)' <= 1 + FaultCount
    <3>1. /\ Coming(s.repo, t)' = Coming(s.repo, t)
          /\ Coming(s.repo, t) = (IF Later(s.repo, t) THEN 1 ELSE 0) + (IF t > latest[s.repo] THEN 1 ELSE 0)
      BY <1>1, <1>2 DEF Coming, Later, Settled
    <3>2. ASSUME NEW o \in subscriptions, o.id = s.id, o.repo = s.repo
          PROVE  copies[<<s.id, t>>] + MailsToCome(s, t)' <= 1 + FaultCount
      <4>1. copies[<<o.id, t>>] + MailsToCome(o, t) <= 1 + FaultCount
        BY DEF IInv, CopiesAccounted
      <4>2. Soon(s, t)' = Soon(o, t)
        BY <1>2, <3>2 DEF Soon
      <4> QED BY <3>1, <3>2, <4>1, <4>2 DEF MailsToCome
    <3>3. CASE NewRow(s)
      <4>1. copies[<<s.id, t>>] = 0 /\ s.id \notin unsent /\ s.repo \in Repos
        BY <1>6, <3>3
      <4>2. Soon(s, t)' => pc = "recipients" /\ repoCtx = "live" /\ s.repo = current.repo /\ t = release
        BY <1>2, <4>1 DEF Soon
      <4>3. /\ latest[s.repo] \in Nat /\ cached[s.repo] \in Nat /\ lastSeenTag[s.repo] \in Nat
            /\ release \in Nat /\ t \in Nat /\ faults.stale \in Nat
        BY <4>1, FaultCounts DEF IInv, TypeOK, StoreTypeOK, Tags, FaultsTyped
      <4>4. ASSUME faults.stale = 0, Soon(s, t)'
            PROVE  ~Later(s.repo, t) /\ ~(t > latest[s.repo])
        <5>1. pc \in Announcing /\ release <= latest[s.repo] /\ Settled(s.repo) = release
          BY <4>2, <4>4 DEF Announcing, IInv, TagsArePublished, Settled
        <5>2. cached[s.repo] \in {NoTag, release}
          BY <4>2, <4>3, <4>4, <5>1 DEF IInv, CacheAgrees
        <5> QED BY <4>2, <4>3, <4>4, <5>1, <5>2 DEF Later, Tags, NoTag
      <4>5. ASSUME faults.stale = 0 PROVE ~(Later(s.repo, t) /\ t > latest[s.repo])
        BY <4>1, <4>3, <4>5 DEF Later, IInv, TagsArePublished
      <4>6. Soon(s, t)' /\ Later(s.repo, t) => ~(t > latest[s.repo])
        <5>1. Soon(s, t)' => Settled(s.repo) = t
          BY <4>2 DEF Announcing, Settled
        <5> QED BY <4>3, <5>1 DEF Later
      <4> QED BY <2>1, <3>1, <4>1, <4>3, <4>4, <4>5, <4>6 DEF MailsToCome
    <3> QED BY <1>1, <3>2, <3>3 DEF OldRow
  <2> QED BY <1>2, <2>1, <2>2 DEF IInv, CopiesAccounted
<1> QED BY <1>3, <1>4, <1>5, <1>7, <1>8, <1>9, <1>10, <1>11, <1>12 DEF IInv

-----------------------------------------------------------------------------
(* Every behaviour. *)

LEMMA InitInvariant == ASSUME Init PROVE IInv
<1> USE DEF Init, StoreInit, Idle
<1>1. TypeOK
  BY BoundsAssumption, NoMailTyped DEF TypeOK, StoreTypeOK, PCs, Contexts, NoTag
<1>2. LocalsOK /\ RecipientsAreConfirmed /\ SnapshotIsFresh /\ CacheAgrees /\ TriedSoFar
  BY DEF LocalsOK, RecipientsAreConfirmed, SnapshotIsFresh, CacheAgrees, TriedSoFar, Checking,
         Announcing
<1>3. TagsArePublished /\ TagsAdvance
  BY BoundsAssumption DEF TagsArePublished, TagsAdvance, NoTag, Announcing
<1>4. \A i \in Ids, t \in Tags : copies[<<i, t>>] = 0
  OBVIOUS
<1>5. IdsAreKeys
  BY <1>4 DEF IdsAreKeys
<1>6. OnlyConfirmedAreMailed /\ NewsFollowsBaseline /\ CopiesAccounted
  BY DEF OnlyConfirmedAreMailed, NewsFollowsBaseline, CopiesAccounted
<1>7. CopiesPaidFor
  BY <1>4 DEF CopiesPaidFor, FaultCount
<1> QED BY <1>1, <1>2, <1>3, <1>5, <1>6, <1>7 DEF IInv

LEMMA StutterKeeps == ASSUME IInv, UNCHANGED vars PROVE IInv'
<1> USE DEF vars, scan
<1>1. TypeOK' /\ LocalsOK' /\ TagsArePublished' /\ IdsAreKeys' /\ SnapshotIsFresh'
  BY DEF IInv, TypeOK, StoreTypeOK, LocalsOK, Checking, TagsArePublished, IdsAreKeys,
         SnapshotIsFresh
<1>2. RecipientsAreConfirmed' /\ OnlyConfirmedAreMailed' /\ CacheAgrees' /\ TagsAdvance'
  BY DEF IInv, RecipientsAreConfirmed, OnlyConfirmedAreMailed, CacheAgrees, TagsAdvance
<1>3. NewsFollowsBaseline' /\ TriedSoFar' /\ CopiesPaidFor'
  BY DEF IInv, NewsFollowsBaseline, TriedSoFar, CopiesPaidFor, FaultCount
<1>4. CopiesAccounted'
  BY DEF IInv, CopiesAccounted, MailsToCome, Coming, Soon, Later, Settled, FaultCount
<1> QED BY <1>1, <1>2, <1>3, <1>4 DEF IInv

LEMMA NextKeeps == ASSUME IInv, [Next]_vars PROVE IInv'
<1>1. CASE ScannerStep
  BY <1>1, StartCycleKeeps, ListReposKeeps, NextRepoKeeps, FetchKeeps, ListSubscribersKeeps,
     SendMailKeeps, NotifyEndsKeeps, RecordKeeps DEF ScannerStep
<1>2. CASE RepoDeadline \/ CycleDeadline \/ Crash
  BY <1>2, DeadlineKeeps, CrashKeeps
<1>3. CASE \E r \in Repos : Publish(r) \/ Withdraw(r) \/ CacheExpires(r)
  BY <1>3, PublishKeeps, WithdrawKeeps, CacheExpiresKeeps
<1>4. CASE Requests
  BY <1>4, RequestsKeep
<1>5. CASE UNCHANGED vars
  BY <1>5, StutterKeeps
<1> QED BY <1>1, <1>2, <1>3, <1>4, <1>5 DEF Next

\* The inductive invariant holds in every state of the scanner, whatever is
\* published, expires, fails, is requested or crashes in between.
THEOREM Invariance == Spec => []IInv
<1>1. Init => IInv
  BY InitInvariant
<1>2. IInv /\ [Next]_vars => IInv'
  BY NextKeeps
<1> QED BY <1>1, <1>2, PTL DEF Spec

\* Every variable of the scanner keeps its type.
THEOREM TypeCorrect == Spec => []TypeOK
<1>1. IInv => TypeOK
  BY DEF IInv
<1> QED BY <1>1, Invariance, PTL

\* The tag a check compares with is the one in the table: nobody else writes
\* it between the listing and the comparison.
THEOREM FreshSnapshot == Spec => []SnapshotIsFresh
<1>1. IInv => SnapshotIsFresh
  BY DEF IInv
<1> QED BY <1>1, Invariance, PTL

\* A subscription that is not confirmed is never mailed a release.
THEOREM ConsentToNews == Spec => []OnlyConfirmedAreMailed
<1>1. IInv => OnlyConfirmedAreMailed
  BY DEF IInv
<1> QED BY <1>1, Invariance, PTL

\* Each copy of a notice beyond the first is paid for by a fault.
THEOREM NoFreeCopies == Spec => []CopiesPaidFor
<1>1. IInv => CopiesPaidFor
  BY DEF IInv
<1> QED BY <1>1, Invariance, PTL

\* As long as the cache has not failed and no release was withdrawn, nobody
\* hears of the baseline or of anything older.
THEOREM BaselineFirst == Spec => []NewsFollowsBaseline
<1>1. IInv => NewsFollowsBaseline
  BY DEF IInv
<1> QED BY <1>1, Invariance, PTL

\* A tag is recorded in place of another only in the last step of a check,
\* and then for whoever is in its recipients the notice was delivered or
\* given up for a cause.
LEMMA AdvanceIsTried ==
    ASSUME IInv, Next, NEW r \in Repos, Advances(r)
    PROVE  Served(r, due \ excused)
<1>1. lastSeenTag' # lastSeenTag
  BY DEF Advances
<1>2. Record
  <2>1. CASE ScannerStep
    BY <1>1, <2>1 DEF ScannerStep, StartCycle, ListRepos, NextRepo, Fetch, ListSubscribers,
                      SendMail, NotifyEnds, store
  <2>2. CASE RepoDeadline \/ CycleDeadline \/ Crash
    BY <1>1, <2>2 DEF RepoDeadline, CycleDeadline, Crash, store
  <2>3. CASE \E q \in Repos : Publish(q) \/ Withdraw(q) \/ CacheExpires(q)
    BY <1>1, <2>3 DEF Publish, Withdraw, CacheExpires, store
  <2>4. CASE Requests
    BY <1>1, <2>4, RequestRows DEF Requests
  <2> QED BY <2>1, <2>2, <2>3, <2>4 DEF Next
<1>3. Applied /\ repoCtx = "live" /\ pc = "record" /\ unsent = {}
  BY <1>1, <1>2 DEF Record, store, IInv, LocalsOK
<1>4. lastSeenTag \in [Repos -> Nat] /\ lastSeenTag' = [lastSeenTag EXCEPT ![current.repo] = release]
  BY <1>3 DEF Applied, UpdateLastSeenTag, IInv, TypeOK, StoreTypeOK
<1>5. r = current.repo /\ lastSeenTag'[r] = release
  BY <1>4 DEF Advances
<1> QED BY <1>2, <1>3, <1>5 DEF Served, IInv, TriedSoFar, Record

\* A deadline, a shutdown or a crash never drops a notice that was not tried.
THEOREM TriedBeforeRecorded == Spec => RecordedOnceTried
<1>1. IInv /\ [Next]_vars => [\A r \in Repos : Advances(r) => Served(r, due \ excused)]_vars
  BY AdvanceIsTried
<1> QED BY <1>1, Invariance, PTL DEF Spec, RecordedOnceTried
=============================================================================
