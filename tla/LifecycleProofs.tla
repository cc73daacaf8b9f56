-------------------------- MODULE LifecycleProofs --------------------------
(* Theorems about Lifecycle for every value of its constants. *)
EXTENDS Lifecycle, SubscriptionsProofs

-----------------------------------------------------------------------------
(* The steps of LifeNext, seen from Subscriptions. *)

\* Steps of main, its listeners and its clients' streams that end no request.
Quiet ==
    \/ Start \/ Signal \/ TimeoutExpires \/ GrpcStopped \/ HttpStopped \/ StreamStep
    \/ \E p \in {"http", "grpc"} : Listen(p)

\* main is quiet, an old step of Subscriptions runs, or the process ends.
LEMMA StepsOfLife ==
    ASSUME [LifeNext]_lifeVars
    PROVE  \/ Quiet \/ UNCHANGED lifeVars
           \/ (\E r \in Requests : RequestStep(r)) \/ NotifierStep
           \/ (\E r \in Requests : StatementRefused(r))
           \/ HttpListenFails \/ ProcessEnds
BY DEF LifeNext, Quiet

\* All but the end of the process and of its database are steps of
\* Subscriptions, or of nobody.
LEMMA NextOrExit ==
    ASSUME [LifeNext]_lifeVars
    PROVE  \/ [Next]_vars /\ cut' = cut
           \/ \E r \in Requests : StatementRefused(r)
           \/ Exit
<1>1. CASE Quiet
  BY <1>1 DEF Quiet, Start, Signal, TimeoutExpires, GrpcStopped, HttpStopped, StreamStep, Listen
<1>2. CASE UNCHANGED lifeVars
  BY <1>2 DEF lifeVars, process
<1>3. ASSUME NEW r \in Requests, RequestStep(r) PROVE [Next]_vars /\ cut' = cut
  BY <1>3 DEF RequestStep, Next, process
<1>4. CASE NotifierStep
  BY <1>4 DEF NotifierStep, Next, process
<1>5. CASE HttpListenFails \/ ProcessEnds
  BY <1>5 DEF HttpListenFails, ProcessEnds
<1> QED BY <1>1, <1>2, <1>3, <1>4, <1>5, StepsOfLife

\* The invariant of Subscriptions survives exits and restarts.
LEMMA LifeKeeps == ASSUME IInv, [LifeNext]_lifeVars PROVE IInv'
<1>1. ASSUME NEW r \in Requests, StatementRefused(r) PROVE IInv'
  <2>1. /\ Return(r, "error") /\ UNCHANGED <<subscriptions, serial, listed, inbox>>
        /\ UNCHANGED store
    BY <1>1 DEF StatementRefused, store
  <2>2. StoreTypeOK'
    BY <2>1, StoreTypes DEF IInv, TypeOK
  <2>3. "error" \in Replies \ {"subscribed", "confirmed", "unsubscribed"}
    BY DEF Replies
  <2> QED BY <2>1, <2>2, <2>3, ReturnKeeps
<1> QED BY <1>1, NextOrExit, NextKeeps, RestartKeeps DEF Exit

\* What Subscriptions promises holds through any number of starts, shutdowns,
\* failed listeners and cut-off requests.
THEOREM SafeThroughLife == LifeSpec => []IInv
<1>1. LifeInit => IInv
  BY InitInvariant DEF LifeInit
<1>2. IInv /\ [LifeNext]_lifeVars => IInv'
  BY LifeKeeps
<1> QED BY <1>1, <1>2, PTL DEF LifeSpec

-----------------------------------------------------------------------------
(* What an exit leaves behind. *)

\* An exit moves the rows of the Subscribes in flight from them to cut.
LEMMA ExitStrands == ASSUME InFlightOr(cut), Exit PROVE AllLive' /\ StrandedOnlyIfCut'
<1>1. AllLive'
  BY DEF AllLive, Exit, FreshRequest
<1>2. ASSUME NEW s \in subscriptions', Stranded(s.id)' PROVE s.id \in cut'
  <2>1. s \in subscriptions /\ Stranded(s.id)
    BY <1>2 DEF Exit, store, Stranded, Invited
  <2>2. CASE s.id \in cut
    BY <2>2 DEF Exit
  <2>3. ASSUME NEW r \in Requests, Registering(r), requests[r].id = s.id
        PROVE  s.id \in cut'
    BY <2>3 DEF Exit
  <2> QED BY <2>1, <2>2, <2>3 DEF InFlightOr
<1> QED BY <1>1, <1>2 DEF StrandedOnlyIfCut

\* A rollback that finds the database closed moves its row to cut.
LEMMA RefusalStrands ==
    ASSUME TypeOK, AllLive, InFlightOr(cut), NEW r \in Requests, StatementRefused(r)
    PROVE  AllLive' /\ StrandedOnlyIfCut'
<1> DEFINE w == [FreshRequest EXCEPT !.id = requests[r].id, !.reply = "error"]
<1>1. w.ctx = "live" /\ requests' = [requests EXCEPT ![r] = w] /\ requests \in [Requests -> Request]
  BY DEF StatementRefused, Return, FreshRequest, TypeOK
<1> HIDE DEF w
<1>2. requests'[r].ctx = "live" /\ \A q \in Requests \ {r} : requests'[q] = requests[q]
  BY <1>1
<1>3. AllLive'
  BY <1>2 DEF AllLive
<1>4. ASSUME NEW s \in subscriptions', Stranded(s.id)', s.id \notin cut'
      PROVE  \E q \in Requests : (Registering(q) /\ requests[q].id = s.id)'
  <2>1. s \in subscriptions /\ Stranded(s.id) /\ s.id \notin cut
    BY <1>4 DEF StatementRefused, store, Stranded, Invited
  <2>2. PICK q \in Requests : Registering(q) /\ requests[q].id = s.id
    BY <2>1 DEF InFlightOr
  <2>3. q # r
    BY <1>4, <2>2 DEF StatementRefused
  <2> QED BY <1>2, <2>2, <2>3 DEF Registering
<1> QED BY <1>3, <1>4 DEF StrandedOnlyIfCut

\* As long as only GitHub and the mail server fail, nothing but an exit leaves a
\* row behind whose owner has no link and whose Subscribe is gone.
THEOREM OnlyExitsStrand ==
    ASSUME Faults \subseteq {"github", "mail"}
    PROVE  LifeSpec => []StrandedOnlyIfCut
<1>1. LifeInit => AllLive /\ StrandedOnlyIfCut
  BY DEF LifeInit, Init, StoreInit, AllLive, StrandedOnlyIfCut, FreshRequest
<1>2. ASSUME IInv, AllLive, StrandedOnlyIfCut, [LifeNext]_lifeVars
      PROVE  AllLive' /\ StrandedOnlyIfCut'
  <2>1. InFlightOr(cut)
    BY <1>2 DEF StrandedOnlyIfCut, InFlightOr
  <2>2. CASE Exit
    BY <2>1, <2>2, ExitStrands
  <2>3. ASSUME NEW r \in Requests, StatementRefused(r) PROVE AllLive' /\ StrandedOnlyIfCut'
    BY <1>2, <2>1, <2>3, RefusalStrands DEF IInv
  <2>4. CASE [Next]_vars /\ cut' = cut
    <3> DEFINE C == cut
    <3>1. AllLive' /\ \A s \in subscriptions' : Stranded(s.id)' =>
              s.id \in C \/ \E r \in Requests : (Registering(r) /\ requests[r].id = s.id)'
      BY <1>2, <2>1, <2>4, StrandedStep DEF InFlightOr
    <3> QED BY <2>4, <3>1 DEF StrandedOnlyIfCut
  <2> QED BY <1>2, <2>2, <2>3, <2>4, NextOrExit
<1> QED BY <1>1, <1>2, SafeThroughLife, PTL DEF LifeSpec

-----------------------------------------------------------------------------
(* Who is served, and who is cut off. *)

\* A request that is in flight after a step was so before, or has just been
\* taken in by an open listener.
LEMMA OnlyAcceptedRun ==
    ASSUME TypeOK, NEW r \in Requests, RequestStep(r), NEW q \in Requests, Running(q)'
    PROVE  Running(q) \/ Accepted(q)
<1>1. requests \in [Requests -> Request]
  BY DEF TypeOK
<1>2. CASE Running(r) \/ Accepted(r)
  <2>1. ASSUME q # r PROVE requests'[q] = requests[q]
    <3>1. ASSUME NEW w, requests' = [requests EXCEPT ![r] = w] PROVE requests'[q] = requests[q]
      BY <1>1, <2>1, <3>1
    <3>2. CASE Arrival(r)
      BY <3>1, <3>2 DEF Arrival, SubscribeArrives, ConfirmArrives, UnsubscribeArrives,
                        Arrive, Refuse
    <3>3. CASE SubscribeStep(r)
      BY <3>1, <3>3 DEF SubscribeStep, SubscribeChecksRepo, SubscribeCreatesRepo,
                        SubscribeLooksUp, SubscribeInserts, SubscribeMails,
                        SubscribeRollsBack, Goto, GotoWith, Return
    <3>4. CASE TokenStep(r)
      BY <3>1, <3>4 DEF TokenStep, ConfirmLooksUp, ConfirmUpdates, UnsubscribeLooksUp,
                        UnsubscribeDeletes, Found, GotoWith, Return
    <3>5. CASE ClientGone(r)
      BY <1>1, <2>1, <3>5 DEF ClientGone
    <3> QED BY <3>2, <3>3, <3>4, <3>5 DEF RequestStep
  <2> QED BY <1>2, <2>1 DEF Running
<1>3. CASE ~Running(r)
  BY <1>2, <1>3 DEF RequestStep, SubscribeStep, SubscribeChecksRepo, SubscribeCreatesRepo,
                    SubscribeLooksUp, SubscribeInserts, SubscribeMails, SubscribeRollsBack,
                    TokenStep, ConfirmLooksUp, ConfirmUpdates, UnsubscribeLooksUp,
                    UnsubscribeDeletes, ClientGone, Running
<1> QED BY <1>2, <1>3

\* The end of the process leaves nothing of it.
LEMMA ExitTypes == ASSUME IInv, LifeTypeOK, Exit PROVE LifeTypeOK'
<1>1. \A r \in Requests : ~Running(r)'
  BY DEF Exit, Running, FreshRequest
<1>2. \A r \in Requests : Registering(r) => requests[r].id \in Nat \ {0}
  BY DEF IInv, ArgumentsOK, TypeOK, Request
<1> QED BY <1>1, <1>2 DEF Exit, LifeTypeOK, InFlight

\* Requests are in flight, and streams open, only while their server may serve.
LEMMA LifeTypesKept == ASSUME IInv, LifeTypeOK, [LifeNext]_lifeVars PROVE LifeTypeOK'
<1>1. CASE Quiet
  <2>1. UNCHANGED requests
    BY <1>1 DEF Quiet, Start, Signal, TimeoutExpires, GrpcStopped, HttpStopped, StreamStep,
                Listen, vars
  <2>2. InFlight("grpc")' = InFlight("grpc") /\ InFlight("http")' = InFlight("http")
    BY <2>1 DEF InFlight, Running, Proto
  <2>3. CASE Start \/ Signal
    <3>1. UNCHANGED <<expired, stream, cut>> /\ main' \in {"serving", "grpcStop"}
      BY <2>3 DEF Start, Signal
    <3>2. ~expired'
      BY <2>3, <3>1 DEF LifeTypeOK, Start, Signal
    <3>3. starts' \in 0..MaxStarts
      BY <2>3, MaxStartsAssumption DEF LifeTypeOK, Start, Signal
    <3>4. up' \subseteq {"http", "grpc"} /\ ("grpc" \in up' => main' = "serving")
      BY <2>3 DEF LifeTypeOK, Start, Signal
    <3>5. (expired \in BOOLEAN /\ stream \in BOOLEAN)' /\ cut' \subseteq Nat \ {0}
      BY <3>1 DEF LifeTypeOK
    <3> QED BY <3>1, <3>2, <3>3, <3>4, <3>5 DEF LifeTypeOK
  <2>4. CASE TimeoutExpires \/ GrpcStopped \/ StreamStep
    <3>1. UNCHANGED <<starts, cut>>
      BY <2>4 DEF TimeoutExpires, GrpcStopped, StreamStep
    <3>2. (expired \in BOOLEAN /\ stream \in BOOLEAN)'
      BY <2>4 DEF LifeTypeOK, TimeoutExpires, GrpcStopped, StreamStep, OpenStream, CloseStream
    <3>3. up' \subseteq up /\ main' \in {"serving", "grpcStop", "httpStop", "closing", "down"}
      BY <2>4 DEF LifeTypeOK, TimeoutExpires, GrpcStopped, StreamStep
    <3>4. /\ "http" \in up' => main' \in {"serving", "grpcStop"}
          /\ "grpc" \in up' => main' = "serving"
      BY <2>4 DEF LifeTypeOK, TimeoutExpires, GrpcStopped, StreamStep
    <3>5. /\ expired' => main' \in {"grpcStop", "httpStop", "closing"}
          /\ main' = "closing" /\ InFlight("http")' # {} => expired'
      BY <2>2, <2>4 DEF LifeTypeOK, TimeoutExpires, GrpcStopped, StreamStep
    <3>6. stream' \/ InFlight("grpc")' # {} => main' \in {"serving", "grpcStop"}
      BY <2>2, <2>4 DEF LifeTypeOK, TimeoutExpires, GrpcStopped, StreamStep, OpenStream,
                        CloseStream
    <3> QED BY <3>1, <3>2, <3>3, <3>4, <3>5, <3>6 DEF LifeTypeOK
  <2>5. ASSUME NEW p \in {"http", "grpc"}, Listen(p) PROVE LifeTypeOK'
    BY <2>2, <2>5 DEF LifeTypeOK, Listen
  <2>6. CASE HttpStopped
    <3>1. InFlight("http") # {} => expired
      BY <2>6 DEF HttpStopped
    <3> QED BY <2>2, <2>6, <3>1 DEF LifeTypeOK, HttpStopped
  <2> QED BY <1>1, <2>3, <2>4, <2>5, <2>6 DEF Quiet
<1>2. CASE UNCHANGED lifeVars \/ NotifierStep
  <2>1. UNCHANGED <<requests, process>>
    BY <1>2 DEF lifeVars, vars, NotifierStep, NotifierLists, NotifierMails
  <2> QED BY <2>1 DEF LifeTypeOK, process, InFlight, Running, Proto
<1>3. ASSUME NEW r \in Requests, RequestStep(r) PROVE LifeTypeOK'
  <2>1. /\ \A q \in InFlight("grpc")' : q \in InFlight("grpc") \/ "grpc" \in up
        /\ \A q \in InFlight("http")' : q \in InFlight("http") \/ "http" \in up
    BY <1>3, OnlyAcceptedRun DEF IInv, InFlight, Accepted, Proto
  <2>2. /\ stream \/ InFlight("grpc")' # {} => main \in {"serving", "grpcStop"}
        /\ main = "closing" /\ InFlight("http")' # {} => expired
    BY <2>1 DEF LifeTypeOK
  <2> QED BY <1>3, <2>2 DEF RequestStep, process, LifeTypeOK
<1>4. ASSUME NEW r \in Requests, StatementRefused(r) PROVE LifeTypeOK'
  <2>1. \A q \in Requests : Running(q)' => Running(q)
    BY <1>4 DEF StatementRefused, Return, Running, Statements, IInv, TypeOK
  <2>2. InFlight("grpc")' \subseteq InFlight("grpc") /\ InFlight("http")' \subseteq InFlight("http")
    BY <2>1 DEF InFlight, Proto
  <2>3. cut' \subseteq Nat \ {0}
    <3>1. Registering(r) => requests[r].id \in Nat \ {0}
      BY DEF IInv, ArgumentsOK, TypeOK, Request
    <3> QED BY <1>4, <3>1 DEF LifeTypeOK, StatementRefused
  <2>4. UNCHANGED <<main, up, expired, stream, starts>>
    BY <1>4 DEF StatementRefused
  <2> QED BY <2>2, <2>3, <2>4 DEF LifeTypeOK
<1>5. CASE HttpListenFails \/ ProcessEnds
  BY <1>5, ExitTypes DEF HttpListenFails, ProcessEnds
<1> QED BY <1>1, <1>2, <1>3, <1>4, <1>5, StepsOfLife

\* main, the listeners and the requests they let in fit together at all times.
THEOREM LifeTypesHold == LifeSpec => []LifeTypeOK
<1>1. LifeInit => LifeTypeOK
  <2> SUFFICES ASSUME LifeInit PROVE LifeTypeOK
    OBVIOUS
  <2>1. FreshRequest.at = "idle"
    BY DEF FreshRequest
  <2>2. InFlight("grpc") = {}
    BY <2>1 DEF LifeInit, Init, InFlight, Running
  <2>3. starts \in 0..MaxStarts
    BY MaxStartsAssumption DEF LifeInit
  <2> QED BY <2>2, <2>3 DEF LifeInit, LifeTypeOK
<1>2. IInv /\ LifeTypeOK /\ [LifeNext]_lifeVars => LifeTypeOK'
  BY LifeTypesKept
<1> QED BY <1>1, <1>2, SafeThroughLife, PTL DEF LifeSpec

\* When main comes to close the database and end, gRPC has no call left, and
\* HTTP one only if the timeout is over.
THEOREM ShutdownSparesCalls == LifeSpec => OnlySlowHttpIsCut
<1> DEFINE Spared == main = "httpStop" /\ main' = "closing" =>
                         \A r \in Requests : Running(r) => r \in OverHTTP /\ expired
<1>1. LifeTypeOK /\ [LifeNext]_lifeVars => [Spared]_lifeVars
  <2> SUFFICES ASSUME LifeTypeOK, [LifeNext]_lifeVars, main = "httpStop", main' = "closing",
                      NEW r \in Requests, Running(r)
               PROVE  r \in OverHTTP /\ expired
    OBVIOUS
  <2>1. r \notin InFlight("grpc") /\ r \in OverHTTP
    BY DEF LifeTypeOK, InFlight, Proto
  <2>2. HttpStopped
    <3>1. Quiet => HttpStopped
      BY DEF Quiet, Start, Signal, TimeoutExpires, GrpcStopped, StreamStep, Listen
    <3>2. UNCHANGED main => FALSE
      OBVIOUS
    <3> QED BY <3>1, <3>2, StepsOfLife
            DEF RequestStep, NotifierStep, process, lifeVars, HttpListenFails,
                StatementRefused, ProcessEnds, Exit
  <2>3. r \in InFlight("http")
    BY <2>1 DEF InFlight, Proto
  <2> QED BY <2>1, <2>2, <2>3 DEF HttpStopped
<1> QED BY <1>1, LifeTypesHold, PTL DEF LifeSpec, OnlySlowHttpIsCut
=============================================================================
