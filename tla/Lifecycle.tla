----------------------------- MODULE Lifecycle -----------------------------
(***************************************************************************)
(* The process around Subscriptions (cmd/server/main.go, the gRPC server): *)
(* it starts, opens its two listeners, serves, and on a signal stops the   *)
(* gRPC server, then the HTTP server, closes the database, and exits, with *)
(* requests in flight on both.  A request never learns of the shutdown: its *)
(* context is its connection's, not the one main cancels; it finishes, or   *)
(* finds the database closed, or is cut off when the process ends.  Then    *)
(* the process is started again.                                            *)
(***************************************************************************)
EXTENDS Subscriptions

CONSTANTS
    OverHTTP,       \* the requests that come over HTTP; the others use gRPC
    MaxStarts       \* bound on the starts of the process

ASSUME OverHTTPAssumption == OverHTTP \subseteq Requests
ASSUME MaxStartsAssumption == MaxStarts \in Nat

VARIABLES
    main,       \* where main is: not running, at <-quit, in Stop, in Shutdown,
                \* in the deferred closes of Redis and the database
    up,         \* listeners that accept requests
    expired,    \* SERVER_SHUTDOWN_TIMEOUT is over
    stream,     \* a client holds a gRPC stream (reflection) open
    starts,     \* number of starts so far
    cut         \* history: rows whose Subscribe the exit cut off, or kept from
                \* its rollback

process == <<main, up, expired, stream, starts, cut>>
lifeVars == <<vars, process>>

Proto(r) == IF r \in OverHTTP THEN "http" ELSE "grpc"
InFlight(p) == {r \in Requests : Running(r) /\ Proto(r) = p}

LifeTypeOK ==
    /\ main \in {"down", "serving", "grpcStop", "httpStop", "closing"}
    /\ up \subseteq {"http", "grpc"}
    /\ expired \in BOOLEAN /\ stream \in BOOLEAN
    /\ starts \in 0..MaxStarts
    /\ cut \subseteq Nat \ {0}
    /\ "http" \in up => main \in {"serving", "grpcStop"}
    /\ "grpc" \in up => main = "serving"
    /\ expired => main \in {"grpcStop", "httpStop", "closing"}
    /\ main = "closing" /\ InFlight("http") # {} => expired
    /\ stream \/ InFlight("grpc") # {} => main \in {"serving", "grpcStop"}

LifeInit ==
    /\ Init
    /\ main = "down"
    /\ up = {}
    /\ expired = FALSE
    /\ stream = FALSE
    /\ starts = 0
    /\ cut = {}

-----------------------------------------------------------------------------
(* Start. *)

\* Migrations are applied, both servers and the scanner get their goroutines.
Start ==
    /\ main = "down"
    /\ starts < MaxStarts
    /\ main' = "serving"
    /\ starts' = starts + 1
    /\ UNCHANGED <<vars, up, expired, stream, cut>>

\* The goroutines open their ports at their own pace; a Serve that comes after
\* Stop or Shutdown returns at once.  A port gRPC cannot open is only logged.
Listen(p) ==
    /\ main = "serving" \/ (main = "grpcStop" /\ p = "http")
    /\ p \notin up
    /\ up' = up \cup {p}
    /\ UNCHANGED <<vars, main, expired, stream, starts, cut>>

\* The process is gone, and with it every request in flight.
Exit ==
    /\ main' = "down"
    /\ up' = {}
    /\ expired' = FALSE
    /\ stream' = FALSE
    /\ cut' = cut \cup {requests[r].id : r \in {q \in Requests : Registering(q)}}
    /\ requests' = [r \in Requests |-> FreshRequest]
    /\ UNCHANGED <<store, serial, listed, inbox, starts>>

\* A port HTTP cannot open is os.Exit(1), whatever gRPC is doing.
HttpListenFails ==
    /\ main \in {"serving", "grpcStop"}
    /\ "http" \notin up
    /\ Exit

-----------------------------------------------------------------------------
(* Shutdown. *)

\* The scanner's context is cancelled, the timeout armed, and GracefulStop
\* closes the gRPC listener; HTTP is served on.
Signal ==
    /\ main = "serving"
    /\ main' = "grpcStop"
    /\ up' = up \ {"grpc"}
    /\ UNCHANGED <<vars, expired, stream, starts, cut>>

TimeoutExpires ==
    /\ main \in {"grpcStop", "httpStop"}
    /\ ~expired
    /\ expired' = TRUE
    /\ UNCHANGED <<vars, main, up, stream, starts, cut>>

\* Faulty variant: Stop does not wait for the calls in flight.
GrpcStopsAtOnce ==
    /\ main = "grpcStop"
    /\ main' = "httpStop"
    /\ up' = up \ {"http"}
    /\ UNCHANGED <<vars, expired, stream, starts, cut>>

\* Faulty variant: Stop waits for the requests of both servers.
GrpcStopsAfterAll ==
    /\ main = "grpcStop"
    /\ InFlight("grpc") \cup InFlight("http") = {} /\ ~stream
    /\ main' = "httpStop"
    /\ up' = up \ {"http"}
    /\ UNCHANGED <<vars, expired, stream, starts, cut>>

\* Faulty variant: the HTTP listener is left open.
GrpcStoppedAlone ==
    /\ main = "grpcStop"
    /\ InFlight("grpc") = {} /\ ~stream
    /\ main' = "httpStop"
    /\ UNCHANGED <<vars, up, expired, stream, starts, cut>>

\* GracefulStop waits for calls and streams with no limit; Shutdown follows.
GrpcStopped ==
    /\ main = "grpcStop"
    /\ InFlight("grpc") = {} /\ ~stream
    /\ main' = "httpStop"
    /\ up' = up \ {"http"}
    /\ UNCHANGED <<vars, expired, stream, starts, cut>>

\* Shutdown returns when the last request is answered or the timeout is over;
\* its error is only logged, and main runs its deferred calls.
HttpStopped ==
    /\ main = "httpStop"
    /\ InFlight("http") = {} \/ expired
    /\ main' = "closing"
    /\ UNCHANGED <<vars, up, expired, stream, starts, cut>>

Statements == {"createRepository", "checkExisting", "createSubscription", "rollback",
               "findToConfirm", "confirm", "findToRemove", "remove"}

\* db.Close waits for the statements that run, and refuses new ones.
StatementRefused(r) ==
    /\ main = "closing"
    /\ requests[r].at \in Statements
    /\ Return(r, "error")
    /\ cut' = cut \cup (IF Registering(r) THEN {requests[r].id} ELSE {})
    /\ UNCHANGED <<store, serial, listed, inbox, main, up, expired, stream, starts>>

ProcessEnds == main = "closing" /\ Exit

-----------------------------------------------------------------------------
(* Requests and the notifier, within the life of the process. *)

\* A stopping server takes no new requests.
Accepted(r) == Proto(r) \in up

RequestStep(r) ==
    /\ (Arrival(r) /\ Accepted(r)) \/ SubscribeStep(r) \/ TokenStep(r) \/ ClientGone(r)
    /\ UNCHANGED process

OpenStream == "grpc" \in up /\ ~stream /\ stream' = TRUE
CloseStream == stream /\ stream' = FALSE
StreamStep ==
    /\ OpenStream \/ CloseStream
    /\ UNCHANGED <<vars, main, up, expired, starts, cut>>

\* Cancelled, the notifier lists nobody any more; a dialogue may still end.
NotifierStep ==
    /\ (main = "serving" /\ NotifierLists) \/ (main # "down" /\ NotifierMails)
    /\ UNCHANGED process

LifeNext ==
    \/ Start \/ HttpListenFails
    \/ \E p \in {"http", "grpc"} : Listen(p)
    \/ Signal \/ TimeoutExpires \/ GrpcStopped \/ HttpStopped \/ ProcessEnds
    \/ \E r \in Requests : RequestStep(r) \/ StatementRefused(r)
    \/ StreamStep \/ NotifierStep

LifeSpec == LifeInit /\ [][LifeNext]_lifeVars

\* Each outbound call ends within a timeout (withTimeout, the HTTP client's, the
\* SMTP deadline), so a request in flight takes its next step; main goes on as
\* soon as it can, and its timer fires.  Nobody need start it, or signal it.
FairLifeSpec ==
    /\ LifeSpec
    /\ \A r \in Requests :
          WF_lifeVars((SubscribeStep(r) \/ TokenStep(r)) /\ UNCHANGED process)
    /\ WF_lifeVars(TimeoutExpires)
    /\ WF_lifeVars(GrpcStopped)
    /\ WF_lifeVars(HttpStopped)
    /\ WF_lifeVars(ProcessEnds)

-----------------------------------------------------------------------------
(* Properties. *)

\* A row whose owner got no link is in the hands of its Subscribe, or of one
\* that an exit cut off or kept from its rollback (as long as only GitHub and
\* the mail server fail).
StrandedOnlyIfCut ==
    \A s \in subscriptions : Stranded(s.id) =>
        \/ s.id \in cut
        \/ \E r \in Requests : Registering(r) /\ requests[r].id = s.id

\* ... so in the end the link is delivered, the row is removed, or it was an
\* exit that left it behind.
ResolvedUnlessCut ==
    \A i \in 1..MaxSerial : Stranded(i) ~> ~Stranded(i) \/ i \in cut

\* An orderly shutdown leaves no gRPC call to the closing of the database and
\* the end of the process, and an HTTP request only when the timeout is over,
\* although HTTP is served on while gRPC drains.
OnlySlowHttpIsCut ==
    [][main = "httpStop" /\ main' = "closing" =>
          \A r \in Requests : Running(r) => r \in OverHTTP /\ expired]_lifeVars

\* After the signal the process ends, whatever is in flight, unless a client
\* keeps a stream open.
ShutdownEnds == main = "grpcStop" /\ ~stream ~> main = "down"
=============================================================================
