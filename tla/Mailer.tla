------------------------------ MODULE Mailer ------------------------------
(***************************************************************************)
(* One call that sends mail: NotifySubscribers with its loop over the      *)
(* recipients, each through platform.DoVoid, or one                        *)
(* SendConfirmation of a Subscribe; below both the SMTP dialogue of        *)
(* email.Sender, command by command.  The mail server may refuse a         *)
(* command, break the connection or keep silent; a clock in abstract units *)
(* runs the timeouts.  Scanner and Subscriptions model an attempt to send  *)
(* as one action; this module shows what such an attempt can end in.       *)
(***************************************************************************)
EXTENDS Naturals

CONSTANTS
    Recipients,     \* the subscribers a release mail goes to
    Deadlines,      \* when the context of the call may expire
    Timeout,        \* SMTP_TIMEOUT
    MaxAttempts,    \* RetryConfig: the number of attempts,
    InitialWait,    \* the first wait,
    Growth,         \* Multiplier ^ attempt, by which the waits grow,
    MaxWait,        \* and the longest
    Credentials,    \* SMTP_USER and SMTP_PASSWORD are set (and no localhost)
    Horizon         \* bound on the clock, beyond all deadlines

ASSUME CredentialsAssumption == Credentials \in BOOLEAN
\* Without recipients NotifySubscribers returns at once.
ASSUME RecipientsAssumption == Recipients # {}
ASSUME NumbersAssumption ==
    /\ Deadlines \subseteq Nat \ {0}
    /\ Timeout \in Nat \ {0} /\ MaxAttempts \in Nat \ {0}
    /\ InitialWait \in Nat \ {0} /\ MaxWait \in Nat \ {0}
    /\ Growth \in [0..(MaxAttempts - 1) -> Nat \ {0}]
    /\ Horizon \in Nat

VARIABLES
    job,        \* which call this is, and when its context expires
    todo,       \* recipients that are still to be mailed
    send,       \* the attempt under way
    now,
    cancelled,  \* the context was cancelled before it expired
    result,     \* what the call for each recipient returned
    accepted,   \* copies the mail server took over
    lost,       \* history: acceptances whose reply never came
    tries,      \* history: attempts per recipient
    refused     \* history: recipients with an error that is not retried

vars == <<job, todo, send, now, cancelled, result, accepted, lost, tries, refused>>
history == <<accepted, lost, tries, refused>>

Never == 0      \* a context without a deadline

\* The points at which a call blocks; "ready" is between two recipients, and at
\* "taken" the server has the mail while its reply is still to come.
Dialogue == {"greet", "starttls", "auth", "mail", "rcpt", "data", "close", "taken", "quit"}
Points == {"ready", "dial", "wait", "returned"} \cup Dialogue

\* since: when sendEmail, or the wait, began; wake: when the wait is over.
Ready == [at |-> "ready", to |-> CHOOSE i \in Recipients : TRUE,
          attempt |-> 0, since |-> 0, wake |-> 0, conn |-> "plain"]

TypeOK ==
    /\ job \in [kind : {"confirmation", "notification"}, deadline : Deadlines \cup {Never}]
    /\ todo \subseteq Recipients
    /\ send \in [at : Points, to : Recipients, attempt : 0..(MaxAttempts - 1),
                 since : Nat, wake : Nat, conn : {"plain", "tls", "broken"}]
    /\ now \in Nat
    /\ cancelled \in BOOLEAN
    /\ result \in [Recipients -> {"none", "nil", "error"}]
    /\ accepted \in [Recipients -> Nat]
    /\ lost \in [Recipients -> Nat]
    /\ tries \in [Recipients -> 0..MaxAttempts]
    /\ refused \subseteq Recipients

\* The scanner's context has a deadline, a request's only if a client set one.
Init ==
    /\ \/ /\ job \in [kind : {"notification"}, deadline : Deadlines]
          /\ todo = Recipients
       \/ /\ job \in [kind : {"confirmation"}, deadline : Deadlines \cup {Never}]
          /\ \E i \in Recipients : todo = {i}
    /\ send = Ready
    /\ now = 0
    /\ cancelled = FALSE
    /\ result = [i \in Recipients |-> "none"]
    /\ accepted = [i \in Recipients |-> 0]
    /\ lost = [i \in Recipients |-> 0]
    /\ tries = [i \in Recipients |-> 0]
    /\ refused = {}

-----------------------------------------------------------------------------
(* Contexts, deadlines and waits. *)

ContextDone == cancelled \/ (job.deadline # Never /\ now >= job.deadline)

\* Faulty variant: the dialogue always gets the whole SMTP timeout.
FreshDeadline == send.since + Timeout

\* Faulty variant: the connection has a deadline only if the context has one.
ContextDeadline == IF job.deadline = Never THEN Horizon + 1 ELSE job.deadline

\* The connection's deadline: the context's, else the SMTP timeout from the start.
ConnDeadline == IF job.deadline = Never THEN send.since + Timeout ELSE job.deadline

\* The dialer stops at the earlier of its Timeout and its Deadline.
DialExpired == now >= ConnDeadline \/ now >= send.since + Timeout

\* calcBackoff, with its jitter of a quarter to either side.
CalcBackoff(attempt) ==
    LET grown == InitialWait * Growth[attempt]
        wait  == IF grown > MaxWait THEN MaxWait ELSE grown
    IN  (3 * wait) \div 4 .. (5 * wait) \div 4

\* A confirmation is sent without platform.Do.
Attempts == IF job.kind = "confirmation" THEN 1 ELSE MaxAttempts

-----------------------------------------------------------------------------
(* How an attempt ends. *)

Try(i, attempt) ==
    /\ send' = [Ready EXCEPT !.at = "dial", !.to = i, !.attempt = attempt, !.since = now]
    /\ tries' = [tries EXCEPT ![i] = @ + 1]

Finish(answer) ==
    /\ result' = [result EXCEPT ![send.to] = answer]
    /\ send' = Ready

Backoff ==
    /\ \E w \in CalcBackoff(send.attempt) :
          send' = [send EXCEPT !.at = "wait", !.since = now, !.wake = now + w]
    /\ UNCHANGED result

\* Faulty variants: the last attempt is the last but one, or is followed by one.
LastButOne == send.attempt + 2 >= Attempts
OneMore == send.attempt = Attempts

LastAttempt == send.attempt + 1 = Attempts

\* isTransientMailError holds of the error: wait, unless it was the last attempt.
Transient ==
    \/ LastAttempt /\ Finish("error")
    \/ ~LastAttempt /\ Backoff

Fail(class) ==
    \/ class = "transient" /\ Transient /\ UNCHANGED refused
    \/ /\ class = "permanent"
       /\ Finish("error")
       /\ refused' = refused \cup {send.to}

-----------------------------------------------------------------------------
(* NotifySubscribers and Do. *)

Begin ==
    /\ send.at = "ready"
    /\ \/ \E i \in todo : todo' = todo \ {i} /\ Try(i, 0)
       \/ todo = {} /\ send' = [Ready EXCEPT !.at = "returned"] /\ UNCHANGED <<todo, tries>>
    /\ UNCHANGED <<job, now, cancelled, result, accepted, lost, refused>>

\* The select of Do; when both are ready, either may win.
WaitEnds ==
    /\ send.at = "wait"
    /\ \/ ContextDone /\ Finish("error") /\ UNCHANGED tries
       \/ now >= send.wake /\ Try(send.to, send.attempt + 1) /\ UNCHANGED result
    /\ UNCHANGED <<job, todo, now, cancelled, accepted, lost, refused>>

-----------------------------------------------------------------------------
(* sendEmail, each step with the frame of SendEmail below. *)

At(p) == send.at = p
Secured(c, p) ==
    send' = [send EXCEPT !.at = p, !.conn = c] /\ UNCHANGED <<result, refused>>
Proceed(p) == Secured(send.conn, p)

Dial ==
    /\ At("dial")
    /\ ~ContextDone /\ ~DialExpired
    /\ Proceed("greet")
    /\ UNCHANGED <<accepted, lost>>

\* Every error of the dial has the word "dial" in it, and is retried.
DialFails ==
    /\ At("dial")
    /\ Fail("transient")
    /\ UNCHANGED <<accepted, lost>>

\* From here on the context is not looked at, only the connection's deadline.
Answered == now < ConnDeadline /\ send.conn # "broken"

\* The error of StartTLS is only logged: a refusal leaves the connection plain,
\* a failed handshake leaves one on which every later command fails.
StartTLS ==
    /\ At("starttls")
    /\ \E c \in {"plain", "tls", "broken"} :
          /\ c = "broken" \/ Answered
          /\ Secured(c, IF Credentials THEN "auth" ELSE "mail")
    /\ UNCHANGED <<accepted, lost>>

Following == [greet |-> "starttls", auth |-> "mail", mail |-> "rcpt",
              rcpt |-> "data", data |-> "close"]

\* PlainAuth sends no password over a plain connection.
Command ==
    /\ send.at \in DOMAIN Following
    /\ Answered
    /\ At("auth") => send.conn = "tls"
    /\ Proceed(Following[send.at])
    /\ UNCHANGED <<accepted, lost>>

\* The dialogue breaks, or the server refuses: the words of the error decide
\* whether it is retried, so a refusal may count as transient; the error of
\* PlainAuth always does ("unencrypted connection").
CommandFails ==
    /\ send.at \in DOMAIN Following \cup {"close"}
    /\ \/ Fail("transient")
       \/ Fail("permanent") /\ ~(At("auth") /\ send.conn = "plain")
    /\ UNCHANGED <<accepted, lost>>

Took == accepted' = [accepted EXCEPT ![send.to] = @ + 1]

\* Faulty variant: the error of closing the data is dropped.
CloseUnchecked ==
    /\ At("close")
    /\ Took \/ UNCHANGED accepted
    /\ Proceed("quit")
    /\ UNCHANGED lost

\* The server takes over the mail; w.Close waits for its "250".
Accept ==
    /\ At("close")
    /\ Answered
    /\ Took
    /\ Proceed("taken")
    /\ UNCHANGED lost

ReplyArrives ==
    /\ At("taken")
    /\ Answered
    /\ Proceed("quit")
    /\ UNCHANGED <<accepted, lost>>

\* The connection breaks ("EOF", "reset") or reaches its deadline ("timeout").
ReplyLost ==
    /\ At("taken")
    /\ lost' = [lost EXCEPT ![send.to] = @ + 1]
    /\ Fail("transient")
    /\ UNCHANGED accepted

\* Faulty variant: a failed QUIT fails the mail.
QuitChecked ==
    /\ At("quit")
    /\ \/ Finish("nil") /\ UNCHANGED refused
       \/ Fail("transient")
    /\ UNCHANGED <<accepted, lost>>

\* The error of QUIT is only logged.
Quit ==
    /\ At("quit")
    /\ Finish("nil")
    /\ UNCHANGED <<accepted, lost, refused>>

SendEmail ==
    /\ \/ Dial \/ DialFails \/ StartTLS \/ Command \/ CommandFails
       \/ Accept \/ ReplyArrives \/ ReplyLost \/ Quit
    /\ UNCHANGED <<job, todo, now, cancelled, tries>>

-----------------------------------------------------------------------------
(* Time, and the caller. *)

\* Shutdown cancels the scanner's context, a client that goes away a request's.
Cancel ==
    /\ ~cancelled
    /\ send.at # "returned"
    /\ cancelled' = TRUE
    /\ UNCHANGED <<job, todo, send, now, result, history>>

\* A timer that has run out, or code that does not block.
Due ==
    \/ At("ready")
    \/ At("dial") /\ (ContextDone \/ DialExpired)
    \/ At("wait") /\ (ContextDone \/ now >= send.wake)
    \/ send.at \in Dialogue /\ now >= ConnDeadline

Tick ==
    /\ send.at # "returned" /\ ~Due
    /\ now < Horizon
    /\ now' = now + 1
    /\ UNCHANGED <<job, todo, send, cancelled, result, history>>

CallStep == Begin \/ WaitEnds \/ SendEmail

Next == CallStep \/ Cancel \/ Tick

Spec == Init /\ [][Next]_vars

\* Time passes and timers fire; the mail server need never answer.
FairSpec == Spec /\ WF_vars(Tick) /\ WF_vars(Due /\ CallStep)

-----------------------------------------------------------------------------
(* Properties. *)

\* The callers take nil for "the mail is on its way": no broken dialogue, no
\* lost reply and no retry ends in nil without the server's acceptance.
NilMeansAccepted ==
    \A i \in Recipients : result[i] = "nil" => accepted[i] > 0

\* The attempt under way has handed its mail over and does not end in an error yet.
Handed == At("taken") \/ At("quit")

\* A recipient gets a second copy only when the reply to the first was lost.
CopiesAreLostAnswers ==
    \A i \in Recipients : accepted[i] <= lost[i] + (IF result[i] = "nil" THEN 1 ELSE 0)
                                        + (IF Handed /\ send.to = i THEN 1 ELSE 0)

\* However many recipients, attempts, waits and silent servers there are, the
\* call is over when its context expires, or the SMTP timeout without one.
EndsInTime ==
    send.at # "returned" => now <= (IF job.deadline = Never THEN Timeout ELSE job.deadline)

\* A recipient is given up only after all attempts, on an error that is not
\* retried, or because the time of the whole call is over.
GivesUpForCause ==
    \A i \in Recipients : result[i] = "error" =>
        tries[i] = Attempts \/ i \in refused \/ ContextDone

\* The call returns, with an answer for everybody it was to mail.
CallReturns ==
    <>(/\ send.at = "returned"
       /\ \A i \in Recipients :
              job.kind = "notification" \/ tries[i] > 0 => result[i] # "none")

-----------------------------------------------------------------------------
(* The inductive invariant behind the safety properties (see MailerProofs). *)

Sending == send.at \notin {"ready", "returned"}

\* Nothing has happened to those whose turn has not come.
NotBegun ==
    \A i \in todo : result[i] = "none" /\ tries[i] = 0 /\ accepted[i] = 0 /\ lost[i] = 0

\* The attempt under way is counted, and its recipient has no answer yet.
UnderWay ==
    Sending => /\ send.to \notin todo
               /\ result[send.to] = "none"
               /\ tries[send.to] = send.attempt + 1
               /\ send.attempt < Attempts
               /\ At("wait") => send.attempt + 1 < Attempts

HandedWasTaken == Handed => accepted[send.to] > 0

\* With its jitter a wait may exceed MaxWait, by a quarter at most.
WaitsAreCapped == At("wait") => send.wake <= send.since + (5 * MaxWait) \div 4

\* Only a confirmation lacks a deadline, and it is one attempt, begun at once.
OneConfirmation ==
    job.kind = "confirmation" =>
        /\ \A i, j \in todo : i = j
        /\ todo # {} => At("ready") /\ now = 0
        /\ ~At("wait")
        /\ Sending => send.since = 0
OnlyConfirmationsUnlimited == job.deadline = Never => job.kind = "confirmation"

IInv ==
    /\ TypeOK /\ NotBegun /\ UnderWay /\ HandedWasTaken /\ WaitsAreCapped
    /\ OneConfirmation /\ OnlyConfirmationsUnlimited
    /\ NilMeansAccepted /\ CopiesAreLostAnswers /\ EndsInTime /\ GivesUpForCause
=============================================================================
