---------------------------- MODULE MailerProofs ----------------------------
(* Theorems about Mailer for every value of its constants. *)
EXTENDS Mailer, TLAPS

Sends == [at : Points, to : Recipients, attempt : 0..(MaxAttempts - 1),
          since : Nat, wake : Nat, conn : {"plain", "tls", "broken"}]

LEMMA ReadyTyped == Ready \in Sends /\ Ready.at = "ready"
<1>1. (CHOOSE i \in Recipients : TRUE) \in Recipients
  BY RecipientsAssumption
<1> QED BY <1>1, NumbersAssumption DEF Ready, Sends, Points

\* The attempts of the call are as many as the configuration allows, or one.
LEMMA AttemptsTyped ==
    ASSUME TypeOK
    PROVE  Attempts \in Nat \ {0} /\ Attempts <= MaxAttempts
           /\ (job.kind = "confirmation" => Attempts = 1)
BY NumbersAssumption DEF TypeOK, Attempts

LEMMA DeadlineTyped == ASSUME TypeOK PROVE job.deadline \in Nat
<1>1. job.deadline \in Deadlines \/ job.deadline = 0
  BY DEF TypeOK, Never
<1>2. Deadlines \subseteq Nat /\ 0 \in Nat
  BY NumbersAssumption
<1> QED BY <1>1, <1>2, Zenon

\* A wait is a number, at most a quarter above the longest wait.
LEMMA WaitsTyped ==
    ASSUME NEW a \in 0..(MaxAttempts - 1), NEW w \in CalcBackoff(a)
    PROVE  w \in Nat /\ w <= (5 * MaxWait) \div 4
<1> DEFINE wait == IF InitialWait * Growth[a] > MaxWait THEN MaxWait ELSE InitialWait * Growth[a]
<1>1. InitialWait \in Nat /\ Growth[a] \in Nat /\ MaxWait \in Nat
  BY NumbersAssumption
<1>2. InitialWait * Growth[a] \in Nat
  BY <1>1
<1>3. wait \in Nat /\ wait <= MaxWait
  BY <1>1, <1>2
<1>4. w \in (3 * wait) \div 4 .. (5 * wait) \div 4
  BY DEF CalcBackoff
<1> HIDE DEF wait
<1>5. (3 * wait) \div 4 \in Nat /\ (5 * wait) \div 4 \in Nat
  BY <1>3
<1>6. (5 * wait) \div 4 <= (5 * MaxWait) \div 4 /\ (5 * MaxWait) \div 4 \in Nat
  BY <1>1, <1>3
<1> QED BY <1>4, <1>5, <1>6

-----------------------------------------------------------------------------
(* What the steps of an attempt have in common. *)

\* The clock, the context and what is left of the loop stay as they are.
Inside == UNCHANGED <<job, todo, now, cancelled, tries>>

\* An attempt that ends leaves no mail taken whose answer is neither here nor lost.
Counted ==
    /\ UNCHANGED accepted
    /\ \/ ~At("taken") /\ UNCHANGED lost
       \/ At("taken") /\ lost' = [lost EXCEPT ![send.to] = @ + 1]

LEMMA CountedTyped ==
    ASSUME IInv, Counted
    PROVE  /\ accepted' = accepted /\ lost' \in [Recipients -> Nat]
           /\ accepted \in [Recipients -> Nat] /\ lost \in [Recipients -> Nat]
           /\ \A i \in Recipients :
                 lost'[i] = IF At("taken") /\ i = send.to THEN lost[i] + 1 ELSE lost[i]
<1>1. accepted \in [Recipients -> Nat] /\ lost \in [Recipients -> Nat] /\ send.to \in Recipients
  BY DEF IInv, TypeOK
<1>2. CASE ~At("taken") /\ UNCHANGED lost
  BY <1>1, <1>2 DEF Counted
<1>3. CASE At("taken") /\ lost' = [lost EXCEPT ![send.to] = @ + 1]
  BY <1>1, <1>3 DEF Counted
<1> QED BY <1>2, <1>3 DEF Counted

\* The answers still bear out the properties after a step that gives none.
LEMMA NoAnswerKeeps ==
    ASSUME IInv, UNCHANGED <<job, now, cancelled, result>>, refused \subseteq refused',
           UNCHANGED tries
    PROVE  GivesUpForCause' /\ OnlyConfirmationsUnlimited'
BY DEF IInv, GivesUpForCause, OnlyConfirmationsUnlimited, Attempts, ContextDone

LEMMA FinishKeeps ==
    ASSUME IInv, Sending, Inside, NEW answer \in {"nil", "error"}, Finish(answer),
           refused' \in SUBSET Recipients, refused \subseteq refused',
           answer = "nil" => At("quit") /\ UNCHANGED <<accepted, lost>>,
           answer = "error" => /\ ~At("quit") /\ Counted
                               /\ LastAttempt \/ send.to \in refused' \/ ContextDone
    PROVE  IInv'
<1>1. /\ send.to \in Recipients /\ send.to \notin todo /\ result[send.to] = "none"
      /\ tries[send.to] = send.attempt + 1 /\ send.at # "returned" /\ send.at # "ready"
      /\ result \in [Recipients -> {"none", "nil", "error"}]
  BY DEF IInv, TypeOK, UnderWay, Sending
<1>2. /\ send' = Ready /\ send' \in Sends /\ send'.at = "ready"
      /\ result' = [result EXCEPT ![send.to] = answer]
  BY ReadyTyped DEF Finish
<1>3. Counted
  BY DEF Counted, At
<1>4. TypeOK'
  BY <1>1, <1>2, <1>3, CountedTyped DEF IInv, TypeOK, Inside, Sends
<1>5. NotBegun'
  BY <1>1, <1>2, <1>3, CountedTyped DEF IInv, TypeOK, NotBegun, Inside
<1>6. UnderWay' /\ HandedWasTaken' /\ WaitsAreCapped'
  BY <1>2 DEF UnderWay, HandedWasTaken, WaitsAreCapped, Handed, Sending, At
<1>7. OneConfirmation' /\ OnlyConfirmationsUnlimited' /\ EndsInTime'
  BY <1>1, <1>2 DEF IInv, OneConfirmation, OnlyConfirmationsUnlimited, EndsInTime, Inside,
                    Sending, At
<1>8. NilMeansAccepted'
  <2> SUFFICES ASSUME NEW i \in Recipients, result'[i] = "nil" PROVE accepted'[i] > 0
    BY DEF NilMeansAccepted
  <2>1. CASE i = send.to
    BY <1>1, <1>2, <1>3, <2>1, CountedTyped DEF IInv, HandedWasTaken, Handed
  <2>2. CASE i # send.to
    BY <1>1, <1>2, <1>3, <2>2, CountedTyped DEF IInv, NilMeansAccepted
  <2> QED BY <2>1, <2>2
<1>9. CopiesAreLostAnswers'
  <2> SUFFICES ASSUME NEW i \in Recipients
               PROVE  accepted'[i] <= lost'[i] + (IF result'[i] = "nil" THEN 1 ELSE 0)
    BY <1>2, <1>3, CountedTyped DEF CopiesAreLostAnswers, Handed, At
  <2>1. accepted[i] <= lost[i] + (IF result[i] = "nil" THEN 1 ELSE 0)
                               + (IF Handed /\ send.to = i THEN 1 ELSE 0)
    BY DEF IInv, CopiesAreLostAnswers
  <2>2. /\ accepted[i] \in Nat /\ lost[i] \in Nat /\ accepted'[i] = accepted[i]
        /\ lost'[i] = IF At("taken") /\ i = send.to THEN lost[i] + 1 ELSE lost[i]
    BY <1>3, CountedTyped
  <2>3. CASE i = send.to
    <3>1. Handed => answer = "nil" \/ At("taken")
      BY DEF Handed
    <3> QED BY <1>1, <1>2, <2>1, <2>2, <2>3, <3>1
  <2>4. CASE i # send.to
    BY <1>1, <1>2, <2>1, <2>2, <2>4
  <2> QED BY <2>3, <2>4
<1>10. GivesUpForCause'
  <2> SUFFICES ASSUME NEW i \in Recipients, result'[i] = "error"
               PROVE  tries[i] = Attempts \/ i \in refused' \/ ContextDone
    BY DEF GivesUpForCause, Attempts, ContextDone, Inside
  <2>1. CASE i = send.to
    BY <1>1, <1>2, <2>1 DEF LastAttempt
  <2>2. CASE i # send.to
    BY <1>1, <1>2, <2>2 DEF IInv, GivesUpForCause
  <2> QED BY <2>1, <2>2
<1> QED BY <1>4, <1>5, <1>6, <1>7, <1>8, <1>9, <1>10 DEF IInv

LEMMA BackoffKeeps ==
    ASSUME IInv, Sending, ~At("quit"), Inside, ~LastAttempt, Backoff, UNCHANGED refused, Counted
    PROVE  IInv'
<1>1. /\ send.to \in Recipients /\ send.to \notin todo /\ result[send.to] = "none"
      /\ tries[send.to] = send.attempt + 1 /\ send.attempt < Attempts
      /\ send.at # "returned" /\ send.at # "ready" /\ send \in Sends /\ now \in Nat
  BY DEF IInv, TypeOK, UnderWay, Sending, Sends
<1>2. job.kind # "confirmation" /\ send.attempt + 1 < Attempts /\ Attempts' = Attempts
  <2>1. send.attempt \in Nat /\ send.attempt + 1 # Attempts /\ Attempts \in Nat
    BY <1>1, NumbersAssumption, AttemptsTyped DEF LastAttempt, IInv, Sends
  <2> QED BY <1>1, <2>1, AttemptsTyped DEF IInv, Attempts, Inside
<1>3. PICK w \in CalcBackoff(send.attempt) :
         send' = [send EXCEPT !.at = "wait", !.since = now, !.wake = now + w]
  BY DEF Backoff
<1>4. /\ w \in Nat /\ now + w \in Nat /\ UNCHANGED result
      /\ now + w <= now + (5 * MaxWait) \div 4
  <2>1. send.attempt \in 0..(MaxAttempts - 1)
    BY <1>1 DEF Sends
  <2>2. w \in Nat /\ w <= (5 * MaxWait) \div 4
    BY <2>1, WaitsTyped
  <2>3. (5 * MaxWait) \div 4 \in Nat
    BY NumbersAssumption
  <2> QED BY <1>1, <2>2, <2>3 DEF Backoff
<1>5. /\ send' \in Sends /\ send'.at = "wait" /\ send'.to = send.to
      /\ send'.since = now /\ send'.wake = now + w
      /\ send'.attempt = send.attempt /\ UNCHANGED result
  BY <1>1, <1>3, <1>4 DEF Sends, Points
<1>6. TypeOK'
  BY <1>5, CountedTyped DEF IInv, TypeOK, Inside, Sends
<1>7. NotBegun'
  BY <1>1, <1>5, CountedTyped DEF IInv, TypeOK, NotBegun, Inside
<1>8. UnderWay' /\ HandedWasTaken' /\ WaitsAreCapped'
  <2>1. UnderWay'
    BY <1>1, <1>2, <1>5 DEF UnderWay, At, Inside
  <2>2. WaitsAreCapped'
    BY <1>4, <1>5 DEF WaitsAreCapped
  <2> QED BY <1>5, <2>1, <2>2 DEF HandedWasTaken, Handed, At
<1>9. OneConfirmation' /\ EndsInTime'
  BY <1>1, <1>2 DEF IInv, OneConfirmation, EndsInTime, Inside
<1>10. NilMeansAccepted'
  BY <1>5, CountedTyped DEF IInv, NilMeansAccepted
<1>11. CopiesAreLostAnswers'
  <2> SUFFICES ASSUME NEW i \in Recipients
               PROVE  accepted'[i] <= lost'[i] + (IF result[i] = "nil" THEN 1 ELSE 0)
    BY <1>5, CountedTyped DEF CopiesAreLostAnswers, Handed, At
  <2>1. accepted[i] <= lost[i] + (IF result[i] = "nil" THEN 1 ELSE 0)
                               + (IF At("taken") /\ send.to = i THEN 1 ELSE 0)
    BY DEF IInv, CopiesAreLostAnswers, Handed
  <2>2. /\ accepted[i] \in Nat /\ lost[i] \in Nat /\ accepted'[i] = accepted[i]
        /\ lost'[i] = IF At("taken") /\ i = send.to THEN lost[i] + 1 ELSE lost[i]
    BY CountedTyped
  <2> QED BY <2>1, <2>2
<1> QED BY <1>5, <1>6, <1>7, <1>8, <1>9, <1>10, <1>11, NoAnswerKeeps DEF IInv, Inside

\* An attempt fails: it is over, or it is repeated after a wait.
LEMMA TransientKeeps ==
    ASSUME IInv, Sending, ~At("quit"), Inside, Fail("transient"), Counted
    PROVE  IInv'
<1>1. UNCHANGED refused /\ refused \in SUBSET Recipients
  BY DEF Fail, IInv, TypeOK
<1>2. CASE LastAttempt /\ Finish("error")
  BY <1>1, <1>2, FinishKeeps
<1>3. CASE ~LastAttempt /\ Backoff
  BY <1>1, <1>3, BackoffKeeps
<1> QED BY <1>2, <1>3 DEF Fail, Transient

LEMMA PermanentKeeps ==
    ASSUME IInv, Sending, ~Handed, Inside, Fail("permanent"), UNCHANGED <<accepted, lost>>
    PROVE  IInv'
<1>1. Finish("error") /\ refused' = refused \cup {send.to}
  BY DEF Fail
<1>2. refused' \in SUBSET Recipients /\ refused \subseteq refused' /\ send.to \in refused'
  BY <1>1 DEF IInv, TypeOK
<1>3. ~At("quit") /\ Counted
  BY DEF Handed, Counted
<1> QED BY <1>1, <1>2, <1>3, FinishKeeps

\* The dialogue goes on; the server takes the mail in between.
LEMMA ProceedKeeps ==
    ASSUME IInv, Sending, ~At("quit"), Inside,
           NEW p \in Dialogue, NEW c \in {"plain", "tls", "broken"}, Secured(c, p), UNCHANGED lost,
           \/ p \notin {"taken", "quit"} /\ ~Handed /\ UNCHANGED accepted
           \/ p = "taken" /\ ~Handed /\ Took
           \/ p = "quit" /\ At("taken") /\ UNCHANGED accepted
    PROVE  IInv'
<1>1. /\ send.to \in Recipients /\ send.to \notin todo /\ result[send.to] = "none"
      /\ tries[send.to] = send.attempt + 1 /\ send.attempt < Attempts
      /\ send.at # "returned" /\ send.at # "ready" /\ send \in Sends
      /\ accepted \in [Recipients -> Nat] /\ lost \in [Recipients -> Nat]
  BY DEF IInv, TypeOK, UnderWay, Sending, Sends
<1>2. /\ send' = [send EXCEPT !.at = p, !.conn = c] /\ UNCHANGED <<result, refused>>
      /\ p \in Points /\ p # "wait" /\ p # "ready" /\ p # "returned"
  BY DEF Secured, Dialogue, Points
<1>3. /\ send' \in Sends /\ send'.at = p /\ send'.to = send.to
      /\ send'.attempt = send.attempt /\ send'.since = send.since
  BY <1>1, <1>2 DEF Sends
<1>4. /\ accepted' \in [Recipients -> Nat]
      /\ \A i \in Recipients :
            accepted'[i] = IF p = "taken" /\ i = send.to THEN accepted[i] + 1 ELSE accepted[i]
  BY <1>1 DEF Took
<1>5. TypeOK'
  BY <1>2, <1>3, <1>4 DEF IInv, TypeOK, Inside, Sends
<1>6. NotBegun'
  BY <1>1, <1>2, <1>4 DEF IInv, TypeOK, NotBegun, Inside
<1>7. UnderWay'
  <2>1. Attempts' = Attempts /\ result' = result /\ tries' = tries /\ todo' = todo
    BY <1>2 DEF Attempts, Inside
  <2> QED BY <1>1, <1>2, <1>3, <2>1 DEF UnderWay, At
<1>8. HandedWasTaken' /\ WaitsAreCapped'
  <2>1. p = "quit" => accepted[send.to] > 0
    BY DEF IInv, HandedWasTaken, Handed
  <2> QED BY <1>1, <1>2, <1>3, <1>4, <2>1 DEF HandedWasTaken, WaitsAreCapped, Handed, At
<1>9. OneConfirmation' /\ EndsInTime'
  BY <1>1, <1>2, <1>3 DEF IInv, OneConfirmation, EndsInTime, Inside, Sending, At
<1>10. NilMeansAccepted'
  BY <1>1, <1>2, <1>4 DEF IInv, NilMeansAccepted
<1>11. CopiesAreLostAnswers'
  <2> SUFFICES ASSUME NEW i \in Recipients
               PROVE  accepted'[i] <= lost[i] + (IF result[i] = "nil" THEN 1 ELSE 0)
                                 + (IF p \in {"taken", "quit"} /\ send.to = i THEN 1 ELSE 0)
    BY <1>1, <1>2, <1>3, <1>4 DEF CopiesAreLostAnswers, Handed, At
  <2>1. accepted[i] <= lost[i] + (IF result[i] = "nil" THEN 1 ELSE 0)
                               + (IF Handed /\ send.to = i THEN 1 ELSE 0)
    BY DEF IInv, CopiesAreLostAnswers
  <2>2. CASE Handed
    <3>1. p = "quit" /\ accepted'[i] = accepted[i]
      BY <1>4, <2>2 DEF Handed
    <3> QED BY <1>1, <2>1, <3>1
  <2>3. CASE ~Handed
    BY <1>1, <1>4, <2>1, <2>3
  <2> QED BY <2>2, <2>3
<1> QED BY <1>2, <1>5, <1>6, <1>7, <1>8, <1>9, <1>10, <1>11, NoAnswerKeeps DEF IInv, Inside

-----------------------------------------------------------------------------
(* The steps. *)

LEMMA SendEmailKeeps == ASSUME IInv, SendEmail PROVE IInv'
<1>1. Inside /\ send.conn \in {"plain", "tls", "broken"}
  BY DEF SendEmail, Inside, IInv, TypeOK
<1>2. CASE Dial
  <2>1. Sending /\ ~Handed /\ ~At("quit")
    BY <1>2 DEF Dial, At, Sending, Handed
  <2> QED BY <1>1, <1>2, <2>1, ProceedKeeps DEF Dial, Proceed, Dialogue
<1>3. CASE DialFails
  <2>1. Sending /\ ~At("quit") /\ Counted
    BY <1>3 DEF DialFails, At, Sending, Counted
  <2> QED BY <1>1, <1>3, <2>1, TransientKeeps DEF DialFails
<1>4. CASE StartTLS
  <2>1. Sending /\ ~Handed /\ ~At("quit")
    BY <1>4 DEF StartTLS, At, Sending, Handed
  <2>2. PICK c \in {"plain", "tls", "broken"} : Secured(c, IF Credentials THEN "auth" ELSE "mail")
    BY <1>4 DEF StartTLS
  <2> QED BY <1>1, <1>4, <2>1, <2>2, ProceedKeeps DEF StartTLS, Dialogue
<1>5. CASE Command
  <2>1. send.at \in {"greet", "auth", "mail", "rcpt", "data"}
    BY <1>5 DEF Command, Following
  <2>2. Following[send.at] \in Dialogue /\ Following[send.at] \notin {"taken", "quit"}
    BY <2>1 DEF Following, Dialogue
  <2>3. Sending /\ ~Handed /\ ~At("quit")
    BY <2>1 DEF At, Sending, Handed
  <2> QED BY <1>1, <1>5, <2>2, <2>3, ProceedKeeps DEF Command, Proceed
<1>6. CASE CommandFails
  <2>1. send.at \in {"greet", "auth", "mail", "rcpt", "data", "close"}
    BY <1>6 DEF CommandFails, Following
  <2>2. Sending /\ ~Handed /\ ~At("quit") /\ Counted
    BY <1>6, <2>1 DEF CommandFails, At, Sending, Counted, Handed
  <2> QED BY <1>1, <1>6, <2>2, TransientKeeps, PermanentKeeps DEF CommandFails
<1>7. CASE Accept
  <2>1. Sending /\ ~Handed /\ ~At("quit")
    BY <1>7 DEF Accept, At, Sending, Handed
  <2> QED BY <1>1, <1>7, <2>1, ProceedKeeps DEF Accept, Proceed, Dialogue
<1>8. CASE ReplyArrives
  <2>1. Sending /\ At("taken") /\ ~At("quit")
    BY <1>8 DEF ReplyArrives, At, Sending
  <2> QED BY <1>1, <1>8, <2>1, ProceedKeeps DEF ReplyArrives, Proceed, Dialogue
<1>9. CASE ReplyLost
  <2>1. Sending /\ ~At("quit") /\ Counted
    BY <1>9 DEF ReplyLost, At, Sending, Counted
  <2> QED BY <1>1, <1>9, <2>1, TransientKeeps DEF ReplyLost
<1>10. CASE Quit
  <2>1. Sending /\ refused' \in SUBSET Recipients /\ refused \subseteq refused'
    BY <1>10 DEF Quit, At, Sending, IInv, TypeOK
  <2> QED BY <1>1, <1>10, <2>1, FinishKeeps DEF Quit
<1> QED BY <1>2, <1>3, <1>4, <1>5, <1>6, <1>7, <1>8, <1>9, <1>10 DEF SendEmail

\* A new attempt for i, who is on no list any more and has no answer.
LEMMA TryKeeps ==
    ASSUME IInv, NEW i \in Recipients, NEW attempt \in 0..(MaxAttempts - 1), Try(i, attempt),
           attempt < Attempts, tries[i] = attempt, result[i] = "none", i \notin todo',
           todo' \subseteq todo, send.at \in {"ready", "wait"},
           job.kind = "confirmation" => now = 0 /\ todo' = {},
           UNCHANGED <<job, now, cancelled, result, accepted, lost, refused>>
    PROVE  IInv'
<1>1. /\ send' \in Sends /\ send'.at = "dial" /\ send'.to = i /\ send'.attempt = attempt
      /\ send'.since = now
  BY ReadyTyped DEF Try, Ready, Sends, Points, IInv, TypeOK
<1>2. tries \in [Recipients -> 0..MaxAttempts] /\ tries' = [tries EXCEPT ![i] = attempt + 1]
  BY DEF Try, IInv, TypeOK
<1>3. attempt + 1 \in 0..MaxAttempts
  BY NumbersAssumption
<1>4. /\ tries' \in [Recipients -> 0..MaxAttempts] /\ tries'[i] = attempt + 1
      /\ \A j \in Recipients \ {i} : tries'[j] = tries[j]
  BY <1>2, <1>3
<1>5. TypeOK'
  BY <1>1, <1>4 DEF IInv, TypeOK, Sends
<1>6. NotBegun'
  BY <1>4 DEF IInv, TypeOK, NotBegun
<1>7. UnderWay' /\ HandedWasTaken' /\ WaitsAreCapped'
  BY <1>1, <1>4 DEF UnderWay, HandedWasTaken, WaitsAreCapped, Handed, Sending, At, Attempts
<1>8. OneConfirmation' /\ OnlyConfirmationsUnlimited' /\ EndsInTime' /\ NilMeansAccepted'
  BY <1>1 DEF IInv, OneConfirmation, OnlyConfirmationsUnlimited, EndsInTime, NilMeansAccepted, At
<1>9. CopiesAreLostAnswers'
  BY <1>1 DEF IInv, CopiesAreLostAnswers, Handed, At
<1>10. GivesUpForCause'
  BY <1>4 DEF IInv, GivesUpForCause, Attempts, ContextDone
<1> QED BY <1>5, <1>6, <1>7, <1>8, <1>9, <1>10 DEF IInv

LEMMA BeginKeeps == ASSUME IInv, Begin PROVE IInv'
<1>1. CASE \E i \in todo : todo' = todo \ {i} /\ Try(i, 0)
  <2>1. PICK i \in todo : todo' = todo \ {i} /\ Try(i, 0)
    BY <1>1
  <2>2. i \in Recipients /\ tries[i] = 0 /\ result[i] = "none" /\ i \notin todo'
    BY <2>1 DEF IInv, TypeOK, NotBegun
  <2>3. 0 \in 0..(MaxAttempts - 1) /\ 0 < Attempts
    BY NumbersAssumption, AttemptsTyped DEF IInv
  <2>4. job.kind = "confirmation" => now = 0 /\ todo' = {}
    BY <2>1 DEF IInv, OneConfirmation
  <2> QED BY <2>1, <2>2, <2>3, <2>4, TryKeeps DEF Begin
<1>2. CASE todo = {} /\ send' = [Ready EXCEPT !.at = "returned"] /\ UNCHANGED <<todo, tries>>
  <2>1. send' \in Sends /\ send'.at = "returned"
    BY <1>2, ReadyTyped DEF Sends, Points
  <2>2. TypeOK'
    BY <1>2, <2>1 DEF Begin, IInv, TypeOK, Sends
  <2>3. /\ NotBegun' /\ UnderWay' /\ HandedWasTaken' /\ WaitsAreCapped' /\ OneConfirmation'
        /\ EndsInTime'
    BY <1>2, <2>1 DEF NotBegun, UnderWay, HandedWasTaken, WaitsAreCapped, OneConfirmation,
                      EndsInTime, Sending, Handed, At
  <2>4. NilMeansAccepted' /\ CopiesAreLostAnswers'
    BY <1>2, <2>1 DEF IInv, NilMeansAccepted, CopiesAreLostAnswers, Handed, At, Begin
  <2> QED BY <1>2, <2>2, <2>3, <2>4, NoAnswerKeeps DEF IInv, Begin
<1> QED BY <1>1, <1>2 DEF Begin

LEMMA WaitEndsKeeps == ASSUME IInv, WaitEnds PROVE IInv'
<1>1. Sending /\ ~At("quit") /\ At("wait") /\ UNCHANGED <<job, todo, now, cancelled>>
  BY DEF WaitEnds, Sending, At
<1>2. CASE ContextDone /\ Finish("error") /\ UNCHANGED tries
  <2>1. Inside /\ Counted /\ refused' \in SUBSET Recipients /\ refused \subseteq refused'
    BY <1>2 DEF WaitEnds, Inside, Counted, At, IInv, TypeOK
  <2> QED BY <1>1, <1>2, <2>1, FinishKeeps
<1>3. CASE now >= send.wake /\ Try(send.to, send.attempt + 1) /\ UNCHANGED result
  <2>1. /\ send.to \in Recipients /\ send.to \notin todo /\ result[send.to] = "none"
        /\ tries[send.to] = send.attempt + 1 /\ send.attempt + 1 < Attempts
        /\ send.attempt \in 0..(MaxAttempts - 1)
    BY <1>1 DEF IInv, TypeOK, UnderWay
  <2>2. send.attempt + 1 \in 0..(MaxAttempts - 1)
    BY <2>1, AttemptsTyped, NumbersAssumption DEF IInv
  <2>3. job.kind # "confirmation"
    BY <1>1 DEF IInv, OneConfirmation
  <2> QED BY <1>1, <1>3, <2>1, <2>2, <2>3, TryKeeps DEF WaitEnds, At
<1> QED BY <1>2, <1>3 DEF WaitEnds

LEMMA CancelKeeps == ASSUME IInv, Cancel PROVE IInv'
<1> USE DEF Cancel, history
<1>1. TypeOK' /\ NotBegun' /\ UnderWay' /\ HandedWasTaken' /\ WaitsAreCapped'
  BY DEF IInv, TypeOK, NotBegun, UnderWay, HandedWasTaken, WaitsAreCapped, Sending, Handed,
         At, Attempts
<1>2. OneConfirmation' /\ OnlyConfirmationsUnlimited' /\ EndsInTime'
  BY DEF IInv, OneConfirmation, OnlyConfirmationsUnlimited, EndsInTime, Sending, At
<1>3. NilMeansAccepted' /\ CopiesAreLostAnswers' /\ GivesUpForCause'
  BY DEF IInv, NilMeansAccepted, CopiesAreLostAnswers, GivesUpForCause, Attempts, ContextDone,
              Handed, At
<1> QED BY <1>1, <1>2, <1>3 DEF IInv

\* The clock stops at whatever the code waits for, so it never passes the end
\* of the call.
LEMMA TickKeeps == ASSUME IInv, Tick PROVE IInv'
<1> USE DEF history
<1>1. /\ now' = now + 1 /\ now \in Nat /\ ~Due /\ send.at # "returned"
      /\ UNCHANGED <<job, todo, send, cancelled, result, history>>
  BY DEF Tick, IInv, TypeOK
<1>2. send.at \in {"dial", "wait"} \cup Dialogue /\ Sending
  BY <1>1 DEF IInv, TypeOK, Points, Due, At, Sending
<1>3. TypeOK' /\ NotBegun' /\ UnderWay' /\ HandedWasTaken' /\ WaitsAreCapped'
  BY <1>1 DEF IInv, TypeOK, NotBegun, UnderWay, HandedWasTaken, WaitsAreCapped, Sending,
              Handed, At, Attempts
<1>4. OneConfirmation' /\ OnlyConfirmationsUnlimited'
  BY <1>1, <1>2 DEF IInv, OneConfirmation, OnlyConfirmationsUnlimited, Sending, At
<1>5. EndsInTime'
  <2>1. CASE job.deadline = Never
    <3>1. send.since = 0 /\ ~At("wait")
      BY <1>2, <2>1 DEF IInv, OneConfirmation, OnlyConfirmationsUnlimited
    <3>2. now < Timeout
      BY <1>1, <1>2, <2>1, <3>1, NumbersAssumption DEF Due, At, DialExpired, ConnDeadline
    <3> QED BY <1>1, <2>1, <3>2, NumbersAssumption DEF EndsInTime
  <2>2. CASE job.deadline # Never
    <3>1. job.deadline \in Nat
      BY DeadlineTyped DEF IInv
    <3>2. now < job.deadline
      BY <1>1, <1>2, <2>2, <3>1 DEF Due, At, ContextDone, ConnDeadline
    <3> QED BY <1>1, <2>2, <3>1, <3>2 DEF EndsInTime
  <2> QED BY <2>1, <2>2
<1>6. NilMeansAccepted' /\ CopiesAreLostAnswers'
  BY <1>1 DEF IInv, NilMeansAccepted, CopiesAreLostAnswers, Handed, At
<1>7. GivesUpForCause'
  <2>1. ContextDone => ContextDone'
    <3>1. job.deadline \in Nat
      BY DeadlineTyped DEF IInv
    <3> QED BY <1>1, <3>1 DEF ContextDone
  <2> QED BY <1>1, <2>1 DEF IInv, GivesUpForCause, Attempts
<1> QED BY <1>3, <1>4, <1>5, <1>6, <1>7 DEF IInv

LEMMA StutterKeeps == ASSUME IInv, UNCHANGED vars PROVE IInv'
<1> USE DEF vars
<1>1. TypeOK' /\ NotBegun' /\ UnderWay' /\ HandedWasTaken' /\ WaitsAreCapped'
  BY DEF IInv, TypeOK, NotBegun, UnderWay, HandedWasTaken, WaitsAreCapped, Sending, Handed,
         At, Attempts
<1>2. OneConfirmation' /\ OnlyConfirmationsUnlimited' /\ EndsInTime'
  BY DEF IInv, OneConfirmation, OnlyConfirmationsUnlimited, EndsInTime, Sending, At
<1>3. NilMeansAccepted' /\ CopiesAreLostAnswers' /\ GivesUpForCause'
  BY DEF IInv, NilMeansAccepted, CopiesAreLostAnswers, GivesUpForCause, Attempts, ContextDone,
              Handed, At
<1> QED BY <1>1, <1>2, <1>3 DEF IInv

LEMMA InitInvariant == ASSUME Init PROVE IInv
<1> USE DEF Init
<1>1. todo \subseteq Recipients /\ job.kind \in {"confirmation", "notification"}
      /\ (job.kind = "confirmation" => \A i, j \in todo : i = j)
  OBVIOUS
<1>2. job \in [kind : {"confirmation", "notification"}, deadline : Deadlines \cup {Never}]
      /\ (job.deadline = Never => job.kind = "confirmation") 
  <2>1. Never \notin Deadlines
    BY NumbersAssumption DEF Never
  <2> QED BY <2>1
<1>3. TypeOK
  <2>1. 0 \in 0..MaxAttempts
    BY NumbersAssumption
  <2> QED BY <1>1, <1>2, <2>1, ReadyTyped DEF TypeOK, Sends
<1>4. NotBegun /\ UnderWay /\ HandedWasTaken /\ WaitsAreCapped
  BY <1>1, ReadyTyped DEF NotBegun, UnderWay, HandedWasTaken, WaitsAreCapped, Sending, Handed, At
<1>5. OneConfirmation /\ OnlyConfirmationsUnlimited /\ EndsInTime
  BY <1>1, <1>2, <1>3, ReadyTyped, DeadlineTyped, NumbersAssumption
     DEF OneConfirmation, OnlyConfirmationsUnlimited, EndsInTime, Sending, At
<1>6. NilMeansAccepted /\ CopiesAreLostAnswers /\ GivesUpForCause
  BY ReadyTyped DEF NilMeansAccepted, CopiesAreLostAnswers, GivesUpForCause, Handed, At
<1> QED BY <1>3, <1>4, <1>5, <1>6 DEF IInv

LEMMA NextKeeps == ASSUME IInv, [Next]_vars PROVE IInv'
BY BeginKeeps, WaitEndsKeeps, SendEmailKeeps, CancelKeeps, TickKeeps, StutterKeeps
   DEF Next, CallStep

-----------------------------------------------------------------------------
(* Every behaviour. *)

\* The inductive invariant holds throughout the call, whatever the mail server
\* does and whenever the call is cancelled.
THEOREM Invariance == Spec => []IInv
<1>1. Init => IInv
  BY InitInvariant
<1>2. IInv /\ [Next]_vars => IInv'
  BY NextKeeps
<1> QED BY <1>1, <1>2, PTL DEF Spec

\* Attempts never exceed the configured number, times stay times.
THEOREM TypeCorrect == Spec => []TypeOK
<1>1. IInv => TypeOK
  BY DEF IInv
<1> QED BY <1>1, Invariance, PTL

\* The wait between two attempts exceeds MaxWait by a quarter at most, however
\* the waits grow.
THEOREM BackoffCapped == Spec => []WaitsAreCapped
<1>1. IInv => WaitsAreCapped
  BY DEF IInv
<1> QED BY <1>1, Invariance, PTL

\* A call that reports success has handed the mail to the server.
THEOREM NilIsTrue == Spec => []NilMeansAccepted
<1>1. IInv => NilMeansAccepted
  BY DEF IInv
<1> QED BY <1>1, Invariance, PTL

\* A recipient gets one copy, and one more for each reply that was lost.
THEOREM CopiesExplained == Spec => []CopiesAreLostAnswers
<1>1. IInv => CopiesAreLostAnswers
  BY DEF IInv
<1> QED BY <1>1, Invariance, PTL

\* The call never outlasts its context, or the SMTP timeout without one.
THEOREM Punctual == Spec => []EndsInTime
<1>1. IInv => EndsInTime
  BY DEF IInv
<1> QED BY <1>1, Invariance, PTL

\* No recipient is given up while his mail could still be retried.
THEOREM NotGivenUpEarly == Spec => []GivesUpForCause
<1>1. IInv => GivesUpForCause
  BY DEF IInv
<1> QED BY <1>1, Invariance, PTL
=============================================================================
