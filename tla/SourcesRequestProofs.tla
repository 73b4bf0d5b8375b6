------------------------ MODULE SourcesRequestProofs ------------------------
(***************************************************************************)
(* Theorems about SourcesRequest, for any settings, timeout and pause.     *)
(***************************************************************************)
EXTENDS SourcesRequest, TLAPS

\* A longer loop takes no less time.
LEMMA LongerLoop ==
  ASSUME NEW m \in Nat, NEW n \in Nat, NEW p \in Nat, m <= n
  PROVE  m * p <= n * p
  OBVIOUS

LEMMA OneMore ==
  ASSUME NEW n \in Nat, NEW p \in Nat
  PROVE  /\ (n + 1) * p = n * p + p
         /\ n * p \in Nat
  OBVIOUS

\* What sendRequest reads from the environment is a number of attempts.
LEMMA AttemptsArePositive ==
  ASSUME NEW setting \in Settings
  PROVE  Attempts(setting) \in Nat \ {0}
  BY RequestAssumption DEF Attempts, DefaultAttempts

-----------------------------------------------------------------------------
(***************************************************************************)
(* The inductive invariant: where the clock may be at each location, and   *)
(* what an answer says of the attempt it answers.                          *)
(***************************************************************************)

\* The context is the first one, an answer is waited for only under it, and
\* every sleep so far took one pause.
Timely ==
  /\ deadline = Timeout
  /\ attempt = 0 => pc \in {"next", "returned"}
  /\ pc = "next" => clock <= Timeout + attempt * Pause
  /\ pc = "waiting" => clock <= Timeout
  /\ pc = "pausing" => clock <= wake /\ wake <= Timeout + attempt * Pause
  /\ pc = "returned" => clock <= Timeout + attempt * Pause

\* Requests are those of the attempts made, each with the whole body, and
\* Sources carries out none that is still on its way.
Sent ==
  /\ \A r \in network \union applied :
       r.body = "whole" /\ r.attempt \in 1..attempt
  /\ \A r \in network, s \in applied : r.attempt # s.attempt

\* An answer belongs to an attempt that has left the network, and one that
\* refuses belongs to one that was not applied.
Answered ==
  /\ \A i \in 1..limit :
       heard[i] # None =>
         /\ i <= attempt
         /\ \A r \in network : r.attempt # i
         /\ heard[i] \in {"4xx", "busy"} => \A r \in applied : r.attempt # i
         /\ heard[i] \in {"2xx", "4xx"} => pc = "returned" /\ i = attempt
  /\ pc = "waiting" => heard[attempt] = None
  /\ pc = "waiting" /\ status # None =>
       /\ \A r \in network : r.attempt # attempt
       /\ status \in {"4xx", "busy"} =>
            \A r \in applied : r.attempt # attempt

\* A success was applied.
SuccessApplied ==
  /\ status = "2xx" => applied # {}
  /\ result = "ok" => applied # {}

\* What cannot be made is not sent.
Unsent ==
  defect # "none" =>
    attempt = 0 /\ network \union applied = {} /\ pc \in {"next", "returned"}

RInv ==
  /\ TypeOK
  /\ Timely
  /\ Sent
  /\ Answered
  /\ SuccessApplied
  /\ NeverWithoutTrying
  /\ Unsent

LEMMA InitRInv == Init => RInv
<1> SUFFICES ASSUME Init PROVE RInv
  OBVIOUS
<1>1. limit \in Nat \ {0}
  <2>1. PICK setting \in Settings : limit = Attempts(setting)
    BY DEF Init
  <2> QED
    BY <2>1, AttemptsArePositive
<1>2. TypeOK
  <2>1. heard \in [1..limit -> Statuses \union {None}]
    BY DEF Init
  <2>2. attempt \in 0..limit
    BY <1>1 DEF Init
  <2> QED
    BY <1>1, <2>1, <2>2, RequestAssumption DEF Init, TypeOK, Locations, Defects
<1>3. Timely
  <2>1. 0 * Pause = 0
    BY RequestAssumption
  <2> QED
    BY <2>1, RequestAssumption DEF Init, Timely
<1>4. Sent
  BY DEF Init, Sent
<1>5. Answered
  BY <1>1 DEF Init, Answered
<1>6. SuccessApplied
  BY RequestAssumption DEF Init, SuccessApplied, Statuses
<1>7. NeverWithoutTrying
  BY DEF Init, NeverWithoutTrying
<1>8. Unsent
  BY DEF Init, Unsent
<1> QED
  BY <1>2, <1>3, <1>4, <1>5, <1>6, <1>7, <1>8 DEF RInv

-----------------------------------------------------------------------------
\* One lemma per action: the step preserves each part of the invariant.

LEMMA MarshalFailsStep == RInv /\ MarshalFails => RInv'
<1> SUFFICES ASSUME RInv, MarshalFails PROVE RInv'
  OBVIOUS
<1> USE RequestAssumption DEF RInv
<1>1. TypeOK'
  BY DEF TypeOK, MarshalFails, Return, Request, Locations, Statuses
<1>2. Timely'
  BY OneMore, LongerLoop DEF TypeOK, Timely, MarshalFails, Return
<1>3. Sent'
  BY DEF TypeOK, Sent, Request, MarshalFails, Return
<1>4. Answered'
  BY DEF TypeOK, Sent, Answered, Request, Timely, MarshalFails, Return
<1>5. SuccessApplied'
  BY DEF TypeOK, SuccessApplied, MarshalFails, Return
<1>6. NeverWithoutTrying'
  BY DEF TypeOK, Timely, Answered, Unsent, NeverWithoutTrying,
         MarshalFails, Return
<1>7. Unsent'
  BY DEF TypeOK, Unsent, MarshalFails, Return
<1> QED
  BY <1>1, <1>2, <1>3, <1>4, <1>5, <1>6, <1>7

LEMMA BuildFailsStep == RInv /\ BuildFails => RInv'
<1> SUFFICES ASSUME RInv, BuildFails PROVE RInv'
  OBVIOUS
<1> USE RequestAssumption DEF RInv
<1>1. TypeOK'
  BY DEF TypeOK, BuildFails, Return, Request, Locations, Statuses
<1>2. Timely'
  BY OneMore, LongerLoop DEF TypeOK, Timely, BuildFails, Return
<1>3. Sent'
  BY DEF TypeOK, Sent, Request, BuildFails, Return
<1>4. Answered'
  BY DEF TypeOK, Sent, Answered, Request, Timely, BuildFails, Return
<1>5. SuccessApplied'
  BY DEF TypeOK, SuccessApplied, BuildFails, Return
<1>6. NeverWithoutTrying'
  BY DEF TypeOK, Timely, Answered, Unsent, NeverWithoutTrying,
         BuildFails, Return
<1>7. Unsent'
  BY DEF TypeOK, Unsent, BuildFails, Return
<1> QED
  BY <1>1, <1>2, <1>3, <1>4, <1>5, <1>6, <1>7

LEMMA SendStep == RInv /\ Send => RInv'
<1> SUFFICES ASSUME RInv, Send PROVE RInv'
  OBVIOUS
<1> USE RequestAssumption DEF RInv
<1>1. TypeOK'
  BY DEF TypeOK, Send, MayTry, Reader, Renew, Request, Locations, Statuses
<1>2. Timely'
  BY OneMore, LongerLoop DEF TypeOK, Timely, Send, MayTry, Reader, Renew
<1>3. Sent'
  BY DEF TypeOK, Sent, Request, Send, MayTry, Reader, Renew
<1>4. Answered'
  BY DEF TypeOK, Sent, Answered, Request, Timely, Send, MayTry, Reader, Renew
<1>5. SuccessApplied'
  BY DEF TypeOK, SuccessApplied, Statuses, Send, MayTry, Reader, Renew
<1>6. NeverWithoutTrying'
  BY DEF TypeOK, Timely, Answered, Unsent, NeverWithoutTrying,
         Send, MayTry, Reader, Renew
<1>7. Unsent'
  BY DEF TypeOK, Unsent, Send, MayTry, Reader, Renew
<1> QED
  BY <1>1, <1>2, <1>3, <1>4, <1>5, <1>6, <1>7

LEMMA SendExpiredStep == RInv /\ SendExpired => RInv'
<1> SUFFICES ASSUME RInv, SendExpired PROVE RInv'
  OBVIOUS
<1> USE RequestAssumption DEF RInv
<1>1. TypeOK'
  BY DEF TypeOK, SendExpired, MayTry, Renew, Sleep, Request, Locations, Statuses
<1>2. Timely'
  BY OneMore, LongerLoop DEF TypeOK, Timely, SendExpired, MayTry, Renew, Sleep
<1>3. Sent'
  BY DEF TypeOK, Sent, Request, SendExpired, MayTry, Renew, Sleep
<1>4. Answered'
  BY DEF TypeOK, Sent, Answered, Request, Timely, SendExpired, MayTry, Renew, Sleep
<1>5. SuccessApplied'
  BY DEF TypeOK, SuccessApplied, SendExpired, MayTry, Renew, Sleep
<1>6. NeverWithoutTrying'
  BY DEF TypeOK, Timely, Answered, Unsent, NeverWithoutTrying,
         SendExpired, MayTry, Renew, Sleep
<1>7. Unsent'
  BY DEF TypeOK, Unsent, SendExpired, MayTry, Renew, Sleep
<1> QED
  BY <1>1, <1>2, <1>3, <1>4, <1>5, <1>6, <1>7

LEMMA ConnectionFailsStep == RInv /\ ConnectionFails => RInv'
<1> SUFFICES ASSUME RInv, ConnectionFails PROVE RInv'
  OBVIOUS
<1> USE RequestAssumption DEF RInv
<1>1. TypeOK'
  BY DEF TypeOK, ConnectionFails, NoAnswer, Sleep, Request, Locations, Statuses
<1>2. Timely'
  BY OneMore, LongerLoop DEF TypeOK, Timely, ConnectionFails, NoAnswer, Sleep
<1>3. Sent'
  BY DEF TypeOK, Sent, Request, ConnectionFails, NoAnswer, Sleep
<1>4. Answered'
  BY DEF TypeOK, Sent, Answered, Request, Timely, ConnectionFails, NoAnswer, Sleep
<1>5. SuccessApplied'
  BY DEF TypeOK, SuccessApplied, ConnectionFails, NoAnswer, Sleep
<1>6. NeverWithoutTrying'
  BY DEF TypeOK, Timely, Answered, Unsent, NeverWithoutTrying,
         ConnectionFails, NoAnswer, Sleep
<1>7. Unsent'
  BY DEF TypeOK, Unsent, ConnectionFails, NoAnswer, Sleep
<1> QED
  BY <1>1, <1>2, <1>3, <1>4, <1>5, <1>6, <1>7

LEMMA ExpireStep == RInv /\ Expire => RInv'
<1> SUFFICES ASSUME RInv, Expire PROVE RInv'
  OBVIOUS
<1> USE RequestAssumption DEF RInv
<1>1. TypeOK'
  BY DEF TypeOK, Expire, NoAnswer, Sleep, Request, Locations, Statuses
<1>2. Timely'
  BY OneMore, LongerLoop DEF TypeOK, Timely, Expire, NoAnswer, Sleep
<1>3. Sent'
  BY DEF TypeOK, Sent, Request, Expire, NoAnswer, Sleep
<1>4. Answered'
  BY DEF TypeOK, Sent, Answered, Request, Timely, Expire, NoAnswer, Sleep
<1>5. SuccessApplied'
  BY DEF TypeOK, SuccessApplied, Expire, NoAnswer, Sleep
<1>6. NeverWithoutTrying'
  BY DEF TypeOK, Timely, Answered, Unsent, NeverWithoutTrying,
         Expire, NoAnswer, Sleep
<1>7. Unsent'
  BY DEF TypeOK, Unsent, Expire, NoAnswer, Sleep
<1> QED
  BY <1>1, <1>2, <1>3, <1>4, <1>5, <1>6, <1>7

LEMMA ReceiveStep == RInv /\ Receive => RInv'
<1> SUFFICES ASSUME RInv, Receive PROVE RInv'
  OBVIOUS
<1> USE RequestAssumption DEF RInv
<1>1. TypeOK'
  <2>1. CASE Return("error") /\ UNCHANGED <<failed, heard, wake>>
    BY <2>1 DEF TypeOK, Receive, Return, Locations
  <2>2. ASSUME failed' = FALSE,
               heard' = [heard EXCEPT ![attempt] = status],
               \/ pc' = "returned" /\ result' \in {"ok", "error"} /\ wake' = wake
               \/ Sleep /\ result' = result
        PROVE  TypeOK'
    <3>1. heard' \in [1..limit -> Statuses \union {None}]
      BY <2>2 DEF TypeOK
    <3>2. /\ pc' \in Locations
          /\ result' \in {"pending", "ok", "error"}
      BY <2>2 DEF TypeOK, Receive, Sleep, Locations
    <3>3. pc' = "returned" <=> result' # "pending"
      BY <2>2 DEF TypeOK, Receive, Sleep
    <3>4. wake' \in Nat
      BY <2>2 DEF TypeOK, Sleep
    <3> QED
      BY <2>2, <3>1, <3>2, <3>3, <3>4 DEF TypeOK, Receive
  <2> QED
    BY <2>1, <2>2 DEF Receive, Return
<1>2. Timely'
  BY OneMore, LongerLoop DEF TypeOK, Timely, Receive, Return, Settles, Sleep
<1>3. Sent'
  BY DEF TypeOK, Sent, Request, Receive, Return, Settles, Sleep
<1>4. Answered'
  BY DEF TypeOK, Sent, Answered, Request, Timely, Receive, Return, Settles, Sleep
<1>5. SuccessApplied'
  BY DEF TypeOK, SuccessApplied, Receive, Return, Settles, Sleep
<1>6. NeverWithoutTrying'
  BY DEF TypeOK, Timely, Answered, Unsent, NeverWithoutTrying,
         Receive, Return, Settles, Sleep
<1>7. Unsent'
  BY DEF TypeOK, Unsent, Receive, Return, Settles, Sleep
<1> QED
  BY <1>1, <1>2, <1>3, <1>4, <1>5, <1>6, <1>7

LEMMA WakeStep == RInv /\ Wake => RInv'
<1> SUFFICES ASSUME RInv, Wake PROVE RInv'
  OBVIOUS
<1> USE RequestAssumption DEF RInv
<1>1. TypeOK'
  BY DEF TypeOK, Wake, Request, Locations, Statuses
<1>2. Timely'
  BY OneMore, LongerLoop DEF TypeOK, Timely, Wake
<1>3. Sent'
  BY DEF TypeOK, Sent, Request, Wake
<1>4. Answered'
  BY DEF TypeOK, Sent, Answered, Request, Timely, Wake
<1>5. SuccessApplied'
  BY DEF TypeOK, SuccessApplied, Wake
<1>6. NeverWithoutTrying'
  BY DEF TypeOK, Timely, Answered, Unsent, NeverWithoutTrying,
         Wake
<1>7. Unsent'
  BY DEF TypeOK, Unsent, Wake
<1> QED
  BY <1>1, <1>2, <1>3, <1>4, <1>5, <1>6, <1>7

LEMMA ExhaustStep == RInv /\ Exhaust => RInv'
<1> SUFFICES ASSUME RInv, Exhaust PROVE RInv'
  OBVIOUS
<1> USE RequestAssumption DEF RInv
<1>1. TypeOK'
  BY DEF TypeOK, Exhaust, MayTry, Verdict, Return, Request, Locations, Statuses
<1>2. Timely'
  BY OneMore, LongerLoop DEF TypeOK, Timely, Exhaust, MayTry, Verdict, Return
<1>3. Sent'
  BY DEF TypeOK, Sent, Request, Exhaust, MayTry, Verdict, Return
<1>4. Answered'
  BY DEF TypeOK, Sent, Answered, Request, Timely, Exhaust, MayTry, Verdict, Return
<1>5. SuccessApplied'
  BY DEF TypeOK, SuccessApplied, Exhaust, MayTry, Verdict, Return
<1>6. NeverWithoutTrying'
  BY DEF TypeOK, Timely, Answered, Unsent, NeverWithoutTrying,
         Exhaust, MayTry, Verdict, Return
<1>7. Unsent'
  BY DEF TypeOK, Unsent, Exhaust, MayTry, Verdict, Return
<1> QED
  BY <1>1, <1>2, <1>3, <1>4, <1>5, <1>6, <1>7

LEMMA ServeStep == RInv /\ Serve => RInv'
<1> SUFFICES ASSUME RInv, Serve PROVE RInv'
  OBVIOUS
<1> USE RequestAssumption DEF RInv
<1>1. TypeOK'
  BY DEF TypeOK, Serve, Request, Locations, Statuses
<1>2. Timely'
  BY OneMore, LongerLoop DEF TypeOK, Timely, Serve
<1>3. Sent'
  BY DEF TypeOK, Sent, Request, Serve
<1>4. Answered'
  <2>1. PICK r \in network, answer \in Statuses, done \in BOOLEAN :
          /\ answer \in {"4xx", "busy"} => ~done
          /\ network' = network \ {r}
          /\ applied' = IF done THEN applied \union {r} ELSE applied
          /\ status' = IF pc = "waiting" /\ r.attempt = attempt THEN answer
                       ELSE status
          /\ UNCHANGED <<limit, attempt, pc, heard>>
    BY DEF Serve
  <2>2. \A i \in 1..limit : heard[i] # None => r.attempt # i
    BY DEF Answered
  <2>3. (\A i \in 1..limit :
           heard[i] # None =>
             /\ i <= attempt
             /\ \A s \in network : s.attempt # i
             /\ heard[i] \in {"4xx", "busy"} => \A s \in applied : s.attempt # i
             /\ heard[i] \in {"2xx", "4xx"} => pc = "returned" /\ i = attempt)'
    BY <2>1, <2>2 DEF Answered
  <2>4. (pc = "waiting" => heard[attempt] = None)'
    BY <2>1 DEF Answered
  <2>5. ASSUME (pc = "waiting" /\ status # None)'
        PROVE  (/\ \A s \in network : s.attempt # attempt
                /\ status \in {"4xx", "busy"} =>
                     \A s \in applied : s.attempt # attempt)'
    <3>1. CASE r.attempt = attempt
      <4>1. \A s \in network : s.attempt = attempt => s = r
        BY <3>1 DEF TypeOK, Request, Sent
      <4>2. \A s \in applied : s.attempt # attempt
        BY <3>1 DEF Sent
      <4> QED
        BY <2>1, <2>5, <3>1, <4>1, <4>2
    <3>2. CASE r.attempt # attempt
      BY <2>1, <2>5, <3>2 DEF Answered
    <3> QED
      BY <3>1, <3>2
  <2> QED
    BY <2>3, <2>4, <2>5 DEF Answered
<1>5. SuccessApplied'
  BY DEF TypeOK, SuccessApplied, Serve
<1>6. NeverWithoutTrying'
  BY DEF TypeOK, Timely, Answered, Unsent, NeverWithoutTrying,
         Serve
<1>7. Unsent'
  BY DEF TypeOK, Unsent, Serve
<1> QED
  BY <1>1, <1>2, <1>3, <1>4, <1>5, <1>6, <1>7

LEMMA LoseStep == RInv /\ Lose => RInv'
<1> SUFFICES ASSUME RInv, Lose PROVE RInv'
  OBVIOUS
<1> USE RequestAssumption DEF RInv
<1>1. TypeOK'
  BY DEF TypeOK, Lose, Request, Locations, Statuses
<1>2. Timely'
  BY OneMore, LongerLoop DEF TypeOK, Timely, Lose
<1>3. Sent'
  BY DEF TypeOK, Sent, Request, Lose
<1>4. Answered'
  BY DEF TypeOK, Sent, Answered, Request, Timely, Lose
<1>5. SuccessApplied'
  BY DEF TypeOK, SuccessApplied, Lose
<1>6. NeverWithoutTrying'
  BY DEF TypeOK, Timely, Answered, Unsent, NeverWithoutTrying,
         Lose
<1>7. Unsent'
  BY DEF TypeOK, Unsent, Lose
<1> QED
  BY <1>1, <1>2, <1>3, <1>4, <1>5, <1>6, <1>7

LEMMA TickStep == RInv /\ Tick => RInv'
<1> SUFFICES ASSUME RInv, Tick PROVE RInv'
  OBVIOUS
<1> USE RequestAssumption DEF RInv
<1>1. TypeOK'
  BY DEF TypeOK, Tick, Request, Locations, Statuses
<1>2. Timely'
  BY OneMore, LongerLoop DEF TypeOK, Timely, Tick
<1>3. Sent'
  BY DEF TypeOK, Sent, Request, Tick
<1>4. Answered'
  BY DEF TypeOK, Sent, Answered, Request, Timely, Tick
<1>5. SuccessApplied'
  BY DEF TypeOK, SuccessApplied, Tick
<1>6. NeverWithoutTrying'
  BY DEF TypeOK, Timely, Answered, Unsent, NeverWithoutTrying,
         Tick
<1>7. Unsent'
  BY DEF TypeOK, Unsent, Tick
<1> QED
  BY <1>1, <1>2, <1>3, <1>4, <1>5, <1>6, <1>7

LEMMA Invariance == RInv /\ [Next]_vars => RInv'
<1> SUFFICES ASSUME RInv, [Next]_vars PROVE RInv'
  OBVIOUS
<1>1. CASE UNCHANGED vars
  BY <1>1 DEF vars, RInv, TypeOK, Timely, Sent, Answered, SuccessApplied,
              NeverWithoutTrying, Unsent
<1> QED
  BY <1>1, MarshalFailsStep, BuildFailsStep, SendStep, SendExpiredStep,
     ConnectionFailsStep, ExpireStep, ReceiveStep, WakeStep, ExhaustStep,
     ServeStep, LoseStep, TickStep
     DEF Next, Client

-----------------------------------------------------------------------------
\* sendRequest keeps to the inductive invariant.
THEOREM RequestInvariant == Spec => []RInv
<1>1. Init => RInv
  BY InitRInv
<1>2. RInv /\ [Next]_vars => RInv'
  BY Invariance
<1> QED
  BY <1>1, <1>2, PTL DEF Spec

\* The variables of a request keep their types, for every setting of the
\* number of attempts, numbers that are none included.
THEOREM RequestTypeCorrect == Spec => []TypeOK
<1>1. RInv => TypeOK
  BY DEF RInv
<1> QED
  BY <1>1, RequestInvariant, PTL

\* Whatever the network and Sources do, sendRequest holds its caller up for
\* no longer than the timeout and one sleep per attempt: sleeping is not cut
\* short by the context, and waiting for answers does not add up.
THEOREM RequestIsBounded == Spec => []BoundedTime
<1>1. RInv => BoundedTime
  <2> SUFFICES ASSUME RInv PROVE BoundedTime
    OBVIOUS
  <2> USE RequestAssumption
  <2>1. /\ limit \in Nat /\ attempt \in Nat /\ attempt <= limit
        /\ clock \in Nat /\ wake \in Nat
        /\ pc \in Locations
    BY DEF RInv, TypeOK
  <2>2. /\ attempt * Pause \in Nat /\ limit * Pause \in Nat
        /\ attempt * Pause <= limit * Pause
    BY <2>1, OneMore, LongerLoop
  <2>3. clock <= Timeout + attempt * Pause
    BY <2>1, <2>2 DEF RInv, Timely, Locations
  <2> QED
    BY <2>1, <2>2, <2>3 DEF BoundedTime
<1> QED
  BY <1>1, RequestInvariant, PTL

\* Whichever attempt Sources carries out, early, late or after the client
\* gave up, it has the whole body: each attempt reads it from the start.
THEOREM BodyIsWhole == Spec => []WholeBodyApplied
<1>1. RInv => WholeBodyApplied
  BY DEF RInv, Sent, WholeBodyApplied
<1> QED
  BY <1>1, RequestInvariant, PTL

\* A request is carried out twice only after an answer that did not say
\* whether it was carried out, or that never came.
THEOREM DuplicatesAreAmbiguous == Spec => []DuplicatesNeedAmbiguity
<1>1. RInv => DuplicatesNeedAmbiguity
  <2> SUFFICES ASSUME RInv, NEW r \in applied, NEW s \in applied,
                      r.attempt < s.attempt
               PROVE  heard[r.attempt] \in {None, "5xx"}
    BY DEF DuplicatesNeedAmbiguity
  <2>1. /\ r.attempt \in 1..limit
        /\ s.attempt <= attempt
        /\ r.attempt \in Nat /\ s.attempt \in Nat /\ attempt \in Nat
    BY DEF RInv, TypeOK, Sent, Request
  <2>2. heard[r.attempt] \in Statuses \union {None}
    BY <2>1 DEF RInv, TypeOK
  <2>3. heard[r.attempt] \notin {"4xx", "busy"}
    BY <2>1, RequestAssumption DEF RInv, Answered, Statuses
  <2>4. heard[r.attempt] # "2xx"
    BY <2>1, RequestAssumption DEF RInv, Answered, Statuses
  <2> QED
    BY <2>2, <2>3, <2>4 DEF Statuses
<1> QED
  BY <1>1, RequestInvariant, PTL

\* An error that is no refusal by Sources comes only after the configured
\* number of attempts, of which there is at least one, or when an answer could
\* not be read; unless the request could not be made (its body, or the address
\* of Sources), and then none was sent.
THEOREM NeverUntried == Spec => []NeverWithoutTrying
<1>1. RInv => NeverWithoutTrying
  BY DEF RInv
<1> QED
  BY <1>1, RequestInvariant, PTL

-----------------------------------------------------------------------------
(***************************************************************************)
(* Refinement: a step of the loop, of the network or of Sources is a step  *)
(* of the one call SuperkeyWorker makes, or none.                          *)
(***************************************************************************)

LEMMA InitCall == Init => Call!Init
BY DEF Init, Call!Init

\* sendRequest returns once, and with success only what was applied.
LEMMA ReturnIsReturn ==
  ASSUME RInv, RInv', result = "pending", result' \in {"ok", "error"},
         applied' = applied
  PROVE  Call!Return
<1>1. result' = "ok" => (applied # {})'
  BY DEF RInv, SuccessApplied
<1> QED
  BY <1>1 DEF Call!Return

LEMMA StepOfCall == RInv /\ RInv' /\ [Next]_vars => [Call!Next]_(Call!vars)
<1> SUFFICES ASSUME RInv, RInv', [Next]_vars PROVE [Call!Next]_(Call!vars)
  OBVIOUS
<1>1. CASE MarshalFails \/ BuildFails \/ Receive \/ Exhaust
  <2>1. result = "pending" /\ applied' = applied
    BY <1>1 DEF MarshalFails, BuildFails, Receive, Exhaust, RInv, TypeOK
  <2>2. result' = result \/ result' \in {"ok", "error"}
    BY <1>1 DEF MarshalFails, BuildFails, Receive, Exhaust, Return, Verdict
  <2>3. CASE result' = result
    BY <2>1, <2>3 DEF Call!vars
  <2>4. CASE result' \in {"ok", "error"}
    BY <2>1, <2>4, ReturnIsReturn DEF Call!Next
  <2> QED
    BY <2>2, <2>3, <2>4
<1>2. CASE Serve
  <2>1. result' = result /\ applied \subseteq applied'
    BY <1>2 DEF Serve
  <2>2. CASE applied = {} /\ applied' # {}
    BY <2>1, <2>2 DEF Call!Next, Call!Apply
  <2>3. CASE applied # {} \/ applied' = {}
    <3>1. (applied # {})' = (applied # {})
      BY <2>1, <2>3
    <3> QED
      BY <2>1, <3>1 DEF Call!vars
  <2> QED
    BY <2>2, <2>3
<1>3. CASE \/ Send \/ SendExpired \/ Expire \/ Wake
           \/ ConnectionFails \/ Lose \/ Tick \/ UNCHANGED vars
  <2>1. result' = result /\ applied' = applied
    BY <1>3 DEF Send, SendExpired, Expire, Wake, ConnectionFails, NoAnswer,
                Lose, Tick, vars
  <2> QED
    BY <2>1 DEF Call!vars
<1> QED
  BY <1>1, <1>2, <1>3 DEF Next, Client

\* Leaving aside that it returns at all, which is fairness, sendRequest is
\* the call that SuperkeyWorker takes it to be, for any number of attempts:
\* it returns once, and "ok" only what Sources carried out.
THEOREM RequestIsOneCall == Spec => Call!Spec
<1>1. Init => Call!Init
  BY InitCall
<1>2. RInv /\ RInv' /\ [Next]_vars => [Call!Next]_(Call!vars)
  BY StepOfCall
<1> QED
  BY <1>1, <1>2, RequestInvariant, PTL DEF Spec, Call!Spec
=============================================================================
