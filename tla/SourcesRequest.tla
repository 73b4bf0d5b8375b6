--------------------------- MODULE SourcesRequest ---------------------------
(***************************************************************************)
(* sendRequest of the Sources client: one request with a body, tried up to *)
(* a configured number of times under one timeout.  The network may lose a *)
(* request or an answer, or deliver a request after the client gave up.    *)
(* Time advances only while the client waits for an answer or sleeps.      *)
(***************************************************************************)
EXTENDS Integers

CONSTANTS
  Settings,  \* values of SOURCES_REQUEST_MAX_ATTEMPTS, None if not a number
  None,      \* no number, no status
  Timeout,   \* time the context gives the whole request
  Pause      \* time slept after an attempt that did not settle it

\* "busy" stands for 408 and 429, "4xx" for the other client errors and
\* "5xx" for every status of no family named here.
Statuses == {"2xx", "4xx", "busy", "5xx"}

ASSUME RequestAssumption ==
  /\ Settings \subseteq Int \union {None}
  /\ None \notin Int
  /\ None \notin Statuses
  /\ Timeout \in Nat
  /\ Pause \in Nat

DefaultAttempts == 3

\* Mutant of Attempts: what the environment says, if it is a number.
AttemptsUnchecked(setting) ==
  IF setting \in Int THEN setting ELSE DefaultAttempts

Attempts(setting) ==
  IF setting \in Int /\ setting >= 1 THEN setting ELSE DefaultAttempts

Locations == {"next", "waiting", "pausing", "returned"}

\* A body json.Marshal refuses; a scheme, host or port that make no URL.
Defects == {"none", "body", "url"}

Request == [attempt: Nat, body: {"whole", "drained"}]

VARIABLES
  limit,     \* SourcesRequestsMaxAttempts
  defect,    \* what keeps the request from being made: its body, its URL
  attempt,   \* attempts made so far
  pc,        \* where sendRequest is
  body,      \* what a reader on the body would still yield
  status,    \* status of the current attempt's answer, on its way
  failed,    \* err of the loop: the last attempt got no answer
  heard,     \* per attempt, the status the client got, None if none
  result,    \* what sendRequest returned
  clock,
  deadline,  \* when the context expires
  wake,      \* when the sleep ends
  network,   \* requests Sources has not come to
  applied    \* requests Sources carried out

vars == <<limit, defect, attempt, pc, body, status, failed, heard, result,
          clock, deadline, wake, network, applied>>

Init ==
  /\ \E setting \in Settings : limit = Attempts(setting)
  /\ defect \in Defects
  /\ attempt = 0
  /\ pc = "next"
  /\ body = "whole"
  /\ status = None
  /\ failed = FALSE
  /\ heard = [i \in 1..limit |-> None]
  /\ result = "pending"
  /\ clock = 0
  /\ deadline = Timeout
  /\ wake = 0
  /\ network = {}
  /\ applied = {}

-----------------------------------------------------------------------------
(***************************************************************************)
(* The client.                                                             *)
(***************************************************************************)
Return(outcome) ==
  /\ pc' = "returned"
  /\ result' = outcome

Sleep ==
  /\ pc' = "pausing"
  /\ wake' = clock + Pause

\* Mutant of Reader: one reader for all attempts.
SharedReader == body

\* bytes.NewReader(bodyBytes), made anew for each attempt.
Reader == "whole"

\* Mutant of Renew: a context of its own for each attempt.
RenewEachAttempt == deadline' = clock + Timeout

\* The context is made once, before the loop.
Renew == UNCHANGED deadline

\* Mutant of MayTry: an attempt too many.
MayTryOnceMore == attempt <= limit

MayTry == attempt < limit

\* Before the loop: the body cannot be marshalled.
MarshalFails ==
  /\ pc = "next"
  /\ defect = "body"
  /\ Return("error")
  /\ UNCHANGED <<limit, defect, attempt, body, status, failed, heard, clock,
                 deadline, wake, network, applied>>

\* http.NewRequestWithContext fails, and the loop goes no further.
BuildFails ==
  /\ pc = "next"
  /\ MayTry
  /\ defect = "url"
  /\ Return("error")
  /\ UNCHANGED <<limit, defect, attempt, body, status, failed, heard, clock,
                 deadline, wake, network, applied>>

Send ==
  /\ pc = "next"
  /\ MayTry
  /\ defect = "none"
  /\ clock < deadline
  /\ attempt' = attempt + 1
  /\ network' = network \union {[attempt |-> attempt + 1, body |-> Reader]}
  /\ body' = "drained"
  /\ pc' = "waiting"
  /\ status' = None
  /\ Renew
  /\ UNCHANGED <<limit, defect, failed, heard, result, clock, wake, applied>>

\* Once the context has expired Do fails without sending, and the loop goes
\* on through its attempts and its sleeps.
SendExpired ==
  /\ pc = "next"
  /\ MayTry
  /\ defect = "none"
  /\ clock >= deadline
  /\ attempt' = attempt + 1
  /\ failed' = TRUE
  /\ Sleep
  /\ Renew
  /\ UNCHANGED <<limit, defect, body, status, heard, result, clock, network,
                 applied>>

\* Do fails: the connection does, or the context expires.
NoAnswer ==
  /\ failed' = TRUE
  /\ Sleep
  /\ UNCHANGED <<limit, defect, attempt, body, status, heard, result, clock,
                 deadline, network, applied>>

ConnectionFails == pc = "waiting" /\ NoAnswer

Expire == pc = "waiting" /\ clock >= deadline /\ NoAnswer

\* Mutant of Settles: a status of 2xx does not end the loop.
SettlesOnRefusal(answer) == answer = "4xx"

\* The loop ends on success and on errors a retry will not fix.
Settles(answer) == answer \in {"2xx", "4xx"}

\* The answer is there.  If reading its body fails, sendRequest returns; if
\* parsing it fails after success, too.
Receive ==
  /\ pc = "waiting"
  /\ status # None
  /\ \/ /\ Return("error")
        /\ UNCHANGED <<failed, heard, wake>>
     \/ /\ failed' = FALSE
        /\ heard' = [heard EXCEPT ![attempt] = status]
        /\ IF Settles(status)
           THEN /\ Return(IF status = "2xx" THEN "ok" ELSE "error")
                /\ UNCHANGED wake
           ELSE Sleep /\ UNCHANGED result
  /\ UNCHANGED <<limit, defect, attempt, body, status, clock, deadline,
                 network, applied>>

Wake ==
  /\ pc = "pausing"
  /\ clock >= wake
  /\ pc' = "next"
  /\ UNCHANGED <<limit, defect, attempt, body, status, failed, heard, result,
                 clock, deadline, wake, network, applied>>

\* Mutant of Verdict: an answer is an answer.
AnyAnswer == IF failed THEN "error" ELSE "ok"

\* After the last attempt only a status of 2xx would be a success, and that
\* has ended the loop.
Verdict == IF failed \/ status # "2xx" THEN "error" ELSE "ok"

Exhaust ==
  /\ pc = "next"
  /\ ~MayTry
  /\ defect # "body"
  /\ Return(Verdict)
  /\ UNCHANGED <<limit, defect, attempt, body, status, failed, heard, clock,
                 deadline, wake, network, applied>>

-----------------------------------------------------------------------------
(***************************************************************************)
(* Sources, the network and time.                                          *)
(***************************************************************************)

\* Sources carries a request out, or refuses it, and answers; an answer to
\* an attempt the client has given up on reaches nobody.
Serve ==
  \E r \in network, answer \in Statuses, done \in BOOLEAN :
    /\ answer = "2xx" => done
    /\ answer \in {"4xx", "busy"} => ~done
    /\ network' = network \ {r}
    /\ applied' = IF done THEN applied \union {r} ELSE applied
    /\ status' = IF pc = "waiting" /\ r.attempt = attempt THEN answer
                 ELSE status
    /\ UNCHANGED <<limit, defect, attempt, pc, body, failed, heard, result,
                   clock, deadline, wake>>

Lose ==
  /\ \E r \in network : network' = network \ {r}
  /\ UNCHANGED <<limit, defect, attempt, pc, body, status, failed, heard,
                 result, clock, deadline, wake, applied>>

Tick ==
  /\ \/ pc = "waiting" /\ clock < deadline
     \/ pc = "pausing" /\ clock < wake
  /\ clock' = clock + 1
  /\ UNCHANGED <<limit, defect, attempt, pc, body, status, failed, heard,
                 result, deadline, wake, network, applied>>

-----------------------------------------------------------------------------
Client ==
  \/ MarshalFails \/ BuildFails
  \/ Send \/ SendExpired \/ Expire \/ Receive \/ Wake \/ Exhaust

Next == Client \/ ConnectionFails \/ Serve \/ Lose \/ Tick

Spec == Init /\ [][Next]_vars

\* The goroutine runs and time passes; Sources need not answer.
FairSpec == Spec /\ WF_vars(Client) /\ WF_vars(Tick)
-----------------------------------------------------------------------------
(***************************************************************************)
(* Properties.                                                             *)
(***************************************************************************)

TypeOK ==
  /\ limit \in Nat \ {0}
  /\ defect \in Defects
  /\ attempt \in 0..limit
  /\ pc \in Locations
  /\ body \in {"whole", "drained"}
  /\ status \in Statuses \union {None}
  /\ failed \in BOOLEAN
  /\ heard \in [1..limit -> Statuses \union {None}]
  /\ result \in {"pending", "ok", "error"}
  /\ pc = "returned" <=> result # "pending"
  /\ clock \in Nat /\ deadline \in Nat /\ wake \in Nat
  /\ network \subseteq Request
  /\ applied \subseteq Request

\* Whatever the network and Sources do, the handler is held up for no longer
\* than the timeout and one sleep per attempt.
BoundedTime == clock <= Timeout + limit * Pause

\* Whichever attempt Sources carries out, early, late or twice, it carries
\* out the whole request: a retry does not send what the attempt before it
\* left of the body.
WholeBodyApplied == \A r \in applied : r.body = "whole"

\* Sources carries a request out twice (an authentication is then created
\* twice) only if the client did not learn of the first time.
DuplicatesNeedAmbiguity ==
  \A r, s \in applied :
    r.attempt < s.attempt => heard[r.attempt] \in {None, "5xx"}

\* A request that can be made is tried, whatever number of attempts is
\* configured, and fails without a refusal by Sources only after all attempts,
\* or when an answer could not be read.  One that cannot be made fails before
\* anything is sent.
NeverWithoutTrying ==
  result = "error" =>
    IF defect = "none"
    THEN /\ attempt > 0
         /\ \/ attempt = limit
            \/ heard[attempt] = "4xx"
            \/ status # None /\ heard[attempt] = None
    ELSE attempt = 0 /\ network \union applied = {}

Call == INSTANCE RemoteCall WITH applied <- applied # {}

\* sendRequest is the one call SuperkeyWorker takes it to be, and returns
\* even if Sources never answers.
ImplementsCall == Call!FairSpec
=============================================================================
