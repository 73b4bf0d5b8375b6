----------------------------- MODULE RemoteCall -----------------------------
(***************************************************************************)
(* What SuperkeyWorker takes a request to another service to be: it is     *)
(* applied or not, and it returns once.  "ok" means applied; after "error" *)
(* the caller does not know, and a request on its way may still be applied *)
(* when the caller has long gone on.                                       *)
(***************************************************************************)

VARIABLES
  result,   \* what the caller got, "pending" as long as it waits
  applied   \* whether the service did what it was asked

vars == <<result, applied>>

Init ==
  /\ result = "pending"
  /\ applied = FALSE

Apply ==
  /\ applied' = TRUE
  /\ UNCHANGED result

\* Where nobody sees the moment between, it is applied as it returns.
Return ==
  /\ result = "pending"
  /\ applied' \in {applied, TRUE}
  /\ \/ applied' /\ result' = "ok"
     \/ result' = "error"

Next == Apply \/ Return

Spec == Init /\ [][Next]_vars

\* The caller does not wait forever.
FairSpec == Spec /\ WF_vars(Return)
=============================================================================
