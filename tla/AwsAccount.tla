----------------------------- MODULE AwsAccount -----------------------------
(***************************************************************************)
(* The customer's AWS account as the client in src/amazon uses it.  Every  *)
(* resource the worker forges is named after the kind of superkey step     *)
(* that made it and the GUID of the forged application, so the account is  *)
(* a set of pairs <<kind, guid>>.  A cost report also bears the name its   *)
(* payload gives it: "other_report" is a report under a second name.  The  *)
(* pair <<"bind_role", g>> is the attachment of g's policy to g's role.  A *)
(* bucket policy has no pair: it lives and dies with its bucket.           *)
(***************************************************************************)

CONSTANT AwsOutcomes  \* the ways a call that AWS could serve may end

StepNames == {"s3", "cost_report", "policy", "role", "bind_role"}

Kinds == StepNames \union {"other_report"}

\* The superkey step that makes a resource of the kind: the key under which
\* StepsCompleted has it.
StepOf(kind) == IF kind = "other_report" THEN "cost_report" ELSE kind

(***************************************************************************)
(* "ok": done and reported so.  "refused": not done, an error is returned. *)
(* "lost": done, but the caller gets an error (a timeout, a reset          *)
(* connection): the SDK cannot tell it from "refused".                     *)
(***************************************************************************)
Outcomes == {"ok", "refused", "lost"}

ASSUME AwsOutcomesAssumption ==
  /\ AwsOutcomes \subseteq Outcomes
  /\ "ok" \in AwsOutcomes

Replies(possible) == IF possible THEN AwsOutcomes ELSE {"refused"}

-----------------------------------------------------------------------------
\* In us-east-1 creating a bucket one already owns succeeds, and so does
\* attaching an attached policy; the other names must be new.
CanCreate(account, kind, g) ==
  /\ kind \notin {"s3", "bind_role"} => <<kind, g>> \notin account
  /\ kind = "bind_role" => {<<"policy", g>>, <<"role", g>>} \subseteq account

\* IAM deletes neither a policy nor a role while the attachment stands.
CanDelete(account, kind, g) ==
  /\ <<kind, g>> \in account
  /\ kind \in {"policy", "role"} => <<"bind_role", g>> \notin account

AfterCreate(account, kind, g, reply) ==
  IF reply = "refused" THEN account ELSE account \union {<<kind, g>>}

AfterDelete(account, kind, g, reply) ==
  IF reply = "refused" THEN account ELSE account \ {<<kind, g>>}
=============================================================================
