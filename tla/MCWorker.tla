------------------------------ MODULE MCWorker ------------------------------
(***************************************************************************)
(* Instances of SuperkeyWorker for TLC.                                    *)
(***************************************************************************)
EXTENDS SuperkeyWorker, TLC

Plain(name) == [name |-> name, payload |-> "document"]

\* Cost management: a bucket with a policy, a report into it, a bound role.
CostManagement ==
  << [name |-> "s3", payload |-> "create_cost_policy"], Plain("cost_report"),
     Plain("policy"), Plain("role"), Plain("bind_role") >>

\* Only an IAM role: what the other application types ask for.
BoundRole == << Plain("policy"), Plain("role"), Plain("bind_role") >>

\* A bucket with a policy and a role, for runs with many interleavings.
BucketAndRole ==
  << [name |-> "s3", payload |-> "create_cost_policy"], Plain("role") >>

Twice == << Plain("s3"), Plain("policy"), Plain("policy") >>
Unknown == << Plain("role"), Plain("unknown") >>
Malformed ==
  << Plain("s3"), [name |-> "cost_report", payload |-> "malformed"] >>
TwoReports ==
  << Plain("cost_report"), [name |-> "cost_report", payload |-> "other_report"],
     Plain("unknown") >>
Unordered == << Plain("bind_role"), Plain("policy"), Plain("role") >>

CostList == {CostManagement}
ShortLists == {BucketAndRole, BoundRole}
RoleList == {BoundRole}
AllLists ==
  CostList \union {Twice, Unknown, Malformed, TwoReports, Unordered, <<>>}

Good == [headers |-> {"x-rh-identity"}, readable |-> TRUE]
Anonymous == [headers |-> {}, readable |-> TRUE]
Garbled == [headers |-> {"x-rh-sources-org-id"}, readable |-> FALSE]

GoodOnly == {Good}
AnyEnvelope == {Good, Anonymous, Garbled}

Symmetry ==
  Permutations(Apps) \union Permutations(Workers) \union Permutations(Guids)
=============================================================================
