------------------------------ MODULE S3Bucket ------------------------------
(***************************************************************************)
(* DestroyS3Bucket: list the bucket, delete what was listed one object at  *)
(* a time, delete the bucket.  SuperkeyWorker takes it for one call to     *)
(* AWS.  A request delivered twice has two handlers destroy one bucket,    *)
(* and AWS writes billing reports into it until the bucket is gone.        *)
(***************************************************************************)
EXTENDS AwsAccount, FiniteSets, Integers

CONSTANTS
  Handlers,  \* goroutines that destroy the bucket
  Objects,   \* keys the bucket may hold
  Reports,   \* keys AWS may still write
  PageSize   \* most keys one answer of ListObjects holds

ASSUME BucketAssumption ==
  /\ Handlers # {}
  /\ IsFiniteSet(Objects)
  /\ Reports \subseteq Objects
  /\ PageSize \in Nat \ {0}

VARIABLES
  exists,    \* whether the bucket exists
  contents,  \* keys in it
  pc,        \* per handler, the next call
  page,      \* per handler, keys listed and not yet deleted
  result,    \* per handler, what DestroyS3Bucket returned
  failed,    \* history: AWS failed a call, or the answer to one
  written    \* history: AWS wrote into the bucket

vars == <<exists, contents, pc, page, result, failed, written>>

Init ==
  /\ exists = TRUE
  /\ contents \in SUBSET Objects
  /\ pc = [h \in Handlers |-> "list"]
  /\ page = [h \in Handlers |-> {}]
  /\ result = [h \in Handlers |-> "pending"]
  /\ failed = FALSE
  /\ written = FALSE

-----------------------------------------------------------------------------
Return(h, outcome) ==
  /\ pc' = [pc EXCEPT ![h] = "returned"]
  /\ result' = [result EXCEPT ![h] = outcome]

Goto(h, location) ==
  /\ pc' = [pc EXCEPT ![h] = location]
  /\ UNCHANGED result

\* A reply other than "ok" to a call that was possible is a failure of AWS.
Heed(possible, reply) == failed' = (failed \/ (possible /\ reply # "ok"))

\* One page of what is in the bucket.
Pages ==
  { keys \in SUBSET contents :
      \/ keys = contents /\ Cardinality(keys) <= PageSize
      \/ keys # contents /\ Cardinality(keys) = PageSize }

\* Mutant of AfterList: straight to the bucket.
BucketFirst == "bucket"

AfterList == "objects"

List(h) ==
  /\ pc[h] = "list"
  /\ \E reply \in Replies(exists) :
       /\ Heed(exists, reply)
       /\ IF reply = "ok"
          THEN /\ \E keys \in Pages : page' = [page EXCEPT ![h] = keys]
               /\ Goto(h, AfterList)
          ELSE Return(h, "error") /\ UNCHANGED page
  /\ UNCHANGED <<exists, contents, written>>

\* Mutant of OnObjectError: go on with the next object.
NextObject(h, key) ==
  /\ page' = [page EXCEPT ![h] = @ \ {key}]
  /\ Goto(h, "objects")

\* The first object that cannot be deleted ends it.
OnObjectError(h, key) == Return(h, "error") /\ UNCHANGED page

\* Deleting a key that is gone succeeds as long as the bucket is there.
DeleteObject(h) ==
  /\ pc[h] = "objects"
  /\ \E key \in page[h], reply \in Replies(exists) :
       /\ Heed(exists, reply)
       /\ contents' = IF reply = "refused" THEN contents ELSE contents \ {key}
       /\ IF reply = "ok"
          THEN /\ page' = [page EXCEPT ![h] = @ \ {key}]
               /\ Goto(h, "objects")
          ELSE OnObjectError(h, key)
  /\ UNCHANGED <<exists, written>>

AllDeleted(h) ==
  /\ pc[h] = "objects"
  /\ page[h] = {}
  /\ Goto(h, "bucket")
  /\ UNCHANGED <<exists, contents, page, failed, written>>

\* Mutant of Verdict: the error of the last call is dropped.
VerdictIgnored(reply) == "ok"

\* Mutant of Verdict: the caller gets AWS's own answer.
RawVerdict(reply) == reply

Verdict(reply) == IF reply = "ok" THEN "ok" ELSE "error"

\* S3 deletes no bucket that holds objects.
DeleteBucket(h) ==
  /\ pc[h] = "bucket"
  /\ LET possible == exists /\ contents = {} IN
       \E reply \in Replies(possible) :
         /\ Heed(possible, reply)
         /\ exists' = (exists /\ reply = "refused")
         /\ Return(h, Verdict(reply))
  /\ UNCHANGED <<contents, page, written>>

\* AWS delivers a billing report.
Put ==
  /\ exists
  /\ \E key \in Reports \ contents : contents' = contents \union {key}
  /\ written' = TRUE
  /\ UNCHANGED <<exists, pc, page, result, failed>>

-----------------------------------------------------------------------------
Destroy(h) == List(h) \/ DeleteObject(h) \/ AllDeleted(h) \/ DeleteBucket(h)

Next == Put \/ \E h \in Handlers : Destroy(h)

Spec == Init /\ [][Next]_vars

\* AWS answers every call.
FairSpec == Spec /\ \A h \in Handlers : WF_vars(Destroy(h))
-----------------------------------------------------------------------------
(***************************************************************************)
(* Properties.                                                             *)
(***************************************************************************)

TypeOK ==
  /\ exists \in BOOLEAN
  /\ contents \subseteq Objects
  /\ exists \/ contents = {}
  /\ pc \in [Handlers -> {"list", "objects", "bucket", "returned"}]
  /\ page \in [Handlers -> SUBSET Objects]
  /\ result \in [Handlers -> {"pending", "ok", "error"}]
  /\ failed \in BOOLEAN
  /\ written \in BOOLEAN

\* "First we have to clear any objects that are in the bucket": a handler
\* asks to delete the bucket only when nothing is left in it but what was
\* written since.  It takes a bucket that fits in a page.
EmptyBeforeDelete ==
  ~written => \A h \in Handlers : pc[h] = "bucket" => contents = {}

\* Two handlers of one request do not keep each other from their work: when
\* one of them returns, the bucket is gone unless AWS failed a call or wrote
\* into it.  (The other one may well return an error then.)
DestroyedUnlessFailed ==
  (\E h \in Handlers : result[h] # "pending") => ~exists \/ failed \/ written

\* The handlers are interchangeable.
Observed == CHOOSE h \in Handlers : TRUE

Call == INSTANCE RemoteCall WITH result <- result[Observed], applied <- ~exists

\* For a handler DestroyS3Bucket is the one call SuperkeyWorker takes it for:
\* "ok" means the bucket is gone, and it returns, whatever the bucket holds
\* and whoever else deletes from it or writes into it.
ImplementsCall == Call!FairSpec
=============================================================================
