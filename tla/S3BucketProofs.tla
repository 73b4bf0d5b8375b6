---------------------------- MODULE S3BucketProofs ----------------------------
(***************************************************************************)
(* Theorems about S3Bucket, for any handlers, keys and size of a page.     *)
(***************************************************************************)
EXTENDS S3Bucket, FiniteSetTheorems, TLAPS

-----------------------------------------------------------------------------
(***************************************************************************)
(* Types, and that a handler returns once.                                 *)
(***************************************************************************)

Pending == \A h \in Handlers : pc[h] # "returned" => result[h] = "pending"

Typed == TypeOK /\ Pending

LEMMA InitTyped == Init => Typed
  BY DEF Init, Typed, TypeOK, Pending

\* What becomes of the handler that makes a call, and of the others.
Moves(h) ==
  /\ pc[h] # "returned"
  /\ \A k \in Handlers \ {h} : /\ pc'[k] = pc[k] /\ page'[k] = page[k]
                               /\ result'[k] = result[k]
  /\ \/ pc'[h] \in {"objects", "bucket"} /\ result'[h] = result[h]
     \/ pc'[h] = "returned" /\ result'[h] \in {"ok", "error"}

LEMMA ListIs ==
  ASSUME Typed, NEW h \in Handlers, List(h)
  PROVE  /\ pc[h] = "list" /\ Moves(h)
         /\ UNCHANGED <<exists, contents, written>>
         /\ \/ /\ exists /\ page'[h] \in Pages
               /\ pc'[h] = "objects" /\ UNCHANGED <<result, failed>>
            \/ /\ pc'[h] = "returned" /\ result'[h] = "error"
               /\ UNCHANGED page /\ failed' = (failed \/ exists)
<1>1. /\ pc[h] = "list"
      /\ UNCHANGED <<exists, contents, written>>
  BY DEF List
<1>2. PICK reply \in Replies(exists) :
        /\ Heed(exists, reply)
        /\ IF reply = "ok"
           THEN /\ \E keys \in Pages : page' = [page EXCEPT ![h] = keys]
                /\ Goto(h, AfterList)
           ELSE Return(h, "error") /\ UNCHANGED page
  BY DEF List
<1>3. CASE reply = "ok"
  <2>1. exists
    BY <1>2, <1>3 DEF Replies
  <2>2. PICK keys \in Pages : page' = [page EXCEPT ![h] = keys]
    BY <1>2, <1>3
  <2>3. pc' = [pc EXCEPT ![h] = "objects"] /\ UNCHANGED result
    BY <1>2, <1>3 DEF Goto, AfterList
  <2>4. UNCHANGED failed
    BY <1>2, <1>3 DEF Heed, Typed, TypeOK
  <2> QED BY <1>1, <2>1, <2>2, <2>3, <2>4 DEF Moves, Typed, TypeOK
<1>4. CASE reply # "ok"
  <2>1. failed' = (failed \/ exists)
    BY <1>2, <1>4 DEF Heed
  <2> QED BY <1>1, <1>2, <1>4, <2>1 DEF Return, Moves, Typed, TypeOK
<1> QED BY <1>3, <1>4

LEMMA DeleteObjectIs ==
  ASSUME Typed, NEW h \in Handlers, DeleteObject(h)
  PROVE  /\ pc[h] = "objects" /\ Moves(h)
         /\ UNCHANGED <<exists, written>>
         /\ contents' \subseteq contents
         /\ \/ /\ \E key \in page[h] : /\ contents' = contents \ {key}
                                       /\ page'[h] = page[h] \ {key}
               /\ pc'[h] = "objects" /\ UNCHANGED <<result, failed>>
            \/ /\ pc'[h] = "returned" /\ result'[h] = "error"
               /\ UNCHANGED page /\ failed' = (failed \/ exists)
<1>1. /\ pc[h] = "objects"
      /\ UNCHANGED <<exists, written>>
  BY DEF DeleteObject
<1>2. PICK key \in page[h], reply \in Replies(exists) :
        /\ Heed(exists, reply)
        /\ contents' = IF reply = "refused" THEN contents ELSE contents \ {key}
        /\ IF reply = "ok"
           THEN /\ page' = [page EXCEPT ![h] = @ \ {key}]
                /\ Goto(h, "objects")
           ELSE OnObjectError(h, key)
  BY DEF DeleteObject
<1>3. CASE reply = "ok"
  <2>1. contents' = contents \ {key} /\ page'[h] = page[h] \ {key}
    BY <1>2, <1>3 DEF Typed, TypeOK
  <2>2. UNCHANGED failed
    BY <1>2, <1>3 DEF Heed, Typed, TypeOK
  <2> QED BY <1>1, <1>2, <1>3, <2>1, <2>2 DEF Goto, Moves, Typed, TypeOK
<1>4. CASE reply # "ok"
  <2>1. failed' = (failed \/ exists)
    BY <1>2, <1>4 DEF Heed
  <2> QED BY <1>1, <1>2, <1>4, <2>1
          DEF OnObjectError, Return, Moves, Typed, TypeOK
<1> QED BY <1>3, <1>4

LEMMA DeleteBucketIs ==
  ASSUME Typed, NEW h \in Handlers, DeleteBucket(h)
  PROVE  /\ pc[h] = "bucket" /\ Moves(h) /\ pc'[h] = "returned"
         /\ UNCHANGED <<contents, page, written>>
         /\ exists' \in BOOLEAN /\ failed' \in BOOLEAN
         /\ exists' => exists
         /\ failed => failed'
         /\ ~exists' => contents = {}
         /\ result'[h] = "ok" => ~exists'
         /\ exists /\ contents = {} => ~exists' \/ failed'
<1>1. /\ pc[h] = "bucket"
      /\ UNCHANGED <<contents, page, written>>
  BY DEF DeleteBucket
<1>2. PICK reply \in Replies(exists /\ contents = {}) :
        /\ Heed(exists /\ contents = {}, reply)
        /\ exists' = (exists /\ reply = "refused")
        /\ Return(h, Verdict(reply))
  BY DEF DeleteBucket
<1>3. Moves(h) /\ pc'[h] = "returned" /\ result'[h] = Verdict(reply)
  BY <1>1, <1>2 DEF Return, Verdict, Moves, Typed, TypeOK
<1>4. /\ failed' \in BOOLEAN /\ (failed => failed')
      /\ exists /\ contents = {} /\ reply # "ok" => failed'
  BY <1>2 DEF Heed
<1>5. reply # "refused" => exists /\ contents = {}
  BY <1>2 DEF Replies
<1>6. ~exists => contents = {}
  BY DEF Typed, TypeOK
<1> QED BY <1>1, <1>2, <1>3, <1>4, <1>5, <1>6 DEF Verdict

LEMMA AllDeletedIs ==
  ASSUME Typed, NEW h \in Handlers, AllDeleted(h)
  PROVE  /\ pc[h] = "objects" /\ Moves(h) /\ pc'[h] = "bucket"
         /\ page[h] = {}
         /\ UNCHANGED <<exists, contents, page, result, failed, written>>
  BY DEF AllDeleted, Goto, Moves, Typed, TypeOK

LEMMA PutIs ==
  ASSUME Typed, Put
  PROVE  /\ exists /\ written' = TRUE
         /\ contents' \subseteq Objects
         /\ UNCHANGED <<exists, pc, page, result, failed>>
  BY BucketAssumption DEF Put, Typed, TypeOK

\* A handler's step keeps the types of the functions over the handlers.
LEMMA MovesTyped ==
  ASSUME Typed, NEW h \in Handlers, Moves(h), Destroy(h),
         page'[h] \subseteq Objects
  PROVE  /\ pc' \in [Handlers -> {"list", "objects", "bucket", "returned"}]
         /\ page' \in [Handlers -> SUBSET Objects]
         /\ result' \in [Handlers -> {"pending", "ok", "error"}]
         /\ Pending'
<1>1. /\ DOMAIN pc' = Handlers /\ DOMAIN page' = Handlers
      /\ DOMAIN result' = Handlers
      /\ pc' = [k \in Handlers |-> pc'[k]]
      /\ page' = [k \in Handlers |-> page'[k]]
      /\ result' = [k \in Handlers |-> result'[k]]
  BY DEF Destroy, List, DeleteObject, OnObjectError, AllDeleted, DeleteBucket,
         Goto, Return, Typed, TypeOK
<1>2. \A k \in Handlers :
        /\ pc'[k] \in {"list", "objects", "bucket", "returned"}
        /\ page'[k] \subseteq Objects
        /\ result'[k] \in {"pending", "ok", "error"}
        /\ pc'[k] # "returned" => result'[k] = "pending"
  BY DEF Moves, Typed, TypeOK, Pending
<1> QED BY <1>1, <1>2 DEF Pending

LEMMA NextTyped ==
  ASSUME Typed, [Next]_vars
  PROVE  Typed'
<1>1. CASE UNCHANGED vars
  BY <1>1 DEF vars, Typed, TypeOK, Pending
<1>2. CASE Put
  <2>1. Pending'
    BY <1>2, PutIs DEF Typed, Pending
  <2> QED BY <1>2, <2>1, PutIs DEF Typed, TypeOK
<1>3. ASSUME NEW h \in Handlers, Destroy(h) PROVE Typed'
  <2>1. ASSUME List(h) PROVE Typed'
    <3>1. Moves(h) /\ page'[h] \subseteq Objects
      BY <2>1, ListIs DEF Pages, Typed, TypeOK
    <3>2. UNCHANGED <<exists, contents, written>> /\ failed' \in BOOLEAN
      BY <2>1, ListIs DEF Typed, TypeOK
    <3> QED BY <1>3, <3>1, <3>2, MovesTyped DEF Typed, TypeOK
  <2>2. ASSUME DeleteObject(h) PROVE Typed'
    <3>1. Moves(h) /\ page'[h] \subseteq Objects
      BY <2>2, DeleteObjectIs DEF Typed, TypeOK
    <3>2. /\ UNCHANGED <<exists, written>> /\ failed' \in BOOLEAN
          /\ contents' \subseteq contents
      BY <2>2, DeleteObjectIs DEF Typed, TypeOK
    <3> QED BY <1>3, <3>1, <3>2, MovesTyped DEF Typed, TypeOK
  <2>3. ASSUME AllDeleted(h) PROVE Typed'
    <3>1. Moves(h) /\ page'[h] \subseteq Objects
      BY <2>3, AllDeletedIs DEF Typed, TypeOK
    <3> QED BY <1>3, <2>3, <3>1, AllDeletedIs, MovesTyped DEF Typed, TypeOK
  <2>4. ASSUME DeleteBucket(h) PROVE Typed'
    <3>1. Moves(h) /\ page'[h] \subseteq Objects
      BY <2>4, DeleteBucketIs DEF Typed, TypeOK
    <3> QED BY <1>3, <2>4, <3>1, DeleteBucketIs, MovesTyped DEF Typed, TypeOK
  <2> QED BY <1>3, <2>1, <2>2, <2>3, <2>4 DEF Destroy
<1> QED BY <1>1, <1>2, <1>3 DEF Next

LEMMA AlwaysTyped == Spec => []Typed
  BY InitTyped, NextTyped, PTL DEF Spec

\* Every variable of S3Bucket has its type, and what no longer exists is empty,
\* for any handlers, keys and page size.
THEOREM BucketTypeCorrect == Spec => []TypeOK
<1>1. Typed => TypeOK
  BY DEF Typed
<1> QED BY <1>1, AlwaysTyped, PTL

-----------------------------------------------------------------------------
(***************************************************************************)
(* A bucket that fits in a page.                                           *)
(***************************************************************************)

\* The one answer of ListObjects can hold all there is.
FitsInPage == Cardinality(contents) <= PageSize

LEMMA WholePage ==
  ASSUME Typed, FitsInPage, NEW keys \in Pages
  PROVE  keys = contents
<1>1. contents \subseteq Objects /\ IsFiniteSet(Objects)
  BY BucketAssumption DEF Typed, TypeOK
<1>2. IsFiniteSet(contents) /\ keys \subseteq contents
  BY <1>1, FS_Subset DEF Pages
<1>3. /\ Cardinality(contents) \in Nat /\ Cardinality(keys) \in Nat
      /\ Cardinality(keys) <= Cardinality(contents)
      /\ Cardinality(keys) = Cardinality(contents) => keys = contents
  BY <1>2, FS_Subset, FS_CardinalityType
<1>4. PageSize \in Nat
  BY BucketAssumption
<1> QED BY <1>3, <1>4 DEF Pages, FitsInPage

\* Where nothing is written, what is left in the bucket is on the page of each
\* handler that still deletes objects.
Swept ==
  /\ ~written =>
       \A h \in Handlers : /\ pc[h] = "objects" => contents \subseteq page[h]
                           /\ pc[h] = "bucket" => contents = {}
  /\ DestroyedUnlessFailed

LEMMA InitSwept == Init => Swept
  BY DEF Init, Swept, DestroyedUnlessFailed

LEMMA NextSwept ==
  ASSUME Typed, FitsInPage, Swept, [Next]_vars
  PROVE  Swept'
<1> USE DEF Swept, DestroyedUnlessFailed
<1>1. CASE UNCHANGED vars
  BY <1>1 DEF vars
<1>2. CASE Put
  BY <1>2, PutIs
<1>3. ASSUME NEW h \in Handlers, List(h) PROVE Swept'
  <2>1. /\ Moves(h)
        /\ UNCHANGED <<exists, contents, written>>
        /\ \/ /\ page'[h] = contents
              /\ pc'[h] = "objects" /\ UNCHANGED <<result, failed>>
           \/ /\ pc'[h] = "returned"
              /\ UNCHANGED page /\ failed' = (failed \/ exists)
    BY <1>3, ListIs, WholePage
  <2>2. DestroyedUnlessFailed'
    <3>1. CASE UNCHANGED <<result, failed>>
      BY <2>1, <3>1
    <3>2. CASE failed' = (failed \/ exists)
      BY <2>1, <3>2
    <3> QED BY <2>1, <3>1, <3>2
  <2>3. ~written' =>
          \A k \in Handlers : /\ pc'[k] = "objects" => contents' \subseteq page'[k]
                              /\ pc'[k] = "bucket" => contents' = {}
    BY <2>1 DEF Moves
  <2> QED BY <2>2, <2>3
<1>4. ASSUME NEW h \in Handlers, DeleteObject(h) PROVE Swept'
  BY <1>4, DeleteObjectIs DEF Moves
<1>5. ASSUME NEW h \in Handlers, AllDeleted(h) PROVE Swept'
  BY <1>5, AllDeletedIs DEF Moves
<1>6. ASSUME NEW h \in Handlers, DeleteBucket(h) PROVE Swept'
  BY <1>6, DeleteBucketIs DEF Moves
<1> QED BY <1>1, <1>2, <1>3, <1>4, <1>5, <1>6 DEF Next, Destroy

LEMMA AlwaysSwept == Spec /\ []FitsInPage => []Swept
<1>1. Init => Swept
  BY InitSwept
<1>2. Typed /\ FitsInPage /\ Swept /\ [Next]_vars => Swept'
  BY NextSwept
<1> QED BY <1>1, <1>2, AlwaysTyped, PTL DEF Spec

\* Whatever the number of handlers: as long as the bucket holds no more than
\* one page lists, none asks to delete it with anything left in it but what
\* was written since.
THEOREM EmptiedFirst == Spec /\ []FitsInPage => []EmptyBeforeDelete
<1>1. Swept => EmptyBeforeDelete
  BY DEF Swept, EmptyBeforeDelete
<1> QED BY <1>1, AlwaysSwept, PTL

\* Whatever the number of handlers: as long as the bucket holds no more than
\* one page lists, a handler returns only when the bucket is gone, AWS failed
\* a call or AWS wrote into the bucket.
THEOREM BucketIsDestroyed == Spec /\ []FitsInPage => []DestroyedUnlessFailed
<1>1. Swept => DestroyedUnlessFailed
  BY DEF Swept
<1> QED BY <1>1, AlwaysSwept, PTL

-----------------------------------------------------------------------------
(***************************************************************************)
(* DestroyS3Bucket as one call, whatever the bucket holds.                 *)
(***************************************************************************)

LEMMA NextIsCall ==
  ASSUME Typed, [Next]_vars
  PROVE  [Call!Next]_(Call!vars)
<1> USE DEF Call!Next, Call!vars, Call!Apply, Call!Return
<1>1. Observed \in Handlers
  BY BucketAssumption DEF Observed
<1> HIDE DEF Observed
<1>2. CASE UNCHANGED vars
  BY <1>2, Zenon DEF vars
<1>3. CASE Put
  BY <1>3, PutIs
<1>4. ASSUME NEW h \in Handlers, Moves(h), UNCHANGED exists,
             result'[h] # "ok"
      PROVE  [Call!Next]_(Call!vars)
  BY <1>1, <1>4 DEF Moves, Typed, Pending
<1>5. ASSUME NEW h \in Handlers, List(h) \/ DeleteObject(h) \/ AllDeleted(h)
      PROVE  [Call!Next]_(Call!vars)
  BY <1>4, <1>5, ListIs, DeleteObjectIs, AllDeletedIs DEF Moves, Typed, Pending
<1>6. ASSUME NEW h \in Handlers, DeleteBucket(h)
      PROVE  [Call!Next]_(Call!vars)
  BY <1>1, <1>6, DeleteBucketIs DEF Moves, Typed, TypeOK, Pending
<1> QED BY <1>2, <1>3, <1>5, <1>6 DEF Next, Destroy

\* DestroyS3Bucket returns once, and "ok" only with the bucket gone, whatever
\* the bucket holds and however many handlers work on it: the safety part of
\* the one call SuperkeyWorker takes it for.
THEOREM DestroyIsOneCall == Spec => Call!Spec
<1>1. Init => Call!Init
  BY BucketAssumption DEF Init, Call!Init, Observed
<1>2. Typed /\ [Next]_vars => [Call!Next]_(Call!vars)
  BY NextIsCall
<1> QED BY <1>1, <1>2, AlwaysTyped, PTL DEF Spec, Call!Spec
=============================================================================
