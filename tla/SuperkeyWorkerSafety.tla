------------------------ MODULE SuperkeyWorkerSafety ------------------------
(***************************************************************************)
(* Three safety theorems about SuperkeyWorker: what is left in the account *)
(* was reported, a teardown without errors leaves nothing, and a destroy   *)
(* request names all there is.  Each step is first put as a few flat facts *)
(* (which replica, record or set changes, and how); the parts of IndInv    *)
(* are then shown to survive such steps.                                   *)
(***************************************************************************)
EXTENDS SuperkeyWorkerProofs

Safe ==
  /\ KnownAreUsed
  /\ ForgesAlone
  /\ Accounted
  /\ FailedMeansStuck
  /\ Posted
  /\ LeaksAreReported
  /\ CleanTearDown
  /\ CreatesOnce
  /\ RemovalRequested

LEMMA TeardownsAre ==
  ASSUME NEW m
  PROVE  m \in Teardowns <=>
           /\ m.type = "destroy_application"
           /\ m \in queue \/ \E w \in Workers : m \in uncommitted[w]
  BY DEF Teardowns

LEMMA TeardownsWillBe ==
  ASSUME NEW m
  PROVE  m \in Teardowns' <=>
           /\ m.type = "destroy_application"
           /\ m \in queue' \/ \E w \in Workers : m \in uncommitted'[w]
  BY DEF Teardowns

LEMMA PostedApps ==
  ASSUME Typed, NEW w \in Workers, pc[w] \in Posting
  PROVE  job[w].msg.app \in Apps
  BY AppOfRequest DEF Creating

LEMMA InitSafe == Init => Safe
  BY DEF Init, Safe, KnownAreUsed, ForgesAlone, Accounted, FailedMeansStuck,
         Posted, LeaksAreReported, CleanTearDown, CreatesOnce,
         RemovalRequested, Teardowns, Blank, NoSuperkey, Creating, Forging,
         Posting, Marking, Counters

\* A replica is about to report a resource of an application that is gone.
Overtaken(w, kind) ==
  /\ pc[w] = "check"
  /\ sources[job[w].msg.app].state # "live"
  /\ <<kind, job[w].guid>> \in aws
  /\ job[w].guid \notin spoiled

Entrusted(w, kind) ==
  LET g == job[w].guid IN
  \/ Requested(kind, g)
  \/ \E v \in Workers \ {w} : pc[v] # "idle" /\ job[v].guid = g
  \/ g \in counted["creation_failed"] \union counted["deletion_failed"]

LEMMA RemovalRequestedIs ==
  /\ RemovalRequested <=>
       \A w \in Workers, kind \in Kinds :
         Overtaken(w, kind) => Entrusted(w, kind)
  /\ RemovalRequested' <=>
       \A w \in Workers, kind \in Kinds :
         Overtaken(w, kind)' => Entrusted(w, kind)'
  BY DEF RemovalRequested, Overtaken, Entrusted

-----------------------------------------------------------------------------
(***************************************************************************)
(* Steps that touch neither a replica nor the account.                     *)
(***************************************************************************)

ReplicasKept(changed) ==
  \A v \in Workers \ changed : pc'[v] = pc[v] /\ job'[v] = job[v]

StatesKept ==
  \A a \in Apps :
    /\ sources[a].state = "deleted" => sources'[a].state = "deleted"
    /\ sources[a].state = "live" => sources'[a].state = "live"

RecordsKept == \A a \in Apps : sources'[a].superkey = sources[a].superkey

\* No request to tear down is new, and none leaves the queue.
RequestsKept ==
  /\ Teardowns' \subseteq Teardowns
  /\ \A m \in queue : m.type = "destroy_application" => m \in queue'

LEMMA QuietStep ==
  ASSUME Typed, Typed', Safe,
         ReplicasKept({}), StatesKept, RecordsKept, RequestsKept,
         UNCHANGED <<aws, used, counted, spoiled, stuck>>
  PROVE  Safe'
<1> USE DEF Safe, ReplicasKept, StatesKept, RecordsKept, RequestsKept
<1>1. KnownAreUsed'
  BY DEF KnownAreUsed
<1>2. ForgesAlone'
  BY DEF ForgesAlone
<1>3. Accounted'
  BY DEF Accounted
<1>4. FailedMeansStuck'
  BY DEF FailedMeansStuck
<1>5. Posted'
  BY PostedApps DEF Posted, Posting
<1>6. LeaksAreReported'
  BY DEF LeaksAreReported, Held, Recorded, Requested
<1>7. CleanTearDown'
  BY DEF CleanTearDown
<1>8. CreatesOnce'
  BY DEF CreatesOnce
<1>9. RemovalRequested'
  <2>1. \A w \in Workers, kind \in Kinds :
          Overtaken(w, kind)' => Overtaken(w, kind)
    BY PostedApps DEF Overtaken, Posting
  <2>2. \A w \in Workers, kind \in Kinds :
          Entrusted(w, kind) => Entrusted(w, kind)'
    BY DEF Entrusted, Requested
  <2> QED BY <2>1, <2>2, RemovalRequestedIs
<1> QED BY <1>1, <1>2, <1>3, <1>4, <1>5, <1>6, <1>7, <1>8, <1>9

-----------------------------------------------------------------------------
(***************************************************************************)
(* Steps in which a handler neither receives a request nor calls AWS to    *)
(* create or to delete.                                                    *)
(***************************************************************************)

HasPosted == {"create_auth", "link_auth", "check"}

\* The handler goes on with its request.
Advances(w) ==
  /\ UNCHANGED counted
  /\ pc'[w] \notin {"idle", "destroy_auth"}
  /\ job'[w].msg = job[w].msg
  /\ job'[w].guid = job[w].guid
  /\ job'[w].done = job[w].done
  /\ job'[w].failed = job[w].failed
  /\ pc'[w] \in Forging => pc[w] \in Forging
  /\ pc'[w] \in Creating => pc[w] \in Creating
  /\ pc'[w] \in TearingDown =>
       \/ pc[w] \in Creating /\ job'[w].left = job[w].done
       \/ pc[w] = "destroy_auth" /\ job'[w].left = job[w].left
  /\ pc'[w] \in Marking =>
       \/ pc[w] \in Marking \union {"forge_auth"}
       \/ pc[w] = "teardown_forge" /\ job[w].left = {}
  /\ pc'[w] \in HasPosted =>
       \/ pc[w] \in HasPosted
       \/ pc[w] \in Posting
          /\ sources'[job[w].msg.app].superkey.guid = job[w].guid
  /\ pc'[w] = "check" => sources'[job[w].msg.app].state = "live"

\* The handler returns, and counts its request where it may.
Returns(w) ==
  /\ pc'[w] = "idle"
  /\ \E counter \in Counters :
       /\ \A c \in Counters :
            counted'[c] = IF c = counter THEN counted[c] \union {job[w].guid}
                          ELSE counted[c]
       /\ counter = "creation_ok" => pc[w] = "check"
       /\ counter = "creation_failed" =>
            \/ pc[w] \in Marking
            \/ pc[w] = "teardown_sources" /\ job[w].left = {}
       /\ counter = "deletion_ok" =>
            /\ pc[w] = "teardown_destroy"
            /\ job[w].left = {} /\ ~job[w].failed

\* The record of the handler's application is overwritten, if at all, by
\* nothing or by what the handler completed.
Records(w) ==
  \/ RecordsKept /\ UNCHANGED spoiled
  \/ LET a == job[w].msg.app
         old == sources[a].superkey
         new == sources'[a].superkey
     IN /\ pc[w] \in Creating \ Forging
        /\ a \in Apps
        /\ \A b \in Apps \ {a} : sources'[b].superkey = sources[b].superkey
        /\ spoiled' = spoiled \union ({old.guid} \ {None, new.guid})
        /\ \/ new.guid = None
           \/ new = old
           \/ new.guid = job[w].guid /\ new.steps = job[w].done

HandlerStep(w) ==
  /\ pc[w] # "idle"
  /\ ReplicasKept({w}) /\ StatesKept /\ RequestsKept
  /\ UNCHANGED <<aws, used, stuck>>
  /\ Advances(w) \/ Returns(w)
  /\ Records(w)

LEMMA HandlerStepSafe ==
  ASSUME Typed, Typed', Safe, NEW w \in Workers, HandlerStep(w)
  PROVE  Safe'
<1> USE DEF Safe, HandlerStep, ReplicasKept
<1> DEFINE g == job[w].guid
<1>1. g \in Guids /\ g # None /\ pc[w] # "idle"
  BY WorkerAssumption DEF Typed, TypeOK, Job
<1>2. spoiled \subseteq spoiled'
  BY DEF Records
<1>3. \A v \in Workers :
        pc'[v] # "idle" => pc[v] # "idle" /\ job'[v].guid = job[v].guid
  BY <1>1 DEF Advances, Returns
<1>4. \A b \in Apps :
        sources'[b].superkey.guid \in {sources[b].superkey.guid, None, g}
  BY DEF Records, RecordsKept
<1>5. \A c \in Counters : counted'[c] \subseteq counted[c] \union {g}
  BY DEF Advances, Returns
<1>6. Teardowns' \subseteq Teardowns
  BY DEF RequestsKept
<1>7. KnownAreUsed'
  BY <1>1, <1>3, <1>4, <1>5, <1>6 DEF KnownAreUsed
<1>8. ForgesAlone'
  <2> SUFFICES ASSUME NEW v \in Workers, pc'[v] \in Forging
               PROVE  /\ \A u \in Workers :
                           pc'[u] # "idle" /\ job'[u].guid = job'[v].guid => u = v
                      /\ \A m \in Teardowns' : m.guid # job'[v].guid
                      /\ \A a \in Apps :
                           sources'[a].superkey.guid # job'[v].guid
                      /\ \A c \in Counters : job'[v].guid \notin counted'[c]
    BY DEF ForgesAlone
  <2>1. pc[v] \in Forging /\ job'[v].guid = job[v].guid /\ job[v].guid \in Guids
    <3>1. pc[v] \in Forging /\ pc[v] # "idle"
      BY DEF Advances, Returns, Forging
    <3>2. pc'[v] # "idle" BY DEF Forging
    <3> QED BY <1>3, <3>1, <3>2 DEF Typed, TypeOK, Job
  <2>2. job[v].guid # None
    BY <2>1, WorkerAssumption
  <2>3. \A u \in Workers :
          pc'[u] # "idle" /\ job'[u].guid = job'[v].guid => u = v
    BY <1>3, <2>1 DEF ForgesAlone
  <2>4. CASE v = w
    <3>1. RecordsKept /\ UNCHANGED counted
      BY <2>1, <2>4 DEF Records, Advances, Returns, Forging
    <3> QED BY <1>6, <2>1, <2>3, <3>1 DEF ForgesAlone, RecordsKept
  <2>5. CASE v # w
    <3>1. g # job[v].guid
      BY <1>1, <2>1, <2>5 DEF ForgesAlone
    <3> QED BY <1>4, <1>5, <1>6, <2>1, <2>2, <2>3, <3>1 DEF ForgesAlone
  <2> QED BY <2>4, <2>5
<1>9. Accounted'
  <2> SUFFICES ASSUME NEW h \in Guids \ spoiled', NEW kind \in Kinds,
                      <<kind, h>> \in aws
               PROVE  /\ \A v \in Workers :
                           pc'[v] # "idle" /\ job'[v].guid = h =>
                             /\ pc'[v] \in Creating => kind \in job'[v].done
                             /\ pc'[v] = "destroy_auth" => kind \in job'[v].left
                             /\ pc'[v] \in TearingDown =>
                                  kind \in job'[v].left \/ job'[v].failed
                             /\ pc'[v] \in Marking => h \in stuck'
                      /\ \A m \in Teardowns' : m.guid = h => kind \in m.completed
                      /\ \A a \in Apps :
                           sources'[a].superkey.guid = h =>
                             kind \in sources'[a].superkey.steps
    BY DEF Accounted
  <2>1. h \notin spoiled /\ h # None
    BY <1>2, WorkerAssumption
  <2>2. ASSUME NEW v \in Workers, pc'[v] # "idle", job'[v].guid = h
        PROVE  /\ pc'[v] \in Creating => kind \in job'[v].done
               /\ pc'[v] = "destroy_auth" => kind \in job'[v].left
               /\ pc'[v] \in TearingDown => kind \in job'[v].left \/ job'[v].failed
               /\ pc'[v] \in Marking => h \in stuck'
    <3>1. pc[v] # "idle" /\ job[v].guid = h
      BY <1>3, <2>2
    <3>2. /\ pc[v] \in Creating => kind \in job[v].done
          /\ pc[v] = "destroy_auth" => kind \in job[v].left
          /\ pc[v] \in TearingDown => kind \in job[v].left \/ job[v].failed
          /\ pc[v] \in Marking => h \in stuck
      BY <2>1, <3>1 DEF Accounted
    <3>3. CASE v # w
      BY <3>2, <3>3
    <3>4. CASE v = w
      <4>1. Advances(w)
        BY <2>2, <3>4 DEF Returns
      <4>2. pc[w] = "forge_auth" => job[w].done = {} /\ pc[w] \in Creating
        BY DEF Typed, Shape, Creating, Forging
      <4>3. job[w].failed => h \in stuck
        BY <3>1, <3>4 DEF FailedMeansStuck
      <4> QED BY <3>2, <3>4, <4>1, <4>2, <4>3 DEF Advances, TearingDown
    <3> QED BY <3>3, <3>4
  <2>3. \A m \in Teardowns' : m.guid = h => kind \in m.completed
    BY <1>6, <2>1 DEF Accounted
  <2>4. ASSUME NEW a \in Apps, sources'[a].superkey.guid = h
        PROVE  kind \in sources'[a].superkey.steps
    <3>1. sources[a].superkey.guid = h => kind \in sources[a].superkey.steps
      BY <2>1 DEF Accounted
    <3>2. pc[w] \in Creating /\ g = h => kind \in job[w].done
      BY <1>1, <2>1 DEF Accounted
    <3> QED BY <2>1, <2>4, <3>1, <3>2 DEF Records, RecordsKept
  <2> QED BY <2>2, <2>3, <2>4
<1>10. FailedMeansStuck'
  BY DEF FailedMeansStuck, Advances, Returns
<1>11. Posted'
  <2> SUFFICES ASSUME NEW v \in Workers, pc'[v] \in HasPosted
               PROVE  \/ sources'[job'[v].msg.app].state = "deleted"
                      \/ sources'[job'[v].msg.app].superkey.guid = job'[v].guid
                      \/ job'[v].guid \in spoiled'
    BY DEF Posted, HasPosted
  <2>1. pc[v] \in Posting /\ pc'[v] # "idle" /\ pc[v] # "idle"
    BY DEF Advances, Returns, HasPosted, Posting
  <2>2. /\ job'[v].msg = job[v].msg /\ job'[v].guid = job[v].guid
        /\ job[v].guid # None
    BY <2>1, WorkerAssumption DEF Advances, Returns, Typed, TypeOK, Job
  <2>3. job[v].msg.app \in Apps
    BY <2>1, PostedApps
  <2>4. CASE pc[v] \in HasPosted
    <3>1. \/ sources[job[v].msg.app].state = "deleted"
          \/ sources[job[v].msg.app].superkey.guid = job[v].guid
          \/ job[v].guid \in spoiled
      BY <2>4 DEF Posted, HasPosted
    <3>2. sources[job[v].msg.app].superkey.guid = job[v].guid =>
            \/ sources'[job[v].msg.app].superkey.guid = job[v].guid
            \/ job[v].guid \in spoiled'
      BY <2>2, <2>3 DEF Records, RecordsKept
    <3> QED BY <1>2, <2>2, <2>3, <3>1, <3>2 DEF StatesKept
  <2>5. CASE pc[v] \notin HasPosted
    BY <2>1, <2>2, <2>5 DEF Advances, Returns, HasPosted
  <2> QED BY <2>4, <2>5
<1>12. LeaksAreReported'
  <2> SUFFICES ASSUME NEW kind \in Kinds, NEW h \in Guids, <<kind, h>> \in aws,
                      h \notin spoiled'
               PROVE  \/ Held(h)' \/ Recorded(kind, h)' \/ Requested(kind, h)'
                      \/ h \in counted'["creation_failed"]
                      \/ h \in counted'["deletion_failed"]
    BY DEF LeaksAreReported
  <2>1. h \notin spoiled /\ h # None
    BY <1>2, WorkerAssumption
  <2>2. Recorded(kind, h) => Recorded(kind, h)'
    <3> SUFFICES ASSUME NEW a \in Apps, sources[a].superkey.guid = h,
                        kind \in sources[a].superkey.steps
                 PROVE  /\ sources'[a].superkey.guid = h
                        /\ kind \in sources'[a].superkey.steps
      BY DEF Recorded
    <3>1. pc[w] \in Creating /\ g = h => kind \in job[w].done
      BY <1>1, <2>1 DEF Accounted
    <3> QED BY <2>1, <3>1 DEF Records, RecordsKept
  <2>3. Requested(kind, h) => Requested(kind, h)'
    BY DEF Requested, RequestsKept
  <2>4. /\ counted["creation_failed"] \subseteq counted'["creation_failed"]
        /\ counted["deletion_failed"] \subseteq counted'["deletion_failed"]
    BY DEF Advances, Returns, Counters
  <2>5. CASE ~Held(h)
    BY <2>1, <2>2, <2>3, <2>4, <2>5 DEF LeaksAreReported
  <2>6. (\E v \in Workers \ {w} : pc[v] # "idle" /\ job[v].guid = h) =>
          Held(h)'
    BY DEF Held
  <2>7. CASE g = h
    <3>1. CASE Advances(w)
      BY <2>7, <3>1 DEF Advances, Held
    <3>2. CASE Returns(w)
      <4>1. PICK counter \in Counters :
              /\ \A c \in Counters :
                   counted'[c] = IF c = counter THEN counted[c] \union {g}
                                 ELSE counted[c]
              /\ counter = "creation_ok" => pc[w] = "check"
              /\ counter = "deletion_ok" =>
                   /\ pc[w] = "teardown_destroy"
                   /\ job[w].left = {} /\ ~job[w].failed
        BY <3>2 DEF Returns
      <4>2. CASE counter \in {"creation_failed", "deletion_failed"}
        BY <2>7, <4>1, <4>2 DEF Counters
      <4>3. CASE counter = "creation_ok"
        <5>1. pc[w] = "check" /\ job[w].msg.app \in Apps
          BY <4>1, <4>3, PostedApps DEF Posting
        <5>2. CASE sources[job[w].msg.app].state = "deleted"
          <6>1. Overtaken(w, kind)
            BY <2>1, <2>7, <5>1, <5>2 DEF Overtaken
          <6>2. Entrusted(w, kind)
            BY <6>1, RemovalRequestedIs
          <6> QED BY <2>3, <2>4, <2>6, <2>7, <6>2 DEF Entrusted
        <5>3. CASE sources[job[w].msg.app].state # "deleted"
          <6>1. sources[job[w].msg.app].superkey.guid = h
            BY <2>1, <2>7, <5>1, <5>3 DEF Posted
          <6>2. Recorded(kind, h)
            BY <2>1, <5>1, <6>1 DEF Accounted, Recorded
          <6> QED BY <2>2, <6>2
        <5> QED BY <5>2, <5>3
      <4>4. CASE counter = "deletion_ok"
        BY <1>1, <2>1, <2>7, <4>1, <4>4 DEF Accounted, TearingDown
      <4> QED BY <4>1, <4>2, <4>3, <4>4 DEF Counters
    <3> QED BY <3>1, <3>2
  <2> QED BY <2>5, <2>6, <2>7 DEF Held
<1>13. CleanTearDown'
  <2> SUFFICES ASSUME NEW kind \in Kinds, NEW h \in Guids, <<kind, h>> \in aws,
                      h \in counted'["creation_failed"] \union
                              counted'["deletion_ok"],
                      h \notin spoiled'
               PROVE  h \in stuck
    BY DEF CleanTearDown
  <2>1. h \notin spoiled
    BY <1>2
  <2>2. CASE h \in counted["creation_failed"] \union counted["deletion_ok"]
    BY <2>1, <2>2 DEF CleanTearDown
  <2>3. CASE h \notin counted["creation_failed"] \union counted["deletion_ok"]
    <3>1. /\ g = h
          /\ \/ pc[w] \in Marking
             \/ pc[w] = "teardown_sources" /\ job[w].left = {}
             \/ /\ pc[w] = "teardown_destroy"
                /\ job[w].left = {} /\ ~job[w].failed
      BY <2>3 DEF Advances, Returns, Counters
    <3> QED BY <1>1, <2>1, <3>1
            DEF Accounted, FailedMeansStuck, TearingDown
  <2> QED BY <2>2, <2>3
<1>14. CreatesOnce'
  <2>1. \A v \in Workers : pc'[v] \in Creating =>
          pc[v] \in Creating /\ job'[v].guid = job[v].guid
    BY DEF Advances, Returns, Creating, Forging, Posting, Marking
  <2>2. counted'["creation_ok"] = counted["creation_ok"]
          \/ /\ pc[w] \in Creating /\ pc'[w] \notin Creating
             /\ counted'["creation_ok"] = counted["creation_ok"] \union {g}
    BY DEF Advances, Returns, Counters, Creating, Forging, Posting, Marking
  <2> QED BY <2>1, <2>2 DEF CreatesOnce
<1>15. RemovalRequested'
  <2> SUFFICES ASSUME NEW v \in Workers, NEW kind \in Kinds,
                      Overtaken(v, kind)'
               PROVE  Entrusted(v, kind)'
    BY RemovalRequestedIs
  <2> DEFINE h == job[v].guid
  <2>1. v # w /\ Overtaken(v, kind) /\ job'[v] = job[v] /\ pc[v] \in Posting
    <3>1. v # w
      BY DEF Overtaken, Advances, Returns
    <3>2. pc[v] = "check" /\ pc[v] \in Posting /\ job'[v] = job[v]
      BY <3>1 DEF Overtaken, Posting
    <3> QED BY <1>2, <3>1, <3>2, PostedApps DEF Overtaken, StatesKept
  <2>2. h \in Guids /\ h \notin spoiled /\ <<kind, h>> \in aws
    BY <2>1, AppOfRequest DEF Overtaken, Creating
  <2>3. Entrusted(v, kind)
    BY <2>1, RemovalRequestedIs
  <2>4. /\ counted["creation_failed"] \subseteq counted'["creation_failed"]
        /\ counted["deletion_failed"] \subseteq counted'["deletion_failed"]
    BY DEF Advances, Returns, Counters
  <2>5. Requested(kind, h) => Requested(kind, h)'
    BY <2>1 DEF Requested, RequestsKept
  <2>6. CASE g # h \/ Advances(w)
    <3>1. \A u \in Workers : pc[u] # "idle" /\ job[u].guid = h =>
            pc'[u] # "idle" /\ job'[u].guid = h
      BY <2>6 DEF Advances
    <3> QED BY <2>1, <2>3, <2>4, <2>5, <3>1 DEF Entrusted
  <2>7. CASE g = h /\ Returns(w)
    <3>1. PICK counter \in Counters :
            /\ counted'[counter] = counted[counter] \union {g}
            /\ counter = "creation_ok" => pc[w] = "check"
            /\ counter = "deletion_ok" =>
                 /\ pc[w] = "teardown_destroy"
                 /\ job[w].left = {} /\ ~job[w].failed
      BY <2>7 DEF Returns
    <3>2. counter # "creation_ok"
      BY <2>1, <2>7, <3>1 DEF CreatesOnce, Creating, Posting
    <3>3. counter # "deletion_ok"
      BY <1>1, <2>2, <2>7, <3>1 DEF Accounted, TearingDown
    <3> QED BY <2>1, <2>7, <3>1, <3>2, <3>3 DEF Entrusted, Counters
  <2> QED BY <2>6, <2>7
<1> QED BY <1>7, <1>8, <1>9, <1>10, <1>11, <1>12, <1>13, <1>14, <1>15

-----------------------------------------------------------------------------
(***************************************************************************)
(* Which actions are such steps.                                           *)
(***************************************************************************)

LEMMA SameRequests ==
  ASSUME UNCHANGED <<queue, uncommitted>>
  PROVE  RequestsKept
  BY DEF RequestsKept, Teardowns

LEMMA RequestApplicationSafe ==
  ASSUME Typed, Typed', Safe, NEW a \in Apps, RequestApplication(a)
  PROVE  Safe'
<1>1. RequestsKept
  BY TeardownsAre, TeardownsWillBe DEF RequestApplication, RequestsKept
<1>2. StatesKept /\ RecordsKept
  BY DEF RequestApplication, StatesKept, RecordsKept, Typed, TypeOK, Application
<1> QED BY <1>1, <1>2, QuietStep DEF RequestApplication, ReplicasKept

LEMMA CommitSafe ==
  ASSUME Typed, Typed', Safe, NEW w \in Workers, Commit(w) \/ Rebalance(w)
  PROVE  Safe'
<1>1. RequestsKept
  BY TeardownsAre, TeardownsWillBe
  DEF Commit, Rebalance, RequestsKept, Typed, TypeOK
<1> QED
  BY <1>1, QuietStep
  DEF Commit, Rebalance, ReplicasKept, StatesKept, RecordsKept

LEMMA ForgingMoves ==
  ASSUME Typed, NEW w \in Workers,
         \/ GetProvider(w) \/ RejectStep(w)
         \/ AttachBucketPolicy(w) \/ FinishForging(w)
  PROVE  HandlerStep(w)
<1> USE DEF Typed, TypeOK, Locations, Forging, Posting, Marking, TearingDown,
            Creating, HasPosted
<1>1. pc[w] \in Forging /\ job[w] \in Job
  BY DEF GetProvider, RejectStep, AtStep, AttachBucketPolicy, FinishForging
<1>2. /\ RequestsKept /\ StatesKept /\ RecordsKept
      /\ UNCHANGED <<aws, used, spoiled, stuck>>
  BY SameRequests
  DEF GetProvider, RejectStep, AttachBucketPolicy, FinishForging, StatesKept,
      RecordsKept
<1>3. ReplicasKept({w}) /\ Advances(w)
  <2>1. ASSUME GetProvider(w) PROVE ReplicasKept({w}) /\ Advances(w)
    BY <1>1, <2>1 DEF GetProvider, Goto, ReplicasKept, Advances, Job
  <2>2. ASSUME RejectStep(w) PROVE ReplicasKept({w}) /\ Advances(w)
    BY <1>1, <2>2 DEF RejectStep, GiveUp, Goto, ReplicasKept, Advances, Job
  <2>3. ASSUME AttachBucketPolicy(w) PROVE ReplicasKept({w}) /\ Advances(w)
    BY <1>1, <2>3
    DEF AttachBucketPolicy, GiveUp, Goto, ReplicasKept, Advances, Job
  <2>4. ASSUME FinishForging(w) PROVE ReplicasKept({w}) /\ Advances(w)
    BY <1>1, <2>4 DEF FinishForging, Goto, ReplicasKept, Advances
  <2> QED BY <2>1, <2>2, <2>3, <2>4
<1> QED BY <1>1, <1>2, <1>3 DEF HandlerStep, Records

LEMMA ProceedMoves ==
  ASSUME Typed, NEW w \in Workers, pc[w] \in Posting,
         NEW reply, NEW location \in HasPosted, Proceed(w, reply, location),
         reply # "ok" \/ pc[w] \in HasPosted
           \/ sources'[job[w].msg.app].superkey.guid = job[w].guid,
         reply = "ok" /\ location = "check" =>
           sources'[job[w].msg.app].state = "live"
  PROVE  ReplicasKept({w}) /\ Advances(w)
<1>1. job[w] \in Job /\ pc[w] \in Creating
  BY DEF Typed, TypeOK, Posting, Creating
<1> QED
  BY <1>1
  DEF Proceed, GiveUp, Goto, ReplicasKept, Advances, Job, Typed, TypeOK,
      Locations, Forging, Posting, Marking, TearingDown, Creating, HasPosted

LEMMA FinishReturns ==
  ASSUME Typed, NEW w \in Workers, NEW counter \in Counters, Finish(w, counter),
         counter = "creation_ok" => pc[w] = "check",
         counter = "creation_failed" =>
           \/ pc[w] \in Marking
           \/ pc[w] = "teardown_sources" /\ job[w].left = {},
         counter = "deletion_ok" =>
           /\ pc[w] = "teardown_destroy"
           /\ job[w].left = {} /\ ~job[w].failed
  PROVE  ReplicasKept({w}) /\ Returns(w)
<1>1. /\ pc'[w] = "idle"
      /\ \A c \in Counters :
           counted'[c] = IF c = counter THEN counted[c] \union {job[w].guid}
                         ELSE counted[c]
      /\ ReplicasKept({w})
  BY DEF Finish, Goto, ReplicasKept, Typed, TypeOK
<1> QED BY <1>1 DEF Returns

LEMMA GiveUpMoves ==
  ASSUME Typed, NEW w \in Workers, pc[w] \in Posting,
         GiveUp(w, "teardown_sources")
  PROVE  ReplicasKept({w}) /\ Advances(w)
<1>1. job[w] \in Job /\ pc[w] \in Creating
  BY DEF Typed, TypeOK, Posting, Creating
<1> QED
  BY <1>1
  DEF GiveUp, Goto, ReplicasKept, Advances, Job, Typed, TypeOK,
      Locations, Forging, Posting, Marking, TearingDown, Creating, HasPosted

LEMMA PostMoves ==
  ASSUME Typed, NEW w \in Workers,
         \/ StoreSuperKeyData(w) \/ CreateAuthentication(w)
         \/ CreateApplicationAuthentication(w) \/ CheckAvailability(w)
  PROVE  HandlerStep(w)
<1> DEFINE a == job[w].msg.app
           g == job[w].guid
<1>1. pc[w] \in Posting /\ pc[w] \in Creating \ Forging
  BY DEF StoreSuperKeyData, CreateAuthentication, CheckAvailability,
         CreateApplicationAuthentication, Creating, Posting, Forging
<1>2. /\ pc[w] # "idle" /\ job[w] \in Job /\ g \in Guids /\ a \in Apps
      /\ sources \in [Apps -> Application] /\ sources[a] \in Application
  BY <1>1, AppOfRequest DEF Typed, TypeOK
<1>3. RequestsKept /\ UNCHANGED <<aws, used, stuck>>
  BY SameRequests
  DEF StoreSuperKeyData, CreateAuthentication, CheckAvailability,
      CreateApplicationAuthentication
<1>4. ASSUME StoreSuperKeyData(w) PROVE HandlerStep(w)
  <2> DEFINE record == [guid |-> g, steps |-> job[w].done]
  <2>1. PICK reply \in Served(a) :
          /\ IF reply = "error"
             THEN UNCHANGED <<sources, spoiled>>
             ELSE WriteSuperkey(a, record)
          /\ Proceed(w, reply, "create_auth")
    BY <1>4 DEF StoreSuperKeyData
  <2>2. CASE reply = "error"
    <3>1. StatesKept /\ RecordsKept /\ UNCHANGED spoiled
      BY <2>1, <2>2 DEF StatesKept, RecordsKept
    <3>2. ReplicasKept({w}) /\ Advances(w)
      BY <1>1, <2>1, <2>2, ProceedMoves DEF HasPosted
    <3> QED BY <1>2, <1>3, <3>1, <3>2 DEF HandlerStep, Records
  <2>3. CASE reply # "error"
    <3>1. /\ \A b \in Apps \ {a} : sources'[b] = sources[b]
          /\ sources'[a].superkey = record
          /\ sources'[a].state = sources[a].state
          /\ spoiled' = spoiled \union
               ({sources[a].superkey.guid} \ {None, record.guid})
      BY <1>2, <2>1, <2>3 DEF WriteSuperkey, Application
    <3>2. StatesKept
      BY <3>1 DEF StatesKept
    <3>3. Records(w)
      BY <1>1, <1>2, <3>1 DEF Records
    <3>4. ReplicasKept({w}) /\ Advances(w)
      BY <1>1, <2>1, <3>1, ProceedMoves DEF HasPosted
    <3> QED BY <1>2, <1>3, <3>2, <3>3, <3>4 DEF HandlerStep
  <2> QED BY <2>2, <2>3
<1>5. ASSUME CreateAuthentication(w) \/ CreateApplicationAuthentication(w)
      PROVE  HandlerStep(w)
  <2>1. StatesKept /\ RecordsKept /\ UNCHANGED spoiled
    <3>1. \/ UNCHANGED sources
          \/ sources' = [sources EXCEPT ![a].auths = @ \union {g}]
          \/ sources' = [sources EXCEPT ![a].linked = @ \union {g}]
      BY <1>5 DEF CreateAuthentication, CreateApplicationAuthentication
    <3>2. \A b \in Apps : /\ sources'[b].superkey = sources[b].superkey
                          /\ sources'[b].state = sources[b].state
      BY <1>2, <3>1 DEF Application
    <3> QED
      BY <1>5, <3>2
      DEF CreateAuthentication, CreateApplicationAuthentication, StatesKept,
          RecordsKept
  <2>2. PICK reply \in Served(a), location \in {"link_auth", "check"} :
          Proceed(w, reply, location) /\ pc[w] \in HasPosted
    BY <1>5
    DEF CreateAuthentication, CreateApplicationAuthentication, HasPosted
  <2>3. reply = "ok" => sources'[a].state = "live"
    BY <1>2, <2>1 DEF Served, StatesKept
  <2>4. ReplicasKept({w}) /\ Advances(w)
    BY <1>1, <2>2, <2>3, ProceedMoves DEF HasPosted
  <2> QED BY <1>2, <1>3, <2>1, <2>4 DEF HandlerStep, Records
<1>6. ASSUME CheckAvailability(w) PROVE HandlerStep(w)
  <2>1. StatesKept /\ RecordsKept /\ UNCHANGED spoiled
    BY <1>6 DEF CheckAvailability, StatesKept, RecordsKept
  <2>2. PICK reply \in ServedForSource(a) :
          IF reply = "ok" THEN Finish(w, "creation_ok")
          ELSE GiveUp(w, "teardown_sources")
    BY <1>6 DEF CheckAvailability
  <2>3. CASE reply = "ok"
    <3>1. pc[w] = "check"
      BY <1>6 DEF CheckAvailability
    <3>2. ReplicasKept({w}) /\ Returns(w)
      BY <2>2, <2>3, <3>1, FinishReturns DEF Counters
    <3> QED BY <1>2, <1>3, <2>1, <3>2 DEF HandlerStep, Records
  <2>4. CASE reply # "ok"
    BY <1>1, <1>2, <1>3, <2>1, <2>2, <2>4, GiveUpMoves
    DEF HandlerStep, Records
  <2> QED BY <2>3, <2>4
<1> QED BY <1>4, <1>5, <1>6

LEMMA TearDownMoves ==
  ASSUME Typed, NEW w \in Workers, GetDestroyProvider(w) \/ FinishTearDown(w)
  PROVE  HandlerStep(w)
<1>1. /\ pc[w] \in TearingDown \union {"destroy_auth"} /\ pc[w] # "idle"
      /\ job[w] \in Job
      /\ RequestsKept /\ StatesKept /\ RecordsKept
      /\ UNCHANGED <<aws, used, spoiled, stuck>>
  BY SameRequests
  DEF GetDestroyProvider, FinishTearDown, TearingDown, StatesKept, RecordsKept,
      Typed, TypeOK
<1>2. ReplicasKept({w}) /\ (Advances(w) \/ Returns(w))
  <2>1. ASSUME NEW location \in {"teardown_destroy", "mark_app"},
               Goto(w, location), UNCHANGED <<job, counted>>,
               location = "teardown_destroy" => pc[w] = "destroy_auth",
               location = "mark_app" =>
                 pc[w] = "teardown_forge" /\ job[w].left = {}
        PROVE  ReplicasKept({w}) /\ Advances(w)
    BY <2>1
    DEF Goto, ReplicasKept, Advances, Typed, TypeOK, Locations, Forging,
        Posting, Marking, TearingDown, Creating, HasPosted
  <2>2. ASSUME GetDestroyProvider(w)
        PROVE  ReplicasKept({w}) /\ (Advances(w) \/ Returns(w))
    <3>1. pc[w] = "destroy_auth"
      BY <2>2 DEF GetDestroyProvider
    <3>2. CASE Finish(w, "deletion_failed")
      BY <3>1, <3>2, FinishReturns DEF Counters
    <3>3. CASE Goto(w, "teardown_destroy") /\ UNCHANGED <<job, counted>>
      BY <2>1, <3>1, <3>3
    <3> QED BY <2>2, <3>2, <3>3 DEF GetDestroyProvider
  <2>3. ASSUME FinishTearDown(w)
        PROVE  ReplicasKept({w}) /\ (Advances(w) \/ Returns(w))
    <3>1. job[w].left = {} /\ pc[w] \in TearingDown
      BY <2>3 DEF FinishTearDown
    <3>2. CASE pc[w] = "teardown_forge"
      BY <2>1, <2>3, <3>1, <3>2 DEF FinishTearDown
    <3>3. CASE pc[w] = "teardown_sources"
      <4>1. Finish(w, "creation_failed")
        BY <2>3, <3>3 DEF FinishTearDown
      <4> QED BY <3>1, <3>3, <4>1, FinishReturns DEF Counters
    <3>4. CASE pc[w] = "teardown_destroy"
      <4>1. Finish(w, IF job[w].failed THEN "deletion_failed"
                      ELSE "deletion_ok")
        BY <2>3, <3>4 DEF FinishTearDown
      <4>2. CASE job[w].failed
        BY <4>1, <4>2, FinishReturns DEF Counters
      <4>3. CASE ~job[w].failed
        BY <3>1, <3>4, <4>1, <4>3, FinishReturns DEF Counters
      <4> QED BY <4>2, <4>3
    <3> QED BY <3>1, <3>2, <3>3, <3>4 DEF TearingDown
  <2> QED BY <2>2, <2>3
<1> QED BY <1>1, <1>2 DEF HandlerStep, Records

LEMMA MarkMoves ==
  ASSUME Typed, NEW w \in Workers, MarkApplication(w) \/ MarkSource(w)
  PROVE  HandlerStep(w)
<1> DEFINE a == job[w].msg.app
           g == job[w].guid
<1>1. /\ pc[w] \in Marking /\ pc[w] \in Creating \ Forging
      /\ RequestsKept /\ UNCHANGED <<aws, used, stuck>>
  BY SameRequests
  DEF MarkApplication, MarkSource, Creating, Marking, Forging
<1>2. /\ pc[w] # "idle" /\ job[w] \in Job /\ g \in Guids /\ a \in Apps
      /\ sources \in [Apps -> Application] /\ sources[a] \in Application
  BY <1>1, AppOfRequest DEF Typed, TypeOK
<1>3. ASSUME Finish(w, "creation_failed")
      PROVE  ReplicasKept({w}) /\ Returns(w)
  BY <1>1, <1>3, FinishReturns DEF Counters
<1>4. ASSUME MarkApplication(w) PROVE HandlerStep(w)
  <2> DEFINE old == sources[a].superkey
             record(cleared) == CASE job[w].next > 0 -> [guid |-> g,
                                                         steps |-> job[w].done]
                                  [] cleared -> NoSuperkey
                                  [] OTHER -> old
  <2>1. PICK reply \in Served(a), cleared \in BOOLEAN :
          /\ IF reply = "error"
             THEN UNCHANGED <<sources, spoiled>>
             ELSE /\ sources' = [sources EXCEPT
                       ![a].superkey = record(cleared),
                       ![a].unavailable = @ \union {"application"}]
                  /\ spoiled' = spoiled \union
                       ({old.guid} \ {None, record(cleared).guid})
          /\ IF reply = "ok"
             THEN Goto(w, "mark_source") /\ UNCHANGED <<job, counted>>
             ELSE Finish(w, "creation_failed")
    BY <1>4 DEF MarkApplication
  <2>2. ReplicasKept({w}) /\ (Advances(w) \/ Returns(w))
    <3>1. ASSUME Goto(w, "mark_source"), UNCHANGED <<job, counted>>
          PROVE  ReplicasKept({w}) /\ Advances(w)
      BY <1>1, <3>1
      DEF Goto, ReplicasKept, Advances, Typed, TypeOK, Locations, Forging,
          Posting, Marking, TearingDown, Creating, HasPosted
    <3> QED BY <1>3, <2>1, <3>1
  <2>3. StatesKept /\ Records(w)
    <3>1. CASE reply = "error"
      BY <2>1, <3>1 DEF StatesKept, Records, RecordsKept
    <3>2. CASE reply # "error"
      <4> DEFINE kept == record(cleared)
      <4>1. \/ kept.guid = None
            \/ kept = old
            \/ kept.guid = g /\ kept.steps = job[w].done
        BY DEF NoSuperkey
      <4>2. /\ sources' = [sources EXCEPT
                 ![a].superkey = kept,
                 ![a].unavailable = @ \union {"application"}]
            /\ spoiled' = spoiled \union ({old.guid} \ {None, kept.guid})
        BY <2>1, <3>2
      <4> HIDE DEF kept
      <4>3. /\ \A b \in Apps \ {a} : sources'[b] = sources[b]
            /\ sources'[a].superkey = kept
            /\ sources'[a].state = sources[a].state
        BY <1>2, <4>2 DEF Application
      <4>4. StatesKept
        BY <4>3 DEF StatesKept
      <4> QED BY <1>1, <1>2, <4>1, <4>2, <4>3, <4>4 DEF Records
    <3> QED BY <3>1, <3>2
  <2> QED BY <1>1, <1>2, <2>2, <2>3 DEF HandlerStep
<1>5. ASSUME MarkSource(w) PROVE HandlerStep(w)
  <2>1. \/ UNCHANGED sources
        \/ sources' = [sources EXCEPT ![a].unavailable = @ \union {"source"}]
    BY <1>5 DEF MarkSource
  <2>2. \A b \in Apps : /\ sources'[b].superkey = sources[b].superkey
                        /\ sources'[b].state = sources[b].state
    BY <1>2, <2>1 DEF Application
  <2>3. StatesKept /\ Records(w)
    BY <1>5, <2>2 DEF MarkSource, StatesKept, Records, RecordsKept
  <2> QED BY <1>1, <1>2, <1>3, <1>5, <2>3 DEF MarkSource, HandlerStep
<1> QED BY <1>4, <1>5

-----------------------------------------------------------------------------
(***************************************************************************)
(* The steps that change the account, take requests, or lose a handler.    *)
(***************************************************************************)

LEMMA ForgeStepSafe ==
  ASSUME Typed, Typed', Safe, NEW w \in Workers, ForgeStep(w)
  PROVE  Safe'
<1> USE DEF Safe
<1> DEFINE g == job[w].guid
           name == Resource(CurrentStep(w))
<1>1. /\ pc[w] = "forge" /\ pc[w] # "idle" /\ pc[w] \in Creating
      /\ job[w] \in Job /\ g \in Guids /\ name \in Kinds
      /\ pc[w] \in Forging
  BY StepForged DEF ForgeStep, Job, Forging
<1>2. PICK reply \in Outcomes :
        /\ aws' = AfterCreate(aws, name, g, reply)
        /\ SpoilForging(g, job[w].done, name, reply)
        /\ IF reply = "ok"
           THEN /\ job'[w].done = MarkCompleted(job[w].done, name)
                /\ pc'[w] \in {"bucket_policy", "forge"}
           ELSE /\ pc'[w] = "teardown_forge"
                /\ job'[w].done = job[w].done
                /\ job'[w].left = job[w].done
        /\ job'[w].guid = g /\ job'[w].msg = job[w].msg
        /\ job'[w].failed = job[w].failed
        /\ UNCHANGED counted
        /\ \A v \in Workers \ {w} : pc'[v] = pc[v] /\ job'[v] = job[v]
  BY <1>1, AwsOutcomesAssumption
  DEF ForgeStep, Replies, Outcomes, GiveUp, Goto, Job, Typed, TypeOK
<1>3. UNCHANGED <<sources, used, stuck, queue>> /\ Teardowns' = Teardowns
  BY DEF ForgeStep, Teardowns
<1>4. /\ spoiled \subseteq spoiled'
      /\ reply = "lost" => g \in spoiled'
      /\ reply = "ok" /\ Overwrites(job[w].done, name) => g \in spoiled'
      /\ name \in MarkCompleted(job[w].done, name)
  BY <1>2 DEF SpoilForging, MarkCompleted
<1>5. \A kind, h : <<kind, h>> \in aws' =>
        \/ <<kind, h>> \in aws
        \/ kind = name /\ h = g /\ reply # "refused"
  BY <1>2 DEF AfterCreate
<1>6. \A v \in Workers : (pc'[v] # "idle" <=> pc[v] # "idle")
                         /\ (pc[v] # "idle" => job'[v].guid = job[v].guid)
  BY <1>1, <1>2
<1>7. /\ g \in used
      /\ \A v \in Workers : pc[v] # "idle" /\ job[v].guid = g => v = w
      /\ \A m \in Teardowns : m.guid # g
      /\ \A a \in Apps : sources[a].superkey.guid # g
      /\ \A c \in Counters : g \notin counted[c]
  BY <1>1 DEF KnownAreUsed, ForgesAlone
<1>8. KnownAreUsed'
  BY <1>2, <1>3, <1>5, <1>6, <1>7 DEF KnownAreUsed
<1>9. ForgesAlone'
  <2>1. \A v \in Workers : pc'[v] \in Forging => pc[v] \in Forging
    BY <1>1, <1>2
  <2>2. \A v \in Workers : pc[v] \in Forging => pc[v] # "idle"
    BY DEF Forging
  <2> QED BY <1>2, <1>3, <1>6, <2>1, <2>2 DEF ForgesAlone
<1>10. Accounted'
  <2> SUFFICES ASSUME NEW h \in Guids \ spoiled', NEW kind \in Kinds,
                      <<kind, h>> \in aws'
               PROVE  /\ \A v \in Workers :
                           pc'[v] # "idle" /\ job'[v].guid = h =>
                             /\ pc'[v] \in Creating => kind \in job'[v].done
                             /\ pc'[v] = "destroy_auth" => kind \in job'[v].left
                             /\ pc'[v] \in TearingDown =>
                                  kind \in job'[v].left \/ job'[v].failed
                             /\ pc'[v] \in Marking => h \in stuck'
                      /\ \A m \in Teardowns' : m.guid = h => kind \in m.completed
                      /\ \A a \in Apps :
                           sources'[a].superkey.guid = h =>
                             kind \in sources'[a].superkey.steps
    BY DEF Accounted
  <2>1. CASE h = g
    <3>1. kind \in job[w].done \/ (kind = name /\ reply = "ok")
      BY <1>1, <1>2, <1>4, <1>5, <2>1 DEF Accounted, Outcomes
    <3>2. /\ pc'[w] \in {"bucket_policy", "forge"} => kind \in job'[w].done
          /\ pc'[w] = "teardown_forge" =>
               kind \in job'[w].done /\ kind \in job'[w].left
          /\ pc'[w] \in {"bucket_policy", "forge", "teardown_forge"}
      BY <1>2, <1>4, <2>1, <3>1 DEF Overwrites
    <3>3. pc'[w] \notin Marking \union {"destroy_auth"}
      BY <3>2 DEF Marking
    <3>4. pc'[w] \in TearingDown => pc'[w] = "teardown_forge"
      BY <3>2 DEF TearingDown
    <3> QED BY <1>3, <1>6, <1>7, <2>1, <3>2, <3>3, <3>4
  <2>2. CASE h # g
    <3>1. <<kind, h>> \in aws /\ h \notin spoiled
      BY <1>4, <1>5, <2>2
    <3>2. \A v \in Workers : pc'[v] # "idle" /\ job'[v].guid = h =>
            v # w /\ pc'[v] = pc[v] /\ job'[v] = job[v]
      BY <1>2, <2>2
    <3> QED BY <1>3, <3>1, <3>2 DEF Accounted
  <2> QED BY <2>1, <2>2
<1>11. FailedMeansStuck'
  BY <1>1, <1>2, <1>3, <1>6 DEF FailedMeansStuck
<1>12. Posted'
  <2>1. pc'[w] \notin HasPosted
    BY <1>2 DEF HasPosted
  <2> QED BY <1>2, <1>3, <1>4, <2>1 DEF Posted, HasPosted
<1>13. LeaksAreReported'
  <2>1. \A h \in Guids : Held(h) => Held(h)'
    BY <1>6 DEF Held
  <2>2. Held(g)
    BY <1>1 DEF Held
  <2> QED BY <1>2, <1>3, <1>4, <1>5, <2>1, <2>2
          DEF LeaksAreReported, Recorded, Requested
<1>14. CleanTearDown'
  BY <1>2, <1>3, <1>4, <1>5, <1>7 DEF CleanTearDown, Counters
<1>15. CreatesOnce'
  <2>1. \A v \in Workers : pc'[v] \in Creating => pc[v] \in Creating
    BY <1>1, <1>2
  <2>2. \A v \in Workers : pc[v] \in Creating => pc[v] # "idle"
    BY DEF Creating, Forging, Posting, Marking
  <2> QED BY <1>2, <1>6, <2>1, <2>2 DEF CreatesOnce
<1>16. RemovalRequested'
  <2> SUFFICES ASSUME NEW v \in Workers, NEW kind \in Kinds,
                      Overtaken(v, kind)'
               PROVE  Entrusted(v, kind)'
    BY RemovalRequestedIs
  <2>1. v # w /\ pc[v] = "check" /\ pc'[v] = pc[v] /\ job'[v] = job[v]
    BY <1>2 DEF Overtaken
  <2>2. job[v].guid # g
    BY <1>7, <2>1
  <2>3. Overtaken(v, kind)
    BY <1>3, <1>4, <1>5, <2>1, <2>2 DEF Overtaken
  <2>4. Entrusted(v, kind)
    BY <2>3, RemovalRequestedIs
  <2> QED BY <1>2, <1>3, <1>6, <2>1, <2>4 DEF Entrusted, Requested
<1> QED BY <1>8, <1>9, <1>10, <1>11, <1>12, <1>13, <1>14, <1>15, <1>16

LEMMA TearDownStepSafe ==
  ASSUME Typed, Typed', Safe, NEW w \in Workers, TearDownStep(w)
  PROVE  Safe'
<1> USE DEF Safe
<1> DEFINE g == job[w].guid
<1>1. /\ pc[w] \in TearingDown /\ pc[w] # "idle" /\ job[w] \in Job /\ g \in Guids
  BY DEF TearDownStep, TearingDown, Typed, TypeOK, Job
<1>2. PICK kind \in Kinds, reply \in Outcomes :
        /\ aws' = AfterDelete(aws, kind, g, reply)
        /\ job' = [job EXCEPT ![w].left = @ \ {kind},
                              ![w].failed = @ \/ reply # "ok"]
        /\ stuck' = IF reply = "ok" THEN stuck ELSE stuck \union {g}
  BY AwsOutcomesAssumption DEF TearDownStep, Replies, Outcomes
<1>3. /\ job'[w].guid = g /\ job'[w].msg = job[w].msg
      /\ job'[w].done = job[w].done
      /\ job'[w].left = job[w].left \ {kind}
      /\ \A v \in Workers \ {w} : job'[v] = job[v]
  BY <1>1, <1>2 DEF Job, Typed, TypeOK
<1>4. job'[w].failed <=> (job[w].failed \/ reply # "ok")
  BY <1>1, <1>2 DEF Job, Typed, TypeOK
<1>5. /\ UNCHANGED <<queue, pc, sources, used, counted, spoiled>>
      /\ Teardowns' = Teardowns
  BY DEF TearDownStep, Teardowns
<1>6. /\ aws' \subseteq aws /\ stuck \subseteq stuck'
      /\ reply = "ok" => <<kind, g>> \notin aws'
      /\ reply # "ok" => g \in stuck'
  BY <1>2 DEF AfterDelete
<1>7. \A v \in Workers : job'[v].guid = job[v].guid
  BY <1>3
<1>8. KnownAreUsed'
  BY <1>5, <1>6, <1>7 DEF KnownAreUsed
<1>9. ForgesAlone'
  BY <1>5, <1>7 DEF ForgesAlone
<1>10. Accounted'
  <2> SUFFICES ASSUME NEW h \in Guids \ spoiled, NEW k \in Kinds,
                      <<k, h>> \in aws',
                      NEW v \in Workers, pc[v] # "idle", job'[v].guid = h
               PROVE  /\ pc[v] \in Creating => k \in job'[v].done
                      /\ pc[v] = "destroy_auth" => k \in job'[v].left
                      /\ pc[v] \in TearingDown =>
                           k \in job'[v].left \/ job'[v].failed
                      /\ pc[v] \in Marking => h \in stuck'
    BY <1>5, <1>6 DEF Accounted
  <2>1. /\ pc[v] \in Creating => k \in job[v].done
        /\ pc[v] = "destroy_auth" => k \in job[v].left
        /\ pc[v] \in TearingDown => k \in job[v].left \/ job[v].failed
        /\ pc[v] \in Marking => h \in stuck
    BY <1>6, <1>7 DEF Accounted
  <2>2. CASE v # w
    BY <1>3, <1>6, <2>1, <2>2
  <2>3. CASE v = w
    <3>1. pc[w] \notin Marking \union {"destroy_auth"}
      BY <1>1 DEF TearingDown, Marking
    <3>2. k = kind => job'[w].failed
      BY <1>3, <1>4, <1>6, <2>3
    <3> QED BY <1>3, <1>4, <2>1, <2>3, <3>1, <3>2
  <2> QED BY <2>2, <2>3
<1>11. FailedMeansStuck'
  BY <1>3, <1>4, <1>5, <1>6 DEF FailedMeansStuck
<1>12. Posted'
  <2>1. pc[w] \notin HasPosted
    BY <1>1 DEF HasPosted, TearingDown
  <2> QED BY <1>3, <1>5, <2>1 DEF Posted, HasPosted
<1>13. LeaksAreReported'
  BY <1>5, <1>6, <1>7 DEF LeaksAreReported, Held, Recorded, Requested
<1>14. CleanTearDown'
  BY <1>5, <1>6 DEF CleanTearDown
<1>15. CreatesOnce'
  BY <1>5, <1>7 DEF CreatesOnce
<1>16. RemovalRequested'
  <2>1. \A v \in Workers, k \in Kinds :
          Overtaken(v, k)' => Overtaken(v, k) /\ pc[v] = "check"
    <3>1. \A v \in Workers : pc[v] = "check" => v # w
      BY <1>1 DEF TearingDown
    <3> QED BY <1>3, <1>5, <1>6, <3>1 DEF Overtaken
  <2>2. \A v \in Workers, k \in Kinds :
          Entrusted(v, k) => Entrusted(v, k)'
    BY <1>5, <1>7 DEF Entrusted, Requested
  <2> QED BY <2>1, <2>2, RemovalRequestedIs
<1> QED BY <1>8, <1>9, <1>10, <1>11, <1>12, <1>13, <1>14, <1>15, <1>16

LEMMA DropSafe ==
  ASSUME Typed, Typed', Safe, NEW w \in Workers, Drop(w)
  PROVE  Safe'
<1> USE DEF Safe
<1>1. PICK m \in queue :
        /\ queue' = queue \ {m}
        /\ uncommitted' = [uncommitted EXCEPT ![w] = @ \union {m}]
        /\ spoiled' = IF m.type = "destroy_application"
                      THEN spoiled \union {m.guid} ELSE spoiled
  BY DEF Drop, Deliver
<1>2. UNCHANGED <<pc, job, aws, sources, used, counted, stuck>>
  BY DEF Drop
<1>3. Teardowns' \subseteq Teardowns /\ spoiled \subseteq spoiled'
  BY <1>1, TeardownsAre, TeardownsWillBe DEF Typed, TypeOK
<1>4. KnownAreUsed'
  BY <1>2, <1>3 DEF KnownAreUsed
<1>5. ForgesAlone'
  BY <1>2, <1>3 DEF ForgesAlone
<1>6. Accounted'
  BY <1>2, <1>3 DEF Accounted
<1>7. FailedMeansStuck' /\ Posted'
  BY <1>2, <1>3 DEF FailedMeansStuck, Posted
<1>8. LeaksAreReported'
  <2>1. \A kind \in Kinds, g \in Guids \ spoiled' :
          Requested(kind, g) => Requested(kind, g)'
    BY <1>1 DEF Requested
  <2> QED BY <1>2, <1>3, <2>1 DEF LeaksAreReported, Held, Recorded
<1>9. CleanTearDown'
  BY <1>2, <1>3 DEF CleanTearDown
<1>10. CreatesOnce'
  BY <1>2 DEF CreatesOnce
<1>11. RemovalRequested'
  <2>1. \A v \in Workers, kind \in Kinds :
          Overtaken(v, kind)' => Overtaken(v, kind) /\ job[v].guid \notin spoiled'
    BY <1>2, <1>3 DEF Overtaken
  <2>2. \A v \in Workers, kind \in Kinds :
          Entrusted(v, kind) /\ job[v].guid \notin spoiled' =>
            Entrusted(v, kind)'
    BY <1>1, <1>2 DEF Entrusted, Requested
  <2> QED BY <2>1, <2>2, RemovalRequestedIs
<1> QED BY <1>4, <1>5, <1>6, <1>7, <1>8, <1>9, <1>10, <1>11

LEMMA ReceiveCreateSafe ==
  ASSUME Typed, Typed', Safe, NEW w \in Workers, ReceiveCreate(w)
  PROVE  Safe'
<1> USE DEF Safe
<1>1. PICK m \in queue, g \in Guids \ used :
        /\ m.type = "create_application"
        /\ queue' = queue \ {m}
        /\ uncommitted' = [uncommitted EXCEPT ![w] = @ \union {m}]
        /\ used' = used \union {g}
        /\ job' = [job EXCEPT ![w] =
             [msg |-> m, guid |-> g, auth |-> m.envelope.headers, next |-> 0,
              done |-> {}, left |-> {}, failed |-> FALSE]]
  BY DEF ReceiveCreate, Deliver
<1>2. /\ pc[w] = "idle"
      /\ pc' = [pc EXCEPT ![w] = "forge_auth"]
      /\ UNCHANGED <<aws, sources, counted, spoiled, stuck>>
  BY DEF ReceiveCreate, Deliver
<1>3. /\ pc'[w] = "forge_auth" /\ job'[w].guid = g /\ job'[w].failed = FALSE
      /\ \A v \in Workers \ {w} : pc'[v] = pc[v] /\ job'[v] = job[v]
  BY <1>1, <1>2 DEF Typed, TypeOK
<1>4. /\ Teardowns' \subseteq Teardowns
      /\ \A r \in queue : r.type = "destroy_application" => r \in queue'
  BY <1>1, TeardownsAre, TeardownsWillBe DEF Typed, TypeOK
<1>5. /\ g # None
      /\ \A v \in Workers : pc[v] # "idle" => job[v].guid # g
      /\ \A r \in Teardowns : r.guid # g
      /\ \A a \in Apps : sources[a].superkey.guid # g
      /\ \A kind \in Kinds : <<kind, g>> \notin aws
      /\ \A c \in Counters : g \notin counted[c]
  BY WorkerAssumption DEF KnownAreUsed
<1>6. KnownAreUsed'
  BY <1>1, <1>2, <1>3, <1>4 DEF KnownAreUsed
<1>7. ForgesAlone'
  BY <1>2, <1>3, <1>4, <1>5 DEF ForgesAlone, Forging
<1>8. Accounted'
  BY <1>2, <1>3, <1>4, <1>5 DEF Accounted
<1>9. FailedMeansStuck'
  BY <1>2, <1>3 DEF FailedMeansStuck
<1>10. Posted'
  BY <1>2, <1>3 DEF Posted
<1>11. LeaksAreReported'
  BY <1>2, <1>3, <1>4 DEF LeaksAreReported, Held, Recorded, Requested
<1>12. CleanTearDown'
  BY <1>2 DEF CleanTearDown
<1>13. CreatesOnce'
  <2>1. \A v \in Workers : pc[v] \in Creating => pc[v] # "idle"
    BY DEF Creating, Forging, Posting, Marking
  <2>2. "creation_ok" \in Counters
    BY DEF Counters
  <2>3. g \notin counted["creation_ok"]
    BY <1>5, <2>2
  <2>4. \A v \in Workers \ {w} :
          pc'[v] \in Creating => pc[v] \in Creating /\ job'[v].guid # g
    BY <1>3, <1>5, <2>1
  <2> QED BY <1>2, <1>3, <2>3, <2>4 DEF CreatesOnce
<1>14. RemovalRequested'
  <2>1. \A v \in Workers, kind \in Kinds :
          Overtaken(v, kind)' =>
            v # w /\ Overtaken(v, kind) /\ job'[v] = job[v]
    BY <1>2, <1>3 DEF Overtaken
  <2>2. \A v \in Workers \ {w}, kind \in Kinds :
          Entrusted(v, kind) => Entrusted(v, kind)'
    BY <1>2, <1>3, <1>4 DEF Entrusted, Requested
  <2> QED BY <2>1, <2>2, RemovalRequestedIs
<1> QED BY <1>6, <1>7, <1>8, <1>9, <1>10, <1>11, <1>12, <1>13, <1>14

LEMMA ReceiveDestroySafe ==
  ASSUME Typed, Typed', Safe, NEW w \in Workers, ReceiveDestroy(w)
  PROVE  Safe'
<1> USE DEF Safe
<1>1. PICK m \in queue :
        /\ m.type = "destroy_application"
        /\ queue' = queue \ {m}
        /\ uncommitted' = [uncommitted EXCEPT ![w] = @ \union {m}]
        /\ job' = [job EXCEPT ![w] =
             [msg |-> m, guid |-> m.guid, auth |-> {}, next |-> 0,
              done |-> m.completed, left |-> m.completed, failed |-> FALSE]]
  BY DEF ReceiveDestroy, Deliver
<1>2. /\ pc[w] = "idle"
      /\ pc' = [pc EXCEPT ![w] = "destroy_auth"]
      /\ UNCHANGED <<aws, sources, used, counted, spoiled, stuck>>
  BY DEF ReceiveDestroy, Deliver
<1>3. /\ pc'[w] = "destroy_auth" /\ job'[w].guid = m.guid
      /\ job'[w].left = m.completed /\ job'[w].failed = FALSE
      /\ \A v \in Workers \ {w} : pc'[v] = pc[v] /\ job'[v] = job[v]
  BY <1>1, <1>2 DEF Typed, TypeOK
<1>4. /\ Teardowns' \subseteq Teardowns /\ m \in Teardowns
      /\ \A r \in queue : r = m \/ r \in queue'
  BY <1>1, TeardownsAre, TeardownsWillBe DEF Typed, TypeOK
<1>5. KnownAreUsed'
  BY <1>2, <1>3, <1>4 DEF KnownAreUsed
<1>6. ForgesAlone'
  BY <1>2, <1>3, <1>4 DEF ForgesAlone, Forging
<1>7. Accounted'
  <2>1. "destroy_auth" \notin Creating \union TearingDown \union Marking
    BY DEF Creating, Forging, Posting, Marking, TearingDown
  <2> QED BY <1>2, <1>3, <1>4, <2>1 DEF Accounted
<1>8. FailedMeansStuck'
  BY <1>2, <1>3 DEF FailedMeansStuck
<1>9. Posted'
  BY <1>2, <1>3 DEF Posted
<1>10. LeaksAreReported'
  <2>1. \A kind \in Kinds, g \in Guids :
          Requested(kind, g) => Requested(kind, g)' \/ Held(g)'
    BY <1>3, <1>4 DEF Requested, Held
  <2>2. \A g \in Guids : Held(g) => Held(g)'
    BY <1>2, <1>3 DEF Held
  <2> QED BY <1>2, <2>1, <2>2 DEF LeaksAreReported, Recorded
<1>11. CleanTearDown'
  BY <1>2 DEF CleanTearDown
<1>12. CreatesOnce'
  <2>1. pc'[w] \notin Creating
    BY <1>3 DEF Creating, Forging, Posting, Marking
  <2> QED BY <1>2, <1>3, <2>1 DEF CreatesOnce
<1>13. RemovalRequested'
  <2>1. \A v \in Workers, kind \in Kinds :
          Overtaken(v, kind)' =>
            v # w /\ Overtaken(v, kind) /\ job'[v] = job[v]
    BY <1>2, <1>3 DEF Overtaken
  <2>2. \A v \in Workers \ {w}, kind \in Kinds :
          Requested(kind, job[v].guid) =>
            \/ Requested(kind, job[v].guid)'
            \/ pc'[w] # "idle" /\ job'[w].guid = job[v].guid
    BY <1>3, <1>4 DEF Requested
  <2>3. \A v \in Workers \ {w}, kind \in Kinds :
          Entrusted(v, kind) => Entrusted(v, kind)'
    BY <1>2, <1>3, <2>2 DEF Entrusted
  <2> QED BY <2>1, <2>3, RemovalRequestedIs
<1> QED BY <1>5, <1>6, <1>7, <1>8, <1>9, <1>10, <1>11, <1>12, <1>13

LEMMA CrashSafe ==
  ASSUME Typed, Typed', Safe, NEW w \in Workers, Crash(w)
  PROVE  Safe'
<1> USE DEF Safe
<1>1. /\ queue' = queue \union uncommitted[w]
      /\ uncommitted' = [uncommitted EXCEPT ![w] = {}]
      /\ UNCHANGED <<aws, sources, used, counted, stuck>>
  BY DEF Crash
<1>2. /\ pc'[w] = "idle"
      /\ \A v \in Workers \ {w} : pc'[v] = pc[v] /\ job'[v] = job[v]
      /\ spoiled \subseteq spoiled'
      /\ pc[w] # "idle" => job[w].guid \in spoiled'
  BY DEF Crash, Typed, TypeOK
<1>3. Teardowns' \subseteq Teardowns
  BY <1>1, TeardownsAre, TeardownsWillBe DEF Typed, TypeOK
<1>4. KnownAreUsed'
  BY <1>1, <1>2, <1>3 DEF KnownAreUsed
<1>5. ForgesAlone'
  BY <1>1, <1>2, <1>3 DEF ForgesAlone, Forging
<1>6. Accounted'
  BY <1>1, <1>2, <1>3 DEF Accounted
<1>7. FailedMeansStuck'
  BY <1>1, <1>2 DEF FailedMeansStuck
<1>8. Posted'
  BY <1>1, <1>2 DEF Posted
<1>9. LeaksAreReported'
  <2>1. \A g \in Guids \ spoiled' : Held(g) => Held(g)'
    BY <1>2 DEF Held
  <2>2. \A kind \in Kinds, g \in Guids :
          Requested(kind, g) => Requested(kind, g)'
    BY <1>1 DEF Requested
  <2> QED BY <1>1, <1>2, <2>1, <2>2 DEF LeaksAreReported, Recorded
<1>10. CleanTearDown'
  BY <1>1, <1>2 DEF CleanTearDown
<1>11. CreatesOnce'
  <2>1. pc'[w] \notin Creating
    BY <1>2 DEF Creating, Forging, Posting, Marking
  <2> QED BY <1>1, <1>2, <2>1 DEF CreatesOnce
<1>12. RemovalRequested'
  <2>1. \A v \in Workers, kind \in Kinds :
          Overtaken(v, kind)' =>
            /\ v # w /\ Overtaken(v, kind) /\ job'[v] = job[v]
            /\ job[v].guid \notin spoiled'
    BY <1>1, <1>2 DEF Overtaken
  <2>2. \A v \in Workers \ {w}, kind \in Kinds :
          Entrusted(v, kind) /\ job[v].guid \notin spoiled' =>
            Entrusted(v, kind)'
    BY <1>1, <1>2 DEF Entrusted, Requested
  <2> QED BY <2>1, <2>2, RemovalRequestedIs
<1> QED BY <1>4, <1>5, <1>6, <1>7, <1>8, <1>9, <1>10, <1>11, <1>12

LEMMA DeleteApplicationSafe ==
  ASSUME Typed, Typed', Safe, NEW a \in Apps, DeleteApplication(a)
  PROVE  Safe'
<1> USE DEF Safe
<1> DEFINE old == sources[a].superkey
<1>1. /\ sources'[a].state = "deleted" /\ sources'[a].superkey = NoSuperkey
      /\ \A b \in Apps \ {a} : sources'[b] = sources[b]
      /\ UNCHANGED <<uncommitted, pc, job, aws, used, counted, spoiled, stuck>>
      /\ sources[a].state = "live"
  BY DEF DeleteApplication, Blank, Typed, TypeOK
<1>2. \/ old.guid = None /\ queue' = queue
      \/ \E m : /\ m.type = "destroy_application"
                /\ m.guid = old.guid /\ m.completed = old.steps
                /\ old.guid # None
                /\ queue' = queue \union {m}
  BY DEF DeleteApplication
<1>3. queue \subseteq queue'
  BY <1>2
<1>4. \A m \in Teardowns' :
        \/ m \in Teardowns
        \/ m.guid = old.guid /\ m.completed = old.steps /\ old.guid # None
  BY <1>1, <1>2, TeardownsAre, TeardownsWillBe
<1>5. NoSuperkey.guid = None
  BY DEF NoSuperkey
<1>6. KnownAreUsed'
  BY <1>1, <1>4, <1>5 DEF KnownAreUsed
<1>7. ForgesAlone'
  <2>1. \A v \in Workers : pc[v] \in Forging => job[v].guid # None
    BY WorkerAssumption DEF Typed, TypeOK, Job, Forging
  <2> QED BY <1>1, <1>4, <1>5, <2>1 DEF ForgesAlone
<1>8. Accounted'
  BY <1>1, <1>4, <1>5, WorkerAssumption DEF Accounted
<1>9. FailedMeansStuck'
  BY <1>1 DEF FailedMeansStuck
<1>10. Posted'
  <2>1. \A v \in Workers : pc[v] \in HasPosted => job[v].msg.app \in Apps
    BY PostedApps DEF HasPosted, Posting
  <2> QED BY <1>1, <2>1 DEF Posted, HasPosted
<1>11. LeaksAreReported'
  <2>1. \A kind \in Kinds, g \in Guids \ spoiled :
          <<kind, g>> \in aws /\ Recorded(kind, g) =>
            Recorded(kind, g)' \/ Requested(kind, g)'
    BY <1>1, <1>2, WorkerAssumption DEF Recorded, Requested
  <2>2. \A kind \in Kinds, g \in Guids :
          Requested(kind, g) => Requested(kind, g)'
    BY <1>3 DEF Requested
  <2> QED BY <1>1, <2>1, <2>2 DEF LeaksAreReported, Held
<1>12. CleanTearDown'
  BY <1>1 DEF CleanTearDown
<1>13. CreatesOnce'
  BY <1>1 DEF CreatesOnce
<1>14. RemovalRequested'
  <2> SUFFICES ASSUME NEW v \in Workers, NEW kind \in Kinds,
                      Overtaken(v, kind)'
               PROVE  Entrusted(v, kind)'
    BY RemovalRequestedIs
  <2>1. /\ pc[v] = "check" /\ <<kind, job[v].guid>> \in aws
        /\ job[v].guid \in Guids \ spoiled /\ job[v].msg.app \in Apps
    <3>1. pc[v] = "check" /\ <<kind, job[v].guid>> \in aws
          /\ job[v].guid \notin spoiled
      BY <1>1 DEF Overtaken
    <3> QED BY <3>1, AppOfRequest DEF Creating, Posting
  <2>2. CASE job[v].msg.app = a
    <3>1. old.guid = job[v].guid
      BY <1>1, <2>1, <2>2 DEF Posted
    <3>2. kind \in old.steps
      BY <2>1, <3>1 DEF Accounted
    <3>3. Requested(kind, job[v].guid)'
      BY <1>1, <1>2, <2>1, <3>1, <3>2, WorkerAssumption DEF Requested
    <3> QED BY <1>1, <3>3 DEF Entrusted
  <2>3. CASE job[v].msg.app # a
    <3>1. Overtaken(v, kind)
      BY <1>1, <2>1, <2>3 DEF Overtaken
    <3>2. Entrusted(v, kind)
      BY <3>1, RemovalRequestedIs
    <3> QED BY <1>1, <1>3, <3>2 DEF Entrusted, Requested
  <2> QED BY <2>2, <2>3
<1> QED BY <1>6, <1>7, <1>8, <1>9, <1>10, <1>11, <1>12, <1>13, <1>14

-----------------------------------------------------------------------------
(***************************************************************************)
(* The theorems.                                                           *)
(***************************************************************************)

LEMMA NextSafe == Typed /\ Typed' /\ Safe /\ [Next]_vars => Safe'
<1> SUFFICES ASSUME Typed, Typed', Safe, [Next]_vars PROVE Safe'
  OBVIOUS
<1>1. CASE UNCHANGED vars
  <2>1. RequestsKept
    BY <1>1, SameRequests DEF vars
  <2> QED
    BY <1>1, <2>1, QuietStep DEF vars, ReplicasKept, StatesKept, RecordsKept
<1>2. ASSUME NEW a \in Apps, RequestApplication(a) \/ DeleteApplication(a)
      PROVE  Safe'
  BY <1>2, RequestApplicationSafe, DeleteApplicationSafe
<1>3. ASSUME NEW w \in Workers, Commit(w) \/ Rebalance(w) \/ Crash(w)
      PROVE  Safe'
  BY <1>3, CommitSafe, CrashSafe
<1>4. ASSUME NEW w \in Workers, Handle(w) PROVE Safe'
  <2>1. CASE Drop(w) \/ ReceiveCreate(w) \/ ReceiveDestroy(w)
    BY <2>1, DropSafe, ReceiveCreateSafe, ReceiveDestroySafe
  <2>2. CASE ForgeStep(w) \/ TearDownStep(w)
    BY <2>2, ForgeStepSafe, TearDownStepSafe
  <2>3. CASE \/ GetProvider(w) \/ RejectStep(w)
             \/ AttachBucketPolicy(w) \/ FinishForging(w)
    BY <2>3, ForgingMoves, HandlerStepSafe
  <2>4. CASE \/ StoreSuperKeyData(w) \/ CreateAuthentication(w)
             \/ CreateApplicationAuthentication(w) \/ CheckAvailability(w)
    BY <2>4, PostMoves, HandlerStepSafe
  <2>5. CASE \/ GetDestroyProvider(w) \/ FinishTearDown(w)
             \/ MarkApplication(w) \/ MarkSource(w)
    BY <2>5, TearDownMoves, MarkMoves, HandlerStepSafe
  <2> QED BY <1>4, <2>1, <2>2, <2>3, <2>4, <2>5 DEF Handle
<1> QED BY <1>1, <1>2, <1>3, <1>4 DEF Next

LEMMA AlwaysSafe == Spec => [](Typed /\ Safe)
<1>1. Init => Typed /\ Safe
  BY InitTyped, InitSafe
<1>2. (Typed /\ Safe) /\ [Next]_vars => (Typed /\ Safe)'
  BY NextTyped, NextSafe
<1> QED BY <1>1, <1>2, PTL DEF Spec

\* However many replicas, applications and steps there are, and whatever AWS
\* and Sources answer: a resource nobody has on record any more was counted
\* as a failure, or its GUID is one of those in spoiled: hit by an event no
\* handler can report, or forged from a list with two cost reports.
THEOREM NoSilentLeak == Spec => []LeaksAreReported
<1>1. Safe => LeaksAreReported
  BY DEF Safe
<1> QED BY <1>1, AlwaysSafe, PTL

\* However many replicas, applications and steps there are: where TearDown met
\* no error from AWS, it left nothing of what ForgeApplication made under a
\* GUID that is not in spoiled.  That excepts a creation AWS carried out
\* without saying so and a list with two cost reports, of which
\* StepsCompleted keeps the second only.
THEOREM TearDownIsComplete == Spec => []CleanTearDown
<1>1. Safe => CleanTearDown
  BY DEF Safe
<1> QED BY <1>1, AlwaysSafe, PTL

\* However many replicas, applications and steps there are: a destroy request
\* of a GUID that is not in spoiled (no answer was lost, no cost report
\* overwritten by another) names every resource of it that exists, and no
\* replica forges any more under that GUID while it waits or is about to be
\* carried out.
THEOREM DestroysAreComplete == Spec => []DestroysWhatWasForged
<1>1. Typed /\ Safe => DestroysWhatWasForged
  <2> SUFFICES ASSUME Typed, Safe, NEW g \in Guids \ spoiled,
                      NEW completed \in SUBSET Kinds,
                      \/ \E m \in queue : /\ m.type = "destroy_application"
                                          /\ m.guid = g
                                          /\ m.completed = completed
                      \/ \E w \in Workers : /\ pc[w] = "destroy_auth"
                                            /\ job[w].guid = g
                                            /\ job[w].left = completed
               PROVE  /\ \A w \in Workers : pc[w] \in Forging => job[w].guid # g
                      /\ {kind \in Kinds : <<kind, g>> \in aws} \subseteq completed
    BY DEF DestroysWhatWasForged
  <2>1. ForgesAlone /\ Accounted
    BY DEF Safe
  <2>2. CASE \E m \in queue : /\ m.type = "destroy_application"
                              /\ m.guid = g
                              /\ m.completed = completed
    <3>1. PICK m \in Teardowns : m.guid = g /\ m.completed = completed
      BY <2>2, TeardownsAre
    <3> QED BY <2>1, <3>1 DEF ForgesAlone, Accounted
  <2>3. CASE \E w \in Workers : /\ pc[w] = "destroy_auth"
                                /\ job[w].guid = g
                                /\ job[w].left = completed
    <3>1. PICK w \in Workers : /\ pc[w] = "destroy_auth"
                               /\ job[w].guid = g
                               /\ job[w].left = completed
      BY <2>3
    <3>2. \A v \in Workers : pc[v] \in Forging => job[v].guid # g
      BY <2>1, <3>1 DEF ForgesAlone, Forging
    <3>3. \A kind \in Kinds : <<kind, g>> \in aws => kind \in completed
      BY <2>1, <3>1 DEF Accounted
    <3> QED BY <3>2, <3>3
  <2> QED BY <2>2, <2>3
<1> QED BY <1>1, AlwaysSafe, PTL
=============================================================================
