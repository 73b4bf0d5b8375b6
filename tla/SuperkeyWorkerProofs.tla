------------------------ MODULE SuperkeyWorkerProofs ------------------------
(***************************************************************************)
(* Theorems about SuperkeyWorker, for every value of its constants.        *)
(***************************************************************************)
EXTENDS SuperkeyWorker, TLAPS

-----------------------------------------------------------------------------
(***************************************************************************)
(* Types.                                                                  *)
(***************************************************************************)

Typed == TypeOK /\ Shape

LEMMA InitTyped == Init => Typed
  BY WorkerAssumption
  DEF Init, Typed, TypeOK, Shape, Blank, NoSuperkey, Application,
      Locations, Creating, Forging, Posting, Marking, TearingDown

\* The users of Sources and the Kafka library.
LEMMA EnvironmentTyped ==
  ASSUME Typed,
         \/ \E a \in Apps : RequestApplication(a) \/ DeleteApplication(a)
         \/ \E w \in Workers : Commit(w) \/ Rebalance(w) \/ Crash(w)
  PROVE  Typed'
<1> USE WorkerAssumption DEF Typed
<1>1. ASSUME NEW a \in Apps, RequestApplication(a) PROVE Typed'
  <2>1. PICK steps \in StepLists, e \in Envelopes :
          /\ sources' = [sources EXCEPT ![a].state = "live", ![a].list = steps]
          /\ queue' = queue \union
               {[type |-> "create_application", envelope |-> e,
                 steps |-> steps, app |-> a]}
    BY <1>1 DEF RequestApplication
  <2>2. sources' \in [Apps -> Application]
    <3>1. sources[a] \in Application /\ sources \in [Apps -> Application]
      BY DEF TypeOK
    <3>2. [sources[a] EXCEPT !.state = "live", !.list = steps] \in Application
      BY <3>1 DEF Application
    <3>3. sources' = [sources EXCEPT ![a] =
                        [sources[a] EXCEPT !.state = "live", !.list = steps]]
      BY <2>1, <3>1 DEF Application
    <3> QED BY <3>1, <3>2, <3>3
  <2>3. queue' \subseteq Message
    BY <2>1 DEF TypeOK, Message, CreateRequest
  <2>4. \A b \in Apps :
          /\ sources'[b].list = IF b = a THEN steps ELSE sources[b].list
          /\ b # a => sources'[b] = sources[b]
    BY <2>1 DEF TypeOK, Application
  <2> QED BY <1>1, <2>2, <2>3, <2>4 DEF RequestApplication, TypeOK, Shape
<1>2. ASSUME NEW a \in Apps, DeleteApplication(a) PROVE Typed'
  <2>1. sources' \in [Apps -> Application]
    <3> DEFINE new == [Blank("deleted") EXCEPT
                         !.unavailable = sources[a].unavailable
                                           \ {"application"}]
    <3>1. new \in Application
      BY DEF Blank, NoSuperkey, TypeOK, Application
    <3>2. sources' = [sources EXCEPT ![a] = new]
      BY <1>2 DEF DeleteApplication
    <3> HIDE DEF new
    <3> QED BY <3>1, <3>2 DEF TypeOK
  <2>2. queue' \subseteq Message
    BY <1>2 DEF DeleteApplication, TypeOK, Shape, Application, Message,
                DestroyRequest
  <2>3. \A b \in Apps : sources'[b].state = "live" => sources'[b] = sources[b]
    BY <1>2 DEF DeleteApplication, TypeOK, Blank
  <2> QED BY <1>2, <2>1, <2>2, <2>3 DEF DeleteApplication, TypeOK, Shape
<1>3. ASSUME NEW w \in Workers, Commit(w) PROVE Typed'
  BY <1>3 DEF Commit, TypeOK, Shape
<1>4. ASSUME NEW w \in Workers, Rebalance(w) PROVE Typed'
  BY <1>4 DEF Rebalance, TypeOK, Shape
<1>5. ASSUME NEW w \in Workers, Crash(w) PROVE Typed'
  BY <1>5 DEF Crash, TypeOK, Shape, Job, Locations, Creating, Forging,
              Posting, Marking, TearingDown
<1> QED BY <1>1, <1>2, <1>3, <1>4, <1>5

\* The parts of Typed that a step of a handler may disturb.
ReplicasTyped ==
  /\ pc \in [Workers -> Locations]
  /\ job \in [Workers -> Job \union {None}]
  /\ \A w \in Workers :
       /\ pc[w] # "idle" => job[w] \in Job
       /\ pc[w] \in Creating => job[w].msg \in CreateRequest
       /\ pc[w] = "forge_auth" => job[w].done = {}
       /\ pc[w] \in {"forge", "bucket_policy"} => job[w].next > 0

SourcesTyped ==
  /\ sources \in [Apps -> Application]
  /\ \A a \in Apps :
       sources[a].state = "live" => sources[a].list \in StepLists

OthersTyped ==
  /\ queue \subseteq Message
  /\ uncommitted \in [Workers -> SUBSET Message]
  /\ aws \subseteq Kinds \X Guids
  /\ used \subseteq Guids
  /\ counted \in [Counters -> SUBSET Guids]
  /\ spoiled \subseteq Guids
  /\ stuck \subseteq Guids

LEMMA TypedParts ==
  /\ Typed <=> ReplicasTyped /\ SourcesTyped /\ OthersTyped
  /\ Typed' <=> ReplicasTyped' /\ SourcesTyped' /\ OthersTyped'
  BY DEF Typed, TypeOK, Shape, ReplicasTyped, SourcesTyped, OthersTyped

\* A handler that goes on with its request, in a job that may have changed.
LEMMA ReplicaMoves ==
  ASSUME ReplicasTyped, NEW w \in Workers, pc[w] # "idle",
         NEW location \in Locations \ {"idle", "forge_auth"},
         NEW new \in Job,
         new.msg = job[w].msg,
         location \in Creating => pc[w] \in Creating,
         location \in {"forge", "bucket_policy"} => new.next > 0,
         pc' = [pc EXCEPT ![w] = location],
         job' = [job EXCEPT ![w] = new]
  PROVE  ReplicasTyped'
  BY DEF ReplicasTyped

\* A handler that returns.
LEMMA ReplicaReturns ==
  ASSUME ReplicasTyped, OthersTyped, NEW w \in Workers, pc[w] # "idle",
         NEW counter \in Counters, Finish(w, counter)
  PROVE  ReplicasTyped' /\ counted' \in [Counters -> SUBSET Guids]
  BY DEF ReplicasTyped, OthersTyped, Finish, Goto, Job, Creating, Forging,
         Posting, Marking, Locations

\* The record of an application changes.
LEMMA RecordChanges ==
  ASSUME SourcesTyped, NEW a \in Apps, NEW new \in Application,
         new.state = sources[a].state, new.list = sources[a].list,
         sources' = [sources EXCEPT ![a] = new]
  PROVE  SourcesTyped'
  BY DEF SourcesTyped

LEMMA GiveUpTyped ==
  ASSUME ReplicasTyped, OthersTyped, NEW w \in Workers, pc[w] \in Creating,
         NEW location \in {"teardown_forge", "teardown_sources"},
         GiveUp(w, location)
  PROVE  ReplicasTyped' /\ counted' \in [Counters -> SUBSET Guids]
<1> DEFINE new == [job[w] EXCEPT !.left = job[w].done]
<1>1. pc[w] # "idle" /\ job[w] \in Job
  BY DEF ReplicasTyped, Creating, Forging, Posting, Marking
<1>2. new \in Job /\ new.msg = job[w].msg
  BY <1>1 DEF Job
<1>3. job' = [job EXCEPT ![w] = new] /\ pc' = [pc EXCEPT ![w] = location]
  BY DEF GiveUp, Goto, ReplicasTyped
<1>4. location \in Locations \ {"idle", "forge_auth", "forge", "bucket_policy"}
  BY DEF Locations, TearingDown
<1> HIDE DEF new
<1> QED BY <1>1, <1>2, <1>3, <1>4, ReplicaMoves DEF GiveUp, OthersTyped

LEMMA GotoTyped ==
  ASSUME ReplicasTyped, OthersTyped, NEW w \in Workers,
         pc[w] # "idle", NEW location \in Locations \ (Forging \union {"idle"}),
         location \in Creating => pc[w] \in Creating,
         Goto(w, location), UNCHANGED <<job, counted>>
  PROVE  ReplicasTyped' /\ counted' \in [Counters -> SUBSET Guids]
  BY DEF Goto, ReplicasTyped, OthersTyped, Forging

LEMMA ProceedTyped ==
  ASSUME ReplicasTyped, OthersTyped, NEW w \in Workers, pc[w] \in Creating,
         NEW location \in Posting, NEW reply, Proceed(w, reply, location)
  PROVE  ReplicasTyped' /\ counted' \in [Counters -> SUBSET Guids]
<1>1. CASE reply = "ok"
  <2>1. /\ location \in Locations \ (Forging \union {"idle"})
        /\ pc[w] # "idle"
    BY DEF Locations, Creating, Forging, Posting, Marking
  <2> QED BY <1>1, <2>1, GotoTyped DEF Proceed
<1>2. CASE reply # "ok"
  BY <1>2, GiveUpTyped DEF Proceed
<1> QED BY <1>1, <1>2

-----------------------------------------------------------------------------
\* The handler.
LEMMA ReceiveTyped ==
  ASSUME Typed, NEW w \in Workers,
         Drop(w) \/ ReceiveCreate(w) \/ ReceiveDestroy(w)
  PROVE  Typed'
<1> USE WorkerAssumption
    DEF Typed, Locations, Creating, Forging, Posting, Marking, TearingDown
<1>1. ASSUME Drop(w) PROVE Typed'
  <2>1. PICK m \in queue :
          /\ Deliver(w, m)
          /\ spoiled' = IF m.type = "destroy_application"
                        THEN spoiled \union {m.guid} ELSE spoiled
    BY <1>1 DEF Drop
  <2>2. m \in Message /\ (m.type = "destroy_application" => m.guid \in Guids)
    BY DEF TypeOK, Message, CreateRequest, DestroyRequest
  <2> QED BY <1>1, <2>1, <2>2 DEF Drop, Deliver, TypeOK, Shape
<1>2. ASSUME ReceiveCreate(w) PROVE Typed'
  BY <1>2 DEF ReceiveCreate, TypeOK, Shape, Deliver, Job, CreateRequest,
              DestroyRequest, Message, Envelope
<1>3. ASSUME ReceiveDestroy(w) PROVE Typed'
  BY <1>3 DEF ReceiveDestroy, TypeOK, Shape, Deliver, Job, CreateRequest,
              DestroyRequest, Message, Envelope
<1> QED BY <1>1, <1>2, <1>3

\* The step of the request a replica is at, and what becomes of the account.
LEMMA StepForged ==
  ASSUME Typed, NEW w \in Workers, AtStep(w), ~Unforgeable(CurrentStep(w))
  PROVE  /\ pc[w] = "forge" /\ pc[w] # "idle" /\ pc[w] \in Creating
         /\ job[w] \in Job /\ job[w].next > 0
         /\ Resource(CurrentStep(w)) \in Kinds
<1>1. /\ pc[w] = "forge" /\ pc[w] # "idle" /\ pc[w] \in Creating
      /\ job[w] \in Job /\ job[w].next > 0 /\ job[w].msg \in CreateRequest
  BY DEF AtStep, Typed, TypeOK, Shape, Creating, Forging
<1>2. job[w].msg.steps \in Seq(Step)
  BY <1>1, WorkerAssumption DEF CreateRequest
<1>3. job[w].next \in 1 .. Len(job[w].msg.steps)
  BY <1>1, <1>2 DEF AtStep, Job
<1>4. CurrentStep(w) \in Step
  BY <1>2, <1>3 DEF CurrentStep
<1> QED BY <1>1, <1>4 DEF Step, Unforgeable, Resource, Kinds, StepNames

LEMMA ForgeStepTyped ==
  ASSUME Typed, NEW w \in Workers, ForgeStep(w)
  PROVE  ReplicasTyped' /\ OthersTyped'
<1> USE TypedParts
<1> DEFINE g == job[w].guid
           step == CurrentStep(w)
           kind == Resource(step)
           policy == step.name = "s3" /\ step.payload = "create_cost_policy"
           location == IF policy THEN "bucket_policy" ELSE "forge"
           done == MarkCompleted(job[w].done, kind)
           next == IF policy THEN job[w].next ELSE job[w].next + 1
           new == [job[w] EXCEPT !.done = done, !.next = next]
<1>1. PICK reply \in Replies(CanCreate(aws, kind, g)) :
        /\ aws' = AfterCreate(aws, kind, g, reply)
        /\ SpoilForging(g, job[w].done, kind, reply)
        /\ IF reply = "ok"
           THEN /\ job' = [job EXCEPT
                     ![w].done = MarkCompleted(@, kind),
                     ![w].next = IF policy THEN @ ELSE @ + 1]
                /\ Goto(w, location)
                /\ UNCHANGED counted
           ELSE GiveUp(w, "teardown_forge")
  BY DEF ForgeStep
<1>2. /\ pc[w] = "forge" /\ pc[w] # "idle" /\ pc[w] \in Creating
      /\ job[w] \in Job /\ job[w].next > 0
      /\ kind \in Kinds
  BY StepForged DEF ForgeStep
<1>3. g \in Guids
  BY <1>2 DEF Job
<1>4. aws' \subseteq Kinds \X Guids
  BY <1>1, <1>2, <1>3 DEF AfterCreate, OthersTyped
<1>5. spoiled' \subseteq Guids
  BY <1>1, <1>3 DEF SpoilForging, OthersTyped
<1>6. ReplicasTyped' /\ counted' \in [Counters -> SUBSET Guids]
  <2>1. CASE reply = "ok"
    <3>1. done \in SUBSET Kinds /\ next \in Nat /\ next > 0
      BY <1>2 DEF Job, MarkCompleted
    <3>2. /\ job' = [job EXCEPT ![w].done = done, ![w].next = next]
          /\ pc' = [pc EXCEPT ![w] = location]
      BY <1>1, <2>1 DEF Goto
    <3> HIDE DEF done, next
    <3>3. new \in Job /\ new.msg = job[w].msg /\ new.next > 0
      BY <1>2, <3>1 DEF Job
    <3>4. job' = [job EXCEPT ![w] = new]
      BY <1>2, <3>2 DEF ReplicasTyped, Job
    <3>5. location \in Locations \ {"idle", "forge_auth"}
      BY DEF Locations, Forging
    <3> HIDE DEF new, location
    <3> QED BY <1>1, <1>2, <2>1, <3>2, <3>3, <3>4, <3>5, ReplicaMoves
            DEF OthersTyped
  <2>2. CASE reply # "ok"
    BY <1>1, <1>2, <2>2, GiveUpTyped
  <2> QED BY <2>1, <2>2
<1> QED BY <1>4, <1>5, <1>6 DEF ForgeStep, OthersTyped

LEMMA ForgeTyped ==
  ASSUME Typed, NEW w \in Workers,
         \/ GetProvider(w) \/ RejectStep(w) \/ ForgeStep(w)
         \/ AttachBucketPolicy(w) \/ FinishForging(w)
  PROVE  Typed'
<1> USE TypedParts
<1>1. ASSUME GetProvider(w) PROVE Typed'
  <2>1. /\ pc[w] = "forge_auth" /\ pc[w] # "idle" /\ pc[w] \in Creating
        /\ job[w] \in Job
    BY <1>1 DEF GetProvider, ReplicasTyped, Creating, Forging
  <2>2. /\ "forge" \in Locations \ {"idle", "forge_auth"}
        /\ "mark_app" \in Locations \ (Forging \union {"idle"})
    BY DEF Locations, Forging, Marking
  <2>3. CASE job' = [job EXCEPT ![w].next = 1] /\ Goto(w, "forge")
    <3> DEFINE new == [job[w] EXCEPT !.next = 1]
    <3>1. new \in Job /\ new.msg = job[w].msg /\ new.next > 0
      BY <2>1 DEF Job
    <3>2. job' = [job EXCEPT ![w] = new] /\ pc' = [pc EXCEPT ![w] = "forge"]
      BY <2>3 DEF Goto, ReplicasTyped
    <3> HIDE DEF new
    <3>3. ReplicasTyped'
      BY <2>1, <2>2, <3>1, <3>2, ReplicaMoves
    <3> QED
      BY <1>1, <3>3 DEF GetProvider, SourcesTyped, OthersTyped
  <2>4. CASE job' = job /\ Goto(w, "mark_app")
    <3>1. ReplicasTyped'
      BY <1>1, <2>1, <2>2, <2>4, GotoTyped DEF GetProvider
    <3> QED
      BY <1>1, <3>1 DEF GetProvider, SourcesTyped, OthersTyped
  <2> QED
    BY <1>1, <2>3, <2>4 DEF GetProvider
<1>2. ASSUME RejectStep(w) PROVE Typed'
  BY <1>2, GiveUpTyped
  DEF RejectStep, AtStep, SourcesTyped, OthersTyped, Creating, Forging
<1>3. ASSUME ForgeStep(w) PROVE Typed'
  BY <1>3, ForgeStepTyped DEF SourcesTyped, ForgeStep
<1>4. ASSUME AttachBucketPolicy(w) PROVE Typed'
  <2> DEFINE new == [job[w] EXCEPT !.next = @ + 1]
  <2>1. /\ pc[w] = "bucket_policy" /\ pc[w] # "idle" /\ pc[w] \in Creating
        /\ job[w] \in Job /\ job[w].next > 0
    BY <1>4 DEF AttachBucketPolicy, ReplicasTyped, Creating, Forging
  <2>2. new \in Job /\ new.msg = job[w].msg /\ new.next > 0
    BY <2>1 DEF Job
  <2>3. PICK reply \in Replies(<<"s3", job[w].guid>> \in aws) :
          IF reply = "ok"
          THEN /\ job' = [job EXCEPT ![w].next = @ + 1]
               /\ Goto(w, "forge")
               /\ UNCHANGED counted
          ELSE GiveUp(w, "teardown_forge")
    BY <1>4 DEF AttachBucketPolicy
  <2>4. CASE reply = "ok"
    <3>1. job' = [job EXCEPT ![w] = new] /\ pc' = [pc EXCEPT ![w] = "forge"]
      BY <2>3, <2>4 DEF Goto, ReplicasTyped
    <3>2. "forge" \in Locations \ {"idle", "forge_auth"}
      BY DEF Locations, Forging
    <3> HIDE DEF new
    <3>3. ReplicasTyped' BY <2>1, <2>2, <3>1, <3>2, ReplicaMoves
    <3> QED
      BY <1>4, <2>3, <2>4, <3>3
      DEF AttachBucketPolicy, SourcesTyped, OthersTyped
  <2>5. CASE reply # "ok"
    BY <1>4, <2>1, <2>3, <2>5, GiveUpTyped
    DEF AttachBucketPolicy, SourcesTyped, OthersTyped
  <2> QED BY <2>4, <2>5
<1>5. ASSUME FinishForging(w) PROVE Typed'
  BY <1>5 DEF FinishForging, Typed, TypeOK, Shape, Goto, Job, Locations,
              Creating, Forging, Posting, Marking, TearingDown
<1> QED BY <1>1, <1>2, <1>3, <1>4, <1>5

\* The application of a request that is being served.
LEMMA AppOfRequest ==
  ASSUME Typed, NEW w \in Workers, pc[w] \in Creating
  PROVE  /\ pc[w] # "idle" /\ job[w] \in Job /\ job[w].guid \in Guids
         /\ job[w].done \in SUBSET Kinds
         /\ job[w].msg.app \in Apps
         /\ sources[job[w].msg.app] \in Application
         /\ sources[job[w].msg.app].superkey.guid \in Guids \union {None}
<1>1. pc[w] # "idle" /\ job[w] \in Job /\ job[w].msg \in CreateRequest
  BY DEF Typed, TypeOK, Shape, Creating, Forging, Posting, Marking
<1>2. job[w].msg.app \in Apps
  BY <1>1 DEF CreateRequest
<1>3. sources[job[w].msg.app] \in Application
  BY <1>2 DEF Typed, TypeOK
<1>4. sources[job[w].msg.app].superkey.guid \in Guids \union {None}
  BY <1>3 DEF Application
<1> QED BY <1>1, <1>2, <1>3, <1>4 DEF Job

LEMMA PostTyped ==
  ASSUME Typed, NEW w \in Workers,
         \/ StoreSuperKeyData(w) \/ CreateAuthentication(w)
         \/ CreateApplicationAuthentication(w) \/ CheckAvailability(w)
  PROVE  Typed'
<1> USE TypedParts
<1> DEFINE a == job[w].msg.app
           g == job[w].guid
<1>1. pc[w] \in Posting /\ pc[w] \in Creating
  BY DEF StoreSuperKeyData, CreateAuthentication, CheckAvailability,
         CreateApplicationAuthentication, Creating, Posting
<1>2. /\ pc[w] # "idle" /\ job[w] \in Job /\ g \in Guids
      /\ job[w].done \in SUBSET Kinds
      /\ a \in Apps /\ sources[a] \in Application
      /\ sources[a].superkey.guid \in Guids \union {None}
  BY <1>1, AppOfRequest
<1>3. ASSUME StoreSuperKeyData(w) PROVE Typed'
  <2> DEFINE record == [guid |-> g, steps |-> job[w].done]
             new == [sources[a] EXCEPT !.superkey = record]
  <2>1. PICK reply \in Served(a) :
          /\ IF reply = "error"
             THEN UNCHANGED <<sources, spoiled>>
             ELSE WriteSuperkey(a, record)
          /\ Proceed(w, reply, "create_auth")
    BY <1>3 DEF StoreSuperKeyData
  <2>2. SourcesTyped' /\ spoiled' \subseteq Guids
    <3>1. CASE reply = "error"
      BY <2>1, <3>1 DEF SourcesTyped, OthersTyped
    <3>2. CASE reply # "error"
      <4>1. /\ sources' = [sources EXCEPT ![a] = new]
            /\ spoiled' \subseteq Guids
        BY <1>2, <2>1, <3>2 DEF WriteSuperkey, OthersTyped, SourcesTyped
      <4>2. /\ new \in Application
            /\ new.state = sources[a].state /\ new.list = sources[a].list
        BY <1>2 DEF Application
      <4> HIDE DEF new
      <4> QED BY <1>2, <4>1, <4>2, RecordChanges
    <3> QED BY <3>1, <3>2
  <2>3. ReplicasTyped' /\ counted' \in [Counters -> SUBSET Guids]
    BY <1>1, <2>1, ProceedTyped DEF Posting
  <2> QED BY <1>3, <2>2, <2>3 DEF StoreSuperKeyData, OthersTyped
<1>4. ASSUME CreateAuthentication(w) PROVE Typed'
  <2> DEFINE new == [sources[a] EXCEPT !.auths = @ \union {g}]
  <2>1. PICK reply \in Served(a) :
          /\ sources' = IF reply = "error" THEN sources
                        ELSE [sources EXCEPT ![a].auths = @ \union {g}]
          /\ Proceed(w, reply, "link_auth")
    BY <1>4 DEF CreateAuthentication
  <2>2. SourcesTyped'
    <3>1. CASE reply = "error"
      BY <2>1, <3>1 DEF SourcesTyped
    <3>2. CASE reply # "error"
      <4>1. sources' = [sources EXCEPT ![a] = new]
        BY <1>2, <2>1, <3>2 DEF SourcesTyped
      <4>2. /\ new \in Application
            /\ new.state = sources[a].state /\ new.list = sources[a].list
        BY <1>2 DEF Application
      <4> HIDE DEF new
      <4> QED BY <1>2, <4>1, <4>2, RecordChanges
    <3> QED BY <3>1, <3>2
  <2>3. ReplicasTyped' /\ counted' \in [Counters -> SUBSET Guids]
    BY <1>1, <2>1, ProceedTyped DEF Posting
  <2> QED BY <1>4, <2>2, <2>3 DEF CreateAuthentication, OthersTyped
<1>5. ASSUME CreateApplicationAuthentication(w) PROVE Typed'
  <2> DEFINE new == [sources[a] EXCEPT !.linked = @ \union {g}]
  <2>1. PICK reply \in Served(a) :
          /\ sources' = IF reply = "error" THEN sources
                        ELSE [sources EXCEPT ![a].linked = @ \union {g}]
          /\ Proceed(w, reply, "check")
    BY <1>5 DEF CreateApplicationAuthentication
  <2>2. SourcesTyped'
    <3>1. CASE reply = "error"
      BY <2>1, <3>1 DEF SourcesTyped
    <3>2. CASE reply # "error"
      <4>1. sources' = [sources EXCEPT ![a] = new]
        BY <1>2, <2>1, <3>2 DEF SourcesTyped
      <4>2. /\ new \in Application
            /\ new.state = sources[a].state /\ new.list = sources[a].list
        BY <1>2 DEF Application
      <4> HIDE DEF new
      <4> QED BY <1>2, <4>1, <4>2, RecordChanges
    <3> QED BY <3>1, <3>2
  <2>3. ReplicasTyped' /\ counted' \in [Counters -> SUBSET Guids]
    BY <1>1, <2>1, ProceedTyped DEF Posting
  <2> QED BY <1>5, <2>2, <2>3 DEF CreateApplicationAuthentication, OthersTyped
<1>6. ASSUME CheckAvailability(w) PROVE Typed'
  <2>1. ReplicasTyped' /\ counted' \in [Counters -> SUBSET Guids]
    BY <1>1, <1>2, <1>6, ReplicaReturns, GiveUpTyped
    DEF CheckAvailability, Counters
  <2> QED BY <1>6, <2>1 DEF CheckAvailability, SourcesTyped, OthersTyped
<1> QED BY <1>3, <1>4, <1>5, <1>6

LEMMA TearDownTyped ==
  ASSUME Typed, NEW w \in Workers,
         GetDestroyProvider(w) \/ TearDownStep(w) \/ FinishTearDown(w)
  PROVE  Typed'
<1> USE TypedParts
<1>1. ASSUME GetDestroyProvider(w) PROVE Typed'
  BY <1>1, ReplicaReturns, GotoTyped
  DEF GetDestroyProvider, SourcesTyped, OthersTyped, Counters, Locations,
      Creating, Forging, Posting, Marking, TearingDown
<1>2. ASSUME TearDownStep(w) PROVE Typed'
  <2> DEFINE g == job[w].guid
  <2>1. PICK kind \in Kinds :
          /\ IsNextDown(kind, job[w].left)
          /\ \E reply \in Replies(CanDelete(aws, kind, g)) :
               /\ aws' = AfterDelete(aws, kind, g, reply)
               /\ job' = [job EXCEPT ![w].left = @ \ {kind},
                                     ![w].failed = @ \/ reply # "ok"]
               /\ stuck' = IF reply = "ok" THEN stuck ELSE stuck \union {g}
    BY <1>2 DEF TearDownStep
  <2>2. PICK reply \in Replies(CanDelete(aws, kind, g)) :
          /\ aws' = AfterDelete(aws, kind, g, reply)
          /\ job' = [job EXCEPT ![w].left = @ \ {kind},
                                ![w].failed = @ \/ reply # "ok"]
          /\ stuck' = IF reply = "ok" THEN stuck ELSE stuck \union {g}
    BY <2>1
  <2> DEFINE left == job[w].left \ {kind}
             failed == job[w].failed \/ reply # "ok"
             new == [job[w] EXCEPT !.left = left, !.failed = failed]
  <2>3. /\ pc[w] \in TearingDown /\ pc[w] # "idle" /\ job[w] \in Job
        /\ g \in Guids
        /\ pc \in [Workers -> Locations]
    BY <1>2 DEF TearDownStep, ReplicasTyped, TearingDown, Job
  <2>4. left \in SUBSET Kinds /\ failed \in BOOLEAN
    BY <2>3 DEF Job
  <2>5. /\ job' = [job EXCEPT ![w].left = left, ![w].failed = failed]
        /\ pc' = [pc EXCEPT ![w] = pc[w]]
    BY <1>2, <2>2, <2>3 DEF TearDownStep
  <2>6. aws' \subseteq Kinds \X Guids /\ stuck' \subseteq Guids
    BY <2>2, <2>3 DEF AfterDelete, OthersTyped
  <2> HIDE DEF left, failed
  <2>7. new \in Job /\ new.msg = job[w].msg
    BY <2>3, <2>4 DEF Job
  <2>8. job' = [job EXCEPT ![w] = new]
    BY <2>3, <2>5 DEF ReplicasTyped, Job
  <2> HIDE DEF new
  <2>9. ReplicasTyped'
    BY <2>3, <2>5, <2>7, <2>8, ReplicaMoves DEF TearingDown, Locations
  <2> QED BY <1>2, <2>6, <2>9 DEF TearDownStep, SourcesTyped, OthersTyped
<1>3. ASSUME FinishTearDown(w) PROVE Typed'
  <2>1. pc[w] \in TearingDown /\ pc[w] # "idle"
    BY <1>3 DEF FinishTearDown, TearingDown
  <2>2. ReplicasTyped' /\ counted' \in [Counters -> SUBSET Guids]
    <3>1. CASE pc[w] = "teardown_forge"
      <4>1. "mark_app" \in Locations \ (Forging \union {"idle"})
        BY DEF Locations, Forging, Marking
      <4>2. Goto(w, "mark_app") /\ UNCHANGED <<job, counted>>
        BY <1>3, <3>1 DEF FinishTearDown
      <4>3. pc[w] \in Creating
        BY <3>1 DEF Creating
      <4> QED BY <2>1, <4>1, <4>2, <4>3, GotoTyped
    <3>2. CASE pc[w] # "teardown_forge"
      <4>1. PICK counter \in Counters : Finish(w, counter)
        BY <1>3, <2>1, <3>2 DEF FinishTearDown, Counters, TearingDown
      <4> QED BY <2>1, <4>1, ReplicaReturns
    <3> QED BY <3>1, <3>2
  <2> QED BY <1>3, <2>2 DEF FinishTearDown, SourcesTyped, OthersTyped
<1> QED BY <1>1, <1>2, <1>3

LEMMA MarkTyped ==
  ASSUME Typed, NEW w \in Workers, MarkApplication(w) \/ MarkSource(w)
  PROVE  Typed'
<1> USE TypedParts
<1> DEFINE a == job[w].msg.app
           g == job[w].guid
<1>1. pc[w] \in Marking /\ pc[w] \in Creating
  BY DEF MarkApplication, MarkSource, Creating, Marking
<1>2. /\ pc[w] # "idle" /\ job[w] \in Job /\ g \in Guids
      /\ job[w].done \in SUBSET Kinds
      /\ a \in Apps /\ sources[a] \in Application
      /\ sources[a].superkey.guid \in Guids \union {None}
  BY <1>1, AppOfRequest
<1>3. ASSUME MarkApplication(w) PROVE Typed'
  <2> DEFINE old == sources[a].superkey
             record(cleared) == CASE job[w].next > 0 -> [guid |-> g,
                                                         steps |-> job[w].done]
                                  [] cleared -> NoSuperkey
                                  [] OTHER -> old
  <2>1. PICK reply \in Served(a), cleared \in BOOLEAN :
          /\ IF reply = "error"
             THEN UNCHANGED <<sources, spoiled>>
             ELSE /\ sources' = [sources EXCEPT
                       ![a].superkey = record(cleared),
                       ![a].unavailable = @ \union {"application"}]
                  /\ spoiled' = spoiled \union
                       ({old.guid} \ {None, record(cleared).guid})
          /\ IF reply = "ok"
             THEN Goto(w, "mark_source") /\ UNCHANGED <<job, counted>>
             ELSE Finish(w, "creation_failed")
    BY <1>3 DEF MarkApplication
  <2>2. record(cleared) \in [guid: Guids \union {None}, steps: SUBSET Kinds]
    BY <1>2 DEF NoSuperkey, Application
  <2> DEFINE kept == record(cleared)
             flags == sources[a].unavailable \union {"application"}
             new == [sources[a] EXCEPT !.superkey = kept, !.unavailable = flags]
  <2>3. SourcesTyped' /\ spoiled' \subseteq Guids
    <3>1. CASE reply = "error"
      BY <2>1, <3>1 DEF SourcesTyped, OthersTyped
    <3>2. CASE reply # "error"
      <4>1. /\ sources' = [sources EXCEPT ![a].superkey = kept,
                                          ![a].unavailable = flags]
            /\ spoiled' = spoiled \union ({old.guid} \ {None, kept.guid})
        BY <2>1, <3>2
      <4>2. flags \in SUBSET {"application", "source"}
        BY <1>2 DEF Application
      <4> HIDE DEF kept, flags
      <4>3. /\ sources' = [sources EXCEPT ![a] = new]
            /\ spoiled' \subseteq Guids
        BY <1>2, <4>1 DEF OthersTyped, SourcesTyped, Application
      <4>4. /\ new \in Application
            /\ new.state = sources[a].state /\ new.list = sources[a].list
        BY <1>2, <2>2, <4>2 DEF Application, kept
      <4> HIDE DEF new
      <4> QED BY <1>2, <4>3, <4>4, RecordChanges
    <3> QED BY <3>1, <3>2
  <2>4. ReplicasTyped' /\ counted' \in [Counters -> SUBSET Guids]
    <3>1. "mark_source" \in Locations \ (Forging \union {"idle"})
      BY DEF Locations, Forging, Marking
    <3> QED BY <1>1, <1>2, <2>1, <3>1, GotoTyped, ReplicaReturns DEF Counters
  <2> QED BY <1>3, <2>3, <2>4 DEF MarkApplication, OthersTyped
<1>4. ASSUME MarkSource(w) PROVE Typed'
  <2> DEFINE flags == sources[a].unavailable \union {"source"}
             new == [sources[a] EXCEPT !.unavailable = flags]
  <2>1. PICK reply \in ServedForSource(a) :
          sources' = IF reply = "error" THEN sources
                     ELSE [sources EXCEPT ![a].unavailable = flags]
    BY <1>4 DEF MarkSource
  <2>2. SourcesTyped'
    <3>1. CASE reply = "error"
      BY <2>1, <3>1 DEF SourcesTyped
    <3>2. CASE reply # "error"
      <4>1. flags \in SUBSET {"application", "source"}
        BY <1>2 DEF Application
      <4> HIDE DEF flags
      <4>2. sources' = [sources EXCEPT ![a] = new]
        BY <1>2, <2>1, <3>2 DEF SourcesTyped
      <4>3. /\ new \in Application
            /\ new.state = sources[a].state /\ new.list = sources[a].list
        BY <1>2, <4>1 DEF Application
      <4> HIDE DEF new
      <4> QED BY <1>2, <4>2, <4>3, RecordChanges
    <3> QED BY <3>1, <3>2
  <2>3. ReplicasTyped' /\ counted' \in [Counters -> SUBSET Guids]
    BY <1>2, <1>4, ReplicaReturns DEF MarkSource, Counters
  <2> QED BY <1>4, <2>2, <2>3 DEF MarkSource, OthersTyped
<1> QED BY <1>3, <1>4

LEMMA NextTyped == Typed /\ [Next]_vars => Typed'
<1> SUFFICES ASSUME Typed, [Next]_vars PROVE Typed'
  OBVIOUS
<1>1. CASE UNCHANGED vars
  BY <1>1 DEF vars, Typed, TypeOK, Shape
<1>2. CASE Next
  BY <1>2, EnvironmentTyped, ReceiveTyped, ForgeTyped, PostTyped,
     TearDownTyped, MarkTyped
  DEF Next, Handle
<1> QED BY <1>1, <1>2

\* Every variable keeps its type whatever AWS, Sources, Kafka and the users
\* do, and every handler works on the kind of request its code is for: no
\* field of a request is read that this kind of request does not have.
THEOREM TypeCorrect == Spec => [](TypeOK /\ Shape)
<1>1. Spec => []Typed
  BY InitTyped, NextTyped, PTL DEF Spec
<1> QED BY <1>1, PTL DEF Typed
=============================================================================
