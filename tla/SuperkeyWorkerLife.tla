------------------------- MODULE SuperkeyWorkerLife -------------------------
(***************************************************************************)
(* The rest of the inductive invariant of SuperkeyWorker, and what follows *)
(* from it: a counted success stays usable, TearDown unbinds first and has *)
(* the API clients it needs.                                               *)
(***************************************************************************)
EXTENDS SuperkeyWorkerSafety

Alive ==
  /\ ListKept
  /\ NamedOnly
  /\ OwnRecord
  /\ PostsAlone
  /\ LinksInOrder
  /\ SuccessKept
  /\ CreatedMeansUsable

LEMMA CreationsAre ==
  ASSUME NEW m
  PROVE  m \in Creations <=>
           \/ /\ m.type = "create_application"
              /\ m \in queue \/ \E w \in Workers : m \in uncommitted[w]
           \/ \E w \in Workers : pc[w] \in Creating /\ m = job[w].msg
  BY DEF Creations

LEMMA CreationsWillBe ==
  ASSUME NEW m
  PROVE  m \in Creations' <=>
           \/ /\ m.type = "create_application"
              /\ m \in queue' \/ \E w \in Workers : m \in uncommitted'[w]
           \/ \E w \in Workers : pc'[w] \in Creating /\ m = job'[w].msg
  BY DEF Creations

LEMMA CreationApps ==
  ASSUME Typed, NEW m \in Creations
  PROVE  m.app \in Apps
<1>1. CASE \E w \in Workers : pc[w] \in Creating /\ m = job[w].msg
  BY <1>1, AppOfRequest
<1>2. CASE /\ m.type = "create_application"
           /\ m \in queue \/ \E w \in Workers : m \in uncommitted[w]
  <2>1. m \in Message
    BY <1>2 DEF Typed, TypeOK
  <2> QED BY <1>2, <2>1 DEF Message, CreateRequest, DestroyRequest
<1> QED BY <1>1, <1>2, CreationsAre

\* No GUID is None, and only GUIDs are counted.
LEMMA GuidsAre ==
  ASSUME Typed
  PROVE  /\ \A w \in Workers :
              pc[w] # "idle" => job[w].guid \in Guids /\ job[w].guid # None
         /\ None \notin counted["creation_ok"]
         /\ NoSuperkey.guid = None /\ NoSuperkey.steps = {}
  BY WorkerAssumption DEF Typed, TypeOK, Job, Counters, NoSuperkey

LEMMA WorkingLocations ==
  /\ "idle" \notin Creating \union TearingDown \union Posting \union Forging
  /\ Forging \union Posting \subseteq Creating
  /\ Forging \intersect Posting = {}
  /\ TearingDown \intersect (Forging \union Posting) = {}
  /\ "destroy_auth" \notin Creating \union TearingDown
  BY DEF Creating, TearingDown, Posting, Forging, Marking

LEMMA InitAlive == Init => Alive
<1> SUFFICES ASSUME Init PROVE Alive
  OBVIOUS
<1>1. /\ \A w \in Workers : pc[w] = "idle"
      /\ \A a \in Apps : sources[a] = Blank("absent")
      /\ Teardowns = {} /\ Creations = {}
      /\ counted["creation_ok"] = {}
  BY WorkingLocations DEF Init, Teardowns, Creations, Counters
<1>2. \A a \in Apps : sources[a].superkey = NoSuperkey
  BY <1>1 DEF Blank
<1>3. ListKept
  BY <1>1, <1>2 DEF ListKept
<1>4. NamedOnly
  BY <1>1, <1>2, WorkingLocations DEF NamedOnly, NoSuperkey
<1>5. OwnRecord /\ PostsAlone /\ LinksInOrder
  BY <1>1, WorkingLocations DEF OwnRecord, PostsAlone, LinksInOrder
<1>6. SuccessKept /\ CreatedMeansUsable
  BY <1>1 DEF SuccessKept, CreatedMeansUsable
<1> QED BY <1>3, <1>4, <1>5, <1>6 DEF Alive

-----------------------------------------------------------------------------
(***************************************************************************)
(* Steps that at most lose a handler or a request.                         *)
(***************************************************************************)

LEMMA LosingStep ==
  ASSUME Typed, Alive,
         \A v \in Workers :
           pc'[v] = "idle" \/ (pc'[v] = pc[v] /\ job'[v] = job[v]),
         Teardowns' \subseteq Teardowns,
         Creations' \subseteq Creations,
         UNCHANGED <<sources, aws, counted>>
  PROVE  Alive'
<1> USE DEF Alive
<1>1. \A v \in Workers :
        pc'[v] # "idle" => pc'[v] = pc[v] /\ job'[v] = job[v]
  OBVIOUS
<1>2. ListKept'
  BY DEF ListKept
<1>3. NamedOnly'
  BY <1>1, WorkingLocations DEF NamedOnly
<1>4. OwnRecord'
  BY <1>1, WorkingLocations DEF OwnRecord
<1>5. PostsAlone'
  BY <1>1, WorkingLocations DEF PostsAlone
<1>6. LinksInOrder'
  BY <1>1 DEF LinksInOrder
<1>7. SuccessKept'
  BY <1>1 DEF SuccessKept
<1>8. CreatedMeansUsable'
  BY DEF CreatedMeansUsable
<1> QED BY <1>2, <1>3, <1>4, <1>5, <1>6, <1>7, <1>8

LEMMA KafkaAlive ==
  ASSUME Typed, Alive, NEW w \in Workers,
         Commit(w) \/ Rebalance(w) \/ Drop(w) \/ Crash(w)
  PROVE  Alive'
<1>1. UNCHANGED <<sources, aws, counted>>
  BY DEF Commit, Rebalance, Drop, Crash
<1>2. \A v \in Workers :
        pc'[v] = "idle" \/ (pc'[v] = pc[v] /\ job'[v] = job[v])
  BY DEF Commit, Rebalance, Drop, Crash, Typed, TypeOK
<1>3. \A m : m \in queue' \/ (\E v \in Workers : m \in uncommitted'[v]) =>
             m \in queue \/ (\E v \in Workers : m \in uncommitted[v])
  BY DEF Commit, Rebalance, Drop, Deliver, Crash, Typed, TypeOK
<1>4. Teardowns' \subseteq Teardowns
  BY <1>3, TeardownsAre, TeardownsWillBe
<1>5. Creations' \subseteq Creations
  BY <1>2, <1>3, CreationsAre, CreationsWillBe, WorkingLocations
<1> QED BY <1>1, <1>2, <1>4, <1>5, LosingStep

-----------------------------------------------------------------------------
(***************************************************************************)
(* The users of Sources.                                                   *)
(***************************************************************************)

LEMMA RequestApplicationAlive ==
  ASSUME Typed, Alive, NEW a \in Apps, RequestApplication(a)
  PROVE  Alive'
<1> USE DEF Alive
<1>1. PICK m :
        /\ m.type = "create_application" /\ m.app = a
        /\ queue' = queue \union {m}
        /\ sources'[a].state = "live" /\ sources'[a].list = m.steps
        /\ sources'[a].superkey = sources[a].superkey
        /\ \A b \in Apps \ {a} : sources'[b] = sources[b]
  <2>1. PICK steps \in StepLists, e \in Envelopes :
          /\ sources' = [sources EXCEPT ![a].state = "live", ![a].list = steps]
          /\ queue' = queue \union
               {[type |-> "create_application", envelope |-> e,
                 steps |-> steps, app |-> a]}
    BY DEF RequestApplication
  <2> DEFINE new == [type |-> "create_application", envelope |-> e,
                     steps |-> steps, app |-> a]
  <2>2. /\ new.type = "create_application" /\ new.app = a
        /\ new.steps = steps /\ queue' = queue \union {new}
    BY <2>1
  <2> HIDE DEF new
  <2>3. /\ sources'[a].state = "live" /\ sources'[a].list = steps
        /\ sources'[a].superkey = sources[a].superkey
        /\ \A b \in Apps \ {a} : sources'[b] = sources[b]
    BY <2>1 DEF Typed, TypeOK, Application
  <2> QED BY <2>2, <2>3
<1>2. /\ sources[a].state = "absent" /\ sources[a].superkey = NoSuperkey
      /\ UNCHANGED <<uncommitted, pc, job, aws, counted>>
  BY DEF RequestApplication, ListKept
<1>3. Teardowns' = Teardowns
  BY <1>1, <1>2, TeardownsAre, TeardownsWillBe
<1>4. \A c \in Creations' : c = m \/ c \in Creations
  BY <1>1, <1>2, CreationsAre, CreationsWillBe
<1>5. \A w \in Workers : pc[w] \in Creating => job[w].msg.app \in Apps \ {a}
  BY <1>2, AppOfRequest, CreationsAre DEF ListKept
<1>6. ListKept'
  <2>1. \A c \in Creations : c.app \in Apps \ {a}
    BY <1>2, CreationApps DEF ListKept
  <2> QED BY <1>1, <1>2, <1>4, <2>1 DEF ListKept
<1>7. NamedOnly'
  BY <1>1, <1>2, <1>3, GuidsAre DEF NamedOnly
<1>8. OwnRecord'
  BY <1>1, <1>2 DEF OwnRecord
<1>9. PostsAlone'
  BY <1>1, <1>2, <1>3, <1>5, WorkingLocations DEF PostsAlone
<1>10. LinksInOrder'
  <2>1. \A w \in Workers :
          pc[w] \in {"link_auth", "check"} => job[w].msg.app \in Apps \ {a}
    BY <1>5, WorkingLocations DEF Posting
  <2> QED BY <1>1, <1>2, <2>1 DEF LinksInOrder
<1>11. SuccessKept'
  BY <1>1, <1>2, <1>3 DEF SuccessKept
<1>12. CreatedMeansUsable'
  BY <1>1, <1>2, GuidsAre DEF CreatedMeansUsable
<1> QED BY <1>6, <1>7, <1>8, <1>9, <1>10, <1>11, <1>12

\* What a user who removes an application does to Sources and to the topic.
LEMMA DeleteApplicationIs ==
  ASSUME Typed, NEW a \in Apps, DeleteApplication(a)
  PROVE  /\ sources[a].state = "live"
         /\ sources'[a].state = "deleted" /\ sources'[a].superkey = NoSuperkey
         /\ \A b \in Apps \ {a} : sources'[b] = sources[b]
         /\ UNCHANGED <<pc, job, aws, used, counted>>
         /\ Creations' = Creations
         /\ \A m \in Teardowns' :
              \/ m \in Teardowns
              \/ /\ m.guid = sources[a].superkey.guid /\ m.guid # None
                 /\ m.completed = sources[a].superkey.steps
                 /\ m.steps = sources[a].list
<1>1. /\ sources[a].state = "live"
      /\ sources'[a].state = "deleted" /\ sources'[a].superkey = NoSuperkey
      /\ \A b \in Apps \ {a} : sources'[b] = sources[b]
      /\ UNCHANGED <<uncommitted, pc, job, aws, used, counted>>
  BY DEF DeleteApplication, Blank, Typed, TypeOK
<1>2. \/ queue' = queue
      \/ \E m : /\ m.type = "destroy_application"
                /\ m.guid = sources[a].superkey.guid /\ m.guid # None
                /\ m.completed = sources[a].superkey.steps
                /\ m.steps = sources[a].list
                /\ queue' = queue \union {m}
  <2> DEFINE known == sources[a].superkey
             m(e) == [type |-> "destroy_application", envelope |-> e,
                      steps |-> sources[a].list, guid |-> known.guid,
                      completed |-> known.steps]
  <2>1. CASE known.guid = None
    BY <2>1 DEF DeleteApplication
  <2>2. CASE known.guid # None
    <3>1. PICK e \in Envelopes : queue' = queue \union {m(e)}
      BY <2>2 DEF DeleteApplication
    <3> QED BY <2>2, <3>1
  <2> QED BY <2>1, <2>2
<1>3. Creations' = Creations
  <2>1. \A c : c.type = "create_application" =>
               (c \in queue' <=> c \in queue)
    BY <1>2
  <2>2. \A c : c \in Creations' <=> c \in Creations
    BY <1>1, <2>1, CreationsAre, CreationsWillBe
  <2> QED BY <2>2, Zenon
<1> QED BY <1>1, <1>2, <1>3, TeardownsAre, TeardownsWillBe

LEMMA DeleteApplicationAlive ==
  ASSUME Typed, Alive, NEW a \in Apps, DeleteApplication(a)
  PROVE  Alive'
<1> USE DEF Alive
<1> USE DeleteApplicationIs
<1>1. ListKept'
  BY CreationApps DEF ListKept
<1>2. NamedOnly'
  BY GuidsAre DEF NamedOnly
<1>3. OwnRecord'
  BY GuidsAre, WorkingLocations DEF OwnRecord
<1>4. PostsAlone'
  <2>1. \A w \in Workers : pc[w] \in Posting => job[w].msg.app \in Apps
    BY AppOfRequest, WorkingLocations
  <2> QED BY <2>1, GuidsAre, WorkingLocations DEF PostsAlone
<1>5. LinksInOrder'
  <2>1. \A w \in Workers :
          pc[w] \in {"link_auth", "check"} => job[w].msg.app \in Apps
    BY AppOfRequest, WorkingLocations DEF Posting
  <2> QED BY <2>1 DEF LinksInOrder
<1>6. SuccessKept'
  BY GuidsAre DEF SuccessKept
<1>7. CreatedMeansUsable'
  BY GuidsAre DEF CreatedMeansUsable
<1> QED BY <1>1, <1>2, <1>3, <1>4, <1>5, <1>6, <1>7

-----------------------------------------------------------------------------
(***************************************************************************)
(* Receiving a request.                                                    *)
(***************************************************************************)

\* A new GUID is known to nobody.
LEMMA ReceiveCreateIs ==
  ASSUME Typed, Safe, NEW w \in Workers, ReceiveCreate(w)
  PROVE  \E g \in Guids \ used :
           /\ pc[w] = "idle" /\ pc'[w] = "forge_auth"
           /\ job'[w].guid = g /\ job'[w].done = {}
           /\ job'[w].msg \in Creations
           /\ \A v \in Workers \ {w} : pc'[v] = pc[v] /\ job'[v] = job[v]
           /\ used' = used \union {g}
           /\ UNCHANGED <<aws, sources, counted>>
           /\ Teardowns' \subseteq Teardowns
           /\ Creations' \subseteq Creations
           /\ \A v \in Workers : pc[v] # "idle" => job[v].guid # g
           /\ \A m \in Teardowns : m.guid # g
           /\ \A a \in Apps : sources[a].superkey.guid # g
           /\ g \notin counted["creation_ok"]
<1>1. PICK m \in queue, g \in Guids \ used :
        /\ m.type = "create_application"
        /\ queue' = queue \ {m}
        /\ uncommitted' = [uncommitted EXCEPT ![w] = @ \union {m}]
        /\ used' = used \union {g}
        /\ job' = [job EXCEPT ![w] =
             [msg |-> m, guid |-> g, auth |-> m.envelope.headers, next |-> 0,
              done |-> {}, left |-> {}, failed |-> FALSE]]
  BY DEF ReceiveCreate, Deliver
<1>2. /\ pc[w] = "idle"
      /\ pc' = [pc EXCEPT ![w] = "forge_auth"]
      /\ UNCHANGED <<aws, sources, counted>>
  BY DEF ReceiveCreate, Deliver
<1>3. /\ pc'[w] = "forge_auth"
      /\ job'[w].guid = g /\ job'[w].done = {} /\ job'[w].msg = m
      /\ \A v \in Workers \ {w} : pc'[v] = pc[v] /\ job'[v] = job[v]
  BY <1>1, <1>2 DEF Typed, TypeOK
<1>4. m \in Creations
  BY <1>1, CreationsAre
<1>5. \A r : r \in queue' \/ (\E v \in Workers : r \in uncommitted'[v]) =>
             r \in queue \/ (\E v \in Workers : r \in uncommitted[v])
  BY <1>1 DEF Typed, TypeOK
<1>6. Teardowns' \subseteq Teardowns
  BY <1>5, TeardownsAre, TeardownsWillBe
<1>7. Creations' \subseteq Creations
  BY <1>3, <1>4, <1>5, CreationsAre, CreationsWillBe
<1>8. /\ \A v \in Workers : pc[v] # "idle" => job[v].guid # g
      /\ \A r \in Teardowns : r.guid # g
      /\ \A a \in Apps : sources[a].superkey.guid # g
      /\ g \notin counted["creation_ok"]
  BY WorkerAssumption DEF Safe, KnownAreUsed, Counters
<1> QED BY <1>1, <1>2, <1>3, <1>4, <1>6, <1>7, <1>8

LEMMA ReceiveCreateAlive ==
  ASSUME Typed, Safe, Alive, NEW w \in Workers, ReceiveCreate(w)
  PROVE  Alive'
<1> USE DEF Alive
<1>1. PICK g \in Guids \ used :
        /\ pc[w] = "idle" /\ pc'[w] = "forge_auth"
        /\ job'[w].guid = g /\ job'[w].done = {}
        /\ \A v \in Workers \ {w} : pc'[v] = pc[v] /\ job'[v] = job[v]
        /\ UNCHANGED <<aws, sources, counted>>
        /\ Teardowns' \subseteq Teardowns
        /\ Creations' \subseteq Creations
        /\ \A v \in Workers : pc[v] # "idle" => job[v].guid # g
        /\ \A m \in Teardowns : m.guid # g
        /\ \A a \in Apps : sources[a].superkey.guid # g
        /\ g \notin counted["creation_ok"]
  BY ReceiveCreateIs
<1>2. pc'[w] \notin TearingDown \union {"destroy_auth"} \union Posting
  BY <1>1 DEF TearingDown, Posting
<1>3. ListKept'
  BY <1>1 DEF ListKept
<1>4. NamedOnly'
  BY <1>1, <1>2 DEF NamedOnly
<1>5. OwnRecord'
  BY <1>1 DEF OwnRecord
<1>6. PostsAlone'
  BY <1>1, <1>2, WorkingLocations DEF PostsAlone
<1>7. LinksInOrder'
  BY <1>1, <1>2 DEF LinksInOrder, Posting
<1>8. SuccessKept'
  BY <1>1 DEF SuccessKept
<1>9. CreatedMeansUsable'
  BY <1>1 DEF CreatedMeansUsable
<1> QED BY <1>3, <1>4, <1>5, <1>6, <1>7, <1>8, <1>9

LEMMA ReceiveDestroyIs ==
  ASSUME Typed, NEW w \in Workers, ReceiveDestroy(w)
  PROVE  \E m \in Teardowns :
           /\ pc[w] = "idle" /\ pc'[w] = "destroy_auth"
           /\ job'[w].msg = m /\ job'[w].guid = m.guid
           /\ job'[w].left = m.completed
           /\ \A v \in Workers \ {w} : pc'[v] = pc[v] /\ job'[v] = job[v]
           /\ UNCHANGED <<aws, sources, used, counted>>
           /\ Teardowns' \subseteq Teardowns
           /\ Creations' \subseteq Creations
<1>1. PICK m \in queue :
        /\ m.type = "destroy_application"
        /\ queue' = queue \ {m}
        /\ uncommitted' = [uncommitted EXCEPT ![w] = @ \union {m}]
        /\ job' = [job EXCEPT ![w] =
             [msg |-> m, guid |-> m.guid, auth |-> {}, next |-> 0,
              done |-> m.completed, left |-> m.completed, failed |-> FALSE]]
  BY DEF ReceiveDestroy, Deliver
<1>2. /\ pc[w] = "idle"
      /\ pc' = [pc EXCEPT ![w] = "destroy_auth"]
      /\ UNCHANGED <<aws, sources, used, counted>>
  BY DEF ReceiveDestroy, Deliver
<1>3. /\ pc'[w] = "destroy_auth" /\ job'[w].msg = m
      /\ job'[w].guid = m.guid /\ job'[w].left = m.completed
      /\ \A v \in Workers \ {w} : pc'[v] = pc[v] /\ job'[v] = job[v]
  BY <1>1, <1>2 DEF Typed, TypeOK
<1>4. m \in Teardowns
  BY <1>1, TeardownsAre
<1>5. \A r : r \in queue' \/ (\E v \in Workers : r \in uncommitted'[v]) =>
             r \in queue \/ (\E v \in Workers : r \in uncommitted[v])
  BY <1>1 DEF Typed, TypeOK
<1>6. Teardowns' \subseteq Teardowns
  BY <1>5, TeardownsAre, TeardownsWillBe
<1>7. Creations' \subseteq Creations
  BY <1>3, <1>5, CreationsAre, CreationsWillBe, WorkingLocations
<1> QED BY <1>2, <1>3, <1>4, <1>6, <1>7

LEMMA ReceiveDestroyAlive ==
  ASSUME Typed, Alive, NEW w \in Workers, ReceiveDestroy(w)
  PROVE  Alive'
<1> USE DEF Alive
<1>1. PICK m \in Teardowns :
        /\ pc[w] = "idle" /\ pc'[w] = "destroy_auth"
        /\ job'[w].msg = m /\ job'[w].guid = m.guid
        /\ job'[w].left = m.completed
        /\ \A v \in Workers \ {w} : pc'[v] = pc[v] /\ job'[v] = job[v]
        /\ UNCHANGED <<aws, sources, counted>>
        /\ Teardowns' \subseteq Teardowns
        /\ Creations' \subseteq Creations
  BY ReceiveDestroyIs
<1>2. ListKept'
  BY <1>1 DEF ListKept
<1>3. NamedOnly'
  BY <1>1, WorkingLocations DEF NamedOnly
<1>4. OwnRecord'
  BY <1>1, WorkingLocations DEF OwnRecord
<1>5. PostsAlone'
  BY <1>1, WorkingLocations DEF PostsAlone
<1>6. LinksInOrder'
  BY <1>1 DEF LinksInOrder
<1>7. SuccessKept'
  BY <1>1 DEF SuccessKept
<1>8. CreatedMeansUsable'
  BY <1>1 DEF CreatedMeansUsable
<1> QED BY <1>2, <1>3, <1>4, <1>5, <1>6, <1>7, <1>8

-----------------------------------------------------------------------------
(***************************************************************************)
(* The calls to AWS that create and delete.                                *)
(***************************************************************************)

LEMMA ForgeStepIs ==
  ASSUME Typed, NEW w \in Workers, ForgeStep(w)
  PROVE  \E reply \in Outcomes, name \in Kinds :
           /\ pc[w] = "forge" /\ job[w].guid \in Guids
           /\ name \in Named(job[w].msg.steps)
           /\ aws' = AfterCreate(aws, name, job[w].guid, reply)
           /\ reply = "ok" =>
                /\ pc'[w] \in {"bucket_policy", "forge"}
                /\ job'[w].done \subseteq job[w].done \union {name}
           /\ reply # "ok" =>
                /\ pc'[w] = "teardown_forge"
                /\ job'[w].done = job[w].done
                /\ job'[w].left = job[w].done
           /\ job'[w].guid = job[w].guid /\ job'[w].msg = job[w].msg
           /\ \A v \in Workers \ {w} : pc'[v] = pc[v] /\ job'[v] = job[v]
           /\ UNCHANGED <<queue, uncommitted, sources, used, counted>>
<1> DEFINE g == job[w].guid
           name == Resource(CurrentStep(w))
<1>1. /\ pc[w] = "forge" /\ job[w] \in Job /\ g \in Guids /\ name \in Kinds
      /\ job[w].msg \in CreateRequest
  BY StepForged DEF ForgeStep, Job, Typed, Shape
<1>2. name \in Named(job[w].msg.steps)
  <2>1. job[w].msg.steps \in Seq(Step)
    BY <1>1, WorkerAssumption DEF CreateRequest
  <2>2. job[w].next \in 1 .. Len(job[w].msg.steps)
    BY <1>1, <2>1, StepForged DEF ForgeStep, AtStep, Job
  <2>3. job[w].next \in DOMAIN job[w].msg.steps
    BY <2>1, <2>2
  <2> QED BY <2>3 DEF Named, CurrentStep
<1>3. PICK reply \in Outcomes :
        /\ aws' = AfterCreate(aws, name, g, reply)
        /\ IF reply = "ok"
           THEN /\ job'[w].done = MarkCompleted(job[w].done, name)
                /\ pc'[w] \in {"bucket_policy", "forge"}
           ELSE /\ pc'[w] = "teardown_forge"
                /\ job'[w].done = job[w].done
                /\ job'[w].left = job[w].done
        /\ job'[w].guid = g /\ job'[w].msg = job[w].msg
        /\ UNCHANGED counted
        /\ \A v \in Workers \ {w} : pc'[v] = pc[v] /\ job'[v] = job[v]
  BY <1>1, AwsOutcomesAssumption
  DEF ForgeStep, Replies, Outcomes, GiveUp, Goto, Job, Typed, TypeOK
<1>4. UNCHANGED <<queue, uncommitted, sources, used>>
  BY DEF ForgeStep
<1> HIDE DEF name
<1>5. MarkCompleted(job[w].done, name) \subseteq job[w].done \union {name}
  BY DEF MarkCompleted
<1> QED BY <1>1, <1>2, <1>3, <1>4, <1>5

LEMMA ForgeStepAlive ==
  ASSUME Typed, Alive, NEW w \in Workers, ForgeStep(w)
  PROVE  Alive'
<1> USE DEF Alive
<1> DEFINE g == job[w].guid
<1>1. PICK reply \in Outcomes, name \in Kinds :
        /\ pc[w] = "forge"
        /\ name \in Named(job[w].msg.steps)
        /\ aws' = AfterCreate(aws, name, g, reply)
        /\ reply = "ok" =>
             /\ pc'[w] \in {"bucket_policy", "forge"}
             /\ job'[w].done \subseteq job[w].done \union {name}
        /\ reply # "ok" =>
             /\ pc'[w] = "teardown_forge"
             /\ job'[w].done = job[w].done
             /\ job'[w].left = job[w].done
        /\ job'[w].guid = g /\ job'[w].msg = job[w].msg
        /\ \A v \in Workers \ {w} : pc'[v] = pc[v] /\ job'[v] = job[v]
        /\ UNCHANGED <<queue, uncommitted, sources, used, counted>>
  BY ForgeStepIs
<1>2. /\ pc[w] \in Creating /\ pc[w] \in Forging /\ pc[w] # "idle"
      /\ pc'[w] \in Creating /\ pc'[w] # "idle"
      /\ pc'[w] \notin Posting /\ pc'[w] # "destroy_auth"
      /\ pc'[w] \in Forging => reply = "ok"
      /\ pc'[w] \in TearingDown => reply # "ok"
  BY <1>1 DEF Creating, Forging, Posting, TearingDown
<1>3. /\ aws \subseteq aws'
      /\ reply = "ok" => <<name, g>> \in aws'
  BY <1>1 DEF AfterCreate
<1>4. /\ Teardowns' \subseteq Teardowns
      /\ Creations' \subseteq Creations
  BY <1>1, <1>2, TeardownsAre, TeardownsWillBe, CreationsAre, CreationsWillBe
<1>5. \A v \in Workers :
        /\ pc'[v] # "idle" <=> pc[v] # "idle"
        /\ pc'[v] \in Creating <=> pc[v] \in Creating
        /\ job'[v].guid = job[v].guid
  BY <1>1, <1>2
<1>6. ListKept'
  BY <1>1, <1>4 DEF ListKept
<1>7. NamedOnly'
  BY <1>1, <1>2, <1>4 DEF NamedOnly
<1>8. OwnRecord'
  BY <1>1, <1>5 DEF OwnRecord
<1>9. PostsAlone'
  BY <1>1, <1>2, <1>3, <1>4, <1>5 DEF PostsAlone
<1>10. LinksInOrder'
  BY <1>1, <1>2 DEF LinksInOrder, Posting
<1>11. SuccessKept'
  BY <1>1, <1>4, <1>5 DEF SuccessKept
<1>12. CreatedMeansUsable'
  BY <1>1, <1>3 DEF CreatedMeansUsable
<1> QED BY <1>6, <1>7, <1>8, <1>9, <1>10, <1>11, <1>12

LEMMA TearDownStepIs ==
  ASSUME Typed, NEW w \in Workers, TearDownStep(w)
  PROVE  \E kind \in Kinds, reply \in Outcomes :
           /\ pc[w] \in TearingDown /\ job[w].guid \in Guids
           /\ IsNextDown(kind, job[w].left)
           /\ aws' = AfterDelete(aws, kind, job[w].guid, reply)
           /\ job'[w].guid = job[w].guid /\ job'[w].msg = job[w].msg
           /\ job'[w].done = job[w].done
           /\ job'[w].left = job[w].left \ {kind}
           /\ \A v \in Workers \ {w} : job'[v] = job[v]
           /\ UNCHANGED <<queue, uncommitted, pc, sources, used, counted>>
<1>1. /\ pc[w] \in TearingDown /\ job[w] \in Job /\ job[w].guid \in Guids
  BY DEF TearDownStep, TearingDown, Typed, TypeOK, Job
<1>2. PICK kind \in Kinds, reply \in Outcomes :
        /\ IsNextDown(kind, job[w].left)
        /\ aws' = AfterDelete(aws, kind, job[w].guid, reply)
        /\ job' = [job EXCEPT ![w].left = @ \ {kind},
                              ![w].failed = @ \/ reply # "ok"]
  BY AwsOutcomesAssumption DEF TearDownStep, Replies, Outcomes
<1>3. /\ job'[w].guid = job[w].guid /\ job'[w].msg = job[w].msg
      /\ job'[w].done = job[w].done
      /\ job'[w].left = job[w].left \ {kind}
      /\ \A v \in Workers \ {w} : job'[v] = job[v]
  BY <1>1, <1>2 DEF Job, Typed, TypeOK
<1>4. UNCHANGED <<queue, uncommitted, pc, sources, used, counted>>
  BY DEF TearDownStep
<1> QED BY <1>1, <1>2, <1>3, <1>4

\* Whoever tears a GUID down, nobody else forges or posts it, and no record
\* of a success has it.
LEMMA TearDownStepAlive ==
  ASSUME Typed, Safe, Alive, NEW w \in Workers, TearDownStep(w)
  PROVE  Alive'
<1> USE DEF Alive
<1> DEFINE g == job[w].guid
<1>1. PICK kind \in Kinds, reply \in Outcomes :
        /\ pc[w] \in TearingDown
        /\ aws' = AfterDelete(aws, kind, g, reply)
        /\ job'[w].guid = g /\ job'[w].msg = job[w].msg
        /\ job'[w].done = job[w].done
        /\ job'[w].left = job[w].left \ {kind}
        /\ \A v \in Workers \ {w} : job'[v] = job[v]
        /\ UNCHANGED <<queue, uncommitted, pc, sources, used, counted>>
  BY TearDownStepIs
<1>2. \A v \in Workers : /\ job'[v].guid = job[v].guid
                         /\ job'[v].msg = job[v].msg
                         /\ job'[v].done = job[v].done
                         /\ job'[v].left \subseteq job[v].left
  BY <1>1
<1>3. \A k, h : <<k, h>> \in aws /\ h # g => <<k, h>> \in aws'
  BY <1>1 DEF AfterDelete
<1>4. /\ Teardowns' \subseteq Teardowns
      /\ Creations' \subseteq Creations
  BY <1>1, <1>2, TeardownsAre, TeardownsWillBe, CreationsAre, CreationsWillBe
<1>5. /\ pc[w] # "idle"
      /\ \A v \in Workers : pc[v] \in Forging => job[v].guid # g
  BY <1>1, WorkingLocations DEF Safe, ForgesAlone
<1>6. ListKept'
  BY <1>1, <1>4 DEF ListKept
<1>7. NamedOnly'
  BY <1>1, <1>2, <1>4 DEF NamedOnly
<1>8. OwnRecord'
  BY <1>1, <1>2 DEF OwnRecord
<1>9. PostsAlone'
  <2>1. \A v \in Workers : pc[v] \in Posting
                             /\ sources[job[v].msg.app].state = "live" =>
                             job[v].guid # g
    BY <1>1, <1>5, WorkingLocations DEF PostsAlone
  <2> QED BY <1>1, <1>2, <1>3, <1>4, <1>5, <2>1 DEF PostsAlone
<1>10. LinksInOrder'
  BY <1>1, <1>2 DEF LinksInOrder
<1>11. SuccessKept'
  BY <1>1, <1>2, <1>4 DEF SuccessKept
<1>12. CreatedMeansUsable'
  BY <1>1, <1>3, <1>5 DEF CreatedMeansUsable, SuccessKept
<1> QED BY <1>6, <1>7, <1>8, <1>9, <1>10, <1>11, <1>12

-----------------------------------------------------------------------------
(***************************************************************************)
(* The other steps of a handler.                                           *)
(***************************************************************************)

\* What the handler's requests change in Sources: the record only of an
\* application that Sources still has.
Writes(w) ==
  \/ UNCHANGED sources
  \/ LET a == job[w].msg.app IN
     /\ pc[w] \in (Posting \ {"check"}) \union Marking
     /\ \A b \in Apps \ {a} : sources'[b] = sources[b]
     /\ sources'[a].state = sources[a].state
     /\ sources'[a].list = sources[a].list
     /\ sources[a].auths \subseteq sources'[a].auths
     /\ sources[a].linked \subseteq sources'[a].linked
     /\ \/ sources'[a].superkey = sources[a].superkey
        \/ sources'[a].superkey = NoSuperkey /\ sources[a].state = "live"
        \/ /\ sources[a].state = "live"
           /\ sources'[a].superkey.guid = job[w].guid
           /\ sources'[a].superkey.steps = job[w].done

\* The order of the requests to Sources.
Proceeds(w) ==
  LET a == job[w].msg.app IN
  /\ UNCHANGED <<queue, uncommitted>>
  /\ pc'[w] \in Posting => pc[w] \in Posting \union {"forge"}
  /\ pc'[w] = "link_auth" =>
       pc[w] = "create_auth" /\ job[w].guid \in sources'[a].auths
  /\ pc'[w] = "check" =>
       pc[w] = "link_auth" /\ job[w].guid \in sources'[a].linked
  /\ Writes(w)

\* HandlerStep in the form the proof below needs it.
LEMMA HandlerStepIs ==
  ASSUME Typed, Alive, NEW w \in Workers, HandlerStep(w), Proceeds(w)
  PROVE  /\ job[w].guid \in Guids /\ job[w].guid # None /\ pc[w] # "idle"
         /\ Teardowns' \subseteq Teardowns
         /\ Creations' \subseteq Creations
         /\ \A v \in Workers \ {w} : pc'[v] = pc[v] /\ job'[v] = job[v]
         /\ \A v \in Workers :
              /\ pc'[v] # "idle" => pc[v] # "idle" /\ job'[v].guid = job[v].guid
              /\ pc'[v] \in Creating => pc[v] \in Creating
         /\ pc'[w] # "idle" =>
              job'[w].msg = job[w].msg /\ job'[w].done = job[w].done
         /\ \/ UNCHANGED counted
            \/ counted'["creation_ok"] = counted["creation_ok"]
            \/ /\ counted'["creation_ok"] =
                    counted["creation_ok"] \union {job[w].guid}
               /\ pc[w] = "check" /\ pc'[w] = "idle" /\ UNCHANGED sources
<1> USE DEF HandlerStep, ReplicasKept, Proceeds
<1>1. job[w].guid \in Guids /\ job[w].guid # None /\ pc[w] # "idle"
  BY WorkerAssumption DEF Typed, TypeOK, Job
<1>2. \A v \in Workers :
        /\ pc'[v] # "idle" => pc[v] # "idle" /\ job'[v].guid = job[v].guid
        /\ pc'[v] \in Creating => pc[v] \in Creating
  BY <1>1, WorkingLocations DEF Advances, Returns
<1>3. pc'[w] # "idle" => job'[w].msg = job[w].msg /\ job'[w].done = job[w].done
  BY DEF Advances, Returns
<1>4. Teardowns' \subseteq Teardowns /\ Creations' \subseteq Creations
  BY <1>2, <1>3, TeardownsAre, TeardownsWillBe, CreationsAre, CreationsWillBe,
     WorkingLocations
<1>5. \/ counted'["creation_ok"] = counted["creation_ok"]
      \/ /\ counted'["creation_ok"] =
              counted["creation_ok"] \union {job[w].guid}
         /\ pc[w] = "check" /\ pc'[w] = "idle"
  BY DEF Advances, Returns, Counters
<1>6. pc[w] = "check" => UNCHANGED sources
  BY DEF Writes, Posting, Marking
<1> QED BY <1>1, <1>2, <1>3, <1>4, <1>5, <1>6

LEMMA HandlerStepAlive ==
  ASSUME Typed, Safe, Alive, NEW w \in Workers, HandlerStep(w), Proceeds(w)
  PROVE  Alive'
<1> USE DEF Alive
<1> DEFINE g == job[w].guid
           a == job[w].msg.app
           ok == counted["creation_ok"]
<1>1. /\ g \in Guids /\ g # None /\ pc[w] # "idle"
      /\ Teardowns' \subseteq Teardowns
      /\ Creations' \subseteq Creations
      /\ \A v \in Workers \ {w} : pc'[v] = pc[v] /\ job'[v] = job[v]
      /\ \A v \in Workers :
           /\ pc'[v] # "idle" => pc[v] # "idle" /\ job'[v].guid = job[v].guid
           /\ pc'[v] \in Creating => pc[v] \in Creating
      /\ pc'[w] # "idle" =>
           job'[w].msg = job[w].msg /\ job'[w].done = job[w].done
  BY HandlerStepIs
<1>2. \/ counted'["creation_ok"] = ok
      \/ /\ counted'["creation_ok"] = ok \union {g}
         /\ pc[w] = "check" /\ pc'[w] = "idle" /\ UNCHANGED sources
  BY HandlerStepIs
<1>3. UNCHANGED aws
  BY DEF HandlerStep
<1>4. \/ UNCHANGED sources
      \/ /\ pc[w] \in Creating \ Forging /\ pc[w] # "check"
         /\ a \in Apps
         /\ \A b \in Apps \ {a} : sources'[b] = sources[b]
         /\ sources'[a].state = sources[a].state
         /\ sources'[a].list = sources[a].list
         /\ sources[a].auths \subseteq sources'[a].auths
         /\ sources[a].linked \subseteq sources'[a].linked
         /\ \/ sources'[a].superkey = sources[a].superkey
            \/ sources'[a].superkey = NoSuperkey /\ sources[a].state = "live"
            \/ /\ sources[a].state = "live"
               /\ sources'[a].superkey.guid = g
               /\ sources'[a].superkey.steps = job[w].done
  <2>1. pc[w] \in (Posting \ {"check"}) \union Marking =>
          pc[w] \in Creating \ Forging /\ pc[w] # "check"
    BY DEF Creating, Forging, Posting, Marking
  <2> QED BY <2>1, AppOfRequest DEF Proceeds, Writes
<1>5. /\ None \notin ok /\ NoSuperkey.guid = None /\ NoSuperkey.steps = {}
      /\ \A v \in Workers : pc[v] # "idle" => job[v].guid # None
  BY GuidsAre
<1>6. \A b \in Apps :
        /\ sources'[b].state = sources[b].state
        /\ sources'[b].list = sources[b].list
        /\ sources[b].auths \subseteq sources'[b].auths
        /\ sources[b].linked \subseteq sources'[b].linked
        /\ \/ sources'[b].superkey = sources[b].superkey
           \/ sources'[b].superkey = NoSuperkey /\ sources[b].state = "live"
           \/ /\ b = a /\ pc[w] \in Creating \ Forging
              /\ sources[b].state = "live"
              /\ sources'[b].superkey.guid = g
              /\ sources'[b].superkey.steps = job[w].done
  BY <1>4
<1>7. pc[w] \in Creating => g \notin ok
  BY DEF Safe, CreatesOnce
<1>8. ListKept'
  <2>1. \A m \in Creations : m.app \in Apps
    BY CreationApps
  <2> QED BY <1>1, <1>6, <2>1 DEF ListKept
<1>9. NamedOnly'
  <2>1. \A v \in Workers :
          /\ pc'[v] \in Creating =>
               job'[v].done \subseteq Named(job'[v].msg.steps)
          /\ pc'[v] \in TearingDown \union {"destroy_auth"} =>
               job'[v].left \subseteq Named(job'[v].msg.steps)
    <3> SUFFICES ASSUME NEW v \in Workers
                 PROVE  /\ pc'[v] \in Creating =>
                             job'[v].done \subseteq Named(job'[v].msg.steps)
                        /\ pc'[v] \in TearingDown \union {"destroy_auth"} =>
                             job'[v].left \subseteq Named(job'[v].msg.steps)
      OBVIOUS
    <3>1. CASE v # w
      BY <1>1, <3>1 DEF NamedOnly
    <3>2. CASE v = w
      BY <1>1, <3>2, WorkingLocations
      DEF NamedOnly, HandlerStep, Advances, Returns
    <3> QED BY <3>1, <3>2
  <2>2. pc[w] \in Creating /\ sources[a].state = "live" =>
          job[w].done \subseteq Named(sources[a].list)
    BY CreationsAre DEF ListKept, NamedOnly
  <2> QED BY <1>1, <1>5, <1>6, <2>1, <2>2 DEF NamedOnly
<1>10. OwnRecord'
  <2> SUFFICES ASSUME NEW v \in Workers, NEW b \in Apps, pc'[v] \in Creating,
                      sources'[b].superkey.guid = job'[v].guid
               PROVE  b = job'[v].msg.app
    BY DEF OwnRecord
  <2>1. /\ pc[v] \in Creating /\ job'[v].guid = job[v].guid /\ pc[v] # "idle"
        /\ job'[v].msg = job[v].msg
    BY <1>1, WorkingLocations
  <2>2. CASE sources'[b].superkey = sources[b].superkey
    BY <2>1, <2>2 DEF OwnRecord
  <2>3. CASE sources'[b].superkey = NoSuperkey
    BY <1>5, <2>1, <2>3
  <2>4. CASE b = a /\ pc[w] \in Creating /\ sources'[b].superkey.guid = g
    BY <2>1, <2>4 DEF Safe, CreatesOnce
  <2> QED BY <1>6, <2>2, <2>3, <2>4
<1>11. PostsAlone'
  <2> SUFFICES ASSUME NEW v \in Workers
               PROVE  /\ pc'[v] \in Forging =>
                           job'[v].done \X {job'[v].guid} \subseteq aws
                      /\ pc'[v] \in Posting
                           /\ sources'[job'[v].msg.app].state = "live" =>
                           /\ job'[v].done \X {job'[v].guid} \subseteq aws
                           /\ \A u \in Workers :
                                pc'[u] # "idle" /\ job'[u].guid = job'[v].guid
                                  => u = v
                           /\ \A m \in Teardowns' : m.guid # job'[v].guid
                           /\ \A b \in Apps :
                                sources'[b].superkey.guid = job'[v].guid =>
                                  /\ b = job'[v].msg.app
                                  /\ sources'[b].superkey.steps = job'[v].done
    BY <1>3 DEF PostsAlone
  <2>1. ASSUME pc'[v] \in Forging
        PROVE  job'[v].done \X {job'[v].guid} \subseteq aws
    <3>1. pc[v] \in Forging /\ pc'[v] # "idle"
      BY <1>1, <2>1, WorkingLocations DEF HandlerStep, Advances, Returns
    <3> QED BY <1>1, <3>1 DEF PostsAlone
  <2>2. ASSUME pc'[v] \in Posting, sources'[job'[v].msg.app].state = "live"
        PROVE  /\ job'[v].done \X {job'[v].guid} \subseteq aws
               /\ \A u \in Workers :
                    pc'[u] # "idle" /\ job'[u].guid = job'[v].guid => u = v
               /\ \A m \in Teardowns' : m.guid # job'[v].guid
               /\ \A b \in Apps :
                    sources'[b].superkey.guid = job'[v].guid =>
                      /\ b = job'[v].msg.app
                      /\ sources'[b].superkey.steps = job'[v].done
    <3>1. /\ pc'[v] # "idle" /\ pc[v] # "idle" /\ pc[v] \in Creating
          /\ job'[v].guid = job[v].guid /\ job'[v].msg = job[v].msg
          /\ job'[v].done = job[v].done
      BY <1>1, <2>2, WorkingLocations
    <3>2. job[v].msg.app \in Apps /\ sources[job[v].msg.app].state = "live"
      BY <1>6, <2>2, <3>1, AppOfRequest
    <3>3. pc[v] \in Posting \/ (v = w /\ pc[w] \in Forging)
      BY <1>1, <2>2 DEF Proceeds, Forging
    <3>4. CASE pc[v] \in Posting
      <4>1. /\ job[v].done \X {job[v].guid} \subseteq aws
            /\ \A u \in Workers :
                 pc[u] # "idle" /\ job[u].guid = job[v].guid => u = v
            /\ \A m \in Teardowns : m.guid # job[v].guid
            /\ \A b \in Apps :
                 sources[b].superkey.guid = job[v].guid =>
                   /\ b = job[v].msg.app
                   /\ sources[b].superkey.steps = job[v].done
        BY <3>2, <3>4 DEF PostsAlone
      <4>2. \A b \in Apps :
              sources'[b].superkey.guid = job[v].guid =>
                /\ b = job[v].msg.app
                /\ sources'[b].superkey.steps = job[v].done
        BY <1>1, <1>5, <1>6, <3>1, <4>1
      <4> QED BY <1>1, <3>1, <4>1, <4>2
    <3>5. CASE v = w /\ pc[w] \in Forging
      <4>1. UNCHANGED sources
        BY <1>4, <3>5
      <4>2. /\ \A u \in Workers : pc[u] # "idle" /\ job[u].guid = g => u = w
            /\ \A m \in Teardowns : m.guid # g
            /\ \A b \in Apps : sources[b].superkey.guid # g
        BY <3>5 DEF Safe, ForgesAlone
      <4>3. job[w].done \X {g} \subseteq aws
        BY <3>5 DEF PostsAlone
      <4> QED BY <1>1, <3>1, <3>5, <4>1, <4>2, <4>3
    <3> QED BY <3>3, <3>4, <3>5
  <2> QED BY <2>1, <2>2
<1>12. LinksInOrder'
  <2> SUFFICES ASSUME NEW v \in Workers, pc'[v] \in {"link_auth", "check"},
                      sources'[job'[v].msg.app].state = "live"
               PROVE  /\ job'[v].guid \in sources'[job'[v].msg.app].auths
                      /\ pc'[v] = "check" =>
                           job'[v].guid \in sources'[job'[v].msg.app].linked
    BY DEF LinksInOrder
  <2>1. /\ pc'[v] # "idle" /\ pc'[v] \in Creating /\ pc[v] \in Creating
        /\ job'[v].guid = job[v].guid /\ job'[v].msg = job[v].msg
    BY <1>1 DEF Creating, Posting
  <2>2. job[v].msg.app \in Apps /\ sources[job[v].msg.app].state = "live"
    BY <1>6, <2>1, AppOfRequest
  <2>3. CASE v # w
    BY <1>1, <1>6, <2>1, <2>2, <2>3 DEF LinksInOrder
  <2>4. CASE v = w
    BY <1>6, <2>1, <2>2, <2>4 DEF LinksInOrder, Proceeds
  <2> QED BY <2>3, <2>4
\* A record of a success: of an earlier one, or of the one just counted.
<1>13. ASSUME NEW b \in Apps, sources'[b].superkey.guid \in counted'["creation_ok"]
       PROVE  /\ sources'[b].superkey = sources[b].superkey
              /\ \/ sources[b].superkey.guid \in ok /\ sources[b].superkey.guid # g
                 \/ sources[b].superkey.guid \in ok /\ pc[w] \notin Creating
                 \/ sources[b].superkey.guid = g /\ pc'[w] = "idle"
                    /\ pc[w] = "check" /\ UNCHANGED sources
                    /\ sources[a].state = "live"
  <2>1. pc[w] = "check" /\ sources[b].superkey.guid = g =>
          sources[a].state = "live"
    <3>1. pc[w] = "check" => pc[w] \in Creating
      BY DEF Creating, Posting
    <3> QED BY <1>1, <1>5, <3>1 DEF OwnRecord, ListKept
  <2> QED BY <1>2, <1>5, <1>6, <1>7, <1>13, <2>1
<1>14. pc[w] = "check" /\ sources[a].state = "live" =>
         /\ \A v \in Workers : pc[v] # "idle" /\ job[v].guid = g => v = w
         /\ \A m \in Teardowns : m.guid # g
         /\ job[w].done \X {g} \subseteq aws
         /\ g \in sources[a].auths /\ g \in sources[a].linked
         /\ \A b \in Apps : sources[b].superkey.guid = g =>
              b = a /\ sources[b].superkey.steps = job[w].done
  BY DEF PostsAlone, LinksInOrder, Posting
<1>15. SuccessKept'
  <2> SUFFICES ASSUME NEW b \in Apps,
                      sources'[b].superkey.guid \in counted'["creation_ok"]
               PROVE  /\ \A v \in Workers :
                           pc'[v] # "idle" =>
                             job'[v].guid # sources'[b].superkey.guid
                      /\ \A m \in Teardowns' : m.guid # sources'[b].superkey.guid
                      /\ \A c \in Apps :
                           sources'[c].superkey.guid = sources'[b].superkey.guid
                             => c = b
    BY DEF SuccessKept
  <2>1. CASE sources[b].superkey.guid \in ok
    <3>1. /\ \A v \in Workers :
               pc[v] # "idle" => job[v].guid # sources[b].superkey.guid
          /\ \A m \in Teardowns : m.guid # sources[b].superkey.guid
          /\ \A c \in Apps :
               sources[c].superkey.guid = sources[b].superkey.guid => c = b
      BY <2>1 DEF SuccessKept
    <3>2. sources[b].superkey.guid # g
      BY <1>1, <3>1
    <3> QED BY <1>1, <1>5, <1>6, <1>13, <2>1, <3>1, <3>2
  <2>2. CASE sources[b].superkey.guid \notin ok
    BY <1>1, <1>13, <1>14, <2>2
  <2> QED BY <2>1, <2>2
<1>16. CreatedMeansUsable'
  <2> SUFFICES ASSUME NEW b \in Apps,
                      sources'[b].superkey.guid \in counted'["creation_ok"]
               PROVE  /\ sources'[b].superkey.steps
                           \X {sources'[b].superkey.guid} \subseteq aws
                      /\ sources'[b].superkey.guid
                           \in sources'[b].auths \intersect sources'[b].linked
    BY <1>3 DEF CreatedMeansUsable
  <2>1. CASE sources[b].superkey.guid \in ok
    BY <1>6, <1>13, <2>1 DEF CreatedMeansUsable
  <2>2. CASE sources[b].superkey.guid \notin ok
    BY <1>13, <1>14, <2>2
  <2> QED BY <2>1, <2>2
<1> QED BY <1>8, <1>9, <1>10, <1>11, <1>12, <1>15, <1>16

LEMMA ForgingProceeds ==
  ASSUME Typed, NEW w \in Workers,
         \/ GetProvider(w) \/ RejectStep(w)
         \/ AttachBucketPolicy(w) \/ FinishForging(w)
  PROVE  Proceeds(w)
<1>1. UNCHANGED <<queue, uncommitted, sources>>
  BY DEF GetProvider, RejectStep, AttachBucketPolicy, FinishForging
<1>2. \/ pc'[w] \in {"forge", "mark_app", "teardown_forge"}
      \/ pc'[w] = "store" /\ pc[w] = "forge"
  BY DEF GetProvider, RejectStep, AttachBucketPolicy, FinishForging, GiveUp,
         Goto, Typed, TypeOK
<1> QED BY <1>1, <1>2 DEF Proceeds, Writes, Posting

\* The four requests of CreateInSourcesAPI.
LEMMA PostProceeds ==
  ASSUME Typed, NEW w \in Workers,
         \/ StoreSuperKeyData(w) \/ CreateAuthentication(w)
         \/ CreateApplicationAuthentication(w) \/ CheckAvailability(w)
  PROVE  Proceeds(w)
<1> DEFINE a == job[w].msg.app
           g == job[w].guid
<1>1. /\ pc[w] \in Posting /\ pc[w] \in Creating
      /\ UNCHANGED <<queue, uncommitted>>
  BY DEF StoreSuperKeyData, CreateAuthentication, CheckAvailability,
         CreateApplicationAuthentication, Creating, Posting
<1>2. /\ a \in Apps /\ sources[a] \in Application
      /\ sources \in [Apps -> Application]
  BY <1>1, AppOfRequest DEF Typed, TypeOK
<1>3. ASSUME NEW reply \in Served(a), reply # "error"
      PROVE  sources[a].state = "live"
  BY <1>3 DEF Served
<1>4. ASSUME NEW reply, NEW location, Proceed(w, reply, location)
      PROVE  /\ pc'[w] = IF reply = "ok" THEN location ELSE "teardown_sources"
  BY <1>4 DEF Proceed, Goto, GiveUp, Typed, TypeOK
<1>5. ASSUME StoreSuperKeyData(w) PROVE Proceeds(w)
  <2> DEFINE record == [guid |-> g, steps |-> job[w].done]
  <2>1. PICK reply \in Served(a) :
          /\ IF reply = "error"
             THEN UNCHANGED <<sources, spoiled>>
             ELSE WriteSuperkey(a, record)
          /\ Proceed(w, reply, "create_auth")
    BY <1>5 DEF StoreSuperKeyData
  <2>2. pc[w] = "store"
    BY <1>5 DEF StoreSuperKeyData
  <2>3. pc'[w] \in {"create_auth", "teardown_sources"}
    BY <1>4, <2>1
  <2>4. CASE reply = "error"
    BY <1>1, <2>1, <2>3, <2>4 DEF Proceeds, Writes
  <2>5. CASE reply # "error"
    <3>1. sources[a].state = "live"
      BY <1>3, <2>5
    <3>2. sources' = [sources EXCEPT ![a].superkey = record]
      BY <2>1, <2>5 DEF WriteSuperkey
    <3>3. /\ \A b \in Apps \ {a} : sources'[b] = sources[b]
          /\ sources'[a].state = sources[a].state
          /\ sources'[a].list = sources[a].list
          /\ sources'[a].auths = sources[a].auths
          /\ sources'[a].linked = sources[a].linked
          /\ sources'[a].superkey = record
      BY <1>2, <3>2 DEF Application
    <3>4. Writes(w)
      BY <2>2, <3>1, <3>3 DEF Writes, Posting
    <3> QED BY <1>1, <2>3, <3>4 DEF Proceeds
  <2> QED BY <2>4, <2>5
<1>6. ASSUME CreateAuthentication(w) PROVE Proceeds(w)
  <2>1. PICK reply \in Served(a) :
          /\ sources' = IF reply = "error" THEN sources
                        ELSE [sources EXCEPT ![a].auths = @ \union {g}]
          /\ Proceed(w, reply, "link_auth")
    BY <1>6 DEF CreateAuthentication
  <2>2. pc[w] = "create_auth"
    BY <1>6 DEF CreateAuthentication
  <2>3. pc'[w] = IF reply = "ok" THEN "link_auth" ELSE "teardown_sources"
    BY <1>4, <2>1
  <2>4. CASE reply = "error"
    BY <1>1, <2>1, <2>3, <2>4 DEF Proceeds, Writes, Posting
  <2>5. CASE reply # "error"
    <3>1. sources[a].state = "live"
      BY <1>3, <2>5
    <3>2. sources' = [sources EXCEPT ![a].auths = @ \union {g}]
      BY <2>1, <2>5
    <3>3. /\ \A b \in Apps \ {a} : sources'[b] = sources[b]
          /\ sources'[a].state = sources[a].state
          /\ sources'[a].list = sources[a].list
          /\ sources'[a].auths = sources[a].auths \union {g}
          /\ sources'[a].linked = sources[a].linked
          /\ sources'[a].superkey = sources[a].superkey
      BY <1>2, <3>2 DEF Application
    <3>4. Writes(w)
      BY <2>2, <3>1, <3>3 DEF Writes, Posting
    <3> QED BY <1>1, <2>2, <2>3, <3>3, <3>4 DEF Proceeds, Posting
  <2> QED BY <2>4, <2>5
<1>7. ASSUME CreateApplicationAuthentication(w) PROVE Proceeds(w)
  <2>1. PICK reply \in Served(a) :
          /\ sources' = IF reply = "error" THEN sources
                        ELSE [sources EXCEPT ![a].linked = @ \union {g}]
          /\ Proceed(w, reply, "check")
    BY <1>7 DEF CreateApplicationAuthentication
  <2>2. pc[w] = "link_auth"
    BY <1>7 DEF CreateApplicationAuthentication
  <2>3. pc'[w] = IF reply = "ok" THEN "check" ELSE "teardown_sources"
    BY <1>4, <2>1
  <2>4. CASE reply = "error"
    BY <1>1, <2>1, <2>3, <2>4 DEF Proceeds, Writes, Posting
  <2>5. CASE reply # "error"
    <3>1. sources[a].state = "live"
      BY <1>3, <2>5
    <3>2. sources' = [sources EXCEPT ![a].linked = @ \union {g}]
      BY <2>1, <2>5
    <3>3. /\ \A b \in Apps \ {a} : sources'[b] = sources[b]
          /\ sources'[a].state = sources[a].state
          /\ sources'[a].list = sources[a].list
          /\ sources'[a].auths = sources[a].auths
          /\ sources'[a].linked = sources[a].linked \union {g}
          /\ sources'[a].superkey = sources[a].superkey
      BY <1>2, <3>2 DEF Application
    <3>4. Writes(w)
      BY <2>2, <3>1, <3>3 DEF Writes, Posting
    <3> QED BY <1>1, <2>2, <2>3, <3>3, <3>4 DEF Proceeds, Posting
  <2> QED BY <2>4, <2>5
<1>8. ASSUME CheckAvailability(w) PROVE Proceeds(w)
  <2>1. UNCHANGED sources /\ pc'[w] \in {"idle", "teardown_sources"}
    BY <1>8 DEF CheckAvailability, Finish, GiveUp, Goto, Typed, TypeOK
  <2> QED BY <1>1, <2>1 DEF Proceeds, Writes, Posting
<1> QED BY <1>5, <1>6, <1>7, <1>8

LEMMA TearDownProceeds ==
  ASSUME Typed, NEW w \in Workers, GetDestroyProvider(w) \/ FinishTearDown(w)
  PROVE  Proceeds(w)
<1>1. UNCHANGED <<queue, uncommitted, sources>>
  BY DEF GetDestroyProvider, FinishTearDown
<1>2. pc'[w] \in {"idle", "teardown_destroy", "mark_app"}
  BY DEF GetDestroyProvider, FinishTearDown, Finish, Goto, Typed, TypeOK,
         TearingDown
<1> QED BY <1>1, <1>2 DEF Proceeds, Writes, Posting

LEMMA MarkProceeds ==
  ASSUME Typed, NEW w \in Workers, MarkApplication(w) \/ MarkSource(w)
  PROVE  Proceeds(w)
<1> DEFINE a == job[w].msg.app
           g == job[w].guid
<1>1. /\ pc[w] \in Marking /\ pc[w] \in Creating
      /\ UNCHANGED <<queue, uncommitted>>
      /\ pc'[w] \in {"idle", "mark_source"}
  BY DEF MarkApplication, MarkSource, Finish, Goto, Typed, TypeOK, Creating,
         Marking
<1>2. /\ a \in Apps /\ sources[a] \in Application
      /\ sources \in [Apps -> Application]
  BY <1>1, AppOfRequest DEF Typed, TypeOK
<1> DEFINE Written(superkey, unavailable) ==
             /\ sources' = [sources EXCEPT ![a].superkey = superkey,
                                           ![a].unavailable = unavailable]
             /\ \/ superkey = sources[a].superkey
                \/ /\ sources[a].state = "live"
                   /\ superkey \in {NoSuperkey,
                                    [guid |-> g, steps |-> job[w].done]}
<1>3. UNCHANGED sources \/ \E superkey, unavailable : Written(superkey, unavailable)
  <2>1. ASSUME MarkApplication(w), ~UNCHANGED sources
        PROVE  \E superkey, unavailable : Written(superkey, unavailable)
    <3> DEFINE record(cleared) ==
                 CASE job[w].next > 0 -> [guid |-> g, steps |-> job[w].done]
                   [] cleared -> NoSuperkey
                   [] OTHER -> sources[a].superkey
    <3>1. PICK reply \in Served(a), cleared \in BOOLEAN :
            /\ reply # "error"
            /\ sources' = [sources EXCEPT
                 ![a].superkey = record(cleared),
                 ![a].unavailable = @ \union {"application"}]
      BY <2>1 DEF MarkApplication
    <3>2. sources[a].state = "live"
      BY <3>1 DEF Served
    <3>3. record(cleared) \in {sources[a].superkey, NoSuperkey,
                               [guid |-> g, steps |-> job[w].done]}
      OBVIOUS
    <3>4. sources' = [sources EXCEPT
            ![a].superkey = record(cleared),
            ![a].unavailable = sources[a].unavailable \union {"application"}]
      BY <1>2, <3>1 DEF Application
    <3> HIDE DEF record
    <3> QED BY <3>2, <3>3, <3>4
  <2>2. ASSUME MarkSource(w), ~UNCHANGED sources
        PROVE  \E superkey, unavailable : Written(superkey, unavailable)
    <3>1. sources' = [sources EXCEPT
                        ![a].unavailable = @ \union {"source"}]
      BY <2>2 DEF MarkSource
    <3>2. sources' = [sources EXCEPT
            ![a].superkey = sources[a].superkey,
            ![a].unavailable = sources[a].unavailable \union {"source"}]
      BY <1>2, <3>1 DEF Application
    <3> QED BY <3>2
  <2> QED BY <2>1, <2>2
<1>4. Writes(w)
  <2>1. CASE UNCHANGED sources
    BY <2>1 DEF Writes
  <2>2. CASE ~UNCHANGED sources
    <3>1. PICK superkey, unavailable : Written(superkey, unavailable)
      BY <1>3, <2>2
    <3> DEFINE new == [sources[a] EXCEPT !.superkey = superkey,
                                         !.unavailable = unavailable]
    <3>2. sources' = [sources EXCEPT ![a] = new]
      BY <1>2, <3>1 DEF Application
    <3>3. /\ new.state = sources[a].state
          /\ new.list = sources[a].list
          /\ new.auths = sources[a].auths
          /\ new.linked = sources[a].linked
          /\ new.superkey = superkey
      BY <1>2 DEF Application
    <3> HIDE DEF new
    <3>4. sources'[a] = new /\ \A b \in Apps \ {a} : sources'[b] = sources[b]
      BY <1>2, <3>2
    <3>5. \/ superkey = sources[a].superkey
          \/ superkey = NoSuperkey /\ sources[a].state = "live"
          \/ /\ sources[a].state = "live"
             /\ superkey.guid = g /\ superkey.steps = job[w].done
      BY <3>1
    <3> QED BY <1>1, <3>3, <3>4, <3>5 DEF Writes
  <2> QED BY <2>1, <2>2
<1> QED BY <1>1, <1>4 DEF Proceeds, Posting

-----------------------------------------------------------------------------
(***************************************************************************)
(* The theorems.                                                           *)
(***************************************************************************)

LEMMA NextAlive ==
  ASSUME Typed, Safe, Alive, [Next]_vars
  PROVE  Alive'
<1>1. CASE UNCHANGED vars
  <2>1. Teardowns' \subseteq Teardowns /\ Creations' \subseteq Creations
    BY <1>1, TeardownsAre, TeardownsWillBe, CreationsAre, CreationsWillBe
    DEF vars
  <2> QED BY <1>1, <2>1, LosingStep DEF vars
<1>2. ASSUME NEW a \in Apps, RequestApplication(a) \/ DeleteApplication(a)
      PROVE  Alive'
  BY <1>2, RequestApplicationAlive, DeleteApplicationAlive
<1>3. ASSUME NEW w \in Workers, Commit(w) \/ Rebalance(w) \/ Crash(w)
      PROVE  Alive'
  BY <1>3, KafkaAlive
<1>4. ASSUME NEW w \in Workers, Handle(w) PROVE Alive'
  <2>1. CASE Drop(w) \/ ReceiveCreate(w) \/ ReceiveDestroy(w)
    BY <2>1, KafkaAlive, ReceiveCreateAlive, ReceiveDestroyAlive
  <2>2. CASE ForgeStep(w) \/ TearDownStep(w)
    BY <2>2, ForgeStepAlive, TearDownStepAlive
  <2>3. CASE \/ GetProvider(w) \/ RejectStep(w)
             \/ AttachBucketPolicy(w) \/ FinishForging(w)
    BY <2>3, ForgingMoves, ForgingProceeds, HandlerStepAlive
  <2>4. CASE \/ StoreSuperKeyData(w) \/ CreateAuthentication(w)
             \/ CreateApplicationAuthentication(w) \/ CheckAvailability(w)
    BY <2>4, PostMoves, PostProceeds, HandlerStepAlive
  <2>5. CASE \/ GetDestroyProvider(w) \/ FinishTearDown(w)
             \/ MarkApplication(w) \/ MarkSource(w)
    BY <2>5, TearDownMoves, TearDownProceeds, MarkMoves, MarkProceeds,
       HandlerStepAlive
  <2> QED BY <1>4, <2>1, <2>2, <2>3, <2>4, <2>5 DEF Handle
<1> QED BY <1>1, <1>2, <1>3, <1>4 DEF Next

LEMMA AlwaysAlive == Spec => [](Typed /\ Safe /\ Alive)
<1>1. Init => Alive
  BY InitAlive
<1>2. Typed /\ Safe /\ Alive /\ [Next]_vars => Alive'
  BY NextAlive
<1> QED BY <1>1, <1>2, AlwaysSafe, PTL DEF Spec

\* The inductive invariant holds of SuperkeyWorker for any replicas, requests,
\* applications and GUIDs, and whatever AWS, Sources and Kafka do.  Its parts
\* on what is left behind (Accounted, LeaksAreReported, CleanTearDown) except the
\* GUIDs in spoiled, lists with two cost reports among them.
THEOREM IndInvHolds == Spec => []IndInv
<1>1. Typed /\ Safe /\ Alive => IndInv
  BY DEF Typed, Safe, Alive, IndInv
<1> QED BY <1>1, AlwaysAlive, PTL

\* However many replicas and redeliveries there are: the application of a
\* creation that was counted as a success has all its recorded resources and
\* its linked authentication for as long as Sources has the record.
THEOREM SuccessIsKept == Spec => []CreatedMeansUsable
<1>1. Alive => CreatedMeansUsable
  BY DEF Alive
<1> QED BY <1>1, AlwaysAlive, PTL

\* Whatever a request names and wherever forging stopped: a TearDown that met
\* no error so far comes to the policy and the role only once the policy is
\* unbound.
THEOREM UnbindsFirst == Spec => []UnboundBeforeDelete
<1>1. Typed /\ Safe => UnboundBeforeDelete
  <2> SUFFICES ASSUME Typed, Safe, NEW w \in Workers,
                      pc[w] \in TearingDown, ~job[w].failed,
                      job[w].guid \notin spoiled,
                      NEW kind \in {"policy", "role"},
                      IsNextDown(kind, job[w].left),
                      <<"bind_role", job[w].guid>> \in aws
               PROVE  FALSE
    BY DEF UnboundBeforeDelete
  <2>1. pc[w] # "idle" /\ job[w].guid \in Guids
    BY WorkingLocations DEF Typed, TypeOK, Job
  <2>2. "bind_role" \in job[w].left
    BY <2>1 DEF Safe, Accounted, Kinds, StepNames
  <2>3. TearDownRank[kind] <= TearDownRank["bind_role"]
    BY <2>2 DEF IsNextDown, StepOf
  <2>4. TearDownRank["bind_role"] = 1 /\ TearDownRank[kind] \in {2, 3}
    BY DEF TearDownRank
  <2> QED BY <2>3, <2>4
<1> QED BY <1>1, AlwaysSafe, PTL

\* Whatever a request names: TearDown never comes to a step whose API client
\* NewClient did not make, so it dereferences no nil client.
THEOREM ClientsAreReady == Spec => []ClientsReady
<1>1. Typed /\ Alive => ClientsReady
  <2> SUFFICES ASSUME Typed, Alive, NEW w \in Workers, pc[w] \in TearingDown,
                      NEW kind \in job[w].left
               PROVE  Api[StepOf(kind)] \in RequiredApis(job[w].msg.steps)
    BY DEF ClientsReady
  <2>1. kind \in Named(job[w].msg.steps)
    BY DEF Alive, NamedOnly
  <2>2. PICK i \in DOMAIN job[w].msg.steps : Resource(job[w].msg.steps[i]) = kind
    BY <2>1 DEF Named
  <2>3. kind \in Kinds /\ job[w].msg \in Message
    BY WorkingLocations DEF Typed, TypeOK, Job
  <2>4. job[w].msg.steps \in Seq(Step)
    <3>1. job[w].msg.steps \in StepLists
      BY <2>3 DEF Message, CreateRequest, DestroyRequest
    <3> QED BY <3>1, WorkerAssumption
  <2>5. job[w].msg.steps[i].name \in StepNames \union {"unknown"}
    <3>1. job[w].msg.steps[i] \in Step
      BY <2>2, <2>4
    <3> QED BY <3>1 DEF Step
  <2>6. /\ job[w].msg.steps[i].name = StepOf(kind)
        /\ job[w].msg.steps[i].name \in StepNames
    BY <2>2, <2>3, <2>5 DEF Resource, StepOf, Kinds, StepNames
  <2> QED BY <2>2, <2>6 DEF RequiredApis
<1> QED BY <1>1, AlwaysAlive, PTL
=============================================================================
