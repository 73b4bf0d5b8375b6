----------------------- MODULE SuperkeyWorkerRefinement -----------------------
(***************************************************************************)
(* SuperkeyWorker implements ForgedResources: every step of a replica, of  *)
(* Kafka or of a user of Sources takes the resources of a GUID on in their *)
(* one life, or leaves them where they are.                                *)
(***************************************************************************)
EXTENDS SuperkeyWorkerLife

-----------------------------------------------------------------------------
(***************************************************************************)
(* The phase of a GUID.                                                    *)
(***************************************************************************)

\* The last request for what was forged is still to be made.
Checks(x) == Working(x, {"check"})

\* What is being forged neither stands nor is about to be reported: nobody
\* else knows of it.
LEMMA ForgedStandsNot ==
  ASSUME Typed, Safe, NEW x \in Guids, Working(x, Forging)
  PROVE  x \in used /\ ~Stands(x) /\ ~Checks(x)
<1>1. PICK w \in Workers : pc[w] \in Forging /\ job[w].guid = x
  BY DEF Working
<1>2. pc[w] # "idle" /\ pc[w] \notin Posting
  BY <1>1, WorkingLocations
<1>3. x \in used
  BY <1>1, <1>2 DEF Safe, KnownAreUsed
<1>4. /\ \A v \in Workers : pc[v] # "idle" /\ job[v].guid = x => v = w
      /\ x \notin counted["creation_ok"]
  BY <1>1 DEF Safe, ForgesAlone, Counters
<1> QED BY <1>1, <1>2, <1>3, <1>4, WorkingLocations
        DEF Stands, Checks, Working, Posting

LEMMA ForgedWillNotStand ==
  ASSUME Typed', Safe', NEW x \in Guids, Working(x, Forging)'
  PROVE  x \in used' /\ ~Stands(x)' /\ ~Checks(x)'
<1>1. PICK w \in Workers : pc'[w] \in Forging /\ job'[w].guid = x
  BY DEF Working
<1>2. pc'[w] # "idle" /\ pc'[w] \notin Posting
  BY <1>1, WorkingLocations
<1>3. x \in used'
  BY <1>1, <1>2 DEF Safe, KnownAreUsed
<1>4. /\ \A v \in Workers : pc'[v] # "idle" /\ job'[v].guid = x => v = w
      /\ x \notin counted'["creation_ok"]
  BY <1>1 DEF Safe, ForgesAlone, Counters
<1> QED BY <1>1, <1>2, <1>3, <1>4, WorkingLocations
        DEF Stands, Checks, Working, Posting

LEMMA PhaseIs ==
  ASSUME Typed, Safe, NEW x \in Guids
  PROVE  /\ x \notin used => Phase(x) = "unused"
         /\ Working(x, Forging) => Phase(x) = "forging"
         /\ x \in used /\ ~Working(x, Forging) /\ Stands(x) =>
              Phase(x) = "standing"
         /\ x \in used /\ ~Working(x, Forging) /\ ~Stands(x) =>
              Phase(x) = IF Checks(x) THEN "removed" ELSE "falling"
  BY ForgedStandsNot DEF Phase, Checks

LEMMA PhaseWillBe ==
  ASSUME Typed', Safe', NEW x \in Guids
  PROVE  /\ x \notin used' => Phase(x)' = "unused"
         /\ Working(x, Forging)' => Phase(x)' = "forging"
         /\ x \in used' /\ ~Working(x, Forging)' /\ Stands(x)' =>
              Phase(x)' = "standing"
         /\ x \in used' /\ ~Working(x, Forging)' /\ ~Stands(x)' =>
              Phase(x)' = IF Checks(x)' THEN "removed" ELSE "falling"
  BY ForgedWillNotStand DEF Phase, Checks

\* Between two states the invariant holds in.
Sound == Typed /\ Safe /\ Alive

\* Nothing new is forged, stands or exists.
Wanes ==
  /\ UNCHANGED <<aws, used>>
  /\ counted'["creation_ok"] = counted["creation_ok"]
  /\ \A x \in Guids : /\ Working(x, Forging)' => Working(x, Forging)
                      /\ Stands(x)' => Stands(x)
                      /\ Checks(x)' => Checks(x) \/ Stands(x)'

LEMMA WaningStep ==
  ASSUME Sound, Sound', Wanes
  PROVE  Resources!Next
<1> DEFINE gs == {x \in Guids : Phase(x)' # Phase(x)}
           removed == {x \in gs : Phase(x)' = "removed"}
<1>1. ASSUME NEW x \in Guids
      PROVE  \/ Phase(x)' = Phase(x)
             \/ Phase(x) = "standing" /\ Phase(x)' = "removed"
             \/ /\ Phase(x) \in {"forging", "standing", "removed"}
                /\ Phase(x)' = "falling"
  BY PhaseIs, PhaseWillBe, ForgedStandsNot DEF Wanes, Sound
<1>2. Resources!Fall(gs, removed)
  BY <1>1 DEF Resources!Fall, Wanes
<1> QED BY <1>2 DEF Resources!Next

\* At most the phase of one GUID changes.
LEMMA OneTurns ==
  ASSUME Sound, Sound', NEW g \in Guids,
         \A x \in Guids \ {g} :
           /\ x \in used' <=> x \in used
           /\ Working(x, Forging)' <=> Working(x, Forging)
           /\ Stands(x)' <=> Stands(x)
           /\ Checks(x)' <=> Checks(x)
  PROVE  [x \in Guids |-> Phase(x)]' =
           [[x \in Guids |-> Phase(x)] EXCEPT ![g] = Phase(g)']
<1>1. ASSUME NEW x \in Guids \ {g}
      PROVE  Phase(x)' = Phase(x)
  BY <1>1, PhaseIs, PhaseWillBe, ForgedStandsNot DEF Sound
<1> QED BY <1>1

-----------------------------------------------------------------------------
(***************************************************************************)
(* Steps after which something less is forged or stands.                   *)
(***************************************************************************)

LEMMA LosingWanes ==
  ASSUME \A v \in Workers :
           pc'[v] = "idle" \/ (pc'[v] = pc[v] /\ job'[v] = job[v]),
         UNCHANGED <<sources, aws, used, counted>>
  PROVE  Wanes
<1>1. \A x \in Guids : Working(x, Forging)' => Working(x, Forging)
  BY WorkingLocations DEF Working
<1>2. \A x \in Guids : Stands(x)' => Stands(x)
  BY WorkingLocations DEF Stands
<1>3. \A x \in Guids : Checks(x)' => Checks(x)
  BY DEF Checks, Working
<1> QED BY <1>1, <1>2, <1>3 DEF Wanes

LEMMA KafkaWanes ==
  ASSUME Typed, NEW w \in Workers,
         Commit(w) \/ Rebalance(w) \/ Drop(w) \/ Crash(w)
  PROVE  Wanes
<1>1. UNCHANGED <<sources, aws, used, counted>>
  BY DEF Commit, Rebalance, Drop, Crash
<1>2. \A v \in Workers :
        pc'[v] = "idle" \/ (pc'[v] = pc[v] /\ job'[v] = job[v])
  BY DEF Commit, Rebalance, Drop, Crash, Typed, TypeOK
<1> QED BY <1>1, <1>2, LosingWanes

LEMMA RequestApplicationWanes ==
  ASSUME Sound, NEW a \in Apps, RequestApplication(a)
  PROVE  Wanes
<1>1. /\ sources[a].state = "absent"
      /\ UNCHANGED <<pc, job, aws, used, counted>>
  BY DEF RequestApplication
<1>2. \A b \in Apps : /\ sources'[b].superkey = sources[b].superkey
                      /\ b # a => sources'[b] = sources[b]
  BY DEF RequestApplication, Sound, Typed, TypeOK, Application
<1>3. \A w \in Workers : pc[w] \in Posting => job[w].msg.app \in Apps \ {a}
  <2>1. \A w \in Workers : pc[w] \in Posting =>
                             job[w].msg \in Creations /\ job[w].msg.app \in Apps
    BY AppOfRequest, CreationsAre, WorkingLocations DEF Sound
  <2> QED BY <1>1, <2>1 DEF Sound, Alive, ListKept
<1> QED BY <1>1, <1>2, <1>3 DEF Wanes, Working, Stands, Checks

LEMMA DeleteApplicationWanes ==
  ASSUME Sound, NEW a \in Apps, DeleteApplication(a)
  PROVE  Wanes
<1>1. /\ sources'[a].state = "deleted" /\ sources'[a].superkey = NoSuperkey
      /\ \A b \in Apps \ {a} : sources'[b] = sources[b]
      /\ UNCHANGED <<pc, job, aws, used, counted>>
  BY DeleteApplicationIs DEF Sound, DeleteApplication
<1>2. \A w \in Workers : pc[w] \in Posting => job[w].msg.app \in Apps
  BY AppOfRequest, WorkingLocations DEF Sound
<1>3. \A x \in Guids : x # NoSuperkey.guid
  BY WorkerAssumption DEF NoSuperkey
<1> QED BY <1>1, <1>2, <1>3 DEF Wanes, Working, Stands, Checks

LEMMA ReceiveDestroyWanes ==
  ASSUME Sound, NEW w \in Workers, ReceiveDestroy(w)
  PROVE  Wanes
<1>1. /\ pc'[w] = "destroy_auth"
      /\ \A v \in Workers \ {w} : pc'[v] = pc[v] /\ job'[v] = job[v]
      /\ UNCHANGED <<aws, sources, used, counted>>
  BY ReceiveDestroyIs DEF Sound
<1>2. pc'[w] \notin Forging \union Posting
  BY <1>1 DEF Forging, Posting
<1> QED BY <1>1, <1>2 DEF Wanes, Working, Stands, Checks

\* A record of a success that a handler's requests leave in Sources was there
\* before.
LEMMA SuccessWasRecorded ==
  ASSUME Sound, NEW w \in Workers, Proceeds(w),
         NEW b \in Apps, sources'[b].superkey.guid \in counted["creation_ok"]
  PROVE  sources[b].superkey = sources'[b].superkey
<1>1. pc[w] \in Posting \union Marking => pc[w] \in Creating
  BY DEF Creating
<1>2. pc[w] \in Creating => job[w].guid \notin counted["creation_ok"]
  BY DEF Sound, Safe, CreatesOnce
<1>3. NoSuperkey.guid \notin counted["creation_ok"]
  BY GuidsAre DEF Sound
<1> QED BY <1>1, <1>2, <1>3 DEF Proceeds, Writes

LEMMA HandlerStepWanes ==
  ASSUME Sound, NEW w \in Workers, HandlerStep(w), Proceeds(w),
         counted'["creation_ok"] = counted["creation_ok"],
         pc'[w] \in Posting => pc[w] \in Posting
  PROVE  Wanes
<1>1. /\ \A v \in Workers \ {w} : pc'[v] = pc[v] /\ job'[v] = job[v]
      /\ \A v \in Workers :
           pc'[v] # "idle" => pc[v] # "idle" /\ job'[v].guid = job[v].guid
      /\ pc'[w] # "idle" => job'[w].msg = job[w].msg
  BY HandlerStepIs DEF Sound
<1>2. UNCHANGED <<aws, used>>
  BY DEF HandlerStep
<1>3. pc'[w] \in Forging => pc[w] \in Forging
  BY WorkingLocations DEF HandlerStep, Advances, Returns
<1>4. ASSUME NEW x \in Guids, Working(x, Forging)'
      PROVE  Working(x, Forging)
  BY <1>1, <1>3, <1>4, WorkingLocations DEF Working
<1>5. ASSUME NEW x \in Guids, Stands(x)'
      PROVE  Stands(x)
  <2>1. CASE \E v \in Workers : /\ pc'[v] \in Posting /\ job'[v].guid = x
                                /\ sources'[job'[v].msg.app].state = "live"
    <3>1. PICK v \in Workers : /\ pc'[v] \in Posting /\ job'[v].guid = x
                               /\ sources'[job'[v].msg.app].state = "live"
      BY <2>1
    <3>2. /\ pc[v] \in Posting /\ job[v].guid = x
          /\ job'[v].msg = job[v].msg
      BY <1>1, <3>1, WorkingLocations
    <3>3. job[v].msg.app \in Apps
      BY <3>2, AppOfRequest, WorkingLocations DEF Sound
    <3>4. sources[job[v].msg.app].state = "live"
      BY <3>1, <3>2, <3>3 DEF Proceeds, Writes
    <3> QED BY <3>2, <3>4 DEF Stands
  <2>2. CASE /\ x \in counted'["creation_ok"]
             /\ \E b \in Apps : sources'[b].superkey.guid = x
    BY <2>2, SuccessWasRecorded DEF Stands
  <2> QED BY <1>5, <2>1, <2>2 DEF Stands
<1>6. ASSUME NEW x \in Guids, Checks(x)'
      PROVE  Checks(x) \/ Stands(x)'
  <2>1. PICK v \in Workers : pc'[v] = "check" /\ job'[v].guid = x
    BY <1>6 DEF Checks, Working
  <2>2. CASE v # w
    BY <1>1, <2>1, <2>2 DEF Checks, Working
  <2>3. CASE v = w
    <3>1. job'[w].msg = job[w].msg /\ sources'[job[w].msg.app].state = "live"
      BY <1>1, <2>1, <2>3 DEF HandlerStep, Advances, Returns
    <3> QED BY <2>1, <2>3, <3>1 DEF Stands, Posting
  <2> QED BY <2>2, <2>3
<1> QED BY <1>2, <1>4, <1>5, <1>6 DEF Wanes

-----------------------------------------------------------------------------
(***************************************************************************)
(* Steps that take one GUID on.                                            *)
(***************************************************************************)

\* A new GUID begins its life.
LEMMA ReceiveCreateRefines ==
  ASSUME Sound, Sound', NEW w \in Workers, ReceiveCreate(w)
  PROVE  Resources!Next
<1>1. PICK g \in Guids \ used :
        /\ pc[w] = "idle" /\ pc'[w] = "forge_auth"
        /\ job'[w].guid = g
        /\ \A v \in Workers \ {w} : pc'[v] = pc[v] /\ job'[v] = job[v]
        /\ used' = used \union {g}
        /\ UNCHANGED <<aws, sources, counted>>
  BY ReceiveCreateIs DEF Sound
<1>2. pc'[w] \in Forging /\ pc'[w] \notin Posting /\ pc[w] \notin Forging \union Posting
  BY <1>1 DEF Forging, Posting
<1>3. \A x \in Guids \ {g} : /\ x \in used' <=> x \in used
                             /\ Working(x, Forging)' <=> Working(x, Forging)
  BY <1>1, <1>2 DEF Working
<1>4. \A x \in Guids \ {g} : /\ Stands(x)' <=> Stands(x)
                             /\ Checks(x)' <=> Checks(x)
  BY <1>1, <1>2 DEF Stands, Checks, Working
<1>5. [x \in Guids |-> Phase(x)]' =
        [[x \in Guids |-> Phase(x)] EXCEPT ![g] = Phase(g)']
  BY <1>3, <1>4, OneTurns
<1>6. Working(g, Forging)'
  BY <1>1, <1>2 DEF Working
<1>7. Phase(g) = "unused" /\ Phase(g)' = "forging"
  BY <1>1, <1>6, PhaseIs, PhaseWillBe DEF Sound
<1>8. Resources!Begin(g)
  BY <1>1, <1>5, <1>7 DEF Resources!Begin, Resources!Turn
<1> QED BY <1>8 DEF Resources!Next

\* AWS did what it was asked, and said so or not; or it refused.
LEMMA ForgeStepRefines ==
  ASSUME Sound, Sound', NEW w \in Workers, ForgeStep(w)
  PROVE  Resources!Next
<1>0. PICK g \in Guids : g = job[w].guid
  BY ForgeStepIs DEF Sound
<1>1. PICK reply \in Outcomes, name \in Kinds :
        /\ pc[w] = "forge"
        /\ aws' = AfterCreate(aws, name, g, reply)
        /\ reply = "ok" => pc'[w] \in {"bucket_policy", "forge"}
        /\ reply # "ok" => pc'[w] = "teardown_forge"
        /\ job'[w].guid = g
        /\ \A v \in Workers \ {w} : pc'[v] = pc[v] /\ job'[v] = job[v]
        /\ UNCHANGED <<sources, used, counted>>
  BY <1>0, ForgeStepIs DEF Sound
<1>2. /\ pc[w] \in Forging /\ pc[w] \notin Posting /\ pc'[w] \notin Posting
      /\ reply = "ok" => pc'[w] \in Forging
      /\ reply # "ok" => pc'[w] \notin Forging
  BY <1>1 DEF Forging, Posting
<1>3. \A x \in Guids \ {g} : /\ x \in used' <=> x \in used
                             /\ Working(x, Forging)' <=> Working(x, Forging)
  BY <1>0, <1>1, <1>2 DEF Working
<1>4. \A x \in Guids : (Stands(x)' <=> Stands(x)) /\ (Checks(x)' <=> Checks(x))
  <2>1. pc[w] # "check" /\ pc'[w] # "check"
    BY <1>2 DEF Posting
  <2> QED BY <1>0, <1>1, <1>2, <2>1 DEF Stands, Checks, Working
<1>5. [x \in Guids |-> Phase(x)]' =
        [[x \in Guids |-> Phase(x)] EXCEPT ![g] = Phase(g)']
  BY <1>1, <1>3, <1>4, OneTurns
<1>6. Working(g, Forging)
  BY <1>0, <1>1, <1>2 DEF Working
<1>7. Phase(g) = "forging" /\ ~Stands(g) /\ ~Checks(g) /\ g \in used
  BY <1>6, PhaseIs, ForgedStandsNot DEF Sound
<1>8. CASE reply = "refused"
  <2>1. \A x \in Guids : Working(x, Forging)' => Working(x, Forging)
    BY <1>0, <1>1, <1>2 DEF Working
  <2>2. Wanes
    BY <1>1, <1>4, <1>8, <2>1 DEF Wanes, AfterCreate
  <2> QED BY <2>2, WaningStep
<1>9. CASE reply # "refused"
  <2>1. aws' = aws \union {<<name, g>>}
    BY <1>1, <1>9 DEF AfterCreate
  <2>2. Phase(g)' \in {"forging", "falling"}
    BY <1>1, <1>4, <1>6, <1>7, PhaseWillBe DEF Sound
  <2>3. [x \in Guids |-> Phase(x)]'
          \in {[x \in Guids |-> Phase(x)],
               [[x \in Guids |-> Phase(x)] EXCEPT ![g] = "falling"]}
    BY <1>5, <1>6, <1>7, <2>2
  <2>4. Resources!Create(name, g)
    BY <1>1, <1>7, <2>1, <2>3 DEF Resources!Create, Resources!Turn
  <2> QED BY <1>6, <2>4 DEF Resources!Next
<1> QED BY <1>8, <1>9

\* What is forged stands from now on, if its application is still there.
LEMMA FinishForgingRefines ==
  ASSUME Sound, Sound', NEW w \in Workers, FinishForging(w)
  PROVE  Resources!Next
<1>0. PICK g \in Guids : g = job[w].guid
  BY DEF FinishForging, Sound, Typed, TypeOK, Job
<1>1. /\ pc[w] = "forge" /\ pc'[w] = "store"
      /\ \A v \in Workers \ {w} : pc'[v] = pc[v]
      /\ UNCHANGED <<job, aws, sources, used, counted>>
  BY DEF FinishForging, Goto, Sound, Typed, TypeOK
<1>2. /\ pc[w] \in Forging /\ pc[w] \notin Posting /\ pc[w] # "idle"
      /\ pc'[w] \in Posting /\ pc'[w] \notin Forging
  BY <1>1 DEF Forging, Posting
<1>3. Working(g, Forging)
  BY <1>0, <1>2 DEF Working
<1>4. \A x \in Guids \ {g} : /\ x \in used' <=> x \in used
                             /\ Working(x, Forging)' <=> Working(x, Forging)
  BY <1>0, <1>1, <1>2 DEF Working
<1>5. /\ \A x \in Guids \ {g} : Stands(x)' <=> Stands(x)
      /\ \A x \in Guids : Checks(x)' <=> Checks(x)
  BY <1>0, <1>1, <1>2 DEF Stands, Checks, Working
<1>6. [x \in Guids |-> Phase(x)]' =
        [[x \in Guids |-> Phase(x)] EXCEPT ![g] = Phase(g)']
  BY <1>3, <1>4, <1>5, OneTurns
<1>7. Phase(g) = "forging" /\ g \in used /\ ~Stands(g)
  BY <1>3, PhaseIs, ForgedStandsNot DEF Sound
<1>8. CASE sources[job[w].msg.app].state = "live"
  <2>1. Stands(g)'
    BY <1>0, <1>1, <1>2, <1>8 DEF Stands
  <2>2. ~Working(g, Forging)'
    BY <1>3, <2>1, ForgedWillNotStand DEF Sound
  <2>3. Phase(g)' = "standing"
    BY <1>1, <1>3, <1>7, <2>1, <2>2, PhaseWillBe DEF Sound
  <2>4. Resources!Stand(g)
    BY <1>1, <1>6, <1>7, <2>3 DEF Resources!Stand, Resources!Turn
  <2> QED BY <1>3, <2>4 DEF Resources!Next
<1>9. CASE sources[job[w].msg.app].state # "live"
  <2>1. \A x \in Guids : Stands(x)' => Stands(x)
    BY <1>0, <1>1, <1>2, <1>9 DEF Stands
  <2>2. \A x \in Guids : Working(x, Forging)' => Working(x, Forging)
    BY <1>0, <1>1, <1>2 DEF Working
  <2>3. Wanes
    BY <1>1, <1>5, <2>1, <2>2 DEF Wanes
  <2> QED BY <2>3, WaningStep
<1> QED BY <1>8, <1>9

\* A success is counted only of what stands, or of what its user removed
\* when only the availability check was left.
LEMMA CheckAvailabilityRefines ==
  ASSUME Sound, Sound', NEW w \in Workers, CheckAvailability(w)
  PROVE  Resources!Next
<1> DEFINE ok == counted["creation_ok"]
<1>0. PICK g \in Guids : g = job[w].guid
  BY HandlerStepIs, PostMoves, PostProceeds DEF Sound
<1>1. HandlerStep(w) /\ Proceeds(w)
  BY PostMoves, PostProceeds DEF Sound
<1>2. /\ pc[w] = "check" /\ UNCHANGED <<aws, sources, used>>
      /\ pc'[w] \in {"idle", "teardown_sources"}
  BY DEF CheckAvailability, Finish, GiveUp, Goto, Sound, Typed, TypeOK
<1>3. /\ pc'[w] \notin Posting \union Forging /\ pc[w] \notin Forging
      /\ pc[w] \in Posting /\ pc[w] \in Creating /\ pc[w] # "idle"
  BY <1>2 DEF Posting, Forging, Creating
<1>4. CASE counted'["creation_ok"] = ok
  BY <1>1, <1>3, <1>4, HandlerStepWanes, WaningStep
<1>5. CASE counted'["creation_ok"] # ok
  <2>1. /\ \A v \in Workers \ {w} : pc'[v] = pc[v] /\ job'[v] = job[v]
        /\ counted'["creation_ok"] = ok \union {g}
        /\ pc'[w] = "idle"
    BY <1>0, <1>1, <1>5, HandlerStepIs DEF Sound
  <2>2. \A x \in Guids \ {g} : /\ x \in used' <=> x \in used
                               /\ Working(x, Forging)' <=> Working(x, Forging)
                               /\ Checks(x)' <=> Checks(x)
    BY <1>0, <1>2, <1>3, <2>1 DEF Working, Checks
  <2>3. \A x \in Guids \ {g} : Stands(x)' <=> Stands(x)
    BY <1>0, <1>2, <1>3, <2>1 DEF Stands
  <2>4. [x \in Guids |-> Phase(x)]' =
          [[x \in Guids |-> Phase(x)] EXCEPT ![g] = Phase(g)']
    BY <2>1, <2>2, <2>3, OneTurns
  <2>5. Checks(g) /\ g \in used
    BY <1>0, <1>2, <1>3 DEF Checks, Working, Sound, Safe, KnownAreUsed
  <2>6. ~Working(g, Forging) /\ ~Working(g, Forging)'
    <3>1. ~Working(g, Forging)
      BY <2>5, ForgedStandsNot DEF Sound
    <3> QED BY <1>3, <2>1, <3>1 DEF Working
  \* Nobody else creates under this GUID.
  <2>7. \A v \in Workers : pc[v] \in Creating /\ job[v].guid = g => v = w
    BY <1>0, <1>3 DEF Sound, Safe, CreatesOnce
  <2>8. ~Checks(g)'
    <3>1. "check" \in Creating /\ pc'[w] # "check"
      BY <1>3, <2>1 DEF Creating, Posting
    <3> QED BY <2>1, <2>7, <3>1 DEF Checks, Working
  <2>9. CASE Stands(g)
    <3>1. Phase(g) = "standing" /\ Phase(g)' \in {"standing", "falling"}
      BY <1>2, <2>5, <2>6, <2>8, <2>9, PhaseIs, PhaseWillBe DEF Sound
    <3>2. [x \in Guids |-> Phase(x)]'
            \in {[x \in Guids |-> Phase(x)],
                 [[x \in Guids |-> Phase(x)] EXCEPT ![g] = "falling"]}
      BY <2>1, <2>4, <3>1
    <3>3. Resources!Report(g)
      BY <1>2, <2>1, <3>1, <3>2 DEF Resources!Report, Resources!Turn
    <3> QED BY <2>1, <3>3 DEF Resources!Next
  <2>10. CASE ~Stands(g)
    <3>1. sources[job[w].msg.app].state # "live" /\ job[w].msg.app \in Apps
      BY <1>0, <1>3, <2>10, AppOfRequest DEF Stands, Sound
    <3>2. sources[job[w].msg.app].superkey.guid = None /\ g # None
      BY <1>0, <1>3, <3>1, GuidsAre DEF Sound, Alive, ListKept
    <3>3. \A b \in Apps : sources[b].superkey.guid # g
      BY <1>0, <1>3, <3>2 DEF Sound, Alive, OwnRecord
    <3>4. \A v \in Workers : pc'[v] \in Posting => job'[v].guid # g
      BY <1>3, <2>1, <2>7, WorkingLocations
    <3>5. ~Stands(g)'
      BY <1>2, <3>3, <3>4 DEF Stands
    <3>6. Phase(g) = "removed" /\ Phase(g)' = "falling"
      BY <1>2, <2>5, <2>6, <2>8, <2>10, <3>5, PhaseIs, PhaseWillBe DEF Sound
    <3>7. Resources!Report(g)
      BY <1>2, <2>1, <2>4, <3>6 DEF Resources!Report, Resources!Turn
    <3> QED BY <2>1, <3>7 DEF Resources!Next
  <2> QED BY <2>9, <2>10
<1> QED BY <1>4, <1>5

\* What is removed neither is forged nor stands.
LEMMA TearDownStepRefines ==
  ASSUME Sound, Sound', NEW w \in Workers, TearDownStep(w)
  PROVE  Resources!Next
<1>0. PICK g \in Guids : g = job[w].guid
  BY TearDownStepIs DEF Sound
<1>1. PICK kind \in Kinds, reply \in Outcomes :
        /\ pc[w] \in TearingDown
        /\ aws' = AfterDelete(aws, kind, g, reply)
        /\ job'[w].guid = g /\ job'[w].msg = job[w].msg
        /\ \A v \in Workers \ {w} : job'[v] = job[v]
        /\ UNCHANGED <<pc, sources, used, counted>>
  BY <1>0, TearDownStepIs DEF Sound
<1>2. \A v \in Workers : job'[v].guid = job[v].guid /\ job'[v].msg = job[v].msg
  BY <1>0, <1>1
<1>3. \A x \in Guids : /\ x \in used' <=> x \in used
                       /\ Working(x, Forging)' <=> Working(x, Forging)
                       /\ Stands(x)' <=> Stands(x)
                       /\ Checks(x)' <=> Checks(x)
  BY <1>1, <1>2 DEF Working, Stands, Checks
<1>4. CASE reply = "refused"
  <2>1. Wanes
    BY <1>1, <1>3, <1>4 DEF Wanes, AfterDelete
  <2> QED BY <2>1, WaningStep
<1>5. CASE reply # "refused"
  <2>1. aws' = aws \ {<<kind, g>>}
    BY <1>1, <1>5 DEF AfterDelete
  <2>2. pc[w] # "idle" /\ pc[w] \notin Forging \union Posting
    BY <1>1, WorkingLocations
  <2>3. g \in used /\ ~Working(g, Forging)
    BY <1>0, <2>2 DEF Sound, Safe, KnownAreUsed, ForgesAlone, Working
  <2>4. ~Stands(g)
    BY <1>0, <2>2 DEF Sound, Alive, PostsAlone, SuccessKept, Stands
  <2>5. Phase(g) \in {"removed", "falling"} /\ Phase(g)' = Phase(g)
    BY <1>1, <1>3, <2>3, <2>4, PhaseIs, PhaseWillBe DEF Sound
  <2>6. [x \in Guids |-> Phase(x)]' =
          [[x \in Guids |-> Phase(x)] EXCEPT ![g] = Phase(g)']
    BY <1>1, <1>3, OneTurns
  <2>7. [x \in Guids |-> Phase(x)]' = [x \in Guids |-> Phase(x)]
    BY <2>5, <2>6
  <2>8. Resources!Remove(kind, g)
    BY <1>1, <2>1, <2>5, <2>7 DEF Resources!Remove
  <2> QED BY <1>1, <2>8 DEF Resources!Next
<1> QED BY <1>4, <1>5

-----------------------------------------------------------------------------
(***************************************************************************)
(* The theorem.                                                            *)
(***************************************************************************)

LEMMA InitRefines == Init => Resources!Init
<1> SUFFICES ASSUME Init PROVE Resources!Init
  OBVIOUS
<1>1. \A x \in Guids : Phase(x) = "unused"
  BY InitTyped, InitSafe, PhaseIs DEF Init
<1>2. aws = {} /\ counted["creation_ok"] = {}
  BY DEF Init, Counters
<1> QED BY <1>1, <1>2 DEF Resources!Init

LEMMA NextRefines ==
  ASSUME Sound, Sound', [Next]_vars
  PROVE  [Resources!Next]_(Resources!vars)
<1> SUFFICES Resources!Next
  OBVIOUS
<1>1. CASE UNCHANGED vars
  BY <1>1, LosingWanes, WaningStep DEF vars
<1>2. ASSUME NEW a \in Apps, RequestApplication(a) \/ DeleteApplication(a)
      PROVE  Resources!Next
  BY <1>2, RequestApplicationWanes, DeleteApplicationWanes, WaningStep
<1>3. ASSUME NEW w \in Workers, Commit(w) \/ Rebalance(w) \/ Crash(w)
      PROVE  Resources!Next
  BY <1>3, KafkaWanes, WaningStep DEF Sound
<1>4. ASSUME NEW w \in Workers, Handle(w) PROVE Resources!Next
  <2>1. ASSUME HandlerStep(w), Proceeds(w),
               \/ UNCHANGED counted
               \/ counted'["creation_ok"] = counted["creation_ok"],
               pc'[w] \in Posting => pc[w] \in Posting
        PROVE  Resources!Next
    BY <2>1, HandlerStepWanes, WaningStep
  <2>2. CASE Drop(w) \/ ReceiveCreate(w) \/ ReceiveDestroy(w)
    BY <2>2, KafkaWanes, ReceiveCreateRefines, ReceiveDestroyWanes, WaningStep
    DEF Sound
  <2>3. CASE ForgeStep(w) \/ TearDownStep(w)
    BY <2>3, ForgeStepRefines, TearDownStepRefines
  <2>4. CASE GetProvider(w) \/ RejectStep(w) \/ AttachBucketPolicy(w)
    <3>1. HandlerStep(w) /\ Proceeds(w)
      BY <2>4, ForgingMoves, ForgingProceeds DEF Sound
    <3>2. UNCHANGED counted
      BY <2>4 DEF GetProvider, RejectStep, AttachBucketPolicy, GiveUp
    <3>3. pc'[w] \in {"forge", "mark_app", "teardown_forge"}
      BY <2>4 DEF GetProvider, RejectStep, AttachBucketPolicy, GiveUp, Goto,
                  Sound, Typed, TypeOK
    <3> QED BY <2>1, <3>1, <3>2, <3>3 DEF Posting
  <2>5. CASE FinishForging(w) \/ CheckAvailability(w)
    BY <2>5, FinishForgingRefines, CheckAvailabilityRefines
  <2>6. CASE \/ StoreSuperKeyData(w) \/ CreateAuthentication(w)
             \/ CreateApplicationAuthentication(w)
    <3>1. HandlerStep(w) /\ Proceeds(w)
      BY <2>6, PostMoves, PostProceeds DEF Sound
    <3>2. UNCHANGED counted /\ pc[w] \in Posting
      BY <2>6 DEF StoreSuperKeyData, CreateAuthentication, Proceed, GiveUp,
                  CreateApplicationAuthentication, Posting
    <3> QED BY <2>1, <3>1, <3>2
  <2>7. CASE GetDestroyProvider(w) \/ FinishTearDown(w)
    <3>1. HandlerStep(w) /\ Proceeds(w)
      BY <2>7, TearDownMoves, TearDownProceeds DEF Sound
    <3>2. counted'["creation_ok"] = counted["creation_ok"]
      BY <2>7 DEF GetDestroyProvider, FinishTearDown, Finish, Counters,
                  TearingDown, Sound, Typed, TypeOK
    <3>3. pc'[w] \in {"idle", "teardown_destroy", "mark_app"}
      BY <2>7 DEF GetDestroyProvider, FinishTearDown, Finish, Goto, TearingDown,
                  Sound, Typed, TypeOK
    <3> QED BY <2>1, <3>1, <3>2, <3>3 DEF Posting
  <2>8. CASE MarkApplication(w) \/ MarkSource(w)
    <3>1. HandlerStep(w) /\ Proceeds(w)
      BY <2>8, MarkMoves, MarkProceeds DEF Sound
    <3>2. counted'["creation_ok"] = counted["creation_ok"]
      BY <2>8 DEF MarkApplication, MarkSource, Finish, Counters,
                  Sound, Typed, TypeOK
    <3>3. pc'[w] \in {"idle", "mark_source"}
      BY <2>8 DEF MarkApplication, MarkSource, Finish, Goto, Sound, Typed, TypeOK
    <3> QED BY <2>1, <3>1, <3>2, <3>3 DEF Posting
  <2> QED BY <1>4, <2>2, <2>3, <2>4, <2>5, <2>6, <2>7, <2>8 DEF Handle
<1> QED BY <1>1, <1>2, <1>3, <1>4 DEF Next

\* SuperkeyWorker implements ForgedResources, for any replicas, applications,
\* requests and GUIDs: no handler creates for a GUID that falls, deletes what
\* stands, or counts as created what was given up, whatever crashes, is lost
\* or is delivered twice.  What its user removed when only the availability
\* check was left may still be counted: the check is of the source.
THEOREM WorkerImplementsForgedResources == Spec => ImplementsForgedResources
<1>1. Init => Resources!Init
  BY InitRefines
<1>2. Sound /\ Sound' /\ [Next]_vars => [Resources!Next]_(Resources!vars)
  BY NextRefines
<1>3. Spec => []Sound
  BY AlwaysAlive, PTL DEF Sound
<1> QED BY <1>1, <1>2, <1>3, PTL DEF Spec, Resources!Spec, ImplementsForgedResources
=============================================================================
