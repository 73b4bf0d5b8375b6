--------------------------- MODULE SuperkeyWorker ---------------------------
(***************************************************************************)
(* The superkey worker: replicas of one process that take requests off the *)
(* topic "platform.sources.superkey-requests", forge the AWS resources of  *)
(* an application and report them to Sources, or tear them down.           *)
(*                                                                         *)
(* A handler runs on one goroutine per replica, so a replica is a program  *)
(* counter and the request it holds.  Every call to AWS or Sources is one  *)
(* step; between two of them the other replicas, the users of Sources, the *)
(* Kafka library and a crash may step in.                                  *)
(***************************************************************************)
EXTENDS Naturals, Sequences, AwsAccount

CONSTANTS
  Apps,             \* applications of Sources, one life each
  Workers,          \* replicas of the process
  Guids,            \* GUIDs generateGUID may draw, never the same twice
  None,             \* no GUID, no request
  StepLists,        \* the superkey_steps Sources may send
  Envelopes,        \* the headers and bodies a Kafka message may have
  SourcesOutcomes,  \* the ways a Sources request that could be served ends
  Disabled,         \* event types switched off by DISABLE_RESOURCE_*
  Mishaps           \* which of MishapKinds may happen

HeaderNames == {"x-rh-identity", "x-rh-sources-org-id"}

Envelope == [headers: SUBSET HeaderNames, readable: BOOLEAN]

\* A payload of "other_report" gives a cost report a second name.
Step ==
  [name: StepNames \union {"unknown"},
   payload: {"document", "create_cost_policy", "other_report", "malformed"}]

\* "lost": Sources applied the request and the worker got an error.
RequestOutcomes == {"ok", "error", "lost"}

EventTypes == {"create_application", "destroy_application"}

\* "credentials": the superkey credentials are incomplete, of no supported
\* provider or of no use to the AWS client.
MishapKinds == {"crash", "rebalance", "credentials"}

ASSUME WorkerAssumption ==
  /\ StepLists \subseteq Seq(Step)
  /\ Envelopes \subseteq Envelope
  /\ SourcesOutcomes \subseteq RequestOutcomes
  /\ "ok" \in SourcesOutcomes
  /\ Disabled \subseteq EventTypes
  /\ Mishaps \subseteq MishapKinds
  /\ None \notin Guids

-----------------------------------------------------------------------------
CreateRequest ==
  [type: {"create_application"}, envelope: Envelopes, steps: StepLists,
   app: Apps]

DestroyRequest ==
  [type: {"destroy_application"}, envelope: Envelopes, steps: StepLists,
   guid: Guids, completed: SUBSET Kinds]

Message == CreateRequest \union DestroyRequest

(***************************************************************************)
(* The request a replica works on, with the ForgedApplication made for it: *)
(* done is StepsCompleted, next the index of the step being forged (0 as   *)
(* long as there is no ForgedApplication), left the completed steps        *)
(* TearDown has not come to, failed whether TearDown collected an error,   *)
(* and auth the tenant headers put on requests to Sources.                 *)
(***************************************************************************)
Job ==
  [msg: Message, guid: Guids, auth: SUBSET HeaderNames, next: Nat,
   done: SUBSET Kinds, left: SUBSET Kinds, failed: BOOLEAN]

Forging == {"forge_auth", "forge", "bucket_policy"}
Posting == {"store", "create_auth", "link_auth", "check"}
TearingDown == {"teardown_forge", "teardown_sources", "teardown_destroy"}
Marking == {"mark_app", "mark_source"}
Locations ==
  {"idle", "destroy_auth"} \union Forging \union Posting \union TearingDown
    \union Marking

\* getRequiredApis, and the client each step calls.
Api ==
  [s3 |-> "s3", cost_report |-> "cost_report", policy |-> "iam",
   role |-> "iam", bind_role |-> "iam"]

\* Mutant of RequiredApis: the switch forgets the two IAM resources.
ForgetfulApis(steps) ==
  {Api[steps[i].name] :
     i \in {j \in DOMAIN steps :
              steps[j].name \in StepNames \ {"policy", "role"}}}

RequiredApis(steps) ==
  {Api[steps[i].name] :
     i \in {j \in DOMAIN steps : steps[j].name \in StepNames}}

NoSuperkey == [guid |-> None, steps |-> {}]

(***************************************************************************)
(* What Sources keeps of an application: the "_superkey" part of its extra *)
(* data, its availability and that of its source, the authentications made *)
(* for it (named by the GUID in the role's ARN) and those linked to it.    *)
(***************************************************************************)
Application ==
  [state: {"absent", "live", "deleted"},
   superkey: [guid: Guids \union {None}, steps: SUBSET Kinds],
   list: StepLists \union {<<>>},
   unavailable: SUBSET {"application", "source"},
   auths: SUBSET Guids, linked: SUBSET Guids]

Blank(state) ==
  [state |-> state, superkey |-> NoSuperkey, list |-> <<>>,
   unavailable |-> {}, auths |-> {}, linked |-> {}]

Counters ==
  {"creation_ok", "creation_failed", "deletion_ok", "deletion_failed"}

VARIABLES
  queue,        \* requests in the topic that no replica has been given
  uncommitted,  \* per replica, requests given to it, offset not committed
  pc,           \* per replica, where its handler is
  job,          \* per replica, the request in hand
  aws,          \* the AWS account
  sources,      \* the applications in Sources
  used,         \* GUIDs drawn so far
  counted,      \* per metric, the GUIDs whose handling it counted
  spoiled,      \* history: GUIDs of which someone has lost track
  stuck         \* history: GUIDs whose TearDown got an error from AWS

vars ==
  <<queue, uncommitted, pc, job, aws, sources, used, counted, spoiled, stuck>>

Init ==
  /\ queue = {}
  /\ uncommitted = [w \in Workers |-> {}]
  /\ pc = [w \in Workers |-> "idle"]
  /\ job = [w \in Workers |-> None]
  /\ aws = {}
  /\ sources = [a \in Apps |-> Blank("absent")]
  /\ used = {}
  /\ counted = [c \in Counters |-> {}]
  /\ spoiled = {}
  /\ stuck = {}
-----------------------------------------------------------------------------
(***************************************************************************)
(* Sources and its users.                                                  *)
(***************************************************************************)

\* A user adds an application: Sources asks the worker for its resources.
RequestApplication(a) ==
  /\ sources[a].state = "absent"
  /\ \E steps \in StepLists, e \in Envelopes :
       /\ sources' = [sources EXCEPT ![a].state = "live", ![a].list = steps]
       /\ queue' = queue \union
            {[type |-> "create_application", envelope |-> e,
              steps |-> steps, app |-> a]}
  /\ UNCHANGED <<uncommitted, pc, job, aws, used, counted, spoiled, stuck>>

\* A user removes it, with its source or without: Sources forgets it, and
\* asks the worker to tear down what the application's superkey data says
\* was completed.
DeleteApplication(a) ==
  LET known == sources[a].superkey IN
  /\ sources[a].state = "live"
  /\ sources' = [sources EXCEPT ![a] =
       [Blank("deleted") EXCEPT
          !.unavailable = sources[a].unavailable \ {"application"}]]
  /\ IF known.guid = None
     THEN queue' = queue
     ELSE \E e \in Envelopes :
            queue' = queue \union
              {[type |-> "destroy_application", envelope |-> e,
                steps |-> sources[a].list, guid |-> known.guid,
                completed |-> known.steps]}
  /\ UNCHANGED <<uncommitted, pc, job, aws, used, counted, spoiled, stuck>>

-----------------------------------------------------------------------------
(***************************************************************************)
(* The Kafka library and the process.  kafka.Consume hands messages to the *)
(* handler and the code never commits: the library may commit an offset    *)
(* before, while or after the handler runs.                                *)
(***************************************************************************)
Commit(w) ==
  /\ \E m \in uncommitted[w] :
       uncommitted' = [uncommitted EXCEPT ![w] = @ \ {m}]
  /\ UNCHANGED <<queue, pc, job, aws, sources, used, counted, spoiled, stuck>>

\* The partition of m moves to another replica; this one's handler runs on.
Rebalance(w) ==
  /\ "rebalance" \in Mishaps
  /\ \E m \in uncommitted[w] :
       /\ uncommitted' = [uncommitted EXCEPT ![w] = @ \ {m}]
       /\ queue' = queue \union {m}
  /\ UNCHANGED <<pc, job, aws, sources, used, counted, spoiled, stuck>>

\* SIGTERM (os.Exit without waiting for the handler), a panic or a kill.
Crash(w) ==
  /\ "crash" \in Mishaps
  /\ pc[w] # "idle" \/ uncommitted[w] # {}
  /\ queue' = queue \union uncommitted[w]
  /\ uncommitted' = [uncommitted EXCEPT ![w] = {}]
  /\ pc' = [pc EXCEPT ![w] = "idle"]
  /\ job' = [job EXCEPT ![w] = None]
  /\ spoiled' = IF pc[w] = "idle" THEN spoiled
                ELSE spoiled \union {job[w].guid}
  /\ UNCHANGED <<aws, sources, used, counted, stuck>>

-----------------------------------------------------------------------------
(***************************************************************************)
(* processSuperkeyRequest: receiving a request.                            *)
(***************************************************************************)
Dropped(m) ==
  \/ m.envelope.headers = {}
  \/ ~m.envelope.readable
  \/ m.type \in Disabled

Deliver(w, m) ==
  /\ pc[w] = "idle"
  /\ m \in queue
  /\ queue' = queue \ {m}
  /\ uncommitted' = [uncommitted EXCEPT ![w] = @ \union {m}]

Drop(w) ==
  /\ \E m \in queue :
       /\ Dropped(m)
       /\ Deliver(w, m)
       /\ spoiled' = IF m.type = "destroy_application"
                     THEN spoiled \union {m.guid} ELSE spoiled
  /\ UNCHANGED <<pc, job, aws, sources, used, counted, stuck>>

\* The GUID is drawn when forging starts; no one sees it earlier.
ReceiveCreate(w) ==
  /\ \E m \in queue, g \in Guids \ used :
       /\ ~Dropped(m)
       /\ m.type = "create_application"
       /\ Deliver(w, m)
       /\ used' = used \union {g}
       /\ job' = [job EXCEPT ![w] =
            [msg |-> m, guid |-> g, auth |-> m.envelope.headers, next |-> 0,
             done |-> {}, left |-> {}, failed |-> FALSE]]
  /\ pc' = [pc EXCEPT ![w] = "forge_auth"]
  /\ UNCHANGED <<aws, sources, counted, spoiled, stuck>>

\* ReconstructForgedApplication fills in neither tenant header.
ReceiveDestroy(w) ==
  /\ \E m \in queue :
       /\ ~Dropped(m)
       /\ m.type = "destroy_application"
       /\ Deliver(w, m)
       /\ job' = [job EXCEPT ![w] =
            [msg |-> m, guid |-> m.guid, auth |-> {}, next |-> 0,
             done |-> m.completed, left |-> m.completed, failed |-> FALSE]]
  /\ pc' = [pc EXCEPT ![w] = "destroy_auth"]
  /\ UNCHANGED <<aws, sources, used, counted, spoiled, stuck>>

-----------------------------------------------------------------------------
Goto(w, location) == pc' = [pc EXCEPT ![w] = location]

\* Mutant of Finish: a forgotten return, the handler runs on.
FinishWithoutReturn(w, counter) ==
  /\ UNCHANGED pc
  /\ job' = [job EXCEPT ![w] = None]
  /\ counted' = [counted EXCEPT ![counter] = @ \union {job[w].guid}]

\* The handler returns after counting the request in one metric.
Finish(w, counter) ==
  /\ Goto(w, "idle")
  /\ job' = [job EXCEPT ![w] = None]
  /\ counted' = [counted EXCEPT ![counter] = @ \union {job[w].guid}]

\* An error on the way to success: tear down the steps completed so far.
GiveUp(w, location) ==
  /\ Goto(w, location)
  /\ job' = [job EXCEPT ![w].left = job[w].done]
  /\ UNCHANGED counted

\* How a request about application a may end, and one about its source: a
\* user who removed the application may have kept the source.
Served(a) ==
  IF sources[a].state = "live" THEN SourcesOutcomes ELSE {"error"}

ServedForSource(a) ==
  IF sources[a].state = "live" THEN SourcesOutcomes
  ELSE SourcesOutcomes \union {"error"}

-----------------------------------------------------------------------------
(***************************************************************************)
(* Forge and ForgeApplication.                                             *)
(***************************************************************************)

\* getProvider: the superkey credentials, then a client for them.
ProviderMayFail == SourcesOutcomes # {"ok"} \/ "credentials" \in Mishaps

\* Without them there is no ForgedApplication and nothing to tear down.
GetProvider(w) ==
  /\ pc[w] = "forge_auth"
  /\ \/ /\ Goto(w, "forge")
        /\ job' = [job EXCEPT ![w].next = 1]
     \/ /\ ProviderMayFail
        /\ Goto(w, "mark_app")
        /\ UNCHANGED job
  /\ UNCHANGED <<queue, uncommitted, aws, sources, used, counted,
                 spoiled, stuck>>

CurrentStep(w) == job[w].msg.steps[job[w].next]

\* What forging the step creates.
Resource(step) ==
  IF step.name = "cost_report" /\ step.payload = "other_report"
  THEN "other_report" ELSE step.name

\* MarkCompleted: StepsCompleted keeps one output per step, the last.
MarkCompleted(done, kind) ==
  {other \in done : StepOf(other) # StepOf(kind)} \union {kind}

\* Marking the step as completed forgets another of the same name.
Overwrites(done, kind) == done \ MarkCompleted(done, kind) # {}

\* After the call to AWS for a step nobody may know of all that is there.
SpoilForging(g, done, kind, reply) ==
  spoiled' = IF \/ reply = "lost"
                \/ reply = "ok" /\ Overwrites(done, kind)
             THEN spoiled \union {g} ELSE spoiled

Unforgeable(step) ==
  \/ step.name = "unknown"
  \/ step.name = "cost_report" /\ step.payload = "malformed"

AtStep(w) ==
  /\ pc[w] = "forge"
  /\ job[w].next <= Len(job[w].msg.steps)

\* Mutant of RejectStep: returns no ForgedApplication with the error, so
\* that there is nothing to tear down.
RejectAndForget(w) ==
  /\ AtStep(w)
  /\ Unforgeable(CurrentStep(w))
  /\ Goto(w, "mark_app")
  /\ UNCHANGED <<queue, uncommitted, job, aws, sources, used, counted,
                 spoiled, stuck>>

RejectStep(w) ==
  /\ AtStep(w)
  /\ Unforgeable(CurrentStep(w))
  /\ GiveUp(w, "teardown_forge")
  /\ UNCHANGED <<queue, uncommitted, aws, sources, used, spoiled, stuck>>

\* Mutant of ForgeStep: the bucket is marked as completed only once it has
\* its policy.
MarkAfterPolicy(w) ==
  LET g == job[w].guid
      step == CurrentStep(w)
      kind == Resource(step)
      policy == step.name = "s3" /\ step.payload = "create_cost_policy"
  IN
  /\ AtStep(w)
  /\ ~Unforgeable(step)
  /\ \E reply \in Replies(CanCreate(aws, kind, g)) :
       /\ aws' = AfterCreate(aws, kind, g, reply)
       /\ SpoilForging(g, job[w].done, kind, reply)
       /\ IF reply = "ok"
          THEN /\ job' = [job EXCEPT
                    ![w].done = IF policy THEN @ ELSE MarkCompleted(@, kind),
                    ![w].next = IF policy THEN @ ELSE @ + 1]
               /\ Goto(w, IF policy THEN "bucket_policy" ELSE "forge")
               /\ UNCHANGED counted
          ELSE GiveUp(w, "teardown_forge")
  /\ UNCHANGED <<queue, uncommitted, sources, used, stuck>>

\* Mutant of ForgeStep: bind_role, which has no output, is not marked.
BindUnmarked(w) ==
  LET g == job[w].guid
      step == CurrentStep(w)
      kind == Resource(step)
      policy == step.name = "s3" /\ step.payload = "create_cost_policy"
  IN
  /\ AtStep(w)
  /\ ~Unforgeable(step)
  /\ \E reply \in Replies(CanCreate(aws, kind, g)) :
       /\ aws' = AfterCreate(aws, kind, g, reply)
       /\ SpoilForging(g, job[w].done, kind, reply)
       /\ IF reply = "ok"
          THEN /\ job' = [job EXCEPT
                    ![w].done = IF kind = "bind_role" THEN @
                              ELSE MarkCompleted(@, kind),
                    ![w].next = IF policy THEN @ ELSE @ + 1]
               /\ Goto(w, IF policy THEN "bucket_policy" ELSE "forge")
               /\ UNCHANGED counted
          ELSE GiveUp(w, "teardown_forge")
  /\ UNCHANGED <<queue, uncommitted, sources, used, stuck>>

\* One call to AWS and, if it is reported as done, MarkCompleted.
ForgeStep(w) ==
  LET g == job[w].guid
      step == CurrentStep(w)
      kind == Resource(step)
      policy == step.name = "s3" /\ step.payload = "create_cost_policy"
  IN
  /\ AtStep(w)
  /\ ~Unforgeable(step)
  /\ \E reply \in Replies(CanCreate(aws, kind, g)) :
       /\ aws' = AfterCreate(aws, kind, g, reply)
       /\ SpoilForging(g, job[w].done, kind, reply)
       /\ IF reply = "ok"
          THEN /\ job' = [job EXCEPT
                    ![w].done = MarkCompleted(@, kind),
                    ![w].next = IF policy THEN @ ELSE @ + 1]
               /\ Goto(w, IF policy THEN "bucket_policy" ELSE "forge")
               /\ UNCHANGED counted
          ELSE GiveUp(w, "teardown_forge")
  /\ UNCHANGED <<queue, uncommitted, sources, used, stuck>>

AttachBucketPolicy(w) ==
  /\ pc[w] = "bucket_policy"
  /\ \E reply \in Replies(<<"s3", job[w].guid>> \in aws) :
       IF reply = "ok"
       THEN /\ job' = [job EXCEPT ![w].next = @ + 1]
            /\ Goto(w, "forge")
            /\ UNCHANGED counted
       ELSE GiveUp(w, "teardown_forge")
  /\ UNCHANGED <<queue, uncommitted, aws, sources, used, spoiled, stuck>>

\* CreatePayload; what follows first sleeps AWS_WAIT_TIME seconds.
FinishForging(w) ==
  /\ pc[w] = "forge"
  /\ job[w].next > Len(job[w].msg.steps)
  /\ Goto(w, "store")
  /\ UNCHANGED <<queue, uncommitted, job, aws, sources, used, counted,
                 spoiled, stuck>>

-----------------------------------------------------------------------------
(***************************************************************************)
(* CreateInSourcesAPI: four requests, the first error tears down.          *)
(***************************************************************************)

\* What a PATCH of a's extra data leaves, and whose record it overwrites.
WriteSuperkey(a, superkey) ==
  /\ sources' = [sources EXCEPT ![a].superkey = superkey]
  /\ spoiled' = spoiled \union
       ({sources[a].superkey.guid} \ {None, superkey.guid})

\* Mutant of Proceed: an error from Sources only ends the handler.
ProceedOrReturn(w, reply, location) ==
  IF reply = "ok"
  THEN Goto(w, location) /\ UNCHANGED <<job, counted>>
  ELSE Finish(w, "creation_failed")

\* After a request for w's application: on to the next, or tear down.
Proceed(w, reply, location) ==
  IF reply = "ok"
  THEN Goto(w, location) /\ UNCHANGED <<job, counted>>
  ELSE GiveUp(w, "teardown_sources")

StoreSuperKeyData(w) ==
  LET a == job[w].msg.app IN
  /\ pc[w] = "store"
  /\ \E reply \in Served(a) :
       /\ IF reply = "error"
          THEN UNCHANGED <<sources, spoiled>>
          ELSE WriteSuperkey(a, [guid |-> job[w].guid,
                                 steps |-> job[w].done])
       /\ Proceed(w, reply, "create_auth")
  /\ UNCHANGED <<queue, uncommitted, aws, used, stuck>>

\* Mutant of CreateAuthentication: the authentication is never linked.
CreateUnlinked(w) ==
  LET a == job[w].msg.app IN
  /\ pc[w] = "create_auth"
  /\ \E reply \in Served(a) :
       /\ sources' = IF reply = "error" THEN sources
                     ELSE [sources EXCEPT ![a].auths = @ \union {job[w].guid}]
       /\ Proceed(w, reply, "check")
  /\ UNCHANGED <<queue, uncommitted, aws, used, spoiled, stuck>>

CreateAuthentication(w) ==
  LET a == job[w].msg.app IN
  /\ pc[w] = "create_auth"
  /\ \E reply \in Served(a) :
       /\ sources' = IF reply = "error" THEN sources
                     ELSE [sources EXCEPT ![a].auths = @ \union {job[w].guid}]
       /\ Proceed(w, reply, "link_auth")
  /\ UNCHANGED <<queue, uncommitted, aws, used, spoiled, stuck>>

CreateApplicationAuthentication(w) ==
  LET a == job[w].msg.app IN
  /\ pc[w] = "link_auth"
  /\ \E reply \in Served(a) :
       /\ sources' = IF reply = "error" THEN sources
                     ELSE [sources EXCEPT ![a].linked = @ \union {job[w].guid}]
       /\ Proceed(w, reply, "check")
  /\ UNCHANGED <<queue, uncommitted, aws, used, spoiled, stuck>>

\* The request is about the source: it succeeds although the application
\* may have been removed.
CheckAvailability(w) ==
  /\ pc[w] = "check"
  /\ \E reply \in ServedForSource(job[w].msg.app) :
       IF reply = "ok" THEN Finish(w, "creation_ok")
       ELSE GiveUp(w, "teardown_sources")
  /\ UNCHANGED <<queue, uncommitted, aws, sources, used, spoiled, stuck>>

-----------------------------------------------------------------------------
(***************************************************************************)
(* TearDown: the completed steps in a fixed order, whatever fails.         *)
(***************************************************************************)
\* Mutant of TearDownRank: the role is unbound after the policy is deleted.
PolicyFirst ==
  [policy |-> 1, bind_role |-> 2, role |-> 3, cost_report |-> 4, s3 |-> 5]

\* By step: of two cost reports only one is ever completed.
TearDownRank ==
  [bind_role |-> 1, policy |-> 2, role |-> 3, cost_report |-> 4, s3 |-> 5]

IsNextDown(kind, left) ==
  /\ kind \in left
  /\ \A other \in left :
       TearDownRank[StepOf(kind)] <= TearDownRank[StepOf(other)]

GetDestroyProvider(w) ==
  /\ pc[w] = "destroy_auth"
  /\ \/ /\ Goto(w, "teardown_destroy")
        /\ UNCHANGED <<job, counted>>
     \/ /\ ProviderMayFail
        /\ Finish(w, "deletion_failed")
  /\ UNCHANGED <<queue, uncommitted, aws, sources, used, spoiled, stuck>>

TearDownStep(w) ==
  LET g == job[w].guid IN
  /\ pc[w] \in TearingDown
  /\ \E kind \in Kinds :
       /\ IsNextDown(kind, job[w].left)
       /\ \E reply \in Replies(CanDelete(aws, kind, g)) :
            /\ aws' = AfterDelete(aws, kind, g, reply)
            /\ job' = [job EXCEPT ![w].left = @ \ {kind},
                                  ![w].failed = @ \/ reply # "ok"]
            /\ stuck' = IF reply = "ok" THEN stuck ELSE stuck \union {g}
  /\ UNCHANGED <<queue, uncommitted, pc, sources, used, counted, spoiled>>

\* Mutant of FinishTearDown: the errors TearDown returned are not looked at.
ErrorsIgnored(w) ==
  /\ pc[w] \in TearingDown
  /\ job[w].left = {}
  /\ CASE pc[w] = "teardown_forge" ->
            Goto(w, "mark_app") /\ UNCHANGED <<job, counted>>
       [] pc[w] = "teardown_sources" ->
            Finish(w, "creation_failed")
       [] OTHER ->
            Finish(w, "deletion_ok")
  /\ UNCHANGED <<queue, uncommitted, aws, sources, used, spoiled, stuck>>

\* Mutant of FinishTearDown: the handler runs on to the success counter
\* after tearing down what Sources was not told of.
CountedAsSuccess(w) ==
  /\ pc[w] \in TearingDown
  /\ job[w].left = {}
  /\ CASE pc[w] = "teardown_forge" ->
            Goto(w, "mark_app") /\ UNCHANGED <<job, counted>>
       [] pc[w] = "teardown_sources" ->
            Finish(w, "creation_ok")
       [] OTHER ->
            Finish(w, IF job[w].failed THEN "deletion_failed"
                      ELSE "deletion_ok")
  /\ UNCHANGED <<queue, uncommitted, aws, sources, used, spoiled, stuck>>

\* Mutant of FinishTearDown: a failed forging returns after its teardown.
NothingMarked(w) ==
  /\ pc[w] \in TearingDown
  /\ job[w].left = {}
  /\ Finish(w, CASE pc[w] # "teardown_destroy" -> "creation_failed"
                 [] job[w].failed -> "deletion_failed"
                 [] OTHER -> "deletion_ok")
  /\ UNCHANGED <<queue, uncommitted, aws, sources, used, spoiled, stuck>>

FinishTearDown(w) ==
  /\ pc[w] \in TearingDown
  /\ job[w].left = {}
  /\ CASE pc[w] = "teardown_forge" ->
            Goto(w, "mark_app") /\ UNCHANGED <<job, counted>>
       [] pc[w] = "teardown_sources" ->
            Finish(w, "creation_failed")
       [] OTHER ->
            Finish(w, IF job[w].failed THEN "deletion_failed"
                      ELSE "deletion_ok")
  /\ UNCHANGED <<queue, uncommitted, aws, sources, used, spoiled, stuck>>

-----------------------------------------------------------------------------
(***************************************************************************)
(* MarkSourceUnavailable: the application first, then its source.          *)
(***************************************************************************)

\* Without a ForgedApplication the extra data sent is empty: whether that
\* clears what Sources has is left open.
MarkApplication(w) ==
  LET a == job[w].msg.app IN
  /\ pc[w] = "mark_app"
  /\ \E reply \in Served(a), cleared \in BOOLEAN :
       /\ IF reply = "error"
          THEN UNCHANGED <<sources, spoiled>>
          ELSE LET old == sources[a].superkey
                   new == CASE job[w].next > 0 -> [guid |-> job[w].guid,
                                                   steps |-> job[w].done]
                            [] cleared -> NoSuperkey
                            [] OTHER -> old
               IN /\ sources' = [sources EXCEPT
                          ![a].superkey = new,
                          ![a].unavailable = @ \union {"application"}]
                  /\ spoiled' = spoiled \union ({old.guid} \ {None, new.guid})
       /\ IF reply = "ok"
          THEN Goto(w, "mark_source") /\ UNCHANGED <<job, counted>>
          ELSE Finish(w, "creation_failed")
  /\ UNCHANGED <<queue, uncommitted, aws, used, stuck>>

MarkSource(w) ==
  LET a == job[w].msg.app IN
  /\ pc[w] = "mark_source"
  /\ \E reply \in ServedForSource(a) :
       sources' = IF reply = "error" THEN sources
                  ELSE [sources EXCEPT ![a].unavailable = @ \union {"source"}]
  /\ Finish(w, "creation_failed")
  /\ UNCHANGED <<queue, uncommitted, aws, used, spoiled, stuck>>

-----------------------------------------------------------------------------
Handle(w) ==
  \/ Drop(w) \/ ReceiveCreate(w) \/ ReceiveDestroy(w)
  \/ GetProvider(w) \/ RejectStep(w) \/ ForgeStep(w)
  \/ AttachBucketPolicy(w) \/ FinishForging(w)
  \/ StoreSuperKeyData(w) \/ CreateAuthentication(w)
  \/ CreateApplicationAuthentication(w) \/ CheckAvailability(w)
  \/ GetDestroyProvider(w) \/ TearDownStep(w) \/ FinishTearDown(w)
  \/ MarkApplication(w) \/ MarkSource(w)

Next ==
  \/ \E a \in Apps : RequestApplication(a) \/ DeleteApplication(a)
  \/ \E w \in Workers : Commit(w) \/ Rebalance(w) \/ Crash(w) \/ Handle(w)

Spec == Init /\ [][Next]_vars

\* The handler's goroutine keeps running, and AWS answers every call.
FairSpec == Spec /\ \A w \in Workers : WF_vars(Handle(w))
-----------------------------------------------------------------------------
(***************************************************************************)
(* Invariants.                                                             *)
(***************************************************************************)

\* Every variable has its type, and a replica holds a request exactly while
\* its handler runs.
TypeOK ==
  /\ queue \subseteq Message
  /\ uncommitted \in [Workers -> SUBSET Message]
  /\ pc \in [Workers -> Locations]
  /\ job \in [Workers -> Job \union {None}]
  /\ \A w \in Workers : pc[w] # "idle" => job[w] \in Job
  /\ aws \subseteq Kinds \X Guids
  /\ sources \in [Apps -> Application]
  /\ used \subseteq Guids
  /\ counted \in [Counters -> SUBSET Guids]
  /\ spoiled \subseteq Guids
  /\ stuck \subseteq Guids

Held(g) == \E w \in Workers : pc[w] # "idle" /\ job[w].guid = g

Recorded(kind, g) ==
  \E a \in Apps : /\ sources[a].superkey.guid = g
                  /\ kind \in sources[a].superkey.steps

Requested(kind, g) ==
  \E m \in queue : /\ m.type = "destroy_application"
                   /\ m.guid = g
                   /\ kind \in m.completed

\* A resource left in the customer's account that no handler is working on,
\* that Sources has no record of and that no queued request will tear down
\* was reported: a failure metric counted its GUID.  Only a crash, a lost
\* answer, a second delivery that overwrites the record, a second cost report
\* that overwrites the first in StepsCompleted and a dropped teardown request
\* leave one silently.
LeaksAreReported ==
  \A kind \in Kinds, g \in Guids :
    <<kind, g>> \in aws =>
      \/ Held(g) \/ Recorded(kind, g) \/ Requested(kind, g)
      \/ g \in counted["creation_failed"] \union counted["deletion_failed"]
      \/ g \in spoiled

\* When a failed creation or a teardown is counted and AWS refused none of
\* its deletions, nothing forged under that GUID is left, in whatever step
\* forging stopped: but for a lost answer and a second cost report,
\* StepsCompleted missed no step.
CleanTearDown ==
  \A kind \in Kinds, g \in Guids :
    (g \in counted["creation_failed"] \union counted["deletion_ok"]
       /\ <<kind, g>> \in aws)
      => g \in spoiled \union stuck

\* An application whose creation was counted as a success is usable for as
\* long as Sources has its record: all recorded resources exist, and its
\* authentication is there and linked, whatever else was delivered.
CreatedMeansUsable ==
  \A a \in Apps :
    LET record == sources[a].superkey IN
    record.guid \in counted["creation_ok"] =>
      /\ record.steps \X {record.guid} \subseteq aws
      /\ record.guid \in sources[a].auths \intersect sources[a].linked

\* TearDown unbinds first "so we can cleanly delete the policy and the
\* role": while it met no error it never comes to one of them still bound.
UnboundBeforeDelete ==
  \A w \in Workers :
    /\ pc[w] \in TearingDown
    /\ ~job[w].failed
    /\ job[w].guid \notin spoiled
    /\ \E kind \in {"policy", "role"} : IsNextDown(kind, job[w].left)
    => <<"bind_role", job[w].guid>> \notin aws

\* A request to tear down never races the forging it undoes, and it names
\* every resource there is: it is made from what the handler recorded after
\* its last call to create something.
DestroysWhatWasForged ==
  \A g \in Guids \ spoiled, completed \in SUBSET Kinds :
    \/ \E m \in queue : /\ m.type = "destroy_application"
                        /\ m.guid = g /\ m.completed = completed
    \/ \E w \in Workers : /\ pc[w] = "destroy_auth"
                          /\ job[w].guid = g /\ job[w].left = completed
    => /\ \A w \in Workers : pc[w] \in Forging => job[w].guid # g
       /\ {kind \in Kinds : <<kind, g>> \in aws} \subseteq completed

\* TearDown calls only API clients that NewClient made: those of the steps
\* of the request, not of StepsCompleted.  A call to another is a nil
\* dereference, which ends the process.
ClientsReady ==
  \A w \in Workers :
    pc[w] \in TearingDown =>
      \A kind \in job[w].left :
        Api[StepOf(kind)] \in RequiredApis(job[w].msg.steps)

Calling == {"forge_auth", "destroy_auth"} \union Posting \union Marking

\* What api_client.go says of AuthenticationData: "the required
\* authentication elements that need to be sent back to the Sources API when
\* making a request".  A teardown request sends none.
TenantIdentified ==
  \A w \in Workers : pc[w] \in Calling => job[w].auth # {}

-----------------------------------------------------------------------------
(***************************************************************************)
(* The inductive invariant behind the theorems: what a replica, a request  *)
(* and a record of Sources know of the resources that exist.               *)
(***************************************************************************)

Creating ==
  Forging \union Posting \union Marking
    \union {"teardown_forge", "teardown_sources"}

\* Destroy requests that are queued, in hand or may be given out again.
Teardowns ==
  {m \in queue \union UNION {uncommitted[w] : w \in Workers} :
     m.type = "destroy_application"}

\* A live application has its steps, and the replica at each location works
\* on the kind of request the location is for.
Shape ==
  /\ \A a \in Apps :
       sources[a].state = "live" => sources[a].list \in StepLists
  /\ \A w \in Workers :
       /\ pc[w] \in Creating => job[w].msg \in CreateRequest
       /\ pc[w] = "forge_auth" => job[w].done = {}
       /\ pc[w] \in {"forge", "bucket_policy"} => job[w].next > 0

\* A GUID is known only once it was drawn.
KnownAreUsed ==
  /\ \A w \in Workers : pc[w] # "idle" => job[w].guid \in used
  /\ \A m \in Teardowns : m.guid \in used
  /\ \A a \in Apps : sources[a].superkey.guid \in used \union {None}
  /\ \A kind \in Kinds, g \in Guids : <<kind, g>> \in aws => g \in used
  /\ \A c \in Counters : counted[c] \subseteq used

\* While a replica forges, only it knows the GUID.
ForgesAlone ==
  \A w \in Workers :
    pc[w] \in Forging =>
      /\ \A v \in Workers :
           pc[v] # "idle" /\ job[v].guid = job[w].guid => v = w
      /\ \A m \in Teardowns : m.guid # job[w].guid
      /\ \A a \in Apps : sources[a].superkey.guid # job[w].guid
      /\ \A c \in Counters : job[w].guid \notin counted[c]

\* Whoever knows the GUID of a resource knows of the resource.
Accounted ==
  \A g \in Guids \ spoiled, kind \in Kinds :
    <<kind, g>> \in aws =>
      /\ \A w \in Workers :
           pc[w] # "idle" /\ job[w].guid = g =>
             /\ pc[w] \in Creating => kind \in job[w].done
             /\ pc[w] = "destroy_auth" => kind \in job[w].left
             /\ pc[w] \in TearingDown => kind \in job[w].left \/ job[w].failed
             /\ pc[w] \in Marking => g \in stuck
      /\ \A m \in Teardowns : m.guid = g => kind \in m.completed
      /\ \A a \in Apps :
           sources[a].superkey.guid = g => kind \in sources[a].superkey.steps

\* TearDown fails only on an error from AWS.
FailedMeansStuck ==
  \A w \in Workers :
    pc[w] # "idle" /\ job[w].failed => job[w].guid \in stuck

\* After the PATCH the record is there until the application is removed or
\* another delivery overwrites it.
Posted ==
  \A w \in Workers :
    pc[w] \in {"create_auth", "link_auth", "check"} =>
      \/ sources[job[w].msg.app].state = "deleted"
      \/ sources[job[w].msg.app].superkey.guid = job[w].guid
      \/ job[w].guid \in spoiled

\* What a request asks for, steps that are none included.
Named(steps) == {Resource(steps[i]) : i \in DOMAIN steps}

\* Create requests that are queued, may be given out again or are in hand.
Creations ==
  {m \in queue \union UNION {uncommitted[w] : w \in Workers} :
     m.type = "create_application"}
    \union {job[w].msg : w \in {v \in Workers : pc[v] \in Creating}}

\* Sources asks only for applications it has, and keeps the list of steps it
\* sent with the request.
ListKept ==
  /\ \A a \in Apps :
       sources[a].state # "live" => sources[a].superkey = NoSuperkey
  /\ \A m \in Creations :
       /\ sources[m.app].state # "absent"
       /\ sources[m.app].state = "live" => sources[m.app].list = m.steps

\* What is completed, recorded or to be torn down is named by the steps that
\* go with it.
NamedOnly ==
  /\ \A w \in Workers :
       /\ pc[w] \in Creating => job[w].done \subseteq Named(job[w].msg.steps)
       /\ pc[w] \in TearingDown \union {"destroy_auth"} =>
            job[w].left \subseteq Named(job[w].msg.steps)
  /\ \A m \in Teardowns : m.completed \subseteq Named(m.steps)
  /\ \A a \in Apps :
       sources[a].superkey.steps \subseteq Named(sources[a].list)

\* A GUID is created for by one replica, which has not yet succeeded.
CreatesOnce ==
  \A w \in Workers :
    pc[w] \in Creating =>
      /\ \A v \in Workers :
           pc[v] \in Creating /\ job[v].guid = job[w].guid => v = w
      /\ job[w].guid \notin counted["creation_ok"]

\* What a replica creates is on record for no other application than its own.
OwnRecord ==
  \A w \in Workers, a \in Apps :
    pc[w] \in Creating /\ sources[a].superkey.guid = job[w].guid =>
      a = job[w].msg.app

\* Of an application removed just before it is reported, somebody else has
\* been asked to delete what is there.
RemovalRequested ==
  \A w \in Workers :
    LET g == job[w].guid IN
    pc[w] = "check" /\ sources[job[w].msg.app].state # "live" =>
      \A kind \in Kinds :
        <<kind, g>> \in aws =>
          \/ Requested(kind, g)
          \/ \E v \in Workers \ {w} : pc[v] # "idle" /\ job[v].guid = g
          \/ g \in counted["creation_failed"] \union counted["deletion_failed"]
          \/ g \in spoiled

\* What a replica completed is there until it gives up or, once posted, until
\* the application is removed; till then nobody else deletes it.
PostsAlone ==
  \A w \in Workers :
    /\ pc[w] \in Forging => job[w].done \X {job[w].guid} \subseteq aws
    /\ pc[w] \in Posting /\ sources[job[w].msg.app].state = "live" =>
         /\ job[w].done \X {job[w].guid} \subseteq aws
         /\ \A v \in Workers :
              pc[v] # "idle" /\ job[v].guid = job[w].guid => v = w
         /\ \A m \in Teardowns : m.guid # job[w].guid
         /\ \A a \in Apps :
              sources[a].superkey.guid = job[w].guid =>
                a = job[w].msg.app /\ sources[a].superkey.steps = job[w].done

\* CreateInSourcesAPI gets to the end only with the authentication linked.
LinksInOrder ==
  \A w \in Workers :
    LET application == sources[job[w].msg.app] IN
    /\ pc[w] \in {"link_auth", "check"} /\ application.state = "live" =>
         job[w].guid \in application.auths
    /\ pc[w] = "check" /\ application.state = "live" =>
         job[w].guid \in application.linked

\* A recorded success is nobody's to tear down, and on record once.
SuccessKept ==
  \A a \in Apps :
    LET g == sources[a].superkey.guid IN
    g \in counted["creation_ok"] =>
      /\ \A w \in Workers : pc[w] # "idle" => job[w].guid # g
      /\ \A m \in Teardowns : m.guid # g
      /\ \A b \in Apps : sources[b].superkey.guid = g => b = a

IndInv ==
  /\ TypeOK
  /\ Shape
  /\ KnownAreUsed
  /\ ForgesAlone
  /\ Accounted
  /\ FailedMeansStuck
  /\ Posted
  /\ LeaksAreReported
  /\ CleanTearDown
  /\ ListKept
  /\ NamedOnly
  /\ CreatesOnce
  /\ OwnRecord
  /\ RemovalRequested
  /\ PostsAlone
  /\ LinksInOrder
  /\ SuccessKept
  /\ CreatedMeansUsable

-----------------------------------------------------------------------------
(***************************************************************************)
(* Liveness.                                                               *)
(***************************************************************************)

Usable(a) ==
  LET g == sources[a].superkey.guid IN
  g \in counted["creation_ok"] \intersect sources[a].linked

\* While Sources answers, a requested application does not stay in limbo:
\* it becomes usable, is marked unavailable, or its user removes it.
EveryApplicationSettles ==
  \A a \in Apps :
    sources[a].state = "live" ~>
      \/ Usable(a)
      \/ "application" \in sources[a].unavailable
      \/ sources[a].state = "deleted"

\* Where neither AWS nor Sources fails, the account ends up holding exactly
\* what the applications still in Sources need, even if users remove them
\* while they are being forged or posted.
EventuallyClean ==
  <>[](aws = UNION {record.steps \X {record.guid} :
                    record \in {sources[a].superkey : a \in Apps}})

-----------------------------------------------------------------------------
(***************************************************************************)
(* The worker implements ForgedResources.  An application stands while it  *)
(* is posted to Sources, unless its user has removed it, and while Sources *)
(* has the record of one that was counted as a success.  It is removed     *)
(* when that happens between the last record of it and the last request.   *)
(***************************************************************************)
Working(g, locations) ==
  \E w \in Workers : pc[w] \in locations /\ job[w].guid = g

Stands(g) ==
  \/ \E w \in Workers : /\ pc[w] \in Posting /\ job[w].guid = g
                        /\ sources[job[w].msg.app].state = "live"
  \/ /\ g \in counted["creation_ok"]
     /\ \E a \in Apps : sources[a].superkey.guid = g

Phase(g) ==
  CASE g \notin used -> "unused"
    [] Working(g, Forging) -> "forging"
    [] g \in used /\ ~Working(g, Forging) /\ Stands(g) -> "standing"
    [] /\ g \in used /\ ~Working(g, Forging) /\ ~Stands(g)
       /\ Working(g, {"check"}) -> "removed"
    [] OTHER -> "falling"

Resources ==
  INSTANCE ForgedResources WITH
    phase <- [g \in Guids |-> Phase(g)],
    account <- aws,
    reported <- counted["creation_ok"]

\* Whatever crashes, is lost or is delivered twice, the resources of each
\* GUID live one life: no handler creates for a GUID that is being torn down,
\* tears down what another has reported and Sources still has on record, or
\* reports what was given up: a success is counted of what stands, or of what
\* its user removed when only the availability check was left.
ImplementsForgedResources == Resources!Spec
=============================================================================
