# Verification of the superkey worker

The superkey worker takes requests off a Kafka topic. For a
`create_application` request it fetches AWS credentials from Sources, creates
("forges") a list of AWS resources, and reports them to Sources; for a
`destroy_application` request it tears them down. The resources live in a
*customer's* AWS account and the requests are handled at most one by one per
replica but never in a transaction: every call can fail, be done without the
worker knowing, or be the last thing the process does. What has to be right is
the bookkeeping: **nothing is left in the customer's account that nobody knows
about**, and nothing is reported as working that is not.

This directory holds the TLA+ model of that, its model-checking runs and its
machine-checked proofs.

## Inventory of the system

| Part | State it keeps | Operations | Talks to | What makes it correct |
|---|---|---|---|---|
| Request handling, `main.go` | the request in hand, four counters | `processSuperkeyRequest`, `createResources`, `destroyResources`, the signal handler | everything below | a failure ends in a teardown and is counted; a dropped or killed request is the only one that is not |
| Provider lookup, `provider/forge.go` | the provider client of a request | `Forge`, `TearDown`, `getProvider` | Sources (credentials), AWS client | no client, nothing forged; errors keep the state of the forged product |
| Amazon provider, `provider/amazon_provider.go` | `StepsCompleted`, GUID | `ForgeApplication`, `TearDown` | AWS client | what exists is in `StepsCompleted` before the next call can fail; unbind before delete |
| Forged applications, `superkey/` | the payload for Sources | `CreateInSourcesAPI`, `MarkSourceUnavailable`, `ReconstructForgedApplication` | Sources client | what Sources stores is what a later teardown needs |
| AWS client, `amazon/` | one API client per service in use | create/destroy calls, `NewClient`, `getRequiredApis` | AWS | every service a teardown needs has a client |
| Sources client, `sources/api_client.go` | none | `sendRequest` (retries, timeout) and a wrapper per request | Sources | bounded time and attempts; the tenant is identified |
| Health tracker, `health.go` | last message, offsets per partition, health flags, probe file | `recordMessage`, `calculateLag`, `updateOverallHealth`, `monitorConsumerHealth` | Kafka, Sources, the kubelet | the probe file is there exactly while the replica is healthy |
| Configuration, `config/` | one record | `Get`, `KafkaTopic` | environment | at least one attempt |
| Logging, metrics endpoint, `util/` producer | – | – | – | not part of the protocol |
| *External:* Kafka consumer group | offsets, assignment | deliver, commit, rebalance | handler | at least once, not exactly once |
| *External:* Sources and its users | applications, authentications | add and remove an application, serve requests | queue, handler | – |
| *External:* the AWS account | the resources | serve calls | – | – |

The handler runs on one goroutine per replica (`main.go:97-110`), so within a
replica requests do not interleave. What interleaves are replicas, the users of
Sources, the consumer group and the process being stopped; every call to AWS or
Sources is a point at which they may step in. The health tracker runs on a
goroutine of its own and shares only what `recordMessage` writes.

Hard to test, and what the properties are for (the full list, with lines, is
in `PROJECT.json` under `hazards`): a stop between two calls, a second delivery
under a new GUID, a user removing an application that is being forged, a call
that was done but whose answer was lost, a failure half way through forging,
through posting or through a teardown, the order of teardown, and a failure
nobody ever hears of.

## Modules

| Module | Models |
|---|---|
| `AwsAccount` | the AWS account as a set of pairs `<<kind, guid>>`: when a call can succeed, its outcomes, its effect (operators only) |
| `SuperkeyWorker` | the replicas, the topic, Sources and its users: variables, one action per call or handler step, properties, the inductive invariant, and the faulty variants ("Mutant of ...") each property was tried against |
| `MCWorker` | step lists, envelopes and the symmetry set for TLC |
| `ForgedResources` | abstract: the one life of the resources of a GUID; `SuperkeyWorker` implements it |
| `RemoteCall` | abstract: a request to another service, as `SuperkeyWorker` takes it to be; the next two implement it |
| `SourcesRequest`, `MCRequest` | `sendRequest`: attempts, the context's deadline, sleeps, what ends the loop, and a network that loses and delays |
| `S3Bucket` | `DestroyS3Bucket`: listing a page, deleting its objects, deleting the bucket; several handlers and a writer on one bucket |
| `Health`, `MCHealth` | the health tracker of a replica, with the topic, the kubelet and time |
| `SuperkeyWorkerProofs` | type correctness |
| `SuperkeyWorkerSafety` | the three safety theorems |
| `SuperkeyWorkerLife` | what a counted success, a teardown and a list of steps may count on: the rest of `IndInv` |
| `SuperkeyWorkerRefinement` | `SuperkeyWorker` implements `ForgedResources` |
| `SourcesRequestProofs` | the invariants of `SourcesRequest`, and the safety part of its refinement of `RemoteCall` |
| `S3BucketProofs` | the same for `S3Bucket` |
| `HealthProofs` | types, verdicts and restarts of `Health` |

### How `SuperkeyWorker` corresponds to the code

| Code | Model |
|---|---|
| topic, consumer group | `queue`, `uncommitted`; `Deliver`, `Commit`, `Rebalance` |
| `processSuperkeyRequest` | `Drop`, `ReceiveCreate`, `ReceiveDestroy` |
| `Forge`, `getProvider` | `GetProvider`; in a teardown `GetDestroyProvider` |
| missing credentials, another provider, no AWS client (`forge.go:61-74`) | the mishap `"credentials"` (`ProviderMayFail`) |
| `ForgeApplication`, one call to AWS each | `ForgeStep`, `AttachBucketPolicy`, `RejectStep`, `FinishForging` |
| `MarkCompleted`, one entry per step name | `MarkCompleted`, `Overwrites` |
| `CreateInSourcesAPI`, one request each | `StoreSuperKeyData`, `CreateAuthentication`, `CreateApplicationAuthentication`, `CheckAvailability`; the first three are about the application (`Served`), the last is about its source (`ServedForSource`) |
| `AmazonProvider.TearDown`, one call each | `TearDownStep` (order: `TearDownRank`), `FinishTearDown` |
| `MarkSourceUnavailable` | `MarkApplication` (`Served`), `MarkSource` (`ServedForSource`) |
| `ForgedApplication` and the request | `job[w]`: `done` is `StepsCompleted`, `left` what `TearDown` has not come to, `failed` whether it collected an error |
| `signal.Notify` … `os.Exit(0)`, a panic, a kill | `Crash` |
| the four Prometheus counters | `counted`, as sets of GUIDs: which requests, not how many |
| Sources | `sources`: the `_superkey` data, availability, authentications; `RequestApplication`, `DeleteApplication` |

`spoiled` and `stuck` are history variables, read only by the properties. `stuck`
are the GUIDs of which AWS refused a deletion. `spoiled` are those of which the code
loses track without a word, in one of five ways:

* the process was stopped while it forged or tore down;
* an AWS call was done but looked failed;
* the record in Sources was overwritten, as by a second delivery;
* a destroy request was dropped;
* the list asked for a second cost report of another name: the reports are named by
  their payloads (`amazon_provider.go:76`), `StepsCompleted` has one entry for both
  (`forged_application.go:33`), and the first is forgotten.

`LeaksAreReported`, `CleanTearDown`, `UnboundBeforeDelete` and `DestroysWhatWasForged`
say nothing of the resources of a spoiled GUID. They do not show that the code copes
with these five, for it does not; they show that there is no sixth.

What is abstracted: a resource is its kind and its GUID, so the text of names,
policies, reports and substitutions is left out, but for a cost report of a second
name, `"other_report"`; a step is its name and whether its payload asks for the
bucket policy, for that second name, or fails to parse; messages carry which
tenant headers they have and whether their body parses. The GUID is drawn when
the request is received instead of when forging starts: no one else sees it in
between. `DestroyS3Bucket` and `sendRequest` are one step each, which
`S3Bucket` and `SourcesRequest` justify; in one respect they allow more, see
"Not modelled".

Outcomes: a call to AWS is `"ok"`, `"refused"` (not done) or `"lost"` (done, and
the caller gets an error); a request to Sources is `"ok"`, `"error"` or `"lost"`.
The code does not tell the last two apart, the properties do. A call AWS cannot
serve (a name taken, a policy still bound) is always refused, a request about an
application that is gone is always an error, and one about its source may be, for a
user may remove an application and keep the source.

### How the parts fit together

`RemoteCall` says what a caller may count on: `ok` means applied, an error says
nothing, and it returns. `SourcesRequest` (a request to Sources) and `S3Bucket`
(the one AWS function that makes several calls) are each shown to implement it,
with termination, so that `SuperkeyWorker` may take each for one step whose
answer may be lost. `ForgedResources` in turn is what `SuperkeyWorker` promises:
per GUID `unused`, `forging`, `standing`, `removed`, `falling`, never backwards;
resources appear only while forging and vanish only while removed or falling, and a
success is counted only of one that stands or is `removed`, never of one that was given
up. An application stands while it is posted and not removed, and while Sources has the
record of one counted as a success; it is `removed` when its user takes it away while
only the availability check, which is of the source, is left (`Phase`).

`Health` shares with the rest what `main.go:103-108` shares: `recordMessage` runs
before the handler. Its `busy` is any location of `SuperkeyWorker` but `idle`, and
its `Restart` is one of the causes of `Crash`.

### How `SourcesRequest` corresponds to the code

| `sources/api_client.go` | Model |
|---|---|
| `json.Marshal` fails (147-155): an error, nothing sent | `MarshalFails`; `defect = "body"` |
| `http.NewRequestWithContext` fails (181-192), as for a `SOURCES_HOST` that makes no URL: an error at the first attempt | `BuildFails`; `defect = "url"` |
| `context.WithTimeout`, made once (143) | `deadline`; `Renew` says it stays |
| the loop and `SourcesRequestsMaxAttempts` (178; `config.go:85-97`) | `MayTry`, `limit`, `Attempts` |
| a new reader on the body per attempt (180-188) | `Reader`; `body` is what the reader of the attempt before would yield |
| `http.DefaultClient.Do` (197) | `Send`, then `Receive`, `ConnectionFails` or `Expire`; `SendExpired` once the context has expired |
| reading the body, the status (201-228), parsing (248-254) | `Receive`, `Settles` |
| `time.Sleep` (235), after the last attempt too | `Sleep`, `Wake` |
| what is returned (238-246) | `Exhaust`, `Verdict` |

Time advances only while the client waits or sleeps. Requests in `network` may be
served or lost at any time, also after the client has returned.

### How `Health` corresponds to the code

| Code | Model |
|---|---|
| `health.start` (`main.go:100`) | `Start` |
| `recordMessage`, then the handler | `Receive`, `Finish`; `seen` is `partitionOffsets`, `idle` the time since `lastMessageTime` |
| a call to AWS without a timeout that is never answered | `Hang` |
| `calculateLag`: the copy under the lock, then the queries | `Snapshot`, `QueryLag` |
| `checkAPI`, `updateOverallHealth`, `os.Create` / `os.Remove` | `CheckApi`, `Update`, `ManageFile` |
| the ticker and its channel of one place | `due`, `round`, `Tick` |
| `livenessProbe` of `deploy/clowdapp.yaml`, three failures in a row (the default) | `Pass`, `Fail`, `Restart` |

The unit of time is `healthCheckInterval` (30 s): `Window = 4`, `Period = 2`. Between
two ticks, the steps of handler, monitor and probe come in any order, so between two
steps `n` ticks apart more than `n - 1` and less than `n + 1` intervals pass. `idle`
counts ticks, and `Update` allows every verdict that the real idle time may give
(`Exceeds`): with `idle = Window` the window may be over or not. `late` is set only
once a message has taken longer than `Patience` intervals.

A round of the monitor takes as long as it takes, for its queries have no deadline
(`health.go:101-108`): `round` counts the ticks since it began, and `slow` remembers that
one was not over by the next tick. An idle consumer is handed a waiting message within
an interval (`Tick` waits for it).

## Runs

Deadlock is not checked where the system comes to rest: in `MCWorker` there are
finitely many applications, each removed at most once; a request returns, and a
bucket is destroyed. In `Health` time goes on, and deadlock is checked.

| Run | Question | Distinct states |
|---|---|---|
| `worker_crash` | crashes between any two calls, refused and lost AWS calls, lost Sources answers, on two replicas: does anything stay behind unreported (`LeaksAreReported`)? also `TypeOK` and the inductive invariant `IndInv` | 1 200 000 |
| `worker_lists` | the whole cost-management list, and repeated, unknown, malformed, misplaced and no steps, and two cost reports; every outcome of every call; messages without headers or with an unreadable body: is a teardown without errors complete (`CleanTearDown`), and is every API client there (`ClientsReady`)? | 20 500 |
| `worker_redelivery` | rebalances that hand a request to two replicas: does a counted success stay usable (`CreatedMeansUsable`), is the role unbound first (`UnboundBeforeDelete`), do destroy requests name all there is (`DestroysWhatWasForged`), do the resources of a GUID live one life (`ImplementsForgedResources`)? | 698 000 |
| `worker_settles` | AWS refuses what it likes, credentials may be of no use, and destroying is disabled: does every application become usable, unavailable or removed (`EveryApplicationSettles`)? | 126 000 |
| `worker_clean` | users remove applications at any moment: does the account end up with exactly what Sources still has (`EventuallyClean`)? | 204 000 |
| `request` | attempts set to less than 1, 1, 2 or no number, requests that cannot be made: how long does a request take (`BoundedTime`), is the body whole in every attempt (`WholeBodyApplied`), when is it applied twice (`DuplicatesNeedAmbiguity`), is it given up too soon (`NeverWithoutTrying`), is it a `RemoteCall`, and does it return if Sources never answers (`ImplementsCall`)? | 7 400 |
| `bucket` | two handlers, a bucket of one page, a report still written: is it empty when it is deleted (`EmptyBeforeDelete`), gone when one returns (`DestroyedUnlessFailed`), and is this a `RemoteCall` (`ImplementsCall`)? | 1 700 |
| `health_judge` | with rounds of any length: is the consumer called stuck only while a message waits (`JudgedStuckOnlyIfWaiting`), and is no container restarted whose messages take no longer than `Patience` and whose rounds end by the next tick (`HandlersGetTheirTime`)? | 5 214 000 |
| `health_recovers` | every kind of fault once: does a handler that hangs end with a restart (`HungIsRestarted`), and does a replica that is calm for good end up with its file (`EventuallyHealthy`)? | 1 018 000 |
| `bucket_pages` | is a bucket of more than a page empty when it is deleted? **No**, see the findings | – |
| `health_rebalance` | is the consumer called stuck only while a message waits, when partitions move? **No**, see the findings | – |
| `worker_tenant` | does a request to Sources always say for which tenant? **No**, see the finding | – |

### Bounds, and why they are enough

* `Guids`: two, so that a request can be forged twice (once per delivery), or
  two applications once each. `ReceiveCreate` needs a fresh one, so the size
  of the set bounds the creations of a behaviour; nothing is counted
  otherwise. In the code a GUID is 64 random bits.
* `Workers`: two where replicas race; one in `worker_settles`, where the
  question is whether one handler comes to an end.
* `Apps`: one where deliveries of the same request matter, two where
  applications do. Applications share nothing but the account and the handlers.
* `StepLists`: `CostManagement` (all five kinds and the bucket policy),
  `BoundRole`, `BucketAndRole` for the runs with many interleavings, and the odd
  ones of `AllLists`.
* `Mishaps` (crashes, rebalances, useless credentials) and the outcome sets say per run
  which failures happen. A liveness run leaves out exactly those after which the code
  promises nothing.

* `SourcesRequest`: `Timeout = 3`, `Pause = 1`, so the deadline falls into an answer
  waited for, a sleep, or after the last attempt; settings -1, 0, 1, 2 and no number,
  which stands for the default of 3.
* `S3Bucket`: three objects and two handlers; pages of three, which hold all, or of two.
  The answer of `ListObjects` is any page-sized subset.
* `Health`: the window, period and threshold of the code in `health_judge` and
  `health_rebalance`; a window of 2, a period of 1 and one partition in `health_recovers`,
  whose liveness needs the smaller graph and does not depend on the numbers. `Messages`:
  two per partition, the fewest with one in hand and one waiting; that more of
  them change nothing for the two safety properties is what the theorems add. `Faults`: each kind
  once. Rounds are not bounded, `round` is counted up to `Window`. `Patience`, which
  is `Window + (Threshold - 1) * Period - 2`, is six intervals in the deployment: a
  message is safe for three minutes. With one interval more in its place, and without the
  excuse `slow`, TLC finds `HandlersGetTheirTime` violated. Idle time is counted up to
  `IdleBound`, after which no guard changes.

### Fairness

`FairSpec` asks for weak fairness of each replica's handler, as one action: the
goroutine is scheduled, Sources requests end within the 10 s of `sendRequest`,
and AWS answers. The last is an assumption (the code sets no timeout on AWS
calls). Nothing is asked of users, commits, rebalances or crashes. A handler that
holds a request has exactly one next call, so fairness of the disjunction is
fairness of that call; an idle one has to take some request from the queue.

`SourcesRequest` asks it of the client and of time, not of Sources: the call returns
even if nothing ever answers. `S3Bucket` asks it of each handler, AWS answering again.
`Health` asks it of the consumer, the handler (which may `Hang` instead), the monitor,
the kubelet and time; not of messages arriving or other replicas. For the monitor it
means that Kafka's brokers and Sources answer or fail in the end, though not when.

`EventuallyHealthy` has a condition of its own, `<>[]Calm`: from some time on no message
waits for this replica and every round is over by the next tick. Without it the code
promises no such thing, even without a fault: a message that takes longer than the window
while another waits costs the replica its file each time, and rounds slower than the
probes have it restarted before they end.

## Findings

`bucket_pages` (`EmptyBeforeDelete`): `DestroyS3Bucket` "first [has] to clear any objects
that are in the bucket" (`amazon/s3.go:25`) but clears one answer of `ListObjects`, at most
1000 objects. A bucket with more is not deleted; the teardown reports the error, is
counted as failed and is not repeated. The bucket of a cost-management source collects
reports for as long as the source exists.

`health_rebalance` (`JudgedStuckOnlyIfWaiting`): `health.go:140` says "Only unhealthy if
messages are available but we're not processing them". `partitionOffsets` is never
cleared, so the end of a partition that has moved to another replica keeps counting as
lag. In the run the replica that lost it removes its file though every message of the
topic has been received.

`worker_tenant` (`TenantIdentified`): `ReconstructForgedApplication`
(`superkey/forged_application.go:16-28`) rebuilds the request of a teardown from
the message body alone, so `IdentityHeader` and `OrgIdHeader` are empty when
`getProvider` asks Sources for the credentials, though the message came with one
of them (without, `main.go:130` drops it). `sources/api_client.go:26-27` calls
these "the required authentication elements that need to be sent back to the
Sources API when making a request". Whether Sources serves the internal endpoint
on the pre-shared key alone is outside the repository; the model lets it.

Observed while modelling, and part of what the model allows:

* After a failed forging that was torn down cleanly, `MarkSourceUnavailable` still
  stores `StepsCompleted`. Removing the application later sends a destroy request
  for resources that are gone, which AWS refuses, and which is counted as a failed
  deletion.
* After a failed request in `CreateInSourcesAPI` (`main.go:220`) everything is torn
  down but neither the application nor the source is marked unavailable. Hence
  `EveryApplicationSettles` is checked where Sources answers.
* A creation delivered twice forges twice, and the record of the second overwrites
  the first: the first set is left behind (`spoiled`).
* Of two cost reports in one list, the first is left behind by every teardown, which is
  counted as complete (`spoiled`). Nothing in the repository says that a list has one
  at most.
* A creation whose application is removed after the authentication was linked, its
  source being kept, passes the availability check and is counted as a success while
  its resources are torn down, by another replica or by this one's next request.
* After the deadline the remaining attempts of `sendRequest` fail at once, and each is
  still followed by its sleep; so is the last attempt ("Sleep between retry attempts",
  `api_client.go:234`). `BoundedTime` counts them.
* A handler that hangs is noticed only by messages in a partition the replica has
  already received from (`HungIsRestarted` says so), and not at all if removing the probe
  file fails.
* When a slow message is done after two failed probes, the third may come before the
  monitor's next round and restart the container under the next message. Hence `late` in
  `HandlersGetTheirTime` is about any message since the start.

## Proofs

| Theorem | States |
|---|---|
| `TypeCorrect` | `Spec => [](TypeOK /\ Shape)` |
| `NoSilentLeak` | `Spec => []LeaksAreReported` |
| `TearDownIsComplete` | `Spec => []CleanTearDown` |
| `DestroysAreComplete` | `Spec => []DestroysWhatWasForged` |
| `IndInvHolds` | `Spec => []IndInv` |
| `SuccessIsKept` | `Spec => []CreatedMeansUsable` |
| `UnbindsFirst` | `Spec => []UnboundBeforeDelete` |
| `ClientsAreReady` | `Spec => []ClientsReady` |
| `WorkerImplementsForgedResources` | `Spec => ImplementsForgedResources` |
| `RequestTypeCorrect` | `Spec => []TypeOK` of `SourcesRequest` |
| `RequestIsBounded` | `Spec => []BoundedTime` |
| `BodyIsWhole` | `Spec => []WholeBodyApplied` |
| `DuplicatesAreAmbiguous` | `Spec => []DuplicatesNeedAmbiguity` |
| `NeverUntried` | `Spec => []NeverWithoutTrying` |
| `RequestIsOneCall` | `Spec => Call!Spec`: `SourcesRequest` implements `RemoteCall` but for its fairness |
| `BucketTypeCorrect` | `Spec => []TypeOK` of `S3Bucket` |
| `EmptiedFirst` | `Spec /\ []FitsInPage => []EmptyBeforeDelete` |
| `BucketIsDestroyed` | `Spec /\ []FitsInPage => []DestroyedUnlessFailed` |
| `DestroyIsOneCall` | `Spec => Call!Spec`: `S3Bucket` implements `RemoteCall` but for its fairness |
| `HealthTypeCorrect` | `Spec => []TypeOK` of `Health` |
| `StuckMeansWaiting` | `NothingMoves => (Spec => []JudgedStuckOnlyIfWaiting)` |
| `RestartsAreEarned` | `NothingMoves /\ NothingElseFails /\ ProbesSeeRecovery => (Spec => HandlersGetTheirTime)` |

Those of `SuperkeyWorker` hold for any sets of applications, replicas, GUIDs, step lists
and envelopes, any outcomes of AWS and Sources, and any mishaps. Assumed are only
`WorkerAssumption` (the constants have their types, Sources can succeed, `None`
is no GUID) and `AwsOutcomesAssumption`. Those of `SourcesRequest` hold for any
settings of the number of attempts, numbers below one and texts included, any timeout
and any pause, under `RequestAssumption` (`None` is neither a number nor a status). Those
of `S3Bucket` take `BucketAssumption` (there are handlers, finitely many objects, a page
holds at least one), those of `Health` `HealthAssumption` (the constants have
their types, period and threshold are not zero). TLC evaluates all five in the runs of
these modules.

Three of them say more in front of the arrow, each because the code needs it:

* `FitsInPage`, in every state: the objects fit into one answer of `ListObjects`.
  `bucket_pages` shows what happens otherwise. What is written meanwhile counts.
* `NothingMoves`: no rebalance. `health_rebalance` shows what happens otherwise.
* `NothingElseFails`: the API check and the probe file work, as in `health_judge`: a
  restart in an outage of Sources is what the code says. `ProbesSeeRecovery`: `Period + 1 <
  Window` and three probes. The deployment has 2 + 1 < 4. Tried with TLC, the property
  fails for `Window = Period + 1` (the file may come back and go again between two probes,
  so that failures far apart add up; it takes five messages) and with two probes one
  interval apart (the first verdict of a new process comes too late). How long a round lasts is not assumed:
  the property itself excuses the restarts after a slow one.

*The worker.* `LeaksAreReported` is not inductive by itself: that a handler *holds* a
GUID says nothing of whether it knows of the resource. `IndInv` adds what each
party knows:

* `KnownAreUsed`: a GUID somebody has on record was drawn, so the next one drawn is
  known to nobody;
* `ForgesAlone`: while a replica forges, neither a queued request nor a record, a
  counter or another replica has its GUID, so a resource it adds escapes nobody;
* `RemovalRequested`: of an application removed while only the availability check is left,
  somebody else was asked to tear down what exists, so the success that may then be counted
  hides nothing;
* `Accounted`: for a GUID that is not spoiled, a resource that exists is in
  `StepsCompleted` of the replica that created it, in the `left` of one that
  tears it down (or its teardown failed), in `steps_completed` of every destroy
  request and in the record in Sources;
* `FailedMeansStuck`: a teardown fails only on an error from AWS;
* `Posted`: after the PATCH the record is there until the application is removed or
  the record overwritten. So a counted success is on record.

`SuperkeyWorkerProofs` proves types first, with `Shape` (which location goes with
which kind of request). `SuperkeyWorkerSafety` reduces each action to a few flat
facts — which replica moved, which record changed, what was counted (`QuietStep`,
`Advances`, `Returns`, `Records`) — and shows once that such steps preserve the
invariant; the steps that create, delete, receive, drop, crash or remove an
application each have a lemma. `DestroysWhatWasForged` follows from `ForgesAlone`
and `Accounted`.

`SuperkeyWorkerLife` proves the rest of `IndInv`. `CreatedMeansUsable` says that nothing of a
success is deleted, so it needs to know who could:

* `CreatesOnce`: one replica at a time creates for a GUID, and has not counted it (proved
  with the safety part, which needs it for `RemovalRequested`);
* `OwnRecord`: what a replica creates is on record for its own application only;
* `PostsAlone`: what a replica completed is there while it forges and, with the
  application live, while it posts, when no other replica, destroy request or record of
  another application has its GUID;
* `LinksInOrder`: past its request the authentication is there, and linked;
* `SuccessKept`: the GUID of a success on record is nobody's to tear down and on record once.

`ClientsReady` compares steps completed with steps asked for, along a way that leads through
Sources and back in a destroy request: `NamedOnly` says they agree wherever they are kept, and
`ListKept` that Sources asks for a teardown with the list it asked for the creation with. That it
does is an assumption on Sources (`DeleteApplication`), whose code is not in the repository,
and `ClientsReady` rests on it for destroy requests.
`UnboundBeforeDelete` follows from `Accounted` (a binding that exists is still in `left`) and
the order of `TearDownRank`.

*One life.* `SuperkeyWorkerRefinement` maps the state of a GUID to `Phase` and shows that each
step of the system is a step of `ForgedResources` or a stutter. Two facts carry it. A step
after which nothing new is forged, stands or exists (`Wanes`) is a `Fall` of the GUIDs it turns,
possibly none (`WaningStep`): crashes, failed calls, removed applications, overwritten
records. Any other step turns the phase of one GUID at most (`OneTurns`), because whoever
forges or posts a GUID is alone with it (`ForgesAlone`, `CreatesOnce`, `PostsAlone`). There is a
lemma per action or group of actions, and `NextRefines` puts them together.

*One request.* The inductive invariant `RInv` of `SourcesRequestProofs` adds to the
invariants the run checks:

* `Timely`: where the clock may be at each location. `BoundedTime` alone does not
  survive a sleep, for it does not count the attempts made;
* `Sent`: requests on their way or carried out are of attempts made, with the whole
  body, and none is both;
* `Unsent`: a request that cannot be made has no attempt under way or carried out;
* `Answered`: an attempt the client heard of has left the network, and a refusal means
  it was not carried out. From this and `Sent` follows `DuplicatesNeedAmbiguity`;
* `SuccessApplied`: an answer of success, or a return with it, was carried out: what
  the refinement needs at `Return`.

*One bucket.* `Swept`: where nothing was written since, what is left in the bucket is on the
page of *each* handler that still deletes objects, and nothing is left when one is to delete the
bucket. Handlers take objects off each other's pages, never the other way round. That a list
of a bucket that fits is the whole bucket is a fact about cardinalities (`WholePage`).

*The health tracker.* For `StuckMeansWaiting`, in rounds shorter than the window, `JudgeInv` adds

* `Tracked`: the offset recorded for a partition is the one before the next to be received;
* `CopyIsCurrent`: a replica idle for longer than the round has lasted has received
  nothing in it, so the copy of the offsets is still true;
* `LagIsReal`: lag that was found is still there, as the end of the log only grows.

Longer than the window is then longer than the round, so the three together name a message that
waits (`SomeoneWaits`). For `RestartsAreEarned`, `TimeInv` follows the race of monitor, probes
and handler as five situations, unless a message has been late, a round slow (`TicksAreSlow`: else none is under way at a
tick) or the handler hangs:
`Starting`; `Well` (the file is there, and if a probe has failed the next one sees it);
`Stuck` (nothing received since `Window` before the first failed probe though a message waits,
so the one in hand is late before the last); `Healing` (the file is missing, and `UntilFile`, the intervals the monitor
may still take to bring it back, is less than what the probes leave). Each action takes
each situation into one of them (`StartingGoes`, `WellGoes`, `HealingGoes`, `StuckGoes`), and
in none of them can the last probe fail. The bound `Patience` is what makes a message received
out of `Stuck` find the time that `Healing` needs. Both invariants were checked with TLC
on the instance of `health_judge`, and `TimeInv` on four others, before they were proved.

*Only model-checked:* the liveness properties and the liveness parts of the two refinements
of `RemoteCall`, which are beyond the prover. Every invariant and action property of a
passing run is proved.

## Plan

1. `AwsAccount`, `SuperkeyWorker`: the life of a request. *Done.*
2. Type correctness and the inductive invariant. *Done.*
3. Runs for crashes, redelivery, odd requests, and both liveness questions. *Done.*
4. `RemoteCall`, `SourcesRequest`, `S3Bucket`: what one step of `SuperkeyWorker` is made of.
   *Done.*
5. `Health`. *Done.*
6. `ForgedResources`, and `SuperkeyWorker` shown to implement it. *Done.*
7. Theorems for `CreatedMeansUsable`, `UnboundBeforeDelete`, `ClientsReady` and
   `ImplementsForgedResources`. *Done.*
8. Theorems for `SourcesRequest`: its invariants, and that it is one call. *Done.*
9. Theorems for `S3Bucket` and `Health`. *Done.*
10. `RestartsAreEarned` whatever the length of the rounds. *Done*, with restarts after a slow
    round excused. Left: how much shorter than `Patience` a message must be for rounds of up
    to a given length.

## Not modelled, and why

* `logger/`, the metrics endpoint, `util/produce_messages.go`: no state any other part
  reads.
* The text of names, policies, reports and of `substiteInPayload`: no property tells
  two texts apart.
* `waitTime`: the pause orders nothing the model does not already interleave.
* `config/` but for the number of attempts: values copied from the environment.
* A request to Sources that is applied only after `sendRequest` has given up
  (`SourcesRequest` has it): `SuperkeyWorker` applies a request whose answer is lost at
  once. A PATCH that late could overwrite what another delivery has stored since.
* The first API check of the monitor (`health.go:209`), whose result is overwritten before
  it is used, and the readiness probe, which nothing depends on.
