------------------------------- MODULE Health -------------------------------
(***************************************************************************)
(* The health tracker of one replica: what the handler tells it, the       *)
(* monitor goroutine that judges the replica once per interval, the file   *)
(* that carries the verdict, and the kubelet whose liveness probe looks at *)
(* the file and restarts the container.                                    *)
(*                                                                         *)
(* Time counts in intervals of the monitor (30 seconds), and steps of one  *)
(* interval happen in any order: between two steps n ticks apart, more     *)
(* than n - 1 and less than n + 1 intervals pass.                          *)
(***************************************************************************)
EXTENDS Integers

CONSTANTS
  Partitions,  \* of the topic
  Messages,    \* bound: messages per partition
  Window,      \* stuckConsumerWindow, in intervals
  Period,      \* periodSeconds of the liveness probe, in intervals
  Threshold,   \* probes that must fail in a row
  Faults,      \* bound: how often each kind of fault happens
  None         \* no offset

FaultKinds == {"kafka", "api", "file", "rebalance", "redelivery", "hang"}

ASSUME HealthAssumption ==
  /\ Messages \in Nat
  /\ Window \in Nat
  /\ Period \in Nat \ {0}
  /\ Threshold \in Nat \ {0}
  /\ Faults \in [FaultKinds -> Nat]
  /\ None \notin Nat

\* The time a message is granted: see HandlersGetTheirTime.
Patience == Window + (Threshold - 1) * Period - 2

Latest(a, b) == IF a > b THEN a ELSE b

\* Idle time is counted up to the last value that makes a difference.
IdleBound == Latest(Window + 1, Patience + 1)

VARIABLES
  latest,       \* per partition, the offset the next message will get
  next,         \* per partition, the next offset the group will receive
  mine,         \* partitions assigned to this replica
  handler,      \* the consumer goroutine; started unless "starting"
  seen,         \* partitionOffsets: the last offset received, or None
  idle,         \* time since lastMessageTime
  due,          \* a tick waits in the channel of the ticker
  monitor,      \* where the monitor is
  round,        \* ticks since its round began, up to Window
  snapshot,     \* its copy of partitionOffsets
  lag,          \* the lag it found
  apiHealthy,
  healthy,
  file,         \* whether the probe file exists
  probe,        \* time to the next liveness probe
  failures,     \* probes failed in a row
  late,         \* whether a message has taken longer than Patience
  slow,         \* whether a round was not over by the next tick
  faults        \* faults that may still happen

topic == <<latest, next, mine>>
consumer == <<handler, seen, idle>>
verdict == <<lag, apiHealthy, healthy>>
rounds == <<due, monitor, round, snapshot>>
kubelet == <<probe, failures>>
excuses == <<late, slow>>
vars == <<topic, consumer, verdict, rounds, kubelet, file, excuses, faults>>

Unseen == [p \in Partitions |-> None]

Init ==
  /\ latest = [p \in Partitions |-> 0]
  /\ next = [p \in Partitions |-> 0]
  /\ mine = Partitions
  /\ probe = 0
  /\ faults = Faults
  /\ handler = "starting"
  /\ seen = Unseen
  /\ idle = 0
  /\ due = FALSE
  /\ monitor = "resting"
  /\ round = 0
  /\ snapshot = Unseen
  /\ lag = "none"
  /\ apiHealthy = FALSE
  /\ healthy = FALSE
  /\ file = FALSE
  /\ failures = 0
  /\ late = FALSE
  /\ slow = FALSE

Fault(kind) ==
  /\ faults[kind] > 0
  /\ faults' = [faults EXCEPT ![kind] = @ - 1]

-----------------------------------------------------------------------------
(***************************************************************************)
(* The topic and the consumer.                                             *)
(***************************************************************************)
Waiting(p) == next[p] < latest[p]

Arrive ==
  /\ \E p \in Partitions :
       /\ latest[p] < Messages
       /\ latest' = [latest EXCEPT ![p] = @ + 1]
  /\ UNCHANGED <<next, mine, consumer, verdict, rounds, kubelet, file, excuses,
                 faults>>

\* Other replicas consume what is not assigned to this one.
ReceiveElsewhere ==
  /\ \E p \in Partitions \ mine :
       Waiting(p) /\ next' = [next EXCEPT ![p] = @ + 1]
  /\ UNCHANGED <<latest, mine, consumer, verdict, rounds, kubelet, file,
                 excuses, faults>>

\* Nobody tells the tracker.
Rebalance ==
  /\ Fault("rebalance")
  /\ \E ps \in SUBSET Partitions : ps # mine /\ mine' = ps
  /\ UNCHANGED <<latest, next, consumer, verdict, rounds, kubelet, file,
                 excuses>>

\* health.start, just before the consumer enters kafka.Consume.
Start ==
  /\ handler = "starting"
  /\ handler' = "idle"
  /\ idle' = 0
  /\ UNCHANGED <<topic, seen, verdict, rounds, kubelet, file, excuses, faults>>

\* Mutant of Recorded: the offset to read next.
NextToRead(p) == next[p] + 1

Recorded(p) == next[p]

\* recordMessage, before the message is processed.
Receive ==
  /\ handler = "idle"
  /\ \E p \in mine :
       /\ Waiting(p)
       /\ seen' = [seen EXCEPT ![p] = Recorded(p)]
       /\ next' = [next EXCEPT ![p] = @ + 1]
  /\ idle' = 0
  /\ handler' = "busy"
  /\ UNCHANGED <<latest, mine, verdict, rounds, kubelet, file, excuses,
                 faults>>

Finish ==
  /\ handler = "busy"
  /\ handler' = "idle"
  /\ UNCHANGED <<topic, seen, idle, verdict, rounds, kubelet, file, excuses,
                 faults>>

\* A call to AWS is never answered.
Hang ==
  /\ handler = "busy"
  /\ Fault("hang")
  /\ handler' = "hung"
  /\ UNCHANGED <<topic, seen, idle, verdict, rounds, kubelet, file, excuses>>

-----------------------------------------------------------------------------
(***************************************************************************)
(* The monitor: one round per tick.                                        *)
(***************************************************************************)
Snapshot ==
  /\ monitor = "resting"
  /\ due
  /\ due' = FALSE
  /\ snapshot' = seen
  /\ round' = 0
  /\ monitor' = "lag"
  /\ UNCHANGED <<topic, consumer, verdict, kubelet, file, excuses, faults>>

\* Mutants of Lag: counting the message in hand, missing the first one.
LagWithHand(end, committed) == end - committed
LagWithoutNext(end, committed) == end - committed - 2

Lag(end, committed) == end - committed - 1

\* getPartitionLag of every partition in the copy, negative lags being none.
QueryLag ==
  /\ monitor = "lag"
  /\ LET behind == { p \in Partitions : /\ snapshot[p] # None
                                        /\ Lag(latest[p], snapshot[p]) > 0 } IN
       \/ /\ lag' = IF behind = {} THEN "none" ELSE "some"
          /\ UNCHANGED faults
       \/ /\ \E p \in Partitions : snapshot[p] # None
          /\ Fault("kafka")
          /\ lag' = "error"
  /\ monitor' = "api"
  /\ UNCHANGED <<topic, consumer, apiHealthy, healthy, due, round, snapshot,
                 kubelet, file, excuses>>

\* Mutant of ApiHealthy: one failure is for good.
ApiNeverFailed(now) == apiHealthy /\ now

ApiHealthy(now) == now

CheckApi ==
  /\ monitor = "api"
  /\ \/ apiHealthy' = ApiHealthy(TRUE) /\ UNCHANGED faults
     \/ apiHealthy' = ApiHealthy(FALSE) /\ Fault("api")
  /\ monitor' = "update"
  /\ UNCHANGED <<topic, consumer, lag, healthy, due, round, snapshot, kubelet,
                 file, excuses>>

\* Whether idleTime, of which the ticks tell one interval more or less, is
\* over stuckConsumerWindow.
Exceeds(over) == IF over THEN idle >= Window ELSE idle <= Window

\* Mutant of ConsumerHealthy: idle time alone is enough.
HealthyWithoutLag(over) == handler # "starting" /\ ~over

ConsumerHealthy(over) == handler # "starting" /\ ~(lag = "some" /\ over)

Update ==
  /\ monitor = "update"
  /\ \E over \in BOOLEAN :
       Exceeds(over) /\ healthy' = (ConsumerHealthy(over) /\ apiHealthy)
  /\ monitor' = IF healthy' # healthy THEN "file" ELSE "resting"
  /\ UNCHANGED <<topic, consumer, lag, apiHealthy, due, round, snapshot,
                 kubelet, file, excuses, faults>>

\* os.Create or os.Remove, which may fail; nothing repeats it.
ManageFile ==
  /\ monitor = "file"
  /\ \/ file' = healthy /\ UNCHANGED faults
     \/ Fault("file") /\ UNCHANGED file
  /\ monitor' = "resting"
  /\ UNCHANGED <<topic, consumer, verdict, due, round, snapshot, kubelet,
                 excuses>>

Monitor == Snapshot \/ QueryLag \/ CheckApi \/ Update \/ ManageFile

-----------------------------------------------------------------------------
(***************************************************************************)
(* The kubelet and time.                                                   *)
(***************************************************************************)
ProbeSees(exists) ==
  /\ probe = 0
  /\ file = exists
  /\ probe' = Period

Pass ==
  /\ ProbeSees(TRUE)
  /\ failures' = 0
  /\ UNCHANGED <<topic, consumer, verdict, rounds, file, excuses, faults>>

Fail ==
  /\ ProbeSees(FALSE)
  /\ failures + 1 < Threshold
  /\ failures' = failures + 1
  /\ UNCHANGED <<topic, consumer, verdict, rounds, file, excuses, faults>>

\* The process ends and a new one starts in a new container.  The message
\* it had may be delivered again, if its offset was not committed.
Restart ==
  /\ probe = 0
  /\ ~file
  /\ failures + 1 = Threshold
  /\ probe' = 0
  /\ handler' = "starting"
  /\ seen' = Unseen
  /\ idle' = 0
  /\ due' = FALSE
  /\ monitor' = "resting"
  /\ round' = 0
  /\ snapshot' = Unseen
  /\ lag' = "none"
  /\ apiHealthy' = FALSE
  /\ healthy' = FALSE
  /\ file' = FALSE
  /\ failures' = 0
  /\ late' = FALSE
  /\ slow' = FALSE
  /\ \/ UNCHANGED <<next, faults>>
     \/ /\ Fault("redelivery")
        /\ \E p \in mine :
             /\ seen[p] # None /\ next[p] = seen[p] + 1
             /\ next' = [next EXCEPT ![p] = @ - 1]
  /\ UNCHANGED <<latest, mine>>

\* An interval passes: not before the probe, the start of the consumer and
\* the delivery of a message to an idle consumer, which take less.  A round
\* of the monitor takes what its queries take.
Tick ==
  /\ probe > 0
  /\ handler # "starting"
  /\ handler = "idle" => \A p \in mine : ~Waiting(p)
  /\ monitor = "resting" => ~due
  /\ due' = TRUE
  /\ LET running == monitor # "resting" IN
       /\ round' = IF running /\ round < Window THEN round + 1 ELSE round
       /\ slow' = (slow \/ running)
  /\ idle' = IF idle < IdleBound THEN idle + 1 ELSE idle
  /\ late' = (late \/ (handler = "busy" /\ idle' > Patience))
  /\ probe' = probe - 1
  /\ UNCHANGED <<topic, handler, seen, verdict, monitor, snapshot, failures,
                 file, faults>>

-----------------------------------------------------------------------------
Next ==
  \/ Arrive \/ ReceiveElsewhere \/ Rebalance
  \/ Start \/ Receive \/ Finish \/ Hang
  \/ Monitor
  \/ Pass \/ Fail \/ Restart \/ Tick

Spec == Init /\ [][Next]_vars

\* Both goroutines run, AWS (but for Hang), Kafka and Sources answer or fail
\* in the end, the kubelet probes, and time passes.
FairSpec ==
  /\ Spec
  /\ WF_vars(Start) /\ WF_vars(Receive) /\ WF_vars(Finish)
  /\ WF_vars(Monitor)
  /\ WF_vars(Pass \/ Fail \/ Restart)
  /\ WF_vars(Tick)
-----------------------------------------------------------------------------
(***************************************************************************)
(* Properties.                                                             *)
(***************************************************************************)
Offsets == 0..Messages

TypeOK ==
  /\ latest \in [Partitions -> Offsets]
  /\ next \in [Partitions -> Offsets]
  /\ \A p \in Partitions : next[p] <= latest[p]
  /\ mine \subseteq Partitions
  /\ handler \in {"starting", "idle", "busy", "hung"}
  /\ seen \in [Partitions -> Offsets \union {None}]
  /\ \A p \in Partitions : seen[p] # None => seen[p] < latest[p]
  /\ idle \in 0..IdleBound
  /\ due \in BOOLEAN
  /\ monitor \in {"resting", "lag", "api", "update", "file"}
  /\ round \in 0..Window
  /\ snapshot \in [Partitions -> Offsets \union {None}]
  /\ lag \in {"none", "some", "error"}
  /\ apiHealthy \in BOOLEAN /\ healthy \in BOOLEAN
  /\ file \in BOOLEAN
  /\ probe \in 0..Period
  /\ failures \in 0..(Threshold - 1)
  /\ late \in BOOLEAN /\ slow \in BOOLEAN
  /\ faults \in [FaultKinds -> Nat]

\* "Only unhealthy if messages are available but we're not processing them":
\* when the monitor calls the consumer stuck, there is a message nobody has
\* received, though the offsets compared are a copy made before, and messages
\* come and go meanwhile.  It takes that partitions do not move, and that the
\* round has not itself lasted for the window.
JudgedStuckOnlyIfWaiting ==
  /\ monitor = "update" /\ round < Window
  /\ handler # "starting"
  /\ \E over \in BOOLEAN : Exceeds(over) /\ ~ConsumerHealthy(over)
  => \E p \in Partitions : Waiting(p)

\* While Sources answers the API check and the file can be written, only a
\* handler that hangs, a message that took longer than Patience, or a round of
\* the monitor not over by the next tick makes the kubelet restart the
\* container: no race of monitor, probe and handler cuts short the forging of
\* messages each of which is dealt with in time.
HandlersGetTheirTime == [][Restart => late \/ slow \/ handler = "hung"]_vars

\* A handler that hangs while messages wait in a partition it has received
\* from ends with a restart, unless writing the probe file has failed.
HungIsRestarted ==
  (handler = "hung" /\ \E p \in mine : seen[p] # None /\ Waiting(p))
    ~> (handler # "hung" \/ faults["file"] < Faults["file"])

\* No message waits for this replica, and rounds are over by the next tick.
Calm == round = 0 /\ \A p \in mine : ~Waiting(p)

\* Whatever failed, hung, moved or came again: once faults cease and the
\* replica is calm, it ends up with its probe file and keeps it.  While
\* messages wait, one that takes longer than the window costs it the file each
\* time, and rounds slower than the probes restart it before they end.
EventuallyHealthy == <>[]Calm => <>[]file
=============================================================================
