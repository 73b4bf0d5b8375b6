---------------------------- MODULE HealthProofs ----------------------------
(***************************************************************************)
(* Theorems about Health: any partitions, bounds on messages and faults,   *)
(* and settings of monitor and probe.                                      *)
(***************************************************************************)
EXTENDS Health, TLAPS

-----------------------------------------------------------------------------
(***************************************************************************)
(* What the second and the third theorem take for granted.                 *)
(***************************************************************************)

\* Every partition stays with this replica.
NothingMoves == Faults["rebalance"] = 0

\* Sources answers the API check and the probe file can be written.
NothingElseFails == Faults["api"] = 0 /\ Faults["file"] = 0

\* A file that came back is seen by a probe before it can be removed again,
\* and the monitor has brought it back before the last probe.  The deployment
\* has it: its window is 4 intervals, its period 2, and three probes must fail.
ProbesSeeRecovery == Period + 1 < Window /\ Threshold >= 3

-----------------------------------------------------------------------------
(***************************************************************************)
(* The inductive invariant behind JudgedStuckOnlyIfWaiting.                *)
(***************************************************************************)

StaysMine == faults["rebalance"] = 0 /\ mine = Partitions

\* The tracker knows the last message of a partition it has heard of.
Tracked == \A p \in Partitions : seen[p] # None => next[p] = seen[p] + 1

\* Who has been idle for longer than the round has received nothing in it.
CopyIsCurrent ==
  monitor # "resting" /\ round < Window /\ idle > round => snapshot = seen

\* Lag, once found, does not go away under the monitor.
LagIsReal ==
  monitor \in {"api", "update"} /\ lag = "some"
    => \E p \in Partitions : /\ snapshot[p] # None
                             /\ Lag(latest[p], snapshot[p]) > 0

JudgeInv == TypeOK /\ StaysMine /\ Tracked /\ CopyIsCurrent /\ LagIsReal

-----------------------------------------------------------------------------
(***************************************************************************)
(* The inductive invariant behind HandlersGetTheirTime.                    *)
(***************************************************************************)

NoneFails == faults["api"] = 0 /\ faults["file"] = 0

ApiAnswers == monitor = "update" => apiHealthy

FileFollows == file = IF monitor = "file" THEN ~healthy ELSE healthy

\* A round that saw a tick is a slow one.
TicksAreSlow == round # 0 => slow

\* Intervals since the first of the probes failed in a row.
Spent == IF failures = 0 THEN 0 ELSE failures * Period - probe

\* All it takes for the container to be restarted.
Enough == (Threshold - 1) * Period

\* Intervals that may pass before the monitor has updated the file.
UntilFile ==
  IF \/ due
     \/ monitor \in {"lag", "api", "update"}
     \/ monitor = "file" /\ healthy
  THEN 0 ELSE 1

Up == handler \in {"idle", "busy"}

\* Before Start: at most one probe has failed.
Starting ==
  /\ handler = "starting"
  /\ monitor = "resting" /\ ~due /\ ~healthy
  /\ failures = 0 \/ (failures = 1 /\ probe = Period)

\* The probes see the file.
Well == Up /\ healthy /\ file /\ (failures = 0 \/ idle + probe < Window)

\* The file is missing, or about to be, and the monitor brings it back in time.
Healing ==
  /\ Up /\ (healthy => monitor = "file")
  /\ idle + UntilFile <= 1
  /\ Spent + UntilFile < Enough

\* One message has been in the works since Window before the first failure.
Stuck ==
  /\ Up
  /\ \E p \in Partitions : Waiting(p)
  /\ idle >= Window + Spent
  /\ Spent = 0 \/ idle <= Patience

TimeInv ==
  /\ JudgeInv
  /\ NoneFails /\ ApiAnswers /\ FileFollows /\ TicksAreSlow
  /\ late \/ slow \/ handler = "hung" \/ Starting \/ Well \/ Healing \/ Stuck

-----------------------------------------------------------------------------
(***************************************************************************)
(* Arithmetic of the constants.                                            *)
(***************************************************************************)

LEMMA Bounds ==
  /\ Patience \in Int
  /\ IdleBound \in Nat /\ IdleBound >= Window + 1 /\ IdleBound > Patience
<1>1. (Threshold - 1) * Period \in Int
  BY HealthAssumption
<1>2. Patience \in Int
  BY <1>1, HealthAssumption DEF Patience
<1> QED BY <1>2, HealthAssumption DEF IdleBound, Latest

LEMMA FaultIs ==
  ASSUME faults \in [FaultKinds -> Nat], NEW kind \in FaultKinds, Fault(kind)
  PROVE  /\ faults' \in [FaultKinds -> Nat]
         /\ faults[kind] > 0
         /\ \A k \in FaultKinds : faults'[k] <= faults[k]
  BY DEF Fault

-----------------------------------------------------------------------------
(***************************************************************************)
(* Types.                                                                  *)
(***************************************************************************)

LEMMA InitTyped == Init => TypeOK
<1> SUFFICES ASSUME Init PROVE TypeOK
  OBVIOUS
<1>1. 0 \in Offsets
  BY HealthAssumption DEF Offsets
<1>2. seen = Unseen /\ Unseen \in [Partitions -> Offsets \union {None}]
  BY DEF Init, Unseen
<1>3. idle \in 0..IdleBound
  BY Bounds DEF Init
<1>4. /\ latest \in [Partitions -> Offsets] /\ next \in [Partitions -> Offsets]
      /\ \A p \in Partitions : next[p] <= latest[p]
  BY <1>1 DEF Init
<1>5. \A p \in Partitions : seen[p] = None
  BY DEF Init, Unseen
<1>6. /\ round \in 0..Window /\ probe \in 0..Period
      /\ failures \in 0..(Threshold - 1)
  BY HealthAssumption DEF Init
<1>7. faults \in [FaultKinds -> Nat]
  BY HealthAssumption DEF Init
<1> QED BY <1>2, <1>3, <1>4, <1>5, <1>6, <1>7 DEF Init, TypeOK

LEMMA TopicTyped ==
  ASSUME TypeOK, Arrive \/ ReceiveElsewhere \/ Rebalance
  PROVE  TypeOK'
<1> USE HealthAssumption
        DEF vars, topic, consumer, verdict, rounds, kubelet, excuses
<1>1. CASE Arrive
  <2>1. PICK p \in Partitions :
          latest[p] < Messages /\ latest' = [latest EXCEPT ![p] = @ + 1]
    BY <1>1 DEF Arrive
  <2>2. latest' \in [Partitions -> Offsets]
    BY <2>1 DEF TypeOK, Offsets
  <2>3. \A q \in Partitions : latest[q] <= latest'[q]
    BY <2>1 DEF TypeOK, Offsets
  <2>4. UNCHANGED <<next, mine, consumer, verdict, rounds, kubelet, file,
                    excuses, faults>>
    BY <1>1 DEF Arrive
  <2>5. \A q \in Partitions : next[q] <= latest'[q]
    BY <2>2, <2>3 DEF TypeOK, Offsets
  <2>6. \A q \in Partitions : seen[q] # None => seen[q] < latest'[q]
    BY <2>2, <2>3 DEF TypeOK, Offsets
  <2> QED BY <2>2, <2>4, <2>5, <2>6 DEF TypeOK
<1>2. CASE ReceiveElsewhere
  <2>1. PICK p \in Partitions \ mine :
          Waiting(p) /\ next' = [next EXCEPT ![p] = @ + 1]
    BY <1>2 DEF ReceiveElsewhere
  <2>2. /\ next' \in [Partitions -> Offsets]
        /\ \A q \in Partitions : next'[q] <= latest[q]
    BY <2>1 DEF TypeOK, Offsets, Waiting
  <2> QED BY <1>2, <2>2 DEF ReceiveElsewhere, TypeOK
<1>3. CASE Rebalance
  <2>1. faults' \in [FaultKinds -> Nat]
    BY <1>3, FaultIs DEF Rebalance, FaultKinds, TypeOK
  <2>2. mine' \subseteq Partitions
    BY <1>3 DEF Rebalance
  <2> QED BY <1>3, <2>1, <2>2 DEF Rebalance, TypeOK
<1> QED BY <1>1, <1>2, <1>3

LEMMA ReceiveIs ==
  ASSUME TypeOK, Receive
  PROVE  \E p \in mine :
           /\ p \in Partitions /\ Waiting(p)
           /\ seen' = [seen EXCEPT ![p] = next[p]]
           /\ next' = [next EXCEPT ![p] = @ + 1]
           /\ handler = "idle" /\ handler' = "busy" /\ idle' = 0
           /\ UNCHANGED <<latest, mine, verdict, rounds, kubelet, file, excuses,
                          faults>>
  BY DEF Receive, Recorded, TypeOK

LEMMA ConsumerTyped ==
  ASSUME TypeOK, Start \/ Receive \/ Finish \/ Hang
  PROVE  TypeOK'
<1> USE HealthAssumption DEF topic, consumer, verdict, rounds, kubelet, excuses
<1>0. 0 \in 0..IdleBound
  BY Bounds
<1>1. CASE Start
  BY <1>0, <1>1 DEF Start, TypeOK
<1>2. CASE Receive
  <2>1. PICK p \in mine :
          /\ p \in Partitions /\ Waiting(p)
          /\ seen' = [seen EXCEPT ![p] = next[p]]
          /\ next' = [next EXCEPT ![p] = @ + 1]
          /\ handler = "idle" /\ handler' = "busy" /\ idle' = 0
          /\ UNCHANGED <<latest, mine, verdict, rounds, kubelet, file, excuses,
                         faults>>
    BY <1>2, ReceiveIs
  <2>2. /\ next' \in [Partitions -> Offsets]
        /\ \A q \in Partitions : next'[q] <= latest[q]
    BY <2>1 DEF TypeOK, Offsets, Waiting
  <2>3. /\ seen' \in [Partitions -> Offsets \union {None}]
        /\ \A q \in Partitions : seen'[q] # None => seen'[q] < latest[q]
    BY <2>1 DEF TypeOK, Waiting
  <2> QED BY <1>0, <2>1, <2>2, <2>3 DEF TypeOK
<1>3. CASE Finish
  BY <1>3 DEF Finish, TypeOK
<1>4. CASE Hang
  <2>1. faults' \in [FaultKinds -> Nat]
    BY <1>4, FaultIs DEF Hang, FaultKinds, TypeOK
  <2> QED BY <1>4, <2>1 DEF Hang, TypeOK
<1> QED BY <1>1, <1>2, <1>3, <1>4

LEMMA MonitorTyped ==
  ASSUME TypeOK, Monitor
  PROVE  TypeOK'
<1> USE HealthAssumption DEF topic, consumer, verdict, rounds, kubelet, excuses
<1>1. CASE Snapshot
  <2>1. round' \in 0..Window
    BY <1>1 DEF Snapshot
  <2>2. snapshot' = seen /\ seen \in [Partitions -> Offsets \union {None}]
    BY <1>1 DEF Snapshot, TypeOK
  <2> QED BY <1>1, <2>1, <2>2 DEF Snapshot, TypeOK
<1>2. CASE QueryLag
  <2>1. faults' \in [FaultKinds -> Nat] /\ lag' \in {"none", "some", "error"}
    BY <1>2, FaultIs DEF QueryLag, FaultKinds, TypeOK
  <2> QED BY <1>2, <2>1 DEF QueryLag, TypeOK
<1>3. CASE CheckApi
  <2>1. faults' \in [FaultKinds -> Nat] /\ apiHealthy' \in BOOLEAN
    BY <1>3, FaultIs DEF CheckApi, ApiHealthy, FaultKinds, TypeOK
  <2> QED BY <1>3, <2>1 DEF CheckApi, TypeOK
<1>4. CASE Update
  <2>1. healthy' \in BOOLEAN
    BY <1>4 DEF Update, ConsumerHealthy, TypeOK
  <2> QED BY <1>4, <2>1 DEF Update, TypeOK
<1>5. CASE ManageFile
  <2>1. faults' \in [FaultKinds -> Nat] /\ file' \in BOOLEAN
    BY <1>5, FaultIs DEF ManageFile, FaultKinds, TypeOK
  <2> QED BY <1>5, <2>1 DEF ManageFile, TypeOK
<1> QED BY <1>1, <1>2, <1>3, <1>4, <1>5 DEF Monitor

\* Fresh memory for a new process; a message may come again.
LEMMA RestartIs ==
  ASSUME TypeOK, Restart
  PROVE  /\ handler' = "starting" /\ monitor' = "resting" /\ due' = FALSE
         /\ seen' = Unseen /\ snapshot' = Unseen /\ lag' = "none"
         /\ idle' = 0 /\ round' = 0 /\ probe' = 0 /\ failures' = 0
         /\ apiHealthy' = FALSE /\ healthy' = FALSE
         /\ file' = FALSE /\ late' = FALSE /\ slow' = FALSE
         /\ UNCHANGED <<latest, mine>>
         /\ next' \in [Partitions -> Offsets]
         /\ \A p \in Partitions : next'[p] <= next[p]
         /\ faults' \in [FaultKinds -> Nat]
         /\ \A k \in FaultKinds : faults'[k] <= faults[k]
<1>1. CASE UNCHANGED <<next, faults>>
  BY <1>1 DEF Restart, TypeOK, Offsets
<1>2. CASE Fault("redelivery") /\ \E p \in mine :
             /\ seen[p] # None /\ next[p] = seen[p] + 1
             /\ next' = [next EXCEPT ![p] = @ - 1]
  <2>1. PICK p \in Partitions : /\ seen[p] # None /\ next[p] = seen[p] + 1
                                /\ next' = [next EXCEPT ![p] = @ - 1]
    BY <1>2 DEF TypeOK
  <2>2. seen[p] \in Offsets
    BY <2>1 DEF TypeOK
  <2>3. /\ next' \in [Partitions -> Offsets]
        /\ \A q \in Partitions : next'[q] <= next[q]
    BY <2>1, <2>2, HealthAssumption DEF TypeOK, Offsets
  <2> QED BY <1>2, <2>3, FaultIs DEF Restart, FaultKinds, TypeOK
<1> QED BY <1>1, <1>2 DEF Restart

LEMMA TickIs ==
  ASSUME TypeOK, Tick
  PROVE  /\ probe > 0 /\ probe' = probe - 1
         /\ handler # "starting"
         /\ handler = "idle" => \A p \in mine : ~Waiting(p)
         /\ monitor = "resting" => ~due
         /\ due' = TRUE
         /\ round' = IF monitor # "resting" /\ round < Window THEN round + 1
                     ELSE round
         /\ round' \in 0..Window
         /\ idle' \in 0..IdleBound
         /\ idle' = idle + 1 \/ (idle' = idle /\ idle = IdleBound)
         /\ late' \in BOOLEAN
         /\ slow' \in BOOLEAN
         /\ late' <=> (late \/ (handler = "busy" /\ idle' > Patience))
         /\ slow' <=> (slow \/ monitor # "resting")
         /\ UNCHANGED <<topic, handler, seen, verdict, monitor, snapshot,
                        failures, file, faults>>
<1>1. /\ idle' \in 0..IdleBound
      /\ idle' = idle + 1 \/ (idle' = idle /\ idle = IdleBound)
  BY Bounds DEF Tick, TypeOK
<1>2. round' \in 0..Window
  BY HealthAssumption DEF Tick, TypeOK
<1> QED BY <1>1, <1>2 DEF Tick, TypeOK

LEMMA ClockTyped ==
  ASSUME TypeOK, Pass \/ Fail \/ Restart \/ Tick
  PROVE  TypeOK'
<1> USE HealthAssumption DEF topic, consumer, verdict, rounds, kubelet, excuses
<1>1. CASE Pass
  BY <1>1 DEF Pass, ProbeSees, TypeOK
<1>2. CASE Fail
  <2>1. failures' \in 0..(Threshold - 1)
    BY <1>2 DEF Fail, TypeOK
  <2> QED BY <1>2, <2>1 DEF Fail, ProbeSees, TypeOK
<1>3. CASE Restart
  <2>1. ASSUME NEW p \in Partitions PROVE next'[p] <= latest'[p]
    <3>1. /\ next'[p] <= next[p] /\ latest' = latest
          /\ next' \in [Partitions -> Offsets]
      BY <1>3, RestartIs
    <3>2. next'[p] \in Int /\ next[p] \in Int /\ latest[p] \in Int
      BY <3>1 DEF TypeOK, Offsets
    <3> QED BY <3>1, <3>2 DEF TypeOK
  <2>2. \A p \in Partitions : seen'[p] = None
    BY <1>3, RestartIs DEF Unseen
  <2>3. Unseen \in [Partitions -> Offsets \union {None}]
    BY DEF Unseen
  <2>4. /\ idle' \in 0..IdleBound /\ round' \in 0..Window
        /\ probe' \in 0..Period /\ failures' \in 0..(Threshold - 1)
    BY <1>3, RestartIs, Bounds
  <2>5. /\ seen' \in [Partitions -> Offsets \union {None}]
        /\ snapshot' \in [Partitions -> Offsets \union {None}]
    BY <1>3, <2>3, RestartIs
  <2>6. /\ latest' \in [Partitions -> Offsets] /\ mine' \subseteq Partitions
        /\ next' \in [Partitions -> Offsets]
        /\ faults' \in [FaultKinds -> Nat]
    BY <1>3, RestartIs DEF TypeOK
  <2>7. /\ handler' = "starting" /\ monitor' = "resting" /\ due' = FALSE
        /\ lag' = "none" /\ apiHealthy' = FALSE /\ healthy' = FALSE
        /\ file' = FALSE /\ late' = FALSE /\ slow' = FALSE
    BY <1>3, RestartIs
  <2> QED BY <2>1, <2>2, <2>4, <2>5, <2>6, <2>7 DEF TypeOK
<1>4. CASE Tick
  <2>1. probe' \in 0..Period
    <3>1. probe > 0 /\ probe' = probe - 1
      BY <1>4 DEF Tick
    <3> QED BY <3>1 DEF TypeOK
  <2> QED BY <1>4, <2>1, TickIs DEF TypeOK
<1> QED BY <1>1, <1>2, <1>3, <1>4

LEMMA NextTyped ==
  ASSUME TypeOK, [Next]_vars
  PROVE  TypeOK'
<1>1. CASE UNCHANGED vars
  BY <1>1 DEF vars, topic, consumer, verdict, rounds, kubelet, excuses, TypeOK
<1> QED BY <1>1, TopicTyped, ConsumerTyped, MonitorTyped, ClockTyped DEF Next

\* Whatever fails or moves, every variable keeps its type: the tracker never
\* records an offset the log does not have (recordMessage), nobody receives
\* past its end, and no probe fails more often than the kubelet waits for.
THEOREM HealthTypeCorrect == Spec => []TypeOK
<1>1. Init => TypeOK
  BY InitTyped
<1>2. TypeOK /\ [Next]_vars => TypeOK'
  BY NextTyped
<1> QED BY <1>1, <1>2, PTL DEF Spec

-----------------------------------------------------------------------------
(***************************************************************************)
(* The consumer is judged stuck only if a message waits.                   *)
(***************************************************************************)

LEMMA InitJudge == NothingMoves /\ Init => JudgeInv
<1> SUFFICES ASSUME NothingMoves, Init PROVE JudgeInv
  OBVIOUS
<1>1. \A p \in Partitions : seen[p] = None
  BY DEF Init, Unseen
<1> QED BY <1>1, InitTyped
        DEF Init, NothingMoves, JudgeInv, StaysMine, Tracked, CopyIsCurrent,
            LagIsReal

LEMMA StaysMineHolds ==
  ASSUME JudgeInv, [Next]_vars
  PROVE  StaysMine'
<1> USE DEF JudgeInv, StaysMine, topic, consumer, verdict, rounds, kubelet,
            excuses
<1>1. faults["rebalance"] = 0 /\ mine = Partitions /\ TypeOK
      /\ "rebalance" \in FaultKinds
  BY DEF FaultKinds
<1>2. CASE UNCHANGED vars
  BY <1>2 DEF vars
<1>3. CASE Arrive \/ ReceiveElsewhere \/ Start \/ Receive \/ Finish
           \/ Snapshot \/ Update \/ Pass \/ Fail \/ Tick
  BY <1>3 DEF Arrive, ReceiveElsewhere, Start, Receive, Finish, Snapshot,
              Update, Pass, Fail, Tick
<1>4. CASE Rebalance
  BY <1>1, <1>4 DEF Rebalance, Fault
<1>5. CASE Hang
  BY <1>1, <1>5 DEF Hang, Fault, TypeOK
<1>6. CASE QueryLag
  BY <1>1, <1>6 DEF QueryLag, Fault, TypeOK
<1>7. CASE CheckApi
  BY <1>1, <1>7 DEF CheckApi, Fault, TypeOK
<1>8. CASE ManageFile
  BY <1>1, <1>8 DEF ManageFile, Fault, TypeOK
<1>9. CASE Restart
  BY <1>1, <1>9 DEF Restart, Fault, TypeOK
<1> QED BY <1>2, <1>3, <1>4, <1>5, <1>6, <1>7, <1>8, <1>9 DEF Next, Monitor

\* Only Receive touches both, and Restart forgets.
LEMMA TrackedHolds ==
  ASSUME JudgeInv, [Next]_vars
  PROVE  Tracked'
<1> USE DEF JudgeInv, topic, consumer, verdict, rounds, kubelet, excuses
<1>1. CASE UNCHANGED <<seen, next>>
  BY <1>1 DEF Tracked
<1>2. CASE ReceiveElsewhere
  BY <1>2 DEF ReceiveElsewhere, StaysMine
<1>3. CASE Receive
  <2>1. PICK p \in Partitions :
          /\ seen' = [seen EXCEPT ![p] = next[p]]
          /\ next' = [next EXCEPT ![p] = @ + 1]
    BY <1>3, ReceiveIs
  <2>2. /\ seen'[p] = next[p] /\ next'[p] = next[p] + 1
        /\ \A q \in Partitions \ {p} : seen'[q] = seen[q] /\ next'[q] = next[q]
    BY <2>1 DEF TypeOK
  <2> QED BY <2>2 DEF Tracked
<1>4. CASE Restart
  BY <1>4, RestartIs DEF Tracked, Unseen
<1>5. CASE UNCHANGED vars
  BY <1>1, <1>5 DEF vars
<1>6. CASE Arrive \/ Rebalance \/ Start \/ Finish \/ Hang \/ Monitor
           \/ Pass \/ Fail \/ Tick
  <2>1. UNCHANGED <<seen, next>>
    BY <1>6 DEF Arrive, Rebalance, Start, Finish, Hang, Monitor, Snapshot,
         QueryLag, CheckApi, Update, ManageFile, Pass, Fail, Tick
  <2> QED BY <1>1, <2>1
<1> QED BY <1>2, <1>3, <1>4, <1>5, <1>6 DEF Next

LEMMA CopyIsCurrentHolds ==
  ASSUME JudgeInv, [Next]_vars
  PROVE  CopyIsCurrent'
<1> USE DEF JudgeInv, topic, consumer, verdict, rounds, kubelet, excuses
<1>1. CASE UNCHANGED <<seen, idle, round, snapshot>>
           /\ (monitor = "resting" => monitor' = "resting")
  BY <1>1 DEF CopyIsCurrent
<1>2. CASE Start \/ Receive
  <2>1. idle' = 0 /\ round' = round /\ round \in Nat
    BY <1>2 DEF Start, Receive, TypeOK
  <2> QED BY <2>1 DEF CopyIsCurrent
<1>3. CASE Snapshot
  BY <1>3 DEF Snapshot, CopyIsCurrent
<1>4. CASE Restart
  BY <1>4, RestartIs DEF CopyIsCurrent
<1>5. CASE Tick
  <2>1. /\ round' = IF monitor # "resting" /\ round < Window THEN round + 1
                    ELSE round
        /\ idle' = idle + 1 \/ (idle' = idle /\ idle = IdleBound)
        /\ UNCHANGED <<seen, snapshot, monitor>>
    BY <1>5, TickIs
  <2>2. round \in Int /\ idle \in Int /\ Window \in Int /\ IdleBound > Window
    BY Bounds, HealthAssumption DEF TypeOK
  <2> QED BY <2>1, <2>2 DEF CopyIsCurrent
<1>6. CASE UNCHANGED vars
  BY <1>1, <1>6 DEF vars
<1>7. CASE Arrive \/ ReceiveElsewhere \/ Rebalance \/ Finish \/ Hang
           \/ QueryLag \/ CheckApi \/ Update \/ ManageFile \/ Pass \/ Fail
  <2>1. UNCHANGED <<seen, idle, round, snapshot>>
        /\ (monitor = "resting" => monitor' = "resting")
    BY <1>7 DEF Arrive, ReceiveElsewhere, Rebalance, Finish, Hang, QueryLag,
         CheckApi, Update, ManageFile, Pass, Fail
  <2> QED BY <1>1, <2>1
<1> QED BY <1>2, <1>3, <1>4, <1>5, <1>6, <1>7 DEF Next, Monitor

LEMMA LagIsRealHolds ==
  ASSUME JudgeInv, [Next]_vars
  PROVE  LagIsReal'
<1> USE DEF JudgeInv, topic, consumer, verdict, rounds, kubelet, excuses
<1>1. CASE UNCHANGED <<latest, lag, snapshot>>
           /\ (monitor' \in {"api", "update"} => monitor \in {"api", "update"})
  BY <1>1 DEF LagIsReal
<1>2. CASE Arrive
  <2>1. PICK q \in Partitions : latest' = [latest EXCEPT ![q] = @ + 1]
    BY <1>2 DEF Arrive
  <2>2. UNCHANGED <<monitor, lag, snapshot>>
    BY <1>2 DEF Arrive
  <2>3. SUFFICES ASSUME monitor \in {"api", "update"}, lag = "some"
                 PROVE  \E p \in Partitions :
                          /\ snapshot[p] # None
                          /\ Lag(latest'[p], snapshot[p]) > 0
    BY <2>2 DEF LagIsReal
  <2>4. PICK p \in Partitions : /\ snapshot[p] # None
                                /\ Lag(latest[p], snapshot[p]) > 0
    BY <2>3 DEF LagIsReal
  <2>5. /\ latest[p] \in Int /\ snapshot[p] \in Int
        /\ latest'[p] \in Int /\ latest'[p] >= latest[p]
    BY <2>1, <2>4 DEF TypeOK, Offsets
  <2> QED BY <2>4, <2>5 DEF Lag
<1>3. CASE Snapshot \/ Update \/ ManageFile
  BY <1>3 DEF Snapshot, Update, ManageFile, LagIsReal
<1>4. CASE QueryLag
  <2>1. UNCHANGED <<latest, snapshot>>
    BY <1>4 DEF QueryLag
  <2>2. lag' = "some" =>
          \E p \in Partitions : /\ snapshot[p] # None
                                /\ Lag(latest[p], snapshot[p]) > 0
    BY <1>4 DEF QueryLag
  <2> QED BY <2>1, <2>2 DEF LagIsReal
<1>5. CASE Restart
  BY <1>5, RestartIs DEF LagIsReal
<1>6. CASE UNCHANGED vars
  BY <1>1, <1>6 DEF vars
<1>7. CASE ReceiveElsewhere \/ Rebalance \/ Start \/ Receive \/ Finish \/ Hang
           \/ CheckApi \/ Pass \/ Fail \/ Tick
  <2>1. UNCHANGED <<latest, lag, snapshot>>
        /\ (monitor' \in {"api", "update"} => monitor \in {"api", "update"})
    BY <1>7 DEF ReceiveElsewhere, Rebalance, Start, Receive, Finish, Hang,
         CheckApi, Pass, Fail, Tick
  <2> QED BY <1>1, <2>1
<1> QED BY <1>2, <1>3, <1>4, <1>5, <1>6, <1>7 DEF Next, Monitor

LEMMA NextJudge == JudgeInv /\ [Next]_vars => JudgeInv'
  BY NextTyped, StaysMineHolds, TrackedHolds, CopyIsCurrentHolds,
     LagIsRealHolds DEF JudgeInv

\* Idle for longer than the round has lasted, the replica knows the last message
\* of every partition it has heard of, and what came after it still waits.
LEMMA SomeoneWaits ==
  ASSUME JudgeInv, monitor = "update", lag = "some", round < Window,
         idle >= Window
  PROVE  \E p \in Partitions : Waiting(p)
<1>1. idle > round
  BY HealthAssumption DEF JudgeInv, TypeOK
<1>2. snapshot = seen
  BY <1>1 DEF JudgeInv, CopyIsCurrent
<1>3. PICK p \in Partitions : /\ snapshot[p] # None
                              /\ Lag(latest[p], snapshot[p]) > 0
  BY DEF JudgeInv, LagIsReal
<1>4. next[p] = seen[p] + 1 /\ seen[p] \in Int /\ latest[p] \in Int
  BY <1>2, <1>3 DEF JudgeInv, Tracked, TypeOK, Offsets
<1>5. Waiting(p)
  BY <1>2, <1>3, <1>4 DEF Waiting, Lag
<1> QED BY <1>5

LEMMA JudgeInvHolds == NothingMoves => (Spec => []JudgeInv)
<1>1. NothingMoves /\ Init => JudgeInv
  BY InitJudge
<1>2. JudgeInv /\ [Next]_vars => JudgeInv'
  BY NextJudge
<1> QED BY <1>1, <1>2, PTL DEF Spec

\* updateOverallHealth calls the consumer stuck only while there is a message
\* nobody has received, though the offsets it compares are a copy and time has
\* passed since.  It takes that no partition moves (see health_rebalance), and a
\* round shorter than the window.
THEOREM StuckMeansWaiting ==
  NothingMoves => (Spec => []JudgedStuckOnlyIfWaiting)
<1>1. JudgeInv => JudgedStuckOnlyIfWaiting
  <2> SUFFICES ASSUME JudgeInv, monitor = "update", round < Window,
                      handler # "starting", NEW over \in BOOLEAN,
                      Exceeds(over), ~ConsumerHealthy(over)
               PROVE  \E p \in Partitions : Waiting(p)
    BY DEF JudgedStuckOnlyIfWaiting
  <2>1. lag = "some" /\ idle >= Window
    BY DEF ConsumerHealthy, Exceeds
  <2> QED BY <2>1, SomeoneWaits
<1> QED BY <1>1, JudgeInvHolds, PTL

-----------------------------------------------------------------------------
(***************************************************************************)
(* Handlers get their time.                                                *)
(***************************************************************************)

Excused == late \/ slow \/ handler = "hung"

Smaller == NoneFails /\ ApiAnswers /\ FileFollows /\ TicksAreSlow

LEMMA TimeInvIs ==
  TimeInv <=> /\ JudgeInv /\ Smaller
              /\ Excused \/ Starting \/ Well \/ Healing \/ Stuck
  BY DEF TimeInv, Smaller, Excused

LEMMA EnoughIs ==
  ASSUME ProbesSeeRecovery
  PROVE  /\ Enough \in Int /\ Enough > 1
         /\ Patience = Window + Enough - 2
<1>1. Threshold \in Int /\ Period \in Int /\ Threshold - 1 >= 2
  BY HealthAssumption DEF ProbesSeeRecovery
<1>2. (Threshold - 1) * Period \in Int
  BY <1>1
<1>3. (Threshold - 1) * Period >= 2 * Period
  BY <1>1, HealthAssumption
<1>4. Enough \in Int /\ Enough >= 2 * Period
  BY <1>2, <1>3 DEF Enough
<1>5. Period \in Int /\ Period >= 1
  BY HealthAssumption
<1>6. Patience = Window + Enough - 2
  BY DEF Patience, Enough
<1> QED BY <1>4, <1>5, <1>6

LEMMA SpentIs ==
  ASSUME TypeOK
  PROVE  Spent \in Nat
<1>1. failures \in Nat /\ Period \in Nat /\ probe \in 0..Period
  BY HealthAssumption DEF TypeOK
<1>2. CASE failures = 0
  BY <1>2 DEF Spent
<1>3. CASE failures # 0
  <2>1. failures * Period \in Nat /\ failures * Period >= Period
    BY <1>1, <1>3
  <2> QED BY <1>1, <1>3, <2>1 DEF Spent
<1> QED BY <1>2, <1>3

LEMMA SpentStays ==
  ASSUME UNCHANGED kubelet
  PROVE  Spent' = Spent
  BY DEF kubelet, Spent

LEMMA PassEnds ==
  ASSUME Pass
  PROVE  Spent' = 0
  BY DEF Pass, Spent

\* A failure starts the count or is the next in it; the count itself does not
\* change, since the probe starts over.
LEMMA FailCounts ==
  ASSUME TypeOK, Fail
  PROVE  Spent' = Spent
<1>1. /\ failures \in Int /\ Period \in Int /\ failures >= 0
      /\ probe = 0 /\ probe' = Period /\ failures' = failures + 1
  BY HealthAssumption DEF TypeOK, Fail, ProbeSees
<1>2. (failures + 1) * Period = failures * Period + Period
      /\ failures * Period \in Int
  BY <1>1
<1>3. failures = 0 => failures * Period = 0
  BY <1>1
<1>4. Spent' = (failures + 1) * Period - Period
  BY <1>1 DEF Spent
<1>5. Spent = failures * Period
  BY <1>1, <1>2, <1>3 DEF Spent
<1> QED BY <1>1, <1>2, <1>4, <1>5

LEMMA TickCounts ==
  ASSUME TypeOK, Tick
  PROVE  Spent' = 0 \/ Spent' = Spent + 1
<1>1. probe' = probe - 1 /\ failures' = failures
  BY TickIs
<1>2. probe \in Int /\ failures \in Int /\ Period \in Int
  BY HealthAssumption DEF TypeOK
<1>3. failures * Period \in Int
  BY <1>2
<1> QED BY <1>1, <1>2, <1>3 DEF Spent

LEMMA RestartTakesEnough ==
  ASSUME TypeOK, ProbesSeeRecovery, Restart
  PROVE  Spent = Enough
<1>1. /\ failures \in Int /\ failures = Threshold - 1 /\ probe = 0
      /\ failures # 0 /\ failures * Period \in Int
  BY HealthAssumption DEF TypeOK, Restart, ProbesSeeRecovery
<1> QED BY <1>1 DEF Spent, Enough

LEMMA UntilFileIs ==
  ASSUME TypeOK
  PROVE  UntilFile \in 0..1
  BY DEF UntilFile

LEMMA FaultsFall ==
  ASSUME TypeOK, [Next]_vars
  PROVE  \A k \in FaultKinds : faults'[k] <= faults[k]
<1> USE DEF topic, consumer, verdict, rounds, kubelet, excuses
<1>1. CASE UNCHANGED faults
  BY <1>1 DEF TypeOK
<1>2. CASE UNCHANGED vars
  BY <1>1, <1>2 DEF vars
<1>3. CASE Rebalance
  BY <1>3, FaultIs DEF Rebalance, FaultKinds, TypeOK
<1>4. CASE Hang
  BY <1>4, FaultIs DEF Hang, FaultKinds, TypeOK
<1>5. CASE QueryLag
  <2>1. UNCHANGED faults \/ Fault("kafka")
    BY <1>5 DEF QueryLag
  <2> QED BY <1>1, <2>1, FaultIs DEF FaultKinds, TypeOK
<1>6. CASE CheckApi
  <2>1. UNCHANGED faults \/ Fault("api")
    BY <1>6 DEF CheckApi
  <2> QED BY <1>1, <2>1, FaultIs DEF FaultKinds, TypeOK
<1>7. CASE ManageFile
  <2>1. UNCHANGED faults \/ Fault("file")
    BY <1>7 DEF ManageFile
  <2> QED BY <1>1, <2>1, FaultIs DEF FaultKinds, TypeOK
<1>8. CASE Restart
  BY <1>8, RestartIs
<1>9. CASE Arrive \/ ReceiveElsewhere \/ Start \/ Receive \/ Finish
           \/ Snapshot \/ Update \/ Pass \/ Fail \/ Tick
  <2>1. UNCHANGED faults
    BY <1>9 DEF Arrive, ReceiveElsewhere, Start, Receive, Finish, Snapshot,
         Update, Pass, Fail, Tick
  <2> QED BY <1>1, <2>1
<1> QED BY <1>2, <1>3, <1>4, <1>5, <1>6, <1>7, <1>8, <1>9 DEF Next, Monitor

LEMMA InitTime == NothingMoves /\ NothingElseFails /\ Init => TimeInv
<1> SUFFICES ASSUME NothingMoves, NothingElseFails, Init PROVE TimeInv
  OBVIOUS
<1>1. JudgeInv
  BY InitJudge
<1>2. Smaller
  BY DEF Smaller, NoneFails, ApiAnswers, FileFollows, TicksAreSlow, Init,
         NothingElseFails
<1>3. Starting
  BY DEF Starting, Init
<1> QED BY <1>1, <1>2, <1>3, TimeInvIs

\* Without faults, what the monitor's last two calls do.
LEMMA CallsSucceed ==
  ASSUME TypeOK, NoneFails
  PROVE  /\ CheckApi => apiHealthy' = TRUE
         /\ ManageFile => file' = healthy
  BY DEF NoneFails, CheckApi, ManageFile, ApiHealthy, Fault

LEMMA NextSmaller ==
  ASSUME JudgeInv, Smaller, [Next]_vars
  PROVE  Smaller'
<1> USE DEF JudgeInv, Smaller, topic, consumer, verdict, rounds, kubelet,
            excuses
<1>1. NoneFails'
  <2>1. faults' \in [FaultKinds -> Nat]
    BY NextTyped DEF TypeOK
  <2>2. /\ "api" \in FaultKinds /\ "file" \in FaultKinds
        /\ faults["api"] = 0 /\ faults["file"] = 0
    BY DEF FaultKinds, NoneFails
  <2>3. faults'["api"] <= 0 /\ faults'["file"] <= 0
    BY <2>2, FaultsFall
  <2>4. faults'["api"] \in Nat /\ faults'["file"] \in Nat
    BY <2>1, <2>2
  <2> QED BY <2>3, <2>4 DEF NoneFails
<1>2. CASE UNCHANGED <<apiHealthy, healthy, file, monitor, round, slow>>
  BY <1>1, <1>2 DEF ApiAnswers, FileFollows, TicksAreSlow
<1>3. CASE Snapshot
  BY <1>1, <1>3 DEF Snapshot, ApiAnswers, FileFollows, TicksAreSlow
<1>4. CASE QueryLag
  BY <1>1, <1>4 DEF QueryLag, ApiAnswers, FileFollows, TicksAreSlow
<1>5. CASE CheckApi
  <2>1. apiHealthy' = TRUE
    BY <1>5, CallsSucceed
  <2> QED BY <1>1, <1>5, <2>1 DEF CheckApi, ApiAnswers, FileFollows,
                                    TicksAreSlow
<1>6. CASE Update
  <2>1. healthy \in BOOLEAN /\ healthy' \in BOOLEAN /\ file = healthy
        /\ UNCHANGED <<file, round, slow>> /\ monitor = "update"
    BY <1>6, NextTyped DEF Update, FileFollows, TypeOK
  <2>2. monitor' = IF healthy' # healthy THEN "file" ELSE "resting"
    BY <1>6 DEF Update
  <2>3. FileFollows' /\ ApiAnswers' /\ TicksAreSlow'
    BY <2>1, <2>2 DEF FileFollows, ApiAnswers, TicksAreSlow
  <2> QED BY <1>1, <2>3
<1>7. CASE ManageFile
  <2>1. file' = healthy
    BY <1>7, CallsSucceed
  <2> QED BY <1>1, <1>7, <2>1 DEF ManageFile, ApiAnswers, FileFollows,
                                    TicksAreSlow
<1>8. CASE Restart
  BY <1>1, <1>8, RestartIs DEF ApiAnswers, FileFollows, TicksAreSlow
<1>9. CASE Tick
  <2>1. UNCHANGED <<apiHealthy, healthy, file, monitor>>
    BY <1>9, TickIs
  <2>2. TicksAreSlow'
    <3>1. CASE monitor = "resting"
      BY <1>9, <3>1, TickIs DEF TicksAreSlow
    <3>2. CASE monitor # "resting"
      BY <1>9, <3>2, TickIs DEF TicksAreSlow
    <3> QED BY <3>1, <3>2
  <2> QED BY <1>1, <2>1, <2>2 DEF ApiAnswers, FileFollows
<1>10. CASE UNCHANGED vars
  BY <1>2, <1>10 DEF vars
<1>11. CASE Arrive \/ ReceiveElsewhere \/ Rebalance \/ Start \/ Receive
            \/ Finish \/ Hang \/ Pass \/ Fail
  <2>1. UNCHANGED <<apiHealthy, healthy, file, monitor, round, slow>>
    BY <1>11 DEF Arrive, ReceiveElsewhere, Rebalance, Start, Receive, Finish,
         Hang, Pass, Fail
  <2> QED BY <1>2, <2>1
<1> QED BY <1>3, <1>4, <1>5, <1>6, <1>7, <1>8, <1>9, <1>10, <1>11
        DEF Next, Monitor

\* Who waits goes on waiting until the replica receives it.
LEMMA WaitingStays ==
  ASSUME TypeOK, \E p \in Partitions : Waiting(p),
         Arrive \/ UNCHANGED <<latest, next>>
  PROVE  \E p \in Partitions : Waiting(p)'
<1>1. CASE UNCHANGED <<latest, next>>
  BY <1>1 DEF Waiting
<1>2. CASE Arrive
  <2>1. PICK p \in Partitions : Waiting(p)
    OBVIOUS
  <2>2. next' = next
    BY <1>2 DEF Arrive
  <2>3. latest'[p] >= latest[p] /\ latest'[p] \in Int
    BY <1>2 DEF Arrive, TypeOK, Offsets
  <2>4. latest[p] \in Int /\ next[p] \in Int
    BY DEF TypeOK, Offsets
  <2>5. Waiting(p)'
    BY <2>1, <2>2, <2>3, <2>4 DEF Waiting
  <2> QED BY <2>5
<1> QED BY <1>1, <1>2

\* What no step of the topic touches.
LEMMA ArriveIs ==
  ASSUME Arrive
  PROVE  /\ UNCHANGED <<handler, idle, due, monitor, round, healthy, file,
                        probe, failures, late, slow>>
         /\ UntilFile' = UntilFile /\ Spent' = Spent
  BY DEF Arrive, consumer, verdict, rounds, kubelet, excuses, UntilFile, Spent

LEMMA FinishIs ==
  ASSUME Finish
  PROVE  /\ handler = "busy" /\ handler' = "idle"
         /\ UNCHANGED <<latest, next>>
         /\ UNCHANGED <<idle, due, monitor, round, healthy, file, probe,
                        failures, late, slow>>
         /\ UntilFile' = UntilFile /\ Spent' = Spent
  BY DEF Finish, topic, verdict, rounds, kubelet, excuses, UntilFile,
         Spent

LEMMA ReceiveCounts ==
  ASSUME TypeOK, Receive
  PROVE  /\ handler = "idle" /\ handler' = "busy" /\ idle' = 0
         /\ UNCHANGED <<due, monitor, round, healthy, file, probe, failures,
                        late, slow>>
         /\ UntilFile' = UntilFile /\ Spent' = Spent
  BY DEF Receive, verdict, rounds, kubelet, excuses, UntilFile,
         Spent

LEMMA MonitorIs ==
  ASSUME Monitor
  PROVE  /\ UNCHANGED <<latest, next, handler, idle, probe, failures, late,
                        slow>>
         /\ Spent' = Spent
  BY DEF Monitor, Snapshot, QueryLag, CheckApi, Update, ManageFile, topic,
         consumer, kubelet, excuses, Spent

\* Partitions stay, so nobody else receives.
LEMMA NobodyElse ==
  ASSUME JudgeInv
  PROVE  ~ReceiveElsewhere /\ ~Rebalance
  BY DEF JudgeInv, StaysMine, ReceiveElsewhere, Rebalance, Fault

Fine == Excused \/ Starting \/ Well \/ Healing \/ Stuck

LEMMA StartingGoes ==
  ASSUME JudgeInv, Smaller, ProbesSeeRecovery, Starting, Next, ~Restart
  PROVE  Fine'
<1> USE DEF JudgeInv
<1>1. CASE Arrive
  BY <1>1, ArriveIs DEF Fine, Starting
<1>2. CASE Start
  <2>1. /\ handler' = "idle" /\ idle' = 0
        /\ UNCHANGED <<due, monitor, round, healthy, probe, failures>>
    BY <1>2 DEF Start, verdict, rounds, kubelet
  <2>2. Spent = 0
    BY HealthAssumption DEF Starting, Spent
  <2>3. Spent' = 0
    BY <2>1, <2>2 DEF Spent
  <2>4. UntilFile' = 1
    BY <2>1 DEF Starting, UntilFile
  <2>5. Healing'
    BY <2>1, <2>3, <2>4, EnoughIs, HealthAssumption DEF Healing, Up, Starting
  <2> QED BY <2>5 DEF Fine
<1>3. CASE Monitor
  BY <1>3 DEF Monitor, Snapshot, QueryLag, CheckApi, Update, ManageFile,
              Starting
<1>4. CASE Pass
  BY <1>4 DEF Pass, ProbeSees, Starting, Smaller, FileFollows
<1>5. CASE Fail
  <2>1. probe = 0 /\ probe' = Period /\ failures' = failures + 1
        /\ UNCHANGED <<handler, monitor, due, healthy>>
    BY <1>5 DEF Fail, ProbeSees, consumer, rounds, verdict
  <2>2. Period # 0
    BY HealthAssumption
  <2>3. Starting'
    BY <2>1, <2>2 DEF Starting
  <2> QED BY <2>3 DEF Fine
<1>6. CASE ReceiveElsewhere \/ Rebalance
  BY <1>6, NobodyElse
<1>7. CASE Receive \/ Finish \/ Hang \/ Tick
  BY <1>7 DEF Receive, Finish, Hang, Tick, Starting
<1> QED BY <1>1, <1>2, <1>3, <1>4, <1>5, <1>6, <1>7 DEF Next

LEMMA WellGoes ==
  ASSUME JudgeInv, Smaller, ProbesSeeRecovery, Well, Next, ~Restart
  PROVE  Fine'
<1> USE DEF JudgeInv
<1>0. /\ idle \in Nat /\ probe \in 0..Period /\ failures \in Nat
      /\ Period \in Nat /\ Window \in Nat /\ Period < Window
  BY Bounds, HealthAssumption DEF TypeOK, ProbesSeeRecovery
<1>1. CASE Arrive
  BY <1>1, ArriveIs DEF Fine, Well, Up
<1>2. CASE Receive
  <2>1. Well'
    BY <1>0, <1>2, ReceiveCounts DEF Well, Up
  <2> QED BY <2>1 DEF Fine
<1>3. CASE Finish
  BY <1>3, FinishIs DEF Fine, Well, Up
<1>4. CASE Hang
  BY <1>4 DEF Hang, Fine, Excused
<1>5. CASE Monitor
  <2>1. CASE Snapshot \/ QueryLag \/ CheckApi
    <3>1. UNCHANGED <<healthy, file>>
      BY <2>1 DEF Snapshot, QueryLag, CheckApi, verdict
    <3>2. Well'
      BY <1>5, <3>1, MonitorIs DEF Well, Up
    <3> QED BY <3>2 DEF Fine
  <2>2. CASE Update
    <3>1. monitor = "update" /\ apiHealthy /\ file' = file
      BY <2>2 DEF Update, Smaller, ApiAnswers
    <3>0. PICK over \in BOOLEAN :
            Exceeds(over) /\ healthy' = (ConsumerHealthy(over) /\ apiHealthy)
      BY <2>2 DEF Update
    <3>2. CASE ConsumerHealthy(over)
      <4>1. Well'
        BY <1>5, <3>0, <3>1, <3>2, MonitorIs DEF Well, Up
      <4> QED BY <4>1 DEF Fine
    <3>3. CASE ~ConsumerHealthy(over) /\ slow
      BY <1>5, <3>3, MonitorIs DEF Fine, Excused
    <3>4. CASE ~ConsumerHealthy(over) /\ ~slow
      <4>0. round < Window
        BY <1>0, <3>4 DEF Smaller, TicksAreSlow
      <4>1. lag = "some" /\ idle >= Window
        BY <3>0, <3>4 DEF ConsumerHealthy, Exceeds, Well, Up
      <4>2. \E p \in Partitions : Waiting(p)'
        <5>1. \E p \in Partitions : Waiting(p)
          BY <3>1, <4>0, <4>1, SomeoneWaits
        <5> QED BY <1>5, <5>1, MonitorIs, WaitingStays
      <4>3. failures = 0
        BY <1>0, <4>1 DEF Well
      <4>4. Spent' = 0
        BY <1>5, <4>3, MonitorIs DEF Spent
      <4>5. Stuck'
        BY <1>0, <1>5, <4>1, <4>2, <4>4, MonitorIs DEF Stuck, Well, Up
      <4> QED BY <4>5 DEF Fine
    <3> QED BY <3>2, <3>3, <3>4
  <2>3. CASE ManageFile
    BY <2>3 DEF ManageFile, Well, Smaller, FileFollows
  <2> QED BY <1>5, <2>1, <2>2, <2>3 DEF Monitor
<1>6. CASE Pass
  <2>1. /\ failures' = 0
        /\ UNCHANGED <<handler, healthy, file>>
    BY <1>6 DEF Pass, consumer, verdict
  <2>2. Well'
    BY <2>1 DEF Well, Up
  <2> QED BY <2>2 DEF Fine
<1>7. CASE Fail
  BY <1>7 DEF Fail, ProbeSees, Well
<1>8. CASE Tick
  <2>1. /\ probe' = probe - 1
        /\ idle' = idle + 1 \/ idle' = idle
        /\ UNCHANGED <<handler, healthy, file, failures>>
    BY <1>8, TickIs DEF verdict
  <2>2. failures = 0 \/ idle' + probe' < Window
    BY <1>0, <2>1 DEF Well
  <2>3. Well'
    BY <2>1, <2>2 DEF Well, Up
  <2> QED BY <2>3 DEF Fine
<1>9. CASE ReceiveElsewhere \/ Rebalance
  BY <1>9, NobodyElse
<1>10. CASE Start
  BY <1>10 DEF Start, Well, Up
<1> QED BY <1>1, <1>2, <1>3, <1>4, <1>5, <1>6, <1>7, <1>8, <1>9, <1>10 DEF Next

\* The monitor's calls bring the file closer, or at least no further away.
LEMMA MonitorHeals ==
  ASSUME JudgeInv, Smaller, ProbesSeeRecovery, Healing, Monitor
  PROVE  Well' \/ Healing'
<1> USE DEF JudgeInv
<1>0. /\ idle \in Nat /\ probe \in 0..Period
      /\ Period \in Nat /\ Window \in Nat
      /\ UntilFile \in 0..1
      /\ due \in BOOLEAN /\ healthy \in BOOLEAN
  BY Bounds, UntilFileIs, HealthAssumption DEF TypeOK
<1>1. Period + 1 < Window
  BY <1>0 DEF ProbesSeeRecovery
<1>2. /\ handler' = handler /\ idle' = idle /\ Spent' = Spent
      /\ probe' = probe
  BY MonitorIs
<1>3. ASSUME UntilFile' = UntilFile, healthy' => monitor' = "file"
      PROVE  Healing'
  BY <1>2, <1>3 DEF Healing, Up
<1>4. CASE Snapshot
  <2>1. /\ monitor = "resting" /\ due /\ monitor' = "lag" /\ round' = 0
        /\ healthy' = healthy
    BY <1>4 DEF Snapshot, verdict
  <2>2. UntilFile = 0 /\ UntilFile' = 0
    BY <2>1 DEF UntilFile
  <2> QED BY <1>0, <1>3, <2>1, <2>2 DEF Healing
<1>5. CASE QueryLag \/ CheckApi
  <2>1. /\ monitor \in {"lag", "api"} /\ monitor' \in {"api", "update"}
        /\ UNCHANGED <<due, round, healthy>>
    BY <1>5 DEF QueryLag, CheckApi
  <2>2. UntilFile' = UntilFile
    BY <2>1 DEF UntilFile
  <2> QED BY <1>3, <2>1, <2>2 DEF Healing
<1>6. CASE Update
  <2>1. /\ monitor = "update" /\ apiHealthy
        /\ monitor' = IF healthy' # healthy THEN "file" ELSE "resting"
        /\ UNCHANGED <<due, round>>
    BY <1>6 DEF Update, Smaller, ApiAnswers
  <2>2. healthy = FALSE
    BY <1>0, <2>1 DEF Healing
  <2>3. idle < Window
    BY <1>0, <1>1 DEF Healing
  <2>4. PICK over \in BOOLEAN :
          Exceeds(over) /\ healthy' = (ConsumerHealthy(over) /\ apiHealthy)
    BY <1>6 DEF Update
  <2>7. ~over
    BY <1>0, <2>3, <2>4 DEF Exceeds
  <2>8. ConsumerHealthy(over)
    BY <2>7 DEF ConsumerHealthy, Healing, Up
  <2>5. healthy' = TRUE /\ monitor' = "file"
    BY <2>1, <2>2, <2>4, <2>8
  <2>6. UntilFile' = UntilFile
    BY <2>1, <2>5 DEF UntilFile
  <2> QED BY <1>3, <2>5, <2>6
<1>7. CASE ManageFile
  <2>1. /\ monitor = "file" /\ monitor' = "resting" /\ file' = healthy
        /\ UNCHANGED <<due, round, healthy>>
    BY <1>7, CallsSucceed DEF ManageFile, verdict, Smaller
  <2>2. CASE healthy
    <3>1. idle + probe < Window
      BY <1>0, <1>1 DEF Healing
    <3>2. Well'
      BY <1>2, <2>1, <2>2, <3>1 DEF Well, Healing, Up
    <3> QED BY <3>2
  <2>3. CASE ~healthy
    <3>1. UntilFile' = UntilFile
      BY <2>1, <2>3 DEF UntilFile
    <3> QED BY <1>3, <2>1, <2>3, <3>1
  <2> QED BY <2>2, <2>3
<1> QED BY <1>4, <1>5, <1>6, <1>7 DEF Monitor

\* Every interval brings the file one interval closer.
LEMMA TickHeals ==
  ASSUME JudgeInv, Smaller, ProbesSeeRecovery, Healing, Tick
  PROVE  Healing' \/ slow'
<1> USE DEF JudgeInv
<1>1. /\ due' = TRUE /\ UNCHANGED <<monitor, healthy, handler>>
      /\ slow' <=> (slow \/ monitor # "resting")
      /\ monitor = "resting" => ~due
      /\ idle' = idle + 1 \/ idle' = idle
  BY TickIs DEF verdict
<1>2. SUFFICES ASSUME monitor = "resting" PROVE Healing'
  BY <1>1
<1>3. UntilFile = 1 /\ UntilFile' = 0
  BY <1>1, <1>2 DEF UntilFile
<1>4. Spent' = 0 \/ Spent' = Spent + 1
  BY TickCounts
<1>5. Spent \in Nat /\ idle \in Int /\ Enough \in Int /\ Enough > 1
  BY SpentIs, EnoughIs, Bounds DEF TypeOK
<1>6. idle' + UntilFile' <= 1 /\ Spent' + UntilFile' < Enough
  BY <1>1, <1>3, <1>4, <1>5 DEF Healing
<1> QED BY <1>1, <1>6 DEF Healing, Up

LEMMA HealingGoes ==
  ASSUME JudgeInv, Smaller, ProbesSeeRecovery, Healing, Next, ~Restart
  PROVE  Fine'
<1> USE DEF JudgeInv
<1>0. /\ idle \in Nat /\ UntilFile \in 0..1
      /\ Enough \in Int /\ Enough > 1
  BY UntilFileIs, EnoughIs, Bounds, HealthAssumption DEF TypeOK
<1>1. CASE Arrive
  BY <1>1, ArriveIs DEF Fine, Healing, Up
<1>2. CASE Receive
  <2>1. Healing'
    BY <1>0, <1>2, ReceiveCounts DEF Healing, Up
  <2> QED BY <2>1 DEF Fine
<1>3. CASE Finish
  BY <1>3, FinishIs DEF Fine, Healing, Up
<1>4. CASE Hang
  BY <1>4 DEF Hang, Fine, Excused
<1>5. CASE Monitor
  BY <1>5, MonitorHeals DEF Fine
<1>6. CASE Pass \/ Fail
  <2>1. UNCHANGED <<handler, idle, due, monitor, round, healthy>>
    BY <1>6 DEF Pass, Fail, consumer, rounds, verdict
  <2>2. UntilFile' = UntilFile
    BY <2>1 DEF UntilFile
  <2>3. Spent' = 0 \/ Spent' = Spent
    BY <1>6, PassEnds, FailCounts
  <2>4. Spent' + UntilFile' < Enough
    BY <1>0, <2>2, <2>3 DEF Healing
  <2>5. Healing'
    BY <2>1, <2>2, <2>4 DEF Healing, Up
  <2> QED BY <2>5 DEF Fine
<1>7. CASE Tick
  BY <1>7, TickHeals DEF Fine, Excused
<1>8. CASE ReceiveElsewhere \/ Rebalance
  BY <1>8, NobodyElse
<1>9. CASE Start
  BY <1>9 DEF Start, Healing, Up
<1> QED BY <1>1, <1>2, <1>3, <1>4, <1>5, <1>6, <1>7, <1>8, <1>9 DEF Next

\* The message in hand is late before the probes have failed often enough, and
\* if it is finished before, the monitor still has the time it needs.
LEMMA StuckGoes ==
  ASSUME JudgeInv, Smaller, ProbesSeeRecovery, Stuck, Next, ~Restart
  PROVE  Fine'
<1> USE DEF JudgeInv
<1>0. /\ idle \in Nat /\ Spent \in Nat /\ Window \in Nat
      /\ probe \in 0..Period /\ Period \in Nat /\ Period < Window
      /\ UntilFile \in 0..1
      /\ Enough \in Int /\ Enough > 1
      /\ Patience = Window + Enough - 2
  BY UntilFileIs, SpentIs, EnoughIs, Bounds, HealthAssumption
     DEF TypeOK, ProbesSeeRecovery
<1>1. CASE Arrive
  <2>1. \E p \in Partitions : Waiting(p)'
    BY <1>1, WaitingStays DEF Stuck
  <2> QED BY <1>1, <2>1, ArriveIs DEF Fine, Stuck, Up
<1>2. CASE Receive
  <2>1. CASE healthy /\ file
    <3>1. Well'
      BY <1>0, <1>2, <2>1, ReceiveCounts DEF Well, Up
    <3> QED BY <3>1 DEF Fine
  <2>2. CASE ~(healthy /\ file)
    <3>1. healthy => monitor = "file"
      BY <2>2 DEF Smaller, FileFollows
    <3>2. Spent + UntilFile < Enough
      BY <1>0 DEF Stuck
    <3>3. Healing'
      BY <1>0, <1>2, <3>1, <3>2, ReceiveCounts DEF Healing, Up
    <3> QED BY <3>3 DEF Fine
  <2> QED BY <2>1, <2>2
<1>3. CASE Finish
  <2>1. \E p \in Partitions : Waiting(p)'
    BY <1>3, FinishIs, WaitingStays DEF Stuck
  <2> QED BY <1>3, <2>1, FinishIs DEF Fine, Stuck, Up
<1>4. CASE Hang
  BY <1>4 DEF Hang, Fine, Excused
<1>5. CASE Monitor
  <2>1. \E p \in Partitions : Waiting(p)'
    BY <1>5, MonitorIs, WaitingStays DEF Stuck
  <2> QED BY <1>5, <2>1, MonitorIs DEF Fine, Stuck, Up
<1>6. CASE Pass \/ Fail
  <2>1. UNCHANGED <<latest, next, handler, idle>>
    BY <1>6 DEF Pass, Fail, topic, consumer
  <2>2. \E p \in Partitions : Waiting(p)'
    BY <2>1, WaitingStays DEF Stuck
  <2>3. Spent' = 0 \/ Spent' = Spent
    BY <1>6, PassEnds, FailCounts
  <2>4. Stuck'
    BY <1>0, <2>1, <2>2, <2>3 DEF Stuck, Up
  <2> QED BY <2>4 DEF Fine
<1>7. CASE Tick
  <2>1. UNCHANGED <<latest, next, handler>>
    BY <1>7, TickIs DEF topic
  <2>2. \E p \in Partitions : Waiting(p)'
    BY <2>1, WaitingStays DEF Stuck
  <2>3. handler = "busy"
    BY <1>7, TickIs DEF Stuck, Up, StaysMine
  <2>4. /\ late' <=> (late \/ idle' > Patience)
        /\ idle' = idle + 1 \/ (idle' = idle /\ idle = IdleBound)
    BY <1>7, <2>3, TickIs
  <2>5. CASE idle' > Patience
    BY <2>4, <2>5 DEF Fine, Excused
  <2>6. CASE idle' <= Patience
    <3>1. idle' = idle + 1
      BY <1>0, <2>4, <2>6, Bounds
    <3>2. Spent' = 0 \/ Spent' = Spent + 1
      BY <1>7, TickCounts
    <3>3. idle' >= Window + Spent'
      BY <1>0, <3>1, <3>2 DEF Stuck
    <3>4. Stuck'
      BY <2>1, <2>2, <2>6, <3>3 DEF Stuck, Up
    <3> QED BY <3>4 DEF Fine
  <2>7. idle' \in Int /\ Patience \in Int
    BY <1>0, <2>4
  <2> QED BY <2>5, <2>6, <2>7
<1>8. CASE ReceiveElsewhere \/ Rebalance
  BY <1>8, NobodyElse
<1>9. CASE Start
  BY <1>9 DEF Start, Stuck, Up
<1> QED BY <1>1, <1>2, <1>3, <1>4, <1>5, <1>6, <1>7, <1>8, <1>9 DEF Next

\* Only a restart makes up for a message that is late, a round that is slow or
\* a handler that hangs.
LEMMA ExcusedGoes ==
  ASSUME TypeOK, Excused, Next, ~Restart
  PROVE  Excused'
<1>1. CASE Tick
  BY <1>1, TickIs DEF Excused
<1>2. CASE ~Tick
  BY <1>2 DEF Excused, Next, Arrive, ReceiveElsewhere, Rebalance, Start,
       Receive, Finish, Hang, Monitor, Snapshot, QueryLag, CheckApi, Update,
       ManageFile, Pass, Fail, consumer, excuses
<1> QED BY <1>1, <1>2

LEMMA OnlyExcusedRestart ==
  ASSUME TimeInv, ProbesSeeRecovery, Restart
  PROVE  Excused
<1>0. TypeOK
  BY DEF TimeInv, JudgeInv
<1>1. /\ Spent = Enough /\ Enough \in Int /\ Enough > 1
      /\ Patience = Window + Enough - 2
  BY <1>0, RestartTakesEnough, EnoughIs
<1>2. /\ idle \in Nat /\ UntilFile \in 0..1
      /\ Window \in Nat
  BY <1>0, UntilFileIs, Bounds, HealthAssumption DEF TypeOK
<1>3. ~Starting
  <2>1. failures = Threshold - 1 /\ Threshold \in Int
    BY <1>0, HealthAssumption DEF Restart, TypeOK
  <2> QED BY <2>1 DEF Starting, ProbesSeeRecovery
<1>4. ~Well
  BY DEF Restart, Well
<1>5. ~Healing
  BY <1>1, <1>2 DEF Healing
<1>6. ~Stuck
  BY <1>1, <1>2 DEF Stuck
<1> QED BY <1>3, <1>4, <1>5, <1>6, TimeInvIs

LEMMA NextTime == ProbesSeeRecovery /\ TimeInv /\ [Next]_vars => TimeInv'
<1> SUFFICES ASSUME ProbesSeeRecovery, TimeInv, [Next]_vars PROVE TimeInv'
  OBVIOUS
<1>0. JudgeInv /\ Smaller /\ Fine /\ TypeOK
  BY TimeInvIs DEF Fine, JudgeInv
<1>1. JudgeInv' /\ Smaller'
  BY <1>0, NextJudge, NextSmaller
<1>2. Fine'
  <2>1. CASE UNCHANGED vars
    BY <1>0, <2>1 DEF vars, topic, consumer, verdict, rounds, kubelet, excuses,
         Fine, Excused, Starting, Well, Healing, Stuck, Up, Waiting, Spent, UntilFile
  <2>2. CASE Restart
    <3>1. Starting'
      BY <1>0, <2>2, RestartIs DEF Starting
    <3> QED BY <3>1 DEF Fine
  <2>3. CASE Next /\ ~Restart
    BY <1>0, <2>3, ExcusedGoes, StartingGoes, WellGoes, HealingGoes, StuckGoes
       DEF Fine
  <2> QED BY <2>1, <2>2, <2>3 DEF Next
<1> QED BY <1>1, <1>2, TimeInvIs DEF Fine, TimeInv, Smaller, Excused

\* The kubelet restarts the container only after a message that took longer
\* than Patience, under a handler that hangs, or once a round of the monitor was
\* not over by the next tick (its queries of Kafka have no deadline), in whatever
\* order monitor, probe and handler take their steps: livenessProbe of
\* deploy/clowdapp.yaml and updateOverallHealth.
THEOREM RestartsAreEarned ==
  NothingMoves /\ NothingElseFails /\ ProbesSeeRecovery
    => (Spec => HandlersGetTheirTime)
<1> SUFFICES ASSUME NothingMoves, NothingElseFails, ProbesSeeRecovery
             PROVE  Spec => HandlersGetTheirTime
  OBVIOUS
<1>1. Init => TimeInv
  BY InitTime
<1>2. TimeInv /\ [Next]_vars => TimeInv'
  BY NextTime
<1>3. TimeInv /\ [Next]_vars
        => [Restart => late \/ slow \/ handler = "hung"]_vars
  BY OnlyExcusedRestart DEF Excused
<1> QED BY <1>1, <1>2, <1>3, PTL DEF Spec, HandlersGetTheirTime
=============================================================================
