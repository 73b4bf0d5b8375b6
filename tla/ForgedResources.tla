--------------------------- MODULE ForgedResources ---------------------------
(***************************************************************************)
(* What the worker as a whole promises of the resources it forges, one     *)
(* life per GUID, whatever happens to its replicas, its messages and its   *)
(* calls: created while their GUID is forged and never again, untouched as *)
(* long as the forged application stands, deleted only once it falls or    *)
(* its user has removed it, and reported as a success only from an         *)
(* application that stands or that its user has removed since it was       *)
(* posted, never from one that was given up.                               *)
(***************************************************************************)

CONSTANTS Guids, Kinds

VARIABLES
  phase,     \* per GUID, how far its life has gone
  account,   \* resources in the customer's account
  reported   \* GUIDs counted as created

vars == <<phase, account, reported>>

\* "removed": by its user, while the worker has yet to report it.
Phases == {"unused", "forging", "standing", "removed", "falling"}

Init ==
  /\ phase = [g \in Guids |-> "unused"]
  /\ account = {}
  /\ reported = {}

\* From one phase to the other, or not.
Turn(g, from, to) ==
  /\ phase[g] = from
  /\ phase' \in {phase, [phase EXCEPT ![g] = to]}

Begin(g) ==
  /\ Turn(g, "unused", "forging")
  /\ UNCHANGED <<account, reported>>

\* The last call may be the one that fails, although it was done.
Create(kind, g) ==
  /\ Turn(g, "forging", "falling")
  /\ account' = account \union {<<kind, g>>}
  /\ UNCHANGED reported

Stand(g) ==
  /\ Turn(g, "forging", "standing")
  /\ UNCHANGED <<account, reported>>

Report(g) ==
  /\ \E from \in {"standing", "removed"} : Turn(g, from, "falling")
  /\ reported' = reported \union {g}
  /\ UNCHANGED account

\* A user who removes an application fells all that is forged for it, but
\* for what stands and is about to be reported.
Fall(gs, removed) ==
  /\ \A g \in gs : phase[g] \in {"forging", "standing", "removed"}
  /\ \A g \in removed : phase[g] = "standing"
  /\ phase' = [g \in Guids |-> CASE g \in removed -> "removed"
                                  [] g \in gs \ removed -> "falling"
                                  [] OTHER -> phase[g]]
  /\ UNCHANGED <<account, reported>>

Remove(kind, g) ==
  /\ phase[g] \in {"removed", "falling"}
  /\ account' = account \ {<<kind, g>>}
  /\ UNCHANGED <<phase, reported>>

Next ==
  \/ \E g \in Guids :
       \/ Begin(g) \/ Stand(g) \/ Report(g)
       \/ \E kind \in Kinds : Create(kind, g) \/ Remove(kind, g)
  \/ \E gs, removed \in SUBSET Guids : Fall(gs, removed)

Spec == Init /\ [][Next]_vars
=============================================================================
