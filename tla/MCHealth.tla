------------------------------ MODULE MCHealth ------------------------------
(***************************************************************************)
(* Instances of Health for TLC.                                            *)
(***************************************************************************)
EXTENDS Health

Once(kinds) == [kind \in FaultKinds |-> IF kind \in kinds THEN 1 ELSE 0]

\* Sources answers and the file can be written.
Benign == Once({"kafka", "redelivery", "hang"})

OnlyMoves == Once({"rebalance"})
AllFaults == Once(FaultKinds)
=============================================================================
