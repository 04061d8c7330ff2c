---------------------------- MODULE MCWorkerLive ----------------------------
(***************************************************************************)
(* Liveness of Worker for TLC: two thread jobs under timeouts with a       *)
(* user's cancel, or with a stop. A behaviour chooses at its start the one *)
(* that never comes.                                                       *)
(***************************************************************************)
EXTENDS MCWorker

VARIABLE absent
liveVars == <<vars, absent>>

LiveInit == Init /\ absent \in {"cancel", "stop"}
LiveNext ==
  /\ Next /\ UNCHANGED absent
  /\ absent = "cancel" => UNCHANGED user
  /\ absent = "stop" => ~stopped'
LiveSpec == LiveInit /\ [][LiveNext]_liveVars /\ Fairness
=============================================================================
