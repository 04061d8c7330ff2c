------------------------------- MODULE MCAgent -------------------------------
(***************************************************************************)
(* An instance of Agent for TLC: two prompts of a worker with their        *)
(* chunks, or one of them and a command, without chunks. All three at a    *)
(* time would be too many states, so that a behaviour chooses at its start *)
(* the call that never comes.                                              *)
(***************************************************************************)
EXTENDS Agent, TLC

CONSTANTS p1, p2, k1

VARIABLE absent
allVars == <<vars, absent>>

AgentInit == Init /\ absent \in {p2, k1}
AgentNext ==
  /\ Next /\ UNCHANGED absent /\ caller'[absent] = "new"
  /\ absent = p2 => \A c \in Calls : ~Stream(c)
AgentSpec == AgentInit /\ [][AgentNext]_allVars /\ Fairness
=============================================================================
