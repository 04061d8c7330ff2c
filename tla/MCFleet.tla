------------------------------ MODULE MCFleet ------------------------------
(* Instances of Fleet for TLC: a channel, its threads, and the runtimes.   *)
EXTENDS Fleet, TLC

CONSTANTS c1, t1, t2, a1, a2, a3, a4

OneParent == [t \in Threads |-> c1]
RuntimeSymmetry == Permutations(Agents)
=============================================================================
