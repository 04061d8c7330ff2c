------------------------------ MODULE MCWorker ------------------------------
(* Instances of Worker for TLC: t1..t3 are thread jobs, i1 is inline.      *)
EXTENDS Worker, TLC

CONSTANTS t1, t2, t3, i1
=============================================================================
