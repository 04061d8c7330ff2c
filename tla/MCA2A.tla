-------------------------------- MODULE MCA2A --------------------------------
(* The collaboration of agents, for TLC: the tasks that cross the message  *)
(* bus, the policies that admit them, and how the peers find one another.  *)
(* The three share no state that either changes, so that a behaviour moves *)
(* one of them, chosen at the start.                                       *)
EXTENDS A2ATask, A2APolicy, A2APeers

CONSTANTS t1, t2, c1, c2, n1, n2, f1, u1, w1, w2, k1, o1, o2, a1, x1, x2

VARIABLE part
collabVars == <<part, a2aVars, polVars, peerVars>>

CollabInit ==
  /\ part \in {"task", "policy", "peers"} /\ A2AInit /\ PolInit /\ PeerInit
  /\ part # "policy" => \A c \in PolChannels : polRow[c] = PolNone
CollabTask == part = "task" /\ A2ANext /\ UNCHANGED <<part, polVars, peerVars>>
CollabPolicy == part = "policy" /\ PolNext /\ UNCHANGED <<part, a2aVars, peerVars>>
CollabPeers == part = "peers" /\ PeerNext /\ UNCHANGED <<part, a2aVars, polVars>>

(* The fairness of each module, for the behaviours that move it.           *)
CollabTasks == part = "task" /\ UNCHANGED <<part, polVars, peerVars>>
CollabBus == part = "peers" /\ UNCHANGED <<part, a2aVars, polVars>>
CollabFairness ==
  /\ \A t \in A2ATasks :
       /\ WF_collabVars(CollabTasks /\ \E m \in a2aNet : m.t = t /\ m.k = "task" /\ A2AConsumed(m))
       /\ WF_collabVars(CollabTasks /\ \E r \in a2aRuns : r.t = t /\ A2ARunStep(r))
  /\ WF_collabVars(CollabTasks /\ A2AJobEnds)
  /\ \A x \in PeerCallers :
       WF_collabVars(CollabBus /\ PeerPublishAll(x)) /\ SF_collabVars(CollabBus /\ PeerOpened(x))
  /\ \A x \in PeerCallers, o \in PeerOwn : WF_collabVars(CollabBus /\ PeerAddAgent(x, o))
  /\ \A a \in PeerOther :
       /\ WF_collabVars(CollabBus /\ PeerPresence(a)) /\ WF_collabVars(CollabBus /\ PeerExpires(a))
       /\ WF_collabVars(CollabBus /\ PeerStale(a))
  /\ WF_collabVars(CollabBus /\ PeerWatchStarts) /\ WF_collabVars(CollabBus /\ PeerWatch)

CollabSpec == CollabInit /\ [][CollabTask \/ CollabPolicy \/ CollabPeers]_collabVars /\ CollabFairness

-----------------------------------------------------------------------------
CollabTypeOK == A2ATypeOK /\ PolTypeOK /\ PeerTypeOK

(* No more tasks are open at either end than the policies allow: the       *)
(* executor's count of admitted tasks stays at or under its cap (Admit),   *)
(* and the delegator's quota, which is tested before the row exists, is    *)
(* passed at most by the requests that were under way together.            *)
Quotas == A2AQuota /\ PolQuotaSlack

(* A grant holds across renames, trust and revocation, and a confirmation  *)
(* sends one task at most, whoever clicks how often.                       *)
PolGrants == PolGrantsFollow /\ PolConfirmedOnce

(* What must happen in the end: an admitted task gives its place back, an  *)
(* enabled runtime is found and served, and the table of peers follows who *)
(* is there.                                                               *)
A2ASettles == A2AReleases /\ (part = "peers" => PeerFound /\ PeerTableFollows)
=============================================================================
