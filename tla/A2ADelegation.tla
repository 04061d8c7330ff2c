---------------------------- MODULE A2ADelegation ----------------------------
(***************************************************************************)
(* What the delegation of a task promises to the two bots, whatever the    *)
(* queues, retries and restarts between them: the executor decides once,   *)
(* what it announces follows what it did, and the delegator's view of the  *)
(* task follows what was announced. Only the end of a task that lapsed may *)
(* be announced without having been recorded. A2ATask implements it.       *)
(***************************************************************************)
CONSTANT DelTasks

VARIABLES
  work,  \* [DelTasks -> {"none", "refused", "open", "closed"}]: the executor's record
  said,  \* [DelTasks -> SUBSET {"accepted", "refused", "end"}]: what it announced
  view,  \* [DelTasks -> {"none", "asked", "refused", "open", "closed"}]: the delegator's record
  lapsed \* SUBSET DelTasks: whose time was over before their end was recorded
delVars == <<work, said, view, lapsed>>

DelInit ==
  /\ work = [t \in DelTasks |-> "none"] /\ said = [t \in DelTasks |-> {}]
  /\ view = [t \in DelTasks |-> "none"] /\ lapsed = {}

(* The executor decides on a task that was asked for, and announces the    *)
(* decision with it or later.                                              *)
DelDecide(t) ==
  /\ work[t] = "none" /\ view[t] # "none"
  /\ \E w \in {"refused", "open"}, now \in BOOLEAN :
       /\ work' = [work EXCEPT ![t] = w]
       /\ said' = IF now THEN [said EXCEPT ![t] = {IF w = "open" THEN "accepted" ELSE w}] ELSE said
  /\ UNCHANGED <<view, lapsed>>

(* The executor's record of an admitted task ends, once.                   *)
DelClose(t) ==
  /\ work[t] = "open" /\ work' = [work EXCEPT ![t] = "closed"]
  /\ \E s \in {{}, {"end"}} : said' = [said EXCEPT ![t] = @ \cup s]
  /\ UNCHANGED <<view, lapsed>>

(* The time of an admitted task is over before its end was recorded.       *)
DelLapse(t) ==
  /\ work[t] \in {"open", "closed"} /\ lapsed' = lapsed \cup {t}
  /\ UNCHANGED <<work, said, view>>

DelAnnounce(t) ==
  /\ \/ work[t] = "refused" /\ said' = [said EXCEPT ![t] = @ \cup {"refused"}]
     \/ work[t] \in {"open", "closed"} /\ said' = [said EXCEPT ![t] = @ \cup {"accepted"}]
     \/ (work[t] = "closed" \/ t \in lapsed) /\ said' = [said EXCEPT ![t] = @ \cup {"end"}]
  /\ UNCHANGED <<work, view, lapsed>>

DelAsk(t) == view[t] = "none" /\ view' = [view EXCEPT ![t] = "asked"] /\ UNCHANGED <<work, said, lapsed>>

(* The delegator learns what was announced.                                *)
DelLearn(t) ==
  /\ \/ view[t] = "asked" /\ "accepted" \in said[t] /\ view' = [view EXCEPT ![t] = "open"]
     \/ view[t] = "asked" /\ "refused" \in said[t] /\ view' = [view EXCEPT ![t] = "refused"]
     \/ view[t] = "open" /\ "end" \in said[t] /\ view' = [view EXCEPT ![t] = "closed"]
  /\ UNCHANGED <<work, said, lapsed>>

DelNext ==
  \E t \in DelTasks : DelDecide(t) \/ DelClose(t) \/ DelLapse(t) \/ DelAnnounce(t) \/ DelAsk(t) \/ DelLearn(t)
DelSpec == DelInit /\ [][DelNext]_delVars
=============================================================================
