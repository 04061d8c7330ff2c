------------------------------- MODULE A2ATask -------------------------------
(***************************************************************************)
(* A task one bot delegates to another: a2a/transport.go and               *)
(* task_store.go on both sides, and the executor's side of the manager,    *)
(* channel/a2a.go. Three streams lie between them, at least once each:     *)
(* tasks and controls go to the executor, events to the delegator. Each    *)
(* consumer handles one message at a time and its task rows are SQLite's,  *)
(* on one connection: a handler is one step, whose outcome says how far it *)
(* came. The run of an admitted task is a goroutine of its own, and its    *)
(* job waits in the queue of the channel's worker.                         *)
(***************************************************************************)
EXTENDS Integers, Sequences, FiniteSets

CONSTANTS
  A2ATasks,       \* message ids
  A2ACap,         \* effectiveA2AInboundCap of the channel, 0 without a cap
  A2ANone,        \* no row
  A2AMaxDeliver,  \* bound: MaxDeliver of the consumers
  A2AMaxEvents    \* bound: faults, controls and timeouts, a further task counts as two
ASSUME A2ATasksAssumption == IsFiniteSet(A2ATasks)
ASSUME A2ABoundsAssumption == A2ACap \in Nat /\ A2AMaxDeliver \in Nat \ {0} /\ A2AMaxEvents \in Nat

A2ATerminal == {"COMPLETED", "FAILED", "CANCELED", "REJECTED"}
A2AAsking == {"INPUT_REQUIRED", "AUTH_REQUIRED"}
A2AStates == A2ATerminal \cup A2AAsking \cup {"SUBMITTED", "WORKING"}
A2AControls == {"cancel", "status", "input_reply", "auth_reply", "auth_denied"}
A2AEvents == {"accepted", "rejected", "event_status", "result"}

(* id is the row's task_id: none yet, the task's, or "msg_" of a refusal.  *)
A2ARow == [st : A2AStates, rev : Nat, id : {"none", "task", "msg"}]
ASSUME A2ANoneAssumption == A2ANone \notin A2ARow

VARIABLES
  a2aOut,    \* [A2ATasks -> row or A2ANone]: the delegator's rows, "outbound"
  a2aIn,     \* the same of the executor, "inbound"
  a2aNet,    \* messages not yet acknowledged: [k, t, rev, st, n], n deliveries left
  a2aPub,    \* [k, t, rev, st]: what the streams accepted, for Nats-Msg-Id
  a2aRes,    \* a2aAdmissions: the reservations, by task
  a2aOpen,   \* a2aInboundOpen of the channel
  a2aStarted,\* Transport.started: <<task, key>>
  a2aRuns,   \* runAccepted's goroutines: [t, key, base, st, res, rev]
  a2aQueue,  \* the worker's jobs, the current one first: [t, key, cancel]
  a2aLog,    \* the delegator's task events: [t, rev, k, st]
  a2aSeen,   \* a2a_event_deliveries: [t, rev, k]
  a2aLeft,   \* what is left of the bound on events
  a2aGhost   \* history: enqueued (times), touched by a control or a restart, stranded,
             \* late: a run of it ended and its row was not written

a2aVars == <<a2aOut, a2aIn, a2aNet, a2aPub, a2aRes, a2aOpen, a2aStarted, a2aRuns, a2aQueue, a2aLog, a2aSeen, a2aLeft, a2aGhost>>
a2aExec == <<a2aIn, a2aRes, a2aOpen, a2aStarted, a2aRuns, a2aQueue>>
a2aDeleg == <<a2aOut, a2aLog, a2aSeen>>

A2AInit ==
  /\ a2aOut = [t \in A2ATasks |-> A2ANone] /\ a2aIn = a2aOut
  /\ a2aNet = {} /\ a2aPub = {} /\ a2aRes = {} /\ a2aOpen = 0 /\ a2aStarted = {} /\ a2aRuns = {}
  /\ a2aQueue = <<>> /\ a2aLog = {} /\ a2aSeen = {} /\ a2aLeft = A2AMaxEvents
  /\ a2aGhost = [ran |-> [t \in A2ATasks |-> 0], touched |-> {}, stranded |-> {}, late |-> {}]

A2AMore(a, b) == IF a > b THEN a ELSE b
A2ASpend == a2aLeft > 0 /\ a2aLeft' = a2aLeft - 1
A2AFree == UNCHANGED a2aLeft
A2AEnded(row) == row # A2ANone /\ row.st \in A2ATerminal

-----------------------------------------------------------------------------
(* The streams.                                                            *)

A2ANote(k, t, rev, st) == [k |-> k, t |-> t, rev |-> rev, st |-> st]

(* Nats-Msg-Id: a task, an acceptance, a refusal and a result have one     *)
(* each, a status and a control one per revision.                          *)
A2ASameId(p, m) ==
  p.k = m.k /\ p.t = m.t /\ (m.k \in {"task", "accepted", "rejected", "result"} \/ p.rev = m.rev)
A2AFresh(sent) == {m \in sent : ~ \E p \in a2aPub : A2ASameId(p, m)}
A2APosted(sent) ==
  {[k |-> m.k, t |-> m.t, rev |-> m.rev, st |-> m.st, n |-> A2AMaxDeliver] : m \in A2AFresh(sent)}

(* Mutant of A2ANaked: there is no last delivery.                          *)
A2ANakedForever(m, sent) ==
  /\ a2aNet' = (a2aNet \ {m}) \cup {[m EXCEPT !.n = @ - 1]} \cup A2APosted(sent)
  /\ a2aPub' = a2aPub \cup A2AFresh(sent)

(* A handler that acknowledges m, and one that does not (Nak, or the       *)
(* acknowledgement is lost): the last delivery is the end of the message.  *)
A2AAcked(m, sent) == a2aNet' = (a2aNet \ {m}) \cup A2APosted(sent) /\ a2aPub' = a2aPub \cup A2AFresh(sent)
A2ANaked(m, sent) ==
  LET again == IF m.n > 1 THEN {[m EXCEPT !.n = @ - 1]} ELSE {} IN
  /\ a2aNet' = (a2aNet \ {m}) \cup again \cup A2APosted(sent)
  /\ a2aPub' = a2aPub \cup A2AFresh(sent)
A2ASends(sent) == a2aNet' = a2aNet \cup A2APosted(sent) /\ a2aPub' = a2aPub \cup A2AFresh(sent)

(* How a handler that publishes sent ends: acknowledged; the publication   *)
(* failed, Nak; or published and the acknowledgement did not arrive.       *)
A2AFinish(m, sent) ==
  \/ A2AAcked(m, sent) /\ A2AFree
  \/ A2ANaked(m, {}) /\ sent # {} /\ A2ASpend
  \/ A2ANaked(m, sent) /\ A2ASpend

-----------------------------------------------------------------------------
(* The delegator asks: SendTask, and PublishControl.                       *)

(* The row is stored first; it stays when the publication fails.           *)
A2ASendTask(t) ==
  /\ a2aOut[t] = A2ANone
  /\ a2aOut' = [a2aOut EXCEPT ![t] = [st |-> "SUBMITTED", rev |-> 0, id |-> "none"]]
  /\ \/ /\ A2ASends({A2ANote("task", t, 0, "none")})
        /\ a2aLeft' = IF \E u \in A2ATasks : a2aOut[u] # A2ANone THEN a2aLeft - 2 ELSE a2aLeft
        /\ a2aLeft' \in Nat
     \/ A2ASends({}) /\ A2ASpend
  /\ UNCHANGED <<a2aExec, a2aLog, a2aSeen, a2aGhost>>

(* A control is for a task that was accepted and has not ended; a reply    *)
(* for one that asks.                                                      *)
A2AMayControl(k, row) ==
  /\ row # A2ANone /\ row.id = "task" /\ row.st \notin A2ATerminal
  /\ k = "input_reply" => row.st = "INPUT_REQUIRED"
  /\ k \in {"auth_reply", "auth_denied"} => row.st = "AUTH_REQUIRED"

A2ASendControl(k, t) ==
  /\ A2AMayControl(k, a2aOut[t]) /\ A2ASpend
  /\ A2ASends({A2ANote(k, t, a2aOut[t].rev + 1, "none")})
  /\ UNCHANGED <<a2aExec, a2aDeleg, a2aGhost>>

-----------------------------------------------------------------------------
(* The executor's rows.                                                    *)

(* ApplyTaskEvent: a revision that is not newer only adds to the events; a *)
(* terminal row refuses the others.                                        *)
A2AApplied(row, rev, st) == IF rev <= row.rev THEN row ELSE [row EXCEPT !.st = st, !.rev = rev]
A2AAppliable(row, rev) == rev <= row.rev \/ row.st \notin A2ATerminal

(* A control applies at its own revision, or one above the row's.          *)
A2AControlRev(m) == A2AMore(m.rev, a2aIn[m.t].rev + 1)

(* Mutant of A2ARecorded: the end of a run replaces what a cancel wrote.   *)
A2ARecordedAlways(row, st) == [row EXCEPT !.st = st, !.rev = @ + 1]

(* markTerminal: the first end stays.                                      *)
A2ARecorded(row, st) ==
  IF row.st \in A2ATerminal THEN row ELSE [row EXCEPT !.st = st, !.rev = @ + 1]

(* recordA2AResult / recordA2ATerminal: the row and the revision that is   *)
(* published with the result.                                              *)
A2AResultRow(row, base, st) ==
  IF st \in A2ATerminal THEN A2ARecorded(row, st)
  ELSE IF A2AAppliable(row, base + 1) THEN A2AApplied(row, base + 1, st) ELSE row
A2AResultRev(row, base, st) ==
  IF row.st \in A2ATerminal THEN base + 1 ELSE A2AResultRow(row, base, st).rev

-----------------------------------------------------------------------------
(* The executor: the task consumer.                                        *)

A2ARun(t, key, base) == [t |-> t, key |-> key, base |-> base, st |-> "begin", res |-> "none", rev |-> 0]

(* Mutant of A2AStart: what was started is not remembered.                 *)
A2AStartAgain(t, key, base) == a2aRuns' = a2aRuns \cup {A2ARun(t, key, base)} /\ UNCHANGED a2aStarted

(* markStarted and go runAccepted.                                         *)
A2AStart(t, key, base) ==
  IF <<t, key>> \in a2aStarted THEN UNCHANGED <<a2aStarted, a2aRuns>>
  ELSE a2aStarted' = a2aStarted \cup {<<t, key>>} /\ a2aRuns' = a2aRuns \cup {A2ARun(t, key, base)}

(* Mutant of A2ARefuse: published without the row.                         *)
A2ARefuseUnrecorded(m) ==
  /\ m.k = "task" /\ a2aIn[m.t] = A2ANone
  /\ A2AFinish(m, {A2ANote("rejected", m.t, 1, "REJECTED")})
  /\ UNCHANGED <<a2aDeleg, a2aExec, a2aGhost>>

(* A refusal is recorded, published and acknowledged: for the envelope,    *)
(* the policy, the quota of the channel or its full queue.                 *)
A2ARefuse(m) ==
  /\ m.k = "task" /\ a2aIn[m.t] = A2ANone
  /\ a2aIn' = [a2aIn EXCEPT ![m.t] = [st |-> "REJECTED", rev |-> 1, id |-> "msg"]]
  /\ A2AFinish(m, {A2ANote("rejected", m.t, 1, "REJECTED")})
  /\ UNCHANGED <<a2aDeleg, a2aRes, a2aOpen, a2aStarted, a2aRuns, a2aQueue, a2aGhost>>

A2AHasRoom == A2ACap = 0 \/ a2aOpen < A2ACap

(* AdmitA2ATask under the manager's mutex: the row, the reservation and    *)
(* the quota. Then the acceptance is published and the task acknowledged,  *)
(* and only then does it run: when the publication fails, or the           *)
(* acknowledgement is not known to have arrived, the handler returns.      *)
A2AAdmit(m) ==
  LET accepted == {A2ANote("accepted", m.t, 1, "WORKING")} IN
  /\ m.k = "task" /\ a2aIn[m.t] = A2ANone /\ A2AHasRoom
  /\ a2aIn' = [a2aIn EXCEPT ![m.t] = [st |-> "SUBMITTED", rev |-> 1, id |-> "task"]]
  /\ a2aRes' = a2aRes \cup {m.t} /\ a2aOpen' = a2aOpen + 1
  /\ \/ A2AAcked(m, accepted) /\ A2AStart(m.t, 0, 1) /\ A2AFree /\ UNCHANGED a2aGhost
     \/ \E sent \in {{}, accepted} : A2ANaked(m, sent) /\ A2ASpend /\ UNCHANGED <<a2aStarted, a2aRuns, a2aGhost>>
     \/ /\ A2AAcked(m, accepted) /\ A2ASpend /\ UNCHANGED <<a2aStarted, a2aRuns>>
        /\ a2aGhost' = [a2aGhost EXCEPT !.stranded = @ \cup {m.t}]
  /\ UNCHANGED <<a2aDeleg, a2aQueue>>

(* A task that has a row: its end is published again (a failure to is      *)
(* ignored), or it is started if it was not. The acceptance is not         *)
(* published again.                                                        *)
A2AAgain(m) ==
  LET row == a2aIn[m.t]  ended == row.st \in A2ATerminal
      sent == {s \in {A2ANote("rejected", m.t, 1, "REJECTED"), A2ANote("result", m.t, row.rev, row.st)} :
                 ended /\ (s.k = "rejected" <=> row.st = "REJECTED")} IN
  /\ m.k = "task" /\ row # A2ANone
  /\ IF ended THEN UNCHANGED <<a2aStarted, a2aRuns>> ELSE A2AStart(m.t, 0, row.rev)
  /\ \/ A2AAcked(m, sent) /\ A2AFree
     \/ \E s \in {{}, sent} : (A2ANaked(m, s) \/ A2AAcked(m, s)) /\ A2ASpend
  /\ UNCHANGED <<a2aDeleg, a2aIn, a2aRes, a2aOpen, a2aQueue, a2aGhost>>

-----------------------------------------------------------------------------
(* The executor: the control consumer. A message without a row of its own  *)
(* is terminated.                                                          *)

A2ATouch(t) == a2aGhost' = [a2aGhost EXCEPT !.touched = @ \cup {t}]

(* A cancel ends the row and says so; the job goes on. Of a row that has   *)
(* ended it is refused, delivery after delivery.                           *)
A2ACancel(m) ==
  LET row == a2aIn[m.t]  rev == A2AControlRev(m) IN
  /\ m.k = "cancel"
  /\ IF row.st \in A2ATerminal
       THEN A2ANaked(m, {}) /\ A2AFree /\ UNCHANGED <<a2aIn, a2aGhost>>
       ELSE /\ a2aIn' = [a2aIn EXCEPT ![m.t] = A2AApplied(row, rev, "CANCELED")] /\ A2ATouch(m.t)
            /\ A2AFinish(m, {A2ANote("event_status", m.t, rev, "CANCELED")})
  /\ UNCHANGED <<a2aDeleg, a2aRes, a2aOpen, a2aStarted, a2aRuns, a2aQueue>>

A2AStatusRequest(m) ==
  /\ m.k = "status"
  /\ A2AFinish(m, {A2ANote("event_status", m.t, a2aIn[m.t].rev, a2aIn[m.t].st)})
  /\ UNCHANGED <<a2aDeleg, a2aExec, a2aGhost>>

A2AAnswers(k, st) ==
  \/ k = "input_reply" /\ st = "INPUT_REQUIRED"
  \/ k = "auth_reply" /\ st = "AUTH_REQUIRED"

(* A reply puts the row back to work, says so, and continues the task in a *)
(* new job; a reply that is delivered again, while the row works, only     *)
(* starts what did not start; any other is terminated.                     *)
A2AReply(m) ==
  LET row == a2aIn[m.t]
      first == A2AAnswers(m.k, row.st)
      again == row.st = "WORKING" /\ m.rev <= row.rev
      rev == IF first THEN A2AControlRev(m) ELSE row.rev
      sent == {A2ANote("event_status", m.t, rev, "WORKING")} IN
  /\ m.k \in {"input_reply", "auth_reply"}
  /\ a2aIn' = IF first THEN [a2aIn EXCEPT ![m.t] = A2AApplied(row, rev, "WORKING")] ELSE a2aIn
  /\ \/ ~first /\ ~again /\ A2AAcked(m, {}) /\ A2AFree /\ UNCHANGED <<a2aStarted, a2aRuns>>
     \/ /\ first \/ again
        /\ \/ A2ANaked(m, {}) /\ A2ASpend /\ UNCHANGED <<a2aStarted, a2aRuns>>
           \/ A2AStart(m.t, m.rev, rev) /\ ((A2AAcked(m, sent) /\ A2AFree) \/ (A2ANaked(m, sent) /\ A2ASpend))
  /\ UNCHANGED <<a2aDeleg, a2aRes, a2aOpen, a2aQueue, a2aGhost>>

(* A denial ends the row and publishes the failure; delivered again, it    *)
(* finds the row ended and is terminated.                                  *)
A2ADeny(m) ==
  LET row == a2aIn[m.t]  rev == A2AControlRev(m) IN
  /\ m.k = "auth_denied"
  /\ IF row.st = "AUTH_REQUIRED"
       THEN /\ a2aIn' = [a2aIn EXCEPT ![m.t] = A2AApplied(row, rev, "FAILED")] /\ A2ATouch(m.t)
            /\ A2AFinish(m, {A2ANote("result", m.t, rev, "FAILED")})
       ELSE A2AAcked(m, {}) /\ A2AFree /\ UNCHANGED <<a2aIn, a2aGhost>>
  /\ UNCHANGED <<a2aDeleg, a2aRes, a2aOpen, a2aStarted, a2aRuns, a2aQueue>>

-----------------------------------------------------------------------------
(* The executor: runAccepted and RunA2ATask.                               *)

A2AGoes(r, new) == a2aRuns' = (a2aRuns \ {r}) \cup {new}

A2AReleasedHalf(r) == a2aRes' = (IF r.key = 0 THEN a2aRes \ {r.t} ELSE a2aRes) /\ UNCHANGED a2aOpen

(* releaseA2AAdmission, deferred: a continuation has no reservation.       *)
A2AReleased(r) ==
  IF r.key = 0 /\ r.t \in a2aRes THEN a2aRes' = a2aRes \ {r.t} /\ a2aOpen' = A2AMore(a2aOpen - 1, 0)
  ELSE UNCHANGED <<a2aRes, a2aOpen>>

(* The run ends with st: the row is written, then the result is published. *)
A2AEnds(r, st) ==
  /\ a2aIn' = [a2aIn EXCEPT ![r.t] = A2AResultRow(@, r.base, st)]
  /\ A2AGoes(r, [r EXCEPT !.st = "publish", !.res = st, !.rev = A2AResultRev(a2aIn[r.t], r.base, st)])
  /\ A2AReleased(r)

(* The run ends with st after its time: the store refuses the expired      *)
(* context and its error is dropped. The row stays as it is, and the end   *)
(* is published all the same, under the revision it would have had.        *)
A2ALapses(r, st) ==
  /\ A2AGoes(r, [r EXCEPT !.st = "publish", !.res = st, !.rev = r.base + 1])
  /\ A2AReleased(r)
  /\ a2aGhost' = [a2aGhost EXCEPT !.late = @ \cup {r.t}]
  /\ UNCHANGED a2aIn

(* A first run needs its reservation. Without it (a restart) the task is   *)
(* rejected towards the delegator, and the row left as it is.              *)
A2ARunLost(r) ==
  /\ r.st = "begin" /\ r.key = 0 /\ r.t \notin a2aRes
  /\ A2AGoes(r, [r EXCEPT !.st = "publish", !.res = "REJECTED", !.rev = r.base + 1])
  /\ a2aGhost' = [a2aGhost EXCEPT !.late = @ \cup {r.t}]
  /\ UNCHANGED <<a2aDeleg, a2aIn, a2aNet, a2aPub, a2aRes, a2aOpen, a2aStarted, a2aQueue, a2aLeft>>

(* The job is enqueued, or the queue of the channel has become full; that  *)
(* is recorded as a failure, unless the time of the task is over.          *)
A2AEnqueue(r) ==
  /\ r.st = "begin" /\ (r.key # 0 \/ r.t \in a2aRes)
  /\ \/ /\ A2AGoes(r, [r EXCEPT !.st = "wait"]) /\ A2AFree
        /\ a2aQueue' = Append(a2aQueue, [t |-> r.t, key |-> r.key, cancel |-> FALSE])
        /\ a2aGhost' = IF r.key = 0 THEN [a2aGhost EXCEPT !.ran[r.t] = @ + 1] ELSE a2aGhost
        /\ UNCHANGED <<a2aIn, a2aRes, a2aOpen>>
     \/ A2ASpend /\ A2AEnds(r, "FAILED") /\ UNCHANGED <<a2aQueue, a2aGhost>>
     \/ A2ASpend /\ A2ALapses(r, "FAILED") /\ UNCHANGED a2aQueue
  /\ UNCHANGED <<a2aDeleg, a2aNet, a2aPub, a2aStarted>>

(* The worker's current job ends: its result goes to the run that waits    *)
(* for it, if that one still does. A canceled job may end without result.  *)
A2AJobEnds ==
  LET job == Head(a2aQueue)
      waiting == {r \in a2aRuns : r.t = job.t /\ r.key = job.key /\ r.st = "wait"} IN
  /\ a2aQueue # <<>> /\ a2aQueue' = Tail(a2aQueue)
  /\ \E res \in IF job.cancel THEN {"CANCELED", "none"} ELSE {"COMPLETED", "FAILED"} \cup A2AAsking :
       a2aRuns' = (a2aRuns \ waiting) \cup {[r EXCEPT !.st = IF res = "none" THEN "wait" ELSE "got", !.res = res] : r \in waiting}
  /\ UNCHANGED <<a2aDeleg, a2aIn, a2aNet, a2aPub, a2aRes, a2aOpen, a2aStarted, a2aLeft, a2aGhost>>

(* The result is there; when the time is over too, select takes either     *)
(* one, and the result is not recorded any more.                           *)
A2ARunResult(r) ==
  /\ r.st = "got"
  /\ \/ A2AEnds(r, r.res) /\ A2AFree /\ UNCHANGED a2aGhost
     \/ A2ALapses(r, r.res) /\ A2ASpend
  /\ UNCHANGED <<a2aDeleg, a2aNet, a2aPub, a2aStarted, a2aQueue>>

(* The timeout of the task: Manager.Cancel(channel) cancels the channel's  *)
(* current job, this run's or another's. The run ends as canceled, which   *)
(* its expired context keeps out of the row.                               *)
A2ARunTimeout(r) ==
  /\ A2ALapses(r, "CANCELED")
  /\ \/ r.st = "wait" /\ A2AFree
     \/ r.st = "got" /\ A2ASpend
  /\ a2aQueue' = [i \in DOMAIN a2aQueue |-> IF i = 1 THEN [a2aQueue[1] EXCEPT !.cancel = TRUE] ELSE a2aQueue[i]]
  /\ UNCHANGED <<a2aDeleg, a2aNet, a2aPub, a2aStarted>>

(* The end of runAccepted: a failure to publish is logged only.            *)
A2ARunPublish(r) ==
  LET k == IF r.res \in A2ATerminal THEN "result" ELSE "event_status" IN
  /\ r.st = "publish" /\ a2aRuns' = a2aRuns \ {r}
  /\ \/ A2ASends({A2ANote(k, r.t, r.rev, r.res)}) /\ A2AFree
     \/ A2ASends({}) /\ A2ASpend
  /\ UNCHANGED <<a2aDeleg, a2aIn, a2aRes, a2aOpen, a2aStarted, a2aQueue, a2aGhost>>

A2ARestart ==
  /\ A2ASpend /\ a2aRes' = {} /\ a2aOpen' = 0 /\ a2aStarted' = {} /\ a2aRuns' = {} /\ a2aQueue' = <<>>
  /\ a2aGhost' = [a2aGhost EXCEPT !.touched = @ \cup {t \in A2ATasks : a2aIn[t] # A2ANone}]
  /\ UNCHANGED <<a2aDeleg, a2aIn, a2aNet, a2aPub>>

-----------------------------------------------------------------------------
(* The delegator: the event consumer. An event it cannot apply, or whose   *)
(* delivery fails, is not acknowledged.                                    *)

(* BindAccepted: once; the same binding again is fine, any other is not.   *)
A2AAccepted(m) ==
  LET row == a2aOut[m.t] IN
  /\ m.k = "accepted"
  /\ IF row.id = "msg" \/ (row.id = "none" /\ row.st \in A2ATerminal) THEN A2ANaked(m, {}) /\ A2AFree /\ UNCHANGED a2aOut
     ELSE /\ a2aOut' = IF row.id = "task" THEN a2aOut
                       ELSE [a2aOut EXCEPT ![m.t] = [st |-> "WORKING", rev |-> row.rev + 1, id |-> "task"]]
          /\ A2AFinish(m, {})
  /\ UNCHANGED <<a2aExec, a2aLog, a2aSeen, a2aGhost>>

(* RejectBeforeAccepted: not of an accepted task.                          *)
A2ARejected(m) ==
  LET row == a2aOut[m.t] IN
  /\ m.k = "rejected"
  /\ IF row.id = "task" THEN A2ANaked(m, {}) /\ A2AFree /\ UNCHANGED a2aOut
     ELSE /\ a2aOut' = IF row.st = "REJECTED" THEN a2aOut
                       ELSE [a2aOut EXCEPT ![m.t] = [st |-> "REJECTED", rev |-> row.rev + 1, id |-> "msg"]]
          /\ A2AFinish(m, {})
  /\ UNCHANGED <<a2aExec, a2aLog, a2aSeen, a2aGhost>>

(* ApplyTaskEvent accepts an event of a task whose id is bound, unless it  *)
(* differs from the one stored of its revision, or comes after the end.    *)
A2AAdds(m, row) ==
  /\ row.id = "task" /\ A2AAppliable(row, m.rev)
  /\ m.rev <= row.rev => ~ \E e \in a2aLog : e.t = m.t /\ e.k = m.k /\ e.rev = m.rev /\ e.st # m.st

(* A status or a result: stored, delivered to Discord unless it was,       *)
(* marked as delivered, acknowledged. The delivery may fail before it, or  *)
(* the mark and the acknowledgement after it.                              *)
A2AEvent(m) ==
  LET row == a2aOut[m.t]  key == [t |-> m.t, rev |-> m.rev, k |-> m.k] IN
  /\ m.k \in {"event_status", "result"}
  /\ IF ~A2AAdds(m, row) THEN A2ANaked(m, {}) /\ A2AFree /\ UNCHANGED a2aDeleg
     ELSE /\ a2aOut' = [a2aOut EXCEPT ![m.t] = A2AApplied(row, m.rev, m.st)]
          /\ a2aLog' = a2aLog \cup {[t |-> m.t, rev |-> m.rev, k |-> m.k, st |-> m.st]}
          /\ \/ a2aSeen' = a2aSeen \cup {key} /\ A2AAcked(m, {}) /\ A2AFree
             \/ \E seen \in {a2aSeen, a2aSeen \cup {key}} : a2aSeen' = seen /\ A2ANaked(m, {}) /\ A2ASpend
  /\ UNCHANGED <<a2aExec, a2aGhost>>

-----------------------------------------------------------------------------
A2AConsumed(m) ==
  \/ A2ARefuse(m) \/ A2AAdmit(m) \/ A2AAgain(m) \/ A2ACancel(m) \/ A2AStatusRequest(m) \/ A2AReply(m) \/ A2ADeny(m)
  \/ A2AAccepted(m) \/ A2ARejected(m) \/ A2AEvent(m)
A2ARunStep(r) == A2ARunLost(r) \/ A2AEnqueue(r) \/ A2ARunResult(r) \/ A2ARunTimeout(r) \/ A2ARunPublish(r)
A2ANext ==
  \/ \E t \in A2ATasks : A2ASendTask(t) \/ \E k \in A2AControls : A2ASendControl(k, t)
  \/ \E m \in a2aNet : A2AConsumed(m)
  \/ \E r \in a2aRuns : A2ARunStep(r)
  \/ A2AJobEnds \/ A2ARestart
A2ASpec == A2AInit /\ [][A2ANext]_a2aVars

-----------------------------------------------------------------------------
(* Properties.                                                             *)

(* Types of the variables.                                                 *)
A2ATypeOK ==
  /\ \A t \in A2ATasks : a2aOut[t] \in A2ARow \cup {A2ANone} /\ a2aIn[t] \in A2ARow \cup {A2ANone}
  /\ \A m \in a2aNet : m.t \in A2ATasks /\ m.n \in 1..A2AMaxDeliver /\ m.k \in {"task"} \cup A2AControls \cup A2AEvents
  /\ a2aRes \subseteq A2ATasks /\ a2aOpen \in 0..Cardinality(A2ATasks)
  /\ \A r \in a2aRuns : r.t \in A2ATasks /\ r.st \in {"begin", "wait", "got", "publish"}
  /\ \A s \in a2aSeen : \E e \in a2aLog : e.t = s.t /\ e.rev = s.rev /\ e.k = s.k

(* The quota is what it counts: a2aInboundOpen is the number of the        *)
(* reservations and stays within the cap, over refusals, retries, failed   *)
(* runs, timeouts and restarts.                                            *)
A2AQuota == a2aOpen = Cardinality(a2aRes) /\ (A2ACap > 0 => a2aOpen <= A2ACap)

(* "do not enqueue second execution": a task's prompt is enqueued at most  *)
(* once, however often its message is delivered and the bot restarted.     *)
A2ARunsOnce == \A t \in A2ATasks : a2aGhost.ran[t] <= 1

(* The two records of a task that no control and no restart touched end    *)
(* alike: the delegator's ends only after the executor's, and the same     *)
(* way, whatever was delivered again, out of order or too late. Not so for *)
(* a task whose run was late: the executor's record then stays open, and   *)
(* no redelivery, late result or further run ends it.                      *)
A2AEndsAgree ==
  \A t \in A2ATasks \ a2aGhost.touched :
    IF t \in a2aGhost.late THEN ~A2AEnded(a2aIn[t])
    ELSE A2AEnded(a2aOut[t]) => A2AEnded(a2aIn[t]) /\ a2aOut[t].st = a2aIn[t].st

(* An end is the end: no event, control or late run changes a row that has *)
(* ended, on either side, and revisions never go back.                     *)
A2AEndStays ==
  [][\A t \in A2ATasks, side \in {"out", "in"} :
       LET old == IF side = "out" THEN a2aOut[t] ELSE a2aIn[t]
           new == IF side = "out" THEN a2aOut'[t] ELSE a2aIn'[t] IN
       old # A2ANone => /\ new # A2ANone /\ new.rev >= old.rev
                        /\ A2AEnded(old) => new = old]_a2aVars

(* The ends of a task: the same on both sides, and final on each, over the *)
(* redeliveries, late runs and controls that Record and ApplyEvent sort.   *)
A2AEndsFinal == []A2AEndsAgree /\ A2AEndStays

(* RunA2ATask "records terminal results in TaskStore-compatible rows", and *)
(* "Timeout, cancel, [...] outcomes are represented as A2A task states"    *)
(* (docs/a2a-nats-implementation-progress.md): a cancellation that was     *)
(* published as the result was recorded. Does not hold: the timeout of a   *)
(* run records it with the context that has just expired.                  *)
A2ATimeoutsRecorded == \A p \in a2aPub : p.k = "result" /\ p.st = "CANCELED" => A2AEnded(a2aIn[p.t])

(* What the delegator shows follows what the executor announced, and that  *)
(* what it did: a task is refused or admitted, never both; it is WORKING   *)
(* for the delegator only after its admission, and ends only after an end  *)
(* was announced, which the executor recorded before unless its run was    *)
(* late.                                                                   *)
A2AWork(t) ==
  IF a2aIn[t] = A2ANone THEN "none" ELSE IF a2aIn[t].id = "msg" THEN "refused"
  ELSE IF a2aIn[t].st \in A2ATerminal THEN "closed" ELSE "open"
A2ASaid(t) ==
  {IF p.k = "accepted" THEN "accepted" ELSE IF p.k = "rejected" THEN "refused" ELSE "end" :
     p \in {q \in a2aPub : q.t = t /\ (q.k \in {"accepted", "rejected"} \/ q.st \in A2ATerminal)}}
A2AView(t) ==
  IF a2aOut[t] = A2ANone THEN "none" ELSE IF a2aOut[t].id = "none" THEN "asked"
  ELSE IF a2aOut[t].id = "msg" THEN "refused" ELSE IF a2aOut[t].st \in A2ATerminal THEN "closed" ELSE "open"

A2ADel == INSTANCE A2ADelegation WITH
  DelTasks <- A2ATasks, work <- [t \in A2ATasks |-> A2AWork(t)],
  said <- [t \in A2ATasks |-> A2ASaid(t)], view <- [t \in A2ATasks |-> A2AView(t)], lapsed <- a2aGhost.late
A2ARefinesDelegation == A2ADel!DelSpec

(* A reservation is given back: the task runs and ends, at the latest by   *)
(* its timeout, and its place in the quota is free again. Not so for a     *)
(* task whose acknowledgement arrived but was not seen to, nor for one     *)
(* that a cancel ends before its message is delivered again: they never    *)
(* run, and hold their place until a restart.                              *)
A2AReleases ==
  \A t \in A2ATasks : (t \in a2aRes /\ t \notin a2aGhost.stranded) ~> (t \notin a2aRes \/ t \in a2aGhost.touched)

(* The streams redeliver, goroutines run, and a run has a timeout. That the*)
(* channel's current job ends is not assumed.                              *)
A2AFairness ==
  /\ \A t \in A2ATasks : WF_a2aVars(\E m \in a2aNet : m.t = t /\ m.k = "task" /\ A2AConsumed(m))
  /\ \A t \in A2ATasks : WF_a2aVars(\E r \in a2aRuns : r.t = t /\ A2ARunStep(r))
A2AFairSpec == A2ASpec /\ A2AFairness
=============================================================================
