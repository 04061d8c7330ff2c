------------------------------- MODULE Monitor -------------------------------
(***************************************************************************)
(* Background monitors: heartbeat/monitor.go and monitor_store.go, the     *)
(* commands, buttons and confirmations of bot/handler_monitor.go and       *)
(* monitor_parse.go, and the evaluation and notification of                *)
(* bot/monitor_adapter.go. A monitor is checked in the background by an    *)
(* agent of its own and says something only when its condition matches.    *)
(* Unlike the store of Cron, MonitorStore takes a change back when the     *)
(* file cannot be written, so that memory and file are one variable here;  *)
(* and an execution that ends reads the stored job again and merges into   *)
(* that, instead of writing the copy back that it began with.              *)
(***************************************************************************)
EXTENDS Integers, FiniteSets

CONSTANTS
  MonJobs,      \* the job ids that can be drawn
  MonSlots,     \* goroutines of execute
  MonTokens,    \* confirmations: keys of monitorPromptCache
  MonAbsent,    \* not in the map
  MonMaxTime,   \* bound: clock
  MonMaxRev,    \* bound: edits of a job
  MonMaxStarts, \* bound: starts of the process
  MonMaxOps     \* bound: buttons, edit forms and run requests of the users

ASSUME MonSetsAssumption == IsFiniteSet(MonJobs) /\ IsFiniteSet(MonSlots) /\ IsFiniteSet(MonTokens)
ASSUME MonBoundsAssumption ==
  MonMaxTime \in Nat \ {0} /\ MonMaxRev \in Nat /\ MonMaxStarts \in Nat /\ MonMaxOps \in Nat

(* on is Enabled, once is RunOnce, next is NextRun (0 the empty string),   *)
(* rev stands for what a user can edit: name, schedule, check, condition.  *)
MonJob == [on : BOOLEAN, once : BOOLEAN, next : 0..MonMaxTime + 1, rev : 0..MonMaxRev]
ASSUME MonAbsentAssumption == MonAbsent \notin MonJob

(* An execution: its job, its copy of it, when it began, whether it was    *)
(* requested; and, ghost, the stored job when the end read it (finishJob). *)
MonIdle == [st |-> "idle", id |-> MonAbsent, copy |-> MonAbsent, at |-> 0,
            manual |-> FALSE, seen |-> MonAbsent]
MonStates == {"idle", "claimed", "starting", "evaluating", "deliver", "finish", "merge", "stopping"}

VARIABLES
  monJobs,    \* [MonJobs -> MonJob \cup {MonAbsent}]: MonitorStore.jobs and its file
  monSnap,    \* [MonJobs -> MonJob \cup {MonAbsent}]: what Run's loop has still to look at
  monExec,    \* [MonSlots -> [st, id, copy, at, manual, seen]]: the executions
  monRunning, \* the sync.Map of running job ids
  monHand,    \* a handler between its read of a job and its write
  monPrompt,  \* [MonTokens -> {"none", "kept", "late", "used"}]: monitorPromptCache
  monClock,   \* time.Now
  monLeft,    \* what is left of the bounds
  monMade     \* history: [MonTokens -> 0..2]: the jobs a confirmation made

monVars == <<monJobs, monSnap, monExec, monRunning, monHand, monPrompt, monClock, monLeft, monMade>>

MonStored(j) == monJobs[j] # MonAbsent
MonBusy(j) == {w \in MonSlots : monExec[w].st # "idle" /\ monExec[w].id = j}

(* cron.Schedule.Next: strictly after t; due at every instant.             *)
MonNextTick(t) == t + 1
MonNone == [j \in MonJobs |-> MonAbsent]

MonInit ==
  /\ monJobs = MonNone /\ monSnap = MonNone
  /\ monExec = [w \in MonSlots |-> MonIdle] /\ monRunning = {} /\ monHand = MonIdle
  /\ monPrompt = [t \in MonTokens |-> "none"] /\ monMade = [t \in MonTokens |-> 0]
  /\ monClock = 1 /\ monLeft = [starts |-> MonMaxStarts, ops |-> MonMaxOps]

(* Add and Update validate and write; a write that fails is undone.        *)
MonPut(j, r) == monJobs' = [monJobs EXCEPT ![j] = r] \/ monJobs' = monJobs
MonRemove(j) == MonPut(j, MonAbsent)

(* ApplyMonitorUpdate.                                                     *)
MonEdited(r, on) == [r EXCEPT !.rev = IF @ < MonMaxRev THEN @ + 1 ELSE @, !.on = on]
MonMustRecalc(r, on, sched) == sched \/ (~r.on /\ on)
MonRecalc(r) == [r EXCEPT !.next = MonNextTick(monClock)]
MonNew == [on |-> TRUE, once |-> FALSE, next |-> 0, rev |-> 0]

-----------------------------------------------------------------------------
(* The heartbeat: MonitorTask.Run.                                         *)

MonSkip(j) == monSnap' = [monSnap EXCEPT ![j] = MonAbsent]

(* Run copies all the jobs and then looks at one after the other.          *)
MonPass ==
  /\ monSnap = MonNone /\ monSnap' = monJobs /\ monSnap' # MonNone
  /\ UNCHANGED <<monJobs, monExec, monRunning, monHand, monPrompt, monClock, monLeft, monMade>>

(* Mutant of MonDue: a run that was requested waits for the schedule.      *)
MonDueByTime(r) == r.next # 0 /\ r.next <= monClock

(* isDue, of the copy.                                                     *)
MonDue(r) == r.once \/ (r.next # 0 /\ r.next <= monClock)

MonNotRunning(j) == j \notin monRunning

MonStart(j, r) ==
  /\ \E w \in MonSlots : monExec[w].st = "idle"
  /\ LET w == CHOOSE v \in MonSlots : monExec[v].st = "idle" IN
     monExec' = [monExec EXCEPT ![w] = [st |-> "claimed", id |-> j, copy |-> r, at |-> monClock,
                                        manual |-> r.once, seen |-> MonAbsent]]
  /\ monRunning' = monRunning \cup {j}

(* A job of the loop: it is run as it was when the pass began.             *)
MonClaim(j) ==
  LET r == monSnap[j] IN
  /\ r # MonAbsent /\ (r.on \/ r.once) /\ MonNotRunning(j) /\ MonDue(r)
  /\ MonStart(j, r) /\ MonSkip(j)
  /\ UNCHANGED <<monJobs, monHand, monPrompt, monClock, monLeft, monMade>>

MonNotDue(j) ==
  LET r == monSnap[j] IN
  /\ r # MonAbsent /\ MonSkip(j)
  /\ ~(r.on \/ r.once) \/ ~MonNotRunning(j) \/ (~MonDue(r) /\ r.next # 0)
  /\ UNCHANGED <<monJobs, monExec, monRunning, monHand, monPrompt, monClock, monLeft, monMade>>

(* isDue of a job without a next run: it gets one, and is stored.          *)
MonFirstNext(j) ==
  LET r == monSnap[j] IN
  /\ r # MonAbsent /\ r.on /\ ~r.once /\ r.next = 0 /\ MonNotRunning(j)
  /\ MonPut(j, MonRecalc(r)) /\ MonSkip(j)
  /\ UNCHANGED <<monExec, monRunning, monHand, monPrompt, monClock, monLeft, monMade>>

-----------------------------------------------------------------------------
(* The execution of a monitor: execute.                                    *)

MonGoes(w, st, copy) == monExec' = [monExec EXCEPT ![w] = [@ EXCEPT !.st = st, !.copy = copy]]

(* The channel is not set up, or the usage limit is reached: an error is   *)
(* recorded. Otherwise an agent is started, which nothing bounds in time:  *)
(* the timeout of the evaluation begins when the agent is there.           *)
MonBegin(w) ==
  /\ monExec[w].st = "claimed"
  /\ \E st \in {"finish", "starting"} : MonGoes(w, st, monExec[w].copy)
  /\ UNCHANGED <<monJobs, monSnap, monRunning, monHand, monPrompt, monClock, monLeft, monMade>>

(* StartTempAgent returns, with an error or an agent, which is asked.      *)
MonAgentStarts(w) ==
  /\ monExec[w].st = "starting"
  /\ \E st \in {"finish", "evaluating"} : MonGoes(w, st, monExec[w].copy)
  /\ UNCHANGED <<monJobs, monSnap, monRunning, monHand, monPrompt, monClock, monLeft, monMade>>

MonManual(e) == e.manual

(* A monitor that matched may be reported if it is still there, and still  *)
(* enabled or run on request.                                              *)
MonMayNotify(e) == MonStored(e.id) /\ (monJobs[e.id].on \/ MonManual(e))

(* EvaluateMonitor returns an error, a timeout, "no match" or a match. On  *)
(* a match the job is read again: a deleted one ends here, a paused one is *)
(* not reported, another is reported as it is now.                         *)
MonEvaluated(w) ==
  LET e == monExec[w] IN
  /\ e.st = "evaluating"
  /\ \/ MonGoes(w, "finish", e.copy)
     \/ ~MonStored(e.id) /\ MonGoes(w, "stopping", e.copy)
     \/ MonMayNotify(e) /\ MonGoes(w, "deliver", monJobs[e.id])
  /\ UNCHANGED <<monJobs, monSnap, monRunning, monHand, monPrompt, monClock, monLeft, monMade>>

(* DeliverMonitorNotification: a thread is prepared and the message sent,  *)
(* or that fails.                                                          *)
MonDeliver(w) ==
  /\ monExec[w].st = "deliver" /\ MonGoes(w, "finish", monExec[w].copy)
  /\ UNCHANGED <<monJobs, monSnap, monRunning, monHand, monPrompt, monClock, monLeft, monMade>>

(* Mutant of MonMerged: the copy is written back.                          *)
MonWrittenBack(e, r) == [e.copy EXCEPT !.once = FALSE, !.next = MonNextTick(e.at)]

(* finishJob: into the stored job go the times, the thread and the next    *)
(* run; RunOnce is cleared by an execution that was requested.             *)
MonMerged(e, r) == [r EXCEPT !.once = @ /\ ~MonManual(e), !.next = MonNextTick(e.at)]

(* The job is read again; a deleted one ends here.                         *)
MonFinishRead(w) ==
  LET e == monExec[w]  r == monJobs[e.id] IN
  /\ e.st = "finish"
  /\ IF MonStored(e.id)
       THEN monExec' = [monExec EXCEPT ![w] = [e EXCEPT !.st = "merge", !.copy = MonMerged(e, r), !.seen = r]]
       ELSE MonGoes(w, "stopping", e.copy)
  /\ UNCHANGED <<monJobs, monSnap, monRunning, monHand, monPrompt, monClock, monLeft, monMade>>

(* And it is written, whatever became of the stored one in between.        *)
MonFinishJob(w) ==
  LET e == monExec[w] IN
  /\ e.st = "merge" /\ MonGoes(w, "stopping", e.copy) /\ MonPut(e.id, e.copy)
  /\ UNCHANGED <<monSnap, monRunning, monHand, monPrompt, monClock, monLeft, monMade>>

(* The deferred calls: the agent is stopped, the id leaves running.        *)
MonRelease(w) ==
  /\ monExec[w].st = "stopping"
  /\ monExec' = [monExec EXCEPT ![w] = MonIdle]
  /\ monRunning' = monRunning \ {monExec[w].id}
  /\ UNCHANGED <<monJobs, monSnap, monHand, monPrompt, monClock, monLeft, monMade>>

-----------------------------------------------------------------------------
(* The handlers.                                                           *)

(* /monitor-prompt: an agent parses the request, and the parsed job waits  *)
(* ten minutes for a confirmation; entries that are late are purged.       *)
MonPropose(t) ==
  /\ monPrompt[t] = "none"
  /\ monPrompt' = [u \in MonTokens |->
       IF u = t THEN "kept" ELSE IF monPrompt[u] = "late" THEN "used" ELSE monPrompt[u]]
  /\ UNCHANGED <<monJobs, monSnap, monExec, monRunning, monHand, monClock, monLeft, monMade>>

MonPromptLate(t) ==
  /\ monPrompt[t] = "kept" /\ monPrompt' = [monPrompt EXCEPT ![t] = "late"]
  /\ UNCHANGED <<monJobs, monSnap, monExec, monRunning, monHand, monClock, monLeft, monMade>>

(* LoadAndDelete.                                                          *)
MonTaken(t) == [monPrompt EXCEPT ![t] = "used"]

(* The confirm button: the entry is taken; one that is in time becomes a   *)
(* job, which gets its next run. Anyone who manages the channel can click, *)
(* as often as the message is there.                                       *)
MonConfirm(t, j) ==
  /\ monPrompt[t] \in {"kept", "late"} /\ monPrompt' = MonTaken(t)
  /\ IF monPrompt[t] = "kept"
       THEN /\ ~MonStored(j)
            /\ \/ monJobs' = [monJobs EXCEPT ![j] = MonRecalc(MonNew)]
               \/ monJobs' = [monJobs EXCEPT ![j] = MonNew]
               \/ monJobs' = monJobs
            /\ monMade' = [monMade EXCEPT ![t] = IF monJobs' # monJobs /\ @ < 2 THEN @ + 1 ELSE @]
       ELSE UNCHANGED <<monJobs, monMade>>
  /\ UNCHANGED <<monSnap, monExec, monRunning, monHand, monClock, monLeft>>

(* The job is read, and Discord is asked whether the user manages the      *)
(* channel.                                                                *)
MonRead(op, j) ==
  /\ monHand = MonIdle /\ MonStored(j)
  /\ op = "edit" => monJobs[j].rev < MonMaxRev
  /\ monLeft.ops > 0 /\ monLeft' = [monLeft EXCEPT !.ops = @ - 1]
  /\ monHand' = [MonIdle EXCEPT !.st = op, !.id = j, !.copy = monJobs[j]]
  /\ UNCHANGED <<monJobs, monSnap, monExec, monRunning, monPrompt, monClock, monMade>>

MonButton(j) == \E op \in {"pause", "resume", "run", "delete"} : MonRead(op, j)
MonRunByName(j) == MonRead("run", j)
MonEditForm(j) == MonRead("edit", j)

(* Pause, resume and edit write the copy; resume and a new schedule write  *)
(* it a second time with the next run.                                     *)
MonWrite ==
  LET h == monHand  r == h.copy IN
  /\ monHand' = MonIdle
  /\ \/ h.st = "pause" /\ MonPut(h.id, [r EXCEPT !.on = FALSE])
     \/ h.st = "resume" /\ MonPut(h.id, MonRecalc([r EXCEPT !.on = TRUE]))
     \/ h.st = "edit" /\ \E sched \in BOOLEAN :
          LET e == MonEdited(r, r.on) IN
          MonPut(h.id, IF MonMustRecalc(r, r.on, sched) THEN MonRecalc(e) ELSE e)
  /\ UNCHANGED <<monSnap, monExec, monRunning, monPrompt, monClock, monLeft, monMade>>

(* The run: RunOnce is stored, the reply is sent, and then RunNow starts   *)
(* what is stored, unless it runs; the heartbeat finds RunOnce too.        *)
MonStoreRun ==
  LET h == monHand IN
  /\ h.st = "run"
  /\ \/ UNCHANGED monJobs /\ monHand' = MonIdle
     \/ /\ monJobs' = [monJobs EXCEPT ![h.id] = [h.copy EXCEPT !.once = TRUE]]
        /\ monHand' = [h EXCEPT !.st = "start"]
  /\ UNCHANGED <<monSnap, monExec, monRunning, monPrompt, monClock, monLeft, monMade>>

MonRunNow ==
  LET j == monHand.id IN
  /\ monHand.st = "start" /\ monHand' = MonIdle
  /\ IF MonStored(j) /\ MonNotRunning(j) THEN MonStart(j, monJobs[j])
                                        ELSE UNCHANGED <<monExec, monRunning>>
  /\ UNCHANGED <<monJobs, monSnap, monPrompt, monClock, monLeft, monMade>>

MonDelete ==
  /\ monHand.st = "delete" /\ monHand' = MonIdle /\ MonRemove(monHand.id)
  /\ UNCHANGED <<monSnap, monExec, monRunning, monPrompt, monClock, monLeft, monMade>>

(* A file of the MCP server, ingested before the pass: a create, an update *)
(* or a delete.                                                            *)
MonIngest(j) ==
  /\ monSnap = MonNone
  /\ \/ ~MonStored(j) /\ MonPut(j, MonRecalc(MonNew))
     \/ MonStored(j) /\ MonRemove(j)
     \/ MonStored(j) /\ monJobs[j].rev < MonMaxRev /\ \E on, sched \in BOOLEAN :
          LET e == MonEdited(monJobs[j], on) IN
          MonPut(j, IF MonMustRecalc(monJobs[j], on, sched) THEN MonRecalc(e) ELSE e)
  /\ UNCHANGED <<monSnap, monExec, monRunning, monHand, monPrompt, monClock, monLeft, monMade>>

-----------------------------------------------------------------------------
(* The process.                                                            *)

MonTick ==
  /\ monClock < MonMaxTime /\ monClock' = monClock + 1
  /\ UNCHANGED <<monJobs, monSnap, monExec, monRunning, monHand, monPrompt, monLeft, monMade>>

(* RecalcAll at the start, and the empty maps of a new process.            *)
MonRestart ==
  /\ monLeft.starts > 0 /\ monLeft' = [monLeft EXCEPT !.starts = @ - 1]
  /\ monJobs' = [j \in MonJobs |->
       IF MonStored(j) /\ monJobs[j].on /\ ~(monJobs[j].next \in 1..monClock)
         THEN MonRecalc(monJobs[j]) ELSE monJobs[j]]
  /\ monSnap' = MonNone /\ monExec' = [w \in MonSlots |-> MonIdle]
  /\ monRunning' = {} /\ monHand' = MonIdle
  /\ monPrompt' = [t \in MonTokens |-> IF monPrompt[t] = "none" THEN "none" ELSE "used"]
  /\ UNCHANGED <<monClock, monMade>>

MonExecution(w) ==
  MonBegin(w) \/ MonEvaluated(w) \/ MonDeliver(w) \/ MonFinishRead(w) \/ MonFinishJob(w) \/ MonRelease(w)
MonLoop == MonPass \/ (\E j \in MonJobs : MonClaim(j) \/ MonNotDue(j) \/ MonFirstNext(j))
MonHandler == MonWrite \/ MonStoreRun \/ MonRunNow \/ MonDelete

MonNext ==
  \/ \E t \in MonTokens : MonPropose(t) \/ MonPromptLate(t) \/ (\E j \in MonJobs : MonConfirm(t, j))
  \/ \E j \in MonJobs : MonIngest(j) \/ MonButton(j) \/ MonRunByName(j) \/ MonEditForm(j)
  \/ MonLoop \/ MonHandler \/ MonTick \/ MonRestart
  \/ \E w \in MonSlots : MonExecution(w) \/ MonAgentStarts(w)

MonSpec == MonInit /\ [][MonNext]_monVars

MonWritten == \E w \in MonSlots :
  MonFinishJob(w) /\ monJobs' = [monJobs EXCEPT ![monExec[w].id] = monExec[w].copy]

(* The heartbeat keeps ticking, an evaluation ends, by its timeout at the  *)
(* latest, and the file can be written now and then. That an agent starts  *)
(* is not assumed.                                                         *)
MonFairness ==
  /\ WF_monVars(MonLoop) /\ SF_monVars(MonWritten)
  /\ \A w \in MonSlots : WF_monVars(MonExecution(w))
MonFairSpec == MonSpec /\ MonFairness

-----------------------------------------------------------------------------
(* Properties.                                                             *)

(* Types of the variables.                                                 *)
MonTypeOK ==
  /\ monJobs \in [MonJobs -> MonJob \cup {MonAbsent}]
  /\ monSnap \in [MonJobs -> MonJob \cup {MonAbsent}]
  /\ \A w \in MonSlots : monExec[w] = MonIdle \/
       /\ monExec[w].st \in MonStates /\ monExec[w].id \in MonJobs
       /\ monExec[w].copy \in MonJob /\ monExec[w].at \in 1..MonMaxTime
       /\ monExec[w].manual \in BOOLEAN /\ monExec[w].seen \in MonJob \cup {MonAbsent}
  /\ monRunning \subseteq MonJobs
  /\ monHand = MonIdle \/ (monHand.id \in MonJobs /\ monHand.copy \in MonJob)
  /\ monPrompt \in [MonTokens -> {"none", "kept", "late", "used"}]
  /\ monMade \in [MonTokens -> 0..2] /\ monClock \in 1..MonMaxTime

(* A monitor is never evaluated twice at a time.                           *)
MonSingleFlight == \A j \in MonJobs : Cardinality(MonBusy(j)) <= 1

(* The stored job changed between the read and the write of finishJob.     *)
MonRaced(e) == e.st = "merge" /\ monJobs[e.id] # e.seen

(* An evaluation under way never brings back a monitor that was deleted    *)
(* meanwhile, never undoes a pause or an edit, and clears a run request    *)
(* only if it is the run that was requested (the tests                     *)
(* DoesNotResurrectDeletedInFlightJob and                                  *)
(* ScheduledFinishPreservesQueuedRunOnce), unless the change came between  *)
(* the read and the write of its end.                                      *)
MonKeepsEdits ==
  [][\A w \in MonSlots : monExec[w].st # "idle" /\ monExec'[w] # monExec[w] /\ monLeft' = monLeft =>
       \A j \in MonJobs :
         LET r == monJobs[j]  s == monJobs'[j] IN
         \/ monExec[w].id = j /\ MonRaced(monExec[w])
         \/ r = MonAbsent /\ s = MonAbsent
         \/ /\ r # MonAbsent /\ s # MonAbsent /\ s.on = r.on /\ s.rev = r.rev
            /\ s.once = r.once \/ (monExec[w].id = j /\ MonManual(monExec[w]))]_monVars

(* A notification is for a monitor that is there, not paused (unless this  *)
(* run was requested), and as it reads now (the test                       *)
(* SkipsNotificationWhenPausedInFlight).                                   *)
MonNotifiesCurrent ==
  [][\A w \in MonSlots : monExec[w].st # "deliver" /\ monExec'[w].st = "deliver" =>
       LET e == monExec'[w] IN
       /\ MonStored(e.id) /\ e.copy.rev = monJobs[e.id].rev
       /\ monJobs[e.id].on \/ MonManual(monExec[w])]_monVars

(* A run that was requested is carried out, even when the monitor was      *)
(* running at that moment, or paused: the request never stays, unless an   *)
(* agent for this monitor never gets through its start. (A request that    *)
(* raced with the end of an evaluation may be dropped: MonKeepsEdits.)     *)
MonHangs(j) == \E w \in MonSlots : monExec[w].st = "starting" /\ monExec[w].id = j
MonRunServed == \A j \in MonJobs :
  \/ (MonStored(j) /\ monJobs[j].once) ~> (~MonStored(j) \/ ~monJobs[j].once)
  \/ <>[]MonHangs(j)

(* A confirmation makes one monitor at most, however often it is clicked.  *)
MonConfirmOnce == \A t \in MonTokens : monMade[t] <= 1
=============================================================================
