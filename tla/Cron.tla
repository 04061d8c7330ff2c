-------------------------------- MODULE Cron --------------------------------
(***************************************************************************)
(* Scheduled jobs and one-time reminders: heartbeat/cron.go and            *)
(* cron_store.go, the commands and buttons of bot/handler_cron.go and the  *)
(* run of a job in a thread (bot/cron_adapter.go). The store is a map in   *)
(* memory, written whole to cron.json. Four kinds of goroutine work on it: *)
(* the heartbeat, one execution per running job, the handlers of Discord   *)
(* interactions, and (through files) the MCP server of the agents. An      *)
(* execution and a handler work on a COPY of the job and write it back.    *)
(* A job stands for its name, schedule and prompt by the number of times   *)
(* it was edited.                                                          *)
(***************************************************************************)
EXTENDS Integers, FiniteSets

CONSTANTS
  CronJobs,      \* the job ids that can be drawn
  CronSlots,     \* goroutines of execute
  CronKinds,     \* the kinds of job that are created
  CronForeign,   \* the jobs whose GuildID is not the bot's
  CronAbsent,    \* not in the map
  CronMaxTime,   \* bound: clock
  CronMaxRev,    \* bound: edits of a job
  CronMaxEvents  \* bound: writes that fail, starts, runs by name and files together

(* "cron" recurs; "remind" is a OneShot, "ask" a OneShot with UseAgent.    *)
AllCronKinds == {"cron", "remind", "ask"}

ASSUME CronSetsAssumption ==
  /\ IsFiniteSet(CronJobs) /\ IsFiniteSet(CronSlots) /\ CronForeign \subseteq CronJobs
  /\ CronKinds \subseteq AllCronKinds
ASSUME CronBoundsAssumption ==
  /\ CronMaxTime \in Nat \ {0} /\ CronMaxRev \in Nat /\ CronMaxEvents \in Nat

(* next is NextRun, 0 the empty string; once is RunOnce, on is Enabled.    *)
CronJob == [kind : AllCronKinds, on : BOOLEAN, once : BOOLEAN,
            next : 0..CronMaxTime + 1, rev : 0..CronMaxRev]
ASSUME CronAbsentAssumption == CronAbsent \notin CronJob

CronIdle == [st |-> "idle", id |-> CronAbsent, copy |-> CronAbsent, at |-> 0]
CronStates == {"idle", "claimed", "starting", "asking", "finish", "stopping"}

VARIABLES
  cronMem,   \* [CronJobs -> CronJob \cup {CronAbsent}]: CronStore.jobs
  cronDisk,  \* the same, as last written to cron.json
  cronExec,  \* [CronSlots -> [st, id, copy, at]]: the executions, started at
  cronRunning, \* the sync.Map of running job ids
  cronHand,  \* a handler between its read of a job and its write
  cronFiles, \* cron/pending: the jobs agents asked for, by their kind
  cronClock, \* time.Now
  cronLeft,  \* what is left of the bound on events
  cronGhost  \* history: what was promised, deleted, fired, edited and raced

cronVars == <<cronMem, cronDisk, cronExec, cronRunning, cronHand, cronFiles, cronClock, cronLeft, cronGhost>>

CronStored(j) == cronMem[j] # CronAbsent
CronOneShot(r) == r.kind # "cron"
CronFree(j) == ~CronStored(j) /\ j \notin cronGhost.promised \cup cronGhost.deleted
CronBusy(j) == {w \in CronSlots : cronExec[w].st # "idle" /\ cronExec[w].id = j}

(* Mutant of CronNextTick: an instant late.                                *)
CronNextTickLate(t) == t + 2

(* cron.Schedule.Next: strictly after t. The schedules modelled are due at *)
(* every instant, so that an execution and the next one are close.         *)
CronNextTick(t) == t + 1

CronInit ==
  /\ cronMem = [j \in CronJobs |-> CronAbsent] /\ cronDisk = cronMem
  /\ cronExec = [w \in CronSlots |-> CronIdle] /\ cronRunning = {}
  /\ cronHand = CronIdle /\ cronFiles = {} /\ cronClock = 1
  /\ cronLeft = CronMaxEvents
  /\ cronGhost = [promised |-> {}, deleted |-> {}, raced |-> {}, sent |-> {},
                  fired |-> [j \in CronJobs |-> 0], rev |-> [j \in CronJobs |-> 0]]

-----------------------------------------------------------------------------
(* The store.                                                              *)

(* save: the map is marshalled, written to a temporary file and renamed.   *)
(* The map in memory is changed first and stays changed when it fails.     *)
CronSave(m, ok) ==
  /\ cronMem' = m
  /\ cronDisk' = IF ok THEN m ELSE cronDisk
  /\ ok \/ cronLeft > 0
  /\ cronLeft' = IF ok THEN cronLeft ELSE cronLeft - 1

CronPut(j, r, ok) == CronSave([cronMem EXCEPT ![j] = r], ok)
CronDrop(j, ok) == CronSave([cronMem EXCEPT ![j] = CronAbsent], ok)

(* Writing r back for j replaces what others stored since base was read.   *)
CronRaces(j, base) == {i \in {j} : cronMem[j] # base}

CronNew(kind, next) == [kind |-> kind, on |-> TRUE, once |-> FALSE, next |-> next, rev |-> 0]

(* ApplyCronUpdate of a recurring job: the new content, and whether        *)
(* next_run must be computed again.                                        *)
CronEdited(r, on) ==
  [r EXCEPT !.rev = IF @ < CronMaxRev THEN @ + 1 ELSE @, !.on = on]
CronMustRecalc(r, on, sched) == sched \/ (~r.on /\ on)

(* ApplyReminderUpdate: an enabled reminder must be in the future.         *)
CronReminderValid(on, at) == on => at > cronClock
CronReminderEdited(r, on, at) ==
  [r EXCEPT !.rev = IF @ < CronMaxRev THEN @ + 1 ELSE @, !.on = on, !.next = at]

-----------------------------------------------------------------------------
(* The heartbeat: CronTask.Run.                                            *)

(* One job of the loop: under mutationMu the job is read again, and run if *)
(* it is eligible, not running and due; a recurring job without a next run *)
(* gets one first (isDue), and that is stored.                             *)
CronEligible(j) == CronStored(j) /\ (cronMem[j].on \/ cronMem[j].once) /\ j \notin CronForeign
CronDue(j) == CronEligible(j) /\ cronMem[j].next # 0 /\ cronMem[j].next <= cronClock

(* Mutant of CronNotRunning: the executions are not looked at.             *)
CronMayRunTwice(j) == CronStored(j)

CronNotRunning(j) == j \notin cronRunning

(* The goroutine that execute gets; which one does not matter.             *)
CronStart(j, r) ==
  /\ \E w \in CronSlots : cronExec[w].st = "idle"
  /\ LET w == CHOOSE v \in CronSlots : cronExec[v].st = "idle" IN
     cronExec' = [cronExec EXCEPT ![w] = [st |-> "claimed", id |-> j, copy |-> r, at |-> cronClock]]
  /\ cronRunning' = cronRunning \cup {j}

(* Mutant of CronClaim: a one-time job is removed before it is sent.       *)
CronClaimRemoving(j) ==
  /\ CronDue(j) /\ CronNotRunning(j)
  /\ CronStart(j, cronMem[j])
  /\ IF CronOneShot(cronMem[j]) THEN CronDrop(j, TRUE) ELSE UNCHANGED <<cronMem, cronDisk, cronLeft>>
  /\ UNCHANGED <<cronHand, cronFiles, cronClock, cronGhost>>

CronClaim(j) ==
  /\ CronDue(j) /\ CronNotRunning(j)
  /\ CronStart(j, cronMem[j])
  /\ UNCHANGED <<cronMem, cronDisk, cronHand, cronFiles, cronClock, cronLeft, cronGhost>>

(* isDue: next is computed from CreatedAt, and stored.                     *)
CronFirstNext(j) ==
  /\ CronEligible(j) /\ CronNotRunning(j) /\ cronMem[j].kind = "cron" /\ cronMem[j].next = 0
  /\ \E ok \in BOOLEAN : CronPut(j, [cronMem[j] EXCEPT !.next = CronNextTick(cronClock)], ok)
  /\ UNCHANGED <<cronExec, cronRunning, cronHand, cronFiles, cronClock, cronGhost>>

(* RunNow, called by a handler that has stored RunOnce: under the mutex    *)
(* the job is read and started unless it runs.                             *)
CronRunNow(j, m) ==
  IF m[j] = CronAbsent \/ ~CronNotRunning(j)
    THEN UNCHANGED <<cronExec, cronRunning>>
    ELSE CronStart(j, m[j])

-----------------------------------------------------------------------------
(* The execution of a job: execute.                                        *)

CronGoes(w, st, copy) == cronExec' = [cronExec EXCEPT ![w] = [@ EXCEPT !.st = st, !.copy = copy]]
CronFired(j, done) ==
  [cronGhost EXCEPT !.fired[j] = IF @ < 2 THEN @ + 1 ELSE @, !.sent = @ \cup done]

(* A reminder without agent is sent. A job in a channel that is not set up *)
(* answers with the notice only. A usage limit is reported, and RunOnce    *)
(* stays. Otherwise an agent is started, which nothing bounds in time: the *)
(* timeout begins when the agent is there.                                 *)
CronBegin(w) ==
  LET e == cronExec[w] IN
  /\ e.st = "claimed"
  /\ \/ e.copy.kind = "remind" /\ CronGoes(w, "finish", e.copy)
     \/ e.copy.kind # "remind" /\ CronGoes(w, "finish", [e.copy EXCEPT !.once = FALSE])
     \/ e.copy.kind # "remind" /\ CronGoes(w, "finish", e.copy)
     \/ e.copy.kind # "remind" /\ CronGoes(w, "starting", e.copy)
  /\ cronGhost' = CronFired(e.id, {j \in {e.id} : cronExec'[w].st = "finish"})
  /\ UNCHANGED <<cronMem, cronDisk, cronRunning, cronHand, cronFiles, cronClock, cronLeft>>

(* StartTempAgent returns: a failure is reported, and RunOnce stays; or    *)
(* the agent is asked.                                                     *)
CronAgentStarts(w) ==
  LET e == cronExec[w] IN
  /\ e.st = "starting"
  /\ \/ CronGoes(w, "finish", e.copy) /\ cronGhost' = [cronGhost EXCEPT !.sent = @ \cup {e.id}]
     \/ CronGoes(w, "asking", e.copy) /\ UNCHANGED cronGhost
  /\ UNCHANGED <<cronMem, cronDisk, cronRunning, cronHand, cronFiles, cronClock, cronLeft>>

(* AskAgentInThread returns: an answer, an error, or the timeout. A thread *)
(* that is new to the job, and the end of a run on request, are stored by  *)
(* writing the COPY back; the history is appended to.                      *)
CronAsked(w) ==
  LET e == cronExec[w]  r == [e.copy EXCEPT !.once = FALSE] IN
  /\ e.st = "asking"
  /\ CronGoes(w, "finish", r)
  /\ \/ /\ ~e.copy.once /\ UNCHANGED <<cronMem, cronDisk, cronLeft>>
        /\ cronGhost' = [cronGhost EXCEPT !.sent = @ \cup {e.id}]
     \/ /\ \E ok \in BOOLEAN : CronPut(e.id, r, ok)
        /\ cronGhost' = [cronGhost EXCEPT !.sent = @ \cup {e.id},
                                          !.raced = @ \cup CronRaces(e.id, e.copy)]
  /\ UNCHANGED <<cronRunning, cronHand, cronFiles, cronClock>>

(* finishJob: a one-shot is removed; the copy of a recurring job is        *)
(* written back with its next run.                                         *)
CronFinishJob(w) ==
  LET e == cronExec[w]  r == [e.copy EXCEPT !.next = CronNextTick(e.at)] IN
  /\ e.st = "finish" /\ CronGoes(w, "stopping", e.copy)
  /\ IF CronOneShot(e.copy)
       THEN /\ \E ok \in BOOLEAN : CronDrop(e.id, ok)
            /\ UNCHANGED cronGhost
       ELSE /\ \E ok \in BOOLEAN : CronPut(e.id, r, ok)
            /\ cronGhost' = [cronGhost EXCEPT !.raced = @ \cup CronRaces(e.id, e.copy)]
  /\ UNCHANGED <<cronRunning, cronHand, cronFiles, cronClock>>

(* The deferred calls: StopTempAgent, then the id leaves running.          *)
CronRelease(w) ==
  /\ cronExec[w].st = "stopping"
  /\ cronExec' = [cronExec EXCEPT ![w] = CronIdle]
  /\ cronRunning' = cronRunning \ {cronExec[w].id}
  /\ UNCHANGED <<cronMem, cronDisk, cronHand, cronFiles, cronClock, cronLeft, cronGhost>>

-----------------------------------------------------------------------------
(* The handlers.                                                           *)

(* A job is created and its creator told whether it was saved; a recurring *)
(* job gets its next run, and is saved again, right after.                 *)
CronAdd(j, kind) ==
  /\ CronFree(j) /\ kind \in CronKinds
  /\ \E ok \in BOOLEAN :
       /\ CronPut(j, CronNew(kind, IF ok \/ kind # "cron" THEN cronClock + 1 ELSE 0), ok)
       /\ cronGhost' = [cronGhost EXCEPT !.promised = IF ok THEN @ \cup {j} ELSE @,
                                         !.deleted = IF ok THEN @ ELSE @ \cup {j}]
  /\ UNCHANGED <<cronExec, cronRunning, cronHand, cronFiles, cronClock>>

(* The form of /cron, the confirmed /cron-prompt, and /remind or !remind.  *)
CronForm(j) == CronAdd(j, "cron")
CronConfirmed(j) == CronAdd(j, "cron")
CronRemind(j) == \E kind \in {"remind", "ask"} : CronAdd(j, kind)
CronRemindText(j) == \E kind \in {"remind", "ask"} : CronAdd(j, kind)

(* The pause and the resume button of a recurring job.                     *)
CronSetEnabled(j) ==
  /\ CronStored(j) /\ ~CronOneShot(cronMem[j])
  /\ \E on, ok \in BOOLEAN : CronPut(j, [cronMem[j] EXCEPT !.on = on], ok)
  /\ UNCHANGED <<cronExec, cronRunning, cronHand, cronFiles, cronClock, cronGhost>>

(* A change of a recurring job: the edit form, or an update the heartbeat  *)
(* ingests. It is stored, and stored again with its next run when that     *)
(* must be computed.                                                       *)
CronChange(j, on) ==
  LET r == CronEdited(cronMem[j], on) IN
  /\ CronStored(j) /\ ~CronOneShot(cronMem[j]) /\ cronMem[j].rev < CronMaxRev
  /\ \E ok, sched \in BOOLEAN :
       CronPut(j, IF ok /\ CronMustRecalc(cronMem[j], on, sched)
                    THEN [r EXCEPT !.next = CronNextTick(cronClock)] ELSE r, ok)
  /\ cronGhost' = [cronGhost EXCEPT !.rev[j] = r.rev]
  /\ UNCHANGED <<cronExec, cronRunning, cronHand, cronFiles, cronClock>>

CronEdit(j) == CronStored(j) /\ CronChange(j, cronMem[j].on)
CronIngestUpdate(j) == \E on \in BOOLEAN : CronChange(j, on)

(* A run is asked for by name, with /cron-run or !cron run: the reply is   *)
(* sent before RunOnce is stored.                                          *)
CronReadRun(j) ==
  /\ cronHand = CronIdle /\ CronStored(j) /\ cronLeft > 0
  /\ cronHand' = [st |-> "run", id |-> j, copy |-> cronMem[j], at |-> 0]
  /\ cronLeft' = cronLeft - 1
  /\ UNCHANGED <<cronMem, cronDisk, cronExec, cronRunning, cronFiles, cronClock, cronGhost>>

(* /cron-run, !cron run and the run button: RunOnce is stored, then the    *)
(* job is started. A reminder can be run by its name.                      *)
CronRun ==
  LET h == cronHand IN
  /\ h.st = "run"
  /\ \E ok \in BOOLEAN : CronPut(h.id, [h.copy EXCEPT !.once = TRUE], ok)
  /\ CronRunNow(h.id, cronMem')
  /\ cronGhost' = [cronGhost EXCEPT !.raced = @ \cup CronRaces(h.id, h.copy)]
  /\ cronHand' = CronIdle
  /\ UNCHANGED <<cronFiles, cronClock>>

CronReadRunText(j) == CronReadRun(j)

(* The delete button, and the delete of the MCP server: no look at the     *)
(* executions.                                                             *)
CronDelete(j) ==
  /\ CronStored(j)
  /\ \E ok \in BOOLEAN : CronDrop(j, ok)
  /\ cronGhost' = [cronGhost EXCEPT !.deleted = @ \cup {j}]
  /\ UNCHANGED <<cronExec, cronRunning, cronHand, cronFiles, cronClock>>
CronIngestDelete(j) == CronDelete(j)

(* What UpdateReminder asks of the job under mutationMu.                   *)
CronPending(j) == CronStored(j) /\ CronOneShot(cronMem[j]) /\ j \notin cronRunning

(* UpdateReminder, of the buttons and the edit form of a reminder, and of  *)
(* the MCP server. A failing save takes the change back.                   *)
CronUpdateReminder(j) ==
  /\ CronPending(j) /\ cronMem[j].rev < CronMaxRev
  /\ \E on \in BOOLEAN, at \in {cronMem[j].next, cronClock + 1} :
       /\ CronReminderValid(on, at)
       /\ \/ /\ CronPut(j, CronReminderEdited(cronMem[j], on, at), TRUE)
             /\ cronGhost' = [cronGhost EXCEPT !.rev[j] = cronMem[j].rev + 1]
          \/ CronSave(cronMem, FALSE) /\ UNCHANGED cronGhost
  /\ UNCHANGED <<cronExec, cronRunning, cronHand, cronFiles, cronClock>>

CronEditReminder(j) == CronUpdateReminder(j)
CronIngestReminderUpdate(j) == CronUpdateReminder(j)

-----------------------------------------------------------------------------
(* The files of the MCP server, read by the heartbeat.                     *)

CronPost(kind) ==
  /\ kind \in CronKinds /\ kind \notin cronFiles /\ cronFiles' = cronFiles \cup {kind}
  /\ cronLeft > 0 /\ cronLeft' = cronLeft - 1
  /\ UNCHANGED <<cronMem, cronDisk, cronExec, cronRunning, cronHand, cronClock, cronGhost>>

(* A file leaves when its job is stored; after a failed save it stays, and *)
(* so does the job in memory: the next run ingests the file again.         *)
CronFilesAfter(kind, ok) == IF ok THEN cronFiles \ {kind} ELSE cronFiles

(* IngestPending's "create" and "create_reminder"; Run then computes the   *)
(* next run of a recurring job from a fresh copy.                          *)
CronIngest(j, kind) ==
  /\ kind \in cronFiles /\ CronFree(j)
  /\ \E ok \in BOOLEAN :
       /\ CronPut(j, CronNew(kind, cronClock + 1), ok)
       /\ cronFiles' = CronFilesAfter(kind, ok)
       /\ cronGhost' = [cronGhost EXCEPT !.promised = IF ok THEN @ \cup {j} ELSE @,
                                         !.deleted = IF ok THEN @ ELSE @ \cup {j}]
  /\ UNCHANGED <<cronExec, cronRunning, cronHand, cronClock>>

CronIngestCreate(j) == CronIngest(j, "cron")
CronIngestReminder(j) == \E kind \in {"remind", "ask"} : CronIngest(j, kind)

-----------------------------------------------------------------------------
(* The process.                                                            *)

CronTick ==
  /\ cronClock < CronMaxTime /\ cronClock' = cronClock + 1
  /\ UNCHANGED <<cronMem, cronDisk, cronExec, cronRunning, cronHand, cronFiles, cronLeft, cronGhost>>

(* RecalcAll at the start: the enabled recurring jobs that are not overdue *)
(* get their next run from the schedule.                                   *)
CronRecalculated(m) ==
  [j \in CronJobs |->
     IF m[j] # CronAbsent /\ m[j].on /\ m[j].kind = "cron" /\ ~(m[j].next \in 1..cronClock)
       THEN [m[j] EXCEPT !.next = CronNextTick(cronClock)] ELSE m[j]]

CronRestart ==
  /\ cronLeft > 0 /\ cronLeft' = cronLeft - 1
  /\ cronMem' = CronRecalculated(cronDisk) /\ cronDisk' = cronMem'
  /\ cronExec' = [w \in CronSlots |-> CronIdle] /\ cronRunning' = {} /\ cronHand' = CronIdle
  /\ cronGhost' = [cronGhost EXCEPT !.fired = [j \in CronJobs |-> 0],
       !.raced = {}, !.rev = [j \in CronJobs |-> IF cronDisk[j] = CronAbsent THEN 0 ELSE cronDisk[j].rev]]
  /\ UNCHANGED <<cronFiles, cronClock>>

CronExecution(w) ==
  CronBegin(w) \/ CronAsked(w) \/ CronFinishJob(w) \/ CronRelease(w)
CronNext ==
  \/ \E j \in CronJobs :
       \/ CronForm(j) \/ CronConfirmed(j) \/ CronRemind(j) \/ CronRemindText(j) \/ CronFirstNext(j) \/ CronDelete(j)
       \/ CronIngestCreate(j) \/ CronIngestReminder(j) \/ CronIngestUpdate(j)
       \/ CronSetEnabled(j) \/ CronEdit(j) \/ CronEditReminder(j) \/ CronIngestReminderUpdate(j) \/ CronReadRun(j)
       \/ CronReadRunText(j) \/ CronClaim(j) \/ CronIngestDelete(j)
  \/ \E kind \in CronKinds : CronPost(kind)
  \/ \E w \in CronSlots : CronExecution(w) \/ CronAgentStarts(w)
  \/ CronRun \/ CronTick \/ CronRestart

CronSpec == CronInit /\ [][CronNext]_cronVars

(* The heartbeat keeps ticking, and an execution that has its agent ends:  *)
(* AskAgentInThread returns at the latest when its context times out. That *)
(* an agent starts is not assumed.                                         *)
CronHeartbeat(j) ==
  \/ CronIngestCreate(j) \/ CronIngestReminder(j) \/ CronFirstNext(j) \/ CronClaim(j)
CronFairness ==
  /\ \A j \in CronJobs : WF_cronVars(CronHeartbeat(j))
  /\ \A w \in CronSlots : WF_cronVars(CronExecution(w))
CronFairSpec == CronSpec /\ CronFairness

-----------------------------------------------------------------------------
(* Properties.                                                             *)

(* Types of the variables.                                                 *)
CronTypeOK ==
  /\ cronMem \in [CronJobs -> CronJob \cup {CronAbsent}]
  /\ cronDisk \in [CronJobs -> CronJob \cup {CronAbsent}]
  /\ \A w \in CronSlots : cronExec[w] = CronIdle \/
       /\ cronExec[w].st \in CronStates /\ cronExec[w].id \in CronJobs
       /\ cronExec[w].copy \in CronJob /\ cronExec[w].at \in 1..CronMaxTime
  /\ cronRunning \subseteq CronJobs /\ cronFiles \subseteq CronKinds
  /\ cronHand = CronIdle \/ (cronHand.id \in CronJobs /\ cronHand.copy \in CronJob)
  /\ cronClock \in 1..CronMaxTime

(* A job never runs twice at a time, whoever starts it: two executions     *)
(* would answer in one thread and write each other's copy over.            *)
CronSingleFlight == \A j \in CronJobs : Cardinality(CronBusy(j)) <= 1

(* A reminder whose creator was told that it is set is not lost: until it  *)
(* was sent (or its one attempt reported) or deleted, it is on disk, so a  *)
(* crash at any point leaves it for the next start.                        *)
CronReminderKept ==
  \A j \in cronGhost.promised \ cronGhost.deleted :
    cronDisk[j] # CronAbsent \/ j \in cronGhost.sent

(* A reminder is sent once: after it was sent only a start of the process  *)
(* that found it on disk can send it again, unless a handler wrote a copy  *)
(* back that it had read before.                                           *)
CronRemindOnce ==
  \A j \in CronJobs : CronStored(j) /\ CronOneShot(cronMem[j]) /\ j \notin cronGhost.raced
                      => cronGhost.fired[j] <= 1

(* "updates a pending one-time reminder without racing execution": what a  *)
(* reminder sends is the last update that was accepted.                    *)
CronSendsLastEdit ==
  \A w \in CronSlots : LET e == cronExec[w] IN
    e.st # "idle" /\ CronOneShot(e.copy) /\ e.id \notin cronGhost.raced
      => e.copy.rev = cronGhost.rev[e.id]

(* A start leaves the jobs that became due while the bot was down due:     *)
(* they run at the first heartbeat, not a period later.                    *)
CronOverdueKept ==
  [][CronRestart =>
       \A j \in CronJobs : LET r == cronDisk[j] IN
         r # CronAbsent /\ r.on /\ r.next \in 1..cronClock => cronMem'[j].next = r.next]_cronVars

(* Every job that is due runs, is deleted, paused or moved; and it can run *)
(* again, because every execution ends, unless an agent for this job never *)
(* gets through its start.                                                 *)
CronHangs(j) == \E w \in CronSlots : cronExec[w].st = "starting" /\ cronExec[w].id = j
CronDueRuns == \A j \in CronJobs :
  /\ CronDue(j) ~> (CronBusy(j) # {} \/ ~CronDue(j))
  /\ (CronBusy(j) # {} ~> j \notin cronRunning) \/ <>[]CronHangs(j)
=============================================================================
