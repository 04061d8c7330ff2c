--------------------------- MODULE ScheduleProofs ---------------------------
(* Proofs about the scheduled work: the cron jobs and reminders, the       *)
(* monitors and the watchdog of the gateway, and the behaviours that move  *)
(* one of them. What they promise without a word about the future is       *)
(* proved here; that what is due runs in the end is left to TLC.           *)
EXTENDS MCSchedule, TLAPS, FiniteSetTheorems

-----------------------------------------------------------------------------
(* Cron. The types, stronger than CronTypeOK.                              *)
CronWorking ==
  [st : {"claimed", "starting", "asking", "finish", "stopping"}, id : CronJobs, copy : CronJob, at : 1..CronMaxTime]
CronReading == [st : {"run"}, id : CronJobs, copy : CronJob, at : {0}]
CronHistory ==
  [promised : SUBSET CronJobs, deleted : SUBSET CronJobs, raced : SUBSET CronJobs, sent : SUBSET CronJobs,
   fired : [CronJobs -> 0..2], rev : [CronJobs -> 0..CronMaxRev]]
CronTyped ==
  /\ cronMem \in [CronJobs -> CronJob \cup {CronAbsent}]
  /\ cronDisk \in [CronJobs -> CronJob \cup {CronAbsent}]
  /\ cronExec \in [CronSlots -> CronWorking \cup {CronIdle}]
  /\ cronRunning \subseteq CronJobs /\ cronFiles \subseteq CronKinds
  /\ cronHand \in CronReading \cup {CronIdle}
  /\ cronClock \in 1..CronMaxTime /\ cronGhost \in CronHistory

(* A goroutine that runs a job, and the jobs that were ever made.          *)
CronRuns(w, j) == cronExec[w].st # "idle" /\ cronExec[w].id = j
CronKnown == cronGhost.promised \cup cronGhost.deleted

(* One goroutine runs a job at a time, and while it does the job is among  *)
(* the running ones; what it is about to drop it has sent.                 *)
CronFlights ==
  \A w \in CronSlots : cronExec[w].st # "idle" =>
    /\ cronExec[w].id \in cronRunning
    /\ \A v \in CronSlots : CronRuns(v, cronExec[w].id) => v = w
    /\ cronExec[w].st \in {"finish", "stopping"} => cronExec[w].id \in cronGhost.sent

(* A job that was promised is in memory and on disk until it was sent.     *)
CronHeld(j) ==
  j \in cronGhost.promised \ cronGhost.deleted =>
    (cronMem[j] # CronAbsent /\ cronDisk[j] # CronAbsent) \/ j \in cronGhost.sent

(* Every copy of a job is of the kind the job was made with; a job that    *)
(* was not made yet has no copy and no history.                            *)
CronHas(j, kind) ==
  \/ cronMem[j] # CronAbsent /\ cronMem[j].kind = kind
  \/ cronDisk[j] # CronAbsent /\ cronDisk[j].kind = kind
  \/ \E w \in CronSlots : CronRuns(w, j) /\ cronExec[w].copy.kind = kind
  \/ cronHand.st = "run" /\ cronHand.id = j /\ cronHand.copy.kind = kind
CronOneKind(j) == \A kind, other \in AllCronKinds : CronHas(j, kind) /\ CronHas(j, other) => kind = other
CronNew0(j) ==
  j \notin CronKnown =>
    (\A kind \in AllCronKinds : ~CronHas(j, kind)) /\ cronGhost.fired[j] = 0 /\ cronGhost.rev[j] = 0

(* A one-time job that is stored and that nobody raced for was not sent    *)
(* yet, or is being sent by the one who runs it; the store and who runs it *)
(* have its last edit.                                                     *)
CronFresh(j) ==
  CronStored(j) /\ CronOneShot(cronMem[j]) /\ j \notin cronGhost.raced =>
    /\ cronMem[j].rev = cronGhost.rev[j]
    /\ \/ cronGhost.fired[j] = 0 /\ \A w \in CronSlots : CronRuns(w, j) => cronExec[w].st = "claimed"
       \/ cronGhost.fired[j] = 1 /\ \E w \in CronSlots : CronRuns(w, j) /\ cronExec[w].st \in {"starting", "asking", "finish"}
CronLatest(j) ==
  \A w \in CronSlots : CronRuns(w, j) /\ CronOneShot(cronExec[w].copy) /\ j \notin cronGhost.raced =>
    cronExec[w].copy.rev = cronGhost.rev[j]

CronJobInv(j) == CronHeld(j) /\ CronOneKind(j) /\ CronNew0(j) /\ CronFresh(j) /\ CronLatest(j)
CronInv == CronTyped /\ CronFlights /\ \A j \in CronJobs : CronJobInv(j)

-----------------------------------------------------------------------------
(* Monitors. The types, stronger than MonTypeOK.                           *)
MonWorking ==
  [st : {"claimed", "starting", "evaluating", "deliver", "finish", "merge", "stopping"}, id : MonJobs,
   copy : MonJob, at : 1..MonMaxTime, manual : BOOLEAN, seen : MonJob \cup {MonAbsent}]
MonReading ==
  [st : {"pause", "resume", "run", "delete", "edit", "start"}, id : MonJobs, copy : MonJob, at : {0},
   manual : {FALSE}, seen : {MonAbsent}]
MonTyped ==
  /\ monJobs \in [MonJobs -> MonJob \cup {MonAbsent}]
  /\ monSnap \in [MonJobs -> MonJob \cup {MonAbsent}]
  /\ monExec \in [MonSlots -> MonWorking \cup {MonIdle}]
  /\ monRunning \subseteq MonJobs
  /\ monHand \in MonReading \cup {MonIdle}
  /\ monPrompt \in [MonTokens -> {"none", "kept", "late", "used"}]
  /\ monMade \in [MonTokens -> 0..2] /\ monClock \in 1..MonMaxTime
  /\ monLeft \in [starts : 0..MonMaxStarts, ops : 0..MonMaxOps]

(* One goroutine runs a monitor at a time, and while it does the monitor   *)
(* is among the running ones; a confirmation that made a monitor is used.  *)
MonRuns(w, j) == monExec[w].st # "idle" /\ monExec[w].id = j
MonFlights ==
  \A w \in MonSlots : monExec[w].st # "idle" =>
    monExec[w].id \in monRunning /\ \A v \in MonSlots : MonRuns(v, monExec[w].id) => v = w
MonSpent == \A t \in MonTokens : monMade[t] <= 1 /\ (monPrompt[t] # "used" => monMade[t] = 0)

(* What an end is about to write has the edits of the job that it read, and *)
(* its request, unless this run was the one requested.                      *)
MonMerges(e) ==
  e.st = "merge" =>
    e.seen \in MonJob /\ e.copy.on = e.seen.on /\ e.copy.rev = e.seen.rev /\ (e.copy.once = e.seen.once \/ e.manual)
MonMerging == \A w \in MonSlots : MonMerges(monExec[w])
MonInv == MonTyped /\ MonFlights /\ MonSpent /\ MonMerging

(* An execution takes a step, of its own or with its agent.                 *)
MonWorks(w) == MonExecution(w) \/ MonAgentStarts(w)

-----------------------------------------------------------------------------
(* What the steps of Cron do to the store, by their effect. A store changes *)
(* one job, in memory and, unless the write fails, on disk with all others. *)
CronWrites(j, r, ok) == cronMem' = [cronMem EXCEPT ![j] = r] /\ cronDisk' = IF ok THEN cronMem' ELSE cronDisk
CronAside == UNCHANGED <<cronExec, cronRunning, cronHand>>

CronMakes(j) ==
  /\ j \notin CronKnown /\ cronMem[j] = CronAbsent /\ CronAside
  /\ \E r \in CronJob, ok \in BOOLEAN :
       /\ r.rev = 0 /\ CronWrites(j, r, ok)
       /\ cronGhost' = [cronGhost EXCEPT !.promised = IF ok THEN @ \cup {j} ELSE @,
                                         !.deleted = IF ok THEN @ ELSE @ \cup {j}]
CronTouches(j) ==
  /\ CronStored(j) /\ cronMem[j].kind = "cron" /\ CronAside
  /\ \E r \in CronJob, ok \in BOOLEAN : r.kind = "cron" /\ CronWrites(j, r, ok)
  /\ \E n \in 0..CronMaxRev : cronGhost' = [cronGhost EXCEPT !.rev[j] = n]
CronForgets(j) ==
  /\ CronAside /\ \E ok \in BOOLEAN : CronWrites(j, CronAbsent, ok)
  /\ cronGhost' = [cronGhost EXCEPT !.deleted = @ \cup {j}]
CronUpdates(j) ==
  /\ CronStored(j) /\ j \notin cronRunning /\ CronAside
  /\ \E r \in CronJob :
       /\ r.kind = cronMem[j].kind /\ r.rev = cronMem[j].rev + 1
       /\ CronWrites(j, r, TRUE) /\ cronGhost' = [cronGhost EXCEPT !.rev[j] = r.rev]
CronStays == UNCHANGED <<cronMem, cronDisk, cronExec, cronRunning, cronHand, cronGhost>>

(* A job that is made, and what an edit makes of a job.                     *)
LEMMA CronRecords ==
  /\ \A kind \in AllCronKinds, next \in 0..CronMaxTime + 1 :
       CronNew(kind, next) \in CronJob /\ CronNew(kind, next).kind = kind /\ CronNew(kind, next).rev = 0
  /\ \A r \in CronJob, n \in 0..CronMaxTime + 1 :
       /\ [r EXCEPT !.next = n] \in CronJob
       /\ [r EXCEPT !.next = n].kind = r.kind /\ [r EXCEPT !.next = n].rev = r.rev
  /\ \A r \in CronJob, b \in BOOLEAN :
       /\ [r EXCEPT !.once = b] \in CronJob
       /\ [r EXCEPT !.once = b].kind = r.kind /\ [r EXCEPT !.once = b].rev = r.rev
       /\ [r EXCEPT !.on = b] \in CronJob
       /\ [r EXCEPT !.on = b].kind = r.kind /\ [r EXCEPT !.on = b].rev = r.rev
  /\ \A r \in CronJob, on \in BOOLEAN : CronEdited(r, on) \in CronJob /\ CronEdited(r, on).kind = r.kind
  /\ \A r \in CronJob, on \in BOOLEAN, at \in 0..CronMaxTime + 1 :
       /\ CronReminderEdited(r, on, at) \in CronJob /\ CronReminderEdited(r, on, at).kind = r.kind
       /\ r.rev < CronMaxRev => CronReminderEdited(r, on, at).rev = r.rev + 1
<1> USE CronBoundsAssumption
<1>1. \A kind \in AllCronKinds, next \in 0..CronMaxTime + 1 :
        CronNew(kind, next) \in CronJob /\ CronNew(kind, next).kind = kind /\ CronNew(kind, next).rev = 0
  BY DEF CronNew, CronJob
<1>2. \A r \in CronJob, n \in 0..CronMaxTime + 1 :
        /\ [r EXCEPT !.next = n] \in CronJob
        /\ [r EXCEPT !.next = n].kind = r.kind /\ [r EXCEPT !.next = n].rev = r.rev
  BY DEF CronJob
<1>3. \A r \in CronJob, b \in BOOLEAN :
        /\ [r EXCEPT !.once = b] \in CronJob
        /\ [r EXCEPT !.once = b].kind = r.kind /\ [r EXCEPT !.once = b].rev = r.rev
        /\ [r EXCEPT !.on = b] \in CronJob
        /\ [r EXCEPT !.on = b].kind = r.kind /\ [r EXCEPT !.on = b].rev = r.rev
  BY DEF CronJob
<1>4. \A r \in CronJob, on \in BOOLEAN : CronEdited(r, on) \in CronJob /\ CronEdited(r, on).kind = r.kind
  <2> SUFFICES ASSUME NEW r \in CronJob, NEW on \in BOOLEAN
               PROVE  CronEdited(r, on) \in CronJob /\ CronEdited(r, on).kind = r.kind
    OBVIOUS
  <2>1. PICK n : n = IF r.rev < CronMaxRev THEN r.rev + 1 ELSE r.rev
    OBVIOUS
  <2>2. n \in 0..CronMaxRev
    BY <2>1 DEF CronJob
  <2>3. CronEdited(r, on) = [r EXCEPT !.rev = n, !.on = on]
    BY <2>1 DEF CronEdited, CronJob
  <2> QED
    BY <2>2, <2>3 DEF CronJob
<1>5. \A r \in CronJob, on \in BOOLEAN, at \in 0..CronMaxTime + 1 :
        /\ CronReminderEdited(r, on, at) \in CronJob /\ CronReminderEdited(r, on, at).kind = r.kind
        /\ r.rev < CronMaxRev => CronReminderEdited(r, on, at).rev = r.rev + 1
  <2> SUFFICES ASSUME NEW r \in CronJob, NEW on \in BOOLEAN, NEW at \in 0..CronMaxTime + 1
               PROVE  /\ CronReminderEdited(r, on, at) \in CronJob /\ CronReminderEdited(r, on, at).kind = r.kind
                      /\ r.rev < CronMaxRev => CronReminderEdited(r, on, at).rev = r.rev + 1
    OBVIOUS
  <2>1. PICK n : n = IF r.rev < CronMaxRev THEN r.rev + 1 ELSE r.rev
    OBVIOUS
  <2>2. n \in 0..CronMaxRev
    BY <2>1 DEF CronJob
  <2>3. CronReminderEdited(r, on, at) = [r EXCEPT !.rev = n, !.on = on, !.next = at]
    BY <2>1 DEF CronReminderEdited, CronJob
  <2> QED
    BY <2>1, <2>2, <2>3 DEF CronJob
<1> QED
  BY <1>1, <1>2, <1>3, <1>4, <1>5

(* Each step has one of these effects, or is a step of an execution, of a   *)
(* run by name, or a start.                                                 *)
LEMMA CronSteps ==
  ASSUME CronTyped, [CronNext]_cronVars
  PROVE  \/ \E j \in CronJobs : \/ CronMakes(j) \/ CronTouches(j) \/ CronForgets(j) \/ CronUpdates(j)
                                \/ CronReadRun(j) \/ CronClaim(j)
         \/ \E w \in CronSlots : CronExecution(w) \/ CronAgentStarts(w)
         \/ CronRun \/ CronRestart \/ CronStays
<1>1. /\ cronMem \in [CronJobs -> CronJob \cup {CronAbsent}] /\ cronClock \in 1..CronMaxTime /\ CronMaxTime \in Nat
      /\ cronGhost \in CronHistory
  BY CronBoundsAssumption DEF CronTyped
<1>2. cronClock + 1 \in 0..CronMaxTime + 1 /\ CronNextTick(cronClock) \in 0..CronMaxTime + 1 /\ 0 \in 0..CronMaxTime + 1
  BY <1>1 DEF CronNextTick
<1>3. ASSUME NEW j \in CronJobs, NEW r, NEW ok, CronPut(j, r, ok)
      PROVE  CronWrites(j, r, ok)
  BY <1>3 DEF CronPut, CronSave, CronWrites
<1>4. ASSUME NEW j \in CronJobs, NEW kind \in AllCronKinds, CronAdd(j, kind)
      PROVE  CronMakes(j)
  <2>1. PICK ok \in BOOLEAN :
          /\ CronPut(j, CronNew(kind, IF ok \/ kind # "cron" THEN cronClock + 1 ELSE 0), ok)
          /\ cronGhost' = [cronGhost EXCEPT !.promised = IF ok THEN @ \cup {j} ELSE @,
                                            !.deleted = IF ok THEN @ ELSE @ \cup {j}]
    BY <1>4 DEF CronAdd
  <2>2. PICK r : r = CronNew(kind, IF ok \/ kind # "cron" THEN cronClock + 1 ELSE 0)
    OBVIOUS
  <2>3. r \in CronJob /\ r.rev = 0
    BY <1>2, <2>2, CronRecords
  <2> QED
    BY <1>3, <1>4, <2>1, <2>2, <2>3 DEF CronAdd, CronFree, CronStored, CronKnown, CronMakes, CronAside
<1>5. ASSUME NEW j \in CronJobs, NEW kind \in AllCronKinds, CronIngest(j, kind)
      PROVE  CronMakes(j)
  <2>1. PICK ok \in BOOLEAN :
          /\ CronPut(j, CronNew(kind, cronClock + 1), ok)
          /\ cronGhost' = [cronGhost EXCEPT !.promised = IF ok THEN @ \cup {j} ELSE @,
                                            !.deleted = IF ok THEN @ ELSE @ \cup {j}]
    BY <1>5 DEF CronIngest
  <2>2. PICK r : r = CronNew(kind, cronClock + 1)
    OBVIOUS
  <2>3. r \in CronJob /\ r.rev = 0
    BY <1>2, <2>2, CronRecords
  <2> QED
    BY <1>3, <1>5, <2>1, <2>2, <2>3 DEF CronIngest, CronFree, CronStored, CronKnown, CronMakes, CronAside
<1>6. ASSUME NEW j \in CronJobs, CronFirstNext(j) \/ CronSetEnabled(j)
      PROVE  CronTouches(j)
  <2>1. CronStored(j) /\ cronMem[j].kind = "cron" /\ CronAside /\ cronGhost' = cronGhost /\ cronMem[j] \in CronJob
    BY <1>1, <1>6 DEF CronFirstNext, CronSetEnabled, CronEligible, CronOneShot, CronAside, CronStored
  <2>2. \E n \in 0..CronMaxRev : cronGhost' = [cronGhost EXCEPT !.rev[j] = n]
    <3>1. cronGhost.rev[j] \in 0..CronMaxRev /\ cronGhost = [cronGhost EXCEPT !.rev[j] = cronGhost.rev[j]]
      BY <1>1 DEF CronHistory
    <3> QED
      BY <2>1, <3>1
  <2>3. \E r \in CronJob, ok \in BOOLEAN : r.kind = "cron" /\ CronPut(j, r, ok)
    <3>1. CASE CronFirstNext(j)
      <4>1. PICK r : r = [cronMem[j] EXCEPT !.next = CronNextTick(cronClock)]
        OBVIOUS
      <4>2. r \in CronJob /\ r.kind = "cron"
        BY <1>2, <2>1, <4>1, CronRecords
      <4> QED
        BY <3>1, <4>1, <4>2 DEF CronFirstNext
    <3>2. CASE CronSetEnabled(j)
      <4>1. PICK on \in BOOLEAN, ok \in BOOLEAN : CronPut(j, [cronMem[j] EXCEPT !.on = on], ok)
        BY <3>2 DEF CronSetEnabled
      <4>2. [cronMem[j] EXCEPT !.on = on] \in CronJob /\ [cronMem[j] EXCEPT !.on = on].kind = "cron"
        BY <2>1, <4>1, CronRecords
      <4> QED
        BY <4>1, <4>2
    <3> QED
      BY <1>6, <3>1, <3>2
  <2> QED
    BY <1>3, <2>1, <2>2, <2>3 DEF CronTouches
<1>7. ASSUME NEW j \in CronJobs, NEW on \in BOOLEAN, CronChange(j, on)
      PROVE  CronTouches(j)
  <2>1. CronStored(j) /\ cronMem[j].kind = "cron" /\ CronAside /\ cronMem[j] \in CronJob
    BY <1>1, <1>7 DEF CronChange, CronOneShot, CronAside, CronStored
  <2>2. PICK r : r = CronEdited(cronMem[j], on)
    OBVIOUS
  <2>3. r \in CronJob /\ r.kind = "cron" /\ cronGhost' = [cronGhost EXCEPT !.rev[j] = r.rev]
    BY <1>7, <2>1, <2>2, CronRecords DEF CronChange
  <2>4. PICK ok \in BOOLEAN, next \in {r, [r EXCEPT !.next = CronNextTick(cronClock)]} : CronPut(j, next, ok)
    BY <1>7, <2>2 DEF CronChange
  <2>5. next \in CronJob /\ next.kind = "cron"
    <3>1. \A n \in 0..CronMaxTime + 1 : [r EXCEPT !.next = n] \in CronJob /\ [r EXCEPT !.next = n].kind = r.kind
      BY <2>3, CronRecords
    <3>2. CASE next = [r EXCEPT !.next = CronNextTick(cronClock)]
      BY <1>2, <2>3, <3>1, <3>2
    <3> QED
      BY <2>3, <2>4, <3>2
  <2>6. r.rev \in 0..CronMaxRev
    BY <2>3 DEF CronJob
  <2> QED
    BY <1>3, <2>1, <2>3, <2>4, <2>5, <2>6 DEF CronTouches
<1>8. ASSUME NEW j \in CronJobs, CronDelete(j)
      PROVE  CronForgets(j)
  BY <1>3, <1>8 DEF CronDelete, CronDrop, CronPut, CronForgets, CronAside
<1>9. ASSUME NEW j \in CronJobs, CronUpdateReminder(j)
      PROVE  CronUpdates(j) \/ CronStays
  <2>1. CronStored(j) /\ j \notin cronRunning /\ CronAside /\ cronMem[j] \in CronJob /\ cronMem[j].rev < CronMaxRev
    BY <1>1, <1>9 DEF CronUpdateReminder, CronPending, CronAside, CronStored
  <2>2. PICK on \in BOOLEAN, at \in {cronMem[j].next, cronClock + 1} :
          \/ /\ CronPut(j, CronReminderEdited(cronMem[j], on, at), TRUE)
             /\ cronGhost' = [cronGhost EXCEPT !.rev[j] = cronMem[j].rev + 1]
          \/ CronSave(cronMem, FALSE) /\ UNCHANGED cronGhost
    BY <1>9 DEF CronUpdateReminder
  <2>3. at \in 0..CronMaxTime + 1
    BY <1>2, <2>1, <2>2 DEF CronJob
  <2>4. PICK r : r = CronReminderEdited(cronMem[j], on, at)
    OBVIOUS
  <2>5. r \in CronJob /\ r.kind = cronMem[j].kind /\ r.rev = cronMem[j].rev + 1
    BY <2>1, <2>3, <2>4, CronRecords
  <2>6. CASE CronPut(j, r, TRUE) /\ cronGhost' = [cronGhost EXCEPT !.rev[j] = cronMem[j].rev + 1]
    BY <1>3, <2>1, <2>5, <2>6 DEF CronUpdates
  <2>7. CASE CronSave(cronMem, FALSE) /\ UNCHANGED cronGhost
    BY <2>1, <2>7 DEF CronSave, CronStays, CronAside
  <2> QED
    BY <2>2, <2>4, <2>6, <2>7
<1>10. CASE CronTick \/ (\E kind \in CronKinds : CronPost(kind)) \/ UNCHANGED cronVars
  BY <1>10 DEF CronTick, CronPost, cronVars, CronStays
<1>11. ASSUME NEW j \in CronJobs,
              \/ CronForm(j) \/ CronConfirmed(j) \/ CronRemind(j) \/ CronRemindText(j) \/ CronIngestCreate(j) \/ CronIngestReminder(j)
       PROVE  CronMakes(j)
  BY <1>4, <1>5, <1>11 DEF CronForm, CronConfirmed, CronRemind, CronRemindText, CronIngestCreate, CronIngestReminder, AllCronKinds
<1>12. ASSUME NEW j \in CronJobs, CronEdit(j) \/ CronIngestUpdate(j)
       PROVE  CronTouches(j)
  <2>1. CronEdit(j) => cronMem[j].on \in BOOLEAN
    BY <1>1 DEF CronEdit, CronStored, CronJob
  <2> QED
    BY <1>7, <1>12, <2>1 DEF CronEdit, CronIngestUpdate
<1> QED
  BY <1>6, <1>8, <1>9, <1>10, <1>11, <1>12
     DEF CronNext, CronEditReminder, CronIngestReminderUpdate, CronReadRunText, CronIngestDelete

(* A step leaves a job alone but may write it to disk as it is in memory.   *)
CronFrame(i) ==
  /\ cronMem'[i] = cronMem[i] /\ cronDisk'[i] \in {cronDisk[i], cronMem[i]}
  /\ i \in cronGhost'.promised <=> i \in cronGhost.promised
  /\ i \in cronGhost'.deleted <=> i \in cronGhost.deleted
  /\ i \in cronGhost'.raced <=> i \in cronGhost.raced
  /\ i \in cronGhost.sent => i \in cronGhost'.sent
  /\ cronGhost'.fired[i] = cronGhost.fired[i] /\ cronGhost'.rev[i] = cronGhost.rev[i]
  /\ \A w \in CronSlots : CronRuns(w, i)' <=> CronRuns(w, i)
  /\ \A w \in CronSlots : CronRuns(w, i) => cronExec'[w].st = cronExec[w].st /\ cronExec'[w].copy = cronExec[w].copy
  /\ cronHand'.st = "run" /\ cronHand'.id = i => cronHand.st = "run" /\ cronHand.id = i /\ cronHand'.copy = cronHand.copy

(* Then what is promised of that job is kept.                               *)
LEMMA CronFramed == ASSUME NEW i \in CronJobs, CronJobInv(i), CronFrame(i) PROVE CronJobInv(i)'
<1>1. \A kind \in AllCronKinds : CronHas(i, kind)' => CronHas(i, kind)
  BY DEF CronFrame, CronHas
<1>2. CronHeld(i)'
  BY DEF CronFrame, CronJobInv, CronHeld
<1>3. CronOneKind(i)'
  BY <1>1 DEF CronJobInv, CronOneKind
<1>4. CronNew0(i)'
  BY <1>1 DEF CronFrame, CronJobInv, CronNew0, CronKnown
<1>5. CronFresh(i)'
  BY DEF CronFrame, CronJobInv, CronFresh, CronStored
<1>6. CronLatest(i)'
  BY DEF CronFrame, CronJobInv, CronLatest
<1> QED
  BY <1>2, <1>3, <1>4, <1>5, <1>6 DEF CronJobInv

(* The invariant but for the clock and the files.                           *)
CronCore ==
  /\ cronMem \in [CronJobs -> CronJob \cup {CronAbsent}] /\ cronDisk \in [CronJobs -> CronJob \cup {CronAbsent}]
  /\ cronExec \in [CronSlots -> CronWorking \cup {CronIdle}]
  /\ cronRunning \subseteq CronJobs /\ cronHand \in CronReading \cup {CronIdle} /\ cronGhost \in CronHistory
  /\ CronFlights /\ \A j \in CronJobs : CronJobInv(j)

(* What the types say of one job, one execution and the history.            *)
LEMMA CronTypesSay ==
  ASSUME CronTyped
  PROVE  /\ \A j \in CronJobs : cronMem[j] \in CronJob \cup {CronAbsent} /\ cronDisk[j] \in CronJob \cup {CronAbsent}
         /\ \A w \in CronSlots : cronExec[w].st # "idle" =>
              /\ cronExec[w].st \in {"claimed", "starting", "asking", "finish", "stopping"} /\ cronExec[w].id \in CronJobs
              /\ cronExec[w].copy \in CronJob /\ cronExec[w].at \in 1..CronMaxTime
         /\ cronHand.st = "run" => cronHand.id \in CronJobs /\ cronHand.copy \in CronJob
         /\ cronGhost.promised \in SUBSET CronJobs /\ cronGhost.deleted \in SUBSET CronJobs
         /\ cronGhost.raced \in SUBSET CronJobs /\ cronGhost.sent \in SUBSET CronJobs
         /\ cronGhost.fired \in [CronJobs -> 0..2] /\ cronGhost.rev \in [CronJobs -> 0..CronMaxRev]
         /\ CronAbsent \notin CronJob
<1>1. \A j \in CronJobs : cronMem[j] \in CronJob \cup {CronAbsent} /\ cronDisk[j] \in CronJob \cup {CronAbsent}
  BY DEF CronTyped
<1>2. ASSUME NEW w \in CronSlots, cronExec[w].st # "idle"
      PROVE  /\ cronExec[w].st \in {"claimed", "starting", "asking", "finish", "stopping"} /\ cronExec[w].id \in CronJobs
             /\ cronExec[w].copy \in CronJob /\ cronExec[w].at \in 1..CronMaxTime
  <2>1. cronExec[w] \in CronWorking
    BY <1>2 DEF CronTyped, CronIdle
  <2> QED
    BY <2>1 DEF CronWorking
<1>3. cronHand.st = "run" => cronHand.id \in CronJobs /\ cronHand.copy \in CronJob
  BY DEF CronTyped, CronReading, CronIdle
<1>4. /\ cronGhost.promised \in SUBSET CronJobs /\ cronGhost.deleted \in SUBSET CronJobs
      /\ cronGhost.raced \in SUBSET CronJobs /\ cronGhost.sent \in SUBSET CronJobs
      /\ cronGhost.fired \in [CronJobs -> 0..2] /\ cronGhost.rev \in [CronJobs -> 0..CronMaxRev]
  BY DEF CronTyped, CronHistory
<1> QED
  BY <1>1, <1>2, <1>3, <1>4, CronAbsentAssumption

(* A store changes one job in memory; on disk the others are left alone, or *)
(* written as they are in memory.                                           *)
LEMMA CronStoresSay ==
  ASSUME CronTyped, NEW j \in CronJobs, NEW r \in CronJob \cup {CronAbsent}, NEW ok \in BOOLEAN, CronWrites(j, r, ok)
  PROVE  /\ cronMem' \in [CronJobs -> CronJob \cup {CronAbsent}] /\ cronDisk' \in [CronJobs -> CronJob \cup {CronAbsent}]
         /\ cronMem'[j] = r /\ cronDisk'[j] \in {cronDisk[j], r}
         /\ \A i \in CronJobs \ {j} : cronMem'[i] = cronMem[i] /\ cronDisk'[i] \in {cronDisk[i], cronMem[i]}
<1>1. cronMem' = [cronMem EXCEPT ![j] = r] /\ cronDisk' \in {cronDisk, cronMem'}
  BY DEF CronWrites
<1>2. cronMem \in [CronJobs -> CronJob \cup {CronAbsent}] /\ cronDisk \in [CronJobs -> CronJob \cup {CronAbsent}]
  BY DEF CronTyped
<1>3. cronMem' \in [CronJobs -> CronJob \cup {CronAbsent}] /\ cronMem'[j] = r /\ \A i \in CronJobs \ {j} : cronMem'[i] = cronMem[i]
  BY <1>1, <1>2
<1> QED
  BY <1>1, <1>2, <1>3

(* A job is made: it was not known, so nothing else has it.                 *)
LEMMA CronMakesKept == ASSUME CronInv, NEW j \in CronJobs, CronMakes(j) PROVE CronCore'
<1>0. CronTyped /\ CronFlights /\ \A i \in CronJobs : CronJobInv(i)
  BY DEF CronInv
<1>1. PICK r \in CronJob, ok \in BOOLEAN :
        /\ r.rev = 0 /\ CronWrites(j, r, ok)
        /\ cronGhost' = [cronGhost EXCEPT !.promised = IF ok THEN @ \cup {j} ELSE @,
                                          !.deleted = IF ok THEN @ ELSE @ \cup {j}]
  BY DEF CronMakes
<1>2. PICK p, d : p = (IF ok THEN cronGhost.promised \cup {j} ELSE cronGhost.promised)
                  /\ d = (IF ok THEN cronGhost.deleted ELSE cronGhost.deleted \cup {j})
  OBVIOUS
<1>3. p \in SUBSET CronJobs /\ d \in SUBSET CronJobs /\ cronGhost \in CronHistory
  BY <1>0, <1>2, CronTypesSay DEF CronTyped
<1>4. cronGhost' = [cronGhost EXCEPT !.promised = p, !.deleted = d]
  BY <1>1, <1>2
<1>5. /\ cronGhost' \in CronHistory /\ cronGhost'.promised = p /\ cronGhost'.deleted = d
      /\ cronGhost'.raced = cronGhost.raced /\ cronGhost'.sent = cronGhost.sent
      /\ cronGhost'.fired = cronGhost.fired /\ cronGhost'.rev = cronGhost.rev
  BY <1>3, <1>4 DEF CronHistory
<1>6. /\ cronExec' = cronExec /\ cronRunning' = cronRunning /\ cronHand' = cronHand
      /\ j \notin CronKnown /\ cronMem[j] = CronAbsent
  BY DEF CronMakes, CronAside
<1>7. /\ cronMem' \in [CronJobs -> CronJob \cup {CronAbsent}] /\ cronDisk' \in [CronJobs -> CronJob \cup {CronAbsent}]
      /\ cronMem'[j] = r /\ cronDisk'[j] \in {cronDisk[j], r} /\ (ok => cronDisk'[j] = r)
      /\ \A i \in CronJobs \ {j} : cronMem'[i] = cronMem[i] /\ cronDisk'[i] \in {cronDisk[i], cronMem[i]}
  BY <1>0, <1>1 DEF CronTyped, CronWrites
<1>8. CronFlights'
  BY <1>0, <1>5, <1>6 DEF CronFlights, CronRuns
<1>9. ASSUME NEW i \in CronJobs, i # j
      PROVE  CronJobInv(i)'
  <2>1. CronFrame(i)
    BY <1>2, <1>5, <1>6, <1>7, <1>9 DEF CronFrame, CronRuns
  <2> QED
    BY <1>0, <2>1, CronFramed
<1>10. CronJobInv(j)'
  <2>1. /\ \A kind \in AllCronKinds : ~CronHas(j, kind)
        /\ cronGhost.fired[j] = 0 /\ cronGhost.rev[j] = 0
    BY <1>0, <1>6 DEF CronJobInv, CronNew0
  <2>2. CronAbsent \notin CronJob /\ r.kind \in AllCronKinds
    BY CronAbsentAssumption DEF CronJob
  <2>3. \A w \in CronSlots : ~CronRuns(w, j)
    <3>1. ASSUME NEW w \in CronSlots, CronRuns(w, j)
          PROVE  FALSE
      <4>1. cronExec[w].copy.kind \in AllCronKinds
        BY <1>0, <3>1, CronTypesSay DEF CronRuns, CronJob
      <4> QED
        BY <2>1, <3>1, <4>1 DEF CronHas
    <3> QED
      BY <3>1
  <2>4. \A kind \in AllCronKinds : CronHas(j, kind)' => kind = r.kind
    BY <1>6, <1>7, <2>1 DEF CronHas, CronRuns
  <2>5. j \in p \cup d /\ (j \in p \ d => ok)
    BY <1>2, <1>6 DEF CronKnown
  <2>6. CronHeld(j)'
    BY <1>5, <1>7, <2>2, <2>5 DEF CronHeld
  <2>7. CronOneKind(j)'
    BY <2>4 DEF CronOneKind
  <2>8. CronNew0(j)'
    BY <1>5, <2>5 DEF CronNew0, CronKnown
  <2>9. CronFresh(j)' /\ CronLatest(j)'
    BY <1>1, <1>5, <1>6, <1>7, <2>1, <2>3 DEF CronFresh, CronLatest, CronRuns
  <2> QED
    BY <2>6, <2>7, <2>8, <2>9 DEF CronJobInv
<1> QED
  BY <1>0, <1>5, <1>6, <1>7, <1>8, <1>9, <1>10 DEF CronCore, CronTyped

(* A recurring job is changed: the one-time jobs do not see it.             *)
LEMMA CronTouchesKept == ASSUME CronInv, NEW j \in CronJobs, CronTouches(j) PROVE CronCore'
<1>0. CronTyped /\ CronFlights /\ \A i \in CronJobs : CronJobInv(i)
  BY DEF CronInv
<1>1. PICK r \in CronJob, ok \in BOOLEAN : r.kind = "cron" /\ CronWrites(j, r, ok)
  BY DEF CronTouches
<1>2. PICK n \in 0..CronMaxRev : cronGhost' = [cronGhost EXCEPT !.rev[j] = n]
  BY DEF CronTouches
<1>3. PICK e : e = [cronGhost.rev EXCEPT ![j] = n]
  OBVIOUS
<1>4. e \in [CronJobs -> 0..CronMaxRev] /\ \A i \in CronJobs \ {j} : e[i] = cronGhost.rev[i]
  BY <1>0, <1>2, <1>3, CronTypesSay
<1>5. /\ cronGhost' \in CronHistory /\ cronGhost'.promised = cronGhost.promised /\ cronGhost'.deleted = cronGhost.deleted
      /\ cronGhost'.raced = cronGhost.raced /\ cronGhost'.sent = cronGhost.sent
      /\ cronGhost'.fired = cronGhost.fired /\ cronGhost'.rev = e
  <2>1. cronGhost \in CronHistory
    BY <1>0 DEF CronTyped
  <2>2. cronGhost' = [cronGhost EXCEPT !.rev = e]
    BY <1>2, <1>3, <2>1 DEF CronHistory
  <2> QED
    BY <1>4, <2>1, <2>2 DEF CronHistory
<1>6. /\ cronExec' = cronExec /\ cronRunning' = cronRunning /\ cronHand' = cronHand
      /\ cronMem[j] # CronAbsent /\ cronMem[j].kind = "cron"
  BY DEF CronTouches, CronAside, CronStored
<1>7. /\ cronMem' \in [CronJobs -> CronJob \cup {CronAbsent}] /\ cronDisk' \in [CronJobs -> CronJob \cup {CronAbsent}]
      /\ cronMem'[j] = r /\ cronDisk'[j] \in {cronDisk[j], r}
      /\ \A i \in CronJobs \ {j} : cronMem'[i] = cronMem[i] /\ cronDisk'[i] \in {cronDisk[i], cronMem[i]}
  BY <1>0, <1>1 DEF CronTyped, CronWrites
<1>8. CronFlights'
  BY <1>0, <1>5, <1>6 DEF CronFlights, CronRuns
<1>9. ASSUME NEW i \in CronJobs, i # j
      PROVE  CronJobInv(i)'
  <2>1. CronFrame(i)
    BY <1>4, <1>5, <1>6, <1>7, <1>9 DEF CronFrame, CronRuns
  <2> QED
    BY <1>0, <2>1, CronFramed
<1>10. CronJobInv(j)'
  <2>1. CronAbsent \notin CronJob /\ r.kind = "cron" /\ "cron" \in AllCronKinds
    BY <1>1, CronAbsentAssumption DEF AllCronKinds
  <2>2. CronHas(j, "cron")
    BY <1>6 DEF CronHas
  <2>3. \A kind \in AllCronKinds : CronHas(j, kind)' => CronHas(j, kind)
    BY <1>1, <1>6, <1>7, <2>2 DEF CronHas, CronRuns
  <2>4. \A kind \in AllCronKinds : CronHas(j, kind) => kind = "cron"
    BY <1>0, <2>1, <2>2 DEF CronJobInv, CronOneKind
  <2>5. j \in CronKnown
    BY <1>0, <2>1, <2>2 DEF CronJobInv, CronNew0
  <2>6. CronHeld(j)'
    BY <1>0, <1>5, <1>7, <2>1 DEF CronJobInv, CronHeld
  <2>7. CronOneKind(j)'
    BY <2>3, <2>4 DEF CronOneKind
  <2>8. CronNew0(j)'
    BY <1>5, <2>5 DEF CronNew0, CronKnown
  <2>9. CronFresh(j)'
    BY <1>7, <2>1 DEF CronFresh, CronOneShot
  <2>10. CronLatest(j)'
    <3>1. \A w \in CronSlots : CronRuns(w, j) => cronExec[w].copy.kind = "cron"
      <4>1. ASSUME NEW w \in CronSlots, CronRuns(w, j)
            PROVE  cronExec[w].copy.kind = "cron"
        <5>1. cronExec[w].copy.kind \in AllCronKinds
          BY <1>0, <4>1, CronTypesSay DEF CronRuns, CronJob
        <5>2. CronHas(j, cronExec[w].copy.kind)
          BY <4>1 DEF CronHas
        <5> QED
          BY <2>4, <5>1, <5>2
      <4> QED
        BY <4>1
    <3> QED
      BY <1>6, <3>1 DEF CronLatest, CronOneShot, CronRuns
  <2> QED
    BY <2>6, <2>7, <2>8, <2>9, <2>10 DEF CronJobInv
<1> QED
  BY <1>0, <1>5, <1>6, <1>7, <1>8, <1>9, <1>10 DEF CronCore, CronTyped

(* A job is deleted.                                                        *)
LEMMA CronForgetsKept == ASSUME CronInv, NEW j \in CronJobs, CronForgets(j) PROVE CronCore'
<1>0. CronTyped /\ CronFlights /\ \A i \in CronJobs : CronJobInv(i)
  BY DEF CronInv
<1>1. PICK ok \in BOOLEAN : CronWrites(j, CronAbsent, ok)
  BY DEF CronForgets
<1>5. /\ cronGhost' \in CronHistory /\ cronGhost'.promised = cronGhost.promised
      /\ cronGhost'.deleted = cronGhost.deleted \cup {j}
      /\ cronGhost'.raced = cronGhost.raced /\ cronGhost'.sent = cronGhost.sent
      /\ cronGhost'.fired = cronGhost.fired /\ cronGhost'.rev = cronGhost.rev
  <2>1. cronGhost \in CronHistory /\ cronGhost' = [cronGhost EXCEPT !.deleted = @ \cup {j}]
    BY <1>0 DEF CronTyped, CronForgets
  <2> QED
    BY <2>1 DEF CronHistory
<1>6. cronExec' = cronExec /\ cronRunning' = cronRunning /\ cronHand' = cronHand
  BY DEF CronForgets, CronAside
<1>7. /\ cronMem' \in [CronJobs -> CronJob \cup {CronAbsent}] /\ cronDisk' \in [CronJobs -> CronJob \cup {CronAbsent}]
      /\ cronMem'[j] = CronAbsent /\ cronDisk'[j] \in {cronDisk[j], CronAbsent}
      /\ \A i \in CronJobs \ {j} : cronMem'[i] = cronMem[i] /\ cronDisk'[i] \in {cronDisk[i], cronMem[i]}
  BY <1>0, <1>1 DEF CronTyped, CronWrites
<1>8. CronFlights'
  BY <1>0, <1>5, <1>6 DEF CronFlights, CronRuns
<1>9. ASSUME NEW i \in CronJobs, i # j
      PROVE  CronJobInv(i)'
  <2>1. CronFrame(i)
    BY <1>5, <1>6, <1>7, <1>9 DEF CronFrame, CronRuns
  <2> QED
    BY <1>0, <2>1, CronFramed
<1>10. CronJobInv(j)'
  <2>1. \A kind \in AllCronKinds : CronHas(j, kind)' => CronHas(j, kind)
    BY <1>6, <1>7 DEF CronHas, CronRuns
  <2>2. CronOneKind(j)'
    BY <1>0, <2>1 DEF CronJobInv, CronOneKind
  <2>3. CronHeld(j)' /\ CronNew0(j)' /\ CronFresh(j)'
    BY <1>5, <1>7 DEF CronHeld, CronNew0, CronKnown, CronFresh, CronStored
  <2>4. CronLatest(j)'
    BY <1>0, <1>5, <1>6 DEF CronJobInv, CronLatest, CronRuns
  <2> QED
    BY <2>2, <2>3, <2>4 DEF CronJobInv
<1> QED
  BY <1>0, <1>5, <1>6, <1>7, <1>8, <1>9, <1>10 DEF CronCore, CronTyped

(* A reminder is updated: nobody runs it.                                   *)
LEMMA CronUpdatesKept == ASSUME CronInv, NEW j \in CronJobs, CronUpdates(j) PROVE CronCore'
<1>0. CronTyped /\ CronFlights /\ \A i \in CronJobs : CronJobInv(i)
  BY DEF CronInv
<1>1. PICK r \in CronJob :
        /\ r.kind = cronMem[j].kind /\ r.rev = cronMem[j].rev + 1
        /\ CronWrites(j, r, TRUE) /\ cronGhost' = [cronGhost EXCEPT !.rev[j] = r.rev]
  BY DEF CronUpdates
<1>3. PICK e : e = [cronGhost.rev EXCEPT ![j] = r.rev]
  OBVIOUS
<1>4. e \in [CronJobs -> 0..CronMaxRev] /\ e[j] = r.rev /\ \A i \in CronJobs \ {j} : e[i] = cronGhost.rev[i]
  <2>1. r.rev \in 0..CronMaxRev
    BY DEF CronJob
  <2> QED
    BY <1>0, <1>3, <2>1, CronTypesSay
<1>5. /\ cronGhost' \in CronHistory /\ cronGhost'.promised = cronGhost.promised /\ cronGhost'.deleted = cronGhost.deleted
      /\ cronGhost'.raced = cronGhost.raced /\ cronGhost'.sent = cronGhost.sent
      /\ cronGhost'.fired = cronGhost.fired /\ cronGhost'.rev = e
  <2>1. cronGhost \in CronHistory
    BY <1>0 DEF CronTyped
  <2>2. cronGhost' = [cronGhost EXCEPT !.rev = e]
    BY <1>1, <1>3, <2>1 DEF CronHistory
  <2> QED
    BY <1>4, <2>1, <2>2 DEF CronHistory
<1>6. /\ cronExec' = cronExec /\ cronRunning' = cronRunning /\ cronHand' = cronHand
      /\ cronMem[j] # CronAbsent /\ j \notin cronRunning
  BY DEF CronUpdates, CronAside, CronStored
<1>7. /\ cronMem' \in [CronJobs -> CronJob \cup {CronAbsent}] /\ cronDisk' \in [CronJobs -> CronJob \cup {CronAbsent}]
      /\ cronMem'[j] = r /\ cronDisk'[j] \in {cronDisk[j], r}
      /\ \A i \in CronJobs \ {j} : cronMem'[i] = cronMem[i] /\ cronDisk'[i] \in {cronDisk[i], cronMem[i]}
  BY <1>0, <1>1 DEF CronTyped, CronWrites
<1>8. CronFlights'
  BY <1>0, <1>5, <1>6 DEF CronFlights, CronRuns
<1>9. ASSUME NEW i \in CronJobs, i # j
      PROVE  CronJobInv(i)'
  <2>1. CronFrame(i)
    BY <1>4, <1>5, <1>6, <1>7, <1>9 DEF CronFrame, CronRuns
  <2> QED
    BY <1>0, <2>1, CronFramed
<1>10. CronJobInv(j)'
  <2>1. CronAbsent \notin CronJob /\ r.kind \in AllCronKinds /\ r.kind = cronMem[j].kind
    BY <1>1, CronAbsentAssumption DEF CronJob
  <2>2. CronHas(j, r.kind)
    BY <1>6, <2>1 DEF CronHas
  <2>3. \A kind \in AllCronKinds : CronHas(j, kind)' => CronHas(j, kind)
    BY <1>1, <1>6, <1>7, <2>2 DEF CronHas, CronRuns
  <2>5. j \in CronKnown
    BY <1>0, <2>1, <2>2 DEF CronJobInv, CronNew0
  <2>6. CronHeld(j)'
    BY <1>0, <1>5, <1>7, <2>1 DEF CronJobInv, CronHeld
  <2>7. CronOneKind(j)'
    BY <1>0, <2>3 DEF CronJobInv, CronOneKind
  <2>8. CronNew0(j)'
    BY <1>5, <2>5 DEF CronNew0, CronKnown
  <2>9. \A w \in CronSlots : ~CronRuns(w, j)
    BY <1>0, <1>6 DEF CronFlights, CronRuns
  <2>10. CronOneShot(r) => CronOneShot(cronMem[j])
    BY <2>1 DEF CronOneShot
  <2>11. CronFresh(j)'
    BY <1>0, <1>4, <1>5, <1>6, <1>7, <2>9, <2>10 DEF CronJobInv, CronFresh, CronRuns, CronStored
  <2>12. CronLatest(j)'
    BY <1>6, <2>9 DEF CronLatest, CronRuns
  <2> QED
    BY <2>6, <2>7, <2>8, <2>11, <2>12 DEF CronJobInv
<1> QED
  BY <1>0, <1>5, <1>6, <1>7, <1>8, <1>9, <1>10 DEF CronCore, CronTyped

(* A handler reads a job: what it holds is the copy that is stored.         *)
LEMMA CronReadKept == ASSUME CronInv, NEW j \in CronJobs, CronReadRun(j) PROVE CronCore'
<1>0. CronTyped /\ CronFlights /\ \A i \in CronJobs : CronJobInv(i)
  BY DEF CronInv
<1>1. /\ cronMem' = cronMem /\ cronDisk' = cronDisk /\ cronExec' = cronExec /\ cronRunning' = cronRunning /\ cronGhost' = cronGhost
      /\ cronHand' = [st |-> "run", id |-> j, copy |-> cronMem[j], at |-> 0] /\ cronMem[j] # CronAbsent
  BY DEF CronReadRun, CronStored
<1>2. cronMem[j] \in CronJob
  BY <1>0, <1>1, CronTypesSay
<1>3. cronHand' \in CronReading
  BY <1>1, <1>2 DEF CronReading
<1>4. cronHand'.id = j /\ cronHand'.copy = cronMem[j]
  BY <1>1
<1>5. CronFlights'
  BY <1>0, <1>1 DEF CronFlights, CronRuns
<1>6. ASSUME NEW i \in CronJobs
      PROVE  CronJobInv(i)'
  <2>1. \A kind \in AllCronKinds : CronHas(i, kind)' => CronHas(i, kind)
    BY <1>1, <1>4 DEF CronHas, CronRuns
  <2>2. CronOneKind(i)'
    BY <1>0, <2>1 DEF CronJobInv, CronOneKind
  <2>3. CronNew0(i)'
    BY <1>0, <1>1, <2>1 DEF CronJobInv, CronNew0, CronKnown
  <2>4. CronHeld(i)'
    BY <1>0, <1>1 DEF CronJobInv, CronHeld
  <2>5. CronFresh(i)' /\ CronLatest(i)'
    BY <1>0, <1>1 DEF CronJobInv, CronFresh, CronLatest, CronStored, CronRuns
  <2> QED
    BY <2>2, <2>3, <2>4, <2>5 DEF CronJobInv
<1> QED
  BY <1>0, <1>1, <1>3, <1>5, <1>6 DEF CronCore, CronTyped

(* A run is started, of a job as it is stored, or the job is only stored;   *)
(* j is raced for unless its last edit was what was stored before.          *)
CronBegins(j, r) ==
  \/ UNCHANGED <<cronExec, cronRunning>>
  \/ /\ j \notin cronRunning /\ cronRunning' = cronRunning \cup {j}
     /\ \E w \in CronSlots :
          /\ cronExec[w].st = "idle"
          /\ cronExec' = [cronExec EXCEPT ![w] = [st |-> "claimed", id |-> j, copy |-> r, at |-> cronClock]]

(* Starting or storing a job keeps what the runs rest on.                   *)
LEMMA CronBeginsKept ==
  ASSUME CronInv, NEW j \in CronJobs, NEW r \in CronJob, CronHas(j, r.kind), CronBegins(j, r),
         NEW ok \in BOOLEAN, CronWrites(j, r, ok),
         cronHand' \in {cronHand, CronIdle}, NEW raced \in {cronGhost.raced, cronGhost.raced \cup {j}},
         cronGhost' = [cronGhost EXCEPT !.raced = raced],
         j \notin raced => cronMem[j] # CronAbsent /\ cronMem[j].rev = r.rev
  PROVE  CronCore'
<1>0. CronTyped /\ CronFlights /\ \A i \in CronJobs : CronJobInv(i)
  BY DEF CronInv
<1>1. /\ cronGhost' \in CronHistory /\ cronGhost'.promised = cronGhost.promised /\ cronGhost'.deleted = cronGhost.deleted
      /\ cronGhost'.raced = raced /\ cronGhost'.sent = cronGhost.sent
      /\ cronGhost'.fired = cronGhost.fired /\ cronGhost'.rev = cronGhost.rev
  <2>1. cronGhost \in CronHistory
    BY <1>0 DEF CronTyped
  <2> QED
    BY <2>1 DEF CronHistory
<1>2. /\ cronMem' \in [CronJobs -> CronJob \cup {CronAbsent}] /\ cronDisk' \in [CronJobs -> CronJob \cup {CronAbsent}]
      /\ cronMem'[j] = r /\ cronDisk'[j] \in {cronDisk[j], r}
      /\ \A i \in CronJobs \ {j} : cronMem'[i] = cronMem[i] /\ cronDisk'[i] \in {cronDisk[i], cronMem[i]}
  BY <1>0 DEF CronTyped, CronWrites
<1>3. /\ cronExec' \in [CronSlots -> CronWorking \cup {CronIdle}] /\ cronRunning' \subseteq CronJobs
      /\ \A v \in CronSlots : \A i \in CronJobs \ {j} : CronRuns(v, i)' <=> CronRuns(v, i)
      /\ \A v \in CronSlots : CronRuns(v, j)' /\ ~CronRuns(v, j) =>
           j \notin cronRunning /\ cronExec'[v].st = "claimed" /\ cronExec'[v].copy = r
      /\ \A v \in CronSlots : cronExec[v].st # "idle" => cronExec'[v] = cronExec[v]
      /\ \A v, w \in CronSlots : cronExec'[v].st # "idle" /\ cronExec[v].st = "idle" /\ cronExec'[w].st # "idle" /\ cronExec[w].st = "idle"
           => v = w
      /\ \A v \in CronSlots : cronExec'[v].st # "idle" /\ cronExec[v].st = "idle" =>
           cronExec'[v].id = j /\ cronExec'[v].st = "claimed" /\ j \notin cronRunning /\ j \in cronRunning'
      /\ cronRunning \subseteq cronRunning'
  <2>1. CASE UNCHANGED <<cronExec, cronRunning>>
    BY <1>0, <2>1 DEF CronTyped, CronRuns
  <2>2. CASE j \notin cronRunning /\ cronRunning' = cronRunning \cup {j} /\
             \E w \in CronSlots :
               /\ cronExec[w].st = "idle"
               /\ cronExec' = [cronExec EXCEPT ![w] = [st |-> "claimed", id |-> j, copy |-> r, at |-> cronClock]]
    <3>1. PICK w \in CronSlots :
            /\ cronExec[w].st = "idle"
            /\ cronExec' = [cronExec EXCEPT ![w] = [st |-> "claimed", id |-> j, copy |-> r, at |-> cronClock]]
      BY <2>2
    <3>2. PICK new : new = [st |-> "claimed", id |-> j, copy |-> r, at |-> cronClock]
      OBVIOUS
    <3>3. new \in CronWorking /\ new.st = "claimed" /\ new.id = j /\ new.copy = r
      BY <1>0, <3>2 DEF CronTyped, CronWorking
    <3>4. cronExec' = [cronExec EXCEPT ![w] = new] /\ cronExec \in [CronSlots -> CronWorking \cup {CronIdle}]
      BY <1>0, <3>1, <3>2 DEF CronTyped
    <3>5. cronExec'[w] = new /\ \A v \in CronSlots \ {w} : cronExec'[v] = cronExec[v]
      BY <3>4
    <3>6. cronExec' \in [CronSlots -> CronWorking \cup {CronIdle}] /\ cronRunning' \subseteq CronJobs
      BY <1>0, <2>2, <3>3, <3>4 DEF CronTyped
    <3> QED
      BY <2>2, <3>1, <3>3, <3>5, <3>6 DEF CronRuns
  <2> QED
    BY <2>1, <2>2 DEF CronBegins
<1>4. CronFlights'
  <2> SUFFICES ASSUME NEW w \in CronSlots, cronExec'[w].st # "idle"
               PROVE  /\ cronExec'[w].id \in cronRunning'
                      /\ \A v \in CronSlots : cronExec'[v].st # "idle" /\ cronExec'[v].id = cronExec'[w].id => v = w
                      /\ cronExec'[w].st \in {"finish", "stopping"} => cronExec'[w].id \in cronGhost'.sent
    BY DEF CronFlights, CronRuns
  <2>1. CASE cronExec[w].st # "idle"
    <3>1. cronExec'[w] = cronExec[w] /\ cronExec[w].id \in cronRunning
      BY <1>0, <1>3, <2>1 DEF CronFlights
    <3>2. ASSUME NEW v \in CronSlots, cronExec'[v].st # "idle", cronExec'[v].id = cronExec[w].id
          PROVE  v = w
      <4>1. cronExec[v].st # "idle"
        BY <1>3, <3>1, <3>2
      <4>2. cronExec'[v] = cronExec[v]
        BY <1>3, <4>1
      <4> QED
        BY <1>0, <2>1, <3>2, <4>1, <4>2 DEF CronFlights, CronRuns
    <3>3. cronExec[w].st \in {"finish", "stopping"} => cronExec[w].id \in cronGhost.sent
      BY <1>0, <2>1 DEF CronFlights
    <3> QED
      BY <1>1, <1>3, <3>1, <3>2, <3>3
  <2>2. CASE cronExec[w].st = "idle"
    <3>1. cronExec'[w].id = j /\ cronExec'[w].st = "claimed" /\ j \notin cronRunning /\ j \in cronRunning'
      BY <1>3, <2>2
    <3>2. \A v \in CronSlots : ~CronRuns(v, j)
      BY <1>0, <3>1 DEF CronFlights, CronRuns
    <3>3. ASSUME NEW v \in CronSlots, cronExec'[v].st # "idle", cronExec'[v].id = j
          PROVE  v = w
      <4>1. cronExec'[v].st # "idle" /\ cronExec[v].st = "idle"
        BY <1>3, <3>2, <3>3 DEF CronRuns
      <4> QED
        BY <1>3, <2>2, <4>1
    <3> QED
      BY <3>1, <3>3
  <2> QED
    BY <2>1, <2>2
<1>5. ASSUME NEW i \in CronJobs, i # j
      PROVE  CronJobInv(i)'
  <2>1. cronHand'.st = "run" => cronHand' = cronHand
    BY DEF CronIdle
  <2>2. \A w \in CronSlots : CronRuns(w, i) => cronExec'[w] = cronExec[w]
    BY <1>3 DEF CronRuns
  <2>3. CronFrame(i)
    BY <1>1, <1>2, <1>3, <1>5, <2>1, <2>2 DEF CronFrame
  <2> QED
    BY <1>0, <2>3, CronFramed
<1>6. CronJobInv(j)'
  <2>1. CronAbsent \notin CronJob /\ r.kind \in AllCronKinds
    BY CronAbsentAssumption DEF CronJob
  <2>2. cronHand'.st = "run" => cronHand' = cronHand
    BY DEF CronIdle
  <2>3. \A w \in CronSlots : CronRuns(w, j)' => \/ CronRuns(w, j) /\ cronExec'[w] = cronExec[w]
                                                \/ j \notin cronRunning /\ cronExec'[w].st = "claimed" /\ cronExec'[w].copy = r
    BY <1>3 DEF CronRuns
  <2>4. \A kind \in AllCronKinds : CronHas(j, kind)' => CronHas(j, kind)
    BY <1>2, <2>2, <2>3 DEF CronHas
  <2>5. j \in CronKnown
    BY <1>0, <2>1 DEF CronJobInv, CronNew0
  <2>6. CronHeld(j)'
    BY <1>0, <1>1, <1>2, <2>1 DEF CronJobInv, CronHeld
  <2>7. CronOneKind(j)'
    BY <1>0, <2>4 DEF CronJobInv, CronOneKind
  <2>8. CronNew0(j)'
    BY <1>1, <2>5 DEF CronNew0, CronKnown
  <2>9. j \notin raced => cronMem[j] \in CronJob /\ cronMem[j].kind = r.kind /\ cronMem[j].rev = r.rev /\ j \notin cronGhost.raced
    <3>1. j \notin raced => cronMem[j] \in CronJob /\ CronHas(j, cronMem[j].kind)
      BY <1>0, CronTypesSay DEF CronHas
    <3> QED
      BY <1>0, <2>1, <3>1 DEF CronJobInv, CronOneKind, CronJob
  <2>10. CronOneShot(r) /\ j \notin raced =>
           /\ r.rev = cronGhost.rev[j]
           /\ \/ cronGhost.fired[j] = 0 /\ \A w \in CronSlots : CronRuns(w, j) => cronExec[w].st = "claimed"
              \/ cronGhost.fired[j] = 1 /\ \E w \in CronSlots : CronRuns(w, j) /\ cronExec[w].st \in {"starting", "asking", "finish"}
    BY <1>0, <2>1, <2>9 DEF CronJobInv, CronFresh, CronStored, CronOneShot
  <2>11. \A w \in CronSlots : CronRuns(w, j) => CronRuns(w, j)' /\ cronExec'[w] = cronExec[w]
    BY <1>3 DEF CronRuns
  <2>12. CronFresh(j)'
    BY <1>1, <1>2, <2>3, <2>10, <2>11 DEF CronFresh
  <2>13. CronLatest(j)'
    <3>1. \A w \in CronSlots : CronRuns(w, j) /\ CronOneShot(cronExec[w].copy) /\ j \notin raced =>
             cronExec[w].copy.rev = cronGhost.rev[j]
      BY <1>0, <2>9 DEF CronJobInv, CronLatest
    <3> QED
      BY <1>1, <2>3, <2>10, <3>1 DEF CronLatest
  <2> QED
    BY <2>6, <2>7, <2>8, <2>12, <2>13 DEF CronJobInv
<1>7. cronHand' \in CronReading \cup {CronIdle}
  BY <1>0 DEF CronTyped
<1> QED
  BY <1>1, <1>2, <1>3, <1>4, <1>5, <1>6, <1>7 DEF CronCore

(* The heartbeat starts a job that is due, and a handler one by its name.   *)
LEMMA CronStartIs ==
  ASSUME NEW j, NEW r, CronStart(j, r), CronNotRunning(j)
  PROVE  CronBegins(j, r)
<1>1. PICK w \in CronSlots : w = CHOOSE v \in CronSlots : cronExec[v].st = "idle"
  BY DEF CronStart
<1>2. cronExec[w].st = "idle"
  BY <1>1 DEF CronStart
<1> QED
  BY <1>1, <1>2 DEF CronStart, CronNotRunning, CronBegins

(* So does the heartbeat when it claims a job that is due.                  *)
LEMMA CronClaimKept == ASSUME CronInv, NEW j \in CronJobs, CronClaim(j) PROVE CronCore'
<1>1. CronTyped /\ cronMem[j] # CronAbsent /\ UNCHANGED <<cronMem, cronDisk, cronHand, cronGhost>>
  BY DEF CronInv, CronClaim, CronDue, CronEligible, CronStored
<1>2. PICK r : r = cronMem[j]
  OBVIOUS
<1>3. r \in CronJob /\ CronHas(j, r.kind)
  BY <1>1, <1>2, CronTypesSay DEF CronHas
<1>4. CronBegins(j, r)
  BY <1>2, CronStartIs DEF CronClaim
<1>5. CronWrites(j, r, FALSE)
  BY <1>1, <1>2 DEF CronWrites, CronTyped
<1>6. cronGhost' = [cronGhost EXCEPT !.raced = cronGhost.raced]
  BY <1>1 DEF CronTyped, CronHistory
<1> QED
  BY <1>1, <1>2, <1>3, <1>4, <1>5, <1>6, CronBeginsKept

(* So does a handler that runs a job by its name.                           *)
LEMMA CronRunKept == ASSUME CronInv, CronRun PROVE CronCore'
<1>1. CronTyped /\ cronHand.st = "run" /\ cronHand.id \in CronJobs /\ cronHand.copy \in CronJob /\ cronHand' = CronIdle
  BY CronTypesSay DEF CronInv, CronRun
<1>2. PICK j, r : j = cronHand.id /\ r = [cronHand.copy EXCEPT !.once = TRUE]
  OBVIOUS
<1>3. j \in CronJobs /\ r \in CronJob /\ r.kind = cronHand.copy.kind /\ r.rev = cronHand.copy.rev
  BY <1>1, <1>2, CronRecords
<1>4. CronHas(j, r.kind)
  BY <1>1, <1>2, <1>3 DEF CronHas
<1>5. PICK ok \in BOOLEAN : CronPut(j, r, ok)
  BY <1>2 DEF CronRun
<1>6. CronWrites(j, r, ok)
  BY <1>5 DEF CronPut, CronSave, CronWrites
<1>7. CronBegins(j, r)
  <2>1. cronMem'[j] = r
    BY <1>1, <1>3, <1>6 DEF CronWrites, CronTyped
  <2>2. UNCHANGED <<cronExec, cronRunning>> \/ (CronNotRunning(j) /\ CronStart(j, r))
    BY <1>2, <2>1 DEF CronRun, CronRunNow
  <2> QED
    BY <2>2, CronStartIs DEF CronBegins
<1>8. PICK raced : raced = cronGhost.raced \cup CronRaces(j, cronHand.copy)
  OBVIOUS
<1>9. /\ raced \in {cronGhost.raced, cronGhost.raced \cup {j}} /\ cronGhost' = [cronGhost EXCEPT !.raced = raced]
      /\ j \notin raced => cronMem[j] = cronHand.copy
  <2>1. CronRaces(j, cronHand.copy) = IF cronMem[j] # cronHand.copy THEN {j} ELSE {}
    BY DEF CronRaces
  <2>2. cronGhost' = [cronGhost EXCEPT !.raced = raced]
    BY <1>2, <1>8 DEF CronRun
  <2> QED
    BY <1>8, <2>1, <2>2
<1>10. j \notin raced => cronMem[j] # CronAbsent /\ cronMem[j].rev = r.rev
  BY <1>1, <1>3, <1>9, CronAbsentAssumption
<1> QED
  BY <1>1, <1>3, <1>4, <1>6, <1>7, <1>9, <1>10, CronBeginsKept

(* An execution goes on: only its state and its copy change.                *)
LEMMA CronGoesIs ==
  ASSUME CronInv, NEW w \in CronSlots, cronExec[w].st # "idle", NEW st \in {"starting", "asking", "finish", "stopping"},
         NEW copy \in CronJob, CronGoes(w, st, copy), cronRunning' = cronRunning,
         cronGhost.sent \subseteq cronGhost'.sent, st \in {"finish", "stopping"} => cronExec[w].id \in cronGhost'.sent
  PROVE  /\ cronExec' \in [CronSlots -> CronWorking \cup {CronIdle}]
         /\ cronExec'[w].st = st /\ cronExec'[w].copy = copy
         /\ \A v \in CronSlots \ {w} : cronExec'[v] = cronExec[v]
         /\ \A v \in CronSlots, i \in CronJobs : CronRuns(v, i)' <=> CronRuns(v, i)
         /\ \A v \in CronSlots : CronRuns(v, cronExec[w].id) => v = w
         /\ CronFlights'
<1>0. CronTyped /\ CronFlights
  BY DEF CronInv
<1>1. PICK new : new = [cronExec[w] EXCEPT !.st = st, !.copy = copy]
  OBVIOUS
<1>2. cronExec[w] \in CronWorking /\ cronExec \in [CronSlots -> CronWorking \cup {CronIdle}]
  BY <1>0 DEF CronTyped, CronIdle
<1>3. new \in CronWorking /\ new.st = st /\ new.copy = copy /\ new.id = cronExec[w].id
  BY <1>1, <1>2 DEF CronWorking
<1>4. cronExec' = [cronExec EXCEPT ![w] = new]
  BY <1>1, <1>2 DEF CronGoes
<1>5. cronExec'[w] = new /\ \A v \in CronSlots \ {w} : cronExec'[v] = cronExec[v]
  BY <1>2, <1>4
<1>6. cronExec' \in [CronSlots -> CronWorking \cup {CronIdle}]
  BY <1>2, <1>3, <1>4
<1>7. \A v \in CronSlots : (cronExec'[v].st # "idle" <=> cronExec[v].st # "idle") /\ cronExec'[v].id = cronExec[v].id
  BY <1>3, <1>5
<1>8. \A v \in CronSlots : CronRuns(v, cronExec[w].id) => v = w
  BY <1>0 DEF CronFlights
<1>9. CronFlights'
  <2> SUFFICES ASSUME NEW u \in CronSlots, cronExec'[u].st # "idle"
               PROVE  /\ cronExec'[u].id \in cronRunning'
                      /\ \A v \in CronSlots : cronExec'[v].st # "idle" /\ cronExec'[v].id = cronExec'[u].id => v = u
                      /\ cronExec'[u].st \in {"finish", "stopping"} => cronExec'[u].id \in cronGhost'.sent
    BY DEF CronFlights, CronRuns
  <2>1. /\ cronExec[u].id \in cronRunning
        /\ \A v \in CronSlots : cronExec[v].st # "idle" /\ cronExec[v].id = cronExec[u].id => v = u
        /\ cronExec[u].st \in {"finish", "stopping"} => cronExec[u].id \in cronGhost.sent
    BY <1>0, <1>7 DEF CronFlights, CronRuns
  <2>2. cronExec'[u].st \in {"finish", "stopping"} => cronExec'[u].id \in cronGhost'.sent
    BY <1>3, <1>5, <1>7, <2>1
  <2> QED
    BY <1>7, <2>1, <2>2
<1> QED
  BY <1>3, <1>5, <1>6, <1>7, <1>8, <1>9 DEF CronRuns

(* An agent is started, or a reminder is sent, or the job is refused.       *)
LEMMA CronBeginKept == ASSUME CronInv, NEW w \in CronSlots, CronBegin(w) PROVE CronCore'
<1>0. CronTyped /\ CronFlights /\ \A i \in CronJobs : CronJobInv(i)
  BY DEF CronInv
<1>1. PICK j, old : j = cronExec[w].id /\ old = cronExec[w].copy
  OBVIOUS
<1>2. cronExec[w].st = "claimed" /\ j \in CronJobs /\ old \in CronJob /\ CronRuns(w, j)
  BY <1>0, <1>1, CronTypesSay DEF CronBegin, CronRuns
<1>3. PICK st \in {"starting", "finish"}, copy \in {old, [old EXCEPT !.once = FALSE]} : CronGoes(w, st, copy)
  BY <1>1 DEF CronBegin
<1>4. copy \in CronJob /\ copy.kind = old.kind /\ copy.rev = old.rev
  BY <1>2, <1>3, CronRecords
<1>5. PICK f, s : f = [cronGhost.fired EXCEPT ![j] = IF @ < 2 THEN @ + 1 ELSE @]
                  /\ s = cronGhost.sent \cup {i \in {j} : cronExec'[w].st = "finish"}
  OBVIOUS
<1>6. f \in [CronJobs -> 0..2] /\ f[j] = (IF cronGhost.fired[j] < 2 THEN cronGhost.fired[j] + 1 ELSE cronGhost.fired[j])
      /\ \A i \in CronJobs \ {j} : f[i] = cronGhost.fired[i]
  BY <1>0, <1>2, <1>5, CronTypesSay
<1>7. s \in SUBSET CronJobs /\ cronGhost.sent \subseteq s /\ (cronExec'[w].st = "finish" => j \in s)
  BY <1>0, <1>2, <1>5, CronTypesSay
<1>8. /\ cronGhost' \in CronHistory /\ cronGhost'.promised = cronGhost.promised /\ cronGhost'.deleted = cronGhost.deleted
      /\ cronGhost'.raced = cronGhost.raced /\ cronGhost'.sent = s
      /\ cronGhost'.fired = f /\ cronGhost'.rev = cronGhost.rev
  <2>1. cronGhost \in CronHistory
    BY <1>0 DEF CronTyped
  <2>2. cronGhost' = [cronGhost EXCEPT !.fired = f, !.sent = s]
    BY <1>1, <1>5, <2>1 DEF CronBegin, CronFired, CronHistory
  <2> QED
    BY <1>6, <1>7, <2>1, <2>2 DEF CronHistory
<1>9. cronExec'[w].st = st
  BY <1>0, <1>2, <1>3 DEF CronGoes, CronTyped, CronIdle, CronWorking
<1>10. cronMem' = cronMem /\ cronDisk' = cronDisk /\ cronRunning' = cronRunning /\ cronHand' = cronHand
  BY DEF CronBegin
<1>11. /\ cronExec' \in [CronSlots -> CronWorking \cup {CronIdle}] /\ cronExec'[w].copy = copy
       /\ \A v \in CronSlots \ {w} : cronExec'[v] = cronExec[v]
       /\ \A v \in CronSlots, i \in CronJobs : CronRuns(v, i)' <=> CronRuns(v, i)
       /\ \A v \in CronSlots : CronRuns(v, j) => v = w
       /\ CronFlights'
  BY <1>1, <1>2, <1>3, <1>4, <1>7, <1>8, <1>9, <1>10, CronGoesIs
<1>12. ASSUME NEW i \in CronJobs, i # j
       PROVE  CronJobInv(i)'
  <2>1. \A v \in CronSlots : CronRuns(v, i) => cronExec'[v] = cronExec[v]
    BY <1>2, <1>11, <1>12 DEF CronRuns
  <2>2. CronFrame(i)
    BY <1>6, <1>7, <1>8, <1>10, <1>11, <1>12, <2>1 DEF CronFrame
  <2> QED
    BY <1>0, <2>2, CronFramed
<1>13. CronJobInv(j)'
  <2>1. CronJobInv(j)
    BY <1>0, <1>2
  <2>2. old.kind \in AllCronKinds /\ CronHas(j, old.kind)
    BY <1>1, <1>2 DEF CronJob, CronHas
  <2>3. \A kind \in AllCronKinds : CronHas(j, kind)' => CronHas(j, kind)
    BY <1>2, <1>4, <1>10, <1>11, <2>2 DEF CronHas
  <2>4. CronHeld(j)'
    BY <1>7, <1>8, <1>10, <2>1 DEF CronJobInv, CronHeld
  <2>5. CronOneKind(j)'
    BY <2>1, <2>3 DEF CronJobInv, CronOneKind
  <2>6. CronNew0(j)'
    BY <1>8, <2>1, <2>2 DEF CronJobInv, CronNew0, CronKnown
  <2>7. CronFresh(j)'
    <3>1. CronStored(j) /\ CronOneShot(cronMem[j]) /\ j \notin cronGhost.raced =>
            cronMem[j].rev = cronGhost.rev[j] /\ cronGhost.fired[j] = 0
      BY <1>2, <1>11, <2>1 DEF CronJobInv, CronFresh
    <3>2. cronGhost.fired[j] = 0 => f[j] = 1
      BY <1>6
    <3>3. CronRuns(w, j)' /\ cronExec'[w].st \in {"starting", "asking", "finish"}
      BY <1>2, <1>9, <1>11
    <3> QED
      BY <1>8, <1>10, <3>1, <3>2, <3>3 DEF CronFresh, CronStored
  <2>8. CronLatest(j)'
    <3>1. CronOneShot(old) /\ j \notin cronGhost.raced => old.rev = cronGhost.rev[j]
      BY <1>1, <1>2, <2>1 DEF CronJobInv, CronLatest
    <3>2. \A v \in CronSlots : CronRuns(v, j)' => cronExec'[v].copy = copy
      BY <1>2, <1>11
    <3>3. CronOneShot(copy) <=> CronOneShot(old)
      BY <1>4 DEF CronOneShot
    <3>4. \A v \in CronSlots : CronRuns(v, j)' /\ CronOneShot(cronExec'[v].copy) /\ j \notin cronGhost'.raced =>
            cronExec'[v].copy.rev = cronGhost'.rev[j]
      BY <1>4, <1>8, <3>1, <3>2, <3>3
    <3> QED
      BY <3>4 DEF CronLatest, CronOneShot
  <2> QED
    BY <2>4, <2>5, <2>6, <2>7, <2>8 DEF CronJobInv
<1> QED
  BY <1>0, <1>8, <1>10, <1>11, <1>12, <1>13 DEF CronCore, CronTyped

(* The agent is there and is asked, or its start failed and was reported.   *)
LEMMA CronAgentStartsKept == ASSUME CronInv, NEW w \in CronSlots, CronAgentStarts(w) PROVE CronCore'
<1>0. CronTyped /\ CronFlights /\ \A i \in CronJobs : CronJobInv(i)
  BY DEF CronInv
<1>1. PICK j, old : j = cronExec[w].id /\ old = cronExec[w].copy
  OBVIOUS
<1>2. cronExec[w].st = "starting" /\ j \in CronJobs /\ old \in CronJob /\ CronRuns(w, j)
  BY <1>0, <1>1, CronTypesSay DEF CronAgentStarts, CronRuns
<1>3. PICK st \in {"asking", "finish"}, s \in {cronGhost.sent, cronGhost.sent \cup {j}} :
        /\ CronGoes(w, st, old) /\ (st = "finish" => j \in s)
        /\ cronGhost' = [cronGhost EXCEPT !.sent = s]
  <2>1. cronGhost = [cronGhost EXCEPT !.sent = cronGhost.sent]
    BY <1>0 DEF CronTyped, CronHistory
  <2> QED
    BY <1>1, <2>1 DEF CronAgentStarts
<1>4. s \in SUBSET CronJobs /\ cronGhost.sent \subseteq s
  BY <1>0, <1>2, <1>3, CronTypesSay
<1>8. /\ cronGhost' \in CronHistory /\ cronGhost'.promised = cronGhost.promised /\ cronGhost'.deleted = cronGhost.deleted
      /\ cronGhost'.raced = cronGhost.raced /\ cronGhost'.sent = s
      /\ cronGhost'.fired = cronGhost.fired /\ cronGhost'.rev = cronGhost.rev
  <2>1. cronGhost \in CronHistory
    BY <1>0 DEF CronTyped
  <2> QED
    BY <1>3, <1>4, <2>1 DEF CronHistory
<1>10. cronMem' = cronMem /\ cronDisk' = cronDisk /\ cronRunning' = cronRunning /\ cronHand' = cronHand
  BY DEF CronAgentStarts
<1>11. /\ cronExec' \in [CronSlots -> CronWorking \cup {CronIdle}]
       /\ cronExec'[w].st = st /\ cronExec'[w].copy = old
       /\ \A v \in CronSlots \ {w} : cronExec'[v] = cronExec[v]
       /\ \A v \in CronSlots, i \in CronJobs : CronRuns(v, i)' <=> CronRuns(v, i)
       /\ \A v \in CronSlots : CronRuns(v, j) => v = w
       /\ CronFlights'
  BY <1>1, <1>2, <1>3, <1>4, <1>8, <1>10, CronGoesIs
<1>12. ASSUME NEW i \in CronJobs, i # j
       PROVE  CronJobInv(i)'
  <2>1. \A v \in CronSlots : CronRuns(v, i) => cronExec'[v] = cronExec[v]
    BY <1>2, <1>11, <1>12 DEF CronRuns
  <2>2. CronFrame(i)
    BY <1>3, <1>4, <1>8, <1>10, <1>11, <1>12, <2>1 DEF CronFrame
  <2> QED
    BY <1>0, <2>2, CronFramed
<1>13. CronJobInv(j)'
  <2>1. CronJobInv(j)
    BY <1>0, <1>2
  <2>2. \A v \in CronSlots : CronRuns(v, j) => cronExec'[v].copy = cronExec[v].copy
    BY <1>1, <1>11
  <2>3. \A kind \in AllCronKinds : CronHas(j, kind)' => CronHas(j, kind)
    BY <1>2, <1>10, <1>11, <2>2 DEF CronHas
  <2>4. CronHeld(j)'
    BY <1>4, <1>8, <1>10, <2>1 DEF CronJobInv, CronHeld
  <2>5. CronOneKind(j)'
    BY <2>1, <2>3 DEF CronJobInv, CronOneKind
  <2>6. CronNew0(j)'
    BY <1>8, <2>1, <2>3 DEF CronJobInv, CronNew0, CronKnown
  <2>7. CronFresh(j)'
    <3>1. CronStored(j) /\ CronOneShot(cronMem[j]) /\ j \notin cronGhost.raced =>
            cronMem[j].rev = cronGhost.rev[j] /\ cronGhost.fired[j] = 1
      BY <1>2, <2>1 DEF CronJobInv, CronFresh
    <3>2. CronRuns(w, j)' /\ cronExec'[w].st \in {"starting", "asking", "finish"}
      BY <1>2, <1>11
    <3> QED
      BY <1>8, <1>10, <3>1, <3>2 DEF CronFresh, CronStored
  <2>8. CronLatest(j)'
    BY <1>2, <1>8, <1>11, <2>1, <2>2 DEF CronJobInv, CronLatest
  <2> QED
    BY <2>4, <2>5, <2>6, <2>7, <2>8 DEF CronJobInv
<1> QED
  BY <1>0, <1>8, <1>10, <1>11, <1>12, <1>13 DEF CronCore, CronTyped

(* The execution writes a copy back or not, and what it did is sent.        *)
LEMMA CronAskedKept == ASSUME CronInv, NEW w \in CronSlots, CronAsked(w) PROVE CronCore'
<1>0. CronTyped /\ CronFlights /\ \A i \in CronJobs : CronJobInv(i)
  BY DEF CronInv
<1>1. PICK j, old : j = cronExec[w].id /\ old = cronExec[w].copy
  OBVIOUS
<1>2. cronExec[w].st = "asking" /\ j \in CronJobs /\ old \in CronJob /\ CronRuns(w, j)
  BY <1>0, <1>1, CronTypesSay DEF CronAsked, CronRuns
<1>3. PICK r : r = [old EXCEPT !.once = FALSE]
  OBVIOUS
<1>4. r \in CronJob /\ r.kind = old.kind /\ r.rev = old.rev
  BY <1>2, <1>3, CronRecords
<1>5. CronGoes(w, "finish", r) /\ cronRunning' = cronRunning /\ cronHand' = cronHand
  BY <1>1, <1>3 DEF CronAsked
<1>6. \/ cronMem' = cronMem /\ cronDisk' = cronDisk /\ cronGhost' = [cronGhost EXCEPT !.sent = @ \cup {j}]
      \/ \E ok \in BOOLEAN : CronWrites(j, r, ok) /\
           cronGhost' = [cronGhost EXCEPT !.sent = @ \cup {j}, !.raced = @ \cup CronRaces(j, old)]
  BY <1>1, <1>3 DEF CronAsked, CronPut, CronSave, CronWrites
<1>7. PICK raced : /\ cronGhost' = [cronGhost EXCEPT !.sent = cronGhost.sent \cup {j}, !.raced = raced]
                   /\ raced \in {cronGhost.raced, cronGhost.raced \cup {j}}
                   /\ \/ cronMem' = cronMem /\ cronDisk' = cronDisk /\ raced = cronGhost.raced
                      \/ /\ \E ok \in BOOLEAN : CronWrites(j, r, ok)
                         /\ j \notin raced => cronMem[j] = old
  <2>1. CASE cronMem' = cronMem /\ cronDisk' = cronDisk /\ cronGhost' = [cronGhost EXCEPT !.sent = @ \cup {j}]
    <3>1. cronGhost' = [cronGhost EXCEPT !.sent = cronGhost.sent \cup {j}, !.raced = cronGhost.raced]
      BY <1>0, <2>1 DEF CronTyped, CronHistory
    <3> QED
      BY <2>1, <3>1
  <2>2. CASE \E ok \in BOOLEAN : CronWrites(j, r, ok) /\
               cronGhost' = [cronGhost EXCEPT !.sent = @ \cup {j}, !.raced = @ \cup CronRaces(j, old)]
    <3>1. CronRaces(j, old) = IF cronMem[j] # old THEN {j} ELSE {}
      BY DEF CronRaces
    <3>2. PICK new : new = cronGhost.raced \cup CronRaces(j, old)
      OBVIOUS
    <3>3. cronGhost' = [cronGhost EXCEPT !.sent = cronGhost.sent \cup {j}, !.raced = new]
      BY <2>2, <3>2
    <3>4. new \in {cronGhost.raced, cronGhost.raced \cup {j}} /\ (j \notin new => cronMem[j] = old)
      BY <3>1, <3>2
    <3> QED
      BY <2>2, <3>3, <3>4
  <2> QED
    BY <1>6, <2>1, <2>2
<1>8. /\ cronGhost' \in CronHistory /\ cronGhost'.promised = cronGhost.promised /\ cronGhost'.deleted = cronGhost.deleted
      /\ cronGhost'.raced = raced /\ cronGhost'.sent = cronGhost.sent \cup {j}
      /\ cronGhost'.fired = cronGhost.fired /\ cronGhost'.rev = cronGhost.rev
  <2>1. cronGhost \in CronHistory
    BY <1>0 DEF CronTyped
  <2> QED
    BY <1>2, <1>7, <2>1 DEF CronHistory
<1>9. /\ cronExec' \in [CronSlots -> CronWorking \cup {CronIdle}] /\ cronExec'[w].st = "finish" /\ cronExec'[w].copy = r
      /\ \A v \in CronSlots \ {w} : cronExec'[v] = cronExec[v]
      /\ \A v \in CronSlots, i \in CronJobs : CronRuns(v, i)' <=> CronRuns(v, i)
      /\ \A v \in CronSlots : CronRuns(v, j) => v = w
      /\ CronFlights'
  BY <1>1, <1>2, <1>4, <1>5, <1>8, CronGoesIs
<1>10. /\ cronMem' \in [CronJobs -> CronJob \cup {CronAbsent}] /\ cronDisk' \in [CronJobs -> CronJob \cup {CronAbsent}]
       /\ cronMem'[j] \in {cronMem[j], r} /\ cronDisk'[j] \in {cronDisk[j], r}
       /\ \A i \in CronJobs \ {j} : cronMem'[i] = cronMem[i] /\ cronDisk'[i] \in {cronDisk[i], cronMem[i]}
  <2>1. CASE cronMem' = cronMem /\ cronDisk' = cronDisk
    BY <1>0, <1>2, <2>1 DEF CronTyped
  <2>2. CASE \E ok \in BOOLEAN : CronWrites(j, r, ok)
    <3>1. PICK ok \in BOOLEAN : CronWrites(j, r, ok)
      BY <2>2
    <3> QED
      BY <1>0, <1>2, <1>4, <3>1, CronStoresSay
  <2> QED
    BY <1>7, <2>1, <2>2
<1>11. ASSUME NEW i \in CronJobs, i # j
       PROVE  CronJobInv(i)'
  <2>1. \A v \in CronSlots : CronRuns(v, i) => cronExec'[v] = cronExec[v]
    BY <1>2, <1>9, <1>11 DEF CronRuns
  <2>2. CronFrame(i)
    BY <1>5, <1>7, <1>8, <1>9, <1>10, <1>11, <2>1 DEF CronFrame
  <2> QED
    BY <1>0, <2>2, CronFramed
<1>12. CronJobInv(j)'
  <2>1. CronJobInv(j)
    BY <1>0, <1>2
  <2>2. old.kind \in AllCronKinds /\ CronHas(j, old.kind)
    BY <1>1, <1>2 DEF CronJob, CronHas
  <2>3. \A kind \in AllCronKinds : CronHas(j, kind)' => CronHas(j, kind)
    BY <1>2, <1>4, <1>5, <1>9, <1>10, <2>2 DEF CronHas
  <2>4. CronHeld(j)'
    BY <1>8 DEF CronHeld
  <2>5. CronOneKind(j)'
    BY <2>1, <2>3 DEF CronJobInv, CronOneKind
  <2>6. CronNew0(j)'
    BY <1>8, <2>1, <2>2 DEF CronJobInv, CronNew0, CronKnown
  <2>7. CronFresh(j)'
    <3>1. ASSUME CronStored(j), CronOneShot(cronMem[j]), j \notin raced
          PROVE  cronMem[j].rev = cronGhost.rev[j] /\ cronGhost.fired[j] = 1
      BY <1>2, <1>7, <1>9, <2>1, <3>1 DEF CronJobInv, CronFresh
    <3>2. ASSUME cronMem'[j] # CronAbsent, CronOneShot(cronMem'[j]), j \notin raced
          PROVE  CronStored(j) /\ CronOneShot(cronMem[j]) /\ cronMem'[j].rev = cronMem[j].rev
      <4>1. CASE cronMem' = cronMem
        BY <3>2, <4>1 DEF CronStored
      <4>2. CASE \E ok \in BOOLEAN : CronWrites(j, r, ok) /\ cronMem[j] = old
        <5>1. cronMem'[j] = r /\ cronMem[j] = old
          BY <1>0, <1>2, <4>2 DEF CronWrites, CronTyped
        <5> QED
          BY <1>2, <1>4, <3>2, <5>1, CronAbsentAssumption DEF CronStored, CronOneShot
      <4> QED
        BY <1>7, <3>2, <4>1, <4>2
    <3>3. CronRuns(w, j)' /\ cronExec'[w].st \in {"starting", "asking", "finish"}
      BY <1>2, <1>9
    <3> QED
      BY <1>8, <3>1, <3>2, <3>3 DEF CronFresh, CronStored, CronOneShot
  <2>8. CronLatest(j)'
    <3>1. CronOneShot(old) /\ j \notin raced => old.rev = cronGhost.rev[j]
      BY <1>1, <1>2, <1>7, <2>1 DEF CronJobInv, CronLatest
    <3>2. \A v \in CronSlots : CronRuns(v, j)' => cronExec'[v].copy = r
      BY <1>2, <1>9
    <3>3. CronOneShot(r) <=> CronOneShot(old)
      BY <1>4 DEF CronOneShot
    <3>4. \A v \in CronSlots : CronRuns(v, j)' /\ CronOneShot(cronExec'[v].copy) /\ j \notin cronGhost'.raced =>
            cronExec'[v].copy.rev = cronGhost'.rev[j]
      BY <1>4, <1>8, <3>1, <3>2, <3>3
    <3> QED
      BY <3>4 DEF CronLatest, CronOneShot
  <2> QED
    BY <2>4, <2>5, <2>6, <2>7, <2>8 DEF CronJobInv
<1> QED
  BY <1>0, <1>5, <1>8, <1>9, <1>10, <1>11, <1>12 DEF CronCore, CronTyped

(* A one-time job leaves the store, a recurring one gets its next run.      *)
LEMMA CronFinishKept == ASSUME CronInv, NEW w \in CronSlots, CronFinishJob(w) PROVE CronCore'
<1>0. CronTyped /\ CronFlights /\ \A i \in CronJobs : CronJobInv(i)
  BY DEF CronInv
<1>1. PICK j, old : j = cronExec[w].id /\ old = cronExec[w].copy
  OBVIOUS
<1>2. cronExec[w].st = "finish" /\ j \in CronJobs /\ old \in CronJob /\ CronRuns(w, j) /\ cronExec[w].at \in 1..CronMaxTime
  BY <1>0, <1>1, CronTypesSay DEF CronFinishJob, CronRuns
<1>3. PICK r : r = IF CronOneShot(old) THEN CronAbsent ELSE [old EXCEPT !.next = CronNextTick(cronExec[w].at)]
  OBVIOUS
<1>4. IF CronOneShot(old) THEN r = CronAbsent ELSE r \in CronJob /\ r.kind = "cron" /\ old.kind = "cron"
  <2>1. CronNextTick(cronExec[w].at) \in 0..CronMaxTime + 1
    BY <1>2, CronBoundsAssumption DEF CronNextTick
  <2>2. [old EXCEPT !.next = CronNextTick(cronExec[w].at)] \in CronJob
        /\ [old EXCEPT !.next = CronNextTick(cronExec[w].at)].kind = old.kind
    BY <1>2, <2>1, CronRecords
  <2> QED
    BY <1>3, <2>2 DEF CronOneShot
<1>5. CronGoes(w, "stopping", old) /\ cronRunning' = cronRunning /\ cronHand' = cronHand
  BY <1>1 DEF CronFinishJob
<1>6. PICK ok \in BOOLEAN : CronWrites(j, r, ok)
  BY <1>1, <1>3 DEF CronFinishJob, CronDrop, CronPut, CronSave, CronWrites
<1>7. PICK raced : cronGhost' = [cronGhost EXCEPT !.raced = raced] /\ raced \in {cronGhost.raced, cronGhost.raced \cup {j}}
  <2>1. CASE cronGhost' = cronGhost
    <3>1. cronGhost' = [cronGhost EXCEPT !.raced = cronGhost.raced]
      BY <1>0, <2>1 DEF CronTyped, CronHistory
    <3> QED
      BY <3>1
  <2>2. CASE cronGhost' = [cronGhost EXCEPT !.raced = @ \cup CronRaces(j, old)]
    <3>1. CronRaces(j, old) = IF cronMem[j] # old THEN {j} ELSE {}
      BY DEF CronRaces
    <3> QED
      BY <2>2, <3>1
  <2> QED
    BY <1>1, <2>1, <2>2 DEF CronFinishJob
<1>8. /\ cronGhost' \in CronHistory /\ cronGhost'.promised = cronGhost.promised /\ cronGhost'.deleted = cronGhost.deleted
      /\ cronGhost'.raced = raced /\ cronGhost'.sent = cronGhost.sent
      /\ cronGhost'.fired = cronGhost.fired /\ cronGhost'.rev = cronGhost.rev
  <2>1. cronGhost \in CronHistory
    BY <1>0 DEF CronTyped
  <2> QED
    BY <1>2, <1>7, <2>1 DEF CronHistory
<1>9. j \in cronGhost.sent
  BY <1>0, <1>1, <1>2 DEF CronFlights
<1>10. /\ cronExec' \in [CronSlots -> CronWorking \cup {CronIdle}] /\ cronExec'[w].st = "stopping" /\ cronExec'[w].copy = old
       /\ \A v \in CronSlots \ {w} : cronExec'[v] = cronExec[v]
       /\ \A v \in CronSlots, i \in CronJobs : CronRuns(v, i)' <=> CronRuns(v, i)
       /\ \A v \in CronSlots : CronRuns(v, j) => v = w
       /\ CronFlights'
  BY <1>1, <1>2, <1>5, <1>8, <1>9, CronGoesIs
<1>11. /\ cronMem' \in [CronJobs -> CronJob \cup {CronAbsent}] /\ cronDisk' \in [CronJobs -> CronJob \cup {CronAbsent}]
       /\ cronMem'[j] = r /\ cronDisk'[j] \in {cronDisk[j], r}
       /\ \A i \in CronJobs \ {j} : cronMem'[i] = cronMem[i] /\ cronDisk'[i] \in {cronDisk[i], cronMem[i]}
  <2>1. r \in CronJob \cup {CronAbsent}
    BY <1>4
  <2> QED
    BY <1>0, <1>2, <1>6, <2>1, CronStoresSay
<1>12. ASSUME NEW i \in CronJobs, i # j
       PROVE  CronJobInv(i)'
  <2>1. \A v \in CronSlots : CronRuns(v, i) => cronExec'[v] = cronExec[v]
    BY <1>2, <1>10, <1>12 DEF CronRuns
  <2>2. CronFrame(i)
    BY <1>5, <1>7, <1>8, <1>10, <1>11, <1>12, <2>1 DEF CronFrame
  <2> QED
    BY <1>0, <2>2, CronFramed
<1>13. CronJobInv(j)'
  <2>1. CronJobInv(j)
    BY <1>0, <1>2
  <2>2. old.kind \in AllCronKinds /\ CronHas(j, old.kind)
    BY <1>1, <1>2 DEF CronJob, CronHas
  <2>3. \A kind \in AllCronKinds : CronHas(j, kind)' => CronHas(j, kind)
    BY <1>1, <1>2, <1>4, <1>5, <1>10, <1>11, <2>2 DEF CronHas
  <2>4. CronHeld(j)'
    BY <1>8, <1>9 DEF CronHeld
  <2>5. CronOneKind(j)'
    BY <2>1, <2>3 DEF CronJobInv, CronOneKind
  <2>6. CronNew0(j)'
    BY <1>8, <2>1, <2>2 DEF CronJobInv, CronNew0, CronKnown
  <2>7. CronFresh(j)'
    BY <1>4, <1>11 DEF CronFresh, CronStored, CronOneShot
  <2>8. CronLatest(j)'
    <3>1. CronOneShot(old) /\ j \notin raced => old.rev = cronGhost.rev[j]
      BY <1>1, <1>2, <1>7, <2>1 DEF CronJobInv, CronLatest
    <3>2. \A v \in CronSlots : CronRuns(v, j)' => cronExec'[v].copy = old
      BY <1>2, <1>10
    <3>4. \A v \in CronSlots : CronRuns(v, j)' /\ CronOneShot(cronExec'[v].copy) /\ j \notin cronGhost'.raced =>
            cronExec'[v].copy.rev = cronGhost'.rev[j]
      BY <1>8, <3>1, <3>2
    <3> QED
      BY <3>4 DEF CronLatest, CronOneShot
  <2> QED
    BY <2>4, <2>5, <2>6, <2>7, <2>8 DEF CronJobInv
<1> QED
  BY <1>0, <1>5, <1>8, <1>10, <1>11, <1>12, <1>13 DEF CronCore, CronTyped

(* The goroutine ends: the job it ran is gone, or is raced for or recurs.   *)
LEMMA CronReleaseKept == ASSUME CronInv, NEW w \in CronSlots, CronRelease(w) PROVE CronCore'
<1>0. CronTyped /\ CronFlights /\ \A i \in CronJobs : CronJobInv(i)
  BY DEF CronInv
<1>1. PICK j : j = cronExec[w].id
  OBVIOUS
<1>2. cronExec[w].st = "stopping" /\ j \in CronJobs /\ CronRuns(w, j)
  BY <1>0, <1>1, CronTypesSay DEF CronRelease, CronRuns
<1>3. /\ cronMem' = cronMem /\ cronDisk' = cronDisk /\ cronHand' = cronHand /\ cronGhost' = cronGhost
      /\ cronRunning' = cronRunning \ {j} /\ cronExec' = [cronExec EXCEPT ![w] = CronIdle]
  BY <1>1 DEF CronRelease
<1>4. cronExec \in [CronSlots -> CronWorking \cup {CronIdle}]
  BY <1>0 DEF CronTyped
<1>5. /\ cronExec' \in [CronSlots -> CronWorking \cup {CronIdle}] /\ cronExec'[w].st = "idle"
      /\ \A v \in CronSlots \ {w} : cronExec'[v] = cronExec[v]
  BY <1>3, <1>4 DEF CronIdle
<1>6. \A v \in CronSlots : CronRuns(v, j) => v = w
  BY <1>0, <1>1, <1>2 DEF CronFlights
<1>7. \A v \in CronSlots, i \in CronJobs : CronRuns(v, i)' <=> CronRuns(v, i) /\ i # j
  BY <1>1, <1>5, <1>6 DEF CronRuns
<1>8. CronFlights'
  <2> SUFFICES ASSUME NEW u \in CronSlots, cronExec'[u].st # "idle"
               PROVE  /\ cronExec'[u].id \in cronRunning'
                      /\ \A v \in CronSlots : cronExec'[v].st # "idle" /\ cronExec'[v].id = cronExec'[u].id => v = u
                      /\ cronExec'[u].st \in {"finish", "stopping"} => cronExec'[u].id \in cronGhost'.sent
    BY DEF CronFlights, CronRuns
  <2>1. u # w /\ cronExec'[u] = cronExec[u] /\ cronExec[u].id # j
    BY <1>5, <1>6 DEF CronRuns
  <2>2. /\ cronExec[u].id \in cronRunning
        /\ \A v \in CronSlots : cronExec[v].st # "idle" /\ cronExec[v].id = cronExec[u].id => v = u
        /\ cronExec[u].st \in {"finish", "stopping"} => cronExec[u].id \in cronGhost.sent
    BY <1>0, <2>1 DEF CronFlights, CronRuns
  <2>3. \A v \in CronSlots : cronExec'[v].st # "idle" => cronExec'[v] = cronExec[v]
    BY <1>5
  <2> QED
    BY <1>3, <2>1, <2>2, <2>3
<1>9. ASSUME NEW i \in CronJobs, i # j
      PROVE  CronJobInv(i)'
  <2>1. \A v \in CronSlots : CronRuns(v, i) => cronExec'[v] = cronExec[v]
    BY <1>1, <1>5, <1>9 DEF CronRuns
  <2>2. CronFrame(i)
    BY <1>3, <1>7, <1>9, <2>1 DEF CronFrame
  <2> QED
    BY <1>0, <2>2, CronFramed
<1>10. CronJobInv(j)'
  <2>1. CronJobInv(j)
    BY <1>0, <1>2
  <2>2. \A kind \in AllCronKinds : CronHas(j, kind)' => CronHas(j, kind)
    BY <1>2, <1>3, <1>7 DEF CronHas
  <2>3. CronHeld(j)' /\ CronOneKind(j)' /\ CronNew0(j)'
    BY <1>3, <2>1, <2>2 DEF CronJobInv, CronHeld, CronOneKind, CronNew0, CronKnown
  <2>4. ~(CronStored(j) /\ CronOneShot(cronMem[j]) /\ j \notin cronGhost.raced)
    BY <1>2, <1>6, <2>1 DEF CronJobInv, CronFresh
  <2>5. CronFresh(j)'
    BY <1>3, <2>4 DEF CronFresh, CronStored
  <2>6. CronLatest(j)'
    BY <1>2, <1>7 DEF CronLatest
  <2> QED
    BY <2>3, <2>5, <2>6 DEF CronJobInv
<1>11. cronRunning' \subseteq CronJobs
  BY <1>0, <1>3 DEF CronTyped
<1> QED
  BY <1>0, <1>2, <1>3, <1>5, <1>8, <1>9, <1>10, <1>11 DEF CronCore, CronTyped

(* What a start reads is what was written last; nobody runs anything.       *)
LEMMA CronRestartKept == ASSUME CronInv, CronRestart PROVE CronCore'
<1>0. CronTyped /\ \A i \in CronJobs : CronJobInv(i)
  BY DEF CronInv
<1>1. /\ cronMem' = CronRecalculated(cronDisk) /\ cronDisk' = cronMem' /\ cronRunning' = {} /\ cronHand' = CronIdle
      /\ cronExec' = [w \in CronSlots |-> CronIdle]
  BY DEF CronRestart
<1>2. CronNextTick(cronClock) \in 0..CronMaxTime + 1
  BY <1>0, CronBoundsAssumption DEF CronTyped, CronNextTick
<1>3. ASSUME NEW j \in CronJobs
      PROVE  /\ cronMem'[j] \in CronJob \cup {CronAbsent} /\ (cronMem'[j] = CronAbsent <=> cronDisk[j] = CronAbsent)
             /\ cronMem'[j].kind = cronDisk[j].kind /\ cronMem'[j].rev = cronDisk[j].rev
  <2>1. cronMem'[j] \in {cronDisk[j], [cronDisk[j] EXCEPT !.next = CronNextTick(cronClock)]}
    BY <1>1 DEF CronRecalculated
  <2>2. CASE cronDisk[j] = CronAbsent
    <3>1. cronMem'[j] = cronDisk[j]
      BY <1>1, <2>2 DEF CronRecalculated
    <3> QED
      BY <2>2, <3>1
  <2>3. CASE cronDisk[j] # CronAbsent
    <3>1. cronDisk[j] \in CronJob
      BY <1>0, <2>3, CronTypesSay
    <3>2. /\ [cronDisk[j] EXCEPT !.next = CronNextTick(cronClock)] \in CronJob
          /\ [cronDisk[j] EXCEPT !.next = CronNextTick(cronClock)].kind = cronDisk[j].kind
          /\ [cronDisk[j] EXCEPT !.next = CronNextTick(cronClock)].rev = cronDisk[j].rev
      BY <1>2, <3>1, CronRecords
    <3> QED
      BY <2>1, <2>3, <3>1, <3>2, CronAbsentAssumption
  <2> QED
    BY <2>2, <2>3
<1>4. PICK f, e : f = [j \in CronJobs |-> 0]
                  /\ e = [j \in CronJobs |-> IF cronDisk[j] = CronAbsent THEN 0 ELSE cronDisk[j].rev]
  OBVIOUS
<1>5. f \in [CronJobs -> 0..2] /\ e \in [CronJobs -> 0..CronMaxRev]
  <2>1. f \in [CronJobs -> 0..2]
    BY <1>4
  <2>2. \A j \in CronJobs : e[j] \in 0..CronMaxRev
    <3> SUFFICES ASSUME NEW j \in CronJobs PROVE e[j] \in 0..CronMaxRev
      OBVIOUS
    <3>1. e[j] = IF cronDisk[j] = CronAbsent THEN 0 ELSE cronDisk[j].rev
      BY <1>4
    <3>2. cronDisk[j] # CronAbsent => cronDisk[j].rev \in 0..CronMaxRev
      BY <1>0, CronTypesSay DEF CronJob
    <3> QED
      BY <3>1, <3>2, CronBoundsAssumption
  <2> QED
    BY <1>4, <2>1, <2>2
<1>6. /\ cronGhost' \in CronHistory /\ cronGhost'.promised = cronGhost.promised /\ cronGhost'.deleted = cronGhost.deleted
      /\ cronGhost'.raced = {} /\ cronGhost'.sent = cronGhost.sent /\ cronGhost'.fired = f /\ cronGhost'.rev = e
  <2>1. cronGhost \in CronHistory /\ cronGhost' = [cronGhost EXCEPT !.fired = f, !.raced = {}, !.rev = e]
    BY <1>0, <1>4 DEF CronTyped, CronRestart
  <2> QED
    BY <1>5, <2>1 DEF CronHistory
<1>7. cronMem' \in [CronJobs -> CronJob \cup {CronAbsent}]
  <2>1. cronMem' = [j \in CronJobs |-> cronMem'[j]]
    BY <1>1 DEF CronRecalculated
  <2> QED
    BY <1>3, <2>1
<1>8. \A w \in CronSlots : cronExec'[w].st = "idle"
  BY <1>1 DEF CronIdle
<1>9. cronExec' \in [CronSlots -> CronWorking \cup {CronIdle}] /\ CronFlights'
  BY <1>1, <1>8 DEF CronFlights
<1>10. ASSUME NEW j \in CronJobs
       PROVE  CronJobInv(j)'
  <2>1. CronJobInv(j) /\ (cronMem'[j] = CronAbsent <=> cronDisk[j] = CronAbsent)
        /\ cronMem'[j].kind = cronDisk[j].kind /\ cronMem'[j].rev = cronDisk[j].rev
    BY <1>0, <1>3
  <2>2. \A kind \in AllCronKinds : CronHas(j, kind)' => CronHas(j, kind)
    BY <1>1, <1>8, <2>1 DEF CronHas, CronRuns, CronIdle
  <2>3. CronHeld(j)' /\ CronOneKind(j)'
    BY <1>1, <1>6, <2>1, <2>2 DEF CronJobInv, CronHeld, CronOneKind
  <2>4. CronNew0(j)'
    <3> SUFFICES ASSUME j \notin CronKnown
                 PROVE  (\A kind \in AllCronKinds : ~CronHas(j, kind)') /\ f[j] = 0 /\ e[j] = 0
      BY <1>6 DEF CronNew0, CronKnown
    <3>1. \A kind \in AllCronKinds : ~CronHas(j, kind)
      BY <2>1 DEF CronJobInv, CronNew0
    <3>2. cronDisk[j] = CronAbsent
      <4>1. cronDisk[j] # CronAbsent => cronDisk[j].kind \in AllCronKinds
        BY <1>0, CronTypesSay DEF CronJob
      <4> QED
        BY <3>1, <4>1 DEF CronHas
    <3> QED
      BY <1>4, <2>2, <3>1, <3>2
  <2>5. CronFresh(j)'
    <3>1. cronMem'[j] # CronAbsent => cronMem'[j].rev = e[j]
      BY <1>4, <2>1
    <3> QED
      BY <1>4, <1>6, <1>8, <3>1 DEF CronFresh, CronStored, CronRuns
  <2>6. CronLatest(j)'
    BY <1>8 DEF CronLatest, CronRuns
  <2> QED
    BY <2>3, <2>4, <2>5, <2>6 DEF CronJobInv
<1> QED
  BY <1>1, <1>6, <1>7, <1>9, <1>10 DEF CronCore

(* The files and the clock keep their types.                                *)
LEMMA CronRestKept ==
  ASSUME CronTyped, [CronNext]_cronVars
  PROVE  cronFiles' \subseteq CronKinds /\ cronClock' \in 1..CronMaxTime
<1>1. cronFiles \subseteq CronKinds /\ cronClock \in 1..CronMaxTime /\ CronMaxTime \in Nat
  BY CronBoundsAssumption DEF CronTyped
<1>2. cronFiles' = cronFiles \/ (\E kind \in CronKinds : CronPost(kind))
      \/ (\E j \in CronJobs, kind \in AllCronKinds : CronIngest(j, kind))
  BY DEF CronNext, cronVars, CronForm, CronConfirmed, CronRemind, CronRemindText, CronFirstNext, CronDelete, CronIngestCreate,
         CronIngestReminder, CronIngestUpdate, CronSetEnabled, CronEdit, CronEditReminder, CronIngestReminderUpdate,
         CronReadRun, CronReadRunText, CronClaim, CronIngestDelete, CronAdd, CronChange, CronUpdateReminder, CronExecution,
         CronAgentStarts, CronBegin, CronAsked, CronFinishJob, CronRelease, CronRun, CronTick, CronRestart, AllCronKinds
<1>3. cronClock' = cronClock \/ CronTick
  BY DEF CronNext, cronVars, CronForm, CronConfirmed, CronRemind, CronRemindText, CronFirstNext, CronDelete, CronIngestCreate,
         CronIngestReminder, CronIngestUpdate, CronSetEnabled, CronEdit, CronEditReminder, CronIngestReminderUpdate,
         CronReadRun, CronReadRunText, CronClaim, CronIngestDelete, CronAdd, CronChange, CronUpdateReminder, CronExecution,
         CronAgentStarts, CronBegin, CronAsked, CronFinishJob, CronRelease, CronRun, CronPost, CronRestart, CronIngest
<1>4. cronClock' \in 1..CronMaxTime
  BY <1>1, <1>3 DEF CronTick
<1>5. cronFiles' \subseteq CronKinds
  BY <1>1, <1>2 DEF CronPost, CronIngest, CronFilesAfter
<1> QED
  BY <1>4, <1>5

(* The invariant is inductive.                                              *)
LEMMA CronInvKept == ASSUME CronInv, [CronNext]_cronVars PROVE CronInv'
<1>0. CronTyped /\ CronFlights /\ \A i \in CronJobs : CronJobInv(i)
  BY DEF CronInv
<1>1. cronFiles' \subseteq CronKinds /\ cronClock' \in 1..CronMaxTime
  BY <1>0, CronRestKept
<1>2. CronCore'
  <2>1. ASSUME CronStays
        PROVE  CronCore'
    <3>1. /\ cronMem' = cronMem /\ cronDisk' = cronDisk /\ cronExec' = cronExec /\ cronRunning' = cronRunning
          /\ cronHand' = cronHand /\ cronGhost' = cronGhost
      BY <2>1 DEF CronStays
    <3>2. CronFlights'
      BY <1>0, <3>1 DEF CronFlights, CronRuns
    <3>3. ASSUME NEW i \in CronJobs
          PROVE  CronJobInv(i)'
      <4>1. CronFrame(i)
        BY <3>1 DEF CronFrame, CronRuns
      <4> QED
        BY <1>0, <4>1, CronFramed
    <3> QED
      BY <1>0, <3>1, <3>2, <3>3 DEF CronCore, CronTyped
  <2>2. ASSUME NEW j \in CronJobs,
               \/ CronMakes(j) \/ CronTouches(j) \/ CronForgets(j) \/ CronUpdates(j) \/ CronReadRun(j) \/ CronClaim(j)
        PROVE  CronCore'
    BY <2>2, CronMakesKept, CronTouchesKept, CronForgetsKept, CronUpdatesKept, CronReadKept, CronClaimKept
  <2>3. ASSUME NEW w \in CronSlots, CronExecution(w) \/ CronAgentStarts(w)
        PROVE  CronCore'
    BY <2>3, CronBeginKept, CronAgentStartsKept, CronAskedKept, CronFinishKept, CronReleaseKept DEF CronExecution
  <2> QED
    BY <1>0, <2>1, <2>2, <2>3, CronSteps, CronRunKept, CronRestartKept
<1> QED
  BY <1>1, <1>2 DEF CronInv, CronCore, CronTyped

(* It holds when the bot starts for the first time.                         *)
LEMMA CronInvBegins == CronInit => CronInv
<1> SUFFICES ASSUME CronInit PROVE CronInv
  OBVIOUS
<1>1. CronTyped
  <2>1. cronGhost \in CronHistory
    <3>1. PICK f, e : f = [j \in CronJobs |-> 0] /\ e = [j \in CronJobs |-> 0]
      OBVIOUS
    <3>2. f \in [CronJobs -> 0..2] /\ e \in [CronJobs -> 0..CronMaxRev]
      BY <3>1, CronBoundsAssumption
    <3> QED
      BY <3>1, <3>2 DEF CronInit, CronHistory
  <2> QED
    BY <2>1, CronBoundsAssumption DEF CronInit, CronTyped
<1>2. \A w \in CronSlots : cronExec[w].st = "idle"
  BY DEF CronInit, CronIdle
<1>3. CronFlights
  BY <1>2 DEF CronFlights
<1>4. ASSUME NEW j \in CronJobs
      PROVE  CronJobInv(j)
  <2>1. /\ cronMem[j] = CronAbsent /\ cronDisk[j] = CronAbsent /\ cronHand.st = "idle"
        /\ cronGhost.promised = {} /\ cronGhost.fired[j] = 0 /\ cronGhost.rev[j] = 0
    BY DEF CronInit, CronIdle
  <2> QED
    BY <1>2, <2>1 DEF CronJobInv, CronHeld, CronOneKind, CronNew0, CronHas, CronFresh, CronStored, CronLatest, CronRuns
<1> QED
  BY <1>1, <1>3, <1>4 DEF CronInv

(* What the invariant says of the properties.                               *)
LEMMA CronInvGives == CronInv => CronTypeOK /\ CronSingleFlight /\ CronReminders
<1> SUFFICES ASSUME CronInv PROVE CronTypeOK /\ CronSingleFlight /\ CronReminders
  OBVIOUS
<1>0. CronTyped /\ CronFlights /\ \A j \in CronJobs : CronJobInv(j)
  BY DEF CronInv
<1>1. CronTypeOK
  <2>1. \A w \in CronSlots : cronExec[w] = CronIdle \/
          /\ cronExec[w].st \in CronStates /\ cronExec[w].id \in CronJobs
          /\ cronExec[w].copy \in CronJob /\ cronExec[w].at \in 1..CronMaxTime
    <3> SUFFICES ASSUME NEW w \in CronSlots, cronExec[w] # CronIdle
                 PROVE  /\ cronExec[w].st \in CronStates /\ cronExec[w].id \in CronJobs
                        /\ cronExec[w].copy \in CronJob /\ cronExec[w].at \in 1..CronMaxTime
      OBVIOUS
    <3>1. cronExec[w] \in CronWorking
      BY <1>0 DEF CronTyped
    <3> QED
      BY <3>1 DEF CronWorking, CronStates
  <2>2. cronHand = CronIdle \/ (cronHand.id \in CronJobs /\ cronHand.copy \in CronJob)
    BY <1>0 DEF CronTyped, CronReading
  <2> QED
    BY <1>0, <2>1, <2>2 DEF CronTyped, CronTypeOK
<1>2. CronSingleFlight
  <2> SUFFICES ASSUME NEW j \in CronJobs PROVE Cardinality(CronBusy(j)) <= 1
    BY DEF CronSingleFlight
  <2>1. CASE CronBusy(j) = {}
    BY <2>1, FS_EmptySet
  <2>2. CASE CronBusy(j) # {}
    <3>1. PICK w \in CronBusy(j) : TRUE
      BY <2>2
    <3>2. CronBusy(j) = {w}
      BY <1>0, <3>1 DEF CronFlights, CronRuns, CronBusy
    <3>3. Cardinality({w}) = 1
      BY FS_Singleton, Zenon
    <3> QED
      BY <3>2, <3>3
  <2> QED
    BY <2>1, <2>2
<1>3. CronReminderKept
  BY <1>0, CronTypesSay DEF CronReminderKept, CronJobInv, CronHeld
<1>4. CronRemindOnce
  BY <1>0 DEF CronRemindOnce, CronJobInv, CronFresh
<1>5. CronSendsLastEdit
  <2> SUFFICES ASSUME NEW w \in CronSlots, cronExec[w].st # "idle", CronOneShot(cronExec[w].copy),
                      cronExec[w].id \notin cronGhost.raced
               PROVE  cronExec[w].copy.rev = cronGhost.rev[cronExec[w].id]
    BY DEF CronSendsLastEdit
  <2>1. PICK j : j = cronExec[w].id
    OBVIOUS
  <2>2. j \in CronJobs /\ CronRuns(w, j)
    BY <1>0, <2>1, CronTypesSay DEF CronRuns
  <2>3. CronLatest(j)
    BY <1>0, <2>2 DEF CronJobInv
  <2> QED
    BY <2>1, <2>2, <2>3 DEF CronLatest
<1> QED
  BY <1>1, <1>2, <1>3, <1>4, <1>5 DEF CronReminders

(* A start takes no overdue run from a job: RecalcAll passes over it.       *)
LEMMA CronOverdueStep ==
  ASSUME CronRestart
  PROVE  \A j \in CronJobs : LET r == cronDisk[j] IN
           r # CronAbsent /\ r.on /\ r.next \in 1..cronClock => cronMem'[j].next = r.next
<1>1. cronMem' = CronRecalculated(cronDisk)
  BY DEF CronRestart
<1> SUFFICES ASSUME NEW j \in CronJobs, cronDisk[j].next \in 1..cronClock
             PROVE  cronMem'[j].next = cronDisk[j].next
  OBVIOUS
<1>2. cronMem'[j] = cronDisk[j]
  BY <1>1 DEF CronRecalculated
<1> QED
  BY <1>2

(* Cron by itself: its invariant in every state; then the types hold, a job *)
(* runs once at a time, and a reminder is kept, sent once and as last       *)
(* edited.                                                                  *)
THEOREM CronInvariant == CronSpec => [](CronTypeOK /\ CronSingleFlight /\ CronReminders)
<1>1. CronInit => CronInv
  BY CronInvBegins
<1>2. CronInv /\ [CronNext]_cronVars => CronInv'
  BY CronInvKept
<1> QED
  BY <1>1, <1>2, CronInvGives, PTL DEF CronSpec

-----------------------------------------------------------------------------
(* Monitors. What a write, an edit, the next run and the end of a run make  *)
(* of a monitor.                                                            *)
LEMMA MonRecords ==
  /\ MonNew \in MonJob
  /\ \A r \in MonJob, n \in 0..MonMaxTime + 1 :
       [r EXCEPT !.next = n] \in MonJob
  /\ \A r \in MonJob, b \in BOOLEAN :
       [r EXCEPT !.once = b] \in MonJob /\ [r EXCEPT !.on = b] \in MonJob
  /\ \A r \in MonJob, b \in BOOLEAN : MonEdited(r, b) \in MonJob
  /\ \A r \in MonJob, b \in BOOLEAN :
       [r EXCEPT !.once = b].rev = r.rev /\ [r EXCEPT !.once = b].on = r.on /\ [r EXCEPT !.once = b].once = b
<1> USE MonBoundsAssumption
<1>1. MonNew \in MonJob
  BY DEF MonNew, MonJob
<1>2. \A r \in MonJob, n \in 0..MonMaxTime + 1 : [r EXCEPT !.next = n] \in MonJob
  BY DEF MonJob
<1>3. \A r \in MonJob, b \in BOOLEAN :
        /\ [r EXCEPT !.once = b] \in MonJob /\ [r EXCEPT !.on = b] \in MonJob
        /\ [r EXCEPT !.once = b].rev = r.rev /\ [r EXCEPT !.once = b].on = r.on /\ [r EXCEPT !.once = b].once = b
  BY DEF MonJob
<1>4. \A r \in MonJob, b \in BOOLEAN : MonEdited(r, b) \in MonJob
  <2> SUFFICES ASSUME NEW r \in MonJob, NEW b \in BOOLEAN PROVE MonEdited(r, b) \in MonJob
    OBVIOUS
  <2>1. PICK n : n = IF r.rev < MonMaxRev THEN r.rev + 1 ELSE r.rev
    OBVIOUS
  <2>2. n \in 0..MonMaxRev
    BY <2>1 DEF MonJob
  <2>3. MonEdited(r, b) = [r EXCEPT !.rev = n, !.on = b]
    BY <2>1 DEF MonEdited, MonJob
  <2> QED
    BY <2>2, <2>3 DEF MonJob
<1> QED
  BY <1>1, <1>2, <1>3, <1>4

(* What the types say of one monitor, one execution and one handler.        *)
LEMMA MonTypesSay ==
  ASSUME MonTyped
  PROVE  /\ \A j \in MonJobs : monJobs[j] \in MonJob \cup {MonAbsent} /\ monSnap[j] \in MonJob \cup {MonAbsent}
         /\ \A w \in MonSlots : monExec[w].st # "idle" =>
              /\ monExec[w] \in MonWorking /\ monExec[w].id \in MonJobs
              /\ monExec[w].copy \in MonJob /\ monExec[w].at \in 1..MonMaxTime /\ monExec[w].manual \in BOOLEAN
         /\ monHand.st # "idle" => monHand \in MonReading /\ monHand.id \in MonJobs /\ monHand.copy \in MonJob
         /\ \A r \in MonJob : MonRecalc(r) \in MonJob
         /\ MonAbsent \notin MonJob
<1>1. \A j \in MonJobs : monJobs[j] \in MonJob \cup {MonAbsent} /\ monSnap[j] \in MonJob \cup {MonAbsent}
  BY DEF MonTyped
<1>2. ASSUME NEW w \in MonSlots, monExec[w].st # "idle"
      PROVE  /\ monExec[w] \in MonWorking /\ monExec[w].id \in MonJobs
             /\ monExec[w].copy \in MonJob /\ monExec[w].at \in 1..MonMaxTime /\ monExec[w].manual \in BOOLEAN
  <2>1. monExec[w] \in MonWorking
    BY <1>2 DEF MonTyped, MonIdle
  <2> QED
    BY <2>1 DEF MonWorking
<1>3. monHand.st # "idle" => monHand \in MonReading /\ monHand.id \in MonJobs /\ monHand.copy \in MonJob
  <2>1. monHand.st # "idle" => monHand \in MonReading
    BY DEF MonTyped, MonIdle
  <2> QED
    BY <2>1 DEF MonReading
<1>4. \A r \in MonJob : MonRecalc(r) \in MonJob
  <2>1. MonNextTick(monClock) \in 0..MonMaxTime + 1
    BY MonBoundsAssumption DEF MonTyped, MonNextTick
  <2> QED
    BY <2>1, MonRecords DEF MonRecalc
<1> QED
  BY <1>1, <1>2, <1>3, <1>4, MonAbsentAssumption

(* A run begins, of a monitor as it was read.                               *)
MonBegins(j, r) ==
  /\ j \notin monRunning /\ monRunning' = monRunning \cup {j} /\ monJobs' = monJobs
  /\ \E w \in MonSlots :
       /\ monExec[w].st = "idle"
       /\ monExec' = [monExec EXCEPT ![w] = [st |-> "claimed", id |-> j, copy |-> r, at |-> monClock,
                                              manual |-> r.once, seen |-> MonAbsent]]

(* The heartbeat and the run by name begin one that does not run.           *)
LEMMA MonStartIs ==
  ASSUME NEW j, NEW r, MonStart(j, r), MonNotRunning(j), monJobs' = monJobs
  PROVE  MonBegins(j, r)
<1>1. PICK w \in MonSlots : w = CHOOSE v \in MonSlots : monExec[v].st = "idle"
  BY DEF MonStart
<1>2. monExec[w].st = "idle"
  BY <1>1 DEF MonStart
<1> QED
  BY <1>1, <1>2 DEF MonStart, MonNotRunning, MonBegins

(* What a step does to the executions.                                      *)
LEMMA MonExecSteps ==
  ASSUME MonTyped, [MonNext]_monVars
  PROVE  \/ UNCHANGED <<monExec, monRunning>>
         \/ \E j \in MonJobs : \E r \in MonJob : MonBegins(j, r)
         \/ \E w \in MonSlots : MonWorks(w)
         \/ MonRestart
<1>1. ASSUME NEW j \in MonJobs, MonClaim(j)
      PROVE  \E r \in MonJob : MonBegins(j, r)
  <2>1. monSnap[j] \in MonJob
    BY <1>1, MonTypesSay DEF MonClaim
  <2> QED
    BY <1>1, <2>1, MonStartIs DEF MonClaim
<1>2. ASSUME MonRunNow
      PROVE  UNCHANGED <<monExec, monRunning>> \/ \E j \in MonJobs : \E r \in MonJob : MonBegins(j, r)
  <2>1. monHand.id \in MonJobs /\ monJobs' = monJobs
    BY <1>2, MonTypesSay DEF MonRunNow
  <2>2. CASE MonStored(monHand.id) /\ MonNotRunning(monHand.id) /\ MonStart(monHand.id, monJobs[monHand.id])
    <3>1. monJobs[monHand.id] \in MonJob
      BY <2>1, <2>2, MonTypesSay DEF MonStored
    <3> QED
      BY <2>1, <2>2, <3>1, MonStartIs
  <2> QED
    BY <1>2, <2>2 DEF MonRunNow
<1>3. ASSUME NEW t \in MonTokens, MonPropose(t) \/ MonPromptLate(t) \/ (\E j \in MonJobs : MonConfirm(t, j))
      PROVE  UNCHANGED <<monExec, monRunning>>
  BY <1>3 DEF MonPropose, MonPromptLate, MonConfirm
<1>4. ASSUME NEW j \in MonJobs,
             MonIngest(j) \/ MonButton(j) \/ MonRunByName(j) \/ MonEditForm(j) \/ MonNotDue(j) \/ MonFirstNext(j)
      PROVE  UNCHANGED <<monExec, monRunning>>
  BY <1>4 DEF MonIngest, MonButton, MonRunByName, MonEditForm, MonRead, MonNotDue, MonFirstNext
<1>5. MonPass \/ MonWrite \/ MonStoreRun \/ MonDelete \/ MonTick \/ UNCHANGED monVars => UNCHANGED <<monExec, monRunning>>
  BY DEF MonPass, MonWrite, MonStoreRun, MonDelete, MonTick, monVars
<1> QED
  BY <1>1, <1>2, <1>3, <1>4, <1>5 DEF MonNext, MonLoop, MonHandler, MonWorks

(* An execution goes on, or ends; a step of one changes no other. The       *)
(* merged job that is to be written follows the one that was read.          *)
LEMMA MonExecutes ==
  ASSUME MonTyped, NEW w \in MonSlots, MonWorks(w)
  PROVE  /\ monExec[w].st # "idle" /\ monExec[w].id \in MonJobs
         /\ \/ /\ monRunning' = monRunning
               /\ \E e \in MonWorking :
                    e.id = monExec[w].id /\ MonMerges(e) /\ monExec' = [monExec EXCEPT ![w] = e]
            \/ monExec' = [monExec EXCEPT ![w] = MonIdle] /\ monRunning' = monRunning \ {monExec[w].id}
<1>1. monExec[w].st # "idle"
  BY DEF MonWorks, MonExecution, MonAgentStarts, MonFinishRead, MonBegin, MonEvaluated, MonDeliver, MonFinishJob, MonRelease
<1>2. PICK old : old = monExec[w]
  OBVIOUS
<1>3. /\ old \in MonWorking /\ old.id \in MonJobs /\ old.copy \in MonJob /\ old.at \in 1..MonMaxTime
      /\ old.manual \in BOOLEAN
  BY <1>1, <1>2, MonTypesSay
<1>4. CASE MonRelease(w)
  BY <1>1, <1>2, <1>3, <1>4 DEF MonRelease
<1>5. ASSUME NEW st \in {"finish", "evaluating", "starting", "stopping", "deliver"}, NEW copy \in MonJob,
             MonGoes(w, st, copy)
      PROVE  \E e \in MonWorking :
               e.id = monExec[w].id /\ MonMerges(e) /\ monExec' = [monExec EXCEPT ![w] = e]
  <2>1. PICK e : e = [old EXCEPT !.st = st, !.copy = copy]
    OBVIOUS
  <2>2. e \in MonWorking /\ e.id = old.id /\ e.st # "merge"
    BY <1>3, <2>1 DEF MonWorking
  <2>3. monExec' = [monExec EXCEPT ![w] = e]
    BY <1>2, <1>5, <2>1 DEF MonGoes
  <2> QED
    BY <1>2, <2>2, <2>3 DEF MonMerges
<1>6. CASE MonBegin(w) \/ MonAgentStarts(w) \/ MonDeliver(w) \/ MonFinishJob(w)
  <2>1. /\ monRunning' = monRunning
        /\ \E st \in {"finish", "evaluating", "starting", "stopping"} : MonGoes(w, st, old.copy)
    BY <1>2, <1>6 DEF MonBegin, MonAgentStarts, MonDeliver, MonFinishJob
  <2> QED
    BY <1>1, <1>2, <1>3, <1>5, <2>1
<1>7. CASE MonEvaluated(w)
  <2>1. CASE MonGoes(w, "finish", old.copy) \/ MonGoes(w, "stopping", old.copy)
    BY <1>1, <1>2, <1>3, <1>5, <1>7, <2>1 DEF MonEvaluated
  <2>2. CASE MonMayNotify(old) /\ MonGoes(w, "deliver", monJobs[old.id])
    <3>1. monJobs[old.id] \in MonJob
      BY <1>3, <2>2, MonTypesSay DEF MonMayNotify, MonStored
    <3> QED
      BY <1>1, <1>2, <1>3, <1>5, <1>7, <2>2, <3>1 DEF MonEvaluated
  <2> QED
    BY <1>2, <1>7, <2>1, <2>2 DEF MonEvaluated
<1>8. CASE MonFinishRead(w)
  <2>1. monRunning' = monRunning
    BY <1>8 DEF MonFinishRead
  <2>2. CASE ~MonStored(old.id)
    <3>1. MonGoes(w, "stopping", old.copy)
      BY <1>2, <1>8, <2>2 DEF MonFinishRead
    <3> QED
      BY <1>1, <1>2, <1>3, <1>5, <2>1, <3>1
  <2>3. CASE MonStored(old.id)
    <3>1. PICK r : r = monJobs[old.id]
      OBVIOUS
    <3>2. r \in MonJob
      BY <1>3, <2>3, <3>1, MonTypesSay DEF MonStored
    <3>3. PICK n, b : n = MonNextTick(old.at) /\ b = (r.once /\ ~old.manual)
      OBVIOUS
    <3>4. n \in 0..MonMaxTime + 1 /\ b \in BOOLEAN /\ (b = r.once \/ old.manual)
      BY <1>3, <3>2, <3>3, MonBoundsAssumption DEF MonNextTick, MonJob
    <3>5. PICK m : m = [r EXCEPT !.once = b, !.next = n]
      OBVIOUS
    <3>6. m \in MonJob /\ m.on = r.on /\ m.rev = r.rev /\ m.once = b
      BY <3>2, <3>4, <3>5 DEF MonJob
    <3>7. MonMerged(old, r) = m
      BY <3>2, <3>3, <3>5 DEF MonMerged, MonManual, MonJob
    <3>8. PICK e : e = [old EXCEPT !.st = "merge", !.copy = m, !.seen = r]
      OBVIOUS
    <3>9. /\ e \in MonWorking /\ e.id = old.id /\ e.st = "merge" /\ e.copy = m /\ e.seen = r
          /\ e.manual = old.manual
      BY <1>3, <3>2, <3>6, <3>8 DEF MonWorking
    <3>10. monExec' = [monExec EXCEPT ![w] = e]
      BY <1>2, <1>8, <2>3, <3>1, <3>7, <3>8 DEF MonFinishRead
    <3>11. MonMerges(e)
      BY <3>2, <3>4, <3>6, <3>9 DEF MonMerges
    <3> QED
      BY <1>1, <1>2, <1>3, <2>1, <3>9, <3>10, <3>11
  <2> QED
    BY <2>2, <2>3
<1> QED
  BY <1>4, <1>6, <1>7, <1>8 DEF MonWorks, MonExecution

(* The executions keep their types, stay one for a monitor and write what   *)
(* follows the monitor they read.                                           *)
LEMMA MonFlightsKept ==
  ASSUME MonTyped, MonFlights, MonMerging, [MonNext]_monVars
  PROVE  /\ monExec' \in [MonSlots -> MonWorking \cup {MonIdle}] /\ monRunning' \subseteq MonJobs
         /\ MonFlights' /\ MonMerging'
<1>0. monExec \in [MonSlots -> MonWorking \cup {MonIdle}] /\ monRunning \subseteq MonJobs
  BY DEF MonTyped
<1>1. CASE UNCHANGED <<monExec, monRunning>>
  BY <1>0, <1>1 DEF MonFlights, MonRuns, MonMerging
<1>2. CASE MonRestart
  <2>1. monExec' = [w \in MonSlots |-> MonIdle] /\ monRunning' = {}
    BY <1>2 DEF MonRestart
  <2>2. \A w \in MonSlots : monExec'[w].st = "idle"
    BY <2>1 DEF MonIdle
  <2> QED
    BY <2>1, <2>2 DEF MonFlights, MonMerging, MonMerges
<1>3. ASSUME NEW j \in MonJobs, NEW r \in MonJob, MonBegins(j, r)
      PROVE  /\ monExec' \in [MonSlots -> MonWorking \cup {MonIdle}] /\ monRunning' \subseteq MonJobs
             /\ MonFlights' /\ MonMerging'
  <2>1. PICK w \in MonSlots :
          /\ monExec[w].st = "idle"
          /\ monExec' = [monExec EXCEPT ![w] = [st |-> "claimed", id |-> j, copy |-> r, at |-> monClock,
                                                 manual |-> r.once, seen |-> MonAbsent]]
    BY <1>3 DEF MonBegins
  <2>2. PICK new : new = [st |-> "claimed", id |-> j, copy |-> r, at |-> monClock,
                          manual |-> r.once, seen |-> MonAbsent]
    OBVIOUS
  <2>3. new \in MonWorking /\ new.id = j /\ MonMerges(new)
    <3>1. r.once \in BOOLEAN /\ monClock \in 1..MonMaxTime
      BY DEF MonTyped, MonJob
    <3> QED
      BY <2>2, <3>1 DEF MonWorking, MonMerges
  <2>4. monExec' = [monExec EXCEPT ![w] = new]
    BY <2>1, <2>2
  <2>5. monExec'[w] = new /\ \A v \in MonSlots \ {w} : monExec'[v] = monExec[v]
    BY <1>0, <2>4
  <2>6. monExec' \in [MonSlots -> MonWorking \cup {MonIdle}]
    BY <1>0, <2>3, <2>4
  <2>7. monRunning' = monRunning \cup {j} /\ j \notin monRunning
    BY <1>3 DEF MonBegins
  <2>8. \A v \in MonSlots \ {w} : monExec'[v].st # "idle" => monExec[v].id \in monRunning /\ monExec[v].id # j
    BY <2>5, <2>7 DEF MonFlights
  <2>9. MonFlights'
    <3> SUFFICES ASSUME NEW u \in MonSlots, monExec'[u].st # "idle"
                 PROVE  /\ monExec'[u].id \in monRunning'
                        /\ \A v \in MonSlots : monExec'[v].st # "idle" /\ monExec'[v].id = monExec'[u].id => v = u
      BY DEF MonFlights, MonRuns
    <3>1. CASE u = w
      BY <2>3, <2>5, <2>7, <2>8, <3>1
    <3>2. CASE u # w
      <4>1. monExec'[u] = monExec[u] /\ monExec[u].id \in monRunning /\ monExec[u].id # j
        BY <2>5, <2>8, <3>2
      <4>2. \A v \in MonSlots : monExec[v].st # "idle" /\ monExec[v].id = monExec[u].id => v = u
        BY <4>1 DEF MonFlights, MonRuns
      <4> QED
        BY <2>3, <2>5, <2>7, <4>1, <4>2
    <3> QED
      BY <3>1, <3>2
  <2>10. MonMerging'
    BY <2>3, <2>5 DEF MonMerging, MonMerges
  <2> QED
    BY <1>0, <2>6, <2>7, <2>9, <2>10
<1>4. ASSUME NEW w \in MonSlots, MonWorks(w)
      PROVE  /\ monExec' \in [MonSlots -> MonWorking \cup {MonIdle}] /\ monRunning' \subseteq MonJobs
             /\ MonFlights' /\ MonMerging'
  <2>0. monExec[w].st # "idle" /\ monExec[w] \in MonWorking /\ monExec[w].id \in monRunning
        /\ \A v \in MonSlots : monExec[v].st # "idle" /\ monExec[v].id = monExec[w].id => v = w
    BY <1>4, MonExecutes, MonTypesSay DEF MonFlights, MonRuns
  <2>1. ASSUME NEW new \in MonWorking, new.id = monExec[w].id, MonMerges(new),
               monExec' = [monExec EXCEPT ![w] = new], monRunning' = monRunning
        PROVE  /\ monExec' \in [MonSlots -> MonWorking \cup {MonIdle}] /\ monRunning' \subseteq MonJobs
               /\ MonFlights' /\ MonMerging'
    <3>2. new \in MonWorking /\ new.id = monExec[w].id
      BY <2>1
    <3>3. monExec' = [monExec EXCEPT ![w] = new]
      BY <2>1
    <3>4. monExec'[w] = new /\ \A v \in MonSlots \ {w} : monExec'[v] = monExec[v]
      BY <1>0, <3>3
    <3>5. \A v \in MonSlots : (monExec'[v].st # "idle" => monExec[v].st # "idle") /\ monExec'[v].id = monExec[v].id
      BY <2>0, <3>2, <3>4
    <3>6. monExec' \in [MonSlots -> MonWorking \cup {MonIdle}]
      BY <1>0, <3>2, <3>3
    <3>7. MonFlights'
      <4> SUFFICES ASSUME NEW u \in MonSlots, monExec'[u].st # "idle"
                   PROVE  /\ monExec'[u].id \in monRunning'
                          /\ \A v \in MonSlots : monExec'[v].st # "idle" /\ monExec'[v].id = monExec'[u].id => v = u
        BY DEF MonFlights, MonRuns
      <4>1. /\ monExec[u].id \in monRunning
            /\ \A v \in MonSlots : monExec[v].st # "idle" /\ monExec[v].id = monExec[u].id => v = u
        BY <3>5 DEF MonFlights, MonRuns
      <4> QED
        BY <2>1, <3>5, <4>1
    <3>8. MonMerging'
      BY <2>1, <3>4 DEF MonMerging, MonMerges
    <3> QED
      BY <1>0, <2>1, <3>6, <3>7, <3>8
  <2>2. CASE monExec' = [monExec EXCEPT ![w] = MonIdle] /\ monRunning' = monRunning \ {monExec[w].id}
    <3>1. /\ monExec' \in [MonSlots -> MonWorking \cup {MonIdle}] /\ monExec'[w].st = "idle"
          /\ \A v \in MonSlots \ {w} : monExec'[v] = monExec[v]
      BY <1>0, <2>2 DEF MonIdle
    <3>2. MonFlights'
      <4> SUFFICES ASSUME NEW u \in MonSlots, monExec'[u].st # "idle"
                   PROVE  /\ monExec'[u].id \in monRunning'
                          /\ \A v \in MonSlots : monExec'[v].st # "idle" /\ monExec'[v].id = monExec'[u].id => v = u
        BY DEF MonFlights, MonRuns
      <4>1. u # w /\ monExec'[u] = monExec[u]
        BY <3>1
      <4>2. /\ monExec[u].id \in monRunning
            /\ \A v \in MonSlots : monExec[v].st # "idle" /\ monExec[v].id = monExec[u].id => v = u
        BY <4>1 DEF MonFlights, MonRuns
      <4>3. monExec[u].id # monExec[w].id
        BY <2>0, <4>1
      <4> QED
        BY <2>2, <3>1, <4>1, <4>2, <4>3
    <3>3. MonMerging'
      BY <3>1 DEF MonMerging, MonMerges
    <3> QED
      BY <1>0, <2>2, <3>1, <3>2, <3>3
  <2> QED
    BY <1>4, <2>1, <2>2, MonExecutes
<1> QED
  BY <1>1, <1>2, <1>3, <1>4, MonExecSteps

(* What a step does to the store: a monitor is written, or the store is     *)
(* read again at a start. Only the end of an execution writes while an      *)
(* execution goes on.                                                       *)
LEMMA MonStoreSteps ==
  ASSUME MonTyped, [MonNext]_monVars
  PROVE  \/ monJobs' = monJobs
         \/ \E j \in MonJobs : \E r \in MonJob \cup {MonAbsent} : monJobs' = [monJobs EXCEPT ![j] = r] /\ monExec' = monExec
         \/ \E w \in MonSlots : MonFinishJob(w)
         \/ MonRestart
<1>0. /\ \A j \in MonJobs : monJobs[j] \in MonJob \cup {MonAbsent} /\ monSnap[j] \in MonJob \cup {MonAbsent}
      /\ \A r \in MonJob : MonRecalc(r) \in MonJob
  BY MonTypesSay
<1>1. ASSUME NEW j \in MonJobs, NEW r \in MonJob \cup {MonAbsent}, MonPut(j, r), monExec' = monExec
      PROVE  \/ monJobs' = monJobs
             \/ \E i \in MonJobs : \E q \in MonJob \cup {MonAbsent} : monJobs' = [monJobs EXCEPT ![i] = q] /\ monExec' = monExec
  BY <1>1 DEF MonPut
<1>2. ASSUME NEW t \in MonTokens, NEW j \in MonJobs, MonConfirm(t, j)
      PROVE  \/ monJobs' = monJobs
             \/ \E i \in MonJobs : \E q \in MonJob \cup {MonAbsent} : monJobs' = [monJobs EXCEPT ![i] = q] /\ monExec' = monExec
  <2>1. MonNew \in MonJob /\ MonRecalc(MonNew) \in MonJob
    BY <1>0, MonRecords
  <2> QED
    BY <1>2, <2>1 DEF MonConfirm
<1>3. ASSUME NEW j \in MonJobs, MonFirstNext(j)
      PROVE  \/ monJobs' = monJobs
             \/ \E i \in MonJobs : \E q \in MonJob \cup {MonAbsent} : monJobs' = [monJobs EXCEPT ![i] = q] /\ monExec' = monExec
  <2>1. MonPut(j, MonRecalc(monSnap[j])) /\ MonRecalc(monSnap[j]) \in MonJob /\ monExec' = monExec
    BY <1>0, <1>3 DEF MonFirstNext
  <2> QED
    BY <1>1, <2>1
<1>4. ASSUME NEW j \in MonJobs, MonIngest(j)
      PROVE  \/ monJobs' = monJobs
             \/ \E i \in MonJobs : \E q \in MonJob \cup {MonAbsent} : monJobs' = [monJobs EXCEPT ![i] = q] /\ monExec' = monExec
  <2>1. \E r \in MonJob \cup {MonAbsent} : MonPut(j, r)
    <3>1. CASE MonPut(j, MonRecalc(MonNew)) \/ MonRemove(j)
      BY <1>0, <3>1, MonRecords DEF MonRemove
    <3>2. CASE MonStored(j) /\ \E on, sched \in BOOLEAN :
                 MonPut(j, IF MonMustRecalc(monJobs[j], on, sched) THEN MonRecalc(MonEdited(monJobs[j], on))
                                                                   ELSE MonEdited(monJobs[j], on))
      <4>1. PICK on \in BOOLEAN, sched \in BOOLEAN :
              MonPut(j, IF MonMustRecalc(monJobs[j], on, sched) THEN MonRecalc(MonEdited(monJobs[j], on))
                                                                ELSE MonEdited(monJobs[j], on))
        BY <3>2
      <4>2. MonEdited(monJobs[j], on) \in MonJob
        BY <1>0, <3>2, MonRecords DEF MonStored
      <4> QED
        BY <1>0, <4>1, <4>2
    <3> QED
      BY <1>4, <3>1, <3>2 DEF MonIngest
  <2>2. monExec' = monExec
    BY <1>4 DEF MonIngest
  <2> QED
    BY <1>1, <2>1, <2>2
<1>5. ASSUME MonWrite
      PROVE  \/ monJobs' = monJobs
             \/ \E i \in MonJobs : \E q \in MonJob \cup {MonAbsent} : monJobs' = [monJobs EXCEPT ![i] = q] /\ monExec' = monExec
  <2>1. monHand.id \in MonJobs /\ monHand.copy \in MonJob /\ monExec' = monExec /\ monHand.copy.on \in BOOLEAN
    BY <1>5, MonTypesSay DEF MonWrite, MonJob
  <2>2. PICK r : r = monHand.copy
    OBVIOUS
  <2>3. \E q \in MonJob : MonPut(monHand.id, q)
    <3>1. [r EXCEPT !.on = FALSE] \in MonJob /\ [r EXCEPT !.on = TRUE] \in MonJob /\ MonEdited(r, r.on) \in MonJob
      BY <2>1, <2>2, MonRecords
    <3>2. MonRecalc([r EXCEPT !.on = TRUE]) \in MonJob /\ MonRecalc(MonEdited(r, r.on)) \in MonJob
      BY <1>0, <3>1
    <3>3. CASE \E sched \in BOOLEAN :
                 MonPut(monHand.id, IF MonMustRecalc(r, r.on, sched) THEN MonRecalc(MonEdited(r, r.on)) ELSE MonEdited(r, r.on))
      BY <3>1, <3>2, <3>3
    <3> QED
      BY <1>5, <2>2, <3>1, <3>2, <3>3 DEF MonWrite
  <2> QED
    BY <1>1, <2>1, <2>3
<1>6. ASSUME MonStoreRun \/ MonDelete
      PROVE  \/ monJobs' = monJobs
             \/ \E i \in MonJobs : \E q \in MonJob \cup {MonAbsent} : monJobs' = [monJobs EXCEPT ![i] = q] /\ monExec' = monExec
  <2>1. monHand.id \in MonJobs /\ monHand.copy \in MonJob /\ monExec' = monExec
    BY <1>6, MonTypesSay DEF MonStoreRun, MonDelete
  <2>2. [monHand.copy EXCEPT !.once = TRUE] \in MonJob
    BY <2>1, MonRecords
  <2> QED
    BY <1>1, <1>6, <2>1, <2>2 DEF MonStoreRun, MonDelete, MonRemove
<1>7. ASSUME NEW w \in MonSlots, MonWorks(w)
      PROVE  monJobs' = monJobs \/ MonFinishJob(w)
  BY <1>7 DEF MonWorks, MonExecution, MonAgentStarts, MonFinishRead, MonBegin, MonEvaluated, MonDeliver, MonRelease
<1>8. ASSUME NEW t \in MonTokens, MonPropose(t) \/ MonPromptLate(t)
      PROVE  monJobs' = monJobs
  BY <1>8 DEF MonPropose, MonPromptLate
<1>9. ASSUME NEW j \in MonJobs,
             MonButton(j) \/ MonRunByName(j) \/ MonEditForm(j) \/ MonClaim(j) \/ MonNotDue(j)
      PROVE  monJobs' = monJobs
  BY <1>9 DEF MonButton, MonRunByName, MonEditForm, MonRead, MonClaim, MonNotDue
<1>10. MonPass \/ MonRunNow \/ MonTick \/ UNCHANGED monVars => monJobs' = monJobs
  BY DEF MonPass, MonRunNow, MonTick, monVars
<1> QED
  BY <1>2, <1>3, <1>4, <1>5, <1>6, <1>7, <1>8, <1>9, <1>10 DEF MonNext, MonLoop, MonHandler, MonWorks

(* The end of an execution leaves the store alone, or writes what it merged *)
(* as its own monitor.                                                      *)
LEMMA MonFinishIs ==
  ASSUME MonTyped, NEW w \in MonSlots, MonFinishJob(w)
  PROVE  /\ monExec[w].st = "merge" /\ monExec[w].id \in MonJobs /\ monExec[w].copy \in MonJob
         /\ monJobs' = monJobs \/ monJobs' = [monJobs EXCEPT ![monExec[w].id] = monExec[w].copy]
BY MonTypesSay DEF MonFinishJob, MonPut

(* The store, and what the loop has still to look at, keep their types.     *)
LEMMA MonStoreKept ==
  ASSUME MonTyped, [MonNext]_monVars
  PROVE  monJobs' \in [MonJobs -> MonJob \cup {MonAbsent}] /\ monSnap' \in [MonJobs -> MonJob \cup {MonAbsent}]
<1>0. monJobs \in [MonJobs -> MonJob \cup {MonAbsent}] /\ monSnap \in [MonJobs -> MonJob \cup {MonAbsent}]
  BY DEF MonTyped
<1>1. monJobs' \in [MonJobs -> MonJob \cup {MonAbsent}]
  <2>1. ASSUME NEW j \in MonJobs, NEW r \in MonJob \cup {MonAbsent}, monJobs' = [monJobs EXCEPT ![j] = r]
        PROVE  monJobs' \in [MonJobs -> MonJob \cup {MonAbsent}]
    BY <1>0, <2>1
  <2>2. ASSUME NEW w \in MonSlots, MonFinishJob(w)
        PROVE  monJobs' \in [MonJobs -> MonJob \cup {MonAbsent}]
    BY <1>0, <2>2, MonFinishIs
  <2>3. CASE MonRestart
    <3>1. \A j \in MonJobs : (IF MonStored(j) /\ monJobs[j].on /\ ~(monJobs[j].next \in 1..monClock)
                                THEN MonRecalc(monJobs[j]) ELSE monJobs[j]) \in MonJob \cup {MonAbsent}
      BY MonTypesSay DEF MonStored
    <3> QED
      BY <2>3, <3>1 DEF MonRestart
  <2> QED
    BY <1>0, <2>1, <2>2, <2>3, MonStoreSteps
<1>2. monSnap' = monSnap \/ monSnap' = monJobs \/ monSnap' = MonNone \/ \E j \in MonJobs : MonSkip(j)
  <2>1. ASSUME NEW t \in MonTokens, MonPropose(t) \/ MonPromptLate(t) \/ (\E j \in MonJobs : MonConfirm(t, j))
        PROVE  monSnap' = monSnap
    BY <2>1 DEF MonPropose, MonPromptLate, MonConfirm
  <2>2. ASSUME NEW j \in MonJobs, MonIngest(j) \/ MonButton(j) \/ MonRunByName(j) \/ MonEditForm(j)
        PROVE  monSnap' = monSnap
    BY <2>2 DEF MonIngest, MonButton, MonRunByName, MonEditForm, MonRead
  <2>3. ASSUME NEW j \in MonJobs, MonClaim(j) \/ MonNotDue(j) \/ MonFirstNext(j)
        PROVE  MonSkip(j)
    BY <2>3 DEF MonClaim, MonNotDue, MonFirstNext
  <2>4. ASSUME NEW w \in MonSlots, MonWorks(w)
        PROVE  monSnap' = monSnap
    BY <2>4 DEF MonWorks, MonExecution, MonAgentStarts, MonFinishRead, MonBegin, MonEvaluated, MonDeliver, MonFinishJob, MonRelease
  <2>5. MonHandler \/ MonTick \/ UNCHANGED monVars => monSnap' = monSnap
    BY DEF MonHandler, MonWrite, MonStoreRun, MonRunNow, MonDelete, MonTick, monVars
  <2>6. (MonPass => monSnap' = monJobs) /\ (MonRestart => monSnap' = MonNone)
    BY DEF MonPass, MonRestart
  <2> QED
    BY <2>1, <2>2, <2>3, <2>4, <2>5, <2>6 DEF MonNext, MonLoop, MonWorks
<1>3. monSnap' \in [MonJobs -> MonJob \cup {MonAbsent}]
  BY <1>0, <1>2 DEF MonSkip, MonNone
<1> QED
  BY <1>1, <1>3

(* What a handler holds, the clock and what is left keep their types.       *)
LEMMA MonHandKept ==
  ASSUME MonTyped, [MonNext]_monVars
  PROVE  /\ monHand' \in MonReading \cup {MonIdle} /\ monClock' \in 1..MonMaxTime
         /\ monLeft' \in [starts : 0..MonMaxStarts, ops : 0..MonMaxOps]
<1>0. /\ monHand \in MonReading \cup {MonIdle} /\ monClock \in 1..MonMaxTime
      /\ monLeft \in [starts : 0..MonMaxStarts, ops : 0..MonMaxOps]
      /\ MonMaxTime \in Nat /\ MonMaxStarts \in Nat /\ MonMaxOps \in Nat
  BY MonBoundsAssumption DEF MonTyped
<1>1. \/ monHand' = monHand /\ monLeft' = monLeft
      \/ monHand' = MonIdle /\ monLeft' = monLeft
      \/ MonRestart \/ MonStoreRun
      \/ \E j \in MonJobs, op \in {"pause", "resume", "run", "delete", "edit"} : MonRead(op, j)
  <2>1. ASSUME NEW t \in MonTokens, MonPropose(t) \/ MonPromptLate(t) \/ (\E j \in MonJobs : MonConfirm(t, j))
        PROVE  monHand' = monHand /\ monLeft' = monLeft
    BY <2>1 DEF MonPropose, MonPromptLate, MonConfirm
  <2>2. ASSUME NEW j \in MonJobs, MonIngest(j) \/ MonClaim(j) \/ MonNotDue(j) \/ MonFirstNext(j)
        PROVE  monHand' = monHand /\ monLeft' = monLeft
    BY <2>2 DEF MonIngest, MonClaim, MonNotDue, MonFirstNext
  <2>3. ASSUME NEW j \in MonJobs, MonButton(j) \/ MonRunByName(j) \/ MonEditForm(j)
        PROVE  \E op \in {"pause", "resume", "run", "delete", "edit"} : MonRead(op, j)
    BY <2>3 DEF MonButton, MonRunByName, MonEditForm
  <2>4. ASSUME NEW w \in MonSlots, MonWorks(w)
        PROVE  monHand' = monHand /\ monLeft' = monLeft
    BY <2>4 DEF MonWorks, MonExecution, MonAgentStarts, MonFinishRead, MonBegin, MonEvaluated, MonDeliver, MonFinishJob, MonRelease
  <2>5. MonWrite \/ MonRunNow \/ MonDelete => monHand' = MonIdle /\ monLeft' = monLeft
    BY DEF MonWrite, MonRunNow, MonDelete
  <2>6. MonTick \/ MonPass \/ UNCHANGED monVars => monHand' = monHand /\ monLeft' = monLeft
    BY DEF MonTick, MonPass, monVars
  <2> QED
    BY <2>1, <2>2, <2>3, <2>4, <2>5, <2>6 DEF MonNext, MonLoop, MonHandler, MonWorks
<1>2. CASE MonRestart
  BY <1>0, <1>2 DEF MonRestart
<1>3. CASE MonStoreRun
  <2>1. monHand \in MonReading /\ monLeft' = monLeft /\ monClock' = monClock
    BY <1>3, MonTypesSay DEF MonStoreRun
  <2>2. monHand' = MonIdle \/ monHand' = [monHand EXCEPT !.st = "start"]
    BY <1>3 DEF MonStoreRun
  <2>3. [monHand EXCEPT !.st = "start"] \in MonReading
    BY <2>1 DEF MonReading
  <2> QED
    BY <1>0, <2>1, <2>2, <2>3
<1>4. ASSUME NEW j \in MonJobs, NEW op \in {"pause", "resume", "run", "delete", "edit"}, MonRead(op, j)
      PROVE  /\ monHand' \in MonReading \cup {MonIdle} /\ monClock' \in 1..MonMaxTime
             /\ monLeft' \in [starts : 0..MonMaxStarts, ops : 0..MonMaxOps]
  <2>1. monJobs[j] \in MonJob /\ monClock' = monClock
    BY <1>4, MonTypesSay DEF MonRead, MonStored
  <2>2. monHand' \in MonReading
    <3>1. monHand' = [MonIdle EXCEPT !.st = op, !.id = j, !.copy = monJobs[j]]
      BY <1>4 DEF MonRead
    <3>2. monHand' = [st |-> op, id |-> j, copy |-> monJobs[j], at |-> 0, manual |-> FALSE, seen |-> MonAbsent]
      BY <3>1 DEF MonIdle
    <3> QED
      BY <1>4, <2>1, <3>2 DEF MonReading
  <2>3. monLeft' \in [starts : 0..MonMaxStarts, ops : 0..MonMaxOps]
    BY <1>0, <1>4 DEF MonRead
  <2> QED
    BY <1>0, <2>1, <2>2, <2>3
<1>5. monClock' = monClock \/ MonTick
  <2>1. ASSUME NEW t \in MonTokens, MonPropose(t) \/ MonPromptLate(t) \/ (\E j \in MonJobs : MonConfirm(t, j))
        PROVE  monClock' = monClock
    BY <2>1 DEF MonPropose, MonPromptLate, MonConfirm
  <2>2. ASSUME NEW j \in MonJobs, \/ MonIngest(j) \/ MonClaim(j) \/ MonNotDue(j) \/ MonFirstNext(j)
                                  \/ MonButton(j) \/ MonRunByName(j) \/ MonEditForm(j)
        PROVE  monClock' = monClock
    BY <2>2 DEF MonIngest, MonClaim, MonNotDue, MonFirstNext, MonButton, MonRunByName, MonEditForm, MonRead
  <2>3. ASSUME NEW w \in MonSlots, MonWorks(w)
        PROVE  monClock' = monClock
    BY <2>3 DEF MonWorks, MonExecution, MonAgentStarts, MonFinishRead, MonBegin, MonEvaluated, MonDeliver, MonFinishJob, MonRelease
  <2>4. MonHandler \/ MonPass \/ MonRestart \/ UNCHANGED monVars => monClock' = monClock
    BY DEF MonHandler, MonWrite, MonStoreRun, MonRunNow, MonDelete, MonPass, MonRestart, monVars
  <2> QED
    BY <2>1, <2>2, <2>3, <2>4 DEF MonNext, MonLoop, MonWorks
<1>6. monClock' \in 1..MonMaxTime
  BY <1>0, <1>5 DEF MonTick
<1>7. CASE monHand' \in {monHand, MonIdle} /\ monLeft' = monLeft
  BY <1>0, <1>6, <1>7
<1> QED
  BY <1>1, <1>2, <1>3, <1>4, <1>7

(* A confirmation that made a monitor is used up.                           *)
LEMMA MonSpentKept ==
  ASSUME MonTyped, MonSpent, [MonNext]_monVars
  PROVE  /\ monPrompt' \in [MonTokens -> {"none", "kept", "late", "used"}] /\ monMade' \in [MonTokens -> 0..2] /\ MonSpent'
<1>0. /\ monPrompt \in [MonTokens -> {"none", "kept", "late", "used"}] /\ monMade \in [MonTokens -> 0..2]
  BY DEF MonTyped
<1>1. ASSUME NEW t \in MonTokens, NEW j \in MonJobs, MonConfirm(t, j)
      PROVE  /\ monPrompt' \in [MonTokens -> {"none", "kept", "late", "used"}] /\ monMade' \in [MonTokens -> 0..2] /\ MonSpent'
  <2>1. monPrompt' = [monPrompt EXCEPT ![t] = "used"] /\ monPrompt[t] \in {"kept", "late"} /\ monMade[t] = 0
    BY <1>1 DEF MonConfirm, MonTaken, MonSpent
  <2>2. \E n \in {0, 1} : monMade' = [monMade EXCEPT ![t] = n]
    <3>1. CASE monMade' = monMade
      <4>1. monMade' = [monMade EXCEPT ![t] = 0]
        BY <1>0, <2>1, <3>1
      <4> QED
        BY <4>1
    <3>2. CASE monMade' = [monMade EXCEPT ![t] = IF monJobs' # monJobs /\ @ < 2 THEN @ + 1 ELSE @]
      <4>1. (IF monJobs' # monJobs /\ monMade[t] < 2 THEN monMade[t] + 1 ELSE monMade[t]) \in {0, 1}
        BY <2>1
      <4> QED
        BY <3>2, <4>1
    <3> QED
      BY <1>1, <3>1, <3>2 DEF MonConfirm
  <2> QED
    BY <1>0, <2>1, <2>2 DEF MonSpent
<1>2. ASSUME NEW t \in MonTokens, MonPropose(t)
      PROVE  /\ monPrompt' \in [MonTokens -> {"none", "kept", "late", "used"}] /\ monMade' \in [MonTokens -> 0..2] /\ MonSpent'
  <2>1. /\ monMade' = monMade /\ monPrompt[t] = "none"
        /\ monPrompt' = [u \in MonTokens |->
             IF u = t THEN "kept" ELSE IF monPrompt[u] = "late" THEN "used" ELSE monPrompt[u]]
    BY <1>2 DEF MonPropose
  <2>2. monPrompt' \in [MonTokens -> {"none", "kept", "late", "used"}]
    BY <1>0, <2>1
  <2>3. \A u \in MonTokens : monPrompt'[u] # "used" => monPrompt[u] # "used"
    BY <2>1
  <2> QED
    BY <1>0, <2>1, <2>2, <2>3 DEF MonSpent
<1>3. ASSUME NEW t \in MonTokens, MonPromptLate(t)
      PROVE  /\ monPrompt' \in [MonTokens -> {"none", "kept", "late", "used"}] /\ monMade' \in [MonTokens -> 0..2] /\ MonSpent'
  BY <1>0, <1>3 DEF MonPromptLate, MonSpent
<1>4. CASE MonRestart
  <2>1. monMade' = monMade /\ monPrompt' = [t \in MonTokens |-> IF monPrompt[t] = "none" THEN "none" ELSE "used"]
    BY <1>4 DEF MonRestart
  <2> QED
    BY <1>0, <2>1 DEF MonSpent
<1>5. CASE UNCHANGED <<monPrompt, monMade>>
  BY <1>0, <1>5 DEF MonSpent
<1>6. ASSUME NEW j \in MonJobs, \/ MonIngest(j) \/ MonClaim(j) \/ MonNotDue(j) \/ MonFirstNext(j)
                                \/ MonButton(j) \/ MonRunByName(j) \/ MonEditForm(j)
      PROVE  UNCHANGED <<monPrompt, monMade>>
  BY <1>6 DEF MonIngest, MonClaim, MonNotDue, MonFirstNext, MonButton, MonRunByName, MonEditForm, MonRead
<1>7. ASSUME NEW w \in MonSlots, MonWorks(w)
      PROVE  UNCHANGED <<monPrompt, monMade>>
  BY <1>7 DEF MonWorks, MonExecution, MonAgentStarts, MonFinishRead, MonBegin, MonEvaluated, MonDeliver, MonFinishJob, MonRelease
<1>8. MonHandler \/ MonPass \/ MonTick \/ UNCHANGED monVars => UNCHANGED <<monPrompt, monMade>>
  BY DEF MonHandler, MonWrite, MonStoreRun, MonRunNow, MonDelete, MonPass, MonTick, monVars
<1> QED
  BY <1>1, <1>2, <1>3, <1>4, <1>5, <1>6, <1>7, <1>8 DEF MonNext, MonLoop, MonWorks

(* The invariant of the monitors holds at the start and is inductive.       *)
LEMMA MonInvKept == (MonInit => MonInv) /\ (MonInv /\ [MonNext]_monVars => MonInv')
<1>1. MonInit => MonInv
  <2> SUFFICES ASSUME MonInit PROVE MonInv
    OBVIOUS
  <2>1. MonTyped /\ MonSpent
    BY MonBoundsAssumption DEF MonInit, MonNone, MonTyped, MonSpent
  <2>2. MonFlights
    BY DEF MonInit, MonIdle, MonFlights
  <2>3. MonMerging
    BY DEF MonInit, MonIdle, MonMerging, MonMerges
  <2> QED
    BY <2>1, <2>2, <2>3 DEF MonInv
<1>2. ASSUME MonInv, [MonNext]_monVars
      PROVE  MonInv'
  <2>1. MonTyped /\ MonFlights /\ MonSpent /\ MonMerging
    BY <1>2 DEF MonInv
  <2> QED
    BY <1>2, <2>1, MonFlightsKept, MonStoreKept, MonHandKept, MonSpentKept DEF MonInv, MonTyped
<1> QED
  BY <1>1, <1>2

(* What it says of the properties.                                          *)
LEMMA MonInvGives == MonInv => MonTypeOK /\ MonSingleFlight /\ MonConfirmOnce
<1> SUFFICES ASSUME MonInv PROVE MonTypeOK /\ MonSingleFlight /\ MonConfirmOnce
  OBVIOUS
<1>0. MonTyped /\ MonFlights /\ MonSpent
  BY DEF MonInv
<1>1. MonTypeOK
  <2>1. \A w \in MonSlots : monExec[w] = MonIdle \/
          /\ monExec[w].st \in MonStates /\ monExec[w].id \in MonJobs
          /\ monExec[w].copy \in MonJob /\ monExec[w].at \in 1..MonMaxTime
          /\ monExec[w].manual \in BOOLEAN /\ monExec[w].seen \in MonJob \cup {MonAbsent}
    <3> SUFFICES ASSUME NEW w \in MonSlots, monExec[w] # MonIdle
                 PROVE  /\ monExec[w].st \in MonStates /\ monExec[w].id \in MonJobs
                        /\ monExec[w].copy \in MonJob /\ monExec[w].at \in 1..MonMaxTime
                        /\ monExec[w].manual \in BOOLEAN /\ monExec[w].seen \in MonJob \cup {MonAbsent}
      OBVIOUS
    <3>1. monExec[w] \in MonWorking
      BY <1>0 DEF MonTyped
    <3> QED
      BY <3>1 DEF MonWorking, MonStates
  <2>2. monHand = MonIdle \/ (monHand.id \in MonJobs /\ monHand.copy \in MonJob)
    BY <1>0 DEF MonTyped, MonReading
  <2> QED
    BY <1>0, <2>1, <2>2 DEF MonTyped, MonTypeOK
<1>2. MonSingleFlight
  <2> SUFFICES ASSUME NEW j \in MonJobs PROVE Cardinality(MonBusy(j)) <= 1
    BY DEF MonSingleFlight
  <2>1. CASE MonBusy(j) = {}
    BY <2>1, FS_EmptySet
  <2>2. CASE MonBusy(j) # {}
    <3>1. PICK w \in MonBusy(j) : TRUE
      BY <2>2
    <3>2. MonBusy(j) = {w}
      BY <1>0, <3>1 DEF MonFlights, MonRuns, MonBusy
    <3>3. Cardinality({w}) = 1
      BY FS_Singleton, Zenon
    <3> QED
      BY <3>2, <3>3
  <2> QED
    BY <2>1, <2>2
<1>3. MonConfirmOnce
  BY <1>0 DEF MonSpent, MonConfirmOnce
<1> QED
  BY <1>1, <1>2, <1>3

(* Which step moves an execution that is under way, or makes one deliver:   *)
(* its own, or the start.                                                   *)
LEMMA MonMoves ==
  ASSUME MonTyped, [MonNext]_monVars, NEW w \in MonSlots, monExec'[w] # monExec[w],
         monExec[w].st # "idle" \/ monExec'[w].st = "deliver"
  PROVE  MonWorks(w) \/ MonRestart
<1>0. monExec \in [MonSlots -> MonWorking \cup {MonIdle}]
  BY DEF MonTyped
<1>1. ASSUME NEW j \in MonJobs, NEW r \in MonJob, MonBegins(j, r)
      PROVE  FALSE
  <2>1. PICK v \in MonSlots :
          /\ monExec[v].st = "idle"
          /\ monExec' = [monExec EXCEPT ![v] = [st |-> "claimed", id |-> j, copy |-> r, at |-> monClock,
                                                 manual |-> r.once, seen |-> MonAbsent]]
    BY <1>1 DEF MonBegins
  <2>2. PICK new : new = [st |-> "claimed", id |-> j, copy |-> r, at |-> monClock,
                          manual |-> r.once, seen |-> MonAbsent]
    OBVIOUS
  <2>3. new.st = "claimed" /\ monExec' = [monExec EXCEPT ![v] = new]
    BY <2>1, <2>2
  <2>4. w = v /\ monExec'[w] = new
    BY <1>0, <2>3
  <2> QED
    BY <2>1, <2>3, <2>4
<1>2. ASSUME NEW v \in MonSlots, MonWorks(v)
      PROVE  v = w
  <2>1. (\E e : monExec' = [monExec EXCEPT ![v] = e])
    BY <1>2, MonExecutes
  <2> QED
    BY <1>0, <2>1
<1> QED
  BY <1>1, <1>2, MonExecSteps

(* An evaluation under way undoes no edit, no pause, no delete, and clears  *)
(* only the run request it carries out, but for what came between the read  *)
(* and the write of its end.                                                *)
LEMMA MonEditsStep ==
  ASSUME MonTyped, MonMerging, [MonNext]_monVars
  PROVE  \A w \in MonSlots : monExec[w].st # "idle" /\ monExec'[w] # monExec[w] /\ monLeft' = monLeft =>
           \A j \in MonJobs :
             LET r == monJobs[j]  s == monJobs'[j] IN
             \/ monExec[w].id = j /\ MonRaced(monExec[w])
             \/ r = MonAbsent /\ s = MonAbsent
             \/ /\ r # MonAbsent /\ s # MonAbsent /\ s.on = r.on /\ s.rev = r.rev
                /\ s.once = r.once \/ (monExec[w].id = j /\ MonManual(monExec[w]))
<1> SUFFICES ASSUME NEW w \in MonSlots, monExec[w].st # "idle", monExec'[w] # monExec[w], monLeft' = monLeft,
                    NEW j \in MonJobs, ~(monExec[w].id = j /\ MonRaced(monExec[w]))
             PROVE  \/ monJobs[j] = MonAbsent /\ monJobs'[j] = MonAbsent
                    \/ /\ monJobs[j] # MonAbsent /\ monJobs'[j] # MonAbsent
                       /\ monJobs'[j].on = monJobs[j].on /\ monJobs'[j].rev = monJobs[j].rev
                       /\ monJobs'[j].once = monJobs[j].once \/ (monExec[w].id = j /\ MonManual(monExec[w]))
  OBVIOUS
<1>1. ~MonRestart
  BY MonBoundsAssumption DEF MonTyped, MonRestart
<1>2. MonWorks(w)
  BY <1>1, MonMoves
<1>3. CASE monJobs' = monJobs
  BY <1>3
<1>4. CASE MonFinishJob(w) /\ monJobs' # monJobs
  <2>1. /\ monExec[w].st = "merge" /\ monExec[w].id \in MonJobs /\ monExec[w].copy \in MonJob
        /\ monJobs' = [monJobs EXCEPT ![monExec[w].id] = monExec[w].copy]
    BY <1>4, MonFinishIs
  <2>2. monJobs \in [MonJobs -> MonJob \cup {MonAbsent}]
    BY DEF MonTyped
  <2>3. CASE j # monExec[w].id
    BY <2>1, <2>2, <2>3
  <2>4. CASE j = monExec[w].id
    <3>1. monJobs'[j] = monExec[w].copy /\ monJobs[j] = monExec[w].seen
      BY <2>1, <2>2, <2>4 DEF MonRaced
    <3>2. /\ monExec[w].seen \in MonJob
          /\ monExec[w].copy.on = monExec[w].seen.on /\ monExec[w].copy.rev = monExec[w].seen.rev
          /\ monExec[w].copy.once = monExec[w].seen.once \/ MonManual(monExec[w])
      BY <2>1 DEF MonMerging, MonMerges, MonManual
    <3> QED
      BY <2>1, <2>4, <3>1, <3>2, MonAbsentAssumption
  <2> QED
    BY <2>3, <2>4
<1> QED
  BY <1>2, <1>3, <1>4
     DEF MonWorks, MonExecution, MonAgentStarts, MonBegin, MonEvaluated, MonDeliver, MonFinishRead, MonRelease

(* A notification is for the monitor as it is stored at that moment.        *)
LEMMA MonNotifiesStep ==
  ASSUME MonTyped, [MonNext]_monVars
  PROVE  \A w \in MonSlots : monExec[w].st # "deliver" /\ monExec'[w].st = "deliver" =>
           LET e == monExec'[w] IN
           /\ MonStored(e.id) /\ e.copy.rev = monJobs[e.id].rev
           /\ monJobs[e.id].on \/ MonManual(monExec[w])
<1> SUFFICES ASSUME NEW w \in MonSlots, monExec[w].st # "deliver", monExec'[w].st = "deliver"
             PROVE  /\ MonStored(monExec'[w].id) /\ monExec'[w].copy.rev = monJobs[monExec'[w].id].rev
                    /\ monJobs[monExec'[w].id].on \/ MonManual(monExec[w])
  OBVIOUS
<1>0. monExec \in [MonSlots -> MonWorking \cup {MonIdle}]
  BY DEF MonTyped
<1>1. ~MonRestart
  BY DEF MonRestart, MonIdle
<1>2. MonWorks(w)
  BY <1>1, MonMoves
<1>3. monExec[w] \in MonWorking /\ monExec[w].id \in MonJobs
  BY <1>2, MonExecutes, MonTypesSay
<1>4. ASSUME NEW st, NEW copy, MonGoes(w, st, copy)
      PROVE  monExec'[w].st = st /\ monExec'[w].copy = copy /\ monExec'[w].id = monExec[w].id
  <2>1. monExec'[w] = [monExec[w] EXCEPT !.st = st, !.copy = copy]
    BY <1>0, <1>4 DEF MonGoes
  <2> QED
    BY <1>3, <2>1 DEF MonWorking
<1>5. MonEvaluated(w)
  <2>1. ~MonRelease(w)
    BY <1>0 DEF MonRelease, MonIdle
  <2>2. ~MonBegin(w) /\ ~MonAgentStarts(w) /\ ~MonFinishJob(w) /\ ~MonDeliver(w)
    BY <1>4 DEF MonBegin, MonAgentStarts, MonFinishJob, MonDeliver
  <2>3. ~MonFinishRead(w)
    <3>1. ASSUME NEW copy, NEW seen,
                 monExec' = [monExec EXCEPT ![w] = [monExec[w] EXCEPT !.st = "merge", !.copy = copy, !.seen = seen]]
          PROVE  FALSE
      <4>1. monExec'[w] = [monExec[w] EXCEPT !.st = "merge", !.copy = copy, !.seen = seen]
        BY <1>0, <3>1
      <4> QED
        BY <1>3, <4>1 DEF MonWorking
    <3>2. ~MonGoes(w, "stopping", monExec[w].copy)
      BY <1>4
    <3> QED
      BY <3>1, <3>2 DEF MonFinishRead
  <2> QED
    BY <1>2, <2>1, <2>2, <2>3 DEF MonWorks, MonExecution
<1>6. MonMayNotify(monExec[w]) /\ MonGoes(w, "deliver", monJobs[monExec[w].id])
  BY <1>4, <1>5 DEF MonEvaluated
<1>7. monExec'[w].id = monExec[w].id /\ monExec'[w].copy = monJobs[monExec[w].id]
  BY <1>4, <1>6
<1> QED
  BY <1>6, <1>7 DEF MonMayNotify

(* The monitors by themselves: one evaluation of a monitor at a time, one   *)
(* monitor of a confirmation, no edit undone but one between the read and   *)
(* the write of an end, no notification that is old.                        *)
THEOREM MonInvariant ==
  MonSpec => [](MonTypeOK /\ MonSingleFlight /\ MonConfirmOnce) /\ MonKeepsEdits /\ MonNotifiesCurrent
<1>1. MonInv /\ [MonNext]_monVars =>
        [\A w \in MonSlots : monExec[w].st # "idle" /\ monExec'[w] # monExec[w] /\ monLeft' = monLeft =>
           \A j \in MonJobs :
             LET r == monJobs[j]  s == monJobs'[j] IN
             \/ monExec[w].id = j /\ MonRaced(monExec[w])
             \/ r = MonAbsent /\ s = MonAbsent
             \/ /\ r # MonAbsent /\ s # MonAbsent /\ s.on = r.on /\ s.rev = r.rev
                /\ s.once = r.once \/ (monExec[w].id = j /\ MonManual(monExec[w]))]_monVars
  BY MonEditsStep DEF MonInv
<1>2. MonInv /\ [MonNext]_monVars =>
        [\A w \in MonSlots : monExec[w].st # "deliver" /\ monExec'[w].st = "deliver" =>
           LET e == monExec'[w] IN
           /\ MonStored(e.id) /\ e.copy.rev = monJobs[e.id].rev
           /\ monJobs[e.id].on \/ MonManual(monExec[w])]_monVars
  BY MonNotifiesStep DEF MonInv
<1>3. MonSpec => []MonInv
  BY MonInvKept, PTL DEF MonSpec
<1>4. MonSpec => MonKeepsEdits
  BY <1>1, <1>3, PTL DEF MonSpec, MonKeepsEdits
<1>5. MonSpec => MonNotifiesCurrent
  BY <1>2, <1>3, PTL DEF MonSpec, MonNotifiesCurrent
<1> QED
  BY <1>3, <1>4, <1>5, MonInvGives, PTL

-----------------------------------------------------------------------------
(* The watchdog. The process ends with the failure that reaches the limit.  *)
GwInv == GwTypeOK /\ (gwFails < GwMaxAttempts \/ gwExited)

(* It holds at the start and is inductive.                                  *)
LEMMA GwInvKept == (GwInit => GwInv) /\ (GwInv /\ [GwNext]_gwVars => GwInv')
<1>0. 0 \in 0..GwMaxAttempts /\ 0 < GwMaxAttempts
  BY GwAttemptsAssumption
<1>1. GwInit => GwInv
  BY <1>0, Zenon DEF GwInit, GwInv, GwTypeOK
<1>2. ASSUME GwInv, GwUp, GwFailed
      PROVE  gwFails' \in 0..GwMaxAttempts /\ gwExited' \in BOOLEAN /\ (gwFails' < GwMaxAttempts \/ gwExited')
  <2>1. gwFails \in 0..GwMaxAttempts /\ gwFails < GwMaxAttempts /\ GwMaxAttempts \in Nat
    BY <1>2, GwAttemptsAssumption DEF GwInv, GwTypeOK, GwUp
  <2>2. gwFails' = gwFails + 1 /\ gwExited' = (gwFails' >= GwMaxAttempts)
    BY <1>2 DEF GwFailed
  <2>3. gwFails' \in 0..GwMaxAttempts /\ (gwFails' < GwMaxAttempts \/ gwFails' >= GwMaxAttempts)
    BY <2>1, <2>2
  <2>4. (gwFails' >= GwMaxAttempts) \in BOOLEAN
    BY <2>1, <2>3
  <2> QED
    BY <2>2, <2>3, <2>4, Zenon
<1>3. ASSUME GwInv, [GwNext]_gwVars
      PROVE  GwInv'
  <2>0. /\ gwLink \in {"ready", "quiet", "stale"} /\ gwRecovery \in {"none", "waited for", "late"}
        /\ gwFails \in 0..GwMaxAttempts /\ gwExited \in BOOLEAN /\ (gwFails < GwMaxAttempts \/ gwExited)
        /\ 0 \in 0..GwMaxAttempts /\ 0 < GwMaxAttempts
    BY <1>0, <1>3, Zenon DEF GwInv, GwTypeOK
  <2> SUFFICES /\ gwLink' \in {"ready", "quiet", "stale"} /\ gwRecovery' \in {"none", "waited for", "late"}
               /\ gwFails' \in 0..GwMaxAttempts /\ gwExited' \in BOOLEAN /\ (gwFails' < GwMaxAttempts \/ gwExited')
    BY DEF GwInv, GwTypeOK
  <2>1. CASE GwSession
    <3>1. gwFails' = gwFails /\ gwExited' = gwExited /\ gwRecovery' = gwRecovery /\ gwLink' \in {"ready", "quiet", "stale"}
      BY <2>1 DEF GwSession
    <3> QED
      BY <2>0, <3>1
  <2>2. CASE GwHung \/ GwOpenFailed
    <3>1. GwUp /\ GwFailed /\ gwLink' = gwLink /\ gwRecovery' \in {gwRecovery, "none", "late"}
      BY <2>2 DEF GwHung, GwOpenFailed
    <3> QED
      BY <1>2, <1>3, <2>0, <3>1
  <2>3. CASE GwFresh \/ GwRecover \/ GwOpened \/ GwLateEnd
    <3>1. /\ gwFails' \in {0, gwFails} /\ gwExited' = gwExited
          /\ gwLink' \in {gwLink, "ready", "quiet"} /\ gwRecovery' \in {gwRecovery, "none", "waited for"}
      BY <2>3 DEF GwFresh, GwRecover, GwOpened, GwLateEnd
    <3> QED
      BY <2>0, <3>1
  <2>4. CASE UNCHANGED gwVars
    BY <2>0, <2>4 DEF gwVars
  <2> QED
    BY <1>3, <2>1, <2>2, <2>3, <2>4 DEF GwNext, GwRun
<1> QED
  BY <1>1, <1>3

-----------------------------------------------------------------------------
(* The whole. A behaviour of it is one of each part, if the others wait.    *)
LEMMA SchedParts == SchedSpec => CronSpec /\ MonSpec /\ GwSpec
<1>1. SchedInit => CronInit /\ MonInit /\ GwInit
  BY DEF SchedInit
<1>2. [SchedCron \/ SchedMonitor \/ SchedGateway]_schedVars => [CronNext]_cronVars /\ [MonNext]_monVars /\ [GwNext]_gwVars
  BY DEF SchedCron, SchedMonitor, SchedGateway, schedVars
<1> QED
  BY <1>1, <1>2, PTL DEF SchedSpec, CronSpec, MonSpec, GwSpec

(* The types of the whole (SchedTypeOK): jobs, monitors and the watchdog,   *)
(* whose failures never pass the number that ends the process.              *)
THEOREM SchedTypes == SchedSpec => []SchedTypeOK
<1>1. GwSpec => []GwTypeOK
  <2>1. GwInv => GwTypeOK
    BY DEF GwInv
  <2> QED
    BY <2>1, GwInvKept, PTL DEF GwSpec
<1>2. CronTypeOK /\ MonTypeOK /\ GwTypeOK => SchedTypeOK
  BY DEF SchedTypeOK
<1> QED
  BY <1>1, <1>2, SchedParts, CronInvariant, MonInvariant, PTL

(* Nothing is done twice (SchedOnce): no job and no monitor is run by two   *)
(* goroutines at a time, and a confirmation makes one monitor at most.      *)
THEOREM SchedRunsOnce == SchedSpec => []SchedOnce
<1>1. CronSingleFlight /\ MonSingleFlight /\ MonConfirmOnce => SchedOnce
  BY DEF SchedOnce
<1> QED
  BY <1>1, SchedParts, CronInvariant, MonInvariant, PTL

(* An accepted reminder is on disk until it was sent, is sent once, and as  *)
(* last edited (CronReminders), whatever handlers, executions, failing      *)
(* writes and starts of the process do in between.                          *)
THEOREM SchedReminders == SchedSpec => []CronReminders
BY SchedParts, CronInvariant, PTL

(* No step loses what somebody decided (SchedEdits): a start takes no       *)
(* overdue run away, an evaluation undoes no edit, pause, delete or         *)
(* requested run, but one between the read and the write of its end, and a  *)
(* notification is for the monitor as it reads now.                         *)
THEOREM SchedKeepsEdits == SchedSpec => SchedEdits
<1>1. [CronNext]_cronVars =>
        [CronRestart =>
           \A j \in CronJobs : LET r == cronDisk[j] IN
             r # CronAbsent /\ r.on /\ r.next \in 1..cronClock => cronMem'[j].next = r.next]_cronVars
  BY CronOverdueStep
<1>2. CronSpec => CronOverdueKept
  BY <1>1, PTL DEF CronSpec, CronOverdueKept
<1>3. CronOverdueKept /\ MonKeepsEdits /\ MonNotifiesCurrent => SchedEdits
  BY DEF SchedEdits
<1> QED
  BY <1>2, <1>3, SchedParts, MonInvariant, PTL
=============================================================================
