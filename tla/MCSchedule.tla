----------------------------- MODULE MCSchedule -----------------------------
(* The scheduled work, for TLC: the cron jobs and reminders, the monitors  *)
(* and the watchdog of the gateway. They share the heartbeat and no state, *)
(* so that a behaviour moves one of them, chosen at the start.             *)
EXTENDS Cron, Monitor, Gateway

CONSTANTS j1, w1, w2, t1

VARIABLE part
schedVars == <<part, cronVars, monVars, gwVars>>

SchedInit == part \in {"cron", "monitor", "gateway"} /\ CronInit /\ MonInit /\ GwInit
SchedCron == part = "cron" /\ CronNext /\ UNCHANGED <<part, monVars, gwVars>>
SchedMonitor == part = "monitor" /\ MonNext /\ UNCHANGED <<part, cronVars, gwVars>>
SchedGateway == part = "gateway" /\ GwNext /\ UNCHANGED <<part, cronVars, monVars>>

(* The fairness of each module, for the behaviours that move it.           *)
SchedFairness ==
  /\ \A j \in CronJobs : WF_schedVars(part = "cron" /\ CronHeartbeat(j) /\ UNCHANGED <<part, monVars, gwVars>>)
  /\ \A w \in CronSlots : WF_schedVars(part = "cron" /\ CronExecution(w) /\ UNCHANGED <<part, monVars, gwVars>>)
  /\ WF_schedVars(part = "monitor" /\ MonLoop /\ UNCHANGED <<part, cronVars, gwVars>>)
  /\ SF_schedVars(part = "monitor" /\ MonWritten /\ UNCHANGED <<part, cronVars, gwVars>>)
  /\ \A w \in MonSlots : WF_schedVars(part = "monitor" /\ MonExecution(w) /\ UNCHANGED <<part, cronVars, gwVars>>)
  /\ WF_schedVars(part = "gateway" /\ GwRun /\ UNCHANGED <<part, cronVars, monVars>>)

SchedSpec == SchedInit /\ [][SchedCron \/ SchedMonitor \/ SchedGateway]_schedVars /\ SchedFairness

-----------------------------------------------------------------------------
SchedTypeOK == CronTypeOK /\ MonTypeOK /\ GwTypeOK

(* Nothing is done twice: no job and no monitor runs twice at a time,      *)
(* whoever starts it (running.LoadOrStore), and a confirmation makes one   *)
(* monitor at most (TakePendingMonitor).                                   *)
SchedOnce == CronSingleFlight /\ MonSingleFlight /\ MonConfirmOnce

(* An accepted reminder is sent, once, and as last edited: it is on disk   *)
(* until it was sent, and an execution and an update exclude each other.   *)
CronReminders == CronReminderKept /\ CronRemindOnce /\ CronSendsLastEdit

(* No step loses what somebody decided: a start keeps overdue jobs due, an *)
(* evaluation under way undoes no edit, pause, delete or requested run but *)
(* one that comes between the read and the write of its end, and a         *)
(* notification is for the monitor as it reads now.                        *)
SchedEdits == CronOverdueKept /\ MonKeepsEdits /\ MonNotifiesCurrent

(* What must happen in the end: due jobs and requested runs are carried    *)
(* out, unless an agent never gets through its start, and a stale gateway  *)
(* is attended to.                                                         *)
SchedServed == CronDueRuns /\ MonRunServed /\ GwStaleAttended
=============================================================================
