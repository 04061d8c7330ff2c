------------------------------- MODULE Worker -------------------------------
(***************************************************************************)
(* The job worker of one Discord target (channel/worker.go): a bounded job *)
(* queue, the run loop that takes one job at a time, the asynchronous ACP  *)
(* prompt with its OnComplete callback, the read-error callback, and the   *)
(* cancel / timeout / interrupt / stop escalations that race with them.    *)
(*                                                                         *)
(* Threads: the run loop (loop), one prompt goroutine per job (ask), the   *)
(* transport's reader goroutine (reader), one user command at a time       *)
(* (user), and per job a timeout watcher and an escalation goroutine.      *)
(* Every critical section of cancelMu is one action; what the code does    *)
(* between two critical sections is a different action.                    *)
(* A job's sequence number (currentJobSeq) is the job itself: a job is     *)
(* executed at most once, so the two identify each other.                  *)
(***************************************************************************)
EXTENDS Naturals, Sequences, FiniteSets

CONSTANTS
  Jobs,      \* the requests that callers may enqueue
  NoJob,     \* "no job": a nil cancelFn, sequence number 0
  Inline,    \* jobs delivered inline; the others go to a Discord thread
  InThread,  \* jobs that carry the ID of an existing thread (follow-ups)
  Remote,    \* jobs with an A2AResult channel
  QueueCap,  \* capacity of the queue channel (QUEUE_BUFFER_SIZE)
  Faults     \* what the environment may do, a subset of AllFaults

AllFaults == {"crash", "readError", "cancel", "interrupt", "timeout", "stop", "archive"}

ASSUME JobsAssumption ==
  /\ NoJob \notin Jobs
  /\ Inline \subseteq Jobs /\ Remote \subseteq Jobs /\ InThread \subseteq Jobs \ Inline
ASSUME QueueCapAssumption == QueueCap \in Nat \ {0}
ASSUME FaultsAssumption == Faults \subseteq AllFaults
(* Only a thread agent's worker is archived, and EnqueueThread gives it    *)
(* nothing but follow-ups of its own thread.                               *)
ASSUME ArchiveAssumption == "archive" \in Faults => Jobs = InThread

VARIABLES
  queue, queuedJobs, currentJobDequeued, idleCh, loop,
  currentJobActive, currentJobSeq, cancelFn, pendingInterruptSeq,
  phase,     \* [Jobs -> JobPhase]: where the job is
  ctx,       \* [Jobs -> CtxState]: the job's timeout context
  ask,       \* [Jobs -> AskState]: the goroutine of AskAsyncMulti
  once,      \* [Jobs -> OnceState]: finishOnce, or beginFinish's flag
  replies,   \* [Jobs -> Nat]: final replies sent to Discord
  results,   \* [Jobs -> Nat]: A2A results emitted
  agent,     \* "up", "stopping" (agent.Stop is under way) or "dead"
  conn,      \* the transport: "up" until ReadLoop ends, then "closed"
  reader,    \* the ReadLoop goroutine and its read-error callback
  readErrorOwner,  \* the job whose OnReadErrorFunc is registered
  user,      \* a CancelCurrent or InterruptCurrent under way
  watched,   \* jobs whose timeout watcher has fired
  grace,     \* [stage -> jobs whose timer of that stage is running]
  verdict,   \* [stage -> jobs found still active when that timer fired]
  stopped, archive

queueVars == <<queue, queuedJobs, currentJobDequeued, idleCh, loop>>
lockVars  == <<currentJobActive, currentJobSeq, cancelFn, pendingInterruptSeq>>
jobVars   == <<phase, ctx, ask, once, replies, results>>
agentVars == <<agent, conn, reader, readErrorOwner>>
escVars   == <<user, watched, grace, verdict>>
lifeVars  == <<stopped, archive>>
vars == <<queueVars, lockVars, jobVars, agentVars, escVars, lifeVars>>

JobPhase  == {"new", "counted", "queued", "held", "running", "done", "refused", "dropped"}
CtxState  == {"none", "live", "deadline", "canceled"}
AskState  == {"none", "sent", "answered", "replying", "finish", "signal", "done"}
OnceState == {"no", "busy", "yes"}
LoopPc    == {"select", "popped", "wait", "token", "begin", "setup", "register",
              "compact", "check", "prompt", "fallback", "fallbackAsk", "finish",
              "signal", "return", "exit"}
ReaderPc  == {"reading", "failed", "handling", "finish", "signal", "done"}
Stage     == {"interrupt", "stop"}

(* HasWork (worker.go:435), the test the manager makes before it reclaims. *)
HasWork == currentJobActive \/ currentJobDequeued \/ queuedJobs > 0

Init ==
  /\ queue = <<>> /\ queuedJobs = 0 /\ currentJobDequeued = FALSE
  /\ idleCh = TRUE                        \* Start pre-fills the token
  /\ loop = [pc |-> "select", job |-> NoJob]
  /\ currentJobActive = FALSE /\ currentJobSeq = NoJob
  /\ cancelFn = NoJob /\ pendingInterruptSeq = NoJob
  /\ phase = [j \in Jobs |-> "new"] /\ ctx = [j \in Jobs |-> "none"]
  /\ ask = [j \in Jobs |-> "none"] /\ once = [j \in Jobs |-> "no"]
  /\ replies = [j \in Jobs |-> 0] /\ results = [j \in Jobs |-> 0]
  /\ agent = "up" /\ conn = "up" /\ readErrorOwner = NoJob
  /\ reader = [pc |-> "reading", job |-> NoJob]
  /\ user = [op |-> "none", job |-> NoJob]
  /\ watched = {}
  /\ grace = [s \in Stage |-> {}] /\ verdict = [s \in Stage |-> {}]
  /\ stopped = FALSE /\ archive = "open"

-----------------------------------------------------------------------------
(* Helpers: fragments of the handlers below. *)

LoopAt(pc, j) == loop = [pc |-> pc, job |-> j]
Goto(pc, j) == loop' = [pc |-> pc, job |-> j]

(* cancel(): a context that is already done keeps its first error. *)
Canceled(j) == [ctx EXCEPT ![j] = IF @ = "live" THEN "canceled" ELSE @]

(* One more final reply, and one more A2A result when the job has a channel. *)
Reply(j) == replies' = [replies EXCEPT ![j] = @ + 1]
EmitA2AResult(j) ==
  results' = IF j \in Remote THEN [results EXCEPT ![j] = @ + 1] ELSE results

(* Mutant of ClearCurrent: the cancel function stays registered.           *)
ClearCurrentKeepsCancel(j) ==
  /\ currentJobActive' = FALSE
  /\ pendingInterruptSeq' = IF pendingInterruptSeq = currentJobSeq THEN NoJob
                                                                   ELSE pendingInterruptSeq
  /\ phase' = [phase EXCEPT ![j] = "done"]
  /\ UNCHANGED <<cancelFn, currentJobSeq>>

(* The critical section of finishJob. It clears whatever job is current. *)
ClearCurrent(j) ==
  /\ cancelFn' = NoJob /\ currentJobActive' = FALSE
  /\ pendingInterruptSeq' = IF pendingInterruptSeq = currentJobSeq THEN NoJob
                                                                   ELSE pendingInterruptSeq
  /\ phase' = [phase EXCEPT ![j] = "done"]
  /\ UNCHANGED currentJobSeq

(* Mutant of ClaimFinish: no sync.Once around finishJob.                   *)
ClaimFinishTwice(j) ==
  /\ once' = IF j \in Inline THEN once ELSE [once EXCEPT ![j] = "busy"]
  /\ ClearCurrent(j)

(* finishJob of a thread job runs once: a second caller waits for the first. *)
ClaimFinish(j) ==
  /\ j \notin Inline => once[j] = "no"
  /\ once' = IF j \in Inline THEN once ELSE [once EXCEPT ![j] = "busy"]
  /\ ClearCurrent(j)

FinishedByOther(j) == j \notin Inline /\ once[j] = "yes"

(* signalIdle with the onIdle callback of a thread worker.                 *)
CloseNow == archive = "deferred" /\ ~HasWork
SignalIdle(j) ==
  /\ once' = [once EXCEPT ![j] = IF @ = "busy" THEN "yes" ELSE @]
  /\ \/ stopped /\ UNCHANGED <<idleCh, stopped, archive, agent>>
     \/ /\ ~stopped /\ CloseNow
        /\ stopped' = TRUE /\ archive' = "closed"
        /\ agent' = IF agent = "up" THEN "stopping" ELSE agent
        /\ UNCHANGED idleCh
     \/ /\ ~stopped /\ ~CloseNow
        /\ idleCh' = TRUE
        /\ UNCHANGED <<stopped, archive, agent>>

(* scheduleInterruptEscalation: its guarded critical section. *)
ScheduleInterrupt(j) ==
  IF cancelFn # NoJob /\ currentJobSeq = j /\ pendingInterruptSeq # j
    THEN /\ pendingInterruptSeq' = j
         /\ grace' = [grace EXCEPT !["interrupt"] = @ \cup {j}]
    ELSE UNCHANGED <<pendingInterruptSeq, grace>>

-----------------------------------------------------------------------------
(* Callers: Enqueue counts the job, then tries the channel send.           *)

EnqueueCount(j) ==
  /\ phase[j] = "new" /\ ~stopped
  /\ \A k \in Jobs : phase[k] # "counted"        \* callers hold the manager's mutex
  /\ queuedJobs' = queuedJobs + 1
  /\ phase' = [phase EXCEPT ![j] = "counted"]
  /\ UNCHANGED <<queue, currentJobDequeued, idleCh, loop, ctx, ask, once, replies, results>>
  /\ UNCHANGED <<lockVars, agentVars, escVars, lifeVars>>

(* Mutant of EnqueueSend: the channel takes one job more than its capacity. *)
EnqueueSendOverflow(j) ==
  /\ phase[j] = "counted"
  /\ \/ /\ Len(queue) <= QueueCap
        /\ queue' = Append(queue, j) /\ phase' = [phase EXCEPT ![j] = "queued"]
        /\ UNCHANGED queuedJobs
     \/ /\ Len(queue) > QueueCap
        /\ queuedJobs' = IF queuedJobs > 0 THEN queuedJobs - 1 ELSE 0
        /\ phase' = [phase EXCEPT ![j] = "refused"]
        /\ UNCHANGED queue
  /\ UNCHANGED <<currentJobDequeued, idleCh, loop, ctx, ask, once, replies, results>>
  /\ UNCHANGED <<lockVars, agentVars, escVars, lifeVars>>

EnqueueSend(j) ==
  /\ phase[j] = "counted"
  /\ \/ /\ Len(queue) < QueueCap
        /\ queue' = Append(queue, j) /\ phase' = [phase EXCEPT ![j] = "queued"]
        /\ UNCHANGED queuedJobs
     \/ /\ Len(queue) = QueueCap                 \* "queue full"
        /\ queuedJobs' = IF queuedJobs > 0 THEN queuedJobs - 1 ELSE 0
        /\ phase' = [phase EXCEPT ![j] = "refused"]
        /\ UNCHANGED queue
  /\ UNCHANGED <<currentJobDequeued, idleCh, loop, ctx, ask, once, replies, results>>
  /\ UNCHANGED <<lockVars, agentVars, escVars, lifeVars>>

-----------------------------------------------------------------------------
(* The run loop: select, markJobDequeuedFromQueue, waitIdle, execute.      *)

LoopExit ==
  /\ LoopAt("select", NoJob) /\ stopped
  /\ Goto("exit", NoJob)
  /\ UNCHANGED <<queue, queuedJobs, currentJobDequeued, idleCh>>
  /\ UNCHANGED <<lockVars, jobVars, agentVars, escVars, lifeVars>>

Dequeue ==
  /\ LoopAt("select", NoJob) /\ queue # <<>>
  /\ queue' = Tail(queue) /\ Goto("popped", Head(queue))
  /\ phase' = [phase EXCEPT ![Head(queue)] = "held"]
  /\ UNCHANGED <<queuedJobs, currentJobDequeued, idleCh, ctx, ask, once, replies, results>>
  /\ UNCHANGED <<lockVars, agentVars, escVars, lifeVars>>

MarkDequeued(j) ==
  /\ LoopAt("popped", j)
  /\ queuedJobs' = IF queuedJobs > 0 THEN queuedJobs - 1 ELSE 0
  /\ currentJobDequeued' = TRUE
  /\ Goto("wait", j)
  /\ UNCHANGED <<queue, idleCh, lockVars, jobVars, agentVars, escVars, lifeVars>>

(* Mutant of DropHeld: waitIdle does not watch the stop channel.           *)
DropHeldAfterToken(j) ==
  /\ LoopAt("token", j) /\ stopped
  /\ currentJobDequeued' = FALSE
  /\ phase' = [phase EXCEPT ![j] = "dropped"]
  /\ Goto("exit", NoJob)
  /\ UNCHANGED <<queue, queuedJobs, idleCh, ctx, ask, once, replies, results>>
  /\ UNCHANGED <<lockVars, agentVars, escVars, lifeVars>>

(* waitIdle and the isStopped tests after it: the held job is dropped.     *)
DropHeld(j) ==
  /\ loop.pc \in {"wait", "token"} /\ loop.job = j /\ stopped
  /\ currentJobDequeued' = FALSE
  /\ phase' = [phase EXCEPT ![j] = "dropped"]
  /\ Goto("exit", NoJob)
  /\ UNCHANGED <<queue, queuedJobs, idleCh, ctx, ask, once, replies, results>>
  /\ UNCHANGED <<lockVars, agentVars, escVars, lifeVars>>

TakeToken(j) ==
  /\ LoopAt("wait", j) /\ idleCh
  /\ idleCh' = FALSE /\ Goto("token", j)
  /\ UNCHANGED <<queue, queuedJobs, currentJobDequeued>>
  /\ UNCHANGED <<lockVars, jobVars, agentVars, escVars, lifeVars>>

PassStopCheck(j) ==
  /\ LoopAt("token", j) /\ ~stopped
  /\ Goto("begin", j)
  /\ UNCHANGED <<queue, queuedJobs, currentJobDequeued, idleCh>>
  /\ UNCHANGED <<lockVars, jobVars, agentVars, escVars, lifeVars>>

(* Mutant of Reject: the rejection returns without signalIdle.             *)
RejectSilently(j) ==
  /\ LoopAt("begin", j)
  /\ IF j \in Remote THEN EmitA2AResult(j) /\ UNCHANGED replies
                     ELSE Reply(j) /\ UNCHANGED results
  /\ phase' = [phase EXCEPT ![j] = "done"]
  /\ Goto("return", j)
  /\ UNCHANGED <<queue, queuedJobs, currentJobDequeued, idleCh, ctx, ask, once>>
  /\ UNCHANGED <<lockVars, agentVars, escVars, lifeVars>>

(* rejectForUsageLimit: the job ends before it becomes active.             *)
Reject(j) ==
  /\ LoopAt("begin", j)
  /\ IF j \in Remote THEN EmitA2AResult(j) /\ UNCHANGED replies
                     ELSE Reply(j) /\ UNCHANGED results
  /\ phase' = [phase EXCEPT ![j] = "done"]
  /\ Goto("signal", j)
  /\ UNCHANGED <<queue, queuedJobs, currentJobDequeued, idleCh, ctx, ask, once>>
  /\ UNCHANGED <<lockVars, agentVars, escVars, lifeVars>>

StartJob(j) ==
  /\ LoopAt("begin", j)
  /\ currentJobActive' = TRUE /\ currentJobSeq' = j
  /\ phase' = [phase EXCEPT ![j] = "running"]
  /\ Goto("setup", j)
  /\ UNCHANGED <<cancelFn, pendingInterruptSeq, ctx, ask, once, replies, results>>
  /\ UNCHANGED <<queue, queuedJobs, currentJobDequeued, idleCh>>
  /\ UNCHANGED <<agentVars, escVars, lifeVars>>

(* threadForMessage fails: an A2A job ends, another one falls back to the channel. *)
ThreadFail(j) ==
  /\ LoopAt("setup", j) /\ j \notin Inline \cup InThread
  /\ EmitA2AResult(j)
  /\ Goto(IF j \in Remote THEN "finish" ELSE "fallback", j)
  /\ UNCHANGED <<queue, queuedJobs, currentJobDequeued, idleCh, phase, ctx, ask, once, replies>>
  /\ UNCHANGED <<lockVars, agentVars, escVars, lifeVars>>

(* The timeout context exists and cancelFn points at it.                   *)
Arm(j) ==
  /\ loop.job = j /\ loop.pc \in {"setup", "fallback"}
  /\ ctx' = [ctx EXCEPT ![j] = "live"] /\ cancelFn' = j
  /\ Goto(IF loop.pc = "setup" THEN "register" ELSE "fallbackAsk", j)
  /\ UNCHANGED <<currentJobActive, currentJobSeq, pendingInterruptSeq>>
  /\ UNCHANGED <<queue, queuedJobs, currentJobDequeued, idleCh>>
  /\ UNCHANGED <<phase, ask, once, replies, results, agentVars, escVars, lifeVars>>

RegisterReadError(j) ==
  /\ LoopAt("register", j)
  /\ readErrorOwner' = j /\ Goto("compact", j)
  /\ UNCHANGED <<queue, queuedJobs, currentJobDequeued, idleCh, agent, conn, reader>>
  /\ UNCHANGED <<lockVars, jobVars, escVars, lifeVars>>

(* autoCompactIfNeeded returns no error: nothing to compact, or compacted. *)
CompactOk(j) ==
  /\ LoopAt("compact", j) /\ Goto("check", j)
  /\ UNCHANGED <<queue, queuedJobs, currentJobDequeued, idleCh>>
  /\ UNCHANGED <<lockVars, jobVars, agentVars, escVars, lifeVars>>

(* The compaction failed: cancel, reply, emit, then finish. An inline job  *)
(* whose read-error callback already began finishing returns at once.      *)
CompactFail(j) ==
  /\ LoopAt("compact", j)
  /\ \/ /\ j \in Inline /\ once[j] # "no"
        /\ Goto("return", j) /\ UNCHANGED <<once, ctx, replies, results>>
     \/ /\ j \in Inline => once[j] = "no"
        /\ once' = IF j \in Inline THEN [once EXCEPT ![j] = "yes"] ELSE once
        /\ ctx' = Canceled(j)
        /\ Reply(j) /\ EmitA2AResult(j) /\ Goto("finish", j)
  /\ UNCHANGED <<queue, queuedJobs, currentJobDequeued, idleCh, phase, ask>>
  /\ UNCHANGED <<lockVars, agentVars, escVars, lifeVars>>

(* "if ctx.Err() != nil": a canceled or expired job is not prompted.       *)
CheckCtx(j) ==
  /\ LoopAt("check", j)
  /\ Goto(IF ctx[j] = "live" THEN "prompt" ELSE "finish", j)
  /\ UNCHANGED <<queue, queuedJobs, currentJobDequeued, idleCh>>
  /\ UNCHANGED <<lockVars, jobVars, agentVars, escVars, lifeVars>>

AskAsyncMulti(j) ==
  /\ LoopAt("prompt", j)
  /\ ask' = [ask EXCEPT ![j] = "sent"] /\ Goto("return", j)
  /\ UNCHANGED <<queue, queuedJobs, currentJobDequeued, idleCh>>
  /\ UNCHANGED <<phase, ctx, once, replies, results, lockVars, agentVars, escVars, lifeVars>>

(* executeFallback could not send its placeholder message: nothing was armed. *)
FallbackSendFail(j) ==
  /\ LoopAt("fallback", j) /\ Goto("finish", j)
  /\ UNCHANGED <<queue, queuedJobs, currentJobDequeued, idleCh>>
  /\ UNCHANGED <<lockVars, jobVars, agentVars, escVars, lifeVars>>

(* executeFallback's compaction and synchronous Ask. The agent may answer; *)
(* Ask returns by itself only when the transport closes or the context is  *)
(* done. A context done right after the compaction leaves no reply.        *)
FallbackReturn(j) ==
  /\ ctx' = Canceled(j)                                          \* defer cancel()
  /\ Goto("finish", j)
  /\ UNCHANGED <<queue, queuedJobs, currentJobDequeued, idleCh, phase, ask, once, results>>
  /\ UNCHANGED <<lockVars, agentVars, escVars, lifeVars>>

FallbackAnswered(j) ==
  LoopAt("fallbackAsk", j) /\ conn = "up" /\ Reply(j) /\ FallbackReturn(j)

FallbackGivesUp(j) ==
  /\ LoopAt("fallbackAsk", j) /\ (conn = "closed" \/ ctx[j] # "live")
  /\ Reply(j) \/ (ctx[j] # "live" /\ UNCHANGED replies)
  /\ FallbackReturn(j)

LoopFinish(j) ==
  /\ LoopAt("finish", j)
  /\ \/ ClaimFinish(j) /\ Goto("signal", j)
     \/ FinishedByOther(j) /\ Goto("return", j) /\ UNCHANGED <<once, phase, lockVars>>
  /\ UNCHANGED <<queue, queuedJobs, currentJobDequeued, idleCh, ctx, ask, replies, results>>
  /\ UNCHANGED <<agentVars, escVars, lifeVars>>

LoopSignal(j) ==
  /\ LoopAt("signal", j)
  /\ SignalIdle(j) /\ Goto("return", j)
  /\ UNCHANGED <<queue, queuedJobs, currentJobDequeued, phase, ctx, ask, replies, results>>
  /\ UNCHANGED <<conn, reader, readErrorOwner, lockVars, escVars>>

(* Mutant of ExecuteReturn: it gives the idle token back, as if the prompt *)
(* were over when execute returns.                                         *)
ExecuteReturnIdle(j) ==
  /\ LoopAt("return", j)
  /\ currentJobDequeued' = FALSE /\ Goto("select", NoJob) /\ idleCh' = TRUE
  /\ UNCHANGED <<queue, queuedJobs, lockVars, jobVars, agentVars, escVars, lifeVars>>

(* execute returns: its deferred markJobDequeued(false).                   *)
ExecuteReturn(j) ==
  /\ LoopAt("return", j)
  /\ currentJobDequeued' = FALSE /\ Goto("select", NoJob)
  /\ UNCHANGED <<queue, queuedJobs, idleCh, lockVars, jobVars, agentVars, escVars, lifeVars>>

-----------------------------------------------------------------------------
(* The prompt goroutine: the answer, then OnComplete.                      *)

Answer(j) ==
  /\ ask[j] = "sent"
  /\ ask' = [ask EXCEPT ![j] = "answered"]
  /\ UNCHANGED <<phase, ctx, once, replies, results>>
  /\ UNCHANGED <<queueVars, lockVars, agentVars, escVars, lifeVars>>

(* Mutant of OnCompleteBegin: no beginFinish for inline jobs.              *)
OnCompleteBeginAlways(j) ==
  /\ ask[j] = "answered"
  /\ ctx' = Canceled(j)
  /\ ask' = [ask EXCEPT ![j] = "replying"]
  /\ once' = IF j \in Inline THEN [once EXCEPT ![j] = "yes"] ELSE once
  /\ UNCHANGED <<phase, replies, results>>
  /\ UNCHANGED <<queueVars, lockVars, agentVars, escVars, lifeVars>>

(* OnComplete reads ctx.Err(), cancels, and an inline job claims the finish. *)
OnCompleteBegin(j) ==
  /\ ask[j] = "answered"
  /\ ctx' = Canceled(j)
  /\ IF j \in Inline
       THEN /\ ask' = [ask EXCEPT ![j] = IF once[j] = "no" THEN "replying" ELSE "done"]
            /\ once' = [once EXCEPT ![j] = "yes"]
       ELSE ask' = [ask EXCEPT ![j] = "replying"] /\ UNCHANGED once
  /\ UNCHANGED <<phase, replies, results>>
  /\ UNCHANGED <<queueVars, lockVars, agentVars, escVars, lifeVars>>

(* The final reply and the A2A result; or neither, when a generic agent    *)
(* error follows a delivery the agent already made (inline A2A jobs have   *)
(* bot egress disabled, so nothing was delivered for them).                *)
OnCompleteReply(j) ==
  /\ ask[j] = "replying"
  /\ ask' = [ask EXCEPT ![j] = "finish"]
  /\ \/ Reply(j) /\ EmitA2AResult(j)
     \/ j \notin Inline \cap Remote /\ UNCHANGED <<replies, results>>
  /\ UNCHANGED <<phase, ctx, once>>
  /\ UNCHANGED <<queueVars, lockVars, agentVars, escVars, lifeVars>>

OnCompleteFinish(j) ==
  /\ ask[j] = "finish"
  /\ \/ ClaimFinish(j) /\ ask' = [ask EXCEPT ![j] = "signal"]
     \/ /\ FinishedByOther(j) /\ ask' = [ask EXCEPT ![j] = "done"]
        /\ UNCHANGED <<once, phase, lockVars>>
  /\ UNCHANGED <<ctx, replies, results, queueVars, agentVars, escVars, lifeVars>>

OnCompleteSignal(j) ==
  /\ ask[j] = "signal"
  /\ SignalIdle(j) /\ ask' = [ask EXCEPT ![j] = "done"]
  /\ UNCHANGED <<queue, queuedJobs, currentJobDequeued, loop, phase, ctx, replies, results>>
  /\ UNCHANGED <<conn, reader, readErrorOwner, lockVars, escVars>>

-----------------------------------------------------------------------------
(* The reader goroutine: ReadLoop ends, clean or with an error, and after  *)
(* an error runs the read-error callback registered at that moment.        *)

ReadLoopEnds ==
  /\ reader.pc = "reading" /\ conn = "up"
  /\ conn' = "closed"
  /\ \/ agent = "dead" /\ reader' = [reader EXCEPT !.pc = "done"]
     \/ "readError" \in Faults /\ reader' = [reader EXCEPT !.pc = "failed"]
  /\ UNCHANGED <<agent, readErrorOwner>>
  /\ UNCHANGED <<queueVars, lockVars, jobVars, escVars, lifeVars>>

ReadErrorPick ==
  /\ reader.pc = "failed"
  /\ reader' = [pc |-> IF readErrorOwner = NoJob THEN "done" ELSE "handling",
                job |-> readErrorOwner]
  /\ UNCHANGED <<agent, conn, readErrorOwner>>
  /\ UNCHANGED <<queueVars, lockVars, jobVars, escVars, lifeVars>>

(* A thread job is only canceled (its OnComplete still replies); an inline *)
(* job claims the finish, replies and emits here.                          *)
ReadErrorHandle(j) ==
  /\ reader = [pc |-> "handling", job |-> j]
  /\ \/ /\ j \in Inline /\ once[j] # "no"
        /\ reader' = [reader EXCEPT !.pc = "done"]
        /\ UNCHANGED <<ctx, once, replies, results>>
     \/ /\ j \in Inline /\ once[j] = "no"
        /\ once' = [once EXCEPT ![j] = "yes"]
        /\ Reply(j) /\ EmitA2AResult(j)
        /\ ctx' = Canceled(j) /\ reader' = [reader EXCEPT !.pc = "finish"]
     \/ /\ j \notin Inline
        /\ ctx' = Canceled(j) /\ reader' = [reader EXCEPT !.pc = "finish"]
        /\ UNCHANGED <<once, replies, results>>
  /\ UNCHANGED <<phase, ask, agent, conn, readErrorOwner>>
  /\ UNCHANGED <<queueVars, lockVars, escVars, lifeVars>>

ReadErrorFinish(j) ==
  /\ reader = [pc |-> "finish", job |-> j]
  /\ \/ ClaimFinish(j) /\ reader' = [reader EXCEPT !.pc = "signal"]
     \/ /\ FinishedByOther(j) /\ reader' = [reader EXCEPT !.pc = "done"]
        /\ UNCHANGED <<once, phase, lockVars>>
  /\ UNCHANGED <<ctx, ask, replies, results, agent, conn, readErrorOwner>>
  /\ UNCHANGED <<queueVars, escVars, lifeVars>>

ReadErrorSignal(j) ==
  /\ reader = [pc |-> "signal", job |-> j]
  /\ SignalIdle(j) /\ reader' = [reader EXCEPT !.pc = "done"]
  /\ UNCHANGED <<queue, queuedJobs, currentJobDequeued, loop, phase, ctx, ask, replies, results>>
  /\ UNCHANGED <<conn, readErrorOwner, lockVars, escVars>>

-----------------------------------------------------------------------------
(* Cancel, interrupt and timeout. The user's command reads cancelFn under  *)
(* the lock and acts on it after the unlock.                               *)

UserRead(op) ==
  /\ op \in Faults /\ user.op = "none" /\ cancelFn # NoJob
  /\ user' = [op |-> op, job |-> cancelFn]
  /\ UNCHANGED <<watched, grace, verdict, queueVars, lockVars, jobVars, agentVars, lifeVars>>

(* fn(), CancelPrompt, and for /interrupt the escalation.                  *)
UserAct(j) ==
  /\ user.op # "none" /\ user.job = j
  /\ ctx' = Canceled(j)
  /\ user' = [op |-> "none", job |-> NoJob]
  /\ IF user.op = "interrupt" THEN ScheduleInterrupt(j)
                              ELSE UNCHANGED <<pendingInterruptSeq, grace>>
  /\ UNCHANGED <<currentJobActive, currentJobSeq, cancelFn, watched, verdict>>
  /\ UNCHANGED <<phase, ask, once, replies, results, queueVars, agentVars, lifeVars>>

Deadline(j) ==
  /\ "timeout" \in Faults /\ ctx[j] = "live"
  /\ ctx' = [ctx EXCEPT ![j] = "deadline"]
  /\ UNCHANGED <<phase, ask, once, replies, results>>
  /\ UNCHANGED <<queueVars, lockVars, agentVars, escVars, lifeVars>>

(* The timeout watcher: CancelPrompt, then the same escalation.            *)
TimeoutWatch(j) ==
  /\ ctx[j] = "deadline" /\ j \notin watched
  /\ watched' = watched \cup {j}
  /\ ScheduleInterrupt(j)
  /\ UNCHANGED <<currentJobActive, currentJobSeq, cancelFn, user, verdict>>
  /\ UNCHANGED <<queueVars, jobVars, agentVars, lifeVars>>

(* A grace timer fires: is the same job still active?                      *)
GraceEnds(s, j) ==
  /\ j \in grace[s]
  /\ grace' = [grace EXCEPT ![s] = @ \ {j}]
  /\ verdict' = IF cancelFn # NoJob /\ currentJobSeq = j
                  THEN [verdict EXCEPT ![s] = @ \cup {j}] ELSE verdict
  /\ pendingInterruptSeq' = IF s = "interrupt" /\ pendingInterruptSeq = j
                              THEN NoJob ELSE pendingInterruptSeq
  /\ UNCHANGED <<currentJobActive, currentJobSeq, cancelFn, user, watched>>
  /\ UNCHANGED <<queueVars, jobVars, agentVars, lifeVars>>

(* Mutant of Interrupt: no stop escalation after the interrupt.            *)
InterruptOnly(j) ==
  /\ j \in verdict["interrupt"]
  /\ verdict' = [verdict EXCEPT !["interrupt"] = @ \ {j}]
  /\ agent' \in {agent, "dead"}
  /\ UNCHANGED <<user, watched, grace, conn, reader, readErrorOwner>>
  /\ UNCHANGED <<queueVars, lockVars, jobVars, lifeVars>>

(* agent.Interrupt: SIGINT, which the process may survive; then the stop timer. *)
Interrupt(j) ==
  /\ j \in verdict["interrupt"]
  /\ verdict' = [verdict EXCEPT !["interrupt"] = @ \ {j}]
  /\ grace' = [grace EXCEPT !["stop"] = @ \cup {j}]
  /\ agent' \in {agent, "dead"}
  /\ UNCHANGED <<user, watched, conn, reader, readErrorOwner>>
  /\ UNCHANGED <<queueVars, lockVars, jobVars, lifeVars>>

EscalatedStop(j) ==
  /\ j \in verdict["stop"]
  /\ verdict' = [verdict EXCEPT !["stop"] = @ \ {j}]
  /\ agent' = IF agent = "up" THEN "stopping" ELSE agent
  /\ UNCHANGED <<user, watched, grace, conn, reader, readErrorOwner>>
  /\ UNCHANGED <<queueVars, lockVars, jobVars, lifeVars>>

-----------------------------------------------------------------------------
(* The agent process and the manager.                                      *)

(* agent.Stop ends with SIGKILL; a crash needs no cause.                   *)
AgentDies ==
  /\ agent = "stopping" \/ (agent = "up" /\ "crash" \in Faults)
  /\ agent' = "dead"
  /\ UNCHANGED <<conn, reader, readErrorOwner>>
  /\ UNCHANGED <<queueVars, lockVars, jobVars, escVars, lifeVars>>

(* The manager stops the worker, then its agent (stopChannel and others).  *)
ManagerIdle == \A k \in Jobs : phase[k] # "counted"

Stop ==
  /\ "stop" \in Faults /\ ~stopped /\ ManagerIdle
  /\ stopped' = TRUE /\ agent' = IF agent = "up" THEN "stopping" ELSE agent
  /\ UNCHANGED <<archive, conn, reader, readErrorOwner>>
  /\ UNCHANGED <<queueVars, lockVars, jobVars, escVars>>

(* Mutant of MarkThreadArchived: asks IsActive instead of HasWork.         *)
MarkThreadArchivedIfInactive ==
  /\ "archive" \in Faults /\ archive = "open" /\ ~stopped /\ ManagerIdle
  /\ \/ currentJobActive /\ archive' = "deferred" /\ UNCHANGED <<stopped, agent>>
     \/ /\ ~currentJobActive /\ archive' = "closed" /\ stopped' = TRUE
        /\ agent' = IF agent = "up" THEN "stopping" ELSE agent
  /\ UNCHANGED <<conn, reader, readErrorOwner>>
  /\ UNCHANGED <<queueVars, lockVars, jobVars, escVars>>

(* MarkThreadArchived: stop an idle worker now, or defer to onIdle.        *)
MarkThreadArchived ==
  /\ "archive" \in Faults /\ archive = "open" /\ ~stopped /\ ManagerIdle
  /\ \/ HasWork /\ archive' = "deferred" /\ UNCHANGED <<stopped, agent>>
     \/ /\ ~HasWork /\ archive' = "closed" /\ stopped' = TRUE
        /\ agent' = IF agent = "up" THEN "stopping" ELSE agent
  /\ UNCHANGED <<conn, reader, readErrorOwner>>
  /\ UNCHANGED <<queueVars, lockVars, jobVars, escVars>>

-----------------------------------------------------------------------------
Enqueue(j) == EnqueueCount(j) \/ EnqueueSend(j)

Execute(j) ==
  \/ MarkDequeued(j) \/ DropHeld(j) \/ TakeToken(j) \/ PassStopCheck(j)
  \/ Reject(j) \/ StartJob(j) \/ ThreadFail(j) \/ Arm(j) \/ RegisterReadError(j)
  \/ CompactOk(j) \/ CompactFail(j) \/ CheckCtx(j) \/ AskAsyncMulti(j)
  \/ FallbackSendFail(j) \/ FallbackGivesUp(j) \/ LoopFinish(j) \/ LoopSignal(j)
  \/ ExecuteReturn(j)

Run == LoopExit \/ Dequeue \/ \E j \in Jobs : Execute(j)

OnComplete(j) ==
  OnCompleteBegin(j) \/ OnCompleteReply(j) \/ OnCompleteFinish(j) \/ OnCompleteSignal(j)

ReadError ==
  \/ ReadErrorPick
  \/ \E j \in Jobs : ReadErrorHandle(j) \/ ReadErrorFinish(j) \/ ReadErrorSignal(j)

Escalate(j) ==
  \/ TimeoutWatch(j) \/ Interrupt(j) \/ EscalatedStop(j)
  \/ \E s \in Stage : GraceEnds(s, j)

Next ==
  \/ Run \/ ReadLoopEnds \/ ReadError \/ AgentDies \/ Stop \/ MarkThreadArchived
  \/ \E op \in {"cancel", "interrupt"} : UserRead(op)
  \/ \E j \in Jobs : Enqueue(j) \/ Answer(j) \/ FallbackAnswered(j) \/ OnComplete(j) \/ UserAct(j)
                       \/ Deadline(j) \/ Escalate(j)

Spec == Init /\ [][Next]_vars

(* The Go scheduler runs every runnable goroutine, timers fire, a killed   *)
(* process exits, and Send returns once the transport is closed. The agent *)
(* owes no answer, and the environment owes no fault.                      *)
Fairness ==
  /\ WF_vars(Run) /\ WF_vars(ReadError) /\ WF_vars(agent = "stopping" /\ AgentDies)
  /\ WF_vars(agent = "dead" /\ ReadLoopEnds)
  /\ \A j \in Jobs :
       /\ WF_vars(EnqueueSend(j)) /\ WF_vars(OnComplete(j)) /\ WF_vars(UserAct(j))
       /\ WF_vars(Deadline(j)) /\ WF_vars(TimeoutWatch(j))
       /\ WF_vars(Interrupt(j)) /\ WF_vars(EscalatedStop(j))
       /\ \A s \in Stage : WF_vars(GraceEnds(s, j))
       /\ WF_vars(conn = "closed" /\ Answer(j))

FairSpec == Spec /\ Fairness

-----------------------------------------------------------------------------
(* Properties.                                                             *)

(* Types of the state; the queue holds no more jobs than its channel.      *)
QueueType ==
  /\ queue \in Seq(Jobs) /\ Len(queue) <= QueueCap /\ queuedJobs \in Nat
  /\ currentJobDequeued \in BOOLEAN /\ idleCh \in BOOLEAN
  /\ loop \in [pc : LoopPc, job : Jobs \cup {NoJob}]
LockType ==
  /\ currentJobActive \in BOOLEAN
  /\ {currentJobSeq, cancelFn, pendingInterruptSeq} \subseteq Jobs \cup {NoJob}
JobType ==
  /\ phase \in [Jobs -> JobPhase] /\ ctx \in [Jobs -> CtxState]
  /\ ask \in [Jobs -> AskState] /\ once \in [Jobs -> OnceState]
  /\ replies \in [Jobs -> Nat] /\ results \in [Jobs -> Nat]
AgentType ==
  /\ agent \in {"up", "stopping", "dead"} /\ conn \in {"up", "closed"}
  /\ reader \in [pc : ReaderPc, job : Jobs \cup {NoJob}]
  /\ readErrorOwner \in Jobs \cup {NoJob}
EscType ==
  /\ user \in [op : {"none", "cancel", "interrupt"}, job : Jobs \cup {NoJob}]
  /\ watched \subseteq Jobs
  /\ grace \in [Stage -> SUBSET Jobs] /\ verdict \in [Stage -> SUBSET Jobs]
LifeType == stopped \in BOOLEAN /\ archive \in {"open", "deferred", "closed"}

TypeOK == QueueType /\ LockType /\ JobType /\ AgentType /\ EscType /\ LifeType

(* The idle token keeps the worker's agent to one job at a time, however   *)
(* the callbacks of the previous job interleave with the next dequeue.     *)
OneRunning == \A j, k \in Jobs : phase[j] = "running" /\ phase[k] = "running" => j = k

(* HasWork is TRUE from the moment Enqueue counts a job until it is        *)
(* finished, through the channel, the run loop and the asynchronous prompt:*)
(* the manager's reclaim never sees an accepted job's worker as free.      *)
WorkVisible ==
  \A j \in Jobs : phase[j] \in {"counted", "queued", "held", "running"} => HasWork

(* A cancel, an interrupt or a timeout finds the job that runs: cancelFn   *)
(* never belongs to a job that is over.                                    *)
CancelTarget == cancelFn # NoJob => phase[cancelFn] = "running" /\ currentJobSeq = cancelFn

(* Archiving a thread drops no accepted job: HasWork guards both the       *)
(* immediate stop and the deferred one.                                    *)
ArchiveDropsNothing ==
  archive = "closed" => \A j \in Jobs : phase[j] \in {"new", "refused", "done"}

(* At most one final reply and one A2A result per job, whichever of the run*)
(* loop, OnComplete and the read-error callback ends it. A second result   *)
(* would block its goroutine for good: the channel holds one.              *)
AnsweredOnce == \A j \in Jobs : replies[j] <= 1 /\ results[j] <= 1

(* CancelCurrent starts no escalation, and its cancel makes the timeout    *)
(* watcher return: a prompt it canceled waits for what the agent does.     *)
CanceledUnanswered(j) == ctx[j] = "canceled" /\ ask[j] = "sent" /\ agent = "up"

(* Every started job finishes, even when the agent never answers: timeout, *)
(* interrupt and stop escalate until the transport closes. The one         *)
(* exception is a prompt that was canceled and that an agent which stays   *)
(* up never answers.                                                       *)
StartedFinishes ==
  \A j \in Jobs : (phase[j] = "running" ~> phase[j] = "done") \/ <>[]CanceledUnanswered(j)

(* An accepted job is finished or dropped, unless the worker is stopped    *)
(* while it is still in the channel, or the job before it is canceled and  *)
(* never answered: a lost idle token would starve it.                      *)
AcceptedResolves ==
  \/ \A j \in Jobs : phase[j] = "queued" ~> (stopped \/ phase[j] \in {"done", "dropped"})
  \/ \E j \in Jobs : <>[]CanceledUnanswered(j)

(* A stopped worker's run loop exits.                                      *)
StopEnds == stopped ~> loop.pc = "exit"

=============================================================================
