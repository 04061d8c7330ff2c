---------------------------- MODULE WorkerProofs ----------------------------
(***************************************************************************)
(* Proofs about the job worker. TypeCorrect needs no strengthening. The    *)
(* safety theorems rest on IInv: who may hold the idle token, what counts  *)
(* a job, and which threads may still finish it.                           *)
(***************************************************************************)
EXTENDS Worker, TLAPS

USE JobsAssumption, QueueCapAssumption, FaultsAssumption

-----------------------------------------------------------------------------
(* Types. *)

(* A group of variables that stays the same keeps its type.                *)
LEMMA TypeFrame ==
  ASSUME TypeOK
  PROVE  /\ UNCHANGED queueVars => QueueType'
         /\ UNCHANGED lockVars => LockType'
         /\ UNCHANGED jobVars => JobType'
         /\ UNCHANGED agentVars => AgentType'
         /\ UNCHANGED escVars => EscType'
         /\ UNCHANGED lifeVars => LifeType'
<1>1. UNCHANGED queueVars => QueueType' BY DEF TypeOK, QueueType, queueVars
<1>2. UNCHANGED lockVars => LockType' BY DEF TypeOK, LockType, lockVars
<1>3. UNCHANGED jobVars => JobType' BY DEF TypeOK, JobType, jobVars
<1>4. UNCHANGED agentVars => AgentType' BY DEF TypeOK, AgentType, agentVars
<1>5. UNCHANGED escVars => EscType' BY DEF TypeOK, EscType, escVars
<1>6. UNCHANGED lifeVars => LifeType' BY DEF TypeOK, LifeType, lifeVars
<1> QED BY <1>1, <1>2, <1>3, <1>4, <1>5, <1>6

(* A reply and an A2A result are counted by natural numbers.               *)
LEMMA ReplyType ==
  ASSUME JobType, NEW j \in Jobs
  PROVE  /\ Reply(j) => replies' \in [Jobs -> Nat]
         /\ EmitA2AResult(j) => results' \in [Jobs -> Nat]
BY DEF JobType, Reply, EmitA2AResult

(* cancel() leaves a context in one of its states.                         *)
LEMMA CanceledType ==
  ASSUME JobType, NEW j \in Jobs PROVE Canceled(j) \in [Jobs -> CtxState]
BY DEF JobType, Canceled, CtxState

(* finishJob's critical section keeps the types of what it writes.         *)
LEMMA ClaimFinishType ==
  ASSUME JobType, LockType, NEW j \in Jobs, ClaimFinish(j)
  PROVE  LockType' /\ phase' \in [Jobs -> JobPhase] /\ once' \in [Jobs -> OnceState]
<1>1. LockType' BY DEF LockType, ClaimFinish, ClearCurrent
<1>2. phase' \in [Jobs -> JobPhase] BY DEF JobType, ClaimFinish, ClearCurrent, JobPhase
<1>3. once' \in [Jobs -> OnceState] BY DEF JobType, ClaimFinish, OnceState
<1> QED BY <1>1, <1>2, <1>3

(* So does signalIdle, with the deferred close of an archived thread.      *)
LEMMA SignalIdleType ==
  ASSUME TypeOK, NEW j \in Jobs, SignalIdle(j)
  PROVE  /\ once' \in [Jobs -> OnceState] /\ idleCh' \in BOOLEAN /\ LifeType'
         /\ agent' \in {"up", "stopping", "dead"}
<1>1. once' \in [Jobs -> OnceState] BY DEF TypeOK, JobType, SignalIdle, OnceState
<1>2. idleCh' \in BOOLEAN BY DEF TypeOK, QueueType, SignalIdle
<1>3. LifeType' BY DEF TypeOK, LifeType, SignalIdle
<1>4. agent' \in {"up", "stopping", "dead"} BY DEF TypeOK, AgentType, SignalIdle
<1> QED BY <1>1, <1>2, <1>3, <1>4

(* So does the critical section of scheduleInterruptEscalation.            *)
LEMMA ScheduleInterruptType ==
  ASSUME TypeOK, NEW j \in Jobs, ScheduleInterrupt(j)
  PROVE  pendingInterruptSeq' \in Jobs \cup {NoJob} /\ grace' \in [Stage -> SUBSET Jobs]
BY DEF TypeOK, LockType, EscType, ScheduleInterrupt, Stage

(* Enqueue keeps the types; the channel never exceeds its capacity.        *)
LEMMA EnqueueType ==
  ASSUME TypeOK, NEW j \in Jobs, Enqueue(j)
  PROVE  TypeOK'
<1>1. CASE EnqueueCount(j)
  <2>1. QueueType' BY <1>1 DEF TypeOK, QueueType, EnqueueCount, LoopPc
  <2>2. JobType'
    BY <1>1 DEF TypeOK, JobType, EnqueueCount, JobPhase, CtxState, AskState, OnceState
  <2> QED BY <1>1, <2>1, <2>2, TypeFrame DEF TypeOK, EnqueueCount
<1>2. CASE EnqueueSend(j)
  <2>1. QueueType'
    <3>1. queue' \in Seq(Jobs) /\ Len(queue') <= QueueCap
      BY <1>2 DEF TypeOK, QueueType, EnqueueSend
    <3>2. queuedJobs' \in Nat BY <1>2 DEF TypeOK, QueueType, EnqueueSend
    <3> QED BY <1>2, <3>1, <3>2 DEF TypeOK, QueueType, EnqueueSend
  <2>2. JobType'
    BY <1>2 DEF TypeOK, JobType, EnqueueSend, JobPhase, CtxState, AskState, OnceState
  <2> QED BY <1>2, <2>1, <2>2, TypeFrame DEF TypeOK, EnqueueSend
<1> QED BY <1>1, <1>2 DEF Enqueue

(* Every step of the run loop on the job it holds keeps the types.         *)
LEMMA ExecuteType ==
  ASSUME TypeOK, NEW j \in Jobs, Execute(j)
  PROVE  TypeOK'
<1>1. CASE MarkDequeued(j)
  <2>1. QueueType' BY <1>1 DEF TypeOK, QueueType, MarkDequeued, LoopAt, Goto, LoopPc
  <2> QED BY <1>1, <2>1, TypeFrame DEF TypeOK, MarkDequeued
<1>2. CASE DropHeld(j)
  <2>1. QueueType' BY <1>2 DEF TypeOK, QueueType, DropHeld, Goto, LoopPc
  <2>2. JobType'
    BY <1>2 DEF TypeOK, JobType, DropHeld, Goto, JobPhase, CtxState, AskState, OnceState
  <2> QED BY <1>2, <2>1, <2>2, TypeFrame DEF TypeOK, DropHeld
<1>3. CASE TakeToken(j)
  <2>1. QueueType' BY <1>3 DEF TypeOK, QueueType, TakeToken, LoopAt, Goto, LoopPc
  <2> QED BY <1>3, <2>1, TypeFrame DEF TypeOK, TakeToken
<1>4. CASE PassStopCheck(j)
  <2>1. QueueType' BY <1>4 DEF TypeOK, QueueType, PassStopCheck, LoopAt, Goto, LoopPc
  <2> QED BY <1>4, <2>1, TypeFrame DEF TypeOK, PassStopCheck
<1>5. CASE Reject(j)
  <2>1. QueueType' BY <1>5 DEF TypeOK, QueueType, Reject, LoopAt, Goto, LoopPc
  <2>2. JobType'
    BY <1>5, ReplyType
       DEF TypeOK, JobType, Reject, LoopAt, Goto, JobPhase, CtxState, AskState, OnceState
  <2> QED BY <1>5, <2>1, <2>2, TypeFrame DEF TypeOK, Reject
<1>6. CASE StartJob(j)
  <2>1. QueueType' BY <1>6 DEF TypeOK, QueueType, StartJob, LoopAt, Goto, LoopPc
  <2>2. LockType' BY <1>6 DEF TypeOK, LockType, StartJob, LoopAt, Goto
  <2>3. JobType'
    BY <1>6 DEF TypeOK, JobType, StartJob, LoopAt, Goto, JobPhase, CtxState, AskState, OnceState
  <2> QED BY <1>6, <2>1, <2>2, <2>3, TypeFrame DEF TypeOK, StartJob
<1>7. CASE ThreadFail(j)
  <2>1. QueueType' BY <1>7 DEF TypeOK, QueueType, ThreadFail, LoopAt, Goto, LoopPc
  <2>2. JobType'
    BY <1>7, ReplyType
       DEF TypeOK, JobType, ThreadFail, LoopAt, Goto, JobPhase, CtxState, AskState, OnceState
  <2> QED BY <1>7, <2>1, <2>2, TypeFrame DEF TypeOK, ThreadFail
<1>8. CASE Arm(j)
  <2>1. QueueType' BY <1>8 DEF TypeOK, QueueType, Arm, Goto, LoopPc
  <2>2. LockType' BY <1>8 DEF TypeOK, LockType, Arm, Goto
  <2>3. JobType' BY <1>8 DEF TypeOK, JobType, Arm, Goto, JobPhase, CtxState, AskState, OnceState
  <2> QED BY <1>8, <2>1, <2>2, <2>3, TypeFrame DEF TypeOK, Arm
<1>9. CASE RegisterReadError(j)
  <2>1. QueueType' BY <1>9 DEF TypeOK, QueueType, RegisterReadError, LoopAt, Goto, LoopPc
  <2>2. AgentType' BY <1>9 DEF TypeOK, AgentType, RegisterReadError, LoopAt, Goto, ReaderPc
  <2> QED BY <1>9, <2>1, <2>2, TypeFrame DEF TypeOK, RegisterReadError
<1>10. CASE CompactOk(j)
  <2>1. QueueType' BY <1>10 DEF TypeOK, QueueType, CompactOk, LoopAt, Goto, LoopPc
  <2> QED BY <1>10, <2>1, TypeFrame DEF TypeOK, CompactOk
<1>11. CASE CompactFail(j)
  <2>1. QueueType' BY <1>11 DEF TypeOK, QueueType, CompactFail, LoopAt, Goto, LoopPc
  <2>2. JobType'
    BY <1>11, CanceledType, ReplyType
       DEF TypeOK, JobType, CompactFail, LoopAt, Goto, JobPhase, CtxState, AskState, OnceState
  <2> QED BY <1>11, <2>1, <2>2, TypeFrame DEF TypeOK, CompactFail
<1>12. CASE CheckCtx(j)
  <2>1. QueueType' BY <1>12 DEF TypeOK, QueueType, CheckCtx, LoopAt, Goto, LoopPc
  <2> QED BY <1>12, <2>1, TypeFrame DEF TypeOK, CheckCtx
<1>13. CASE AskAsyncMulti(j)
  <2>1. QueueType' BY <1>13 DEF TypeOK, QueueType, AskAsyncMulti, LoopAt, Goto, LoopPc
  <2>2. JobType'
    BY <1>13 DEF TypeOK, JobType, AskAsyncMulti, LoopAt, Goto, JobPhase, CtxState, AskState,
        OnceState
  <2> QED BY <1>13, <2>1, <2>2, TypeFrame DEF TypeOK, AskAsyncMulti
<1>14. CASE FallbackSendFail(j)
  <2>1. QueueType' BY <1>14 DEF TypeOK, QueueType, FallbackSendFail, LoopAt, Goto, LoopPc
  <2> QED BY <1>14, <2>1, TypeFrame DEF TypeOK, FallbackSendFail
<1>15. CASE FallbackGivesUp(j)
  <2>1. QueueType'
    BY <1>15 DEF TypeOK, QueueType, FallbackGivesUp, LoopAt, Goto, FallbackReturn, LoopPc
  <2>2. JobType'
    BY <1>15, CanceledType, ReplyType
       DEF TypeOK, JobType, FallbackGivesUp, LoopAt, Goto, FallbackReturn, JobPhase,
           CtxState, AskState, OnceState
  <2> QED BY <1>15, <2>1, <2>2, TypeFrame DEF TypeOK, FallbackGivesUp, FallbackReturn
<1>16. CASE LoopFinish(j)
  <2>1. QueueType' BY <1>16 DEF TypeOK, QueueType, LoopFinish, LoopAt, Goto, LoopPc
  <2>2. LockType' BY <1>16, ClaimFinishType DEF TypeOK, LockType, LoopFinish, lockVars
  <2>3. JobType'
    BY <1>16, ClaimFinishType
       DEF TypeOK, JobType, LoopFinish, LoopAt, Goto, JobPhase, CtxState, AskState, OnceState
  <2> QED BY <1>16, <2>1, <2>2, <2>3, TypeFrame DEF TypeOK, LoopFinish
<1>17. CASE LoopSignal(j)
  <2>1. QueueType'
    BY <1>17, SignalIdleType DEF TypeOK, QueueType, LoopSignal, LoopAt, Goto, LoopPc
  <2>2. JobType'
    BY <1>17, SignalIdleType
       DEF TypeOK, JobType, LoopSignal, LoopAt, Goto, JobPhase, CtxState, AskState, OnceState
  <2>3. AgentType'
    BY <1>17, SignalIdleType DEF TypeOK, AgentType, LoopSignal, LoopAt, Goto, ReaderPc
  <2>4. LifeType' BY <1>17, SignalIdleType DEF TypeOK, LifeType, LoopSignal, LoopAt, Goto
  <2> QED BY <1>17, <2>1, <2>2, <2>3, <2>4, TypeFrame DEF TypeOK, LoopSignal
<1>18. CASE ExecuteReturn(j)
  <2>1. QueueType' BY <1>18 DEF TypeOK, QueueType, ExecuteReturn, LoopAt, Goto, LoopPc
  <2> QED BY <1>18, <2>1, TypeFrame DEF TypeOK, ExecuteReturn
<1> QED
  BY <1>1, <1>2, <1>3, <1>4, <1>5, <1>6, <1>7, <1>8, <1>9, <1>10, <1>11, <1>12, <1>13,
     <1>14, <1>15, <1>16, <1>17, <1>18 DEF Execute

(* The answers and OnComplete keep the types.                              *)
LEMMA CallbackType ==
  ASSUME TypeOK, NEW j \in Jobs, Answer(j) \/ FallbackAnswered(j) \/ OnComplete(j)
  PROVE  TypeOK'
<1>1. CASE Answer(j)
  <2>1. JobType' BY <1>1 DEF TypeOK, JobType, Answer, JobPhase, CtxState, AskState, OnceState
  <2> QED BY <1>1, <2>1, TypeFrame DEF TypeOK, Answer
<1>2. CASE FallbackAnswered(j)
  <2>1. QueueType'
    BY <1>2 DEF TypeOK, QueueType, FallbackAnswered, LoopAt, Goto, FallbackReturn, LoopPc
  <2>2. JobType'
    BY <1>2, CanceledType, ReplyType
       DEF TypeOK, JobType, FallbackAnswered, LoopAt, Goto, FallbackReturn, JobPhase,
           CtxState, AskState, OnceState
  <2> QED BY <1>2, <2>1, <2>2, TypeFrame DEF TypeOK, FallbackAnswered, FallbackReturn
<1>3. CASE OnCompleteBegin(j)
  <2>1. JobType'
    BY <1>3, CanceledType
       DEF TypeOK, JobType, OnCompleteBegin, JobPhase, CtxState, AskState, OnceState
  <2> QED BY <1>3, <2>1, TypeFrame DEF TypeOK, OnCompleteBegin
<1>4. CASE OnCompleteReply(j)
  <2>1. JobType'
    BY <1>4, ReplyType
       DEF TypeOK, JobType, OnCompleteReply, JobPhase, CtxState, AskState, OnceState
  <2> QED BY <1>4, <2>1, TypeFrame DEF TypeOK, OnCompleteReply
<1>5. CASE OnCompleteFinish(j)
  <2>1. LockType' BY <1>5, ClaimFinishType DEF TypeOK, LockType, OnCompleteFinish, lockVars
  <2>2. JobType'
    BY <1>5, ClaimFinishType
       DEF TypeOK, JobType, OnCompleteFinish, JobPhase, CtxState, AskState, OnceState
  <2> QED BY <1>5, <2>1, <2>2, TypeFrame DEF TypeOK, OnCompleteFinish
<1>6. CASE OnCompleteSignal(j)
  <2>1. QueueType' BY <1>6, SignalIdleType DEF TypeOK, QueueType, OnCompleteSignal, LoopPc
  <2>2. JobType'
    BY <1>6, SignalIdleType
       DEF TypeOK, JobType, OnCompleteSignal, JobPhase, CtxState, AskState, OnceState
  <2>3. AgentType' BY <1>6, SignalIdleType DEF TypeOK, AgentType, OnCompleteSignal, ReaderPc
  <2>4. LifeType' BY <1>6, SignalIdleType DEF TypeOK, LifeType, OnCompleteSignal
  <2> QED BY <1>6, <2>1, <2>2, <2>3, <2>4, TypeFrame DEF TypeOK, OnCompleteSignal
<1> QED BY <1>1, <1>2, <1>3, <1>4, <1>5, <1>6 DEF OnComplete

(* The reader goroutine and the read-error callback keep the types.        *)
LEMMA ReaderType ==
  ASSUME TypeOK, ReadLoopEnds \/ ReadError
  PROVE  TypeOK'
<1>1. CASE ReadLoopEnds
  <2>1. AgentType' BY <1>1 DEF TypeOK, AgentType, ReadLoopEnds, ReaderPc
  <2> QED BY <1>1, <2>1, TypeFrame DEF TypeOK, ReadLoopEnds
<1>2. CASE ReadErrorPick
  <2>1. AgentType' BY <1>2 DEF TypeOK, AgentType, ReadErrorPick, ReaderPc
  <2> QED BY <1>2, <2>1, TypeFrame DEF TypeOK, ReadErrorPick
<1>3. ASSUME NEW j \in Jobs, ReadErrorHandle(j) PROVE TypeOK'
  <2>1. JobType'
    <3>1. once' \in [Jobs -> OnceState] BY <1>3 DEF TypeOK, JobType, ReadErrorHandle, OnceState
    <3>2. ctx' \in [Jobs -> CtxState] BY <1>3, CanceledType DEF TypeOK, JobType, ReadErrorHandle
    <3>3. replies' \in [Jobs -> Nat] /\ results' \in [Jobs -> Nat]
      BY <1>3, ReplyType DEF TypeOK, JobType, ReadErrorHandle
    <3> QED BY <1>3, <3>1, <3>2, <3>3 DEF TypeOK, JobType, ReadErrorHandle
  <2>2. AgentType' BY <1>3 DEF TypeOK, AgentType, ReadErrorHandle, ReaderPc
  <2> QED BY <1>3, <2>1, <2>2, TypeFrame DEF TypeOK, ReadErrorHandle
<1>4. ASSUME NEW j \in Jobs, ReadErrorFinish(j) PROVE TypeOK'
  <2>1. LockType' BY <1>4, ClaimFinishType DEF TypeOK, LockType, ReadErrorFinish, lockVars
  <2>2. JobType'
    BY <1>4, ClaimFinishType
       DEF TypeOK, JobType, ReadErrorFinish, JobPhase, CtxState, AskState, OnceState
  <2>3. AgentType' BY <1>4 DEF TypeOK, AgentType, ReadErrorFinish, ReaderPc
  <2> QED BY <1>4, <2>1, <2>2, <2>3, TypeFrame DEF TypeOK, ReadErrorFinish
<1>5. ASSUME NEW j \in Jobs, ReadErrorSignal(j) PROVE TypeOK'
  <2>1. QueueType' BY <1>5, SignalIdleType DEF TypeOK, QueueType, ReadErrorSignal, LoopPc
  <2>2. JobType'
    BY <1>5, SignalIdleType
       DEF TypeOK, JobType, ReadErrorSignal, JobPhase, CtxState, AskState, OnceState
  <2>3. AgentType' BY <1>5, SignalIdleType DEF TypeOK, AgentType, ReadErrorSignal, ReaderPc
  <2>4. LifeType' BY <1>5, SignalIdleType DEF TypeOK, LifeType, ReadErrorSignal
  <2> QED BY <1>5, <2>1, <2>2, <2>3, <2>4, TypeFrame DEF TypeOK, ReadErrorSignal
<1> QED BY <1>1, <1>2, <1>3, <1>4, <1>5 DEF ReadError

(* The user's commands, timeouts and escalations keep the types.           *)
LEMMA EscalateType ==
  ASSUME TypeOK, NEW j \in Jobs, UserAct(j) \/ Deadline(j) \/ Escalate(j)
  PROVE  TypeOK'
<1>1. CASE UserAct(j)
  <2>1. LockType' BY <1>1, ScheduleInterruptType DEF TypeOK, LockType, UserAct
  <2>2. JobType'
    BY <1>1, CanceledType DEF TypeOK, JobType, UserAct, JobPhase, CtxState, AskState, OnceState
  <2>3. EscType' BY <1>1, ScheduleInterruptType DEF TypeOK, EscType, UserAct
  <2> QED BY <1>1, <2>1, <2>2, <2>3, TypeFrame DEF TypeOK, UserAct
<1>2. CASE Deadline(j)
  <2>1. JobType' BY <1>2 DEF TypeOK, JobType, Deadline, JobPhase, CtxState, AskState, OnceState
  <2> QED BY <1>2, <2>1, TypeFrame DEF TypeOK, Deadline
<1>3. CASE TimeoutWatch(j)
  <2>1. LockType' BY <1>3, ScheduleInterruptType DEF TypeOK, LockType, TimeoutWatch
  <2>2. EscType' BY <1>3, ScheduleInterruptType DEF TypeOK, EscType, TimeoutWatch
  <2> QED BY <1>3, <2>1, <2>2, TypeFrame DEF TypeOK, TimeoutWatch
<1>4. CASE Interrupt(j)
  <2>1. AgentType' BY <1>4 DEF TypeOK, AgentType, Interrupt, ReaderPc
  <2>2. EscType' BY <1>4 DEF TypeOK, EscType, Interrupt
  <2> QED BY <1>4, <2>1, <2>2, TypeFrame DEF TypeOK, Interrupt
<1>5. CASE EscalatedStop(j)
  <2>1. AgentType' BY <1>5 DEF TypeOK, AgentType, EscalatedStop, ReaderPc
  <2>2. EscType' BY <1>5 DEF TypeOK, EscType, EscalatedStop
  <2> QED BY <1>5, <2>1, <2>2, TypeFrame DEF TypeOK, EscalatedStop
<1>6. ASSUME NEW s \in Stage, GraceEnds(s, j) PROVE TypeOK'
  <2>1. LockType' BY <1>6 DEF TypeOK, LockType, GraceEnds
  <2>2. EscType' BY <1>6 DEF TypeOK, EscType, GraceEnds
  <2> QED BY <1>6, <2>1, <2>2, TypeFrame DEF TypeOK, GraceEnds
<1> QED BY <1>1, <1>2, <1>3, <1>4, <1>5, <1>6 DEF Escalate

(* The loop's select, the agent's death and the manager keep the types.    *)
LEMMA ManagerType ==
  ASSUME TypeOK,
         \/ LoopExit \/ Dequeue \/ AgentDies \/ Stop \/ MarkThreadArchived
         \/ \E op \in {"cancel", "interrupt"} : UserRead(op)
  PROVE  TypeOK'
<1>1. CASE LoopExit
  <2>1. QueueType' BY <1>1 DEF TypeOK, QueueType, LoopExit, LoopAt, Goto, LoopPc
  <2> QED BY <1>1, <2>1, TypeFrame DEF TypeOK, LoopExit
<1>2. CASE Dequeue
  <2>1. QueueType' BY <1>2 DEF TypeOK, QueueType, Dequeue, LoopAt, Goto, LoopPc
  <2>2. JobType'
    BY <1>2 DEF TypeOK, JobType, Dequeue, LoopAt, Goto, JobPhase, CtxState, AskState, OnceState
  <2> QED BY <1>2, <2>1, <2>2, TypeFrame DEF TypeOK, Dequeue
<1>3. CASE AgentDies
  <2>1. AgentType' BY <1>3 DEF TypeOK, AgentType, AgentDies, ReaderPc
  <2> QED BY <1>3, <2>1, TypeFrame DEF TypeOK, AgentDies
<1>4. CASE Stop
  <2>1. AgentType' BY <1>4 DEF TypeOK, AgentType, Stop, ReaderPc
  <2>2. LifeType' BY <1>4 DEF TypeOK, LifeType, Stop
  <2> QED BY <1>4, <2>1, <2>2, TypeFrame DEF TypeOK, Stop
<1>5. CASE MarkThreadArchived
  <2>1. AgentType' BY <1>5 DEF TypeOK, AgentType, MarkThreadArchived, ReaderPc
  <2>2. LifeType' BY <1>5 DEF TypeOK, LifeType, MarkThreadArchived
  <2> QED BY <1>5, <2>1, <2>2, TypeFrame DEF TypeOK, MarkThreadArchived
<1>6. ASSUME NEW op \in {"cancel", "interrupt"}, UserRead(op) PROVE TypeOK'
  <2>1. EscType' BY <1>6 DEF TypeOK, EscType, LockType, UserRead
  <2> QED BY <1>6, <2>1, TypeFrame DEF TypeOK, UserRead
<1> QED BY <1>1, <1>2, <1>3, <1>4, <1>5, <1>6

(* A new worker is well typed.                                             *)
LEMMA InitType == Init => TypeOK
<1> SUFFICES ASSUME Init PROVE TypeOK OBVIOUS
<1>1. QueueType
  <2>1. queue \in Seq(Jobs) /\ Len(queue) <= QueueCap BY DEF Init
  <2> QED BY <2>1 DEF Init, QueueType, LoopPc
<1>2. LockType BY DEF Init, LockType
<1>3. JobType BY DEF Init, JobType, JobPhase, CtxState, AskState, OnceState
<1>4. AgentType BY DEF Init, AgentType, ReaderPc
<1>5. EscType BY DEF Init, EscType
<1>6. LifeType BY DEF Init, LifeType
<1> QED BY <1>1, <1>2, <1>3, <1>4, <1>5, <1>6 DEF TypeOK

(* Every reachable state of the worker (channel/worker.go) is well typed,  *)
(* and the queue never holds more jobs than its channel.                   *)
THEOREM TypeCorrect == Spec => []TypeOK
<1>1. TypeOK /\ [Next]_vars => TypeOK'
  <2> SUFFICES ASSUME TypeOK, [Next]_vars PROVE TypeOK' OBVIOUS
  <2>1. CASE UNCHANGED vars BY <2>1, TypeFrame DEF vars, TypeOK
  <2>2. CASE Next
    BY <2>2, EnqueueType, ExecuteType, CallbackType, ReaderType, EscalateType, ManagerType
       DEF Next, Run
  <2> QED BY <2>1, <2>2
<1> QED BY InitType, <1>1, PTL DEF Spec

-----------------------------------------------------------------------------
(* The invariant. *)

(* The theorems exclude one mix: a worker that serves inline jobs while its *)
(* transport's reader can fail, in which a job can be finished twice (the   *)
(* run worker_inline_read_error).                                           *)
SafeMix == Inline = {} \/ "readError" \notin Faults

LoopIn(P, j) == loop.job = j /\ loop.pc \in P

(* j's finish is claimed and its idle signal is still owed.                 *)
Signaling(j) ==
  \/ LoopIn({"signal"}, j) \/ ask[j] = "signal"
  \/ (reader.pc = "signal" /\ reader.job = j) \/ once[j] = "busy"

(* j holds the idle token: taken and not yet started, running, or finishing. *)
Occupies(j) == phase[j] = "running" \/ Signaling(j) \/ LoopIn({"token", "begin"}, j)

Held    == {"popped", "wait", "token", "begin"}
Private == Held \cup {"setup", "register", "fallback", "fallbackAsk"}
Body    == {"setup", "register", "compact", "check", "prompt",
             "fallback", "fallbackAsk", "finish"}

Token ==
  /\ idleCh => \A j \in Jobs : ~Occupies(j)
  /\ \A j, k \in Jobs : Occupies(j) /\ Occupies(k) => j = k

(* What counts a job: the caller, the channel, or the loop that popped it.  *)
CallerHolds == IF \E j \in Jobs : phase[j] = "counted" THEN 1 ELSE 0
LoopHolds == IF loop.pc = "popped" THEN 1 ELSE 0
Queue ==
  /\ queuedJobs = Len(queue) + CallerHolds + LoopHolds
  /\ \A j, k \in Jobs : phase[j] = "counted" /\ phase[k] = "counted" => j = k
  /\ \A i \in 1..Len(queue) : phase[queue[i]] = "queued"
  /\ \A i, k \in 1..Len(queue) : queue[i] = queue[k] => i = k
  /\ \A j \in Jobs : phase[j] = "queued" => \E i \in 1..Len(queue) : queue[i] = j

Loop ==
  /\ loop.pc \notin {"select", "popped", "exit"} => currentJobDequeued
  /\ \A j \in Jobs : phase[j] = "held" <=> LoopIn(Held, j)

Flags == \A j \in Jobs : phase[j] = "running" => currentJobActive /\ currentJobSeq = j

(* Before its read-error callback is registered nobody but the loop knows j. *)
Unshared(j) ==
  phase[j] \in {"new", "counted", "queued", "held", "refused", "dropped"} \/ LoopIn(Private, j)
    => once[j] = "no" /\ ask[j] = "none" /\ readErrorOwner # j /\ reader.job # j

(* Who may still finish j, and what that says about its phase.              *)
Finish(j) ==
  /\ Signaling(j) => phase[j] = "done"
  /\ ask[j] # "none" => ~LoopIn(LoopPc \ {"return"}, j)
  /\ reader.pc = "signal" /\ reader.job = j => ask[j] # "signal" /\ ~LoopIn({"signal"}, j)
  /\ LoopIn(Private \cap Body, j) => phase[j] = "running"
  /\ j \notin Inline =>
       /\ ask[j] = "signal" \/ (reader.pc = "signal" /\ reader.job = j) => once[j] = "busy"
       /\ once[j] # "no" => phase[j] = "done"
       /\ once[j] = "no" /\ (ask[j] # "none" \/ readErrorOwner = j \/ LoopIn(Body, j)
                              \/ (reader.job = j /\ reader.pc \in {"handling", "finish"}))
            => phase[j] = "running"
  /\ j \in Inline =>
       /\ once[j] # "busy" /\ reader.pc \in {"reading", "done"}
       /\ ask[j] \in {"sent", "answered", "replying", "finish"} \/ LoopIn(Body, j)
            => phase[j] = "running"

(* Without read errors the read-error callback never runs.                  *)
ReaderQuiet == "readError" \notin Faults => reader.pc \in {"reading", "done"}

Sharing == \A j \in Jobs : Unshared(j)
Finishing == \A j \in Jobs : Finish(j)

(* The inductive invariant, next to TypeOK.                                 *)
IInv ==
  Token /\ Queue /\ Loop /\ Flags /\ CancelTarget /\ ReaderQuiet /\ Sharing /\ Finishing

-----------------------------------------------------------------------------
(* The queue. *)

(* The queue's invariant rests on the queue, its count, who is counted or  *)
(* queued, and whether the loop has popped a job.                          *)
LEMMA QueueFrame ==
  ASSUME TypeOK, Queue, UNCHANGED <<queue, queuedJobs>>,
         \A j \in Jobs : (phase'[j] = "counted") = (phase[j] = "counted"),
         \A j \in Jobs : (phase'[j] = "queued") = (phase[j] = "queued"),
         (loop'.pc = "popped") = (loop.pc = "popped")
  PROVE  Queue'
<1>1. \A i \in 1..Len(queue) : queue[i] \in Jobs BY DEF TypeOK, QueueType
<1>2. CallerHolds' = CallerHolds /\ LoopHolds' = LoopHolds
  BY DEF CallerHolds, LoopHolds
<1> QED BY <1>1, <1>2 DEF Queue

(* Counting a job before the send keeps the count exact.                   *)
LEMMA EnqueueCountQ == ASSUME TypeOK, IInv, NEW j \in Jobs, EnqueueCount(j) PROVE Queue'
<1>1. \A i \in 1..Len(queue) : queue[i] \in Jobs /\ queue[i] # j
  BY DEF TypeOK, QueueType, IInv, Queue, EnqueueCount
<1>2. /\ phase'[j] = "counted" /\ phase[j] = "new"
      /\ (\A k \in Jobs : phase[k] # "counted") /\ \A k \in Jobs \ {j} : phase'[k] = phase[k]
  BY DEF TypeOK, JobType, EnqueueCount
<1>3. CallerHolds = 0 /\ CallerHolds' = 1 BY <1>2 DEF CallerHolds
<1>4. queue' = queue /\ LoopHolds' = LoopHolds /\ queuedJobs' = queuedJobs + 1
  BY DEF EnqueueCount, LoopHolds
<1>5. Len(queue) \in Nat /\ LoopHolds \in Nat BY DEF TypeOK, QueueType, LoopHolds
<1>6. queuedJobs' = Len(queue') + CallerHolds' + LoopHolds'
  BY <1>3, <1>4, <1>5 DEF IInv, Queue
<1> QED BY <1>1, <1>2, <1>4, <1>6 DEF IInv, Queue

(* The send moves the caller's unit to the channel; a refusal gives it     *)
(* back.                                                                   *)
LEMMA EnqueueSendQ == ASSUME TypeOK, IInv, NEW j \in Jobs, EnqueueSend(j) PROVE Queue'
<1>1. \A i \in 1..Len(queue) : queue[i] \in Jobs /\ queue[i] # j
  BY DEF TypeOK, QueueType, IInv, Queue, EnqueueSend
<1>2. /\ phase'[j] \in {"queued", "refused"}
      /\ (\A k \in Jobs \ {j} : phase[k] # "counted" /\ phase'[k] = phase[k])
  BY DEF TypeOK, JobType, EnqueueSend, IInv, Queue
<1>3. queuedJobs = Len(queue) + 1 + LoopHolds
  BY DEF IInv, Queue, EnqueueSend, CallerHolds
<1>4. CallerHolds' = 0 /\ LoopHolds' = LoopHolds /\ LoopHolds \in Nat
  BY <1>2 DEF CallerHolds, LoopHolds, EnqueueSend
<1>5. Len(queue) \in Nat /\ queuedJobs \in Nat /\ queue \in Seq(Jobs) BY DEF TypeOK, QueueType
<1>6. CASE phase'[j] = "queued"
  <2>1. queue' = Append(queue, j) /\ queuedJobs' = queuedJobs /\ loop' = loop
    BY <1>6 DEF EnqueueSend, TypeOK, JobType
  <2>2. /\ Len(queue') = Len(queue) + 1 /\ queue'[Len(queue')] = j
        /\ \A i \in 1..Len(queue) : queue'[i] = queue[i]
    BY <2>1, <1>5
  <2>3. queuedJobs' = Len(queue') + CallerHolds' + LoopHolds'
    BY <1>3, <1>4, <1>5, <2>1, <2>2
  <2>4. \A i \in 1..Len(queue') : i \in 1..Len(queue) \/ i = Len(queue') BY <2>2, <1>5
  <2>5. \A i \in 1..Len(queue') : phase'[queue'[i]] = "queued"
    BY <1>6, <1>1, <1>2, <2>2, <2>4 DEF IInv, Queue
  <2>6. \A i, k \in 1..Len(queue') : queue'[i] = queue'[k] => i = k
    BY <1>1, <2>2, <2>4 DEF IInv, Queue
  <2>7. ASSUME NEW k \in Jobs, phase'[k] = "queued"
        PROVE  \E i \in 1..Len(queue') : queue'[i] = k
    BY <2>7, <1>2, <2>2, <1>5 DEF IInv, Queue
  <2> QED BY <1>2, <2>3, <2>5, <2>6, <2>7 DEF Queue
<1>7. CASE phase'[j] = "refused"
  <2>1. queue' = queue /\ queuedJobs' = queuedJobs - 1 /\ loop' = loop
    BY <1>7, <1>3, <1>4, <1>5 DEF EnqueueSend, TypeOK, JobType
  <2>2. queuedJobs' = Len(queue') + CallerHolds' + LoopHolds'
    BY <1>3, <1>4, <1>5, <2>1
  <2> QED BY <1>7, <1>1, <1>2, <1>4, <2>1, <2>2 DEF IInv, Queue
<1> QED BY <1>2, <1>6, <1>7

(* Popping moves a unit from the channel to the loop.                      *)
LEMMA DequeueQ == ASSUME TypeOK, IInv, Dequeue PROVE Queue'
<1>1. PICK j \in Jobs : j = Head(queue) /\ j = queue[1]
  BY DEF TypeOK, QueueType, Dequeue
<1>5. Len(queue) \in Nat \ {0} /\ queuedJobs \in Nat /\ queue \in Seq(Jobs)
  BY DEF TypeOK, QueueType, Dequeue
<1>2. /\ queue' = Tail(queue) /\ queuedJobs' = queuedJobs
      /\ loop'.pc = "popped" /\ loop.pc = "select"
  BY DEF Dequeue, Goto, LoopAt
<1>2a. phase'[j] = "held" /\ (\A k \in Jobs \ {j} : phase'[k] = phase[k]) /\ phase[j] = "queued"
  BY <1>1, <1>5 DEF TypeOK, JobType, Dequeue, IInv, Queue
<1>3. Len(queue') = Len(queue) - 1 /\ \A i \in 1..Len(queue') : queue'[i] = queue[i+1]
  BY <1>2, <1>5
<1>4. \A i \in 1..Len(queue) : queue[i] \in Jobs /\ (queue[i] = j => i = 1)
  BY <1>1, <1>5 DEF IInv, Queue
<1>6. CallerHolds' = CallerHolds /\ CallerHolds \in Nat /\ LoopHolds = 0 /\ LoopHolds' = 1
  BY <1>2, <1>2a DEF CallerHolds, LoopHolds
<1>7. queuedJobs' = Len(queue') + CallerHolds' + LoopHolds'
  BY <1>2, <1>3, <1>5, <1>6 DEF IInv, Queue
<1>8. \A i \in 1..Len(queue') : i + 1 \in 1..Len(queue) /\ i+1 # 1 BY <1>3, <1>5
<1>9. \A i \in 1..Len(queue') : phase'[queue'[i]] = "queued"
  BY <1>2a, <1>3, <1>4, <1>8 DEF IInv, Queue
<1>10. \A i, k \in 1..Len(queue') : queue'[i] = queue'[k] => i = k
  <2> TAKE i, k \in 1..Len(queue')
  <2> HAVE queue'[i] = queue'[k]
  <2>1. i + 1 = k + 1 BY <1>3, <1>8 DEF IInv, Queue
  <2> QED BY <2>1
<1>11. ASSUME NEW k \in Jobs, phase'[k] = "queued"
        PROVE  \E i \in 1..Len(queue') : queue'[i] = k
  <2>1. PICK i \in 1..Len(queue) : queue[i] = k BY <1>11, <1>2a DEF IInv, Queue
  <2>2. i # 1 BY <2>1, <1>1, <1>2a, <1>11
  <2>3. i - 1 \in 1..Len(queue') /\ queue'[i - 1] = k BY <1>3, <1>5, <2>1, <2>2
  <2> QED BY <2>3
<1>12. \A i, k \in Jobs : phase'[i] = "counted" /\ phase'[k] = "counted" => i = k
  BY <1>2a DEF IInv, Queue
<1> QED BY <1>7, <1>9, <1>10, <1>11, <1>12 DEF Queue

(* markJobDequeuedFromQueue gives the popped job's unit back.              *)
LEMMA MarkDequeuedQ == ASSUME TypeOK, IInv, NEW j \in Jobs, MarkDequeued(j) PROVE Queue'
<1>5. Len(queue) \in Nat /\ queuedJobs \in Nat /\ queue \in Seq(Jobs) BY DEF TypeOK, QueueType
<1>1. /\ CallerHolds' = CallerHolds /\ CallerHolds \in Nat
      /\ LoopHolds = 1 /\ LoopHolds' = 0 /\ queue' = queue /\ phase' = phase
  BY DEF MarkDequeued, jobVars, LoopAt, Goto, CallerHolds, LoopHolds
<1>2. queuedJobs = Len(queue) + CallerHolds + 1 BY <1>1 DEF IInv, Queue
<1>3. queuedJobs' = queuedJobs - 1 BY <1>1, <1>2, <1>5 DEF MarkDequeued
<1>4. queuedJobs' = Len(queue') + CallerHolds' + LoopHolds' BY <1>1, <1>2, <1>3, <1>5
<1> QED BY <1>1, <1>4 DEF IInv, Queue

-----------------------------------------------------------------------------
(* The other conjuncts. *)

(* Each other conjunct rests on the variables it mentions.                 *)
LEMMA InvFrame ==
  ASSUME IInv
  PROVE  /\ UNCHANGED <<phase, ask, once, reader, loop, idleCh>> => Token'
         /\ UNCHANGED <<phase, loop, currentJobDequeued>> => Loop'
         /\ UNCHANGED <<phase, currentJobActive, currentJobSeq>> => Flags'
         /\ UNCHANGED <<phase, cancelFn, currentJobSeq>> => CancelTarget'
         /\ UNCHANGED reader => ReaderQuiet'
         /\ UNCHANGED <<phase, ask, once, reader, readErrorOwner, loop>>
              => Sharing' /\ Finishing'
<1>1. UNCHANGED <<phase, ask, once, reader, loop, idleCh>> => Token'
  BY DEF IInv, Token, Occupies, Signaling, LoopIn
<1>2. UNCHANGED <<phase, loop, currentJobDequeued>> => Loop'
  BY DEF IInv, Loop, LoopIn
<1>3. UNCHANGED <<phase, currentJobActive, currentJobSeq>> => Flags'
  BY DEF IInv, Flags
<1>4. UNCHANGED <<phase, cancelFn, currentJobSeq>> => CancelTarget'
  BY DEF IInv, CancelTarget
<1>5. UNCHANGED reader => ReaderQuiet'
  BY DEF IInv, ReaderQuiet
<1>6. UNCHANGED <<phase, ask, once, reader, readErrorOwner, loop>> => Sharing'
  BY DEF IInv, Sharing, Unshared, LoopIn
<1>7. UNCHANGED <<phase, ask, once, reader, readErrorOwner, loop>> => Finishing'
  BY DEF IInv, Finishing, Finish, LoopIn, Signaling
<1> QED BY <1>1, <1>2, <1>3, <1>4, <1>5, <1>6, <1>7

(* A step of the loop from one program point to another, with the job's    *)
(* phase, callbacks and idle token left alone.                             *)
LEMMA Advance ==
  ASSUME TypeOK, IInv, NEW j \in Jobs, NEW q \in Held \cup Body,
         loop.job = j, loop' = [pc |-> q, job |-> j],
         \/ /\ loop.pc \in Held /\ q \in Held \ {"popped", "token"}
            /\ (q = "begin" => loop.pc = "token")
         \/ loop.pc \in Body /\ q \in Body /\ (q \in Private => loop.pc \in Private),
         loop.pc # "popped" => UNCHANGED queuedJobs,
         currentJobDequeued' = TRUE,
         UNCHANGED <<queue, phase, ask, once, reader, readErrorOwner, idleCh>>
  PROVE  /\ Token' /\ Loop' /\ Sharing' /\ Finishing'
         /\ loop.pc # "popped" => Queue'
<1>1. Token'
  BY DEF IInv, Token, Occupies, Signaling, LoopIn, Held, Body
<1>2. Loop'
  BY DEF IInv, Loop, LoopIn, Held, Body
<1>3. Sharing'
  BY DEF IInv, Sharing, Unshared, LoopIn, Private, Held, Body
<1>4. Finishing'
  BY DEF IInv, Sharing, Unshared, Finishing, Finish, Signaling, LoopIn, LoopPc, Private,
      Held, Body
<1>5. loop.pc # "popped" => Queue'
  BY QueueFrame DEF IInv, Held, Body
<1> QED BY <1>1, <1>2, <1>3, <1>4, <1>5

(* A step of a caller's job, which no other thread knows yet.              *)
LEMMA Waiting ==
  ASSUME TypeOK, IInv, NEW j \in Jobs, NEW p \in {"counted", "queued", "refused"},
         phase[j] \in {"new", "counted"}, phase' = [phase EXCEPT ![j] = p],
         UNCHANGED <<currentJobDequeued, idleCh, loop, ask, once, lockVars, agentVars>>
  PROVE  Token' /\ Loop' /\ Flags' /\ CancelTarget' /\ ReaderQuiet' /\ Sharing' /\ Finishing'
<1>1. phase \in [Jobs -> JobPhase] /\ cancelFn \in Jobs \cup {NoJob}
  BY DEF TypeOK, JobType, LockType
<1>2. Token' BY <1>1 DEF IInv, Token, Occupies, Signaling, LoopIn, agentVars
<1>3. Loop' BY <1>1 DEF IInv, Loop, LoopIn
<1>4. Flags' BY <1>1 DEF IInv, Flags, lockVars
<1>5. CancelTarget' BY <1>1 DEF IInv, CancelTarget, lockVars
<1>6. ReaderQuiet' BY DEF IInv, ReaderQuiet, agentVars
<1>7. Sharing' BY <1>1 DEF IInv, Sharing, Unshared, LoopIn, agentVars
<1>8. Finishing' BY <1>1 DEF IInv, Finishing, Finish, Signaling, LoopIn, agentVars
<1> QED BY <1>2, <1>3, <1>4, <1>5, <1>6, <1>7, <1>8

(* Enqueue keeps the invariant.                                            *)
LEMMA EnqueueInv ==
  ASSUME TypeOK, IInv, NEW j \in Jobs, Enqueue(j)
  PROVE  IInv'
<1>1. CASE EnqueueCount(j)
  <2>1. Queue' BY <1>1, EnqueueCountQ
  <2> QED BY <1>1, <2>1, Waiting DEF EnqueueCount, IInv
<1>2. CASE EnqueueSend(j)
  <2>1. Queue' BY <1>2, EnqueueSendQ
  <2>2. PICK p \in {"queued", "refused"} : phase' = [phase EXCEPT ![j] = p]
    BY <1>2 DEF EnqueueSend
  <2> QED BY <1>2, <2>1, <2>2, Waiting DEF EnqueueSend, IInv
<1> QED BY <1>1, <1>2 DEF Enqueue

(* The loop's select keeps it: the popped job was waiting, so nobody else  *)
(* holds it.                                                               *)
LEMMA SelectInv ==
  ASSUME TypeOK, IInv, LoopExit \/ Dequeue
  PROVE  IInv'
<1>1. CASE LoopExit
  <2> USE <1>1 DEF LoopExit, LoopAt, Goto
  <2>1. Token' BY DEF IInv, Token, Occupies, Signaling, LoopIn, jobVars, agentVars
  <2>2. Queue' BY QueueFrame DEF IInv, jobVars
  <2>3. Loop' BY DEF IInv, Loop, LoopIn, Held, jobVars
  <2>4. Sharing' BY DEF IInv, Sharing, Unshared, LoopIn, Private, Held, jobVars, agentVars
  <2>5. Finishing'
    BY DEF IInv, Finishing, Finish, Signaling, LoopIn, Private, Body, jobVars, agentVars
  <2> QED BY <2>1, <2>2, <2>3, <2>4, <2>5, InvFrame DEF IInv, jobVars, lockVars, agentVars
<1>2. CASE Dequeue
  <2>1. PICK j \in Jobs : j = Head(queue) /\ phase[j] = "queued"
    <3>1. queue \in Seq(Jobs) /\ queue # <<>> BY <1>2 DEF TypeOK, QueueType, Dequeue
    <3>2. Head(queue) \in Jobs /\ Head(queue) = queue[1] /\ 1 \in 1..Len(queue) BY <3>1
    <3> QED BY <3>2 DEF IInv, Queue
  <2>2. /\ loop = [pc |-> "select", job |-> NoJob] /\ loop' = [pc |-> "popped", job |-> j]
        /\ phase'[j] = "held" /\ \A k \in Jobs \ {j} : phase'[k] = phase[k]
        /\ UNCHANGED <<currentJobDequeued, idleCh, ask, once>>
        /\ UNCHANGED <<lockVars, agentVars>>
    BY <1>2, <2>1 DEF Dequeue, LoopAt, Goto, TypeOK, JobType
  <2>3. Token' BY <2>1, <2>2 DEF IInv, Token, Occupies, Signaling, LoopIn, agentVars
  <2>4. Loop' BY <2>1, <2>2 DEF IInv, Loop, LoopIn, Held
  <2>5. Flags' BY <2>1, <2>2 DEF IInv, Flags, lockVars
  <2>6. CancelTarget'
    BY <2>1, <2>2 DEF IInv, CancelTarget, TypeOK, LockType, lockVars
  <2>7. Sharing' BY <2>1, <2>2 DEF IInv, Sharing, Unshared, LoopIn, Private, Held, agentVars
  <2>8. Finishing'
    BY <2>1, <2>2
       DEF IInv, Sharing, Unshared, Finishing, Finish, Signaling, LoopIn, Private, Body,
           Held, agentVars
  <2>9. Queue' BY <1>2, DequeueQ
  <2> QED BY <2>2, <2>3, <2>4, <2>5, <2>6, <2>7, <2>8, <2>9, InvFrame DEF IInv, agentVars
<1> QED BY <1>1, <1>2

(* The loop steps that only advance the program counter keep it.           *)
LEMMA AdvanceInv ==
  ASSUME TypeOK, IInv, NEW j \in Jobs,
         \/ MarkDequeued(j) \/ PassStopCheck(j) \/ ThreadFail(j) \/ Arm(j) \/ CompactOk(j)
         \/ CheckCtx(j) \/ FallbackSendFail(j) \/ FallbackAnswered(j) \/ FallbackGivesUp(j)
  PROVE  IInv'
<1> USE DEF LoopAt, Goto
<1>0. loop.pc \notin {"select", "popped", "exit"} => currentJobDequeued = TRUE
  BY DEF IInv, Loop, TypeOK, QueueType
<1>1. CASE MarkDequeued(j)
  <2>1. Token' /\ Loop' /\ Sharing' /\ Finishing'
    BY <1>1, Advance DEF MarkDequeued, Held, Body, jobVars, agentVars
  <2>2. Queue' BY <1>1, MarkDequeuedQ
  <2> QED BY <1>1, <2>1, <2>2, InvFrame DEF IInv, MarkDequeued, jobVars, lockVars, agentVars
<1>2. CASE PassStopCheck(j)
  <2>1. Token' /\ Loop' /\ Sharing' /\ Finishing' /\ Queue'
    BY <1>0, <1>2, Advance DEF PassStopCheck, Held, Body, jobVars, agentVars
  <2> QED BY <1>2, <2>1, InvFrame DEF IInv, PassStopCheck, jobVars, lockVars, agentVars
<1>3. CASE ThreadFail(j)
  <2>1. Token' /\ Loop' /\ Sharing' /\ Finishing' /\ Queue'
    BY <1>0, <1>3, Advance DEF ThreadFail, Held, Body, Private, agentVars
  <2> QED BY <1>3, <2>1, InvFrame DEF IInv, ThreadFail, lockVars, agentVars
<1>4. CASE Arm(j)
  <2>1. Token' /\ Loop' /\ Sharing' /\ Finishing' /\ Queue'
    BY <1>0, <1>4, Advance DEF Arm, Held, Body, Private, agentVars
  <2>2. phase[j] = "running"
    BY <1>4 DEF Arm, IInv, Finishing, Finish, LoopIn, Private, Body, Held
  <2>3. CancelTarget' BY <1>4, <2>2 DEF Arm, IInv, Flags, CancelTarget
  <2> QED BY <1>4, <2>1, <2>3, InvFrame DEF IInv, Arm, agentVars
<1>5. CASE CompactOk(j)
  <2>1. Token' /\ Loop' /\ Sharing' /\ Finishing' /\ Queue'
    BY <1>0, <1>5, Advance DEF CompactOk, Held, Body, Private, jobVars, agentVars
  <2> QED BY <1>5, <2>1, InvFrame DEF IInv, CompactOk, jobVars, lockVars, agentVars
<1>6. CASE CheckCtx(j)
  <2>1. Token' /\ Loop' /\ Sharing' /\ Finishing' /\ Queue'
    BY <1>0, <1>6, Advance DEF CheckCtx, Held, Body, Private, jobVars, agentVars
  <2> QED BY <1>6, <2>1, InvFrame DEF IInv, CheckCtx, jobVars, lockVars, agentVars
<1>7. CASE FallbackSendFail(j)
  <2>1. Token' /\ Loop' /\ Sharing' /\ Finishing' /\ Queue'
    BY <1>0, <1>7, Advance DEF FallbackSendFail, Held, Body, Private, jobVars, agentVars
  <2> QED BY <1>7, <2>1, InvFrame DEF IInv, FallbackSendFail, jobVars, lockVars, agentVars
<1>8. CASE FallbackAnswered(j)
  <2>1. Token' /\ Loop' /\ Sharing' /\ Finishing' /\ Queue'
    BY <1>0, <1>8, Advance DEF FallbackAnswered, FallbackReturn, Held, Body, Private, agentVars
  <2> QED BY <1>8, <2>1, InvFrame
          DEF IInv, FallbackAnswered, FallbackReturn, lockVars, agentVars
<1>9. CASE FallbackGivesUp(j)
  <2>1. Token' /\ Loop' /\ Sharing' /\ Finishing' /\ Queue'
    BY <1>0, <1>9, Advance DEF FallbackGivesUp, FallbackReturn, Held, Body, Private, agentVars
  <2> QED BY <1>9, <2>1, InvFrame DEF IInv, FallbackGivesUp, FallbackReturn, lockVars, agentVars
<1> QED BY <1>1, <1>2, <1>3, <1>4, <1>5, <1>6, <1>7, <1>8, <1>9

(* Dropping the held job, taking the idle token, rejecting and starting    *)
(* keep it: with the token nothing else runs.                              *)
LEMMA BeginInv ==
  ASSUME TypeOK, IInv, NEW j \in Jobs, DropHeld(j) \/ TakeToken(j) \/ Reject(j) \/ StartJob(j)
  PROVE  IInv'
<1> USE DEF LoopAt, Goto
<1>0. /\ phase \in [Jobs -> JobPhase] /\ cancelFn \in Jobs \cup {NoJob}
      /\ LoopIn(Held, j) => /\ phase[j] = "held" /\ once[j] = "no" /\ ask[j] = "none"
                            /\ reader.job # j /\ readErrorOwner # j
  BY DEF TypeOK, JobType, LockType, IInv, Loop, Sharing, Unshared
<1>1. CASE DropHeld(j)
  <2>1. /\ LoopIn({"wait", "token"}, j) /\ loop' = [pc |-> "exit", job |-> NoJob]
        /\ phase[j] = "held" /\ phase' = [phase EXCEPT ![j] = "dropped"]
        /\ UNCHANGED <<queue, queuedJobs, idleCh, ask, once, lockVars, agentVars>>
    BY <1>0, <1>1 DEF DropHeld, LoopIn, Held
  <2>2. Token' BY <1>0, <2>1 DEF IInv, Token, Occupies, Signaling, LoopIn, agentVars
  <2>3. Queue' BY <1>0, <2>1, QueueFrame DEF IInv, LoopIn
  <2>4. Loop' BY <1>0, <2>1 DEF IInv, Loop, LoopIn, Held
  <2>5. Flags' BY <1>0, <2>1 DEF IInv, Flags, lockVars
  <2>6. CancelTarget' BY <1>0, <2>1 DEF IInv, CancelTarget, lockVars
  <2>7. Sharing' BY <1>0, <2>1 DEF IInv, Sharing, Unshared, LoopIn, Private, Held, agentVars
  <2>8. Finishing'
    BY <1>0, <2>1 DEF IInv, Finishing, Finish, Signaling, LoopIn, Private, Body, agentVars
  <2> QED BY <2>1, <2>2, <2>3, <2>4, <2>5, <2>6, <2>7, <2>8, InvFrame DEF IInv, agentVars
<1>2. CASE TakeToken(j)
  <2>1. /\ LoopIn({"wait"}, j) /\ idleCh /\ ~idleCh' /\ loop' = [pc |-> "token", job |-> j]
        /\ UNCHANGED <<queue, queuedJobs, currentJobDequeued, lockVars, jobVars, agentVars>>
    BY <1>2 DEF TakeToken, LoopIn
  <2>2. Token' BY <2>1 DEF IInv, Token, Occupies, Signaling, LoopIn, jobVars, agentVars
  <2>3. Queue' BY <2>1, QueueFrame DEF IInv, LoopIn, jobVars
  <2>4. Loop' BY <2>1 DEF IInv, Loop, LoopIn, Held, jobVars
  <2>5. Sharing' BY <2>1 DEF IInv, Sharing, Unshared, LoopIn, Private, Held, jobVars, agentVars
  <2>6. Finishing'
    BY <1>0, <2>1
       DEF IInv, Finishing, Finish, Signaling, LoopIn, Private, Body, Held, jobVars, agentVars
  <2> QED BY <2>1, <2>2, <2>3, <2>4, <2>5, <2>6, InvFrame DEF IInv, jobVars, lockVars, agentVars
<1>3. CASE Reject(j)
  <2>1. /\ LoopIn({"begin"}, j) /\ loop' = [pc |-> "signal", job |-> j]
        /\ phase[j] = "held" /\ phase' = [phase EXCEPT ![j] = "done"]
        /\ UNCHANGED <<queue, queuedJobs, currentJobDequeued, idleCh, ask, once>>
        /\ UNCHANGED <<lockVars, agentVars>>
    BY <1>0, <1>3 DEF Reject, LoopIn, Held
  <2>2. Token' BY <1>0, <2>1 DEF IInv, Token, Occupies, Signaling, LoopIn, agentVars
  <2>3. Queue' BY <1>0, <2>1, QueueFrame DEF IInv, LoopIn
  <2>4. Loop' BY <1>0, <2>1 DEF IInv, Loop, LoopIn, Held
  <2>5. Flags' BY <1>0, <2>1 DEF IInv, Flags, lockVars
  <2>6. CancelTarget' BY <1>0, <2>1 DEF IInv, CancelTarget, lockVars
  <2>7. Sharing' BY <1>0, <2>1 DEF IInv, Sharing, Unshared, LoopIn, Private, Held, agentVars
  <2>8. Finishing'
    BY <1>0, <2>1 DEF IInv, Finishing, Finish, Signaling, LoopIn, Private, Body, Held, agentVars
  <2> QED BY <2>1, <2>2, <2>3, <2>4, <2>5, <2>6, <2>7, <2>8, InvFrame DEF IInv, agentVars
<1>4. CASE StartJob(j)
  <2>1. /\ LoopIn({"begin"}, j) /\ loop' = [pc |-> "setup", job |-> j]
        /\ phase[j] = "held" /\ phase' = [phase EXCEPT ![j] = "running"]
        /\ currentJobActive' = TRUE /\ currentJobSeq' = j
        /\ UNCHANGED <<queue, queuedJobs, currentJobDequeued, idleCh, ask, once>>
        /\ UNCHANGED <<cancelFn, agentVars>>
    BY <1>0, <1>4 DEF StartJob, LoopIn, Held
  <2>2. Token' BY <1>0, <2>1 DEF IInv, Token, Occupies, Signaling, LoopIn, agentVars
  <2>3. Queue' BY <1>0, <2>1, QueueFrame DEF IInv, LoopIn
  <2>4. Loop' BY <1>0, <2>1 DEF IInv, Loop, LoopIn, Held
  <2>5. \A k \in Jobs : phase[k] # "running" BY <2>1 DEF IInv, Token, Occupies, LoopIn
  <2>6. Flags' BY <1>0, <2>1, <2>5 DEF IInv, Flags
  <2>7. CancelTarget' BY <1>0, <2>1, <2>5 DEF IInv, CancelTarget
  <2>8. Sharing' BY <1>0, <2>1 DEF IInv, Sharing, Unshared, LoopIn, Private, Held, agentVars
  <2>9. Finishing'
    BY <1>0, <2>1
       DEF IInv, Finishing, Finish, Signaling, LoopIn, LoopPc, Private, Body, Held, agentVars
  <2> QED BY <2>1, <2>2, <2>3, <2>4, <2>6, <2>7, <2>8, <2>9, InvFrame DEF IInv, agentVars
<1> QED BY <1>1, <1>2, <1>3, <1>4

(* Registering the read-error callback, a failed compaction, the prompt    *)
(* and the return keep it.                                                 *)
LEMMA BodyInv ==
  ASSUME TypeOK, SafeMix, IInv, NEW j \in Jobs,
         RegisterReadError(j) \/ CompactFail(j) \/ AskAsyncMulti(j) \/ ExecuteReturn(j)
  PROVE  IInv'
<1> USE DEF LoopAt, Goto
<1>0. once \in [Jobs -> OnceState] /\ ask \in [Jobs -> AskState] BY DEF TypeOK, JobType
<1>1. CASE RegisterReadError(j)
  <2>1. /\ LoopIn({"register"}, j) /\ loop' = [pc |-> "compact", job |-> j]
        /\ readErrorOwner' = j
        /\ phase[j] = "running"
        /\ UNCHANGED <<queue, queuedJobs, currentJobDequeued, idleCh, reader>>
        /\ UNCHANGED <<lockVars, jobVars>>
    BY <1>1 DEF RegisterReadError, IInv, Finishing, Finish, LoopIn, Private, Body
  <2>2. Token' BY <2>1 DEF IInv, Token, Occupies, Signaling, LoopIn, jobVars
  <2>3. Queue' BY <2>1, QueueFrame DEF IInv, LoopIn, jobVars
  <2>4. Loop' BY <2>1 DEF IInv, Loop, LoopIn, Held, jobVars
  <2>5. Sharing' BY <2>1 DEF IInv, Sharing, Unshared, LoopIn, Private, Held, jobVars
  <2>6. Finishing'
    BY <2>1 DEF IInv, Sharing, Unshared, Finishing, Finish, Signaling, LoopIn, LoopPc,
        Private, Body, jobVars
  <2> QED BY <2>1, <2>2, <2>3, <2>4, <2>5, <2>6, InvFrame DEF IInv, jobVars, lockVars
<1>2. CASE CompactFail(j)
  <2>1. /\ LoopIn({"compact"}, j)
        /\ \E q \in {"return", "finish"} : loop' = [pc |-> q, job |-> j]
        /\ \/ loop'.pc = "return" /\ j \in Inline /\ once[j] # "no" /\ once' = once
           \/ loop'.pc = "finish" /\ j \notin Inline /\ once' = once
           \/ loop'.pc = "finish" /\ j \in Inline /\ once' = [once EXCEPT ![j] = "yes"]
        /\ UNCHANGED <<queue, queuedJobs, currentJobDequeued, idleCh, phase, ask>>
        /\ UNCHANGED <<lockVars, agentVars>>
    BY <1>2 DEF CompactFail, LoopIn
  <2>2. Token' BY <1>0, <2>1 DEF IInv, Token, Occupies, Signaling, LoopIn, agentVars
  <2>3. Queue' BY <2>1, QueueFrame DEF IInv, LoopIn
  <2>4. Loop' BY <2>1 DEF IInv, Loop, LoopIn, Held
  <2>5. phase[j] \notin {"new", "counted", "queued", "held", "refused", "dropped"}
    BY <2>1 DEF IInv, Finishing, Finish, LoopIn, Body, Sharing, Unshared
  <2>6. Sharing'
    BY <1>0, <2>1, <2>5 DEF IInv, Sharing, Unshared, LoopIn, Private, Held, agentVars
  <2>7. Finishing'
    BY <1>0, <2>1, <2>5
       DEF IInv, Finishing, Finish, Signaling, LoopIn, LoopPc, Private, Body, Held, agentVars
  <2> QED BY <2>1, <2>2, <2>3, <2>4, <2>6, <2>7, InvFrame DEF IInv, lockVars, agentVars
<1>3. CASE AskAsyncMulti(j)
  <2>1. /\ LoopIn({"prompt"}, j) /\ loop' = [pc |-> "return", job |-> j]
        /\ ask[j] = "none" /\ ask' = [ask EXCEPT ![j] = "sent"]
        /\ UNCHANGED <<queue, queuedJobs, currentJobDequeued, idleCh, phase, once>>
        /\ UNCHANGED <<lockVars, agentVars>>
    BY <1>3 DEF AskAsyncMulti, LoopIn, LoopPc, IInv, Finishing, Finish
  <2>2. Token' BY <1>0, <2>1 DEF IInv, Token, Occupies, Signaling, LoopIn, agentVars
  <2>3. Queue' BY <2>1, QueueFrame DEF IInv, LoopIn
  <2>4. Loop' BY <2>1 DEF IInv, Loop, LoopIn, Held
  <2>5. phase[j] \notin {"new", "counted", "queued", "held", "refused", "dropped"}
    BY <2>1 DEF IInv, Finishing, Finish, LoopIn, Body, Sharing, Unshared
  <2>6. Sharing'
    BY <1>0, <2>1, <2>5 DEF IInv, Sharing, Unshared, LoopIn, Private, Held, agentVars
  <2>7. Finishing'
    BY <1>0, <2>1
       DEF IInv, Finishing, Finish, Signaling, LoopIn, LoopPc, Private, Body, Held, agentVars
  <2> QED BY <2>1, <2>2, <2>3, <2>4, <2>6, <2>7, InvFrame DEF IInv, lockVars, agentVars
<1>4. CASE ExecuteReturn(j)
  <2>1. /\ LoopIn({"return"}, j) /\ loop' = [pc |-> "select", job |-> NoJob]
        /\ UNCHANGED <<queue, queuedJobs, idleCh, lockVars, jobVars, agentVars>>
    BY <1>4 DEF ExecuteReturn, LoopIn
  <2>2. Token' BY <2>1 DEF IInv, Token, Occupies, Signaling, LoopIn, jobVars, agentVars
  <2>3. Queue' BY <2>1, QueueFrame DEF IInv, LoopIn, jobVars
  <2>4. Loop' BY <2>1 DEF IInv, Loop, LoopIn, Held, jobVars
  <2>5. Sharing' BY <2>1 DEF IInv, Sharing, Unshared, LoopIn, Private, Held, jobVars, agentVars
  <2>6. Finishing'
    BY <2>1 DEF IInv, Finishing, Finish, Signaling, LoopIn, Private, Body, jobVars, agentVars
  <2> QED BY <2>1, <2>2, <2>3, <2>4, <2>5, <2>6, InvFrame DEF IInv, jobVars, lockVars, agentVars
<1> QED BY <1>1, <1>2, <1>3, <1>4

(* finishJob, called by the loop, OnComplete or the read-error callback,   *)
(* keeps it: the job it clears is the one that runs.                       *)
LEMMA FinishInv ==
  ASSUME TypeOK, SafeMix, IInv, NEW j \in Jobs,
         LoopFinish(j) \/ OnCompleteFinish(j) \/ ReadErrorFinish(j)
  PROVE  IInv'
<1> USE DEF LoopAt, Goto
<1>0. /\ once \in [Jobs -> OnceState] /\ ask \in [Jobs -> AskState]
      /\ phase \in [Jobs -> JobPhase]
      /\ cancelFn \in Jobs \cup {NoJob}
  BY DEF TypeOK, JobType, LockType
<1>1. CASE LoopFinish(j)
  <2>1. /\ LoopIn({"finish"}, j)
        /\ UNCHANGED <<queue, queuedJobs, currentJobDequeued, idleCh, ask, agentVars>>
        /\ \/ loop' = [pc |-> "return", job |-> j] /\ UNCHANGED <<phase, once, lockVars>>
           \/ loop' = [pc |-> "signal", job |-> j] /\ ClaimFinish(j)
    BY <1>1 DEF LoopFinish, LoopIn
  <2>2. CASE loop'.pc = "return"
    <3>1. loop' = [pc |-> "return", job |-> j] /\ UNCHANGED <<phase, once, lockVars>>
      BY <2>1, <2>2
    <3>2. Token' BY <2>1, <3>1 DEF IInv, Token, Occupies, Signaling, LoopIn, agentVars
    <3>3. Queue' BY <2>1, <3>1, QueueFrame DEF IInv, LoopIn
    <3>4. Loop' BY <2>1, <3>1 DEF IInv, Loop, LoopIn, Held
    <3>5. Sharing' BY <2>1, <3>1 DEF IInv, Sharing, Unshared, LoopIn, Private, Held, agentVars
    <3>6. Finishing'
      BY <2>1, <3>1 DEF IInv, Finishing, Finish, Signaling, LoopIn, Private, Body, agentVars
    <3> QED BY <2>1, <3>1, <3>2, <3>3, <3>4, <3>5, <3>6, InvFrame DEF IInv, lockVars, agentVars
  <2>3. CASE loop'.pc = "signal"
    <3>1. /\ loop' = [pc |-> "signal", job |-> j] /\ phase' = [phase EXCEPT ![j] = "done"]
          /\ phase[j] = "running" /\ cancelFn' = NoJob
          /\ IF j \in Inline THEN once' = once
                            ELSE once' = [once EXCEPT ![j] = "busy"] /\ once[j] = "no"
      BY <2>1, <2>3 DEF ClaimFinish, ClearCurrent, IInv, Finishing, Finish, LoopIn, Body
    <3>2. \A k \in Jobs \ {j} : ~Occupies(k) BY <3>1 DEF IInv, Token, Occupies
    <3>3. Token'
      BY <1>0, <2>1, <3>1, <3>2 DEF IInv, Token, Occupies, Signaling, LoopIn, agentVars
    <3>4. Queue' BY <1>0, <2>1, <3>1, QueueFrame DEF IInv, LoopIn
    <3>5. Loop' BY <1>0, <2>1, <3>1 DEF IInv, Loop, LoopIn, Held
    <3>6. Flags' BY <1>0, <3>1, <3>2 DEF Flags, Occupies
    <3>7. CancelTarget' BY <3>1 DEF CancelTarget
    <3>8. Sharing'
      BY <1>0, <2>1, <3>1 DEF IInv, Sharing, Unshared, LoopIn, Private, Held, agentVars
    <3>9. Finishing'
      BY <1>0, <2>1, <3>1
         DEF IInv, Finishing, Finish, Signaling, LoopIn, LoopPc, Private, Body, Held,
             agentVars, SafeMix, ReaderQuiet
    <3> QED BY <2>1, <3>3, <3>4, <3>5, <3>6, <3>7, <3>8, <3>9, InvFrame DEF IInv, agentVars
  <2> QED BY <2>1, <2>2, <2>3
<1>2. CASE OnCompleteFinish(j)
  <2>1. /\ ask[j] = "finish" /\ UNCHANGED <<queueVars, agentVars>>
        /\ \/ ask' = [ask EXCEPT ![j] = "done"] /\ UNCHANGED <<phase, once, lockVars>>
           \/ ask' = [ask EXCEPT ![j] = "signal"] /\ ClaimFinish(j)
    BY <1>2 DEF OnCompleteFinish
  <2>2. CASE ask'[j] = "done"
    <3>1. ask' = [ask EXCEPT ![j] = "done"] /\ UNCHANGED <<phase, once, lockVars>>
      BY <1>0, <2>1, <2>2
    <3>2. Token'
      BY <1>0, <2>1, <3>1 DEF IInv, Token, Occupies, Signaling, LoopIn, agentVars, queueVars
    <3>3. Queue' BY <2>1, <3>1, QueueFrame DEF IInv, LoopIn, queueVars
    <3>4. Sharing' BY <1>0, <2>1, <3>1 DEF IInv, Sharing, Unshared, LoopIn, agentVars, queueVars
    <3>5. Finishing'
      BY <1>0, <2>1, <3>1 DEF IInv, Finishing, Finish, Signaling, LoopIn, agentVars, queueVars
    <3> QED BY <2>1, <3>1, <3>2, <3>3, <3>4, <3>5, InvFrame
            DEF IInv, lockVars, agentVars, queueVars
  <2>3. CASE ask'[j] = "signal"
    <3>1. /\ ask' = [ask EXCEPT ![j] = "signal"] /\ phase' = [phase EXCEPT ![j] = "done"]
          /\ phase[j] = "running" /\ cancelFn' = NoJob
          /\ IF j \in Inline THEN once' = once
                            ELSE once' = [once EXCEPT ![j] = "busy"] /\ once[j] = "no"
      BY <1>0, <2>1, <2>3 DEF ClaimFinish, ClearCurrent, IInv, Finishing, Finish
    <3>2. \A k \in Jobs \ {j} : ~Occupies(k) BY <3>1 DEF IInv, Token, Occupies
    <3>3. Token'
      BY <1>0, <2>1, <3>1, <3>2
         DEF IInv, Token, Occupies, Signaling, LoopIn, agentVars, queueVars
    <3>4. Queue' BY <1>0, <2>1, <3>1, QueueFrame DEF IInv, LoopIn, queueVars
    <3>5. Loop' BY <1>0, <2>1, <3>1 DEF IInv, Loop, LoopIn, queueVars
    <3>6. Flags' BY <1>0, <3>1, <3>2 DEF Flags, Occupies
    <3>7. CancelTarget' BY <3>1 DEF CancelTarget
    <3>8. Sharing' BY <1>0, <2>1, <3>1 DEF IInv, Sharing, Unshared, LoopIn, agentVars, queueVars
    <3>9. Finishing'
      BY <1>0, <2>1, <3>1
         DEF IInv, Finishing, Finish, Signaling, LoopIn, LoopPc, Private, Body, Held,
             agentVars, SafeMix, ReaderQuiet, queueVars
    <3> QED BY <2>1, <3>3, <3>4, <3>5, <3>6, <3>7, <3>8, <3>9, InvFrame DEF IInv, agentVars
  <2> QED BY <1>0, <2>1, <2>2, <2>3
<1>3. CASE ReadErrorFinish(j)
  <2>0. Inline = {} BY <1>3, SafeMix DEF ReadErrorFinish, IInv, ReaderQuiet, SafeMix
  <2>1. /\ reader = [pc |-> "finish", job |-> j]
        /\ UNCHANGED <<queueVars, ask, agent, conn, readErrorOwner>>
        /\ \/ reader' = [reader EXCEPT !.pc = "done"] /\ UNCHANGED <<phase, once, lockVars>>
           \/ reader' = [reader EXCEPT !.pc = "signal"] /\ ClaimFinish(j)
    BY <1>3 DEF ReadErrorFinish
  <2>1a. ReaderQuiet' BY <2>1 DEF IInv, ReaderQuiet
  <2>2. CASE reader'.pc = "done"
    <3>1. reader' = [pc |-> "done", job |-> j] /\ UNCHANGED <<phase, once, lockVars>>
      BY <2>1, <2>2
    <3>2. Token' BY <2>1, <3>1 DEF IInv, Token, Occupies, Signaling, LoopIn, queueVars
    <3>3. Queue' BY <2>1, <3>1, QueueFrame DEF IInv, LoopIn, queueVars
    <3>4. Sharing' BY <2>1, <3>1 DEF IInv, Sharing, Unshared, LoopIn, queueVars
    <3>5. Finishing'
      BY <2>1, <3>1 DEF IInv, Finishing, Finish, Signaling, LoopIn, queueVars
    <3> QED BY <2>1, <2>1a, <3>1, <3>2, <3>3, <3>4, <3>5, InvFrame DEF IInv, lockVars, queueVars
  <2>3. CASE reader'.pc = "signal"
    <3>1. /\ reader' = [pc |-> "signal", job |-> j] /\ phase' = [phase EXCEPT ![j] = "done"]
          /\ phase[j] = "running" /\ cancelFn' = NoJob
          /\ once' = [once EXCEPT ![j] = "busy"] /\ once[j] = "no"
      BY <2>0, <2>1, <2>3 DEF ClaimFinish, ClearCurrent, IInv, Finishing, Finish
    <3>2. \A k \in Jobs \ {j} : ~Occupies(k) BY <3>1 DEF IInv, Token, Occupies
    <3>3. Token'
      BY <1>0, <2>1, <3>1, <3>2 DEF IInv, Token, Occupies, Signaling, LoopIn, queueVars
    <3>4. Queue' BY <1>0, <2>1, <3>1, QueueFrame DEF IInv, LoopIn, queueVars
    <3>5. Loop' BY <1>0, <2>1, <3>1 DEF IInv, Loop, LoopIn, queueVars
    <3>6. Flags' BY <1>0, <3>1, <3>2 DEF Flags, Occupies
    <3>7. CancelTarget' BY <3>1 DEF CancelTarget
    <3>8. Sharing' BY <1>0, <2>1, <3>1 DEF IInv, Sharing, Unshared, LoopIn, queueVars
    <3>9. Finishing'
      BY <1>0, <2>0, <2>1, <3>1
         DEF IInv, Sharing, Unshared, Finishing, Finish, Signaling, LoopIn, LoopPc, Private,
             Body, Held, queueVars, SafeMix
    <3> QED BY <2>1a, <3>3, <3>4, <3>5, <3>6, <3>7, <3>8, <3>9 DEF IInv
  <2> QED BY <2>1, <2>2, <2>3
<1> QED BY <1>1, <1>2, <1>3

(* signalIdle by the same three callers keeps it: the caller is the last   *)
(* to occupy the worker when the token goes back.                          *)
LEMMA SignalInv ==
  ASSUME TypeOK, SafeMix, IInv, NEW j \in Jobs,
         LoopSignal(j) \/ OnCompleteSignal(j) \/ ReadErrorSignal(j)
  PROVE  IInv'
<1> USE DEF LoopAt, Goto
<1>1. /\ once \in [Jobs -> OnceState] /\ ask \in [Jobs -> AskState]
      /\ phase \in [Jobs -> JobPhase]
      /\ \A k \in Jobs : k \in Inline => once[k] # "busy"
  BY DEF TypeOK, JobType, IInv, Finishing, Finish
<1>2. /\ once' = [once EXCEPT ![j] = IF @ = "busy" THEN "yes" ELSE @]
      /\ idleCh' \in {idleCh, TRUE}
      /\ UNCHANGED <<queue, queuedJobs, currentJobDequeued, phase, lockVars, readErrorOwner>>
  BY DEF LoopSignal, OnCompleteSignal, ReadErrorSignal, SignalIdle
<1>3. Signaling(j) /\ phase[j] = "done"
  BY DEF IInv, Finishing, Finish, Signaling, LoopIn, LoopSignal, OnCompleteSignal,
      ReadErrorSignal
<1>4. \A k \in Jobs \ {j} : ~Occupies(k) BY <1>3 DEF IInv, Token, Occupies
<1>5. CASE LoopSignal(j)
  <2>1. /\ LoopIn({"signal"}, j) /\ loop' = [pc |-> "return", job |-> j]
        /\ UNCHANGED <<ask, reader>>
    BY <1>5 DEF LoopSignal, LoopIn
  <2>2. Token'
    BY <1>1, <1>2, <1>3, <1>4, <2>1
       DEF IInv, Finishing, Finish, Token, Occupies, Signaling, LoopIn, LoopPc
  <2>3. Queue' BY <1>2, <2>1, QueueFrame DEF IInv, LoopIn
  <2>4. Loop' BY <1>2, <2>1 DEF IInv, Loop, LoopIn, Held
  <2>5. Sharing' BY <1>1, <1>2, <1>3, <2>1 DEF IInv, Sharing, Unshared, LoopIn, Private, Held
  <2>6. Finishing'
    BY <1>1, <1>2, <1>3, <2>1
       DEF IInv, Finishing, Finish, Signaling, LoopIn, LoopPc, Private, Body
  <2> QED BY <1>2, <2>1, <2>2, <2>3, <2>4, <2>5, <2>6, InvFrame DEF IInv, lockVars
<1>6. CASE OnCompleteSignal(j)
  <2>1. /\ ask[j] = "signal" /\ ask' = [ask EXCEPT ![j] = "done"] /\ UNCHANGED <<loop, reader>>
    BY <1>6 DEF OnCompleteSignal
  <2>2. Token'
    BY <1>1, <1>2, <1>3, <1>4, <2>1
       DEF IInv, Finishing, Finish, Token, Occupies, Signaling, LoopIn, LoopPc
  <2>3. Queue' BY <1>2, <2>1, QueueFrame DEF IInv
  <2>4. Loop' BY <1>2, <2>1 DEF IInv, Loop, LoopIn
  <2>5. Sharing' BY <1>1, <1>2, <1>3, <2>1 DEF IInv, Sharing, Unshared, LoopIn
  <2>6. Finishing'
    BY <1>1, <1>2, <1>3, <2>1 DEF IInv, Finishing, Finish, Signaling, LoopIn
  <2> QED BY <1>2, <2>1, <2>2, <2>3, <2>4, <2>5, <2>6, InvFrame DEF IInv, lockVars
<1>7. CASE ReadErrorSignal(j)
  <2>0. Inline = {} BY <1>7, SafeMix DEF ReadErrorSignal, IInv, ReaderQuiet, SafeMix
  <2>1. /\ reader = [pc |-> "signal", job |-> j] /\ reader' = [pc |-> "done", job |-> j]
        /\ UNCHANGED <<loop, ask>>
    BY <1>7 DEF ReadErrorSignal
  <2>2. Token'
    BY <1>1, <1>2, <1>3, <1>4, <2>1
       DEF IInv, Loop, Held, Finishing, Finish, Token, Occupies, Signaling, LoopIn
  <2>3. Queue' BY <1>2, <2>1, QueueFrame DEF IInv
  <2>4. Loop' BY <1>2, <2>1 DEF IInv, Loop, LoopIn
  <2>5. Sharing' BY <1>1, <1>2, <1>3, <2>1 DEF IInv, Sharing, Unshared, LoopIn
  <2>6. Finishing'
    BY <1>1, <1>2, <1>3, <2>1 DEF IInv, Finishing, Finish, Signaling, LoopIn
  <2>7. ReaderQuiet' BY <2>1 DEF ReaderQuiet
  <2> QED BY <1>2, <2>1, <2>2, <2>3, <2>4, <2>5, <2>6, <2>7, InvFrame DEF IInv, lockVars
<1> QED BY <1>5, <1>6, <1>7

(* The answer and OnComplete up to its finish keep it.                     *)
LEMMA AnswerInv ==
  ASSUME TypeOK, SafeMix, IInv, NEW j \in Jobs,
         Answer(j) \/ OnCompleteBegin(j) \/ OnCompleteReply(j)
  PROVE  IInv'
<1>1. once \in [Jobs -> OnceState] /\ ask \in [Jobs -> AskState] BY DEF TypeOK, JobType
<1>2. /\ ask[j] \in {"sent", "answered", "replying"}
      /\ \E s \in {"answered", "replying", "finish", "done"} :
           /\ ask' = [ask EXCEPT ![j] = s]
           /\ s = "done" => j \in Inline /\ once[j] # "no"
      /\ once' = once \/ (j \in Inline /\ once' = [once EXCEPT ![j] = "yes"])
      /\ UNCHANGED <<queueVars, lockVars, phase, agentVars>>
  BY DEF Answer, OnCompleteBegin, OnCompleteReply
<1>3. /\ phase[j] \notin {"new", "counted", "queued", "held", "refused", "dropped"}
      /\ ~LoopIn(LoopPc \ {"return"}, j)
  BY <1>2 DEF IInv, Sharing, Unshared, Finishing, Finish
<1>4. Token' BY <1>1, <1>2 DEF IInv, Token, Occupies, Signaling, LoopIn, queueVars, agentVars
<1>5. Queue' BY <1>2, QueueFrame DEF IInv, queueVars
<1>6. Sharing'
  BY <1>1, <1>2, <1>3
     DEF IInv, Sharing, Unshared, LoopIn, LoopPc, Private, Held, queueVars, agentVars
<1>7. Finishing'
  BY <1>1, <1>2, <1>3 DEF IInv, Finishing, Finish, Signaling, LoopIn, queueVars, agentVars
<1> QED BY <1>2, <1>4, <1>5, <1>6, <1>7, InvFrame DEF IInv, queueVars, lockVars, agentVars

(* The end of ReadLoop and the read-error callback up to its finish keep   *)
(* it.                                                                     *)
LEMMA ReaderInv ==
  ASSUME TypeOK, SafeMix, IInv,
         ReadLoopEnds \/ ReadErrorPick \/ \E j \in Jobs : ReadErrorHandle(j)
  PROVE  IInv'
<1>1. CASE ReadLoopEnds
  <2>1. /\ reader.pc = "reading" /\ reader'.job = reader.job
        /\ \/ reader'.pc = "done"
           \/ reader'.pc = "failed" /\ "readError" \in Faults
        /\ UNCHANGED <<queueVars, lockVars, jobVars, readErrorOwner>>
    BY <1>1 DEF ReadLoopEnds, TypeOK, AgentType
  <2>2. Token' BY <2>1 DEF IInv, Token, Occupies, Signaling, LoopIn, queueVars, jobVars
  <2>3. Queue' BY <2>1, QueueFrame DEF IInv, queueVars, jobVars
  <2>4. ReaderQuiet' BY <2>1 DEF ReaderQuiet
  <2>5. Sharing' BY <2>1 DEF IInv, Sharing, Unshared, LoopIn, queueVars, jobVars
  <2>6. Finishing'
    BY <2>1, SafeMix DEF IInv, SafeMix, Finishing, Finish, Signaling, LoopIn, queueVars, jobVars
  <2> QED BY <2>1, <2>2, <2>3, <2>4, <2>5, <2>6, InvFrame DEF IInv, queueVars, lockVars, jobVars
<1>2. CASE ReadErrorPick
  <2>1. /\ Inline = {} /\ "readError" \in Faults
    BY <1>2, SafeMix DEF ReadErrorPick, SafeMix, IInv, ReaderQuiet
  <2>2. /\ reader.pc = "failed" /\ reader'.job = readErrorOwner
        /\ reader'.pc \in {"done", "handling"}
        /\ UNCHANGED <<queueVars, lockVars, jobVars, readErrorOwner>>
    BY <1>2 DEF ReadErrorPick, TypeOK, AgentType
  <2>3. Token' BY <2>2 DEF IInv, Token, Occupies, Signaling, LoopIn, queueVars, jobVars
  <2>4. Queue' BY <2>2, QueueFrame DEF IInv, queueVars, jobVars
  <2>5. ReaderQuiet' BY <2>1 DEF ReaderQuiet
  <2>6. Sharing' BY <2>2 DEF IInv, Sharing, Unshared, LoopIn, queueVars, jobVars
  <2>7. Finishing'
    BY <2>1, <2>2 DEF IInv, Finishing, Finish, Signaling, LoopIn, queueVars, jobVars
  <2> QED BY <2>2, <2>3, <2>4, <2>5, <2>6, <2>7, InvFrame DEF IInv, queueVars, lockVars, jobVars
<1>3. ASSUME NEW j \in Jobs, ReadErrorHandle(j) PROVE IInv'
  <2>1. /\ Inline = {} /\ "readError" \in Faults
    BY <1>3, SafeMix DEF ReadErrorHandle, SafeMix, IInv, ReaderQuiet
  <2>2. /\ reader = [pc |-> "handling", job |-> j] /\ reader' = [pc |-> "finish", job |-> j]
        /\ UNCHANGED <<queueVars, lockVars, phase, ask, once, readErrorOwner>>
    BY <1>3, <2>1 DEF ReadErrorHandle
  <2>3. Token' BY <2>2 DEF IInv, Token, Occupies, Signaling, LoopIn, queueVars
  <2>4. Queue' BY <2>2, QueueFrame DEF IInv, queueVars
  <2>5. ReaderQuiet' BY <2>1 DEF ReaderQuiet
  <2>6. Sharing' BY <2>2 DEF IInv, Sharing, Unshared, LoopIn, queueVars
  <2>7. Finishing'
    BY <2>1, <2>2 DEF IInv, Finishing, Finish, Signaling, LoopIn, queueVars
  <2> QED BY <2>2, <2>3, <2>4, <2>5, <2>6, <2>7, InvFrame DEF IInv, queueVars, lockVars
<1> QED BY <1>1, <1>2, <1>3

(* The user, the escalations, the agent and the manager touch nothing it   *)
(* mentions.                                                               *)
LEMMA QuietInv ==
  ASSUME TypeOK, IInv,
         \/ AgentDies \/ Stop \/ MarkThreadArchived
         \/ \E op \in {"cancel", "interrupt"} : UserRead(op)
         \/ \E j \in Jobs : UserAct(j) \/ Deadline(j) \/ Escalate(j)
         \/ UNCHANGED vars
  PROVE  IInv'
<1>1. /\ UNCHANGED <<queueVars, currentJobActive, currentJobSeq, cancelFn>>
      /\ UNCHANGED <<phase, ask, once, reader, readErrorOwner>>
  <2> USE DEF queueVars, lockVars, jobVars, agentVars
  <2>1. CASE AgentDies BY <2>1 DEF AgentDies
  <2>2. CASE Stop BY <2>2 DEF Stop
  <2>3. CASE MarkThreadArchived BY <2>3 DEF MarkThreadArchived
  <2>4. CASE \E op \in {"cancel", "interrupt"} : UserRead(op) BY <2>4 DEF UserRead
  <2>5. ASSUME NEW j \in Jobs, UserAct(j) \/ Deadline(j)
        PROVE  /\ UNCHANGED <<queueVars, currentJobActive, currentJobSeq, cancelFn>>
               /\ UNCHANGED <<phase, ask, once, reader, readErrorOwner>>
    BY <2>5 DEF UserAct, Deadline
  <2>6. ASSUME NEW j \in Jobs, Escalate(j)
        PROVE  /\ UNCHANGED <<queueVars, currentJobActive, currentJobSeq, cancelFn>>
               /\ UNCHANGED <<phase, ask, once, reader, readErrorOwner>>
    BY <2>6 DEF Escalate, TimeoutWatch, Interrupt, EscalatedStop, GraceEnds
  <2>7. CASE UNCHANGED vars BY <2>7 DEF vars
  <2> QED BY <2>1, <2>2, <2>3, <2>4, <2>5, <2>6, <2>7
<1>2. Queue' BY <1>1, QueueFrame DEF IInv, queueVars
<1> QED BY <1>1, <1>2, InvFrame DEF IInv, queueVars

(* A new worker satisfies it: the token is there and no job is known.      *)
LEMMA InitInv == Init => IInv
<1> SUFFICES ASSUME Init PROVE IInv OBVIOUS
<1>1. /\ loop = [pc |-> "select", job |-> NoJob] /\ reader = [pc |-> "reading", job |-> NoJob]
      /\ \A j \in Jobs : phase[j] = "new" /\ ask[j] = "none" /\ once[j] = "no"
      /\ queue = <<>> /\ queuedJobs = 0 /\ readErrorOwner = NoJob /\ cancelFn = NoJob
  BY DEF Init
<1>2. Token BY <1>1 DEF Token, Occupies, Signaling, LoopIn
<1>3. Queue BY <1>1 DEF Queue, CallerHolds, LoopHolds
<1>4. Loop BY <1>1 DEF Loop, LoopIn, Held
<1>5. Flags BY <1>1 DEF Flags
<1>6. CancelTarget BY <1>1 DEF CancelTarget
<1>7. ReaderQuiet BY <1>1 DEF ReaderQuiet
<1>8. Sharing BY <1>1 DEF Sharing, Unshared, LoopIn, Private
<1>9. Finishing BY <1>1 DEF Finishing, Finish, Signaling, LoopIn, Private, Body
<1> QED BY <1>2, <1>3, <1>4, <1>5, <1>6, <1>7, <1>8, <1>9 DEF IInv

(* Every step keeps the invariant. *)
LEMMA NextInv == TypeOK /\ SafeMix /\ IInv /\ [Next]_vars => IInv'
<1> SUFFICES ASSUME TypeOK, SafeMix, IInv, [Next]_vars PROVE IInv' OBVIOUS
<1>1. ASSUME NEW j \in Jobs, Execute(j) PROVE IInv'
  BY <1>1, AdvanceInv, BeginInv, BodyInv, FinishInv, SignalInv DEF Execute
<1>2. ASSUME NEW j \in Jobs, Enqueue(j) \/ Answer(j) \/ FallbackAnswered(j) \/ OnComplete(j)
      PROVE  IInv'
  BY <1>2, EnqueueInv, AnswerInv, AdvanceInv, FinishInv, SignalInv DEF OnComplete
<1>3. ASSUME ReadLoopEnds \/ ReadError PROVE IInv'
  BY <1>3, ReaderInv, FinishInv, SignalInv DEF ReadError
<1>4. ASSUME LoopExit \/ Dequeue PROVE IInv'
  BY <1>4, SelectInv
<1>5. CASE UNCHANGED vars BY <1>5, QuietInv
<1>6. CASE Next
  BY <1>1, <1>2, <1>3, <1>4, <1>6, QuietInv DEF Next, Run
<1> QED BY <1>5, <1>6

(* The types and IInv together are an inductive invariant. *)
LEMMA Invariance == SafeMix => (Spec => [](TypeOK /\ IInv))
<1> SUFFICES ASSUME SafeMix PROVE Spec => [](TypeOK /\ IInv) OBVIOUS
<1>1. Init => IInv BY InitInv
<1>2. TypeOK /\ IInv /\ [Next]_vars => IInv' BY NextInv
<1> QED BY TypeCorrect, <1>1, <1>2, PTL DEF Spec

(* An agent runs one job at a time: however OnComplete, the read-error     *)
(* callback and the run loop interleave, the idle token that execute takes *)
(* and signalIdle returns (worker.go) is never there while a job runs.     *)
THEOREM RunsAlone == SafeMix => (Spec => []OneRunning)
<1> SUFFICES ASSUME SafeMix PROVE Spec => []OneRunning OBVIOUS
<1>1. IInv => OneRunning BY DEF IInv, Token, Occupies, OneRunning
<1> QED BY Invariance, <1>1, PTL

(* The count, the popped job and the active job are what HasWork asks for. *)
LEMMA WorkIsSeen == TypeOK /\ IInv => WorkVisible
<1> SUFFICES ASSUME TypeOK, IInv, NEW j \in Jobs,
                    phase[j] \in {"counted", "queued", "held", "running"}
             PROVE  HasWork
  BY DEF WorkVisible
<1>1. Len(queue) \in Nat /\ queuedJobs = Len(queue) + CallerHolds + LoopHolds
      /\ CallerHolds \in {0, 1} /\ LoopHolds \in {0, 1}
  BY DEF TypeOK, QueueType, IInv, Queue, CallerHolds, LoopHolds
<1>2. CASE phase[j] = "counted"
  <2>1. CallerHolds = 1 BY <1>2 DEF CallerHolds
  <2> QED BY <1>1, <2>1 DEF HasWork
<1>3. CASE phase[j] = "queued"
  <2>1. PICK i \in 1..Len(queue) : queue[i] = j BY <1>3 DEF IInv, Queue
  <2>2. Len(queue) > 0 BY <1>1, <2>1
  <2> QED BY <1>1, <2>2 DEF HasWork
<1>4. CASE phase[j] = "held"
  <2>1. LoopIn(Held, j) BY <1>4 DEF IInv, Loop
  <2>2. CASE loop.pc = "popped"
    <3>1. LoopHolds = 1 BY <2>2 DEF LoopHolds
    <3> QED BY <1>1, <3>1 DEF HasWork
  <2>3. CASE loop.pc # "popped" BY <2>1, <2>3 DEF IInv, Loop, LoopIn, Held, HasWork
  <2> QED BY <2>2, <2>3
<1>5. CASE phase[j] = "running" BY <1>5 DEF IInv, Flags, HasWork
<1> QED BY <1>2, <1>3, <1>4, <1>5

(* HasWork, which the manager asks before it reclaims or archives, is TRUE *)
(* for every job from the moment Enqueue counts it until it is finished.   *)
THEOREM WorkSeen == SafeMix => (Spec => []WorkVisible)
<1> SUFFICES ASSUME SafeMix PROVE Spec => []WorkVisible OBVIOUS
<1> QED BY Invariance, WorkIsSeen, PTL

(* The function that CancelCurrent, InterruptCurrent and the escalations   *)
(* test and call belongs to the job that runs, never to a finished one.    *)
THEOREM CancelAimed == SafeMix => (Spec => []CancelTarget)
<1> SUFFICES ASSUME SafeMix PROVE Spec => []CancelTarget OBVIOUS
<1>1. IInv => CancelTarget BY DEF IInv
<1> QED BY Invariance, <1>1, PTL

-----------------------------------------------------------------------------
(* Archiving. *)

(* A closed thread has nothing accepted and unfinished, and only a stopped  *)
(* worker drops a job.                                                      *)
Archived ==
  /\ archive = "closed" => stopped /\ \A j \in Jobs : phase[j] \in {"new", "refused", "done"}
  /\ \A j \in Jobs : phase[j] = "dropped" => stopped

(* How a job's phase moves, in a step that stops and archives nothing.      *)
PhaseMoves(j) ==
  \/ phase'[j] \in {phase[j], "done"}
  \/ phase[j] = "new" /\ phase'[j] = "counted" /\ ~stopped
  \/ phase[j] = "counted" /\ phase'[j] \in {"queued", "refused"}
  \/ phase[j] = "queued" /\ phase'[j] = "held"
  \/ phase[j] = "held" /\ (phase'[j] = "running" \/ stopped)
NothingStops == UNCHANGED <<stopped, archive>> /\ \A j \in Jobs : PhaseMoves(j)

(* signalIdle changes no phase; it closes a deferred thread without work.   *)
Closes == ~HasWork /\ ~stopped /\ stopped' = TRUE /\ archive' = "closed" /\ phase' = phase

(* So signalIdle stops nothing or closes the thread.                        *)
LEMMA SignalMoves ==
  ASSUME NEW j \in Jobs, SignalIdle(j), phase' = phase
  PROVE  NothingStops \/ Closes
BY DEF SignalIdle, CloseNow, NothingStops, PhaseMoves, Closes

(* So do the loop, the callbacks and the callers move the phases.           *)
LEMMA WorkMoves ==
  ASSUME TypeOK, IInv, Run \/ ReadLoopEnds \/ ReadError
                       \/ \E j \in Jobs : Enqueue(j) \/ Answer(j) \/ FallbackAnswered(j) \/ OnComplete(j)
  PROVE  NothingStops \/ Closes
<1>1. phase \in [Jobs -> JobPhase] BY DEF TypeOK, JobType
<1>2. ASSUME NEW j \in Jobs, ClaimFinish(j) PROVE \A k \in Jobs : PhaseMoves(k)
  BY <1>1, <1>2 DEF ClaimFinish, ClearCurrent, PhaseMoves
<1>3. phase' = phase => \A k \in Jobs : PhaseMoves(k)
  BY DEF PhaseMoves
<1>4. ASSUME NEW j \in Jobs, LoopSignal(j) \/ OnCompleteSignal(j) \/ ReadErrorSignal(j)
      PROVE  NothingStops \/ Closes
  BY <1>4, SignalMoves DEF LoopSignal, OnCompleteSignal, ReadErrorSignal
<1>5. ASSUME NEW j \in Jobs, LoopFinish(j) \/ OnCompleteFinish(j) \/ ReadErrorFinish(j)
      PROVE  NothingStops
  BY <1>2, <1>3, <1>5 DEF LoopFinish, OnCompleteFinish, ReadErrorFinish, NothingStops, lifeVars
<1>6. ASSUME NEW j \in Jobs, Enqueue(j) \/ Reject(j) PROVE NothingStops
  BY <1>1, <1>6 DEF Enqueue, EnqueueCount, EnqueueSend, Reject, NothingStops, PhaseMoves, lifeVars
<1>7. ASSUME NEW j \in Jobs, DropHeld(j) \/ StartJob(j) PROVE NothingStops
  <2>1. phase[j] = "held"
    BY <1>7 DEF DropHeld, StartJob, LoopAt, LoopIn, Held, IInv, Loop
  <2> QED
    BY <1>1, <1>7, <2>1 DEF DropHeld, StartJob, NothingStops, PhaseMoves, lifeVars
<1>8. ASSUME Dequeue PROVE NothingStops
  <2>1. PICK j \in Jobs : j = Head(queue) /\ phase[j] = "queued"
    <3>1. queue \in Seq(Jobs) /\ queue # <<>> BY <1>8 DEF TypeOK, QueueType, Dequeue
    <3>2. Head(queue) \in Jobs /\ Head(queue) = queue[1] /\ 1 \in 1..Len(queue) BY <3>1
    <3> QED BY <3>2 DEF IInv, Queue
  <2> QED
    BY <1>1, <1>8, <2>1 DEF Dequeue, NothingStops, PhaseMoves, lifeVars
<1>9. ASSUME NEW j \in Jobs,
             \/ MarkDequeued(j) \/ TakeToken(j) \/ PassStopCheck(j) \/ ThreadFail(j) \/ Arm(j) \/ RegisterReadError(j)
             \/ CompactOk(j) \/ CompactFail(j) \/ CheckCtx(j) \/ AskAsyncMulti(j)
      PROVE  NothingStops
  BY <1>3, <1>9
     DEF MarkDequeued, TakeToken, PassStopCheck, ThreadFail, Arm, RegisterReadError, CompactOk, CompactFail, CheckCtx,
         AskAsyncMulti, NothingStops, jobVars, lifeVars
<1>10. ASSUME NEW j \in Jobs,
              \/ FallbackSendFail(j) \/ FallbackGivesUp(j) \/ FallbackAnswered(j) \/ ExecuteReturn(j)
              \/ Answer(j) \/ OnCompleteBegin(j) \/ OnCompleteReply(j)
       PROVE  NothingStops
  BY <1>3, <1>10
     DEF FallbackSendFail, FallbackGivesUp, FallbackAnswered, FallbackReturn, ExecuteReturn, Answer, OnCompleteBegin,
         OnCompleteReply, NothingStops, jobVars, lifeVars
<1>11. ASSUME LoopExit \/ ReadLoopEnds \/ ReadErrorPick \/ \E j \in Jobs : ReadErrorHandle(j) PROVE NothingStops
  BY <1>3, <1>11 DEF LoopExit, ReadLoopEnds, ReadErrorPick, ReadErrorHandle, NothingStops, jobVars, lifeVars
<1>12. CASE \E j \in Jobs : Execute(j)
  BY <1>4, <1>5, <1>6, <1>7, <1>9, <1>10, <1>12 DEF Execute
<1>13. CASE Run
  BY <1>8, <1>11, <1>12, <1>13 DEF Run
<1>14. CASE ReadLoopEnds \/ ReadError
  BY <1>4, <1>5, <1>11, <1>14 DEF ReadError
<1>15. CASE \E j \in Jobs : Enqueue(j) \/ Answer(j) \/ FallbackAnswered(j) \/ OnComplete(j)
  BY <1>4, <1>5, <1>6, <1>10, <1>15 DEF OnComplete
<1> QED
  BY <1>13, <1>14, <1>15

(* The user, the escalations, the agent and the manager.                    *)
LEMMA QuietMoves ==
  ASSUME \/ AgentDies \/ Stop \/ MarkThreadArchived
         \/ \E op \in {"cancel", "interrupt"} : UserRead(op)
         \/ \E j \in Jobs : UserAct(j) \/ Deadline(j) \/ Escalate(j)
         \/ UNCHANGED vars
  PROVE  /\ phase' = phase
         /\ \/ UNCHANGED <<stopped, archive>>
            \/ stopped' = TRUE /\ archive' = archive
            \/ stopped' = stopped /\ archive = "open" /\ archive' = "deferred"
            \/ Closes
<1>1. CASE AgentDies BY <1>1 DEF AgentDies, jobVars, lifeVars
<1>2. CASE Stop BY <1>2 DEF Stop, jobVars
<1>3. CASE MarkThreadArchived BY <1>3 DEF MarkThreadArchived, Closes, jobVars
<1>4. CASE \E op \in {"cancel", "interrupt"} : UserRead(op) BY <1>4 DEF UserRead, jobVars, lifeVars
<1>5. CASE \E j \in Jobs : UserAct(j) \/ Deadline(j)
  BY <1>5 DEF UserAct, Deadline, lifeVars
<1>6. CASE \E j \in Jobs : Escalate(j)
  BY <1>6 DEF Escalate, TimeoutWatch, Interrupt, EscalatedStop, GraceEnds, jobVars, lifeVars
<1>7. CASE UNCHANGED vars BY <1>7 DEF vars, jobVars, lifeVars
<1> QED BY <1>1, <1>2, <1>3, <1>4, <1>5, <1>6, <1>7

(* Every step keeps what archiving rests on.                                *)
LEMMA ArchivedKept == TypeOK /\ IInv /\ Archived /\ [Next]_vars => Archived'
<1> SUFFICES ASSUME TypeOK, IInv, Archived, [Next]_vars PROVE Archived' OBVIOUS
<1>1. CASE NothingStops
  BY <1>1 DEF NothingStops, PhaseMoves, Archived
<1>2. CASE Closes
  <2>1. \A j \in Jobs : phase[j] \in {"new", "refused", "done"}
    BY <1>2, WorkIsSeen DEF WorkVisible, Closes, Archived, TypeOK, JobType, JobPhase
  <2> QED BY <1>2, <2>1 DEF Closes, Archived
<1>3. CASE /\ phase' = phase
           /\ \/ UNCHANGED <<stopped, archive>>
              \/ stopped' = TRUE /\ archive' = archive
              \/ stopped' = stopped /\ archive = "open" /\ archive' = "deferred"
  BY <1>3 DEF Archived
<1> QED
  BY <1>1, <1>2, <1>3, WorkMoves, QuietMoves DEF Next

(* Without archiving the thread stays open.                                 *)
LEMMA StaysOpen == "archive" \notin Faults /\ archive = "open" /\ [Next]_vars => archive' = "open"
<1> SUFFICES ASSUME "archive" \notin Faults, archive = "open", [Next]_vars PROVE archive' = "open" OBVIOUS
<1>1. \A j \in Jobs : SignalIdle(j) => archive' = archive BY DEF SignalIdle, CloseNow
<1>2. CASE UNCHANGED vars BY <1>2 DEF vars, lifeVars
<1>3. CASE \E j \in Jobs : Execute(j)
  BY <1>1, <1>3
     DEF Execute, MarkDequeued, DropHeld, TakeToken, PassStopCheck, Reject, StartJob, ThreadFail, Arm, RegisterReadError,
         CompactOk, CompactFail, CheckCtx, AskAsyncMulti, FallbackSendFail, FallbackGivesUp, FallbackReturn, LoopFinish,
         LoopSignal, ExecuteReturn, lifeVars
<1>4. CASE LoopExit \/ Dequeue \/ ReadLoopEnds \/ ReadError \/ AgentDies \/ Stop \/ MarkThreadArchived
  BY <1>1, <1>4
     DEF LoopExit, Dequeue, ReadLoopEnds, ReadError, ReadErrorPick, ReadErrorHandle, ReadErrorFinish, ReadErrorSignal,
         AgentDies, Stop, MarkThreadArchived, lifeVars
<1>5. CASE \E op \in {"cancel", "interrupt"} : UserRead(op) BY <1>5 DEF UserRead, lifeVars
<1>6. CASE \E j \in Jobs : Enqueue(j) \/ Answer(j) \/ FallbackAnswered(j) \/ OnComplete(j)
  BY <1>1, <1>6
     DEF Enqueue, EnqueueCount, EnqueueSend, Answer, FallbackAnswered, FallbackReturn, OnComplete, OnCompleteBegin,
         OnCompleteReply, OnCompleteFinish, OnCompleteSignal, lifeVars
<1>7. CASE \E j \in Jobs : UserAct(j) \/ Deadline(j) \/ Escalate(j)
  BY <1>7 DEF UserAct, Deadline, Escalate, TimeoutWatch, Interrupt, EscalatedStop, GraceEnds, lifeVars
<1> QED BY <1>2, <1>3, <1>4, <1>5, <1>6, <1>7 DEF Next, Run

(* Archiving a thread (MarkThreadArchived, and signalIdle's deferred close) *)
(* never drops a job that was accepted. It needs no hypothesis on the mix: a*)
(* worker that is archived has no inline jobs.                              *)
THEOREM ArchiveSpares == Spec => []ArchiveDropsNothing
<1>1. CASE "archive" \notin Faults
  <2>1. Init => archive = "open" BY DEF Init
  <2>2. archive = "open" => ArchiveDropsNothing BY DEF ArchiveDropsNothing
  <2>3. archive = "open" /\ [Next]_vars => (archive = "open")' BY <1>1, StaysOpen
  <2> QED BY <2>1, <2>2, <2>3, PTL DEF Spec
<1>2. CASE "archive" \in Faults
  <2>1. SafeMix BY <1>2, ArchiveAssumption DEF SafeMix
  <2>2. Init => Archived BY DEF Init, Archived
  <2>3. Archived => ArchiveDropsNothing BY DEF Archived, ArchiveDropsNothing
  <2>4. Spec => [](TypeOK /\ IInv) BY <2>1, Invariance
  <2> QED BY <2>2, <2>3, <2>4, ArchivedKept, PTL DEF Spec
<1> QED BY <1>1, <1>2

-----------------------------------------------------------------------------
(* Answers. This invariant holds in every mix, so it stands beside IInv:    *)
(* it asks who may still answer a job, not who holds the idle token.        *)

Early == {"new", "counted", "queued", "held", "refused", "dropped"}

(* What the channel holds has not been popped.                              *)
Waits ==
  /\ \A i \in 1..Len(queue) : phase[queue[i]] = "queued"
  /\ \A i, k \in 1..Len(queue) : queue[i] = queue[k] => i = k

(* What the loop's place and the prompt's say about each other and about j. *)
Passes(j) ==
  /\ LoopIn(Held, j) => phase[j] = "held"
  /\ LoopIn(Body \cup {"signal", "return"}, j) => phase[j] \in {"running", "done"}
  /\ ask[j] # "none" => ~LoopIn(LoopPc \ {"return"}, j)
  /\ LoopIn({"fallback", "fallbackAsk"}, j) => j \notin Inline \cup Remote
  /\ j \in Inline /\ ask[j] = "replying" => once[j] # "no"

(* Somebody may still answer j: for an inline job whoever claims its finish *)
(* first, for a thread job the loop until its finish, then OnComplete.      *)
Unanswered(j) ==
  IF j \in Inline
  THEN \/ ask[j] = "replying"
       \/ /\ once[j] = "no"
          /\ \/ phase[j] \in Early \/ LoopIn(Held \cup Body, j) \/ ask[j] # "none"
             \/ readErrorOwner = j \/ reader.job = j
  ELSE \/ phase[j] \in Early \/ LoopIn((Held \cup Body) \ {"finish"}, j)
       \/ ask[j] \in {"sent", "answered", "replying"}

Answers(j) ==
  /\ replies[j] <= 1 /\ results[j] <= 1
  /\ Unanswered(j) => replies[j] = 0 /\ results[j] = 0

AnswerAt(j) == Unshared(j) /\ Passes(j) /\ Answers(j)
AnswerInvariant == Waits /\ \A j \in Jobs : AnswerAt(j)

(* A step leaves k apart: nothing of k moves, except that the loop may let  *)
(* go of it, the reader pick its callback up, and its signal end.           *)
Apart(k) ==
  /\ \/ phase'[k] = phase[k]
     \/ phase[k] \in Early /\ phase'[k] \in Early
        /\ (phase[k] \in {"new", "counted"} \/ loop'.job # k)
  /\ ask'[k] = ask[k] /\ replies'[k] = replies[k] /\ results'[k] = results[k]
  /\ (once'[k] = "no") = (once[k] = "no")
  /\ loop'.job = k => loop.job = k /\ loop'.pc = loop.pc
  /\ readErrorOwner' = k => readErrorOwner = k
  /\ reader'.job = k => reader.job = k \/ readErrorOwner = k

(* The loop moves on with j, and nothing else of j moves.                   *)
Ahead(j) ==
  /\ loop.job = j /\ loop'.job = j /\ loop.pc # "return"
  /\ \A P \in {Held, Private, Body, Body \ {"finish"}, {"fallback", "fallbackAsk"}, Body \cup {"signal", "return"}} :
       loop'.pc \in P => loop.pc \in P
  /\ phase'[j] = phase[j] /\ ask'[j] = ask[j] /\ replies'[j] = replies[j] /\ results'[j] = results[j]
  /\ (once'[j] = "no") = (once[j] = "no")
  /\ readErrorOwner' = readErrorOwner /\ reader' = reader

(* A job that a step leaves apart keeps its part of the invariant.          *)
LEMMA ApartKept ==
  ASSUME NEW k \in Jobs, AnswerAt(k), Apart(k)
  PROVE  AnswerAt(k)'
<1>1. Unshared(k)' BY DEF AnswerAt, Unshared, Apart, LoopIn, Early, Passes, Private, Held
<1>2. Passes(k)' BY DEF AnswerAt, Passes, Apart, LoopIn, Early, Held, Body
<1>3. Unanswered(k)' => Unanswered(k) BY DEF Unanswered, Apart, LoopIn
<1>4. Answers(k)' BY <1>3 DEF AnswerAt, Answers, Apart
<1> QED BY <1>1, <1>2, <1>4 DEF AnswerAt

(* So does the job that the loop moves on with.                             *)
LEMMA AheadKept ==
  ASSUME NEW j \in Jobs, TypeOK, AnswerAt(j), Ahead(j)
  PROVE  AnswerAt(j)'
<1>1. Unshared(j)' BY DEF AnswerAt, Unshared, Ahead, LoopIn
<1>2. Passes(j)'
  <2>1. loop.pc \in LoopPc BY DEF TypeOK, QueueType
  <2> QED BY <2>1 DEF AnswerAt, Passes, Ahead, LoopIn
<1>3. Unanswered(j)' => Unanswered(j)
  <2>1. loop'.pc \in Held \cup Body => loop.pc \in Held \cup Body BY DEF Ahead
  <2>2. loop'.pc \in (Held \cup Body) \ {"finish"} => loop.pc \in (Held \cup Body) \ {"finish"}
    BY DEF Ahead, Held
  <2> QED BY <2>1, <2>2 DEF Unanswered, Ahead, LoopIn
<1>4. Answers(j)' BY <1>3 DEF AnswerAt, Answers, Ahead
<1> QED BY <1>1, <1>2, <1>4 DEF AnswerAt

(* Whoever answers a job that is unanswered gives it its only answer.       *)
LEMMA OneAnswer ==
  ASSUME TypeOK, NEW j \in Jobs, Answers(j), Unanswered(j),
         Reply(j) \/ UNCHANGED replies, EmitA2AResult(j) \/ UNCHANGED results
  PROVE  replies'[j] <= 1 /\ results'[j] <= 1
<1>1. replies[j] = 0 /\ results[j] = 0 BY DEF Answers
<1> QED BY <1>1 DEF TypeOK, JobType, Reply, EmitA2AResult

(* An answer to j is no answer to another job.                              *)
LEMMA OthersUnanswered ==
  ASSUME TypeOK, NEW j \in Jobs, NEW k \in Jobs, k # j,
         Reply(j) \/ UNCHANGED replies, EmitA2AResult(j) \/ UNCHANGED results
  PROVE  replies'[k] = replies[k] /\ results'[k] = results[k]
BY DEF TypeOK, JobType, Reply, EmitA2AResult

(* finishJob and signalIdle of j touch no other job.                        *)
LEMMA OthersUnfinished ==
  ASSUME TypeOK, NEW j \in Jobs, NEW k \in Jobs, k # j
  PROVE  /\ ClaimFinish(j) => phase'[k] = phase[k] /\ once'[k] = once[k]
         /\ SignalIdle(j) => (once'[k] = "no") = (once[k] = "no")
BY DEF TypeOK, JobType, ClaimFinish, ClearCurrent, SignalIdle

(* signalIdle of j leaves finishOnce of j used or unused.                   *)
LEMMA SignalOnce ==
  ASSUME TypeOK, NEW j \in Jobs, SignalIdle(j)
  PROVE  (once'[j] = "no") = (once[j] = "no")
BY DEF TypeOK, JobType, SignalIdle

(* The channel's part rests on the channel and on who is queued.            *)
LEMMA WaitsKept ==
  ASSUME TypeOK, Waits, queue' = queue, \A k \in Jobs : phase[k] = "queued" => phase'[k] = "queued"
  PROVE  Waits'
<1>1. \A i \in 1..Len(queue) : queue[i] \in Jobs BY DEF TypeOK, QueueType
<1> QED BY <1>1 DEF Waits

(* Callers count, send or are refused.                                      *)
LEMMA CallersAnswer ==
  ASSUME TypeOK, AnswerInvariant, NEW j \in Jobs, Enqueue(j)
  PROVE  AnswerInvariant'
<1>1. /\ phase[j] \in {"new", "counted"} /\ phase'[j] \in Early
      /\ \A k \in Jobs \ {j} : phase'[k] = phase[k]
  BY DEF TypeOK, JobType, Enqueue, EnqueueCount, EnqueueSend, Early
<1>2. UNCHANGED <<ask, once, replies, results, loop, readErrorOwner, reader>>
  BY DEF Enqueue, EnqueueCount, EnqueueSend, agentVars
<1>3. \A k \in Jobs : AnswerAt(k)'
  <2> SUFFICES ASSUME NEW k \in Jobs PROVE AnswerAt(k)' OBVIOUS
  <2>1. Apart(k) BY <1>1, <1>2 DEF Apart, Early
  <2> QED BY <2>1, ApartKept DEF AnswerInvariant
<1>4. Waits'
  <2>1. CASE queue' = queue
    <3>1. \A k \in Jobs : phase[k] = "queued" => phase'[k] = "queued" BY <1>1
    <3> QED BY <2>1, <3>1, WaitsKept DEF AnswerInvariant
  <2>2. CASE queue' # queue
    <3>1. queue' = Append(queue, j) /\ phase'[j] = "queued" /\ queue \in Seq(Jobs)
      BY <2>2 DEF Enqueue, EnqueueCount, EnqueueSend, TypeOK, JobType, QueueType
    <3>2. \A i \in 1..Len(queue) : queue[i] \in Jobs /\ phase[queue[i]] = "queued" /\ queue[i] # j
      BY <1>1, <3>1 DEF AnswerInvariant, Waits
    <3>3. /\ Len(queue) \in Nat /\ Len(queue') = Len(queue) + 1 /\ queue'[Len(queue')] = j
          /\ \A i \in 1..Len(queue) : queue'[i] = queue[i]
      BY <3>1
    <3>4. \A i \in 1..Len(queue') : i \in 1..Len(queue) \/ i = Len(queue') BY <3>3
    <3>5. \A i \in 1..Len(queue') : phase'[queue'[i]] = "queued" BY <1>1, <3>1, <3>2, <3>3, <3>4
    <3>6. \A i, k \in 1..Len(queue') : queue'[i] = queue'[k] => i = k
      BY <3>2, <3>3, <3>4 DEF AnswerInvariant, Waits
    <3> QED BY <3>5, <3>6 DEF Waits
  <2> QED BY <2>1, <2>2
<1> QED BY <1>3, <1>4 DEF AnswerInvariant

(* The loop exits, or pops a job, which nobody has answered.                *)
LEMMA SelectAnswer ==
  ASSUME TypeOK, AnswerInvariant, LoopExit \/ Dequeue
  PROVE  AnswerInvariant'
<1>1. CASE LoopExit
  <2>1. /\ UNCHANGED <<phase, ask, once, replies, results, readErrorOwner, reader, queue>>
        /\ loop'.job = NoJob
    BY <1>1 DEF LoopExit, Goto, jobVars, agentVars
  <2>2. \A k \in Jobs : Apart(k) BY <2>1 DEF Apart
  <2>3. Waits' BY <2>1, WaitsKept DEF AnswerInvariant
  <2> QED BY <2>2, <2>3, ApartKept DEF AnswerInvariant
<1>2. CASE Dequeue
  <2>1. queue \in Seq(Jobs) /\ queue # <<>> BY <1>2 DEF Dequeue, TypeOK, QueueType
  <2>2. PICK j \in Jobs : j = Head(queue) /\ j = queue[1] BY <2>1
  <2>3. /\ Len(queue) \in Nat \ {0} /\ queue' = Tail(queue) /\ Len(queue') = Len(queue) - 1
        /\ \A i \in 1..Len(queue') : queue'[i] = queue[i+1] /\ i + 1 \in 1..Len(queue) /\ i + 1 # 1
    BY <1>2, <2>1 DEF Dequeue
  <2>4. phase[j] = "queued" /\ \A i \in 1..Len(queue) : queue[i] \in Jobs /\ (queue[i] = j => i = 1)
    BY <2>1, <2>2, <2>3 DEF AnswerInvariant, Waits
  <2>5. /\ phase'[j] = "held" /\ \A k \in Jobs \ {j} : phase'[k] = phase[k]
        /\ loop'.job = j /\ loop'.pc = "popped" /\ loop.job = NoJob
        /\ UNCHANGED <<ask, once, replies, results, readErrorOwner, reader>>
    BY <1>2, <2>2 DEF Dequeue, Goto, LoopAt, TypeOK, JobType, agentVars
  <2>6. Waits'
    <3>1. \A i \in 1..Len(queue') : phase'[queue'[i]] = "queued"
      BY <2>3, <2>4, <2>5 DEF AnswerInvariant, Waits
    <3>2. \A i, k \in 1..Len(queue') : queue'[i] = queue'[k] => i = k
      <4> TAKE i, k \in 1..Len(queue')
      <4> HAVE queue'[i] = queue'[k]
      <4>1. i + 1 = k + 1 BY <2>3 DEF AnswerInvariant, Waits
      <4> QED BY <4>1
    <3> QED BY <3>1, <3>2 DEF Waits
  <2>7. AnswerAt(j)'
    <3>1. Unshared(j) /\ Passes(j) /\ Answers(j) BY DEF AnswerInvariant, AnswerAt
    <3>2. Unshared(j)' BY <2>4, <2>5, <3>1 DEF Unshared
    <3>3. Unanswered(j) BY <2>4, <3>1 DEF Unanswered, Unshared, Early
    <3>4. Passes(j)' BY <2>4, <2>5, <3>1 DEF Passes, Unshared, LoopIn, Held, Body
    <3> QED BY <2>5, <3>1, <3>2, <3>3, <3>4 DEF AnswerAt, Answers
  <2>8. ASSUME NEW k \in Jobs, k # j PROVE Apart(k) BY <2>5, <2>8 DEF Apart
  <2> QED BY <2>6, <2>7, <2>8, ApartKept DEF AnswerInvariant
<1> QED BY <1>1, <1>2

(* The loop's steps that end nothing and answer nothing.                    *)
LEMMA AheadAnswer ==
  ASSUME TypeOK, AnswerInvariant, NEW j \in Jobs,
         \/ MarkDequeued(j) \/ TakeToken(j) \/ PassStopCheck(j) \/ Arm(j) \/ CompactOk(j) \/ CheckCtx(j)
         \/ FallbackSendFail(j) \/ LoopSignal(j)
  PROVE  AnswerInvariant'
<1>1. /\ UNCHANGED <<phase, ask, replies, results, readErrorOwner, reader, queue>>
      /\ loop.job = j /\ loop'.job = j
  BY DEF MarkDequeued, TakeToken, PassStopCheck, Arm, CompactOk, CheckCtx, FallbackSendFail, LoopSignal, LoopAt, Goto,
         jobVars, agentVars
<1>2. \A k \in Jobs : (once'[k] = "no") = (once[k] = "no")
  BY OthersUnfinished, SignalOnce
     DEF MarkDequeued, TakeToken, PassStopCheck, Arm, CompactOk, CheckCtx, FallbackSendFail, LoopSignal, jobVars
<1>3. \/ loop.pc \in Held /\ loop'.pc \in Held
      \/ loop.pc \in {"setup", "fallback"} /\ loop'.pc \in {"register", "fallbackAsk"}
         /\ (loop'.pc = "fallbackAsk" => loop.pc = "fallback")
      \/ loop.pc \in {"compact", "check"} /\ loop'.pc \in {"check", "prompt", "finish"}
      \/ loop.pc = "fallback" /\ loop'.pc = "finish"
      \/ loop.pc = "signal" /\ loop'.pc = "return"
  BY DEF MarkDequeued, TakeToken, PassStopCheck, Arm, CompactOk, CheckCtx, FallbackSendFail, LoopSignal, LoopAt, Goto,
         Held
<1>4. Ahead(j) BY <1>1, <1>2, <1>3 DEF Ahead, Held, Private, Body
<1>5. \A k \in Jobs \ {j} : Apart(k) BY <1>1, <1>2 DEF Apart
<1>6. Waits' BY <1>1, WaitsKept DEF AnswerInvariant
<1> QED BY <1>4, <1>5, <1>6, AheadKept, ApartKept DEF AnswerInvariant

(* The loop drops the job it holds, or execute returns: it lets go.         *)
LEMMA LetGoAnswer ==
  ASSUME TypeOK, AnswerInvariant, NEW j \in Jobs, DropHeld(j) \/ ExecuteReturn(j)
  PROVE  AnswerInvariant'
<1>1. /\ UNCHANGED <<ask, once, replies, results, readErrorOwner, reader, queue>>
      /\ loop'.job = NoJob
  BY DEF DropHeld, ExecuteReturn, Goto, jobVars, agentVars
<1>2. \/ phase' = phase
      \/ /\ phase[j] = "held" /\ phase'[j] = "dropped"
         /\ \A k \in Jobs \ {j} : phase'[k] = phase[k]
  BY DEF DropHeld, ExecuteReturn, jobVars, TypeOK, JobType, AnswerInvariant, AnswerAt, Passes, LoopIn, Held
<1>3. \A k \in Jobs : Apart(k) BY <1>1, <1>2 DEF Apart, Early
<1>4. \A k \in Jobs : phase[k] = "queued" => phase'[k] = "queued" BY <1>2
<1>5. Waits' BY <1>1, <1>4, WaitsKept DEF AnswerInvariant
<1> QED BY <1>3, <1>5, ApartKept DEF AnswerInvariant

(* The loop begins with a job it holds: rejected with an answer, or started.*)
LEMMA BeginAnswer ==
  ASSUME TypeOK, AnswerInvariant, NEW j \in Jobs, Reject(j) \/ StartJob(j)
  PROVE  AnswerInvariant'
<1>1. /\ UNCHANGED <<ask, once, readErrorOwner, reader, queue>>
      /\ loop = [pc |-> "begin", job |-> j] /\ loop'.job = j
      /\ \A k \in Jobs \ {j} : phase'[k] = phase[k]
  BY DEF Reject, StartJob, LoopAt, Goto, agentVars, TypeOK, JobType
<1>2. AnswerAt(j) BY DEF AnswerInvariant
<1>3. /\ phase[j] = "held" /\ once[j] = "no" /\ ask[j] = "none" /\ readErrorOwner # j /\ reader.job # j
      /\ Unanswered(j)
  BY <1>1, <1>2 DEF AnswerAt, Passes, Unshared, LoopIn, Held, Unanswered, Early
<1>4. Reply(j) \/ UNCHANGED replies BY DEF Reject, StartJob
<1>5. EmitA2AResult(j) \/ UNCHANGED results BY DEF Reject, StartJob
<1>6. \A k \in Jobs \ {j} : Apart(k)
  BY <1>1, <1>4, <1>5, OthersUnanswered DEF Apart
<1>7. AnswerAt(j)'
  <2>1. CASE Reject(j)
    <3>1. phase'[j] = "done" /\ loop'.pc = "signal" BY <2>1 DEF Reject, Goto, TypeOK, JobType
    <3>2. replies'[j] <= 1 /\ results'[j] <= 1
      BY <1>2, <1>3, <1>4, <1>5, OneAnswer DEF AnswerAt
    <3>3. ~Unanswered(j)'
      BY <1>1, <1>3, <3>1 DEF Unanswered, Early, LoopIn, Held, Body
    <3>4. Unshared(j)' BY <1>1, <1>3 DEF Unshared
    <3>5. Passes(j)' BY <1>1, <1>3, <3>1 DEF Passes, LoopIn, Held
    <3> QED BY <3>2, <3>3, <3>4, <3>5 DEF AnswerAt, Answers
  <2>2. CASE StartJob(j)
    <3>1. phase'[j] = "running" /\ loop'.pc = "setup" /\ UNCHANGED <<replies, results>>
      BY <2>2 DEF StartJob, Goto, TypeOK, JobType
    <3>2. Unshared(j)' BY <1>1, <1>3 DEF Unshared
    <3>3. Passes(j)' BY <1>1, <1>3, <3>1 DEF Passes, LoopIn, Held
    <3>4. Answers(j)' BY <1>2, <1>3, <3>1 DEF AnswerAt, Answers
    <3> QED BY <3>2, <3>3, <3>4 DEF AnswerAt
  <2> QED BY <2>1, <2>2
<1>8. Waits'
  <2>1. \A k \in Jobs : phase[k] = "queued" => phase'[k] = "queued" BY <1>1, <1>3
  <2> QED BY <1>1, <2>1, WaitsKept DEF AnswerInvariant
<1> QED BY <1>6, <1>7, <1>8, ApartKept DEF AnswerInvariant

(* The loop registers the read-error callback, or hands the job to the      *)
(* prompt: from here others may answer it.                                  *)
LEMMA ShareAnswer ==
  ASSUME TypeOK, AnswerInvariant, NEW j \in Jobs, RegisterReadError(j) \/ AskAsyncMulti(j)
  PROVE  AnswerInvariant'
<1>1. /\ UNCHANGED <<phase, once, replies, results, reader, queue>>
      /\ loop.job = j /\ loop.pc \in {"register", "prompt"} /\ loop'.job = j /\ loop'.pc \in {"compact", "return"}
  BY DEF RegisterReadError, AskAsyncMulti, LoopAt, Goto, jobVars, agentVars
<1>2. AnswerAt(j) BY DEF AnswerInvariant
<1>3. phase[j] \in {"running", "done"} /\ ask[j] = "none"
  BY <1>1, <1>2 DEF AnswerAt, Passes, LoopIn, Body, LoopPc
<1>4. \/ loop.pc = "register" /\ loop'.pc = "compact" /\ ask' = ask /\ readErrorOwner' = j
      \/ /\ loop.pc = "prompt" /\ loop'.pc = "return" /\ readErrorOwner' = readErrorOwner
         /\ ask'[j] = "sent" /\ \A k \in Jobs \ {j} : ask'[k] = ask[k]
  BY DEF RegisterReadError, AskAsyncMulti, LoopAt, Goto, jobVars, agentVars, TypeOK, JobType
<1>5. \A k \in Jobs \ {j} : Apart(k) BY <1>1, <1>4 DEF Apart
<1>6. AnswerAt(j)'
  <2>1. Unshared(j)' BY <1>1, <1>3 DEF Unshared, LoopIn, Private, Held
  <2>2. Passes(j)' BY <1>1, <1>2, <1>3, <1>4 DEF AnswerAt, Passes, LoopIn, Held, Body
  <2>3. Unanswered(j)' => Unanswered(j)
    BY <1>1, <1>3, <1>4 DEF Unanswered, LoopIn, Held, Body
  <2>4. Answers(j)' BY <1>1, <1>2, <2>3 DEF AnswerAt, Answers
  <2> QED BY <2>1, <2>2, <2>4 DEF AnswerAt
<1>7. Waits' BY <1>1, WaitsKept DEF AnswerInvariant
<1> QED BY <1>5, <1>6, <1>7, ApartKept DEF AnswerInvariant

(* The loop answers the job itself: its thread cannot be made, compaction   *)
(* fails, or the synchronous fallback returns.                              *)
LEMMA BodyAnswer ==
  ASSUME TypeOK, AnswerInvariant, NEW j \in Jobs,
         ThreadFail(j) \/ CompactFail(j) \/ FallbackGivesUp(j) \/ FallbackAnswered(j)
  PROVE  AnswerInvariant'
<1>1. /\ UNCHANGED <<phase, ask, readErrorOwner, reader, queue>>
      /\ loop.job = j /\ loop.pc \in {"setup", "compact", "fallbackAsk"} /\ loop'.job = j
      /\ \A k \in Jobs \ {j} : once'[k] = once[k]
  BY DEF ThreadFail, CompactFail, FallbackGivesUp, FallbackAnswered, FallbackReturn, LoopAt, Goto, agentVars, TypeOK,
         JobType
<1>2. AnswerAt(j) BY DEF AnswerInvariant
<1>3. phase[j] \in {"running", "done"} /\ ask[j] = "none"
  BY <1>1, <1>2 DEF AnswerAt, Passes, LoopIn, Body, LoopPc
<1>4. Reply(j) \/ UNCHANGED replies
  BY DEF ThreadFail, CompactFail, FallbackGivesUp, FallbackAnswered, FallbackReturn
<1>5. EmitA2AResult(j) \/ UNCHANGED results
  BY DEF ThreadFail, CompactFail, FallbackGivesUp, FallbackAnswered, FallbackReturn
<1>6. \A k \in Jobs \ {j} : Apart(k)
  BY <1>1, <1>4, <1>5, OthersUnanswered DEF Apart
<1>7. Unshared(j)' \/ loop'.pc = "fallback"
  BY <1>1, <1>3
     DEF ThreadFail, CompactFail, FallbackGivesUp, FallbackAnswered, FallbackReturn, Goto, Unshared, LoopIn, Private,
         Held
<1>8. AnswerAt(j)'
  <2>1. CASE loop'.pc = "fallback"
    <3>1. /\ loop.pc = "setup" /\ UNCHANGED <<once, replies>> /\ j \notin Inline \cup Remote
      BY <2>1 DEF ThreadFail, CompactFail, FallbackGivesUp, FallbackAnswered, FallbackReturn, LoopAt, Goto
    <3>2. results' = results
      BY <2>1, <3>1 DEF ThreadFail, CompactFail, FallbackGivesUp, FallbackAnswered, FallbackReturn, EmitA2AResult, Goto
    <3>3. Unshared(j)' BY <1>1, <1>2, <3>1 DEF AnswerAt, Unshared, LoopIn, Private
    <3>4. Passes(j)' BY <1>1, <1>3, <2>1, <3>1 DEF Passes, LoopIn, Held
    <3>5. Unanswered(j) BY <1>1, <3>1 DEF Unanswered, LoopIn, Body
    <3>6. Answers(j)' BY <1>2, <3>1, <3>2, <3>5 DEF AnswerAt, Answers
    <3> QED BY <3>3, <3>4, <3>6 DEF AnswerAt
  <2>2. CASE loop'.pc = "return"
    <3>1. loop.pc = "compact" /\ UNCHANGED <<once, replies, results>>
      BY <2>2 DEF ThreadFail, CompactFail, FallbackGivesUp, FallbackAnswered, FallbackReturn, LoopAt, Goto
    <3>2. Ahead(j)
      BY <1>1, <2>2, <3>1 DEF Ahead, Held, Private, Body
    <3> QED BY <1>2, <3>2, AheadKept
  <2>3. CASE loop'.pc = "finish"
    <3>1. Unanswered(j) /\ (j \in Inline => once'[j] = "yes")
      <4>1. CASE ThreadFail(j)
        BY <1>1, <4>1 DEF ThreadFail, Unanswered, LoopIn, LoopAt, Body
      <4>2. CASE CompactFail(j)
        <5>1. (j \in Inline => once[j] = "no" /\ once'[j] = "yes") /\ loop.pc = "compact"
          BY <2>3, <4>2 DEF CompactFail, Goto, LoopAt, TypeOK, JobType
        <5> QED BY <1>1, <5>1 DEF Unanswered, LoopIn, Body
      <4>3. CASE FallbackGivesUp(j) \/ FallbackAnswered(j)
        <5>1. loop.pc = "fallbackAsk" /\ j \notin Inline
          BY <1>2, <4>3 DEF FallbackGivesUp, FallbackAnswered, LoopAt, AnswerAt, Passes, LoopIn
        <5> QED BY <1>1, <5>1 DEF Unanswered, LoopIn, Body
      <4> QED BY <4>1, <4>2, <4>3
    <3>2. replies'[j] <= 1 /\ results'[j] <= 1
      BY <1>2, <1>4, <1>5, <3>1, OneAnswer DEF AnswerAt
    <3>3. ~Unanswered(j)'
      BY <1>1, <1>3, <2>3, <3>1 DEF Unanswered, Early, LoopIn, Held, Body
    <3>4. Passes(j)' BY <1>1, <1>3, <2>3 DEF Passes, LoopIn, Held
    <3> QED BY <1>7, <2>3, <3>2, <3>3, <3>4 DEF AnswerAt, Answers
  <2> QED
    BY <2>1, <2>2, <2>3 DEF ThreadFail, CompactFail, FallbackGivesUp, FallbackAnswered, FallbackReturn, Goto
<1>9. Waits' BY <1>1, WaitsKept DEF AnswerInvariant
<1> QED BY <1>6, <1>8, <1>9, ApartKept DEF AnswerInvariant

(* finishJob of a job past the queue disturbs nothing that is queued.       *)
LEMMA FinishWaits ==
  ASSUME TypeOK, AnswerInvariant, NEW j \in Jobs, phase[j] \notin Early, queue' = queue, ClaimFinish(j)
  PROVE  Waits' /\ phase'[j] = "done"
<1>1. phase'[j] = "done" /\ \A k \in Jobs : phase[k] = "queued" => phase'[k] = "queued"
  BY DEF ClaimFinish, ClearCurrent, TypeOK, JobType, Early
<1> QED BY <1>1, WaitsKept DEF AnswerInvariant

(* The loop finishes the job, or finds it finished.                         *)
LEMMA FinishAnswer ==
  ASSUME TypeOK, AnswerInvariant, NEW j \in Jobs, LoopFinish(j)
  PROVE  AnswerInvariant'
<1>1. /\ UNCHANGED <<ask, replies, results, readErrorOwner, reader, queue>>
      /\ loop.job = j /\ loop.pc = "finish" /\ loop'.job = j
  BY DEF LoopFinish, LoopAt, Goto, agentVars
<1>2. AnswerAt(j) BY DEF AnswerInvariant
<1>3. phase[j] \in {"running", "done"} /\ ask[j] = "none"
  BY <1>1, <1>2 DEF AnswerAt, Passes, LoopIn, Body, LoopPc
<1>4. CASE ClaimFinish(j) /\ Goto("signal", j)
  <2>1. phase'[j] = "done" /\ Waits' BY <1>1, <1>3, <1>4, FinishWaits DEF Early
  <2>2. j \in Inline => once'[j] = once[j] BY <1>4 DEF ClaimFinish
  <2>3. loop'.pc = "signal" BY <1>4 DEF Goto
  <2>4. \A k \in Jobs \ {j} : Apart(k) BY <1>1, <1>4, OthersUnfinished DEF Apart
  <2>5. Unanswered(j)' => Unanswered(j)
    BY <1>1, <1>3, <2>1, <2>2, <2>3 DEF Unanswered, Early, LoopIn, Held, Body
  <2>6. Unshared(j)' BY <2>1, <2>3, <1>1 DEF Unshared, LoopIn, Private, Held
  <2>7. Passes(j)' BY <1>1, <1>3, <2>1, <2>3 DEF Passes, LoopIn, Held
  <2>8. AnswerAt(j)' BY <1>1, <1>2, <2>5, <2>6, <2>7 DEF AnswerAt, Answers
  <2> QED BY <2>1, <2>4, <2>8, ApartKept DEF AnswerInvariant
<1>5. CASE Goto("return", j) /\ UNCHANGED <<once, phase>>
  <2>1. Ahead(j) BY <1>1, <1>5 DEF Ahead, Goto, Held, Private, Body
  <2>2. \A k \in Jobs \ {j} : Apart(k) BY <1>1, <1>5 DEF Apart
  <2>3. Waits' BY <1>1, <1>5, WaitsKept DEF AnswerInvariant
  <2> QED BY <2>1, <2>2, <2>3, AheadKept, ApartKept DEF AnswerInvariant
<1> QED BY <1>4, <1>5 DEF LoopFinish

(* The agent answers; OnComplete begins, replies, finishes and signals.     *)
LEMMA PromptAnswer ==
  ASSUME TypeOK, AnswerInvariant, NEW j \in Jobs, Answer(j) \/ OnComplete(j)
  PROVE  AnswerInvariant'
<1>1. /\ UNCHANGED <<readErrorOwner, reader, queue, loop>>
      /\ \A k \in Jobs \ {j} : ask'[k] = ask[k]
  BY DEF Answer, OnComplete, OnCompleteBegin, OnCompleteReply, OnCompleteFinish, OnCompleteSignal, queueVars, agentVars,
         TypeOK, JobType
<1>2. AnswerAt(j) BY DEF AnswerInvariant
<1>3. ask[j] \in AskState \ {"none", "done"} /\ ask'[j] \in AskState \ {"none"}
  BY DEF Answer, OnComplete, OnCompleteBegin, OnCompleteReply, OnCompleteFinish, OnCompleteSignal, AskState, TypeOK,
         JobType
<1>4. phase[j] \notin Early /\ ~LoopIn(Private, j) /\ ~LoopIn(LoopPc \ {"return"}, j)
  BY <1>2, <1>3 DEF AnswerAt, Unshared, Passes, Early
<1>5. phase[j] \in {"running", "done"} BY <1>4 DEF TypeOK, JobType, JobPhase, Early
<1>6. ASSUME \A k \in Jobs \ {j} : /\ phase'[k] = phase[k] /\ replies'[k] = replies[k] /\ results'[k] = results[k]
                                   /\ (once'[k] = "no") = (once[k] = "no"),
             phase'[j] \in {"running", "done"},
             Answers(j)', j \in Inline /\ ask'[j] = "replying" => once'[j] # "no"
      PROVE  AnswerInvariant'
  <2>1. \A k \in Jobs \ {j} : Apart(k) BY <1>1, <1>6 DEF Apart
  <2>2. Unshared(j)' BY <1>1, <1>4, <1>6 DEF Unshared, LoopIn
  <2>3. ~LoopIn(Held, j) /\ ~LoopIn({"fallback", "fallbackAsk"}, j)
    BY <1>4 DEF LoopIn, Private, Held
  <2>4. Passes(j)' BY <1>1, <1>4, <1>6, <2>3 DEF Passes, LoopIn
  <2>5. AnswerAt(j)' BY <1>6, <2>2, <2>4 DEF AnswerAt
  <2>6. \A k \in Jobs : phase[k] = "queued" => phase'[k] = "queued"
    BY <1>5, <1>6
  <2>7. Waits' BY <1>1, <2>6, WaitsKept DEF AnswerInvariant
  <2> QED BY <2>1, <2>5, <2>7, ApartKept DEF AnswerInvariant
<1>7. ~LoopIn(Held \cup Body, j) /\ ~LoopIn((Held \cup Body) \ {"finish"}, j)
  BY <1>4 DEF LoopIn, Held, Body, LoopPc
<1>8. CASE Answer(j)
  <2>1. UNCHANGED <<phase, once, replies, results>> /\ ask[j] = "sent" /\ ask'[j] = "answered"
    BY <1>8 DEF Answer, TypeOK, JobType
  <2>2. Unanswered(j)' => Unanswered(j) BY <1>1, <2>1 DEF Unanswered, LoopIn
  <2>3. Answers(j)' BY <1>2, <2>1, <2>2 DEF AnswerAt, Answers
  <2> QED BY <1>5, <1>6, <2>1, <2>3
<1>9. CASE OnCompleteBegin(j)
  <2>1. /\ UNCHANGED <<phase, replies, results>> /\ ask[j] = "answered"
        /\ \A k \in Jobs \ {j} : once'[k] = once[k]
        /\ j \in Inline => once'[j] = "yes" /\ (ask'[j] = "replying" => once[j] = "no")
        /\ j \notin Inline => ask'[j] = "replying" /\ once' = once
    BY <1>9 DEF OnCompleteBegin, TypeOK, JobType
  <2>2. Unanswered(j)' => Unanswered(j)
    BY <1>1, <2>1 DEF Unanswered, LoopIn
  <2>3. Answers(j)' BY <1>2, <2>1, <2>2 DEF AnswerAt, Answers
  <2> QED BY <1>5, <1>6, <2>1, <2>3
<1>10. CASE OnCompleteReply(j)
  <2>1. UNCHANGED <<phase, once>> /\ ask[j] = "replying" /\ ask'[j] = "finish"
    BY <1>10 DEF OnCompleteReply, TypeOK, JobType
  <2>2. (Reply(j) \/ UNCHANGED replies) /\ (EmitA2AResult(j) \/ UNCHANGED results)
    BY <1>10 DEF OnCompleteReply
  <2>3. Unanswered(j) /\ (j \in Inline => once[j] # "no")
    BY <1>2, <2>1 DEF Unanswered, AnswerAt, Passes
  <2>4. ~Unanswered(j)'
    BY <1>1, <1>5, <1>7, <2>1, <2>3 DEF Unanswered, LoopIn, Early
  <2>5. replies'[j] <= 1 /\ results'[j] <= 1 BY <1>2, <2>2, <2>3, OneAnswer DEF AnswerAt
  <2>6. Answers(j)' BY <2>4, <2>5 DEF Answers
  <2> QED BY <1>5, <1>6, <2>1, <2>2, <2>6, OthersUnanswered
<1>11. CASE OnCompleteFinish(j)
  <2>1. UNCHANGED <<replies, results>> /\ ask[j] = "finish" /\ ask'[j] \in {"signal", "done"}
    BY <1>11 DEF OnCompleteFinish, TypeOK, JobType
  <2>2. phase'[j] \in {"running", "done"} /\ (j \in Inline => once'[j] = once[j])
    BY <1>5, <1>11 DEF OnCompleteFinish, ClaimFinish, ClearCurrent, TypeOK, JobType
  <2>3. \A k \in Jobs \ {j} : phase'[k] = phase[k] /\ once'[k] = once[k]
    BY <1>11, OthersUnfinished DEF OnCompleteFinish
  <2>4. Unanswered(j)' => Unanswered(j)
    BY <1>1, <1>7, <2>1, <2>2 DEF Unanswered, LoopIn, Early
  <2>5. Answers(j)' BY <1>2, <2>1, <2>4 DEF AnswerAt, Answers
  <2> QED BY <1>6, <2>1, <2>2, <2>3, <2>5
<1>12. CASE OnCompleteSignal(j)
  <2>1. UNCHANGED <<phase, replies, results>> /\ ask[j] = "signal" /\ ask'[j] = "done"
    BY <1>12 DEF OnCompleteSignal, TypeOK, JobType
  <2>2. \A k \in Jobs : (once'[k] = "no") = (once[k] = "no")
    BY <1>12, OthersUnfinished, SignalOnce DEF OnCompleteSignal
  <2>3. Unanswered(j)' => Unanswered(j)
    BY <1>1, <2>1, <2>2 DEF Unanswered, LoopIn
  <2>4. Answers(j)' BY <1>2, <2>1, <2>3 DEF AnswerAt, Answers
  <2> QED BY <1>5, <1>6, <2>1, <2>2, <2>4
<1> QED BY <1>8, <1>9, <1>10, <1>11, <1>12 DEF OnComplete

(* The read-error callback picks a job up, answers it when it is inline and *)
(* unclaimed, finishes it and signals.                                      *)
LEMMA ReaderAnswer ==
  ASSUME TypeOK, AnswerInvariant, ReadLoopEnds \/ ReadError
  PROVE  AnswerInvariant'
<1>1. CASE ReadLoopEnds \/ ReadErrorPick
  <2>1. /\ UNCHANGED <<queue, loop, phase, ask, once, replies, results, readErrorOwner>>
        /\ reader'.job \in {reader.job, readErrorOwner}
    BY <1>1 DEF ReadLoopEnds, ReadErrorPick, queueVars, jobVars, TypeOK, AgentType
  <2>2. \A k \in Jobs : Apart(k) BY <2>1 DEF Apart
  <2>3. Waits' BY <2>1, WaitsKept DEF AnswerInvariant
  <2> QED BY <2>2, <2>3, ApartKept DEF AnswerInvariant
<1>2. ASSUME NEW j \in Jobs, ReadErrorSignal(j) PROVE AnswerInvariant'
  <2>1. /\ UNCHANGED <<queue, loop, phase, ask, replies, results, readErrorOwner>>
        /\ reader'.job = reader.job
    BY <1>2 DEF ReadErrorSignal, TypeOK, AgentType
  <2>2. \A k \in Jobs : (once'[k] = "no") = (once[k] = "no")
    BY <1>2, OthersUnfinished, SignalOnce DEF ReadErrorSignal
  <2>3. \A k \in Jobs : Apart(k) BY <2>1, <2>2 DEF Apart
  <2>4. Waits' BY <2>1, WaitsKept DEF AnswerInvariant
  <2> QED BY <2>3, <2>4, ApartKept DEF AnswerInvariant
<1>3. ASSUME NEW j \in Jobs, ReadErrorHandle(j) \/ ReadErrorFinish(j) PROVE AnswerInvariant'
  <2>1. /\ UNCHANGED <<queue, loop, ask, readErrorOwner>>
        /\ reader.job = j /\ reader'.job = j
    BY <1>3 DEF ReadErrorHandle, ReadErrorFinish, queueVars, TypeOK, AgentType
  <2>2. AnswerAt(j) BY DEF AnswerInvariant
  <2>3. phase[j] \notin Early /\ ~LoopIn(Private, j)
    BY <2>1, <2>2 DEF AnswerAt, Unshared, Early
  <2>4. phase[j] \in {"running", "done"} /\ phase'[j] \in {"running", "done"}
    BY <1>3, <2>3
       DEF ReadErrorHandle, ReadErrorFinish, ClaimFinish, ClearCurrent, TypeOK, JobType, JobPhase, Early
  <2>5. (Reply(j) \/ UNCHANGED replies) /\ (EmitA2AResult(j) \/ UNCHANGED results)
    BY <1>3 DEF ReadErrorHandle, ReadErrorFinish
  <2>6. \A k \in Jobs \ {j} : phase'[k] = phase[k] /\ once'[k] = once[k]
    BY <1>3, OthersUnfinished DEF ReadErrorHandle, ReadErrorFinish, TypeOK, JobType
  <2>7. \A k \in Jobs \ {j} : Apart(k) BY <2>1, <2>5, <2>6, OthersUnanswered DEF Apart
  <2>8. j \in Inline => once'[j] \in {once[j], "yes"}
    BY <1>3 DEF ReadErrorHandle, ReadErrorFinish, ClaimFinish, TypeOK, JobType
  <2>9. Answers(j)'
    <3>1. CASE UNCHANGED <<replies, results>>
      <4>1. Unanswered(j)' => Unanswered(j)
        BY <2>1, <2>3, <2>4, <2>8 DEF Unanswered, LoopIn, Early
      <4> QED BY <2>2, <3>1, <4>1 DEF AnswerAt, Answers
    <3>2. CASE j \in Inline /\ once[j] = "no" /\ once'[j] = "yes"
      <4>1. Unanswered(j) BY <2>1, <3>2 DEF Unanswered
      <4>2. ~Unanswered(j)' BY <2>1, <2>2, <3>2 DEF Unanswered, AnswerAt, Passes
      <4> QED BY <2>2, <2>5, <4>1, <4>2, OneAnswer DEF AnswerAt, Answers
    <3> QED BY <1>3, <3>1, <3>2 DEF ReadErrorHandle, ReadErrorFinish, TypeOK, JobType
  <2>10. Unshared(j)' BY <2>1, <2>3, <2>4 DEF Unshared, LoopIn
  <2>11. ~LoopIn(Held, j) BY <2>3 DEF LoopIn, Private
  <2>12. Passes(j)' BY <2>1, <2>2, <2>4, <2>8, <2>11 DEF AnswerAt, Passes, LoopIn
  <2>13. \A k \in Jobs : phase[k] = "queued" => phase'[k] = "queued" BY <2>4, <2>6
  <2>14. Waits' BY <2>1, <2>13, WaitsKept DEF AnswerInvariant
  <2> QED BY <2>7, <2>9, <2>10, <2>12, <2>14, ApartKept DEF AnswerInvariant, AnswerAt
<1> QED BY <1>1, <1>2, <1>3 DEF ReadError

(* The user, the escalations, the agent and the manager answer nothing.     *)
LEMMA QuietAnswer ==
  ASSUME TypeOK, AnswerInvariant,
         \/ AgentDies \/ Stop \/ MarkThreadArchived
         \/ \E op \in {"cancel", "interrupt"} : UserRead(op)
         \/ \E j \in Jobs : UserAct(j) \/ Deadline(j) \/ Escalate(j)
         \/ UNCHANGED vars
  PROVE  AnswerInvariant'
<1>1. UNCHANGED <<queue, loop, phase, ask, once, replies, results, readErrorOwner, reader>>
  BY DEF AgentDies, Stop, MarkThreadArchived, UserRead, UserAct, Deadline, Escalate, TimeoutWatch, Interrupt,
         EscalatedStop, GraceEnds, vars, queueVars, jobVars, agentVars
<1>2. \A k \in Jobs : Apart(k) BY <1>1 DEF Apart
<1>3. Waits' BY <1>1, WaitsKept DEF AnswerInvariant
<1> QED BY <1>2, <1>3, ApartKept DEF AnswerInvariant

(* Whichever of the run loop, OnComplete and the read-error callback ends a *)
(* job, it gets at most one final reply and one A2A result. It needs no     *)
(* hypothesis on the mix of jobs and faults.                                *)
THEOREM AnswersOnce == Spec => []AnsweredOnce
<1>1. Init => AnswerInvariant
  BY DEF Init, AnswerInvariant, Waits, AnswerAt, Unshared, Passes, Answers, LoopIn, Private, Held, Body, LoopPc
<1>2. TypeOK /\ AnswerInvariant /\ [Next]_vars => AnswerInvariant'
  <2> SUFFICES ASSUME TypeOK, AnswerInvariant, [Next]_vars PROVE AnswerInvariant' OBVIOUS
  <2>1. ASSUME NEW j \in Jobs, Execute(j) PROVE AnswerInvariant'
    BY <2>1, AheadAnswer, LetGoAnswer, BeginAnswer, ShareAnswer, BodyAnswer, FinishAnswer DEF Execute
  <2> QED
    BY <2>1, CallersAnswer, SelectAnswer, BodyAnswer, PromptAnswer, ReaderAnswer, QuietAnswer DEF Next, Run
<1>3. AnswerInvariant => AnsweredOnce BY DEF AnswerInvariant, AnswerAt, Answers, AnsweredOnce
<1> QED BY <1>1, <1>2, <1>3, TypeCorrect, PTL DEF Spec
=============================================================================
