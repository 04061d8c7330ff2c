----------------------------- MODULE AgentProofs -----------------------------
(* Proofs about Agent: ReadLoop delivers under the pending lock without     *)
(* ever blocking, and a worker's prompts keep their texts apart.            *)
EXTENDS Agent, TLAPS

USE CommandsAssumption, ChunksAssumption

-----------------------------------------------------------------------------
(* Types.                                                                   *)

(* A group of variables that stays the same keeps its type.                 *)
LEMMA TypeFrame ==
  ASSUME TypeOK
  PROVE  /\ UNCHANGED callVars => CallType'
         /\ UNCHANGED pipeVars => PipeType'
         /\ UNCHANGED procVars => ProcType'
         /\ UNCHANGED <<lifeVars, state, currentText>> => LifeType'
<1>1. UNCHANGED callVars => CallType' BY DEF TypeOK, CallType, callVars
<1>2. UNCHANGED pipeVars => PipeType' BY DEF TypeOK, PipeType, pipeVars
<1>3. UNCHANGED procVars => ProcType' BY DEF TypeOK, ProcType, procVars
<1>4. UNCHANGED <<lifeVars, state, currentText>> => LifeType'
  BY DEF TypeOK, LifeType, lifeVars
<1> QED BY <1>1, <1>2, <1>3, <1>4

(* The callers' steps.                                                      *)
LEMMA CallerType ==
  ASSUME TypeOK, NEW c \in Calls, Begin(c) \/ Complete(c) \/ GiveUp(c)
  PROVE  TypeOK'
<1>1. CallType' BY DEF TypeOK, CallType, LifeType, Begin, Complete, GiveUp, SendPc
<1>2. LifeType' BY DEF TypeOK, LifeType, Begin, Complete, GiveUp, lifeVars
<1> QED BY <1>1, <1>2, TypeFrame DEF TypeOK, Begin, Complete, GiveUp

(* The steps of Send.                                                       *)
LEMMA SendType ==
  ASSUME TypeOK, NEW c \in Calls, Send(c)
  PROVE  TypeOK'
<1>1. CASE SendFastPath(c)
  <2>1. CallType' BY <1>1 DEF TypeOK, CallType, SendFastPath, End, SendPc
  <2> QED BY <1>1, <2>1, TypeFrame DEF TypeOK, SendFastPath
<1>2. CASE SendRegister(c)
  <2>1. CallType' BY <1>2 DEF TypeOK, CallType, SendRegister, SendPc
  <2>2. PipeType' BY <1>2 DEF TypeOK, PipeType, SendRegister
  <2> QED BY <1>2, <2>1, <2>2, TypeFrame DEF TypeOK, SendRegister
<1>3. CASE SendWrite(c)
  <2>1. CallType' BY <1>3 DEF TypeOK, CallType, SendWrite, End, SendPc
  <2>2. PipeType' BY <1>3 DEF TypeOK, PipeType, SendWrite
  <2>3. ProcType' BY <1>3 DEF TypeOK, ProcType, SendWrite
  <2> QED BY <1>3, <2>1, <2>2, <2>3, TypeFrame DEF TypeOK, SendWrite
<1>4. CASE SendReceive(c)
  <2>1. CallType' BY <1>4 DEF TypeOK, CallType, PipeType, SendReceive, End, SendPc
  <2>2. PipeType' BY <1>4 DEF TypeOK, PipeType, SendReceive
  <2> QED BY <1>4, <2>1, <2>2, TypeFrame DEF TypeOK, SendReceive
<1>5. CASE SendSeesDone(c)
  <2>1. CallType' BY <1>5 DEF TypeOK, CallType, SendSeesDone, End, SendPc
  <2>2. PipeType' BY <1>5 DEF TypeOK, PipeType, SendSeesDone
  <2> QED BY <1>5, <2>1, <2>2, TypeFrame DEF TypeOK, SendSeesDone
<1> QED BY <1>1, <1>2, <1>3, <1>4, <1>5 DEF Send

(* ReadLoop's steps.                                                        *)
LEMMA ReadLoopType ==
  ASSUME TypeOK, ReadLoop
  PROVE  TypeOK'
<1>1. CASE ReadLine
  <2>1. wire' \in Seq(Messages) /\ Head(wire) \in Messages
    BY <1>1 DEF TypeOK, ProcType, ReadLine
  <2>2. PipeType' BY <1>1, <2>1 DEF TypeOK, PipeType, ReadLine, Messages
  <2>3. ProcType' BY <1>1, <2>1 DEF TypeOK, ProcType, ReadLine
  <2>4. LifeType' BY <1>1, <2>1 DEF TypeOK, LifeType, ReadLine, lifeVars, Messages
  <2> QED BY <1>1, <2>2, <2>3, <2>4, TypeFrame DEF TypeOK, ReadLine
<1>2. CASE ReadEnds
  <2>1. PipeType' BY <1>2 DEF TypeOK, PipeType, ReadEnds
  <2> QED BY <1>2, <2>1, TypeFrame DEF TypeOK, ReadEnds
<1>3. CASE FailAllPending
  <2>1. PipeType' BY <1>3 DEF TypeOK, PipeType, FailAllPending
  <2> QED BY <1>3, <2>1, TypeFrame DEF TypeOK, FailAllPending
<1> QED BY <1>1, <1>2, <1>3 DEF ReadLoop

(* The process' steps.                                                      *)
LEMMA ProcessType ==
  ASSUME TypeOK, ProcessExits \/ \E c \in Calls : Stream(c) \/ Answer(c)
  PROVE  TypeOK'
<1>1. CASE ProcessExits
  <2>1. ProcType' BY <1>1 DEF TypeOK, ProcType, ProcessExits
  <2> QED BY <1>1, <2>1, TypeFrame DEF TypeOK, ProcessExits
<1>2. ASSUME NEW c \in Calls, Stream(c) PROVE TypeOK'
  <2>1. Chunk(c) \in Messages BY DEF Chunk, Messages
  <2>2. ProcType' BY <1>2, <2>1 DEF TypeOK, ProcType, Stream
  <2> QED BY <1>2, <2>2, TypeFrame DEF TypeOK, Stream
<1>3. ASSUME NEW c \in Calls, Answer(c) PROVE TypeOK'
  <2>1. Reply(c) \in Messages BY DEF Reply, Messages
  <2>2. ProcType' BY <1>3, <2>1 DEF TypeOK, ProcType, Answer
  <2> QED BY <1>3, <2>2, TypeFrame DEF TypeOK, Answer
<1> QED BY <1>1, <1>2, <1>3

(* The end of the start, Stop and the Wait goroutine.                       *)
LEMMA LifeStepType ==
  ASSUME TypeOK, Started \/ OnExitFunc \/ Stop \/ Wait
  PROVE  TypeOK'
<1>1. LifeType'
  BY DEF TypeOK, LifeType, Started, OnExitFunc, Stop, StopMark, StopSignal, StopReturn,
         Wait, WaitReturns, WaitVerdict
<1> QED
  BY <1>1, TypeFrame
     DEF TypeOK, Started, OnExitFunc, Stop, StopMark, StopSignal, StopReturn,
         Wait, WaitReturns, WaitVerdict

(* The initial state.                                                       *)
LEMMA InitType == Init => TypeOK
<1> SUFFICES ASSUME Init PROVE TypeOK OBVIOUS
<1>1. CallType BY DEF Init, CallType, SendPc
<1>2. PipeType BY DEF Init, PipeType
<1>3. ProcType BY DEF Init, ProcType
<1>4. LifeType BY DEF Init, LifeType
<1> QED BY <1>1, <1>2, <1>3, <1>4 DEF TypeOK

(* The state keeps its types: an agent streams at most MaxChunks chunks for *)
(* a prompt and nothing after its answer.                                   *)
THEOREM TypeCorrect == Spec => []TypeOK
<1>1. TypeOK /\ [Next]_vars => TypeOK'
  <2> SUFFICES ASSUME TypeOK, [Next]_vars PROVE TypeOK' OBVIOUS
  <2>1. CASE UNCHANGED vars BY <2>1, TypeFrame DEF TypeOK, vars
  <2>2. CASE Next
    BY <2>2, CallerType, SendType, ReadLoopType, ProcessType, LifeStepType DEF Next
  <2> QED BY <2>1, <2>2
<1> QED BY InitType, <1>1, PTL DEF Spec

-----------------------------------------------------------------------------
(* The response channels.                                                   *)

(* Who is in the pending map waits for its answer, and a channel that holds *)
(* something belongs to a call that has left the map.                       *)
Registered == \A c \in pending : send[c] \in {"registered", "waiting"}
Delivered  == \A c \in Calls : chan[c] # "empty" => send[c] \in {"registered", "waiting", "over"}
Begun      == \A c \in Calls : caller[c] = "new" => send[c] = "new"
ChanInv == Registered /\ Delivered /\ Begun /\ ReaderNeverBlocks

(* A step that leaves the map, the channels and Send alone.                 *)
LEMMA ChanFrame ==
  ASSUME ChanInv, UNCHANGED <<pending, chan, send>>,
         \A c \in Calls : caller'[c] = "new" => caller[c] = "new"
  PROVE  ChanInv'
BY DEF ChanInv, Begun, Registered, Delivered, ReaderNeverBlocks, CanDeliver

(* Every step of Send, and every delivery, keeps them apart.                *)
LEMMA ChanStep ==
  ASSUME TypeOK, ChanInv, [Next]_vars
  PROVE  ChanInv'
<1> USE DEF TypeOK, CallType, PipeType, ChanInv, Begun, Registered, Delivered, ReaderNeverBlocks, CanDeliver
<1>1. ASSUME NEW c \in Calls, Begin(c) PROVE ChanInv' BY <1>1 DEF Begin, pipeVars
<1>2. ASSUME NEW c \in Calls, SendFastPath(c) PROVE ChanInv' BY <1>2 DEF SendFastPath, End, pipeVars
<1>3. ASSUME NEW c \in Calls, SendRegister(c) PROVE ChanInv' BY <1>3 DEF SendRegister
<1>4. ASSUME NEW c \in Calls, SendWrite(c) PROVE ChanInv' BY <1>4 DEF SendWrite, End
<1>5. ASSUME NEW c \in Calls, SendReceive(c) PROVE ChanInv' BY <1>5 DEF SendReceive, End
<1>6. ASSUME NEW c \in Calls, SendSeesDone(c) PROVE ChanInv' BY <1>6 DEF SendSeesDone, End
<1>7. CASE ReadLine BY <1>7 DEF ReadLine, callVars
<1>8. CASE FailAllPending BY <1>8 DEF FailAllPending, callVars
<1>9. CASE UNCHANGED <<pending, chan, send, caller>> BY <1>9, ChanFrame
<1>10. ASSUME NEW c \in Calls, Complete(c) \/ GiveUp(c) PROVE ChanInv'
  <2>1. UNCHANGED <<pending, chan, send>> BY <1>10 DEF Complete, GiveUp, pipeVars
  <2>2. \A d \in Calls : caller'[d] = "new" => caller[d] = "new" BY <1>10 DEF Complete, GiveUp
  <2> QED BY <2>1, <2>2, ChanFrame
<1> QED
  BY <1>1, <1>2, <1>3, <1>4, <1>5, <1>6, <1>7, <1>8, <1>9, <1>10
     DEF Next, Started, OnExitFunc, Send, ReadLoop, ReadEnds, ProcessExits, Stop, StopMark, StopSignal, StopReturn,
         Wait, WaitReturns, WaitVerdict, Stream, Answer,
         vars, callVars, pipeVars

(* For every set of prompts and commands and every fault: whatever ReadLoop *)
(* or the end of the stream delivers under the pending lock finds room.     *)
THEOREM NeverBlocks == Spec => []ReaderNeverBlocks
<1>1. Init => ChanInv
  BY DEF Init, ChanInv, Begun, Registered, Delivered, ReaderNeverBlocks, CanDeliver
<1>2. ChanInv /\ UNCHANGED vars => ChanInv'
  BY ChanFrame DEF vars, callVars, pipeVars
<1>3. ChanInv => ReaderNeverBlocks BY DEF ChanInv
<1> QED BY TypeCorrect, <1>1, <1>3, ChanStep, PTL DEF Spec

-----------------------------------------------------------------------------
(* The texts. When only the worker prompts the agent, a call is over for    *)
(* the agent and the pipe before its text is taken, or nothing is read any  *)
(* more; so what ReadLoop adds to currentText is the asker's.               *)
OnlyWorker == Commands = {}

(* The agent owes c nothing and nothing of c is left in the pipe.           *)
Quiet(c) == work[c] = -1 /\ \A i \in 1..Len(wire) : wire[i].call # c

(* The worker asks one prompt at a time.                                    *)
OneAsker == \A c, d \in Calls : caller[c] = "asking" /\ caller[d] = "asking" => c = d

(* How far a call has come, seen by its caller and by Send.                 *)
Progress ==
  \A c \in Calls : /\ caller[c] = "new" => send[c] = "new"
                   /\ caller[c] = "returned" => send[c] = "over"
                   /\ send[c] = "over" => result[c] # "none"

(* Before the prompt is written, after its answer was delivered, and after  *)
(* any other end unless the reader has stopped, the call is quiet.          *)
Silence ==
  \A c \in Calls :
    /\ send[c] \in {"new", "begun", "entered", "registered"} =>
         Quiet(c) /\ result[c] = "none" /\ chan[c] # "answer"
    /\ chan[c] = "answer" \/ result[c] = "answer" => Quiet(c)
    /\ chan[c] = "closed" => reader # "scan"
    /\ result[c] = "closed" => Quiet(c) \/ reader # "scan"

(* An answer is the last message of its call.                               *)
AnswerLast ==
  \A i \in 1..Len(wire) : wire[i].kind = "answer" =>
    /\ work[wire[i].call] = -1
    /\ \A k \in 1..Len(wire) : i < k => wire[k].call # wire[i].call

TextInv ==
  /\ ChanInv /\ OneAsker /\ Progress /\ Silence /\ AnswerLast
  /\ done <=> reader # "scan"
  /\ \A c \in Calls : caller[c] = "asking" => currentText \subseteq {c}
  /\ OwnText

(* What one more and one less message on the wire means for a call.         *)
LEMMA QuietAppend ==
  ASSUME TypeOK, NEW c \in Calls, NEW m \in Messages, wire' = Append(wire, m),
         Quiet(c), m.call # c, work'[c] = work[c]
  PROVE  Quiet(c)'
<1>1. Len(wire) \in Nat /\ wire \in Seq(Messages) BY DEF TypeOK, ProcType
<1>2. \A i \in 1..Len(wire') : wire'[i] = IF i = Len(wire) + 1 THEN m ELSE wire[i] BY <1>1
<1>3. \A i \in 1..Len(wire') : i \in 1..Len(wire) \/ i = Len(wire) + 1 BY <1>1
<1> QED BY <1>2, <1>3 DEF Quiet

(* The first message and the rest of the wire.                              *)
LEMMA TailFacts ==
  ASSUME TypeOK, wire # <<>>, wire' = Tail(wire)
  PROVE  /\ Head(wire) = wire[1] /\ Head(wire) \in Messages
         /\ \A i \in 1..Len(wire') : wire'[i] = wire[i + 1] /\ i + 1 \in 2..Len(wire)
         /\ 1 \in 1..Len(wire)
<1>1. Len(wire) \in Nat /\ wire \in Seq(Messages) BY DEF TypeOK, ProcType
<1> QED BY <1>1

(* Reading a message keeps what is quiet quiet.                             *)
LEMMA QuietTail ==
  ASSUME TypeOK, NEW c \in Calls, wire # <<>>, wire' = Tail(wire), Quiet(c), work' = work
  PROVE  Quiet(c)'
BY TailFacts DEF Quiet

(* What calls and channels do when the wire and the agent's debts stay.     *)
LEMMA WireFrame ==
  ASSUME TextInv, UNCHANGED <<wire, work>>
  PROVE  AnswerLast' /\ \A c \in Calls : Quiet(c)' <=> Quiet(c)
BY DEF TextInv, AnswerLast, Quiet

(* The callers' steps: a new prompt finds nobody asking.                    *)
LEMMA CallerText ==
  ASSUME TypeOK, TextInv, ChanInv', OnlyWorker, NEW c \in Calls, Begin(c) \/ Complete(c) \/ GiveUp(c)
  PROVE  TextInv'
<1>1. CASE Begin(c)
  <2>1. /\ caller[c] = "new" /\ caller' = [caller EXCEPT ![c] = "asking"]
        /\ send' = [send EXCEPT ![c] = "begun"] /\ currentText' = {}
        /\ \A d \in Calls : caller[d] # "asking"
        /\ UNCHANGED <<out, result, pending, chan, done, reader, proc, work, wire>>
    BY <1>1 DEF Begin, OnlyWorker, Outstanding, pipeVars, procVars
  <2>2. AnswerLast' /\ \A d \in Calls : Quiet(d)' <=> Quiet(d) BY <2>1, WireFrame
  <2>3. OneAsker' /\ Progress' BY <2>1 DEF TextInv, OneAsker, Progress, TypeOK, CallType
  <2>4. Silence' BY <2>1, <2>2 DEF TextInv, Silence, Progress, TypeOK, CallType
  <2> QED BY <2>1, <2>2, <2>3, <2>4 DEF TextInv, OwnText
<1>2. CASE Complete(c)
  <2>1. /\ caller[c] = "asking" /\ send[c] = "over"
        /\ caller' = [caller EXCEPT ![c] = "returned"]
        /\ out' = [out EXCEPT ![c] = IF result[c] = "answer" THEN currentText ELSE {}]
        /\ UNCHANGED <<send, result, currentText, pending, chan, done, reader, proc, work, wire>>
    BY <1>2 DEF Complete, pipeVars, procVars
  <2>2. AnswerLast' /\ \A d \in Calls : Quiet(d)' <=> Quiet(d) BY <2>1, WireFrame
  <2>3. OneAsker' /\ Progress' BY <2>1 DEF TextInv, OneAsker, Progress, TypeOK, CallType
  <2>4. Silence' BY <2>1, <2>2 DEF TextInv, Silence
  <2>5. OwnText' BY <2>1 DEF TextInv, OwnText, TypeOK, CallType
  <2>6. \A d \in Calls : caller'[d] = "asking" => currentText' \subseteq {d}
    BY <2>1 DEF TextInv, TypeOK, CallType
  <2> QED BY <2>1, <2>2, <2>3, <2>4, <2>5, <2>6 DEF TextInv
<1>3. ~GiveUp(c) BY DEF GiveUp, OnlyWorker
<1> QED BY <1>1, <1>2, <1>3

(* Send's steps: the prompt is written when nothing of the call is left.    *)
LEMMA SendText ==
  ASSUME TypeOK, TextInv, ChanInv', NEW c \in Calls, Send(c)
  PROVE  TextInv'
<1>1. send[c] \notin {"new", "over"} /\ UNCHANGED <<caller, out, done, reader, wire, currentText>>
  BY DEF Send, SendFastPath, SendRegister, SendWrite, SendReceive, SendSeesDone,
         pipeVars, procVars
<1>2. OneAsker' /\ OwnText' BY <1>1 DEF TextInv, OneAsker, OwnText
<1>3. ASSUME UNCHANGED work, Progress', Silence' PROVE TextInv'
  BY <1>1, <1>2, <1>3, WireFrame DEF TextInv
<1>4. CASE SendFastPath(c)
  <2>1. UNCHANGED <<work, chan>> BY <1>4 DEF SendFastPath, procVars, pipeVars
  <2>2. Progress' BY <1>1, <1>4 DEF TextInv, Progress, SendFastPath, End, TypeOK, CallType
  <2>3. \A d \in Calls : Quiet(d)' <=> Quiet(d) BY <1>1, <2>1, WireFrame
  <2>4. Silence'
    BY <1>1, <1>4, <2>1, <2>3 DEF TextInv, Silence, SendFastPath, End, TypeOK, CallType
  <2> QED BY <1>3, <2>1, <2>2, <2>4
<1>5. CASE SendRegister(c)
  <2>1. UNCHANGED <<work, chan, result>> BY <1>5 DEF SendRegister, procVars
  <2>2. Progress' BY <1>1, <1>5 DEF TextInv, Progress, SendRegister, TypeOK, CallType
  <2>3. \A d \in Calls : Quiet(d)' <=> Quiet(d) BY <1>1, <2>1, WireFrame
  <2>4. Silence'
    BY <1>1, <1>5, <2>1, <2>3 DEF TextInv, Silence, SendRegister, TypeOK, CallType
  <2> QED BY <1>3, <2>1, <2>2, <2>4
<1>6. CASE SendWrite(c)
  <2>1. send[c] = "registered" /\ UNCHANGED chan BY <1>6 DEF SendWrite
  <2>2. Quiet(c) /\ chan[c] # "answer" /\ result[c] = "none"
    BY <2>1, <1>6 DEF TextInv, Silence, SendWrite
  <2>3. Progress' BY <1>1, <1>6 DEF TextInv, Progress, SendWrite, End, TypeOK, CallType
  <2>4. CASE proc = "running" /\ UNCHANGED result /\ send' = [send EXCEPT ![c] = "waiting"]
              /\ work' = [work EXCEPT ![c] = MaxChunks]
    <3>1. \A d \in Calls \ {c} : Quiet(d)' <=> Quiet(d)
      BY <1>1, <2>4 DEF Quiet, TypeOK, ProcType
    <3>2. Silence' BY <1>1, <2>1, <2>2, <2>4, <3>1 DEF TextInv, Silence, TypeOK, CallType
    <3>3. \A i \in 1..Len(wire) : wire[i].call # c BY <2>2 DEF Quiet
    <3>4. AnswerLast' BY <1>1, <2>4, <3>3 DEF TextInv, AnswerLast, TypeOK, ProcType
    <3> QED BY <1>1, <1>2, <2>3, <3>2, <3>4 DEF TextInv
  <2>5. CASE UNCHANGED work /\ End(c, "closed")
    <3>1. \A d \in Calls : Quiet(d)' <=> Quiet(d) BY <1>1, <2>5, WireFrame
    <3>2. Silence' BY <1>1, <2>1, <2>2, <2>5, <3>1 DEF TextInv, Silence, End, TypeOK, CallType
    <3> QED BY <1>3, <2>3, <2>5, <3>2
  <2> QED BY <1>6, <2>4, <2>5 DEF SendWrite
<1>7. CASE SendReceive(c)
  <2>1. /\ send[c] = "waiting" /\ chan[c] # "empty" /\ End(c, chan[c])
        /\ chan' = [chan EXCEPT ![c] = "empty"] /\ UNCHANGED work
    BY <1>7 DEF SendReceive, procVars
  <2>2. Progress' BY <1>1, <2>1 DEF TextInv, Progress, End, TypeOK, CallType, PipeType
  <2>3. \A d \in Calls : Quiet(d)' <=> Quiet(d) BY <1>1, <2>1, WireFrame
  <2>4. Silence' BY <1>1, <2>1, <2>3 DEF TextInv, Silence, End, TypeOK, CallType, PipeType
  <2> QED BY <1>3, <2>1, <2>2, <2>4
<1>8. CASE SendSeesDone(c)
  <2>1. send[c] = "waiting" /\ done /\ End(c, "closed") /\ UNCHANGED <<work, chan>>
    BY <1>8 DEF SendSeesDone, procVars
  <2>2. Progress' BY <1>1, <2>1 DEF TextInv, Progress, End, TypeOK, CallType
  <2>3. \A d \in Calls : Quiet(d)' <=> Quiet(d) BY <1>1, <2>1, WireFrame
  <2>4. Silence' BY <1>1, <2>1, <2>3 DEF TextInv, Silence, End, TypeOK, CallType
  <2> QED BY <1>3, <2>1, <2>2, <2>4
<1> QED BY <1>4, <1>5, <1>6, <1>7, <1>8 DEF Send

(* ReadLoop reads messages of the asker only.                               *)
LEMMA ReaderText ==
  ASSUME TypeOK, TypeOK', TextInv, ChanInv', ReadLoop
  PROVE  TextInv'
<1>1. UNCHANGED <<send, caller, out, result, work>>
  BY DEF ReadLoop, ReadLine, ReadEnds, FailAllPending, callVars, procVars
<1>2. OneAsker' /\ OwnText' /\ Progress' BY <1>1 DEF TextInv, OneAsker, OwnText, Progress
<1>3. CASE ReadLine
  <2>1. reader = "scan" /\ wire # <<>> /\ wire' = Tail(wire) /\ UNCHANGED <<done, reader>>
    BY <1>3 DEF ReadLine
  <2>2. \A d \in Calls : Quiet(d) => Quiet(d)' BY <1>1, <2>1, QuietTail
  <2>3. AnswerLast'
    <3> SUFFICES ASSUME NEW i \in 1..Len(wire'), wire'[i].kind = "answer"
                 PROVE  /\ work'[wire'[i].call] = -1
                        /\ \A k \in 1..Len(wire') : i < k => wire'[k].call # wire'[i].call
      BY DEF AnswerLast
    <3>1. \A k \in 1..Len(wire') : wire'[k] = wire[k + 1] /\ k + 1 \in 1..Len(wire)
      BY <2>1, TailFacts
    <3>2. \A k \in 1..Len(wire') : i < k => i + 1 < k + 1 OBVIOUS
    <3>3. i + 1 \in 1..Len(wire) /\ wire[i + 1].kind = "answer" BY <3>1
    <3>4. /\ work[wire[i + 1].call] = -1
          /\ \A k \in 1..Len(wire) : i + 1 < k => wire[k].call # wire[i + 1].call
      BY <3>3 DEF TextInv, AnswerLast
    <3> QED BY <1>1, <3>1, <3>2, <3>4
  <2>4. PICK m \in Messages : m = Head(wire) /\ m = wire[1] BY <2>1, TailFacts
  <2>5. ~Quiet(m.call) /\ m.call \in Calls BY <2>1, <2>4, TailFacts DEF Quiet, Messages
  <2>6. caller[m.call] = "asking"
    BY <2>1, <2>5 DEF TextInv, Progress, Silence, TypeOK, CallType
  <2>7. CASE /\ m.kind = "chunk" /\ currentText' = currentText \cup {m.call}
             /\ UNCHANGED <<pending, chan>>
    <3>1. Silence' BY <1>1, <2>1, <2>2, <2>7 DEF TextInv, Silence
    <3>2. \A d \in Calls : caller'[d] = "asking" => currentText' \subseteq {d}
      BY <1>1, <2>5, <2>6, <2>7 DEF TextInv, OneAsker
    <3> QED BY <1>2, <2>1, <2>3, <3>1, <3>2 DEF TextInv
  <2>8. CASE /\ m.kind = "answer" /\ m.call \in pending /\ UNCHANGED currentText
             /\ chan' = [chan EXCEPT ![m.call] = "answer"]
    <3>1. Quiet(m.call)'
      <4>1. \A k \in 1..Len(wire') : wire'[k] = wire[k + 1] /\ k + 1 \in 2..Len(wire)
        BY <2>1, TailFacts
      <4>2. 1 \in 1..Len(wire) /\ \A k \in 2..Len(wire) : k \in 1..Len(wire) /\ 1 < k
        BY <2>1, TailFacts DEF TypeOK, ProcType
      <4> QED BY <1>1, <2>4, <2>8, <4>1, <4>2 DEF TextInv, AnswerLast, Quiet
    <3>2. send[m.call] \in {"registered", "waiting"} BY <2>8 DEF TextInv, ChanInv, Registered
    <3>3. send[m.call] = "waiting" BY <2>5, <3>2 DEF TextInv, Silence
    <3>4. Silence'
      BY <1>1, <2>1, <2>2, <2>5, <2>8, <3>1, <3>3 DEF TextInv, Silence, TypeOK, PipeType
    <3> QED BY <1>1, <1>2, <2>1, <2>3, <2>8, <3>4 DEF TextInv
  <2>9. CASE m.kind = "answer" /\ UNCHANGED <<pending, chan, currentText>>
    <3>1. Silence' BY <1>1, <2>1, <2>2, <2>9 DEF TextInv, Silence
    <3> QED BY <1>1, <1>2, <2>1, <2>3, <2>9, <3>1 DEF TextInv
  <2> QED BY <1>3, <2>4, <2>7, <2>8, <2>9 DEF ReadLine
<1>4. CASE ReadEnds
  <2>1. done' = TRUE /\ reader' = "failing" /\ UNCHANGED <<pending, chan, currentText, wire>>
    BY <1>4 DEF ReadEnds, procVars
  <2>2. AnswerLast' /\ \A d \in Calls : Quiet(d)' <=> Quiet(d) BY <1>1, <2>1, WireFrame
  <2>3. Silence' BY <1>1, <2>1, <2>2 DEF TextInv, Silence
  <2> QED BY <1>1, <1>2, <2>1, <2>2, <2>3 DEF TextInv
<1>5. CASE FailAllPending
  <2>1. /\ reader = "failing" /\ reader' = "ended" /\ UNCHANGED <<done, currentText, wire>>
        /\ chan' = [c \in Calls |-> IF c \in pending THEN "closed" ELSE chan[c]]
    BY <1>5 DEF FailAllPending, procVars
  <2>2. AnswerLast' /\ \A d \in Calls : Quiet(d)' <=> Quiet(d) BY <1>1, <2>1, WireFrame
  <2>3. Silence' BY <1>1, <2>1, <2>2 DEF TextInv, Silence
  <2> QED BY <1>1, <1>2, <2>1, <2>2, <2>3 DEF TextInv
<1> QED BY <1>3, <1>4, <1>5 DEF ReadLoop

(* The agent writes messages of prompts it has not answered.                *)
LEMMA ProcessText ==
  ASSUME TypeOK, TextInv, ChanInv', NEW c \in Calls, Stream(c) \/ Answer(c)
  PROVE  TextInv'
<1>1. /\ UNCHANGED <<send, caller, out, result, pending, chan, done, reader, currentText>>
      /\ work[c] >= 0
  BY DEF Stream, Answer, callVars, pipeVars, TypeOK, ProcType
<1>2. OneAsker' /\ OwnText' /\ Progress' BY <1>1 DEF TextInv, OneAsker, OwnText, Progress
<1>3. ~Quiet(c) BY <1>1 DEF Quiet
<1>4. PICK m \in Messages : wire' = Append(wire, m) /\ m.call = c
                             /\ (m.kind = "answer" => work'[c] = -1)
  BY DEF Stream, Answer, Chunk, Reply, Messages, TypeOK, ProcType
<1>5. \A d \in Calls \ {c} : work'[d] = work[d] BY DEF Stream, Answer, TypeOK, ProcType
<1>6. \A d \in Calls : Quiet(d) => Quiet(d)' BY <1>3, <1>4, <1>5, QuietAppend
<1>7. Silence' BY <1>1, <1>6 DEF TextInv, Silence
<1>8. AnswerLast'
  <2>1. Len(wire) \in Nat /\ wire \in Seq(Messages) BY DEF TypeOK, ProcType
  <2>2. /\ Len(wire') = Len(wire) + 1 /\ wire'[Len(wire')] = m
        /\ \A i \in 1..Len(wire) : wire'[i] = wire[i]
    BY <1>4, <2>1
  <2>3. \A i \in 1..Len(wire') : i \in 1..Len(wire) \/ i = Len(wire') BY <2>1, <2>2
  <2>4. \A i \in 1..Len(wire) : wire[i].kind = "answer" => wire[i].call \in Calls \ {c}
    <3> TAKE i \in 1..Len(wire)
    <3>1. wire[i] \in Messages BY <2>1
    <3>2. wire[i].call \in Calls BY <3>1 DEF Messages
    <3>3. wire[i].kind = "answer" => work[wire[i].call] = -1 BY DEF TextInv, AnswerLast
    <3> QED BY <1>1, <3>2, <3>3
  <2> SUFFICES ASSUME NEW i \in 1..Len(wire'), wire'[i].kind = "answer"
               PROVE  /\ work'[wire'[i].call] = -1
                      /\ \A k \in 1..Len(wire') : i < k => wire'[k].call # wire'[i].call
    BY DEF AnswerLast
  <2>5. CASE i \in 1..Len(wire)
    BY <1>4, <1>5, <2>2, <2>3, <2>4, <2>5 DEF TextInv, AnswerLast
  <2>6. CASE i = Len(wire')
    <3>1. \A k \in 1..Len(wire') : ~(i < k) BY <2>1, <2>2, <2>6
    <3> QED BY <1>4, <2>2, <2>6, <3>1
  <2> QED BY <2>3, <2>5, <2>6
<1> QED BY <1>1, <1>2, <1>7, <1>8 DEF TextInv

(* For every number of prompts and chunks: no prompt of the worker returns  *)
(* text of another one, when no command is sent past the worker.            *)
THEOREM TextsApart == OnlyWorker => (Spec => []OwnText)
<1> SUFFICES ASSUME OnlyWorker PROVE Spec => []OwnText OBVIOUS
<1>1. Init => TextInv
  BY DEF Init, TextInv, ChanInv, Begun, Registered, Delivered, ReaderNeverBlocks, CanDeliver,
         OneAsker, Progress, Silence, Quiet, AnswerLast, OwnText
<1>2. TypeOK /\ TypeOK' /\ TextInv /\ [Next]_vars => TextInv'
  <2> SUFFICES ASSUME TypeOK, TypeOK', TextInv, [Next]_vars PROVE TextInv' OBVIOUS
  <2>1. ChanInv' BY ChanStep DEF TextInv
  <2>2. ASSUME UNCHANGED <<callVars, pipeVars, work, wire, currentText>> PROVE TextInv'
    <3>1. UNCHANGED <<send, caller, out, result, pending, chan, done, reader, work, wire, currentText>>
      BY <2>2 DEF callVars, pipeVars
    <3>2. AnswerLast' /\ \A d \in Calls : Quiet(d)' <=> Quiet(d) BY <3>1, WireFrame
    <3>3. OneAsker' /\ Progress' /\ Silence' /\ OwnText'
      BY <3>1, <3>2 DEF TextInv, OneAsker, Progress, Silence, OwnText
    <3> QED BY <2>1, <3>1, <3>2, <3>3 DEF TextInv
  <2>3. CASE Started \/ OnExitFunc \/ ProcessExits \/ Stop \/ Wait \/ UNCHANGED vars
    BY <2>2, <2>3 DEF Started, OnExitFunc, ProcessExits, Stop, StopMark, StopSignal, StopReturn,
                      Wait, WaitReturns, WaitVerdict, vars, procVars
  <2> QED BY <2>1, <2>3, CallerText, SendText, ReaderText, ProcessText DEF Next
<1>3. TextInv => OwnText BY DEF TextInv
<1> QED BY TypeCorrect, <1>1, <1>2, <1>3, PTL DEF Spec
=============================================================================
