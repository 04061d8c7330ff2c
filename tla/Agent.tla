-------------------------------- MODULE Agent --------------------------------
(***************************************************************************)
(* One ACP agent process and its JSON-RPC transport (acp/agent.go,         *)
(* acp/jsonrpc.go): prompts go out through Send, ReadLoop delivers the     *)
(* answers and the streamed chunks, Stop kills the process, and the Wait   *)
(* goroutine tells a deliberate stop from an unexpected exit by looking at *)
(* the agent's state. A call is one prompt: its goroutine in Send (send)   *)
(* and its caller in AskAsyncMulti or Ask (caller). The model begins with  *)
(* the last answer of StartAgent's handshake.                              *)
(***************************************************************************)
EXTENDS Integers, Sequences, FiniteSets

CONSTANTS
  Calls,     \* the prompts sent to this agent
  Commands,  \* those of SendCommand: Ask with a context, and no look at who else is asking
  MaxChunks, \* bound: chunks the agent streams per prompt
  Faults     \* what the environment may do, a subset of AllFaults

AllFaults == {"crash", "readError", "stop", "ctxDone"}

ASSUME CommandsAssumption == Commands \subseteq Calls
ASSUME ChunksAssumption == MaxChunks \in Nat
ASSUME AgentFaultsAssumption == Faults \subseteq AllFaults

VARIABLES
  proc,      \* the child process: "running" or "exited"
  work,      \* [Calls -> Nat \cup {-1}]: chunks left to stream; -1: not the agent's
  wire,      \* stdout: chunks and answers written and not yet read
  pending,   \* the transport's pending map
  chan,      \* [Calls -> ...]: the response channel of capacity one
  done,      \* t.done is closed
  reader,    \* the ReadLoop goroutine
  send,      \* [Calls -> SendPc]: the goroutine in Send
  caller,    \* [Calls -> ...]: "new", "asking" or "returned"
  out,       \* [Calls -> SUBSET Calls]: whose chunks the returned text holds
  result,    \* [Calls -> ...]: how the call ended
  state, currentText,
  stop,      \* Stop: "no", "marked", "term", "returned"
  exited,    \* a.exited is closed
  onExit,    \* the Wait goroutine's verdict; "unheard": unexpected, no callback set
  owner      \* who holds the agent: StartAgent, its caller, and then with a callback set

callVars == <<send, caller, out, result>>
pipeVars == <<pending, chan, done, reader>>
procVars == <<proc, work, wire>>
lifeVars == <<stop, exited, onExit, owner>>
vars == <<callVars, pipeVars, procVars, lifeVars, state, currentText>>

SendPc == {"new", "begun", "entered", "registered", "waiting", "over"}
Chunk(c) == [kind |-> "chunk", call |-> c]
Reply(c) == [kind |-> "answer", call |-> c]
Messages == [kind : {"chunk", "answer"}, call : Calls]

Init ==
  /\ proc = "running" /\ wire = <<>> /\ work = [c \in Calls |-> -1]
  /\ pending = {} /\ chan = [c \in Calls |-> "empty"] /\ done = FALSE /\ reader = "scan"
  /\ send = [c \in Calls |-> "new"] /\ caller = [c \in Calls |-> "new"]
  /\ out = [c \in Calls |-> {}] /\ result = [c \in Calls |-> "none"]
  /\ state = "starting" /\ currentText = {} /\ owner = "handshake"
  /\ stop = "no" /\ exited = FALSE /\ onExit = "waiting"

-----------------------------------------------------------------------------
(* The end of the start.                                                   *)

(* StartAgent's last assignment, whatever the Wait goroutine wrote before. *)
Started ==
  /\ owner = "handshake" /\ owner' = "caller" /\ state' = "idle"
  /\ UNCHANGED <<stop, exited, onExit, currentText, callVars, pipeVars, procVars>>

(* The manager's callback; the agents of jobs and monitors never get one.  *)
OnExitFunc ==
  /\ owner = "caller" /\ owner' = "watched"
  /\ UNCHANGED <<stop, exited, onExit, state, currentText, callVars, pipeVars, procVars>>

-----------------------------------------------------------------------------
(* Callers. The worker prompts one job at a time; a command asks anyway.   *)

Outstanding == {c \in Calls : caller[c] = "asking"}

(* Mutant of Begin: the text of the previous prompt is not reset.          *)
BeginKeepsText(c) ==
  /\ owner # "handshake" /\ caller[c] = "new"
  /\ c \in Commands \/ Outstanding \subseteq Commands
  /\ caller' = [caller EXCEPT ![c] = "asking"]
  /\ send' = [send EXCEPT ![c] = "begun"]
  /\ state' = "working"
  /\ UNCHANGED <<currentText, out, result, pipeVars, procVars, lifeVars>>

Begin(c) ==
  /\ owner # "handshake" /\ caller[c] = "new"
  /\ c \in Commands \/ Outstanding \subseteq Commands
  /\ caller' = [caller EXCEPT ![c] = "asking"]
  /\ send' = [send EXCEPT ![c] = "begun"]
  /\ state' = "working" /\ currentText' = {}
  /\ UNCHANGED <<out, result, pipeVars, procVars, lifeVars>>

(* The prompt's goroutine is back from Send: take the text, become idle.   *)
Complete(c) ==
  /\ caller[c] = "asking" /\ send[c] = "over"
  /\ caller' = [caller EXCEPT ![c] = "returned"]
  /\ out' = [out EXCEPT ![c] = IF result[c] = "answer" THEN currentText ELSE {}]
  /\ state' = "idle"
  /\ UNCHANGED <<send, result, currentText, pipeVars, procVars, lifeVars>>

(* Ask gives up on ctx.Done; its Send goroutine stays behind.              *)
GiveUp(c) ==
  /\ "ctxDone" \in Faults /\ c \in Commands /\ caller[c] = "asking"
  /\ caller' = [caller EXCEPT ![c] = "returned"]
  /\ state' = "idle"
  /\ UNCHANGED <<send, out, result, currentText, pipeVars, procVars, lifeVars>>

-----------------------------------------------------------------------------
(* Transport.Send, one action per point where ReadLoop can interleave.     *)

End(c, how) ==
  /\ send' = [send EXCEPT ![c] = "over"] /\ result' = [result EXCEPT ![c] = how]

SendFastPath(c) ==
  /\ send[c] = "begun"
  /\ \/ done /\ End(c, "closed")
     \/ ~done /\ send' = [send EXCEPT ![c] = "entered"] /\ UNCHANGED result
  /\ UNCHANGED <<caller, out, state, currentText, pipeVars, procVars, lifeVars>>

SendRegister(c) ==
  /\ send[c] = "entered"
  /\ pending' = pending \cup {c} /\ send' = [send EXCEPT ![c] = "registered"]
  /\ UNCHANGED <<caller, out, result, chan, done, reader>>
  /\ UNCHANGED <<state, currentText, procVars, lifeVars>>

SendWrite(c) ==
  /\ send[c] = "registered"
  /\ \/ /\ proc = "running"
        /\ work' = [work EXCEPT ![c] = MaxChunks]
        /\ send' = [send EXCEPT ![c] = "waiting"] /\ UNCHANGED <<pending, result>>
     \/ /\ proc = "exited"                             \* write error
        /\ pending' = pending \ {c} /\ End(c, "closed") /\ UNCHANGED work
  /\ UNCHANGED <<caller, out, chan, done, reader, proc, wire, state, currentText, lifeVars>>

SendReceive(c) ==
  /\ send[c] = "waiting" /\ chan[c] # "empty"
  /\ End(c, chan[c]) /\ chan' = [chan EXCEPT ![c] = "empty"]
  /\ UNCHANGED <<caller, out, pending, done, reader>>
  /\ UNCHANGED <<state, currentText, procVars, lifeVars>>

(* Mutant of SendSeesDone: the select has no case for the closed transport. *)
SendIgnoresDone(c) ==
  /\ send[c] = "waiting" /\ done /\ chan[c] # "empty"
  /\ pending' = pending \ {c} /\ End(c, "closed")
  /\ UNCHANGED <<caller, out, chan, done, reader>>
  /\ UNCHANGED <<state, currentText, procVars, lifeVars>>

SendSeesDone(c) ==
  /\ send[c] = "waiting" /\ done
  /\ pending' = pending \ {c} /\ End(c, "closed")
  /\ UNCHANGED <<caller, out, chan, done, reader>>
  /\ UNCHANGED <<state, currentText, procVars, lifeVars>>

-----------------------------------------------------------------------------
(* ReadLoop: the lock on pending covers the lookup, the delete and the     *)
(* channel send, so a full channel would block ReadLoop inside the lock.   *)

CanDeliver(c) == chan[c] = "empty"

(* Mutant of ReadLine: a delivered answer stays in the pending map.        *)
ReadLineKeepsPending ==
  /\ reader = "scan" /\ wire # <<>>
  /\ wire' = Tail(wire)
  /\ LET m == Head(wire) IN
     \/ /\ m.kind = "chunk" /\ currentText' = currentText \cup {m.call} /\ UNCHANGED chan
     \/ /\ m.kind = "answer" /\ m.call \in pending /\ CanDeliver(m.call)
        /\ chan' = [chan EXCEPT ![m.call] = "answer"] /\ UNCHANGED currentText
     \/ /\ m.kind = "answer" /\ m.call \notin pending /\ UNCHANGED <<chan, currentText>>
  /\ UNCHANGED <<pending, done, reader, proc, work, state, callVars, lifeVars>>

ReadLine ==
  /\ reader = "scan" /\ wire # <<>>
  /\ wire' = Tail(wire)
  /\ LET m == Head(wire) IN
     \/ /\ m.kind = "chunk" /\ currentText' = currentText \cup {m.call}
        /\ UNCHANGED <<pending, chan>>
     \/ /\ m.kind = "answer" /\ m.call \in pending /\ CanDeliver(m.call)
        /\ pending' = pending \ {m.call} /\ chan' = [chan EXCEPT ![m.call] = "answer"]
        /\ UNCHANGED currentText
     \/ /\ m.kind = "answer" /\ m.call \notin pending
        /\ UNCHANGED <<pending, chan, currentText>>
  /\ UNCHANGED <<done, reader, proc, work, state, callVars, lifeVars>>

(* Scan stops: at end of file, at a line over the buffer's limit, or when  *)
(* cmd.Wait closes the pipe under it. doneErr is set and done is closed.   *)
ReadEnds ==
  /\ reader = "scan"
  /\ (proc = "exited" /\ wire = <<>>) \/ exited \/ "readError" \in Faults
  /\ done' = TRUE /\ reader' = "failing"
  /\ UNCHANGED <<pending, chan, state, currentText, callVars, procVars, lifeVars>>

FailAllPending ==
  /\ reader = "failing" /\ \A c \in pending : CanDeliver(c)
  /\ chan' = [c \in Calls |-> IF c \in pending THEN "closed" ELSE chan[c]]
  /\ pending' = {} /\ reader' = "ended"
  /\ UNCHANGED <<done, state, currentText, callVars, procVars, lifeVars>>

-----------------------------------------------------------------------------
(* The agent process: stream, answer, exit.                                *)

Stream(c) ==
  /\ proc = "running" /\ work[c] > 0
  /\ work' = [work EXCEPT ![c] = @ - 1] /\ wire' = Append(wire, Chunk(c))
  /\ UNCHANGED <<proc, state, currentText, callVars, pipeVars, lifeVars>>

Answer(c) ==
  /\ proc = "running" /\ work[c] >= 0
  /\ work' = [work EXCEPT ![c] = -1] /\ wire' = Append(wire, Reply(c))
  /\ UNCHANGED <<proc, state, currentText, callVars, pipeVars, lifeVars>>

ProcessExits ==
  /\ proc = "running" /\ (stop = "term" \/ "crash" \in Faults)
  /\ proc' = "exited"
  /\ UNCHANGED <<work, wire, state, currentText, callVars, pipeVars, lifeVars>>

-----------------------------------------------------------------------------
(* Stop (once): mark, signal down to SIGKILL, wait for a.exited. The Wait  *)
(* goroutine closes a.exited, then reads the state.                        *)

(* Mutant of StopMark: a state of its own, which nobody else tests for.    *)
StopMarkStopping ==
  /\ "stop" \in Faults /\ stop = "no" /\ owner # "handshake"
  /\ stop' = "marked" /\ state' = "stopping"
  /\ UNCHANGED <<exited, onExit, owner, currentText, callVars, pipeVars, procVars>>

StopMark ==
  /\ "stop" \in Faults /\ stop = "no" /\ owner # "handshake"
  /\ stop' = "marked" /\ state' = "stopped"
  /\ UNCHANGED <<exited, onExit, owner, currentText, callVars, pipeVars, procVars>>

(* Mutant of StopSignal: it trusts the state, which a prompt may overwrite. *)
StopSignalIfStopped ==
  /\ stop = "marked" /\ state = "stopped" /\ stop' = "term"
  /\ UNCHANGED <<exited, onExit, owner, state, currentText, callVars, pipeVars, procVars>>

StopSignal ==
  /\ stop = "marked" /\ stop' = "term"
  /\ UNCHANGED <<exited, onExit, owner, state, currentText, callVars, pipeVars, procVars>>

StopReturn ==
  /\ stop = "term" /\ exited /\ stop' = "returned"
  /\ UNCHANGED <<exited, onExit, owner, state, currentText, callVars, pipeVars, procVars>>

WaitReturns ==
  /\ proc = "exited" /\ ~exited
  /\ exited' = TRUE
  /\ UNCHANGED <<stop, onExit, owner, state, currentText, callVars, pipeVars, procVars>>

(* Mutant of WaitVerdict: an exit counts only while a prompt is under way. *)
WaitVerdictIfWorking ==
  /\ exited /\ onExit = "waiting"
  /\ onExit' = IF state # "working" THEN "quiet"
                ELSE IF owner = "watched" THEN "fired" ELSE "unheard"
  /\ state' = "stopped"
  /\ UNCHANGED <<stop, exited, owner, currentText, callVars, pipeVars, procVars>>

WaitVerdict ==
  /\ exited /\ onExit = "waiting"
  /\ onExit' = IF state = "stopped" THEN "quiet"
                ELSE IF owner = "watched" THEN "fired" ELSE "unheard"
  /\ state' = "stopped"
  /\ UNCHANGED <<stop, exited, owner, currentText, callVars, pipeVars, procVars>>

-----------------------------------------------------------------------------
Send(c) ==
  SendFastPath(c) \/ SendRegister(c) \/ SendWrite(c) \/ SendReceive(c) \/ SendSeesDone(c)
ReadLoop == ReadLine \/ ReadEnds \/ FailAllPending
Stop == StopMark \/ StopSignal \/ StopReturn
Wait == WaitReturns \/ WaitVerdict

Next ==
  \/ Started \/ OnExitFunc \/ ReadLoop \/ ProcessExits \/ Stop \/ Wait
  \/ \E c \in Calls : Begin(c) \/ Send(c) \/ Complete(c) \/ GiveUp(c) \/ Stream(c) \/ Answer(c)

Spec == Init /\ [][Next]_vars

(* Goroutines run; ReadLoop reads what there is and sees the end of file;  *)
(* SIGKILL works. The agent owes no answer and the faults are not owed.    *)
Fairness ==
  /\ WF_vars(ReadLine) /\ WF_vars(FailAllPending) /\ WF_vars(exited /\ ReadEnds)
  /\ WF_vars(stop = "term" /\ ProcessExits) /\ WF_vars(StopSignal \/ StopReturn) /\ WF_vars(Wait)
  /\ \A c \in Calls : WF_vars(Send(c)) /\ WF_vars(Complete(c))

FairSpec == Spec /\ Fairness

-----------------------------------------------------------------------------
(* Properties.                                                             *)

(* Types of the state.                                                     *)
CallType ==
  /\ send \in [Calls -> SendPc] /\ caller \in [Calls -> {"new", "asking", "returned"}]
  /\ out \in [Calls -> SUBSET Calls] /\ result \in [Calls -> {"none", "answer", "closed"}]
PipeType ==
  /\ pending \subseteq Calls /\ chan \in [Calls -> {"empty", "answer", "closed"}]
  /\ done \in BOOLEAN /\ reader \in {"scan", "failing", "ended"}
ProcType ==
  /\ proc \in {"running", "exited"} /\ wire \in Seq(Messages)
  /\ work \in [Calls -> -1..MaxChunks]
LifeType ==
  /\ stop \in {"no", "marked", "term", "returned"} /\ exited \in BOOLEAN
  /\ onExit \in {"waiting", "fired", "quiet", "unheard"}
  /\ owner \in {"handshake", "caller", "watched"}
  /\ state \in {"starting", "idle", "working", "stopped"} /\ currentText \subseteq Calls

TypeOK == CallType /\ PipeType /\ ProcType /\ LifeType

(* ReadLoop never blocks on a response channel while it holds the pending  *)
(* lock: whatever is in the map has an empty channel, also when a response *)
(* and the end of the stream race.                                         *)
ReaderNeverBlocks == \A c \in pending : CanDeliver(c)

(* A prompt's text holds no chunk of another prompt: "Caller must not reuse*)
(* the agent until OnComplete fires or IsBusy() returns false"             *)
(* (agent.go:1175) is what keeps the shared currentText apart. Commands do *)
(* not keep to it: their chunks, and a prompt's in theirs, are exempt.     *)
OwnText == \A c \in Calls \ Commands : out[c] \ Commands \subseteq {c}

(* Send returns once the transport is closed, wherever the close falls     *)
(* between its fast path, the registration and the wait.                   *)
SendReturns == \A c \in Calls : (done /\ send[c] # "new") ~> send[c] = "over"

(* Once a Stop has begun it returns and the process is gone, whatever the  *)
(* prompts do: the manager waits for this while it holds its mutex.        *)
StopCompletes == stop = "marked" ~> (stop = "returned" /\ proc = "exited")

(* An exit that nobody asked for reaches the callback, whatever the        *)
(* prompts make of the state, if the callback is set before the Wait       *)
(* goroutine looks for it. An exit before that is told to nobody           *)
(* ("unheard"); the manager's next look at IsAlive finds the dead agent.   *)
CrashReported ==
  (owner = "watched" /\ onExit = "waiting" /\ proc = "exited" /\ stop = "no")
    ~> (onExit = "fired" \/ stop # "no")

=============================================================================
