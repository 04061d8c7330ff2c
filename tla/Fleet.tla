-------------------------------- MODULE Fleet --------------------------------
(***************************************************************************)
(* The manager's fleet of agent runtimes (channel/manager.go,              *)
(* channel/capacity.go) and the heartbeat tasks that stop or restart them  *)
(* (heartbeat/health.go, channel_cleanup.go, thread_cleanup.go): which     *)
(* channel and which thread owns which agent process and worker, the caps  *)
(* on their number, who may drop accepted work, and the exit callbacks     *)
(* that run when the manager's mutex is free again. An action is one       *)
(* critical section of Manager.mu; a runtime is one acp.Agent and its      *)
(* Worker, whose inside is the modules Agent and Worker.                   *)
(***************************************************************************)
EXTENDS Naturals, FiniteSets

CONSTANTS
  Channels, Threads,  \* the targets: Discord channels and threads
  Parent,             \* [Threads -> Channels]
  Agents,             \* bound: the runtimes that can exist at a time
  Null,               \* no map entry, no target
  ThreadAgentMax,     \* THREAD_AGENT_MAX; 0 means no cap
  MaxWork,            \* accepted, unfinished jobs a worker can hold
  Faults              \* what the environment may do, a subset of AllFaults

AllFaults == {"crash", "lateIdle", "pressure"}
Targets == Channels \cup Threads

ASSUME TargetsAssumption ==
  Channels \cap Threads = {} /\ Null \notin Targets /\ Parent \in [Threads -> Channels]
ASSUME AgentsAssumption == Null \notin Agents /\ IsFiniteSet(Agents)
ASSUME BoundsAssumption == ThreadAgentMax \in Nat /\ MaxWork \in Nat \ {0}
ASSUME FleetFaultsAssumption == Faults \subseteq AllFaults

VARIABLES
  entry,    \* [Targets -> Agents \cup {Null}]: m.agents with m.workers, and m.threadAgents
  proc,     \* [Agents -> {"unused", "up", "dead"}]: the process
  home,     \* [Agents -> Targets \cup {Null}]: the target its callbacks captured
  exit,     \* [Agents -> {"none", "pending"}]: an onExit callback waits for the mutex
  work,     \* [Agents -> 0..MaxWork]: HasWork is work > 0
  closeWhenIdle, \* the thread runtimes archived while they had work
  saved,    \* [Targets -> {"none", "bound", "session"}]: the stored session
  sweep,    \* the heartbeat task under way: its snapshot and what it condemned
  orphans,  \* history: live runtimes whose entry another one's exit removed
  lost      \* history: why live runtimes lost accepted work in the last step;
            \* "user", "idle" and "health" stops ask for no work and may lose it

vars == <<entry, proc, home, exit, work, closeWhenIdle, saved, sweep, orphans, lost>>

HasWork(a) == work[a] > 0
Alive(t) == entry[t] # Null /\ proc[entry[t]] = "up"
Busy(t) == entry[t] # Null /\ HasWork(entry[t])
EntryOf(T) == {entry[t] : t \in T} \ {Null}
NoSweep == [task |-> "none", listed |-> {}, doomed |-> Null]

Init ==
  /\ entry = [t \in Targets |-> Null]
  /\ proc = [a \in Agents |-> "unused"] /\ home = [a \in Agents |-> Null]
  /\ exit = [a \in Agents |-> "none"] /\ work = [a \in Agents |-> 0]
  /\ closeWhenIdle = {} /\ saved = [t \in Targets |-> "none"]
  /\ sweep = NoSweep /\ orphans = {} /\ lost = {}

-----------------------------------------------------------------------------
(* Stopping runtimes: worker.Stop, agent.Stop, delete the entry.           *)

(* agent.Stop marks the state "stopped"; a prompt that completes before    *)
(* the process is gone marks it "idle" again, and the exit then counts as  *)
(* unexpected (Answer and WaitVerdict in Agent).                           *)
ExitsAfterStop(a) ==
  {exit[a]} \cup {e \in {"pending"} : "lateIdle" \in Faults /\ HasWork(a) /\ proc[a] = "up"}

LosesWork(S) == \E a \in S : HasWork(a) /\ proc[a] = "up"

(* The runtimes D are stopped for the reason why, and S is reclaimed.      *)
Stopping(D, S, why) ==
  /\ exit' \in [Agents -> {"none", "pending"}]
  /\ \A a \in Agents : exit'[a] \in IF a \in D \cup S THEN ExitsAfterStop(a) ELSE {exit[a]}
  /\ lost' = {r \in {why} : LosesWork(D)} \cup {r \in {"reclaim"} : LosesWork(S)}
  /\ closeWhenIdle' = closeWhenIdle \ (D \cup S)

Killed(S) == [a \in Agents |-> IF a \in S THEN "dead" ELSE proc[a]]
Emptied(S) == [a \in Agents |-> IF a \in S THEN 0 ELSE work[a]]
Removed(S) == [t \in Targets |-> IF entry[t] \in S THEN Null ELSE entry[t]]

(* stopChannel, stopThreadAgentLocked and their in-line copies.            *)
Stop(D, S, why) ==
  /\ Stopping(D, S, why)
  /\ proc' = Killed(D \cup S) /\ work' = Emptied(D \cup S) /\ entry' = Removed(D \cup S)
  /\ UNCHANGED <<home, orphans>>

-----------------------------------------------------------------------------
(* Starting runtimes.                                                      *)

Fresh(b) ==
  proc[b] # "up" /\ exit[b] = "none" /\ work[b] = 0 /\ b \notin EntryOf(Targets)

(* A fresh runtime b for t holding n jobs. The process may already be gone *)
(* before OnExitFunc is registered: then nobody is told.                   *)
Spawn(t, b, n, D, S, why) ==
  /\ Fresh(b)
  /\ Stopping(D, S, why)
  /\ \E p \in {"up"} \cup {q \in {"dead"} : "crash" \in Faults} :
       proc' = [Killed(D \cup S) EXCEPT ![b] = p]
  /\ work' = [Emptied(D \cup S) EXCEPT ![b] = n]
  /\ entry' = [Removed(D \cup S) EXCEPT ![t] = b]
  /\ home' = [home EXCEPT ![b] = t]
  /\ saved' = [saved EXCEPT ![t] = "session"]
  /\ orphans' = orphans \ {b}

(* Mutant of Idle: every other runtime may be reclaimed.                   *)
IdleOrBusy(t, T) == EntryOf(T \ {t})

(* The runtimes that may be reclaimed for t: other targets', without work. *)
Idle(t, T) == EntryOf({u \in T \ {t} : ~Busy(u)})

ThreadsLeft(D) == {u \in Threads : entry[u] # Null /\ entry[u] \notin D}
(* Mutant of Room: off by one.                                             *)
RoomForOneMore(D) == ThreadAgentMax = 0 \/ Cardinality(ThreadsLeft(D)) <= ThreadAgentMax

Room(D) == ThreadAgentMax = 0 \/ Cardinality(ThreadsLeft(D)) < ThreadAgentMax

(* ensureThreadAgentLimitSlotLocked, D being gone already: one idle thread *)
(* runtime after the other is closed until a slot is free (the oldest      *)
(* first in the code, any here); empty when there are not enough of them.  *)
SlotVictims(t, D) ==
  IF Room(D) THEN {{}}
  ELSE {S \in SUBSET Idle(t, Threads) :
          Cardinality(ThreadsLeft(D \cup S)) = ThreadAgentMax - 1}

(* ensureAgentCapacityLocked: under host pressure any number of the idle   *)
(* runtimes that are left is reclaimed.                                    *)
PressureVictims(t, D) ==
  IF "pressure" \in Faults THEN SUBSET (Idle(t, Targets) \ D) ELSE {{}}

(* Start a runtime for t, D being t's old one. kept is what is stored when *)
(* the start is refused: no slot, no capacity, or StartAgent failed. What  *)
(* was stopped on the way stays stopped.                                   *)
Refused(t, D, S, why, kept) == Stop(D, S, why) /\ saved' = [saved EXCEPT ![t] = kept]

StartWith(t, n, D, slots, why, kept) ==
  \E S \in slots : \E P \in PressureVictims(t, D \cup S) :
    \/ \E b \in Agents : Spawn(t, b, n, D, S \cup P, why)
    \/ Refused(t, D, S \cup P, why, kept)

StartCapped(t, n, D, why, kept) ==
  \/ StartWith(t, n, D, SlotVictims(t, D), why, kept)
  \/ SlotVictims(t, D) = {} /\ Refused(t, D, Idle(t, Threads) \ D, why, kept)

-----------------------------------------------------------------------------
(* Mutant of Enqueue: the worker's queue has no bound.                     *)
EnqueueUnbounded(t) ==
  \/ /\ Alive(t)
     /\ work' = [work EXCEPT ![entry[t]] = @ + 1] /\ lost' = {}
     /\ UNCHANGED <<entry, proc, home, exit, closeWhenIdle, saved, sweep, orphans>>
  \/ /\ ~Alive(t) /\ UNCHANGED sweep
     /\ IF t \in Channels THEN StartWith(t, 1, EntryOf({t}), {{}}, "dead", saved[t])
                          ELSE StartCapped(t, 1, EntryOf({t}), "dead", saved[t])

(* Jobs. Enqueue and EnqueueThread find a live runtime or start one.       *)

Enqueue(t) ==
  \/ /\ Alive(t) /\ work[entry[t]] < MaxWork       \* a full queue refuses: no change
     /\ work' = [work EXCEPT ![entry[t]] = @ + 1] /\ lost' = {}
     /\ UNCHANGED <<entry, proc, home, exit, closeWhenIdle, saved, sweep, orphans>>
  \/ /\ ~Alive(t) /\ UNCHANGED sweep
     /\ IF t \in Channels THEN StartWith(t, 1, EntryOf({t}), {{}}, "dead", saved[t])
                          ELSE StartCapped(t, 1, EntryOf({t}), "dead", saved[t])

(* A job ends. The onIdle callback of a thread's worker closes the entry of *)
(* its thread after a deferred archive, or misses it when the job ended     *)
(* inside execute, when currentJobDequeued still makes HasWork TRUE.        *)
JobDone(a) ==
  /\ HasWork(a)
  /\ LET mine == EntryOf({home[a]} \cap Threads) IN
     \/ /\ work' = [work EXCEPT ![a] = @ - 1] /\ lost' = {}
        /\ UNCHANGED <<entry, proc, home, exit, closeWhenIdle, saved, orphans>>
     \/ /\ mine # {} /\ mine \subseteq closeWhenIdle
        /\ \A b \in mine : work[b] = IF b = a THEN 1 ELSE 0
        /\ lost' = {} /\ exit' = exit /\ closeWhenIdle' = closeWhenIdle \ mine
        /\ proc' = Killed(mine) /\ entry' = Removed(mine)
        /\ work' = [work EXCEPT ![a] = @ - 1]
        /\ UNCHANGED <<home, orphans, saved>>
  /\ UNCHANGED sweep

-----------------------------------------------------------------------------
(* Commands.                                                               *)

Reset(c) ==
  /\ Stop(EntryOf({c}), {}, "user")
  /\ saved' = [saved EXCEPT ![c] = IF @ = "none" THEN @ ELSE "bound"]
  /\ UNCHANGED sweep

(* Restart, StartAt and the restart of SwitchModel.                        *)
Restart(c) ==
  /\ StartWith(c, 0, EntryOf({c}), {{}}, "user", IF saved[c] = "none" THEN "none" ELSE "bound")
  /\ UNCHANGED sweep

(* Resume and ResumeThreadAgent: not while there is work, nothing to do    *)
(* when the agent lives; the slot is not checked when t's own entry frees it. *)
Resume(t) ==
  /\ saved[t] = "session" /\ ~Busy(t) /\ ~Alive(t)
  /\ IF t \in Threads /\ entry[t] = Null
       THEN StartCapped(t, 0, {}, "resume", saved[t])
       ELSE StartWith(t, 0, EntryOf({t}), {{}}, "resume", saved[t])
  /\ UNCHANGED sweep

(* Mutant of ResetThread: the old runtime is replaced, not stopped.        *)
ResetThreadKeepsOld(t) ==
  /\ entry[t] # Null \/ saved[t] # "none"
  /\ StartWith(t, 0, {}, {{}}, "user", IF saved[t] = "none" THEN "none" ELSE "bound")
  /\ UNCHANGED sweep

(* resetThreadAgentWithModel: an entry or a stored parent is enough.       *)
ResetThread(t) ==
  /\ entry[t] # Null \/ saved[t] # "none"
  /\ StartWith(t, 0, EntryOf({t}), {{}}, "user", IF saved[t] = "none" THEN "none" ELSE "bound")
  /\ UNCHANGED sweep

StopThreadAgent(t) ==
  /\ entry[t] # Null
  /\ Stop(EntryOf({t}), {}, "user") /\ UNCHANGED <<saved, sweep>>

MarkThreadArchived(t) ==
  /\ entry[t] # Null
  /\ \/ /\ Busy(t) /\ closeWhenIdle' = closeWhenIdle \cup {entry[t]} /\ lost' = {}
        /\ UNCHANGED <<entry, proc, home, exit, work, orphans>>
     \/ ~Busy(t) /\ Stop(EntryOf({t}), {}, "archive")
  /\ UNCHANGED <<saved, sweep>>

(* The channel's runtime and those of its threads.                         *)
RestartChannelRuntimes(c) ==
  /\ Stop(EntryOf({c} \cup {t \in Threads : Parent[t] = c}), {}, "user")
  /\ UNCHANGED <<saved, sweep>>

-----------------------------------------------------------------------------
(* Processes exit; the callback runs when it gets the mutex and looks up   *)
(* the target it captured, not the agent it belongs to.                    *)

Crash(a) ==
  /\ "crash" \in Faults /\ proc[a] = "up"
  /\ proc' = [proc EXCEPT ![a] = "dead"] /\ exit' = [exit EXCEPT ![a] = "pending"]
  /\ lost' = {}
  /\ UNCHANGED <<entry, home, work, closeWhenIdle, saved, sweep, orphans>>

OnExit(a) ==
  /\ exit[a] = "pending"
  /\ exit' = [exit EXCEPT ![a] = "none"]
  /\ entry' = [entry EXCEPT ![home[a]] = Null]
  /\ LET gone == EntryOf({home[a]}) IN
     /\ orphans' = orphans \cup {b \in gone : proc[b] = "up"}
     /\ IF home[a] \in Channels                          \* the channel's worker is stopped too
          THEN /\ work' = Emptied(gone)
               /\ lost' = {r \in {"exit"} : LosesWork(gone)}
          ELSE lost' = {} /\ UNCHANGED work
  /\ UNCHANGED <<proc, home, closeWhenIdle, saved, sweep>>

-----------------------------------------------------------------------------
(* The heartbeat runs one task at a time: a snapshot under the mutex, then *)
(* one call per target, each taking the mutex again.                       *)

NoRuntimeChanges ==
  lost' = {} /\ UNCHANGED <<entry, proc, home, exit, work, closeWhenIdle, saved, orphans>>

SweepBegin(task, T) ==
  /\ sweep.listed = {}
  /\ sweep' = [task |-> task, listed |-> T, doomed |-> Null] /\ NoRuntimeChanges

HealthBegin == SweepBegin("health", {c \in Channels : entry[c] # Null})

(* Idle for long enough is a matter of time: any of them may be.           *)
IdleChannelsBegin == \E T \in SUBSET {c \in Channels : entry[c] # Null} : SweepBegin("idle", T)
IdleThreadsBegin ==
  \E T \in SUBSET {t \in Threads : entry[t] # Null /\ ~Busy(t)} : SweepBegin("idle", T)

(* StopIdleChannel and StopThreadAgent, for what the snapshot showed idle. *)
StopIdle(t) ==
  /\ sweep.task = "idle" /\ t \in sweep.listed
  /\ sweep' = [sweep EXCEPT !.listed = @ \ {t}]
  /\ Stop(EntryOf({t}), {}, "idle") /\ UNCHANGED saved

CheckAgent(c) ==
  /\ sweep.task = "health" /\ sweep.doomed = Null /\ c \in sweep.listed
  /\ sweep' = IF Alive(c) THEN [sweep EXCEPT !.listed = @ \ {c}] ELSE [sweep EXCEPT !.doomed = c]
  /\ NoRuntimeChanges

RestartAgent(c) ==
  /\ sweep.task = "health" /\ sweep.doomed = c
  /\ sweep' = [sweep EXCEPT !.listed = @ \ {c}, !.doomed = Null]
  /\ StartWith(c, 0, EntryOf({c}), {{}}, "health", IF saved[c] = "none" THEN "none" ELSE "bound")

-----------------------------------------------------------------------------
Heartbeat ==
  \/ HealthBegin \/ IdleChannelsBegin \/ IdleThreadsBegin
  \/ \E t \in Targets : StopIdle(t)
  \/ \E c \in Channels : CheckAgent(c) \/ RestartAgent(c)

Next ==
  \/ \E t \in Targets : Enqueue(t) \/ Resume(t)
  \/ \E c \in Channels : Reset(c) \/ Restart(c) \/ RestartChannelRuntimes(c)
  \/ \E t \in Threads : ResetThread(t) \/ StopThreadAgent(t) \/ MarkThreadArchived(t)
  \/ \E a \in Agents : JobDone(a) \/ Crash(a) \/ OnExit(a)
  \/ Heartbeat

Spec == Init /\ [][Next]_vars

-----------------------------------------------------------------------------
(* Properties.                                                             *)

(* Types of the state.                                                     *)
TypeOK ==
  /\ entry \in [Targets -> Agents \cup {Null}] /\ home \in [Agents -> Targets \cup {Null}]
  /\ proc \in [Agents -> {"unused", "up", "dead"}] /\ exit \in [Agents -> {"none", "pending"}]
  /\ work \in [Agents -> 0..MaxWork]
  /\ closeWhenIdle \subseteq Agents /\ orphans \subseteq Agents
  /\ saved \in [Targets -> {"none", "bound", "session"}]
  /\ sweep \in [task : {"none", "health", "idle"}, listed : SUBSET Targets,
                doomed : Targets \cup {Null}]
  /\ lost \subseteq {"reclaim", "dead", "user", "resume", "archive", "exit", "idle", "health"}

(* A live process is the entry of its target, whatever starts, refusals,   *)
(* stops, reclaims and crashes happened: every path that replaces a runtime *)
(* stops it, and the exit callbacks are the only source of leaked agents.  *)
Tracked == \A a \in Agents : proc[a] = "up" => entry[home[a]] = a \/ a \in orphans

(* "active work is not evicted by capacity cleanup" (architecture.md:42);  *)
(* nor is it by Resume, by archiving or with the callback of an exited one. *)
SparesWork == lost \cap {"reclaim", "resume", "archive", "dead"} = {}

(* The cap on thread runtimes: a message and a resume never go past it,    *)
(* also when a reset has already, and whatever was reclaimed on the way.   *)
ThreadCount == Cardinality(ThreadsLeft({}))
CapGuarded ==
  [][ThreadAgentMax # 0 /\ ThreadCount' > ThreadCount /\ ThreadCount' > ThreadAgentMax
       => \A t \in Targets : ~Enqueue(t) /\ ~Resume(t)]_vars
=============================================================================
