# TLA+ models of kiro-discord-bot

Models, model-checking runs and proofs for the Go program in `src/`: a Discord
bot that runs coding agents (child processes that speak ACP, JSON-RPC over
stdin and stdout) for channels and threads, schedules prompts, delegates work
between bots over NATS, and shares sessions through a web relay.

1. [What is modelled so far](#1-what-is-modelled-so-far)
2. [Inventory of the system](#2-inventory-of-the-system)
3. [The modules and the code](#3-the-modules-and-the-code)
4. [Runs, bounds and fairness](#4-runs-bounds-and-fairness)
5. [What is proved](#5-what-is-proved)
6. [Where the code departs from its documentation](#6-where-the-code-departs-from-its-documentation)
7. [What is not modelled](#7-what-is-not-modelled)
8. [Plan](#8-plan)

## 1. What is modelled so far

| Module | Models | Checked by |
| --- | --- | --- |
| `Worker` | the job worker of one target: queue, run loop, prompt callbacks, cancel / timeout / interrupt / stop escalation, deferred archive (`channel/worker.go`) | `MCWorker`, proofs in `WorkerProofs` |
| `Agent` | one agent process and its JSON-RPC transport: Send, ReadLoop, Stop, Wait (`acp/agent.go`, `acp/jsonrpc.go`) | `MCAgent`, proofs in `AgentProofs` |
| `Fleet` | which channel and thread owns which runtime, caps, capacity reclaim, exit callbacks, heartbeat tasks (`channel/manager.go`, `channel/capacity.go`, `heartbeat/`) | `MCFleet`, proofs in `FleetProofs` |
| `Cron` | scheduled jobs and one-time reminders: store, executions, handlers, files of the MCP server, restarts (`heartbeat/cron*.go`, `bot/handler_cron.go`) | `MCSchedule`, proofs in `ScheduleProofs` |
| `Monitor` | background monitors: leases in memory, run requests, evaluation against edits, confirmations (`heartbeat/monitor*.go`, `bot/handler_monitor.go`) | `MCSchedule`, proofs in `ScheduleProofs` |
| `Gateway` | the watchdog of the Discord connection (`heartbeat/gateway.go`) | `MCSchedule`, proofs in `ScheduleProofs` |
| `A2ATask` | a delegated task at both ends of a message bus: admission, controls, results, redelivery, restarts (`a2a/transport.go`, `a2a/task_store.go`, `channel/a2a.go`) | `MCA2A`, proofs in `A2AProofs` |
| `A2ADelegation` | the abstract specification that `A2ATask` implements | `MCA2A`, proofs in `A2AProofs` |
| `A2APolicy` | who may delegate to whom: policy rows, renames, confirmations, quotas (`internal/botmcp/a2a_tools.go`, `a2a/policy_store.go`) | `MCA2A`, proofs in `CollabProofs` |
| `A2APeers` | cards, heartbeats, the watcher and the peer table (`bot/a2a_discovery.go`, `a2a/discovery.go`, `a2a/card.go`) | `MCA2A`, proofs in `CollabProofs` |
| `WebShare` | a share from its link to its end: bot, relay, page and store (`bot/webshare_*.go`, `internal/websharerelay/`, `webshare/`) | `MCPlatform`, proofs in `PlatformProofs` |
| `Skills` | one skill of the store and its copy in the project (`internal/skills/`) | `MCPlatform`, proofs in `LedgerProofs` |
| `McpPolicy` | the policy of one MCP server and what the agents' proxies let through (`channel/mcp_policy.go`, `bot/mcp_components.go`) | `MCPlatform`, proofs in `PlatformProofs` |
| `Intake` | messages from their delivery to the queue, with the context of the discussion (`bot/handler.go`, `bot/discord_context.go`) | `MCPlatform`, proofs in `PlatformProofs` |
| `BotPeers` | several bots in one channel: who takes a message (`bot/peers.go`) | `MCPlatform`, proofs in `PlatformProofs` |
| `Egress` | what agents queue to be sent or remembered (`bot/safe_egress.go`, `internal/botegress/`) | `MCPlatform`, proofs in `LedgerProofs` |
| `Usage` | the usage ledger, its import and the spending limits (`channel/usage.go`) | `MCPlatform`, proofs in `LedgerProofs` |
| `Media` | the jobs of the media server (`cmd/mcp-media/`) | `MCPlatform`, proofs in `PlatformProofs` |
| `Audit` | the recorder of the audit log, its tables and their retention (`audit/`) | `MCPlatform`, proofs in `LedgerProofs` |

`PROJECT.json` lists the components, the runs, the mutant that each property
detects, the source lines of every definition, the hazards and the theorems.

`Worker`, `Agent` and `Fleet` are three views of one runtime. `Fleet` sees a
runtime as a process, an entry in a map and a number of accepted jobs. `Worker`
opens the job half of it (`HasWork` is `Fleet`'s `work > 0`, `Stop` and
`MarkThreadArchived` are what `Fleet` does to it, `onIdle` is `Fleet`'s
`JobDone`). `Agent` opens the process half (`Worker`'s `agent` and `conn`, and
its `Answer`, are what `Agent` explains). Two facts cross the seams: an agent that
is being stopped may still report its exit as unexpected (section 6), so `Fleet`
lets a stopped agent's exit callback fire (`ExitsAfterStop`, fault `lateIdle`);
and a job's end may miss a deferred close, so `Fleet`'s `JobDone` may, too.

The other modules sit around them. `Intake` ends where `Worker.EnqueueCount`
begins. `A2ATask`'s `a2aQueue` is a worker's queue reduced to whose job is current,
for `RunA2ATask` cancels whichever that is. `Egress` has the end of `Worker`'s job
in three steps (turn, drain, answer). `Cron` and `Monitor` run their prompts on
temporary agents, which no other module sees. `Usage` is the reason behind `Worker`'s
choice to reject a job. `McpPolicy` stops agents as `Fleet`'s restart does.

## 2. Inventory of the system

About 59,500 lines of Go outside tests. "State" is what survives between
operations; "correct when" is what a model of the part has to show. The parts
with a module come first, then the ones left out.

### Runtime core (modelled)

**Job worker** (`channel/worker.go`). State: the queue channel and its count,
the idle token, the current job (`currentJobActive`, `currentJobSeq`,
`cancelFn`, `currentJobDequeued`, `pendingInterruptSeq`), `onIdle`. Operations:
Enqueue, the run loop, execute for thread and inline jobs and the fallback,
OnComplete, the read-error callback, CancelCurrent, InterruptCurrent, the
timeout watcher and its escalations, Stop, HasWork. Interactions: the manager
enqueues and stops; the agent calls back from its own goroutines; the capacity
reclaim asks HasWork. Hard: four kinds of goroutines may end the same job; the
escalation decides under a lock and acts after it; the idle token is passed
between goroutines. Correct when one job runs at a time, no job is answered
twice, every started job ends, accepted work is visible to the reclaim, a
cancel hits the running job, and a stopped worker's loop ends. (That a started
job ends after a plain cancel is up to its agent: section 6.)

**ACP agent and transport** (`acp/agent.go`, `acp/jsonrpc.go`). State: the
process, the pending map and its response channels, `done`, the agent state
(idle, working, stopped), the shared `currentText`. Operations: AskAsyncMulti,
Ask, Send, ReadLoop, Interrupt, Stop, the Wait goroutine, session load, the
answers to permission requests, compaction waits. Hard: the end of the stream
against registration; delivery under the pending lock; a prompt that completes
while Stop runs. Correct when Send returns in every order, ReadLoop cannot
block, texts do not mix, Stop ends, and an unexpected exit, and only that, is
reported to a callback that was registered in time.

**Runtime manager and capacity** (`channel/manager.go`, `channel/capacity.go`).
State: the maps of channel agents and workers, of thread agents and temporary
agents, `closeWhenIdle`, the stored sessions. Operations: Enqueue,
EnqueueThread, Reset, Restart, StartAt, Resume, ResetThreadAgent,
SwitchModel, archive, RestartChannelRuntimes, capacity and thread-cap
enforcement, the exit callbacks. Hard: the exit callback runs later than the
exit; starts that fail after something was stopped; snapshots taken by the
heartbeat. Correct when no live process is lost, accepted work is not
reclaimed, and the caps hold.

**Heartbeat loop and runtime tasks** (`heartbeat/heartbeat.go`, `health.go`,
`channel_cleanup.go`, `thread_cleanup.go`) and their **bot adapters**
(`bot/*_adapter.go`). One goroutine runs the tasks in turn; a task takes a
snapshot through an adapter and then calls the manager target by target. Hard:
what it acts on may have changed since the snapshot.

**Session store** (`channel/session.go`). One JSON file, written whole. `Fleet`
keeps for each target whether nothing, a binding or a session is stored.

### Scheduled work (modelled)

**Cron scheduler and store** (`heartbeat/cron.go`, `cron_store.go`,
`bot/handler_cron.go`, `bot/cron_adapter.go`). State: a map of jobs in memory and
the same on disk, the set of running ids, files that the agents' MCP server leaves.
Hard: an execution and a handler work on a copy and write it back; one-shot jobs
and restarts; run-now beside the schedule. Correct when no job runs twice at a
time, an accepted reminder is sent once and as last edited, and a due job runs.

**Monitors** (`heartbeat/monitor.go`, `monitor_store.go`). An evaluation by an
agent that takes minutes, beside edits, pauses, deletions and run requests. Correct
when it undoes none of them, but those that come while its end is being written
(section 6), and a request is carried out.

**Gateway watchdog** (`heartbeat/gateway.go`). Attempts with a timeout whose
goroutine may end late, a count of failures, the exit. Correct when a stale
connection does not stay so.

### Collaboration of agents (modelled)

**A2A delegation in the manager** (`channel/a2a.go`), **runtime and admission**
(`a2a/admission.go`, `runtime.go`), **tasks and events** (`a2a/task_store.go`),
**transport** (`a2a/transport.go`, `streams.go`). A row per task on each side,
three streams with redelivery, reservations, goroutines that wait for a job's
result. Hard: an acknowledgement that is lost, a publication that fails after the
row was written, a cancel that overtakes its task, a restart with open tasks.
Correct when a task runs at most once, an end is final and the same on both
sides (but for runs that exceed their time, section 6), quotas hold and a
reservation is given back.

**A2A policy** (`internal/botmcp/a2a_tools.go`, `a2a/policy_store.go`,
`bot/a2a_commands.go`). Rows in one SQLite file that several processes read,
change and save; names that follow the channels' names. Correct when a grant
follows its peer and a confirmation sends once.

**A2A peers and discovery** (`bot/a2a_discovery.go`, `a2a/discovery.go`,
`peer_store.go`, `card.go`). Correct when every enabled runtime is found and served
in the end, and the table follows who is there.

### What surrounds a conversation (modelled)

**Discord intake** (`bot/handler.go`, `bot/discord_context.go`). State: the ids
seen lately, a cache of what the session was given. Hard: handlers are concurrent,
deliveries repeat, the session may be replaced between the steps of one handler.
Correct when a message becomes one job, and a session misses nothing but what was
in a job that was dropped.

**Peer bots and listen modes** (`bot/peers.go`, `channel/manager.go`). Each bot
decides alone, from a cache of permissions and from its own modes. Correct when a
message without a mention is taken by at most one, and a named one takes it.

**Egress** (`internal/botegress/`, `bot/safe_egress.go`, `internal/botmcp/server.go`)
and the **channel memory** (`channel/memory.go`). Files made by processes that run
beside the bot, worked off by three callers. Correct when nothing is sent twice
or lost but by a failure, and a job's answer comes after what its agent sent.

**MCP policy and proxy** (`channel/mcp_policy.go`, `bot/mcp_components.go`,
`mcpproxy/`) and the **setup of a directory** (`channel/cwd_setup.go`). Correct when
no agent that runs reaches more than the row allows.

**Web share** (`webshare/`, `bot/webshare_*.go`, `internal/websharerelay/`,
`webshare-web/`). Correct when a page's action takes effect at most once over
reconnects and restarts, with its record in the channel, and an ended share stays
ended.

**Skills** (`internal/skills/`). A store and files beside it, written one after the
other. Correct when no skill reaches an agent that nobody enabled, and the trail
of events accounts for the installs.

**Usage accounting and limits** (`channel/usage.go`). Correct when spending exceeds
a ceiling by no more than the turns that ran when it was reached, and the import of
the older ledger counts each line once, if the file does not change in between.

**Media MCP server** (`cmd/mcp-media/`). Correct when an end that was told stays so,
and a result's file is the job's own.

**Audit log** (`audit/recorder.go`, `store.go`). State: a bounded queue, two tables of
events, and tables of messages, attachments, reactions and threads that each event
changes. Hard: discordgo runs every handler in a goroutine, so a message's events are
recorded in any order; tables are pruned one by one while another process joins them.
Correct when the tables agree with the events that were recorded.

### Left out

**Compaction and context usage** (`acp/agent.go`, `channel/worker.go`): counters of
started and completed compactions and waiters with a timeout; planned.
**Text splitting** (`internal/discordfmt`, `internal/textutil`): pure functions; planned.
**Engine dialects** (tables), the **A2A object store**, the commands that only show
something, **progress and reactions**, **metadata and output modes**, **start-up and
retention** (wiring), cryptography, sanitizing, speech and locale.

## 3. The modules and the code

### Worker

One worker, a finite set of jobs, and the threads that touch it. Each has its
own program counter:

| Variable | Goroutine |
| --- | --- |
| `loop` | `Worker.run`: select, markJobDequeuedFromQueue, waitIdle, execute |
| `ask[j]` | the goroutine of `AskAsyncMulti` for job j, with OnComplete |
| `reader` | the transport's ReadLoop goroutine with the read-error callback |
| `user` | one `CancelCurrent` or `InterruptCurrent` |
| `watched`, `grace`, `verdict` | the timeout watcher and the two escalation timers of a job |

A critical section of `cancelMu` is one action, and what the code does between
two of them is another one: `UserRead` copies `cancelFn` and `UserAct` calls it;
`GraceEnds` decides under the lock and `Interrupt` acts after it; `EnqueueCount`
and `EnqueueSend` are the two halves of `Enqueue`. `ctx[j]` keeps the first
error of the job's context as Go does. `once[j]` is `finishOnce` of a thread
job (with the state in which its function is running, so that a second caller
waits) or the flag of `beginFinish` for an inline one. `idleCh` is the idle
channel of capacity one. A job's number (`currentJobSeq`) is the job itself,
because a job is executed at most once. The number of final replies and A2A
results is counted per job; their text is left out. The compaction before a
prompt succeeds or fails (`CompactOk`, `CompactFail`). An agent answers when
it likes, or when the transport is closed; the other side of that is `Agent`.

Callers of Enqueue, Stop and MarkThreadArchived hold the manager's mutex, so
an Enqueue is not interleaved with a Stop (`ManagerIdle`). With the fault
`archive` all jobs are follow-ups in a thread (`ArchiveAssumption`), since only
a thread agent's worker is archived.

### Agent

One process, one transport and a set of prompts. `wire` is what the process
has written and ReadLoop has not read; `pending` and `chan` are the transport's
map and the response channels of capacity one. `Send` has one action for each
point at which ReadLoop may interleave: fast path, registration, write,
receive or done. Delivery and `failAllPending` hold the pending lock, so each
is one action that can only happen when the channels it sends on are empty:
`ReaderNeverBlocks` says they are. `currentText` is the set of prompts whose
chunks are in the shared buffer; `OwnText` says of a worker's prompt that it returns no
chunk of another one, and exempts what a command brings in. `Stop` is split at the points where the code
takes `mu`, signals, and waits for `exited`. The Wait goroutine closes
`exited` and then reads the state and the callback under `mu`, in one action
(`WaitVerdict`). `owner` is who holds the agent: `StartAgent` during the handshake,
its caller, and then its caller with a callback set (`OnExitFunc`). The callback is
registered after `StartAgent` has returned, and never for a temporary agent, so an
exit may come before there is one: the verdict is then "unheard", nobody is told, and
the manager notices at its next look at `IsAlive`. `CrashReported` is about exits that
the Wait goroutine judges when the callback is set. The end of a handshake sets the
state to idle even if the process has just exited (`Started`).

Callers: a worker's prompts wait for each other (`Begin`'s second conjunct,
which `Worker`'s `OneRunning` justifies), and the prompts in `Commands` do not
(`Manager.SendCommandResult`).

### Fleet

One action is one hold of `Manager.mu`; the whole handler is in it, the reclaim
it triggers and the refusal that leaves what was stopped stopped. The pieces
are operators: `Stop` (worker, agent, entry), `Spawn`, `StartWith` (reclaim,
then spawn or be refused) and `StartCapped` (the thread cap around it). `entry`
stands for `m.agents` with `m.workers` and for `m.threadAgents`. `home` is the target
that a runtime's callbacks captured. `exit[a] = "pending"` is an `onExit`
callback that waits for the mutex. The heartbeat's `sweep` holds the snapshot
and the target that the health task has found dead. A runtime that is stopped
gives its identity back once its callback has run, so `Agents` bounds the
runtimes that exist at a time and not those that ever exist.
`orphans` and `lost` are history variables that only properties read.

Choices that stand for data: which idle runtimes are old enough, which of them
the pressure reclaims, whether a start fails. The order in which idle runtimes
are reclaimed (oldest first) is not kept: any of them may go.

The further modules share conventions. A store's write, a failing write, a lost or
repeated message and a restart are actions or alternatives of an action, bounded by a
constant (`...MaxFaults`, `...MaxEvents`, `...MaxChanges`). What a later read needs
to know is kept as data, the rest (text, names, times of day) is a member of a small
set. Variables called ghosts or history are read by properties and by no guard, except
where the list below says so.

### Cron, Monitor, Gateway

The handlers of Discord interactions run between two awaits as one step; where the
code reads a job, waits and writes, there are two (`cronHand`, `monHand`). An
execution is a slot with the copy it works on. Each write of `Cron` may fail and leaves
memory ahead of the disk, as the code does; `Monitor` takes the change back. When a
schedule is due next is a choice within the clock's bound. `Cron` writes the copy of
an execution or handler back whole, so an edit made meanwhile is lost, and a job
that was removed can come back: `raced` notes the jobs this happened to, and
`CronRemindOnce` and `CronSendsLastEdit` exempt them; that is the code's behaviour
(section 6), and the two properties say that nothing else goes wrong.
The end of an evaluation reads the monitor, merges what it found out and writes the
whole record back: `MonFinishRead` and `MonFinishJob` are two steps, and `seen` keeps what
was read. An edit, a pause, a run request or a deletion that comes between them is
undone; `MonKeepsEdits` exempts the write of such an execution (`MonRaced`) and says that
no other step of an evaluation undoes anything, although the tests name the promise
without it (`DoesNotResurrectDeletedInFlightJob`). The loop's own first write of a next run
(`MonFirstNext`, of a copy made at the start of the pass) is not an evaluation's and
may undo an edit as well.
A temporary agent is started in a step of its own (`CronAgentStarts`,
`MonAgentStarts`), which may never come: the start waits for the handshake before the
execution's timeout begins (`heartbeat/cron.go:250`, `heartbeat/monitor.go:196`).
`Gateway` keeps of time what `StaleReason` makes of it.

### A2ATask and A2ADelegation

One handler of a message is one step that records how far it came: whether the
row was written, whether the answer was published, whether the message was
acknowledged, or whether the bot stopped in between. That is sound since each
consumer handles one message at a time over one SQLite connection. The run of an
admitted task (`A2ARunStep`) is a goroutine with a step for each wait. The bus keeps a
message until it is acknowledged, delivers it up to `A2AMaxDeliver` times, in any
order, and drops a publication whose id it knows (`Nats-Msg-Id`, assumed). All tasks
are for one channel. Artifact events, which change no row, are left out; the
existing-row path of `AdmitA2ATask` cannot be reached through the transport and is not
modelled. A message that was acknowledged although the acknowledgement's call
returned an error is marked `stranded`: its task never runs and keeps its reservation
until a restart, and `A2ASettles` exempts it.

The end of a run is recorded with the run's own context. When that has expired, the
store refuses it and the error is dropped (`channel/a2a.go:312`, `:461-469`): the
executor's row stays open, the reservation is given back, and the end is published
under the revision it would have had (`A2ALapses`). This is what every timeout does
(`A2ARunTimeout`), and what a result or a refused enqueue does that comes when the time
is over. Such a task is in the ghost `late`. `A2AEndsAgree` says of the others that
both rows end alike, the delegator's after the executor's, and of these that the
executor's row does not end any more; only a control or a restart changes that
(`touched`).

`A2ADelegation` has three variables: what the executor decided, what it announced, what
the delegator believes. `A2ARefinesDelegation` is `DelSpec` under the mapping
`A2AWork`, `A2ASaid`, `A2AView` of rows and published messages: decisions are made
once, announcements follow what happened, and the delegator's view follows
announcements, through all redeliveries, restarts and lost publications. A fourth
variable, `lapsed`, has the tasks whose time was over before their end was recorded
(`late`): only their end may be announced without having been recorded.

### A2APolicy, A2APeers

A change of a policy row is a read and a later save (`polReq`), by processes that
share the file. `polOdd` becomes true when two changes overlapped or a change
named a peer by an old name; `PolGrantsFollow` is about the others. The first policy rows
are all absent or all enabled. Retired tools (PolicyPlan, SetTrusted) and a token that
the MCP tool asks for and does not consume are left out.

A pass of the heartbeat (`peerAdding`, `peerCards`) may run beside the pass of a command.
The watcher reads the bucket in order, ends at an entry it cannot read and starts again.
A card that cannot be built keeps back all cards of the bot, which `PeerFound`
says. A heartbeat is assumed to take longer than applying one entry.

### WebShare

One share of one opener and target (the store's unique index). Frames are numbered and
carry an action's id; sealing is what ties the number to the frame (`WebFrame`). The
host's loop, the relay's room and the page are three programs; a wire of frames lies
between them. Uploads go chunk by chunk. "connecting" and "disconnected" are statuses
nothing sets. Events for the page, download of attachments, the expiry of an
upload's reference and lockouts after wrong unlocks are left out.

### Skills

One name, its scopes, and up to two creations by processes that may be killed. Store
transactions are atomic, the copy in the project is written before the install and
undone after its failure. Permission checks happen outside of `internal/skills` and are
not modelled; neither are versions other than the first, which only tests create, and
usage records. The expiry of a draft counts as a failure of the install.

### McpPolicy

A change reads the row, waits, writes it and stops the channel's agents
(`mcpDo`). `McpFollowed` speaks of the time when no change is between its write and its
stop. The setup of a directory replaces the row and stops nobody: `mcpOld`
exempts the agents that ran then. The proxy is the set of tools it lets through;
its pipes and SSE sessions are left out.

### Intake, BotPeers

A handler (a message and which delivery of it) fetches files, reads the session's key,
builds the context and enqueues; others go on in between. What becomes of an accepted
job is chosen when it is enqueued, since the worker prompts in the order of its queue: it
gives its prompt to the session (`inGiven`), or it is dropped before its prompt (a stop,
a cancel, a failed start, the user's limit) and what was in it is lost to the session
(`inLost`), although the handler marks it as delivered all the same. When Discord does
not return the earlier messages, the prompt goes out without them (stage "blind"), and
they are not marked, so that a later prompt has them. `InMaxGaps` bounds how often one
of the two happens. `InDelivers` says that a prompt for which Discord answered brings every
earlier message with it that its session was not given and that no dropped job took
away; so a blind prompt leaves no gap for the next one, and a dropped job a gap of
exactly its own content. `InCacheTrue` says that the cache has nothing but what was
in prompts the queue took. The limits of 20 or 30 recent messages and of 80,000
characters are not reached, a reply's original (a fetch of its own) is left out, and an
older session is never resumed. `InEarlyResets` says whether a session may be
replaced before the cache has learned its key; the code has no guard against it, and
`InDelivers` and `InCacheTrue` do not hold then (section 6). The run has it FALSE and
shows that, with the two kinds of gap above, no third one is made.

A bot's decision on a message is one action for each bot, over its own cache of
permissions. `botsOdd` collects the bots that somebody told to listen or that were
mistaken about another bot's permissions. Bang commands, mentions of roles, peers
from the configuration and the order of the names in a message are left out.

### Egress, Usage, Media

`egHolder` is the mutex that the tick, a job's end and a remote result share; an
action takes effect (`EgProcess`) before its file is removed (`EgFinish`), so a failure
or a restart between the two repeats it, once per fault. An action that failed is
reported through the Discord that failed; the report may fail, too, and the file is
removed either way (`EgMiss`), and a file that cannot be parsed is removed without a word
(`EgDiscard`). Both are in `egLost`, and `EgDelivers` says that these are no more than
there were faults and that every other action is queued, done or reported. A report
without a channel does not occur: an action without one is refused before it is queued. A
message of several parts is sent as one; the refusals of audit and of a disabled egress are left out; the memory is
one store.

`Usage` has a day and a month; the week is a third sum of the same kind. The import
is one step per statement that can be the last one before a crash. While the bot is
down an older version may write to the file (`UsWrites`). If it does so after the lines
were counted and before the file was archived, the file has a new checksum and all its
lines are counted again: `usGrown` notes this, and `UsImportedOnce` exempts it. A ledger
that cannot be read allows the job (`UsUnread`), when it is enqueued and when it
begins; what such turns may cost is in `usOver`, and the ceilings hold up to it. The
users configured as game masters (`gmUserIDs`) have no ceiling and are not modelled.

`Media` has one kind of job (equal file extensions). Jobs are kept longer than their
deadline. `MedSameTick` says whether two results may be saved in one millisecond; the
file name has nothing else to tell them apart, `MedOwnFile` does not hold then, and
the run has it FALSE.

### Audit

An event is a kind and a message, and its time is its place in `auLog`, since one
goroutine takes the times (the clock of the machine is assumed not to go back). A
dropped event changes nothing, so that `AuEnqueue` has no alternative for it; an event
that was lost with the queue may be chosen again, which is the same as its coming late.
An event and its projection are one transaction (`AuRecord`, `AuRecordFails`); pruning is
one action per table (`AuPrune`), and the process may die between two. What is older than
the retention is a choice of `AuOpen`. Texts and their redaction, the filters of a query
and the emojis are left out: a message has one reaction. A reaction is as the last
event *recorded* left it, which may not be the last one that happened: unlike a
deletion, `added_at` and `removed_at` follow the order of the queue (`audit/store.go:507`).

## 4. Runs, bounds and fairness

| Run | Instance | What it shows |
| --- | --- | --- |
| `worker_threads` | two follow-ups of a thread, queue of one, crash, read error, cancel, timeout, stop, archive | `TypeOK`, `OneRunning`, `WorkVisible`, `CancelTarget`, `ArchiveDropsNothing` |
| `worker_answers` | a local job of a new thread and a remote inline job, read error, crash, interrupt | `AnsweredOnce` |
| `worker_live` | two jobs, one in its thread and one in a new one, timeouts, and a cancel or a stop, fair | `StartedFinishes`, `AcceptedResolves`, `StopEnds` |
| `agent` | two prompts of one chunk each, or a prompt and a command, all faults, fair | `TypeOK`, `ReaderNeverBlocks`, `OwnText`, `SendReturns`, `StopCompletes`, `CrashReported` |
| `fleet_runtimes` | a channel and two threads, two runtimes at a time, thread cap one, all faults | `TypeOK`, `Tracked`, `SparesWork`, `CapGuarded` |
| `schedule` | one job of each kind, one monitor, two executions of each, a restart, a failing write; the gateway with three attempts; fair | `SchedTypeOK`, `SchedOnce`, `CronReminders`, `SchedEdits`, `SchedServed` |
| `a2a` | two tasks, a quota of one, three deliveries; two channels with two names and three changes; two own runtimes and another bot's; fair | `CollabTypeOK`, `Quotas`, `A2ARunsOnce`, `PolGrants`, `A2AEndsFinal`, `A2ARefinesDelegation`, `A2ASettles` |
| `platform` | a share with one action and an upload of two chunks; two creations of a skill; two managers and two kinds of agents; three messages, two sessions, two deliveries; two bots; two queued actions, a user's edit and a fault; two workers of one user; two media jobs; a message's events, three of which are recorded, and a prune | `PlatTypeOK`, `WebActionsKept`, `WebEndedFinal`, `SkillsGoverned`, `McpFollowed`, `MessagesTaken`, `EgDelivers`, `LedgersKept`, `MediaJobs` |
| `worker_inline_read_error` | a thread job and an inline job, read error | `WorkVisible` violated |
| `a2a_timeout` | one task, two deliveries, one event | `A2ATimeoutsRecorded` violated |
| `mcp_removal` | two managers, two tools, three changes | `McpRemovalNarrows` violated |
| `memory_index` | a memory of two entries, two removals | `EgRemovesListed` violated |

`MCSchedule`, `MCA2A` and `MCPlatform` each hold several modules that share no
variable. Their product would say nothing more and be too large, so a behaviour
chooses at its start the part that moves, and the others keep an initial state: the
states add up instead of multiplying. A property of the run is the conjunction of
what the parts promise under one head (`Quotas`, `MediaJobs`, ...). A mutant is
found by the conjunct it breaks.

Why the bounds are enough to be interesting:

- Two jobs and a queue of one reach a full queue (while the loop still holds
  the first job in the channel), a job that waits for the token of another one,
  and callbacks of a finished job that run beside its successor. Those are the
  cases in which one job's end can hurt the next one; a third job adds no new
  neighbour. The invariants of both runs are also proved for every set of jobs and
  every capacity (section 5). The faults of a run are those that its
  properties turn on and that together finish within minutes: `interrupt` beside the
  archive, for one, gives ten million states and no new violation. For the same reason a
  behaviour of `worker_live` chooses at its start whether the cancel or the stop never comes,
  and one of `agent` whether the second prompt or the command.
  In `worker_answers` the thread job is local, since only such a job has a fallback; for
  one with an A2A result `AnsweredOnce` is proved (`AnswersOnce` is for every mix).
- Two prompts on one agent are one and its successor; one chunk each is enough
  to tell whose text a buffer holds.
- One channel and two threads of it with a cap of one reach a full cap, a
  reclaim of the other thread's runtime, a reset beyond the cap, and a cap that
  is already exceeded. With two runtimes for three targets, a start takes place
  while a dead runtime's callback is still pending. `RuntimeSymmetry` permutes
  the runtimes, which no action distinguishes; the run has no liveness property.
- Two executions and a handler are what it takes for one job to be run twice,
  and for a copy to be written over an edit; jobs do not touch each other but in the
  bound on events. `CronMaxTime` of two has a job become due, be overdue and be due
  again.
- Two tasks under a quota of one compete for the place; three deliveries let a task's
  message be seen again before and after its run. Two writers on two channels
  overlap in every order of reads and saves. Two callers of a pass race for one
  consumer.
- One action with a repeat, a reconnect and a restart is what a share's claims
  guard against; two chunks can be swapped, repeated or cut. Two creations of a skill
  race for one name. Two managers overlap in a change. Three messages and two deliveries
  let a prompt overtake an earlier one and one that was refused;
  one gap is followed by a prompt that must not widen it. Two bots are a message's
  taker and the other. Two actions and a fault let one be repeated beside the other.
  Four jobs of a user pass both ceilings while others wait. Two media jobs meet the
  limit of one. Three recorded events are a creation, a deletion and one that comes late,
  around a restart that prunes; as events come in any order, a queue of one loses nothing
  that a longer one has but the number of events that a crash takes with it.
- `MaxChunks`, `MaxWork` (which also stands for the queue's capacity: a full worker
  refuses) and the constants with `Max` in their names are the numeric bounds; each is
  in a guard.

`CHECK_DEADLOCK FALSE` is in every run but `fleet_runtimes`: there the system does
stop, when all jobs or prompts are over, an agent never answers and no fault that
would end its prompt is among the run's, or the bounded events are spent.
That nothing stops too early is what the liveness properties check.

Fairness is stated per goroutine and nowhere asks the environment for a fault
or an agent for an answer:

- `Worker`: the run loop, callbacks and started timers proceed (Go's scheduler
  and timers); an agent that is being stopped dies (Stop ends with SIGKILL,
  `acp/agent.go` 1339-1358), then ReadLoop ends, and then Send returns with an
  error (`Agent`'s `SendReturns` justifies the last step). A timeout that is
  among the faults does come, since a job's context has a deadline, unless the job
  was canceled before: `CancelCurrent` starts no escalation, and the timeout watcher
  returns at any end of the context (`channel/worker.go:400-409`, `:1150`). From then on
  nothing but the agent ends the prompt. `StartedFinishes` and `AcceptedResolves` exempt
  what a canceled prompt does that an agent which stays up never answers
  (`CanceledUnanswered`).
- `Agent`: each call's Send goroutine and ReadLoop proceed, Stop and Wait
  proceed, and a process that got SIGKILL exits. That `exited` lets ReadEnds
  happen is `cmd.Wait` closing the pipe. With a command `agent`
  streams no chunks: text plays no part in it.
- `Cron`, `Monitor`, `Gateway`: the heartbeat ticks, and an execution that has its agent
  ends, since the prompt has a timeout (`CronExecution`, `MonExecution`). That the agent
  starts is not assumed, for the handshake has no timeout: `CronDueRuns` and
  `MonRunServed` exempt the job of an execution that stays in its start for ever
  (`CronHangs`, `MonHangs`). That a monitor's file can be written now and then
  (`SF` of `MonWritten`) is asked of the disk: a run request stays while no
  write succeeds.
- `A2ATask`: the streams redeliver a task's message, the goroutines of a run proceed, and
  a run has a timeout, so that its reservation comes back, if its row does not end. That the
  channel's current job ends is not assumed. Nothing is asked of controls,
  of events or of the delegator.
- `A2APeers`: passes come with the heartbeat, a consumer can be opened in the end
  (`SF` of `PeerOpened`), entries and rows expire as time passes, and the watcher's
  loop goes on. Another bot that is up refreshes its card.

The modules of `platform` state no fairness and no liveness.

## 5. What is proved

Every invariant and every action property that a passing run checks is also a
theorem, and so is the refinement. TLC checks them on the instances of section 4; the
theorems hold for every value of the constants that meets the modules' named
assumptions, and rest only on those and on the hypothesis of the theorem where it has one.
There are four hypotheses, each about a behaviour that the code does show:

| Hypothesis | Theorems | Without it |
| --- | --- | --- |
| `SafeMix`: no inline jobs, or no read errors | `RunsAlone`, `WorkSeen`, `CancelAimed` | `worker_inline_read_error` |
| `OnlyWorker`: no slash command on a runtime whose prompt may run | `TextsApart` | section 6 |
| `~MedSameTick`: no two results are saved in one millisecond | `MedFiles`, `PlatMediaKept` | section 6 |
| `~InEarlyResets`: no session is replaced before the context cache has its key | `InTaken`, `PlatMessagesTaken` | section 6 |

The last two are constants, FALSE in `platform.cfg`, too.

### Worker, Agent, Fleet

**Worker** (`WorkerProofs`). `TypeCorrect`: types, and the queue never exceeds
its capacity. `RunsAlone`, `WorkSeen`, `CancelAimed`: `OneRunning`,
`WorkVisible` and `CancelTarget`, under `SafeMix`. None of the three is inductive. `IInv`
adds

- `Token`: at most one job occupies the idle token (the loop has taken it for the
  job, the job runs, or it has ended and its signal is still owed), and none does
  while the token is in the channel;
- `Queue`: `queuedJobs` is the length of the channel, plus one for a caller
  between count and send, plus one for a loop between receive and mark, and
  every queued job is there once;
- `Loop`, `Flags`: what the program counter says about the job's phase, and
  that the active flag and `currentJobSeq` are those of the running job;
- `Sharing`, `Finishing`: which of the run loop, OnComplete and the read-error
  callback may still end a job, given its `once`, and what each of them has
  claimed;
- `ReaderQuiet`: without read errors the callback never starts.

There is one lemma per action or group of actions (`EnqueueInv`, `SelectInv`,
`AdvanceInv`, `BeginInv`, `BodyInv`, `FinishInv`, `SignalInv`, `AnswerInv`,
`ReaderInv`, `QuietInv`), and `NextInv` puts them together.

`ArchiveSpares`: `ArchiveDropsNothing` for every mix. With archives all jobs are of a
thread, so `IInv` holds; `Archived` adds that a closed worker is stopped and that no
accepted job of it is unfinished, which rests on the deferred close's being decided
where the count of queued jobs and the active flag are both zero.

`AnswersOnce`: `AnsweredOnce`, without `SafeMix`. Where inline jobs meet read errors
`IInv` is false, yet no job is answered twice; so this proof has an invariant of its own,
`AnswerInvariant`, which does not speak of the token. It says who may still answer a job
(`Unanswered`): for an inline one whoever claims its finish first, for a thread job the
loop up to its finish and OnComplete after that; that neither has answered while one of
them may (`Answers`); and what keeps two of them from being at it together (`Passes`,
`Unshared`, with `Waits` for the channel: what is queued is queued once).

**Agent** (`AgentProofs`). `TypeCorrect`. `NeverBlocks`: `ReaderNeverBlocks`,
by an invariant that ties the pending map, the response channels and the place
of each call in Send. `TextsApart`: `OwnText` when there are no commands
(`OnlyWorker`), by an invariant that says that before a prompt's answer is
read, nothing on the wire, in the buffer or still to be streamed belongs to another
prompt: the answer is the last message of its prompt (`AnswerLast`), at most one
prompt is being asked (`OneAsker`), and a prompt that is over streams nothing,
or nobody reads the stream any more (`Silence`).

**Fleet** (`FleetProofs`). `TypeCorrect`; `AgentsTracked`: `Tracked`, with the
invariant that the entry of a target holds a runtime whose callbacks captured
that target (`Owned`, `Homed`); `WorkSpared`: `SparesWork`, since `lost` is
written afresh by every step, the choice of victims (`IdleHasNoWork`) and the
guards of Resume and MarkThreadArchived are all it needs. `CapKept`: `CapGuarded`, an
action property. A start counts the threads' entries that the stops before it leave
(`ThreadsLeft`): stopping more leaves fewer (`FewerLeft`), and the start adds one
entry (`SpawnLeaves`). The entries are finitely many because `Owned` makes them as few as
the runtimes (`LeftFinite`).

### Scheduled work (`ScheduleProofs`)

**Cron.** `CronInvariant` has the types, `CronSingleFlight` and `CronReminders`.
`CronFlights` says that whoever runs a job is alone and the job is in the running set.
Per job (`CronJobInv`): what was promised is in memory and on disk until it was sent
(`CronHeld`); all copies of a job, on disk, in an execution or in a handler's hands, are of
one kind (`CronOneKind`), so that a one-time job cannot become a repeated one by a
write-back; and unless somebody raced for it, a stored one-time job has not been sent or
is being sent by the one who runs it (`CronFresh`), who has its last edit (`CronLatest`).
The steps are first reduced to what they do to one job's copies (`CronWrites`,
`CronMakes`, `CronTouches`, ...), so that the handlers share their proofs. That a start keeps
overdue jobs due (`CronOverdueKept`) is a property of single steps.

**Monitor.** `MonInvariant`: `MonSingleFlight` and `MonConfirmOnce`, by the same flights and
by `MonSpent` (a confirmation that made a monitor is used up). `MonMerging` says what an
execution between its read and its write holds: the monitor as it read it, with the switch,
the revision and, unless the run was the requested one, the request as they were. That
makes `MonKeepsEdits` a property of single steps: a write whose monitor is still as it was
read changes none of these. It is proved with its exemption, as `SchedKeepsEdits`.
`MonNotifiesCurrent` follows from the types.
**Gateway.** Types only; what it promises is liveness.
`SchedTypes`, `SchedRunsOnce`, `SchedReminders` and `SchedKeepsEdits` carry these over to
`MCSchedule`, whose steps are one part's steps.

### Collaboration (`A2AProofs`, `CollabProofs`)

**A2ATask.** `A2AInvariant` is the invariant `IInv`. `Linked` ties the rows to what was
published: what is said of a task was decided, a reply answers a question that was
published, and what the delegator's row says it was told. `Reserved` and `Once` are for
the quota (`A2AQuotaCounts`) and for `A2AOnce`: a run that began has its key among the
started ones, and a task that was enqueued does not begin again while it holds its
reservation. `Kept` is what `A2AFinal` needs: of a task that no control and no restart
touched and that was not late, a run that has not ended is alone and finds the row as
it was when it began (`RunAlone`), every published end is the row's, and a
question that is on its way is either answered by a started run or still waited for (`Waits`). Without the last part a
late run could end a task a second time in another way, and the two sides would differ.
Of a task in `late` it says that the executor's row is open and nothing is left that
could end it (`Stuck`).
`A2AEndsStay` is the action property that no step undoes an end or takes a revision back.

`A2AImplements`: `A2ASpec` implements `A2ADelegation` under the mapping of section 3. A
step of one task moves the abstract delegation of that task only (`OneMoves`); then each
action maps to `DelDecide`, `DelClose`, `DelLapse`, `DelAnnounce`, `DelAsk`, `DelLearn` or
a stutter. An end that is about to be published is in the row or of a late run (`Backed`).

**A2APolicy.** `PolInvariant` is the inductive invariant `PolInv`. A change under way
carries the row it read together with what it gives and takes (`Pending`); a row that
accepts a runtime of this bot accepts it by its present id (`Current`), and `Follows`
relates rows and grants, both unless changes overlapped (`polOdd`). `Tickets`: a
confirmation is in the store, in one request's hands, or used. `Slack`: open tasks
and requests that were let through, together, exceed the quota by no more than the
writers, less one. `CollabGrants` and `CollabQuotas` follow. **A2APeers.** Types only
(`CollabTypes`); that a peer is found is liveness.

### Around the conversations (`PlatformProofs`, `LedgerProofs`)

**McpPolicy.** `McpFollows`: `McpFollowed` is inductive with the types, since an agent that
starts reads the row that is there and a change that wrote it counts as unanswered until
it has stopped the agents. **Media.** `MedTold`: a caller that was told an end finds it or
nothing, by `MedHangs`, which ties a job's goroutine, its status and its call; the limit
is a count of active jobs (`MedRoom`). `MedFiles`: a result's file is its own.
**Intake.** `InOnce`: of a message's deliveries at most one is on its way to the queue, and
none once there is a job; with `InKnows` (a block that was built and what the session's
queue took make up all that came before, and the cache has nothing else) it gives
`InTaken`; what is on its way as blind owes nothing.
**BotPeers.** `BotsOne`: a bot that took a message and was neither told nor mistaken was
alone with it or is named by it (`BotsTookRightly`), which needs what a bot noted when the
thread was created (`BotsNoted`).
**WebShare.** `WebEndsFinally`, an action property; `WebActs`: what an action did is in
order and its id is used up (`WebSafe`), and the file of an upload holds the chunks that
were counted, or the next chunk was tried and is not taken again (`WebCarries`).

**Egress.** `EgSettles`: `EgDelivers`. An action takes effect at most as often as there
were failures, and once more when its file is gone or about to go (`EgTries`); each one that
was made is settled or has its file, those that were lost are no more than the faults
(`EgLosses`), and a job that drains has in its list what it
queued for itself (`EgAccounts`). **Usage.** `UsLedger`: the ceilings hold because what is
recorded plus what the running turns may still cost stays under ceiling and slack
(`UsBudget`), where the slack grows with the turns that began while the ledger could not be
read; the import counts once because of how far each stage is (`UsImports`) and because
what is archived was counted or pruned (`UsCounted`). Both let the rows of a file stay that
was written to after its count (`UsLeft`).
**Audit.** `AuAgrees`: an event that was not pruned left its mark in its row, and the row
is as new as the event (`AuRowTrue`, `AuThreadTrue`, `AuReactionTrue`), and the tables are
pruned in the order in which they depend on each other (`AuTidy`). **Skills.**
`SkillInvariant`: the two promises with `SkillOne` (one text, of which every event but
a rejection tells); `SkillSaidMore` says what one more event adds to the trail.
`PlatMcpKept`, `PlatMediaKept`, `PlatMessagesTaken`, `PlatWebKept`, `PlatSkillsGoverned`,
`PlatDelivers`, `PlatLedgersKept` and `PlatTypes` carry all this over to
`MCPlatform`.

### Only model-checked

- Liveness: `StartedFinishes`, `AcceptedResolves`, `StopEnds`, `SendReturns`,
  `StopCompletes`, `CrashReported`, `SchedServed`, `A2ASettles`. The prover has no rule
  for fairness and ENABLED.
- The four statements that the code violates.

The prover needed a few assumptions of the modules besides the types of bounds: the values
for "none" differ from what they stand beside (`A2ANoneAssumption`, `PolNoneAssumption`,
`CronAbsentAssumption`, `MonAbsentAssumption`), a runtime belongs to one bot
(`PolForeignAssumption`), and sets that are counted are finite.

## 6. Where the code departs from its documentation

Four runs expect a violation; `PROJECT.json` quotes the line each one
contradicts.

1. `worker_inline_read_error`. The inline path finishes a job canceled before
   its prompt without `beginFinish` (`channel/worker.go:1846`), while the
   read-error callback that canceled it finishes it as well. The second finish
   clears the flags of the next job, and puts a second idle token back.
2. `mcp_removal`. Removing one tool from the list of a server that was disabled
   enables the server with the tools that are left (`channel/manager.go:1691`).
3. `memory_index`. A removal from the memory is queued with an index and applied to
   whatever entry has it later (`bot/safe_egress.go:160`).
4. `a2a_timeout`. The end of a delegated task that times out is recorded with the context
   that has just expired (`channel/a2a.go:312`): the store refuses, the error is dropped,
   and the row stays open while the delegator is told that the task was canceled.

More behaviours of the code are in the models or were met while writing them, and have
no run of their own. In the runtime core:

- An interrupt is decided under the lock and carried out after it
  (`channel/worker.go:488-497`), when the next job may be running. The same holds for a
  cancel: its function is read under the lock, and its notification sent later (`:400`).
- A cancel ends the job's context, and with it the watcher that would have enforced the
  timeout (`channel/worker.go:1150`). A prompt whose agent ignores the cancel has no bound
  then, nor have the jobs behind it; an interrupt or a stop ends it. The guide calls the
  timeout the maximum wait for a single request (`docs-site/docs/guide/environment.md:146`).
- A job that ends inside execute calls `signalIdle` before the deferred
  `markJobDequeued(false)`, so `onIdle` still sees work and a deferred archive is not
  carried out.
- A prompt that completes while Stop runs sets the state to idle, and the exit then
  counts as unexpected (`acp/agent.go:1200`, `:214`). The exit callback deletes the entry
  of its target, which may be the replacement's by now (`channel/manager.go:2793`):
  these are `Tracked`'s `orphans`.
- Resetting a thread that has only a stored session starts a runtime without asking for a
  slot (`channel/manager.go:4397`); `CapGuarded` is about the other starts.
- The idle tasks stop what their snapshot showed idle without asking for work
  (`channel/manager.go:4234`); the health task restarts what it found dead without
  looking again (`heartbeat/health.go:37`); a slash command is sent on an agent whose
  prompt may be running (`channel/manager.go:3392`), so their texts may mix.
- The exit callback is registered after the start (`acp/agent.go:773`): nobody is told of an
  exit before that.
- The start of an agent waits for its handshake without a timeout and under the manager's
  mutex (`channel/manager.go:2778`); a process whose transport has ended stays the
  target's agent (`acp/agent.go:196`); a compaction that timed out may complete late
  and satisfy the next one's wait (`acp/agent.go:1041`).

In the scheduled work:

- An execution writes its copy of the job back and undoes an edit, or a removal, made
  meanwhile (`heartbeat/cron.go:355`, ghost `raced`).
- The end of a monitor's evaluation undoes what comes between its read and its write, an
  edit, a pause and a run request as well as a deletion (`MonRaced`); the first
  write of a next run in the loop does so with what came after the pass began
  (`heartbeat/monitor.go:137`).
- The agent of a job or a monitor is started before the timeout of the execution begins
  (`heartbeat/cron.go:250`, `heartbeat/monitor.go:196`): if the handshake hangs, the job counts
  as running until the bot restarts.
- The watchdog counts failed attempts and gives up after some that a document calls
  consecutive (`docs-site/docs/guide/environment.md:176`). A failed attempt makes the
  link fresh for as long as it takes to become stale, and the next heartbeat, which finds
  it fresh, sets the count to zero (`heartbeat/gateway.go:88`): only a recovery that
  hangs ever counts up to the exit.

In the collaboration of agents:

- An acceptance whose publication failed is not published again when the message is
  delivered again (`a2a/transport.go:514`); the end of a task is published once
  (`:903`); when the end of a cancellation or a denial was written and its publication
  failed, the control is refused whenever it is delivered again (`:560`). Where the one
  publication failed, the delegator's row stays open.
- A result that comes when the time of its task is over may be taken all the same, and is
  then published and not recorded (`channel/a2a.go:308`, `:461`).
- `RunA2ATask` cancels the channel's current job, whichever it is, when its context ends
  (`channel/a2a.go:315`).
- A policy row has one mode for all its peers: to allow a peer of the other kind changes
  how the peers allowed before are served, although the command is said to allow "that
  exact runtime" (`docs-site/docs/guide/commands.md:94`).

Around the conversations:

- A session that is replaced before the context cache has learned its key is taken for the
  new one (`channel/manager.go:602-605` returns no key before there is a session, and
  the cache then keeps what it has): messages given to the old session are not given to
  the new one (`InEarlyResets`).
- An accepted message is marked as given to its session when it is queued
  (`bot/handler.go:892`); if its job is dropped before its prompt
  (`channel/worker.go:762`, `:1181`), no later prompt brings it (`inLost`).
- The report of a failed action may fail like the action, and a queued file that cannot be
  parsed is deleted; nobody hears of the action then (`bot/safe_egress.go:267`,
  `internal/botegress/actions.go:110`, `egLost`).
- A legacy usage file that changes between its count and its archive is counted again as
  a whole (`channel/usage.go:403-467`, `usGrown`); a spending limit that cannot be read allows
  the job (`channel/worker.go:716`, `usOver`).
- A create of a skill that is refused has overwritten the project's copy when the caller
  said so (`internal/skills/materialize.go:56`).
- Two results of one kind in one millisecond share a file name
  (`cmd/mcp-media/provider.go:68`, `MedSameTick`).
- A memory that could not be written stays changed in the bot until it restarts
  (`channel/memory.go`).
- The setup of a directory replaces a channel's policy row without stopping its agents,
  and overlapping changes of a row lose one (`channel/manager.go:1786`).

## 7. What is not modelled

In the runtime core: the ACP handshake, session load, permission requests,
modes and models; the compaction's counters; attachments, reactions, progress
and the wording of replies; temporary agents; the dynamic model
switch of a living agent; channel settings; how memory pressure is measured. A
start is one atomic step, although the code waits for the handshake under the
manager's mutex: nothing else happens meanwhile, which is
also why it would block every command. `Resume` of a live agent that is busy
with a command restarts it; `Fleet` has no commands in flight.

In the other modelled parts: what section 3 names module by module; the server side of
NATS, SQLite and Discord, which appear as what the code sees of them; permission checks of
Discord, which decide whether a handler runs at all; the commands that only show
something; what is said to people, except where a property counts it.

Not modelled at all, with the reason: engine dialects, locale, speech, redaction and
cryptography (tables and pure functions whose correctness is no matter of states);
the A2A object store and the retention of old files (one actor, plain I/O); the web
share page's interface; start-up and configuration (wiring). The compaction's waiters, the
metadata store and the splitting of long messages could be modelled and are in the plan.

## 8. Plan

1. `Compaction`: waiters and counters with a timeout; `ChannelMeta`: concurrent updates of the metadata file.
2. `Split`: the splitting of long messages as a function, checked against a
   reference definition over bounded inputs.
3. `WebShare`'s other direction: events for the page, their replay for a late guest, and
   the relay's queues at their limit.
