------------------------------- MODULE Egress -------------------------------
(* What an agent says and remembers through the bot's own tools. A tool    *)
(* runs in a process of its own and leaves a file for each thing that the  *)
(* bot shall do: send a message, send an image fetched for it, change the  *)
(* channel's memory. The bot works the files off in the order they were    *)
(* made: all of them at each heartbeat, those of one target before a job's *)
(* final answer and after a remote task's result. One mutex holds the      *)
(* workers apart; files, memory and the target of the current job are on   *)
(* disk and outlive the process.                                           *)
EXTENDS Naturals, Sequences, SequencesExt, FiniteSets

CONSTANTS
  EgTargets,       \* the channel and its threads
  EgChannel,       \* the channel, which owns the memory
  EgEntries,       \* what a memory entry may say
  EgNone,
  EgMaxActions,    \* bounds the files
  EgMaxEdits,      \* bounds the users' own changes of the memory
  EgMaxFaults      \* bounds the failures and restarts

ASSUME EgAssumption ==
  EgChannel \in EgTargets /\ EgNone \notin EgTargets \cup EgEntries
  /\ IsFiniteSet(EgEntries) /\ EgMaxActions \in Nat /\ EgMaxEdits \in Nat /\ EgMaxFaults \in Nat

VARIABLES
  egPending,   \* the files; their names tell their order
  egMade,      \* how many were made: their names
  egTarget,    \* the target-state file that a tool's process reads
  egJob,       \* the target of the job that runs
  egPhase,     \* how far it is
  egLate,      \* may a tool of a job that was given up still run?
  egRemote,    \* the target of a remote task's result being delivered
  egHolder,    \* who holds the mutex
  egLeft,      \* what is left of the list its holder read
  egAt,        \* what it does with the first of them
  egStaged,    \* the fetched images that are still on disk
  egDone,      \* how often each action took effect
  egTold,      \* the actions whose failure was told
  egLost,      \* those that failed and were not told of, or whose file could not be read
  egCache,     \* the memory in the bot
  egDisk,      \* the memory's file
  egListed,    \* the memory as the agent last listed it
  egEdits, egFaults
egMem == <<egCache, egDisk>>
egVars == <<egPending, egMade, egTarget, egJob, egPhase, egLate, egRemote, egHolder, egLeft, egAt,
            egStaged, egDone, egTold, egLost, egCache, egDisk, egListed, egEdits, egFaults>>

EgIds == 1 .. EgMaxActions
EgKinds == {"message", "file", "image", "add", "remove", "clear"}
(* An action names its target; `own` says that an agent queued it in its   *)
(* turn; `means` is the entry that the agent saw at the index it names, or *)
(* the one it adds.                                                        *)
EgActions == [id : EgIds, kind : EgKinds, to : EgTargets, index : Nat,
              means : EgEntries \cup {EgNone}, own : BOOLEAN]

EgTypeOK ==
  /\ egPending \subseteq EgActions /\ egLeft \subseteq EgActions
  /\ egMade \in 0 .. EgMaxActions /\ egTarget \in EgTargets \cup {EgNone}
  /\ egJob \in EgTargets \cup {EgNone} 
  /\ egPhase \in {"none", "turn", "drain", "draining", "answer"} /\ egLate \in BOOLEAN
  /\ egRemote \in EgTargets \cup {EgNone} /\ egHolder \in {"free", "tick", "job", "remote"}
  /\ egAt \in {"process", "remove"} /\ egStaged \subseteq EgIds
  /\ egDone \in [EgIds -> 0 .. 2 + EgMaxFaults] /\ egTold \subseteq EgIds /\ egLost \subseteq EgIds
  /\ egEdits \in 0 .. EgMaxEdits /\ egFaults \in 0 .. EgMaxFaults

(* A memory of an earlier run is on disk.                                  *)
EgInit ==
  /\ egPending = {} /\ egMade = 0 /\ egTarget = EgNone /\ egJob = EgNone /\ egPhase = "none" /\ egLate = FALSE
  /\ egRemote = EgNone /\ egHolder = "free" /\ egLeft = {} /\ egAt = "process"
  /\ egStaged = {} /\ egDone = [i \in EgIds |-> 0] /\ egTold = {} /\ egLost = {} /\ egCache = EgNone
  /\ egDisk = SetToSeq(EgEntries)
  /\ egListed = <<>> /\ egEdits = 0 /\ egFaults = 0

-----------------------------------------------------------------------------
(* A call that fails, or none.                                             *)
EgOk == UNCHANGED egFaults
EgFails == egFaults < EgMaxFaults /\ egFaults' = egFaults + 1

(* The memory: read from disk once, changed in the bot and then written;   *)
(* a write that fails leaves the bot ahead of the file.                    *)
EgMemory == IF egCache = EgNone THEN egDisk ELSE egCache
EgSave(entries) ==
  /\ egCache' = entries
  /\ \/ EgOk /\ egDisk' = entries
     \/ EgFails /\ UNCHANGED egDisk
EgAdd(entry) == EgSave(Append(EgMemory, entry))
EgDrop(index) ==
  IF index \in DOMAIN EgMemory THEN EgSave(RemoveAt(EgMemory, index))
  ELSE egCache' = EgMemory /\ EgOk /\ UNCHANGED egDisk
EgClear == EgSave(<<>>)

(* A user's command changes the memory at once, whatever is queued.        *)
EgUserEdit ==
  /\ egEdits < EgMaxEdits /\ egEdits' = egEdits + 1
  /\ \/ \E e \in EgEntries : EgAdd(e)
     \/ \E i \in DOMAIN EgMemory : EgDrop(i)
     \/ EgClear
  /\ UNCHANGED <<egPending, egMade, egTarget, egJob, egPhase, egLate, egRemote, egHolder, egLeft, egAt, egStaged, egDone, egTold, egLost, egListed>>

-----------------------------------------------------------------------------
(* A job binds the tools to its target, and its agent's turn begins.       *)
EgStart(t) ==
  /\ egPhase = "none"
  /\ egJob' = t /\ egPhase' = "turn" /\ egTarget' = t /\ egListed' = <<>>
  /\ UNCHANGED <<egPending, egMade, egLate, egRemote, egHolder, egLeft, egAt, egStaged, egDone, egTold, egLost, egCache, egDisk, egEdits, egFaults>>

(* A tool's process runs in the agent's turn, and when the job was given   *)
(* up it may run a while longer, into the next job.                        *)
EgWorking == egPhase = "turn" \/ egLate
EgAction(kind, to, index, means, own) ==
  [id |-> egMade + 1, kind |-> kind, to |-> to, index |-> index, means |-> means, own |-> own]
EgQueue(action) ==
  /\ egMade < EgMaxActions /\ egMade' = egMade + 1
  /\ egPending' = egPending \cup {action}
  /\ UNCHANGED <<egTarget, egJob, egPhase, egLate, egHolder, egLeft, egAt, egDone, egTold, egLost, egCache, egDisk, egListed, egEdits, egFaults>>

(* What is sent goes to the target that the file names when the tool runs, *)
(* or to the channel; a change of the memory belongs to the channel.       *)
EgSendTo == IF egTarget # EgNone THEN egTarget ELSE EgChannel
EgSend ==
  /\ EgWorking
  /\ EgQueue(EgAction("message", EgSendTo, 0, EgNone, egPhase = "turn"))
  /\ UNCHANGED <<egRemote, egStaged>>
EgSendFile ==
  /\ EgWorking
  /\ EgQueue(EgAction("file", EgSendTo, 0, EgNone, egPhase = "turn"))
  /\ UNCHANGED <<egRemote, egStaged>>
(* An image of some address is fetched, and kept until it has been sent.   *)
EgStage == egStaged' = egStaged \cup {egMade + 1}
EgSendImage ==
  /\ EgWorking
  /\ EgQueue(EgAction("image", EgSendTo, 0, EgNone, egPhase = "turn"))
  /\ EgStage /\ UNCHANGED egRemote

EgList ==
  /\ EgWorking /\ egListed # egDisk /\ egListed' = egDisk
  /\ UNCHANGED <<egPending, egMade, egTarget, egJob, egPhase, egLate, egRemote, egHolder, egLeft, egAt, egStaged, egDone, egTold, egLost, egCache, egDisk, egEdits, egFaults>>

EgQueueMemory(kind, index, means) == EgQueue(EgAction(kind, EgChannel, index, means, FALSE))
EgChangeMemory ==
  /\ EgWorking
  /\ \/ \E e \in EgEntries : EgQueueMemory("add", 0, e)
     \/ \E i \in DOMAIN egListed : EgQueueMemory("remove", i, egListed[i])
     \/ EgQueueMemory("clear", 0, EgNone)
  /\ UNCHANGED <<egRemote, egStaged>>

(* The turn ends, with an answer or with the agent's error; or the job is  *)
(* given up while its agent still works.                                   *)
EgTurnEnds ==
  /\ egPhase = "turn" /\ egPhase' = "drain"
  /\ (EgOk /\ UNCHANGED egLate) \/ (EgFails /\ egLate' = TRUE)
  /\ UNCHANGED <<egPending, egMade, egTarget, egJob, egRemote, egHolder, egLeft, egAt, egStaged, egDone, egTold, egLost, egCache, egDisk, egListed, egEdits>>

(* The final answer is sent and the target-state file removed.             *)
EgAnswer ==
  /\ egPhase = "answer" /\ egPhase' = "none" /\ egJob' = EgNone /\ egTarget' = EgNone
  /\ UNCHANGED <<egPending, egMade, egLate, egRemote, egHolder, egLeft, egAt, egStaged, egDone, egTold, egLost, egCache, egDisk, egListed, egEdits, egFaults>>

EgQuiet ==
  /\ egLate /\ egLate' = FALSE
  /\ UNCHANGED <<egPending, egMade, egTarget, egJob, egPhase, egRemote, egHolder, egLeft, egAt, egStaged, egDone, egTold, egLost, egCache, egDisk, egListed, egEdits, egFaults>>

(* The result of a remote task is queued for the thread it was asked in.   *)
EgRemoteResult(t) ==
  /\ egRemote = EgNone /\ egRemote' = t
  /\ EgQueue(EgAction("message", t, 0, EgNone, FALSE)) /\ UNCHANGED egStaged

-----------------------------------------------------------------------------
(* Mutant of EgMayEnter: several work off the files at a time.             *)
EgEnterAnytime == TRUE

(* The workers. A list is read under the mutex.                            *)
EgMayEnter == egHolder = "free"
EgFor(t) == {a \in egPending : a.to = t}
EgEnter(holder, list) ==
  /\ EgMayEnter
  /\ egHolder' = IF list = {} THEN "free" ELSE holder
  /\ egLeft' = list /\ egAt' = "process"
  /\ UNCHANGED <<egPending, egMade, egTarget, egJob, egLate, egStaged, egDone, egTold, egLost, egCache, egDisk, egListed, egEdits>>

EgTick == egPending # {} /\ EgEnter("tick", egPending) /\ UNCHANGED <<egPhase, egRemote, egFaults>>
EgJobDrains ==
  /\ egPhase = "drain"
  /\ EgEnter("job", EgFor(egJob))
  /\ egPhase' = IF EgFor(egJob) = {} THEN "answer" ELSE "draining"
  /\ UNCHANGED <<egRemote, egFaults>>
EgRemoteDrains ==
  /\ egRemote # EgNone
  /\ EgEnter("remote", EgFor(egRemote))
  /\ egRemote' = IF EgFor(egRemote) = {} THEN EgNone ELSE egRemote
  /\ UNCHANGED <<egPhase, egFaults>>

(* ReadPending removes a file that it cannot parse and says nothing.       *)
EgDiscard(action) ==
  /\ EgMayEnter /\ EgFails
  /\ egPending' = egPending \ {action} /\ egLost' = egLost \cup {action.id}
  /\ UNCHANGED <<egMade, egTarget, egJob, egPhase, egLate, egRemote, egHolder, egLeft, egAt, egStaged, egDone, egTold, egCache, egDisk, egListed, egEdits>>

(* A file is sent as a copy: an image as it is, a text without its         *)
(* secrets, a document as the text that could be extracted; what is none   *)
(* of them or too large is refused, and so is what is no longer there.     *)
EgExtracted == BOOLEAN
EgCopied(action) == IF action.kind = "image" THEN {action.id \in egStaged} ELSE EgExtracted
EgReady(action) == IF action.kind = "message" THEN {TRUE} ELSE EgCopied(action)

(* One action takes effect, or its failure is told: what Discord refuses   *)
(* in the place it was meant for, an index out of range or a memory that   *)
(* cannot be written in the audit log. The word of a failure may fail too, *)
(* for the same reason as the action, and then nobody knows.               *)
EgHead == CHOOSE a \in egLeft : \A b \in egLeft : a.id <= b.id
EgEffect == egDone' = [egDone EXCEPT ![EgHead.id] = @ + 1] /\ UNCHANGED <<egTold, egLost>>
EgTell == egTold' = egTold \cup {EgHead.id} /\ UNCHANGED <<egDone, egLost>>
EgMiss == egLost' = egLost \cup {EgHead.id} /\ UNCHANGED <<egDone, egTold>>
EgSends ==
  /\ EgHead.kind \in {"message", "file", "image"} /\ UNCHANGED egMem
  /\ \E ready \in EgReady(EgHead) :
       \/ EgOk /\ IF ready THEN EgEffect ELSE EgTell
       \/ EgFails /\ (EgMiss \/ (ready /\ EgTell))
EgChanges ==
  /\ \/ EgHead.kind = "add" /\ EgAdd(EgHead.means)
     \/ EgHead.kind = "remove" /\ EgDrop(EgHead.index)
     \/ EgHead.kind = "clear" /\ EgClear
  /\ IF egFaults' = egFaults /\ ~(EgHead.kind = "remove" /\ EgHead.index \notin DOMAIN EgMemory)
     THEN EgEffect ELSE EgTell
EgProcess ==
  /\ egHolder # "free" /\ egAt = "process" /\ egAt' = "remove"
  /\ EgSends \/ EgChanges
  /\ UNCHANGED <<egPending, egMade, egTarget, egJob, egPhase, egLate, egRemote, egHolder, egLeft, egStaged, egListed, egEdits>>

(* Its file is removed, or not; its image in any case. The last one done,  *)
(* the mutex is free and who drained goes on.                              *)
EgWithout(list) == {a \in list : a.id # EgHead.id}
EgFinish ==
  /\ egHolder # "free" /\ egAt = "remove" /\ egAt' = "process"
  /\ \/ EgOk /\ egPending' = EgWithout(egPending)
     \/ EgFails /\ UNCHANGED egPending
  /\ egStaged' = egStaged \ {EgHead.id} /\ egLeft' = EgWithout(egLeft)
  /\ LET over == egLeft' = {} IN
       /\ egHolder' = IF over THEN "free" ELSE egHolder
       /\ egPhase' = IF over /\ egHolder = "job" THEN "answer" ELSE egPhase
       /\ egRemote' = IF over /\ egHolder = "remote" THEN EgNone ELSE egRemote
  /\ UNCHANGED <<egMade, egTarget, egJob, egLate, egDone, egTold, egLost, egCache, egDisk, egListed, egEdits>>

(* The bot restarts: what was on disk is all there is.                     *)
EgRestart ==
  /\ EgFails
  /\ egJob' = EgNone /\ egPhase' = "none" /\ egLate' = FALSE /\ egRemote' = EgNone
  /\ egHolder' = "free" /\ egLeft' = {} /\ egAt' = "process" /\ egCache' = EgNone /\ egListed' = <<>>
  /\ UNCHANGED <<egPending, egMade, egTarget, egStaged, egDone, egTold, egLost, egDisk, egEdits>>

EgNext ==
  \/ \E t \in EgTargets : EgStart(t) \/ EgRemoteResult(t)
  \/ \E a \in egPending : EgDiscard(a)
  \/ EgUserEdit \/ EgSend \/ EgSendFile \/ EgSendImage \/ EgList \/ EgChangeMemory \/ EgTurnEnds \/ EgAnswer \/ EgQuiet
  \/ EgTick \/ EgJobDrains \/ EgRemoteDrains \/ EgProcess \/ EgFinish \/ EgRestart

EgSpec == EgInit /\ [][EgNext]_egVars

-----------------------------------------------------------------------------
(* Whatever is worked off at the same time, and whatever restarts: no      *)
(* action takes effect twice, but for a failure or a restart before its    *)
(* file was gone; each is still queued, done, reported or lost, and lost   *)
(* are no more than there were failures: of Discord, when it was to take   *)
(* the action or the word of its failure, or of a file; and when a job's   *)
(* final answer is due, nothing that its agent queued for the same place   *)
(* is still to come.                                                       *)
EgSettled(id) == egDone[id] > 0 \/ id \in egTold \/ id \in egLost
EgDelivers ==
  /\ \A id \in EgIds : egDone[id] <= 1 + egFaults
  /\ \A id \in 1 .. egMade : EgSettled(id) \/ \E a \in egPending : a.id = id
  /\ Cardinality(egLost) <= egFaults
  /\ egPhase = "answer" =>
       \A a \in egPending : a.own /\ a.to = egJob => EgSettled(a.id)

(* What the removal tool promises: the entry removed is the one that was   *)
(* listed under the index it was given.                                    *)
EgRemovesListed ==
  egHolder # "free" /\ egAt = "process" /\ EgHead.kind = "remove" /\ EgHead.index \in DOMAIN EgMemory
    => EgMemory[EgHead.index] = EgHead.means
=============================================================================
