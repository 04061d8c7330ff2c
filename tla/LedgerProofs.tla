---------------------------- MODULE LedgerProofs ----------------------------
(* Proofs about what is kept beside the conversations (MCPlatform): what an *)
(* agent says and remembers through the bot (Egress), the usage ledger, the *)
(* audit log and the skills; and what the whole of MCPlatform promises.     *)
EXTENDS PlatformProofs

-----------------------------------------------------------------------------
(* Numbers.                                                                 *)

(* A set of numbers has a least one.                                        *)
LEMMA HasLeast ==
  ASSUME NEW T, T \subseteq Nat, T # {}
  PROVE  \E x \in T : \A y \in T : x <= y
<1>1. PICK R : R = {p \in Nat \X Nat : p[1] < p[2]}
  OBVIOUS
<1>2. OpToRel(<,Nat) = R
  BY <1>1 DEF OpToRel
<1>3. IsWellFoundedOn(R, Nat)
  BY <1>2, NatLessThanWellFounded
<1>4. PICK x \in T : \A y \in T : ~ (<<y, x>> \in R)
  BY <1>3, WFMin
<1>5. ASSUME NEW y \in T PROVE x <= y
  <2>1. x \in Nat /\ y \in Nat
    OBVIOUS
  <2>2. ~ (<<y, x>> \in R)
    BY <1>4
  <2> QED
    BY <1>1, <2>1, <2>2
<1> QED
  BY <1>5

(* And a greatest one, if there is a bound.                                 *)
LEMMA HasGreatest ==
  ASSUME NEW n \in Nat, NEW T, T \subseteq 0 .. n, T # {}
  PROVE  \E x \in T : \A y \in T : y <= x
<1>1. PICK U : U = {n - x : x \in T}
  OBVIOUS
<1>2. U \subseteq Nat /\ U # {}
  <2>1. ASSUME NEW x \in T PROVE n - x \in Nat
    <3>1. x \in 0 .. n
      OBVIOUS
    <3> QED
      BY <3>1
  <2> QED
    BY <1>1, <2>1
<1>3. PICK u \in U : \A v \in U : u <= v
  BY <1>2, HasLeast
<1>4. PICK x \in T : u = n - x
  BY <1>1
<1>5. ASSUME NEW y \in T PROVE y <= x
  <2>1. n - y \in U /\ x \in 0 .. n /\ y \in 0 .. n
    BY <1>1
  <2>2. u <= n - y
    BY <1>3, <2>1
  <2> QED
    BY <1>4, <2>1, <2>2
<1> QED
  BY <1>5

-----------------------------------------------------------------------------
(* What an agent says and remembers.                                        *)

(* The types, the memory's included.                                        *)
EgTyped ==
  /\ EgTypeOK /\ egDisk \in Seq(EgEntries) /\ egCache \in Seq(EgEntries) \cup {EgNone}
  /\ egListed \in Seq(EgEntries)

(* The files have names of their own and say what to add; whoever holds the *)
(* mutex has a list of files that are still there; and a job that drains    *)
(* holds the mutex.                                                         *)
EgFiled ==
  /\ \A a \in egPending : a.id <= egMade /\ (a.kind = "add" => a.means \in EgEntries)
  /\ \A a, b \in egPending : a.id = b.id => a = b
  /\ egLeft \subseteq egPending /\ (egHolder = "free" <=> egLeft = {})
  /\ egPhase = "draining" <=> egHolder = "job"

(* An action took effect as often as there were failures, and once more if  *)
(* its file is gone or about to be removed.                                 *)
EgBehind == egHolder # "free" /\ egAt = "remove"
EgTries ==
  /\ \A id \in EgIds : egDone[id] <= 1 + egFaults /\ (id > egMade => egDone[id] = 0)
  /\ \A a \in egPending : egDone[a.id] <= egFaults \/ (EgBehind /\ a = EgHead)

(* Nothing is lost, and a job that drains has in its list what it queued    *)
(* for itself and is not settled.                                           *)
EgAccounts ==
  /\ \A id \in 1 .. egMade : EgSettled(id) \/ \E a \in egPending : a.id = id
  /\ EgBehind => EgSettled(EgHead.id)
  /\ egPhase \in {"draining", "answer"} =>
       \A a \in egPending : a.own /\ a.to = egJob => EgSettled(a.id) \/ (egPhase = "draining" /\ a \in egLeft)

EgInv == EgTyped /\ EgFiled /\ EgTries /\ EgAccounts

(* Who holds the mutex has a first action, which is a file.                 *)
LEMMA EgHeadIs ==
  ASSUME EgTyped, EgFiled, egHolder # "free"
  PROVE  /\ EgHead \in egLeft /\ EgHead \in egPending /\ EgHead \in EgActions /\ EgHead.id \in EgIds
         /\ EgHead.id \in 1 .. egMade
<1>1. egLeft # {} /\ egLeft \subseteq EgActions /\ egLeft \subseteq egPending /\ egMade \in Nat
  BY EgAssumption DEF EgTyped, EgTypeOK, EgFiled
<1>2. \A a \in EgActions : a.id \in EgIds /\ a.id \in Nat /\ a.id >= 1
  BY EgAssumption DEF EgActions, EgIds
<1>3. PICK ids : ids = {a.id : a \in egLeft}
  OBVIOUS
<1>4. ids \subseteq Nat /\ ids # {}
  BY <1>1, <1>2, <1>3
<1>5. PICK i \in ids : \A j \in ids : i <= j
  BY <1>4, HasLeast
<1>6. PICK a \in egLeft : a.id = i
  BY <1>3
<1>7. \A b \in egLeft : a.id <= b.id
  BY <1>3, <1>5, <1>6
<1>8. EgHead \in egLeft
  BY <1>6, <1>7 DEF EgHead
<1>9. EgHead.id <= egMade
  BY <1>1, <1>8 DEF EgFiled
<1> QED
  BY <1>1, <1>2, <1>8, <1>9

(* The memory in force is a list of entries, and so is what a change makes. *)
EgMemoryKept ==
  /\ egDisk' \in Seq(EgEntries) /\ egCache' \in Seq(EgEntries) \cup {EgNone}
  /\ egFaults' \in 0 .. EgMaxFaults /\ egFaults <= egFaults'

(* The memory in force, cached or read, is a list of entries.               *)
LEMMA EgMemoryIs ==
  ASSUME EgTyped
  PROVE  EgMemory \in Seq(EgEntries)
BY DEF EgTyped, EgMemory

(* Saving a list of entries keeps the memory one, also when it fails.       *)
LEMMA EgSaved ==
  ASSUME EgTyped, NEW entries \in Seq(EgEntries), EgSave(entries)
  PROVE  EgMemoryKept
<1>1. egFaults \in Nat /\ EgMaxFaults \in Nat /\ egFaults <= EgMaxFaults /\ egDisk \in Seq(EgEntries)
  BY EgAssumption DEF EgTyped, EgTypeOK
<1>2. CASE EgOk /\ egDisk' = entries
  BY <1>1, <1>2 DEF EgOk, EgSave, EgMemoryKept
<1>3. CASE EgFails /\ UNCHANGED egDisk
  BY <1>1, <1>3 DEF EgFails, EgSave, EgMemoryKept
<1> QED
  BY <1>2, <1>3 DEF EgSave

(* So does an entry added at the end.                                       *)
LEMMA EgAdded ==
  ASSUME EgTyped, NEW entry \in EgEntries, EgAdd(entry)
  PROVE  EgMemoryKept
<1>1. Append(EgMemory, entry) \in Seq(EgEntries)
  BY EgMemoryIs, AppendProperties
<1> QED
  BY <1>1, EgSaved DEF EgAdd

(* So does dropping the entry at an index, which may be out of range.       *)
LEMMA EgDropped ==
  ASSUME EgTyped, NEW index \in Nat, EgDrop(index)
  PROVE  EgMemoryKept
<1>1. CASE index \in DOMAIN EgMemory
  <2>1. PICK mem \in Seq(EgEntries) : mem = EgMemory
    BY EgMemoryIs
  <2>2. index \in 1 .. Len(mem) /\ Len(mem) \in Nat
    BY <1>1, <2>1, LenProperties
  <2>3. SubSeq(mem, 1, index - 1) \in Seq(EgEntries)
    <3>1. \A i \in 1 .. index - 1 : mem[i] \in EgEntries
      BY <2>2, ElementOfSeq
    <3> QED
      BY <2>2, <3>1, SubSeqProperties
  <2>4. SubSeq(mem, index + 1, Len(mem)) \in Seq(EgEntries)
    <3>1. \A i \in index + 1 .. Len(mem) : mem[i] \in EgEntries
      BY <2>2, ElementOfSeq
    <3> QED
      BY <2>2, <3>1, SubSeqProperties
  <2>5. RemoveAt(mem, index) \in Seq(EgEntries)
    BY <2>3, <2>4, ConcatProperties DEF RemoveAt
  <2>6. EgSave(RemoveAt(mem, index))
    BY <1>1, <2>1 DEF EgDrop
  <2> QED
    BY <2>5, <2>6, EgSaved
<1>2. CASE index \notin DOMAIN EgMemory
  <2>1. egCache' = EgMemory /\ egFaults' = egFaults /\ egDisk' = egDisk
    BY <1>2 DEF EgDrop, EgOk
  <2>2. egFaults \in 0 .. EgMaxFaults /\ egDisk \in Seq(EgEntries)
    BY DEF EgTyped, EgTypeOK
  <2> QED
    BY <2>1, <2>2, EgMemoryIs, EgAssumption DEF EgMemoryKept
<1> QED
  BY <1>1, <1>2

(* So does clearing the memory.                                             *)
LEMMA EgCleared ==
  ASSUME EgTyped, EgClear
  PROVE  EgMemoryKept
<1>1. PICK none \in Seq(EgEntries) : none = <<>>
  BY EmptySeq
<1> QED
  BY <1>1, EgSaved DEF EgClear

(* A step that leaves the files and the mutex alone.                        *)
EgPauses ==
  /\ UNCHANGED <<egPending, egMade, egHolder, egLeft, egAt, egDone, egTold, egLost>>
  /\ EgTyped' /\ egFaults <= egFaults'
  /\ \/ egPhase' = egPhase /\ egJob' = egJob
     \/ egPhase # "draining" /\ egPhase' \in {"none", "turn", "drain"}

(* A user's change of the memory, the turns of a job and what its agent     *)
(* reads are such steps.                                                    *)
LEMMA EgSteps ==
  ASSUME EgTyped,
         EgUserEdit \/ (\E t \in EgTargets : EgStart(t)) \/ EgList \/ EgTurnEnds \/ EgAnswer \/ EgQuiet
  PROVE  EgPauses
<1>0. /\ egFaults \in Nat /\ egFaults <= EgMaxFaults /\ EgMaxFaults \in Nat /\ egFaults <= egFaults
      /\ egEdits \in Nat /\ EgMaxEdits \in Nat
  BY EgAssumption DEF EgTyped, EgTypeOK
<1>1. CASE EgUserEdit
  <2>1. EgMemoryKept
    <3>1. CASE \E e \in EgEntries : EgAdd(e)
      BY <3>1, EgAdded
    <3>2. CASE \E i \in DOMAIN EgMemory : EgDrop(i)
      <4>1. DOMAIN EgMemory \subseteq Nat
        <5>1. PICK mem \in Seq(EgEntries) : mem = EgMemory
          BY EgMemoryIs
        <5> QED
          BY <5>1, LenProperties
      <4> QED
        BY <3>2, <4>1, EgDropped
    <3>3. CASE EgClear
      BY <3>3, EgCleared
    <3> QED
      BY <1>1, <3>1, <3>2, <3>3 DEF EgUserEdit
  <2>2. egEdits' \in 0 .. EgMaxEdits
    BY <1>0, <1>1 DEF EgUserEdit
  <2>3. UNCHANGED <<egPending, egMade, egTarget, egJob, egPhase, egLate, egRemote, egHolder, egLeft, egAt, egStaged, egDone, egTold, egLost, egListed>>
    BY <1>1 DEF EgUserEdit
  <2>4. EgTyped'
    BY <2>1, <2>2, <2>3 DEF EgTyped, EgTypeOK, EgMemoryKept
  <2> QED
    BY <2>1, <2>3, <2>4 DEF EgPauses, EgMemoryKept
<1>2. ASSUME NEW t \in EgTargets, EgStart(t) PROVE EgPauses
  <2>1. PICK none \in Seq(EgEntries) : none = <<>>
    BY EmptySeq
  <2>2. EgTyped'
    BY <1>2, <2>1 DEF EgStart, EgTyped, EgTypeOK
  <2> QED
    BY <1>0, <1>2, <2>2 DEF EgStart, EgPauses
<1>3. CASE EgList
  <2>1. EgTyped'
    BY <1>3 DEF EgList, EgTyped, EgTypeOK
  <2> QED
    BY <1>0, <1>3, <2>1 DEF EgList, EgPauses
<1>4. CASE EgTurnEnds
  <2>1. egFaults' \in 0 .. EgMaxFaults /\ egFaults <= egFaults' /\ egLate' \in BOOLEAN
    <3>1. CASE EgOk /\ UNCHANGED egLate
      BY <1>0, <3>1 DEF EgOk, EgTyped, EgTypeOK
    <3>2. CASE EgFails /\ egLate' = TRUE
      BY <1>0, <3>2 DEF EgFails
    <3> QED
      BY <1>4, <3>1, <3>2 DEF EgTurnEnds
  <2>2. EgTyped'
    BY <1>4, <2>1 DEF EgTurnEnds, EgTyped, EgTypeOK
  <2> QED
    BY <1>4, <2>1, <2>2 DEF EgTurnEnds, EgPauses
<1>5. CASE EgAnswer
  <2>1. EgTyped'
    BY <1>5 DEF EgAnswer, EgTyped, EgTypeOK
  <2> QED
    BY <1>0, <1>5, <2>1 DEF EgAnswer, EgPauses
<1>6. CASE EgQuiet
  <2>1. EgTyped'
    BY <1>6 DEF EgQuiet, EgTyped, EgTypeOK
  <2> QED
    BY <1>0, <1>6, <2>1 DEF EgQuiet, EgPauses
<1> QED
  BY <1>1, <1>2, <1>3, <1>4, <1>5, <1>6

(* Such a step keeps the invariant.                                         *)
LEMMA EgPaused ==
  ASSUME EgInv, EgPauses
  PROVE  EgInv'
<1>1. EgTyped /\ EgTyped' /\ EgFiled /\ EgTries /\ EgAccounts
  BY DEF EgInv, EgPauses
<1>2. /\ egPending' = egPending /\ egMade' = egMade /\ egHolder' = egHolder /\ egLeft' = egLeft
      /\ egAt' = egAt /\ egDone' = egDone /\ egTold' = egTold /\ egLost' = egLost
      /\ egFaults <= egFaults'
  BY DEF EgPauses
<1>3. EgHead' = EgHead
  BY <1>2 DEF EgHead
<1>4. (egPhase' = egPhase /\ egJob' = egJob) \/ (egPhase # "draining" /\ egPhase' \in {"none", "turn", "drain"})
  BY DEF EgPauses
<1>5. EgFiled'
  BY <1>1, <1>2, <1>4 DEF EgFiled
<1>6. EgTries'
  <2>1. egFaults \in Nat /\ egFaults' \in Nat /\ \A id \in EgIds : egDone[id] \in Nat
    BY <1>1, EgAssumption DEF EgTyped, EgTypeOK
  <2>2. ASSUME NEW id \in EgIds PROVE egDone'[id] <= 1 + egFaults' /\ (id > egMade' => egDone'[id] = 0)
    <3>1. egDone[id] <= 1 + egFaults /\ (id > egMade => egDone[id] = 0) /\ egDone[id] \in Nat
      BY <1>1, <2>1 DEF EgTries
    <3> QED
      BY <1>2, <2>1, <3>1
  <2>3. ASSUME NEW a \in egPending PROVE egDone'[a.id] <= egFaults' \/ (EgBehind' /\ a = EgHead')
    <3>1. a.id \in EgIds
      BY <1>1 DEF EgTyped, EgTypeOK, EgActions
    <3>2. CASE egDone[a.id] <= egFaults
      BY <1>2, <2>1, <3>1, <3>2
    <3>3. CASE EgBehind /\ a = EgHead
      BY <1>2, <1>3, <3>3 DEF EgBehind
    <3> QED
      BY <1>1, <3>2, <3>3 DEF EgTries
  <2> QED
    BY <1>2, <2>2, <2>3 DEF EgTries
<1>7. EgAccounts'
  <2>1. (\A id \in 1 .. egMade : EgSettled(id) \/ \E a \in egPending : a.id = id)'
    BY <1>1, <1>2 DEF EgAccounts, EgSettled
  <2>2. EgBehind' => EgSettled(EgHead.id)'
    BY <1>1, <1>2, <1>3 DEF EgAccounts, EgSettled, EgBehind
  <2>3. CASE egPhase' = egPhase /\ egJob' = egJob
    BY <1>1, <1>2, <2>1, <2>2, <2>3 DEF EgAccounts, EgSettled
  <2>4. CASE egPhase' \in {"none", "turn", "drain"}
    BY <2>1, <2>2, <2>4 DEF EgAccounts
  <2> QED
    BY <1>4, <2>3, <2>4
<1> QED
  BY <1>1, <1>5, <1>6, <1>7 DEF EgInv

(* A step that leaves a file. What an agent queues in its turn is its own.  *)
EgQueues ==
  /\ \E action \in EgActions :
       /\ EgQueue(action) /\ action.id = egMade + 1
       /\ action.own => egPhase = "turn"
       /\ action.kind = "add" => action.means \in EgEntries
  /\ egRemote' \in EgTargets \cup {EgNone} /\ egStaged' \subseteq EgIds

(* Whatever an agent leaves a file for, the file is queued as its own.      *)
LEMMA EgActionIs ==
  ASSUME EgTyped, NEW kind \in EgKinds, NEW to \in EgTargets, NEW index \in Nat,
         NEW means \in EgEntries \cup {EgNone}, NEW own \in BOOLEAN,
         EgQueue(EgAction(kind, to, index, means, own)), own => egPhase = "turn",
         kind = "add" => means \in EgEntries,
         egRemote' \in EgTargets \cup {EgNone}, egStaged' \subseteq EgIds
  PROVE  EgQueues
<1>1. egMade + 1 \in EgIds
  BY EgAssumption DEF EgTyped, EgTypeOK, EgQueue, EgIds
<1>2. PICK id : id = egMade + 1
  OBVIOUS
<1>3. PICK action : action = [id |-> id, kind |-> kind, to |-> to, index |-> index, means |-> means, own |-> own]
  OBVIOUS
<1>4. action \in EgActions /\ action.id = id /\ action.own = own /\ action.kind = kind /\ action.means = means
  BY <1>1, <1>2, <1>3 DEF EgActions
<1>5. action = EgAction(kind, to, index, means, own)
  BY <1>2, <1>3 DEF EgAction
<1> QED
  BY <1>2, <1>4, <1>5, Zenon DEF EgQueues

(* The tools of an agent and the result of a remote task leave files.       *)
LEMMA EgTools ==
  ASSUME EgTyped,
         EgSend \/ EgSendFile \/ EgSendImage \/ EgChangeMemory \/ (\E t \in EgTargets : EgRemoteResult(t))
  PROVE  EgQueues
<1>0. /\ EgSendTo \in EgTargets /\ EgChannel \in EgTargets /\ 0 \in Nat /\ EgNone \in EgEntries \cup {EgNone}
      /\ (egPhase = "turn") \in BOOLEAN /\ {"message", "file", "image", "add", "remove", "clear"} \subseteq EgKinds
      /\ egRemote \in EgTargets \cup {EgNone} /\ egStaged \subseteq EgIds /\ FALSE \in BOOLEAN
  BY EgAssumption DEF EgTyped, EgTypeOK, EgSendTo, EgKinds
<1>1. CASE EgSend
  BY <1>0, <1>1, EgActionIs DEF EgSend
<1>2. CASE EgSendFile
  BY <1>0, <1>2, EgActionIs DEF EgSendFile
<1>3. CASE EgSendImage
  <2>1. egMade + 1 \in EgIds
    BY <1>3, EgAssumption DEF EgTyped, EgTypeOK, EgSendImage, EgQueue, EgIds
  <2>2. egStaged' \subseteq EgIds /\ egRemote' = egRemote
    BY <1>0, <1>3, <2>1 DEF EgSendImage, EgStage
  <2> QED
    BY <1>0, <1>3, <2>2, EgActionIs DEF EgSendImage
<1>4. CASE EgChangeMemory
  <2>0. egRemote' \in EgTargets \cup {EgNone} /\ egStaged' \subseteq EgIds
    BY <1>0, <1>4 DEF EgChangeMemory
  <2>1. ASSUME NEW e \in EgEntries, EgQueueMemory("add", 0, e) PROVE EgQueues
    BY <1>0, <2>0, <2>1, EgActionIs DEF EgQueueMemory
  <2>2. ASSUME NEW i \in DOMAIN egListed, EgQueueMemory("remove", i, egListed[i]) PROVE EgQueues
    <3>1. i \in Nat /\ egListed[i] \in EgEntries \cup {EgNone}
      BY LenProperties, ElementOfSeq DEF EgTyped
    <3> QED
      BY <1>0, <2>0, <2>2, <3>1, EgActionIs DEF EgQueueMemory
  <2>3. CASE EgQueueMemory("clear", 0, EgNone)
    BY <1>0, <2>0, <2>3, EgActionIs DEF EgQueueMemory
  <2> QED
    BY <1>4, <2>1, <2>2, <2>3 DEF EgChangeMemory
<1>5. ASSUME NEW t \in EgTargets, EgRemoteResult(t) PROVE EgQueues
  <2>1. egRemote' = t /\ egStaged' = egStaged /\ EgQueue(EgAction("message", t, 0, EgNone, FALSE))
    BY <1>5 DEF EgRemoteResult
  <2> QED
    BY <1>0, <2>1, EgActionIs
<1> QED
  BY <1>1, <1>2, <1>3, <1>4, <1>5

(* A new file keeps the invariant.                                          *)
LEMMA EgQueued ==
  ASSUME EgInv, EgQueues
  PROVE  EgInv'
<1>1. EgTyped /\ EgFiled /\ EgTries /\ EgAccounts
  BY DEF EgInv
<1>2. PICK action \in EgActions :
        /\ EgQueue(action) /\ action.id = egMade + 1
        /\ action.own => egPhase = "turn"
        /\ action.kind = "add" => action.means \in EgEntries
  BY DEF EgQueues
<1>3. /\ egMade < EgMaxActions /\ egMade' = egMade + 1 /\ egPending' = egPending \cup {action}
      /\ UNCHANGED <<egTarget, egJob, egPhase, egLate, egHolder, egLeft, egAt, egDone, egTold, egLost, egCache, egDisk, egListed, egEdits, egFaults>>
  BY <1>2 DEF EgQueue
<1>4. egMade \in Nat /\ egMade' \in 0 .. EgMaxActions /\ egMade' \in EgIds /\ egFaults \in Nat
  BY <1>1, <1>3, EgAssumption DEF EgTyped, EgTypeOK, EgIds
<1>5. EgTyped'
  BY <1>1, <1>3, <1>4 DEF EgTyped, EgTypeOK, EgQueues
<1>6. EgHead' = EgHead
  BY <1>3 DEF EgHead
<1>7. \A a \in egPending : a.id \in EgIds /\ a.id \in Nat /\ a.id <= egMade
  BY <1>1, EgAssumption DEF EgTyped, EgTypeOK, EgFiled, EgActions, EgIds
<1>8. EgFiled'
  <2>1. ASSUME NEW a \in egPending' PROVE a.id <= egMade' /\ (a.kind = "add" => a.means \in EgEntries)
    BY <1>1, <1>2, <1>3, <1>4, <1>7 DEF EgFiled
  <2>2. ASSUME NEW a \in egPending', NEW b \in egPending', a.id = b.id PROVE a = b
    BY <1>1, <1>2, <1>3, <1>4, <1>7, <2>2 DEF EgFiled
  <2>3. egLeft' \subseteq egPending' /\ (egHolder' = "free" <=> egLeft' = {}) /\ (egPhase' = "draining" <=> egHolder' = "job")
    BY <1>1, <1>3 DEF EgFiled
  <2> QED
    BY <2>1, <2>2, <2>3 DEF EgFiled
<1>9. EgTries'
  <2>1. ASSUME NEW id \in EgIds PROVE egDone'[id] <= 1 + egFaults' /\ (id > egMade' => egDone'[id] = 0)
    <3>1. egDone[id] <= 1 + egFaults /\ (id > egMade => egDone[id] = 0) /\ id \in Nat
      BY <1>1, EgAssumption DEF EgTries, EgIds
    <3> QED
      BY <1>3, <1>4, <3>1
  <2>2. egDone[egMade + 1] = 0
    BY <1>1, <1>3, <1>4 DEF EgTries
  <2>3. ASSUME NEW a \in egPending' PROVE egDone'[a.id] <= egFaults' \/ (EgBehind' /\ a = EgHead')
    <3>1. CASE a = action
      BY <1>2, <1>3, <1>4, <2>2, <3>1
    <3>2. CASE a \in egPending
      <4>1. EgBehind' = EgBehind
        BY <1>3 DEF EgBehind
      <4> QED
        BY <1>1, <1>3, <1>6, <3>2, <4>1 DEF EgTries
    <3> QED
      BY <1>3, <3>1, <3>2
  <2> QED
    BY <2>1, <2>3 DEF EgTries
<1>10. EgAccounts'
  <2>1. ASSUME NEW id \in 1 .. egMade' PROVE EgSettled(id)' \/ \E a \in egPending' : a.id = id
    <3>1. CASE id = egMade + 1
      BY <1>2, <1>3, <3>1
    <3>2. CASE id \in 1 .. egMade
      BY <1>1, <1>3, <3>2 DEF EgAccounts, EgSettled
    <3> QED
      BY <1>3, <1>4, <3>1, <3>2
  <2>2. EgBehind' => EgSettled(EgHead.id)'
    BY <1>1, <1>3, <1>6 DEF EgAccounts, EgSettled, EgBehind
  <2>3. ASSUME egPhase' \in {"draining", "answer"}, NEW a \in egPending', a.own, a.to = egJob'
        PROVE  EgSettled(a.id)' \/ (egPhase' = "draining" /\ a \in egLeft')
    <3>1. a # action
      BY <1>2, <1>3, <2>3
    <3>2. a \in egPending
      BY <1>3, <3>1
    <3>3. EgSettled(a.id) \/ (egPhase = "draining" /\ a \in egLeft)
      BY <1>1, <1>3, <2>3, <3>2 DEF EgAccounts
    <3> QED
      BY <1>3, <3>3 DEF EgSettled
  <2> QED
    BY <2>1, <2>2, <2>3 DEF EgAccounts, EgSettled
<1> QED
  BY <1>5, <1>8, <1>9, <1>10 DEF EgInv

(* Who takes the mutex has read a list; none of its actions was tried yet.  *)
LEMMA EgEntered ==
  ASSUME EgInv, EgTick \/ EgJobDrains \/ EgRemoteDrains
  PROVE  EgInv'
<1>1. EgTyped /\ EgFiled /\ EgTries /\ EgAccounts
  BY DEF EgInv
<1>2. PICK holder \in {"tick", "job", "remote"}, list \in SUBSET egPending :
        /\ EgEnter(holder, list) /\ egFaults' = egFaults
        /\ holder # "job" => egPhase' = egPhase
        /\ holder = "job" => egPhase = "drain" /\ list = EgFor(egJob) /\ egPhase' = IF list = {} THEN "answer" ELSE "draining"
        /\ holder = "remote" => egRemote' \in {egRemote, EgNone}
        /\ holder # "remote" => egRemote' = egRemote
  <2>1. CASE EgTick
    BY <2>1 DEF EgTick
  <2>2. CASE EgJobDrains
    BY <2>2 DEF EgJobDrains, EgFor
  <2>3. CASE EgRemoteDrains
    BY <2>3 DEF EgRemoteDrains, EgFor
  <2> QED
    BY <2>1, <2>2, <2>3
<1>3. /\ egHolder = "free" /\ egHolder' = (IF list = {} THEN "free" ELSE holder) /\ egLeft' = list /\ egAt' = "process"
      /\ UNCHANGED <<egPending, egMade, egTarget, egJob, egLate, egStaged, egDone, egTold, egLost, egCache, egDisk, egListed, egEdits>>
  BY <1>2 DEF EgEnter, EgMayEnter
<1>4. egPhase # "draining" /\ ~EgBehind /\ ~EgBehind'
  BY <1>1, <1>3 DEF EgFiled, EgBehind
<1>5. EgTyped'
  <2>1. egPhase' \in {"none", "turn", "drain", "draining", "answer"} /\ egRemote' \in EgTargets \cup {EgNone}
    BY <1>1, <1>2 DEF EgTyped, EgTypeOK
  <2>2. egHolder' \in {"free", "tick", "job", "remote"} /\ egLeft' \subseteq EgActions
    BY <1>1, <1>2, <1>3 DEF EgTyped, EgTypeOK
  <2> QED
    BY <1>1, <1>2, <1>3, <2>1, <2>2 DEF EgTyped, EgTypeOK
<1>6. EgFiled'
  <2>1. egPhase' = "draining" <=> egHolder' = "job"
    BY <1>2, <1>3, <1>4
  <2>2. egLeft' \subseteq egPending' /\ (egHolder' = "free" <=> egLeft' = {})
    BY <1>2, <1>3
  <2> QED
    BY <1>1, <1>3, <2>1, <2>2 DEF EgFiled
<1>7. EgTries'
  BY <1>1, <1>2, <1>3, <1>4 DEF EgTries
<1>8. EgAccounts'
  <2>1. (\A id \in 1 .. egMade : EgSettled(id) \/ \E a \in egPending : a.id = id)'
    BY <1>1, <1>3 DEF EgAccounts, EgSettled
  <2>2. ASSUME egPhase' \in {"draining", "answer"}, NEW a \in egPending', a.own, a.to = egJob'
        PROVE  EgSettled(a.id)' \/ (egPhase' = "draining" /\ a \in egLeft')
    <3>1. CASE holder = "job"
      <4>1. a \in list
        BY <1>2, <1>3, <2>2, <3>1 DEF EgFor
      <4> QED
        BY <1>2, <1>3, <3>1, <4>1
    <3>2. CASE holder # "job"
      <4>1. egPhase = "answer"
        BY <1>2, <1>4, <2>2, <3>2
      <4> QED
        BY <1>1, <1>3, <2>2, <4>1 DEF EgAccounts, EgSettled
    <3> QED
      BY <3>1, <3>2
  <2> QED
    BY <1>4, <2>1, <2>2 DEF EgAccounts
<1> QED
  BY <1>5, <1>6, <1>7, <1>8 DEF EgInv

(* The first action takes effect, or its failure is told or not.            *)
LEMMA EgTried ==
  ASSUME EgTyped, EgFiled, EgProcess
  PROVE  /\ (EgEffect \/ EgTell \/ (EgMiss /\ EgFails)) /\ EgMemoryKept
<1>1. egHolder # "free" /\ (EgSends \/ EgChanges) /\ egListed' = egListed
  BY DEF EgProcess
<1>2. EgHead \in EgActions
  BY <1>1, EgHeadIs
<1>3. CASE EgSends
  <2>1. (EgEffect \/ EgTell \/ (EgMiss /\ EgFails)) /\ (EgOk \/ EgFails)
    BY <1>3 DEF EgSends
  <2>2. egCache' = egCache /\ egDisk' = egDisk
    BY <1>3 DEF EgSends, egMem
  <2>3. egFaults' \in 0 .. EgMaxFaults /\ egFaults <= egFaults'
    <3>1. CASE EgOk
      BY <3>1, EgAssumption DEF EgOk, EgTyped, EgTypeOK
    <3>2. CASE EgFails
      BY <3>2, EgAssumption DEF EgFails, EgTyped, EgTypeOK
    <3> QED
      BY <2>1, <3>1, <3>2
  <2> QED
    BY <2>1, <2>2, <2>3 DEF EgMemoryKept, EgTyped
<1>4. CASE EgChanges
  <2>1. EgEffect \/ EgTell
    BY <1>4 DEF EgChanges
  <2>2. EgHead.index \in Nat /\ EgHead.means \in EgEntries \cup {EgNone}
    BY <1>2 DEF EgActions
  <2>3. CASE EgHead.kind = "add" /\ EgAdd(EgHead.means)
    <3>1. EgHead.means \in EgEntries
      BY <1>1, <2>3, EgHeadIs DEF EgFiled
    <3> QED
      BY <2>1, <2>3, <3>1, EgAdded
  <2> QED
    BY <1>4, <2>1, <2>2, <2>3, EgDropped, EgCleared DEF EgChanges
<1> QED
  BY <1>1, <1>3, <1>4

(* It is then settled, at one more try or with one more word.               *)
LEMMA EgProcessed ==
  ASSUME EgInv, EgProcess
  PROVE  EgInv'
<1>1. EgTyped /\ EgFiled /\ EgTries /\ EgAccounts
  BY DEF EgInv
<1>2. (EgEffect \/ EgTell \/ EgMiss) /\ EgMemoryKept
  BY <1>1, EgTried
<1>3. /\ egHolder # "free" /\ egAt = "process" /\ egAt' = "remove"
      /\ UNCHANGED <<egPending, egMade, egTarget, egJob, egPhase, egLate, egRemote, egHolder, egLeft, egStaged, egListed, egEdits>>
  BY DEF EgProcess
<1>4. EgHead \in egLeft /\ EgHead \in egPending /\ EgHead.id \in EgIds /\ EgHead.id \in 1 .. egMade
  BY <1>1, <1>3, EgHeadIs
<1>5. EgHead' = EgHead
  BY <1>3 DEF EgHead
<1>6. PICK head : head = EgHead.id
  OBVIOUS
<1>7. \/ egDone' = [egDone EXCEPT ![head] = @ + 1] /\ egTold' = egTold /\ egLost' = egLost
      \/ egTold' = egTold \cup {head} /\ egDone' = egDone /\ egLost' = egLost
      \/ egLost' = egLost \cup {head} /\ egDone' = egDone /\ egTold' = egTold
  BY <1>2, <1>6 DEF EgEffect, EgTell, EgMiss
<1>8. /\ egFaults \in Nat /\ egFaults' \in Nat /\ egFaults <= egFaults' /\ egFaults' \in 0 .. EgMaxFaults
      /\ egDone \in [EgIds -> 0 .. 2 + EgMaxFaults] /\ head \in EgIds /\ egTold \subseteq EgIds /\ EgMaxFaults \in Nat
      /\ egLost \subseteq EgIds
      /\ egFaults <= EgMaxFaults /\ \A id \in EgIds : egDone[id] \in Nat
  BY <1>1, <1>2, <1>4, <1>6, EgAssumption DEF EgTyped, EgTypeOK, EgMemoryKept
<1>9. egDone[head] <= egFaults
  <2>1. egDone[EgHead.id] <= egFaults \/ EgBehind
    BY <1>1, <1>4 DEF EgTries
  <2> QED
    BY <1>3, <1>6, <2>1 DEF EgBehind
<1>10. \A id \in EgIds : egDone'[id] = egDone[id] \/ (id = head /\ egDone'[id] = egDone[id] + 1)
  BY <1>7, <1>8
<1>11. egDone' \in [EgIds -> 0 .. 2 + EgMaxFaults] /\ egTold' \subseteq EgIds /\ egLost' \subseteq EgIds
  <2>1. egDone[head] + 1 \in 0 .. 2 + EgMaxFaults
    BY <1>8, <1>9
  <2> QED
    BY <1>7, <1>8, <2>1
<1>12. EgTyped'
  <2>1. egDisk' \in Seq(EgEntries) /\ egCache' \in Seq(EgEntries) \cup {EgNone}
    BY <1>2 DEF EgMemoryKept
  <2> QED
    BY <1>1, <1>3, <1>8, <1>11, <2>1 DEF EgTyped, EgTypeOK
<1>13. EgFiled'
  BY <1>1, <1>3 DEF EgFiled
<1>14. EgBehind' /\ ~EgBehind
  BY <1>3 DEF EgBehind
<1>15. EgTries'
  <2>1. ASSUME NEW id \in EgIds PROVE egDone'[id] <= 1 + egFaults' /\ (id > egMade' => egDone'[id] = 0)
    <3>1. egDone[id] <= 1 + egFaults /\ (id > egMade => egDone[id] = 0)
      BY <1>1 DEF EgTries
    <3>2. CASE id = head
      <4>1. ~(id > egMade) /\ egMade' = egMade
        <5>1. egMade \in Nat /\ head \in 1 .. egMade
          BY <1>1, <1>4, <1>6, EgAssumption DEF EgTyped, EgTypeOK
        <5> QED
          BY <1>3, <3>2, <5>1
      <4>2. egDone'[id] <= 1 + egDone[id] /\ egDone'[id] \in Nat
        BY <1>8, <1>10
      <4> QED
        BY <1>8, <1>9, <3>2, <4>1, <4>2
    <3>3. CASE id # head
      BY <1>3, <1>8, <1>10, <3>1, <3>3
    <3> QED
      BY <3>2, <3>3
  <2>2. ASSUME NEW a \in egPending' PROVE egDone'[a.id] <= egFaults' \/ (EgBehind' /\ a = EgHead')
    <3>1. a \in egPending /\ a.id \in EgIds
      BY <1>1, <1>3 DEF EgTyped, EgTypeOK, EgActions
    <3>2. CASE a = EgHead
      BY <1>5, <1>14, <3>2
    <3>3. CASE a # EgHead
      <4>1. a.id # head
        BY <1>1, <1>4, <1>6, <3>1, <3>3 DEF EgFiled
      <4>2. egDone[a.id] <= egFaults
        BY <1>1, <3>1, <3>3 DEF EgTries
      <4> QED
        BY <1>8, <1>10, <3>1, <4>1, <4>2
    <3> QED
      BY <3>2, <3>3
  <2> QED
    BY <2>1, <2>2 DEF EgTries
<1>16. \A id \in EgIds : EgSettled(id) => EgSettled(id)'
  BY <1>7, <1>8, <1>10 DEF EgSettled
<1>17. EgSettled(head)'
  BY <1>7, <1>8 DEF EgSettled
<1>18. EgAccounts'
  <2>1. ASSUME NEW id \in 1 .. egMade' PROVE EgSettled(id)' \/ \E a \in egPending' : a.id = id
    <3>1. id \in EgIds /\ id \in 1 .. egMade
      BY <1>1, <1>3, EgAssumption DEF EgTyped, EgTypeOK, EgIds
    <3> QED
      BY <1>1, <1>3, <1>16, <3>1 DEF EgAccounts
  <2>2. EgSettled(EgHead.id)'
    BY <1>5, <1>6, <1>17 DEF EgSettled
  <2>3. ASSUME egPhase' \in {"draining", "answer"}, NEW a \in egPending', a.own, a.to = egJob'
        PROVE  EgSettled(a.id)' \/ (egPhase' = "draining" /\ a \in egLeft')
    <3>1. a.id \in EgIds
      BY <1>1, <1>3 DEF EgTyped, EgTypeOK, EgActions
    <3>2. EgSettled(a.id) \/ (egPhase = "draining" /\ a \in egLeft)
      BY <1>1, <1>3, <2>3 DEF EgAccounts
    <3> QED
      BY <1>3, <1>16, <3>1, <3>2
  <2> QED
    BY <2>1, <2>2, <2>3 DEF EgAccounts, EgSettled
<1> QED
  BY <1>12, <1>13, <1>15, <1>18 DEF EgInv

(* Its file is removed, or the failure to do so explains another try.       *)
LEMMA EgFinished ==
  ASSUME EgInv, EgFinish
  PROVE  EgInv'
<1>1. EgTyped /\ EgFiled /\ EgTries /\ EgAccounts
  BY DEF EgInv
<1>2. /\ egHolder # "free" /\ egAt = "remove" /\ egAt' = "process" /\ egLeft' = EgWithout(egLeft)
      /\ egStaged' = egStaged \ {EgHead.id}
      /\ UNCHANGED <<egMade, egTarget, egJob, egLate, egDone, egTold, egLost, egCache, egDisk, egListed, egEdits>>
  BY DEF EgFinish
<1>3. (EgOk /\ egPending' = EgWithout(egPending)) \/ (EgFails /\ UNCHANGED egPending)
  BY DEF EgFinish
<1>4. /\ egHolder' = IF egLeft' = {} THEN "free" ELSE egHolder
      /\ egPhase' = IF egLeft' = {} /\ egHolder = "job" THEN "answer" ELSE egPhase
      /\ egRemote' = IF egLeft' = {} /\ egHolder = "remote" THEN EgNone ELSE egRemote
  BY DEF EgFinish
<1>5. EgHead \in egLeft /\ EgHead \in egPending /\ EgHead.id \in EgIds
  BY <1>1, <1>2, EgHeadIs
<1>6. PICK head : head = EgHead.id
  OBVIOUS
<1>7. /\ egLeft' = {a \in egLeft : a.id # head} /\ egPending' \subseteq egPending
      /\ \A a \in egPending : a.id # head => a \in egPending'
  BY <1>2, <1>3, <1>6 DEF EgWithout
<1>8. /\ egFaults \in Nat /\ egFaults' \in Nat /\ egFaults <= egFaults' /\ egFaults' \in 0 .. EgMaxFaults
      /\ egDone \in [EgIds -> 0 .. 2 + EgMaxFaults] /\ \A id \in EgIds : egDone[id] \in Nat
  <2>1. egFaults \in 0 .. EgMaxFaults /\ egDone \in [EgIds -> 0 .. 2 + EgMaxFaults]
    BY <1>1 DEF EgTyped, EgTypeOK
  <2>2. CASE EgOk
    BY <2>1, <2>2, EgAssumption DEF EgOk
  <2>3. CASE EgFails
    BY <2>1, <2>3, EgAssumption DEF EgFails
  <2> QED
    BY <1>3, <2>2, <2>3
<1>9. EgTyped'
  <2>1. egHolder' \in {"free", "tick", "job", "remote"} /\ egPhase' \in {"none", "turn", "drain", "draining", "answer"}
        /\ egRemote' \in EgTargets \cup {EgNone}
    BY <1>1, <1>4 DEF EgTyped, EgTypeOK
  <2>2. egPending' \subseteq EgActions /\ egLeft' \subseteq EgActions /\ egStaged' \subseteq EgIds
    BY <1>1, <1>2, <1>7 DEF EgTyped, EgTypeOK
  <2> QED
    BY <1>1, <1>2, <1>8, <2>1, <2>2 DEF EgTyped, EgTypeOK
<1>10. EgFiled'
  <2>1. \A a \in egPending' : a.id <= egMade' /\ (a.kind = "add" => a.means \in EgEntries)
    BY <1>1, <1>2, <1>7 DEF EgFiled
  <2>2. \A a, b \in egPending' : a.id = b.id => a = b
    BY <1>1, <1>7 DEF EgFiled
  <2>3. egLeft' \subseteq egPending'
    BY <1>1, <1>7 DEF EgFiled
  <2>4. egHolder' = "free" <=> egLeft' = {}
    BY <1>2, <1>4
  <2>5. egPhase' = "draining" <=> egHolder' = "job"
    BY <1>1, <1>4 DEF EgFiled
  <2> QED
    BY <2>1, <2>2, <2>3, <2>4, <2>5 DEF EgFiled
<1>11. ~EgBehind' /\ EgBehind
  BY <1>2 DEF EgBehind
<1>12. EgTries'
  <2>1. ASSUME NEW id \in EgIds PROVE egDone'[id] <= 1 + egFaults' /\ (id > egMade' => egDone'[id] = 0)
    <3>1. egDone[id] <= 1 + egFaults /\ (id > egMade => egDone[id] = 0)
      BY <1>1 DEF EgTries
    <3> QED
      BY <1>2, <1>8, <3>1
  <2>2. ASSUME NEW a \in egPending' PROVE egDone'[a.id] <= egFaults'
    <3>1. a \in egPending /\ a.id \in EgIds
      BY <1>1, <1>7 DEF EgTyped, EgTypeOK, EgActions
    <3>2. CASE a = EgHead
      <4>1. EgFails
        BY <1>3, <1>6, <2>2, <3>2 DEF EgWithout
      <4>2. egFaults' = egFaults + 1 /\ egDone[a.id] <= 1 + egFaults
        BY <1>1, <3>1, <4>1 DEF EgFails, EgTries
      <4> QED
        BY <1>2, <1>8, <3>1, <4>2
    <3>3. CASE a # EgHead
      <4>1. egDone[a.id] <= egFaults
        BY <1>1, <3>1, <3>3 DEF EgTries
      <4> QED
        BY <1>2, <1>8, <3>1, <4>1
    <3> QED
      BY <3>2, <3>3
  <2> QED
    BY <2>1, <2>2 DEF EgTries
<1>13. \A id \in EgIds : EgSettled(id)' <=> EgSettled(id)
  BY <1>2 DEF EgSettled
<1>14. EgSettled(head)
  BY <1>1, <1>6, <1>11 DEF EgAccounts
<1>15. EgAccounts'
  <2>1. ASSUME NEW id \in 1 .. egMade' PROVE EgSettled(id)' \/ \E a \in egPending' : a.id = id
    <3>1. id \in EgIds /\ id \in 1 .. egMade
      BY <1>1, <1>2, EgAssumption DEF EgTyped, EgTypeOK, EgIds
    <3>2. CASE EgSettled(id)
      BY <1>13, <3>1, <3>2
    <3>3. CASE ~EgSettled(id)
      <4>1. PICK a \in egPending : a.id = id
        BY <1>1, <3>1, <3>3 DEF EgAccounts
      <4>2. a.id # head
        BY <1>14, <3>3, <4>1
      <4> QED
        BY <1>7, <4>1, <4>2
    <3> QED
      BY <3>2, <3>3
  <2>2. ASSUME egPhase' \in {"draining", "answer"}, NEW a \in egPending', a.own, a.to = egJob'
        PROVE  EgSettled(a.id)' \/ (egPhase' = "draining" /\ a \in egLeft')
    <3>1. a.id \in EgIds /\ a \in egPending /\ a.to = egJob
      BY <1>1, <1>2, <1>7, <2>2 DEF EgTyped, EgTypeOK, EgActions
    <3>2. egPhase \in {"draining", "answer"}
      BY <1>1, <1>4, <2>2 DEF EgFiled
    <3>3. EgSettled(a.id) \/ (egPhase = "draining" /\ a \in egLeft)
      BY <1>1, <2>2, <3>1, <3>2 DEF EgAccounts
    <3>4. CASE EgSettled(a.id)
      BY <1>13, <3>1, <3>4
    <3>5. CASE egPhase = "draining" /\ a \in egLeft /\ ~EgSettled(a.id)
      <4>1. a.id # head
        BY <1>14, <3>5
      <4>2. a \in egLeft'
        BY <1>7, <3>5, <4>1
      <4>3. egPhase' = "draining"
        BY <1>4, <3>5, <4>2
      <4> QED
        BY <4>2, <4>3
    <3> QED
      BY <3>3, <3>4, <3>5
  <2> QED
    BY <1>11, <2>1, <2>2 DEF EgAccounts
<1> QED
  BY <1>9, <1>10, <1>12, <1>15 DEF EgInv

(* A restart counts as a failure of what was about to be removed.           *)
LEMMA EgRestarted ==
  ASSUME EgInv, EgRestart
  PROVE  EgInv'
<1>1. EgTyped /\ EgFiled /\ EgTries /\ EgAccounts
  BY DEF EgInv
<1>2. /\ egFaults < EgMaxFaults /\ egFaults' = egFaults + 1
      /\ egJob' = EgNone /\ egPhase' = "none" /\ egLate' = FALSE /\ egRemote' = EgNone
      /\ egHolder' = "free" /\ egLeft' = {} /\ egAt' = "process" /\ egCache' = EgNone /\ egListed' = <<>>
      /\ UNCHANGED <<egPending, egMade, egTarget, egStaged, egDone, egTold, egLost, egDisk, egEdits>>
  BY DEF EgRestart, EgFails
<1>3. PICK none \in Seq(EgEntries) : none = <<>>
  BY EmptySeq
<1>4. egFaults \in Nat /\ egFaults' \in 0 .. EgMaxFaults /\ \A id \in EgIds : egDone[id] \in Nat
  BY <1>1, <1>2, EgAssumption DEF EgTyped, EgTypeOK
<1>5. EgTyped'
  BY <1>1, <1>2, <1>3, <1>4 DEF EgTyped, EgTypeOK
<1>6. EgFiled'
  BY <1>1, <1>2 DEF EgFiled
<1>7. EgTries'
  <2>1. \A id \in EgIds : egDone[id] <= 1 + egFaults /\ (id > egMade => egDone[id] = 0)
    BY <1>1 DEF EgTries
  <2>2. \A a \in egPending : a.id \in EgIds
    BY <1>1 DEF EgTyped, EgTypeOK, EgActions
  <2>3. \A id \in EgIds : egDone'[id] <= 1 + egFaults' /\ (id > egMade' => egDone'[id] = 0)
    BY <1>2, <1>4, <2>1
  <2>4. \A a \in egPending' : egDone'[a.id] <= egFaults'
    BY <1>2, <1>4, <2>1, <2>2
  <2> QED
    BY <2>3, <2>4 DEF EgTries
<1>8. EgAccounts'
  BY <1>1, <1>2 DEF EgAccounts, EgSettled, EgBehind
<1> QED
  BY <1>5, <1>6, <1>7, <1>8 DEF EgInv

(* A file that cannot be read is lost while nobody holds the mutex.         *)
LEMMA EgDiscarded ==
  ASSUME EgInv, NEW file \in egPending, EgDiscard(file)
  PROVE  EgInv'
<1>1. EgTyped /\ EgFiled /\ EgTries /\ EgAccounts
  BY DEF EgInv
<1>2. /\ egHolder = "free" /\ egFaults < EgMaxFaults /\ egFaults' = egFaults + 1
      /\ egPending' = egPending \ {file} /\ egLost' = egLost \cup {file.id}
      /\ UNCHANGED <<egMade, egTarget, egJob, egPhase, egLate, egRemote, egHolder, egLeft, egAt, egStaged, egDone, egTold, egCache, egDisk, egListed, egEdits>>
  BY DEF EgDiscard, EgMayEnter, EgFails
<1>3. egFaults \in Nat /\ egFaults' \in 0 .. EgMaxFaults /\ (\A id \in EgIds : egDone[id] \in Nat) /\ file.id \in EgIds
  BY <1>1, <1>2, EgAssumption DEF EgTyped, EgTypeOK, EgActions
<1>4. EgTyped'
  BY <1>1, <1>2, <1>3 DEF EgTyped, EgTypeOK
<1>5. EgFiled'
  <2>1. egLeft' = {}
    BY <1>1, <1>2 DEF EgFiled
  <2> QED
    BY <1>1, <1>2, <2>1 DEF EgFiled
<1>6. ~EgBehind /\ ~EgBehind'
  BY <1>2 DEF EgBehind
<1>7. EgTries'
  <2>1. \A id \in EgIds : egDone[id] <= 1 + egFaults /\ (id > egMade => egDone[id] = 0)
    BY <1>1 DEF EgTries
  <2>2. \A a \in egPending : a.id \in EgIds /\ egDone[a.id] <= egFaults
    BY <1>1, <1>6 DEF EgTyped, EgTypeOK, EgActions, EgTries
  <2>3. \A id \in EgIds : egDone'[id] <= 1 + egFaults' /\ (id > egMade' => egDone'[id] = 0)
    BY <1>2, <1>3, <2>1
  <2>4. \A a \in egPending' : egDone'[a.id] <= egFaults'
    BY <1>2, <1>3, <2>2
  <2> QED
    BY <2>3, <2>4 DEF EgTries
<1>8. EgAccounts'
  <2>1. ASSUME NEW id \in 1 .. egMade' PROVE EgSettled(id)' \/ \E a \in egPending' : a.id = id
    <3>1. EgSettled(id) \/ \E a \in egPending : a.id = id
      BY <1>1, <1>2, <2>1 DEF EgAccounts
    <3>2. EgSettled(id) => EgSettled(id)'
      BY <1>2 DEF EgSettled
    <3>3. id = file.id => EgSettled(id)'
      BY <1>2 DEF EgSettled
    <3> QED
      BY <1>2, <3>1, <3>2, <3>3
  <2>2. egPhase \notin {"draining"}
    BY <1>1, <1>2 DEF EgFiled
  <2>3. ASSUME egPhase' = "answer", NEW a \in egPending', a.own, a.to = egJob'
        PROVE  EgSettled(a.id)'
    BY <1>1, <1>2, <2>3 DEF EgAccounts, EgSettled
  <2> QED
    BY <1>2, <1>6, <2>1, <2>2, <2>3 DEF EgAccounts
<1> QED
  BY <1>4, <1>5, <1>7, <1>8 DEF EgInv

(* A process of the bot begins so, with a memory of an earlier one.         *)
LEMMA EgBegins == EgInit => EgInv
<1> SUFFICES ASSUME EgInit PROVE EgInv
  OBVIOUS
<1>1. egDisk \in Seq(EgEntries)
  <2>1. PICK n \in Nat : n = Cardinality(EgEntries)
    BY EgAssumption, FS_CardinalityType
  <2>2. PICK f \in [1 .. n -> EgEntries] : IsInjective(f)
    BY <2>1, EgAssumption, FS_CardinalityType DEF ExistsBijection, Bijection, Injection
  <2>3. egDisk \in [1 .. n -> EgEntries]
    BY <2>1, <2>2 DEF EgInit, SetToSeq
  <2> QED
    BY <2>3, IsASeq
<1>2. PICK none \in Seq(EgEntries) : none = <<>>
  BY EmptySeq
<1>3. EgTyped
  <2>1. egDone \in [EgIds -> 0 .. 2 + EgMaxFaults]
    BY EgAssumption DEF EgInit
  <2>2. egListed \in Seq(EgEntries)
    BY <1>2 DEF EgInit
  <2>3. 0 \in 0 .. EgMaxActions /\ 0 \in 0 .. EgMaxEdits /\ 0 \in 0 .. EgMaxFaults
    BY EgAssumption
  <2> QED
    BY <1>1, <2>1, <2>2, <2>3 DEF EgInit, EgTyped, EgTypeOK
<1>4. EgFiled /\ EgTries /\ EgAccounts
  BY EgAssumption DEF EgInit, EgFiled, EgTries, EgAccounts, EgBehind
<1> QED
  BY <1>3, <1>4 DEF EgInv

(* Files, mutex, tries and accounts agree in every state.                   *)
THEOREM EgInvariant == EgSpec => []EgInv
<1>1. EgInv /\ [EgNext]_egVars => EgInv'
  <2> SUFFICES ASSUME EgInv, [EgNext]_egVars PROVE EgInv'
    OBVIOUS
  <2>0. EgTyped
    BY DEF EgInv
  <2>1. CASE EgUserEdit \/ (\E t \in EgTargets : EgStart(t)) \/ EgList \/ EgTurnEnds \/ EgAnswer \/ EgQuiet
    BY <2>0, <2>1, EgSteps, EgPaused
  <2>2. CASE EgSend \/ EgSendFile \/ EgSendImage \/ EgChangeMemory \/ (\E t \in EgTargets : EgRemoteResult(t))
    BY <2>0, <2>2, EgTools, EgQueued
  <2>3. CASE EgTick \/ EgJobDrains \/ EgRemoteDrains
    BY <2>3, EgEntered
  <2>4. CASE EgProcess
    BY <2>4, EgProcessed
  <2>5. CASE EgFinish
    BY <2>5, EgFinished
  <2>6. CASE EgRestart \/ \E a \in egPending : EgDiscard(a)
    BY <2>6, EgRestarted, EgDiscarded
  <2>7. CASE UNCHANGED egVars
    <3>1. EgTyped' /\ egFaults <= egFaults'
      BY <2>0, <2>7, EgAssumption DEF EgTyped, EgTypeOK, egVars
    <3>2. EgPauses
      BY <2>7, <3>1 DEF EgPauses, egVars
    <3> QED
      BY <3>2, EgPaused
  <2> QED
    BY <2>1, <2>2, <2>3, <2>4, <2>5, <2>6, <2>7 DEF EgNext
<1> QED
  BY <1>1, EgBegins, PTL DEF EgSpec

(* Each loss has a failure of its own.                                      *)
EgLosses == Cardinality(egLost) <= egFaults

(* No step loses more than one action, and none without a failure.          *)
LEMMA EgLossesKept ==
  ASSUME EgInv, EgLosses, [EgNext]_egVars
  PROVE  EgLosses'
<1>1. EgTyped /\ EgFiled
  BY DEF EgInv
<1>2. /\ egFaults \in Nat /\ EgMaxFaults \in Nat /\ egFaults <= EgMaxFaults
      /\ IsFiniteSet(egLost) /\ Cardinality(egLost) \in Nat
  <2>1. IsFiniteSet(EgIds) /\ egLost \subseteq EgIds
    BY <1>1, EgAssumption, FS_Interval DEF EgIds, EgTyped, EgTypeOK
  <2>2. IsFiniteSet(egLost)
    BY <2>1, FS_Subset
  <2> QED
    BY <1>1, <2>2, EgAssumption, FS_CardinalityType DEF EgTyped, EgTypeOK
<1>3. ASSUME egLost' = egLost, egFaults <= egFaults', egFaults' \in Nat PROVE EgLosses'
  BY <1>2, <1>3 DEF EgLosses
<1>4. ASSUME EgFails, NEW id, egLost' = egLost \cup {id} PROVE EgLosses'
  <2>0. Cardinality(egLost \cup {id}) \in {Cardinality(egLost), Cardinality(egLost) + 1}
    <3>1. /\ IsFiniteSet(egLost \cup {id})
          /\ Cardinality(egLost \cup {id}) =
               IF id \in egLost THEN Cardinality(egLost) ELSE Cardinality(egLost) + 1
      BY <1>2, FS_AddElement
    <3> QED
      BY <3>1
  <2>1. Cardinality(egLost') <= Cardinality(egLost) + 1 /\ Cardinality(egLost') \in Nat
    BY <1>2, <1>4, <2>0
  <2> QED
    BY <1>2, <1>4, <2>1 DEF EgLosses, EgFails
<1>5. CASE EgUserEdit \/ (\E t \in EgTargets : EgStart(t)) \/ EgList \/ EgTurnEnds \/ EgAnswer \/ EgQuiet
  <2>1. EgPauses
    BY <1>1, <1>5, EgSteps
  <2>2. egFaults' \in Nat
    BY <2>1, EgAssumption DEF EgPauses, EgTyped, EgTypeOK
  <2> QED
    BY <1>3, <2>1, <2>2 DEF EgPauses
<1>6. CASE EgSend \/ EgSendFile \/ EgSendImage \/ EgChangeMemory \/ (\E t \in EgTargets : EgRemoteResult(t))
  <2>1. EgQueues
    BY <1>1, <1>6, EgTools
  <2> QED
    BY <1>2, <1>3, <2>1 DEF EgQueues, EgQueue
<1>7. CASE EgTick \/ EgJobDrains \/ EgRemoteDrains
  <2>1. egLost' = egLost /\ egFaults' = egFaults
    BY <1>7 DEF EgTick, EgJobDrains, EgRemoteDrains, EgEnter
  <2> QED
    BY <1>2, <1>3, <2>1
<1>8. CASE EgProcess
  <2>1. (EgEffect \/ EgTell \/ (EgMiss /\ EgFails)) /\ EgMemoryKept
    BY <1>1, <1>8, EgTried
  <2>2. egFaults <= egFaults' /\ egFaults' \in Nat
    BY <1>2, <2>1 DEF EgMemoryKept
  <2> QED
    BY <1>3, <1>4, <2>1, <2>2 DEF EgEffect, EgTell, EgMiss
<1>9. CASE EgFinish \/ EgRestart
  <2>1. egLost' = egLost /\ (EgOk \/ EgFails)
    BY <1>9 DEF EgFinish, EgRestart
  <2>2. egFaults <= egFaults' /\ egFaults' \in Nat
    BY <1>2, <2>1 DEF EgOk, EgFails
  <2> QED
    BY <1>3, <2>1, <2>2
<1>10. ASSUME NEW a \in egPending, EgDiscard(a) PROVE EgLosses'
  BY <1>4, <1>10 DEF EgDiscard
<1>11. CASE UNCHANGED egVars
  BY <1>2, <1>3, <1>11 DEF egVars
<1> QED
  BY <1>5, <1>6, <1>7, <1>8, <1>9, <1>10, <1>11 DEF EgNext

(* The mutex and the files suffice: an action takes effect once, but for    *)
(* failures; it stays in its file until it did, or its failure was told, or *)
(* it was lost to a failure of Discord or of the file; and what a job's     *)
(* agent queued for the job's own place is past that before the job's final *)
(* answer.                                                                  *)
THEOREM EgSettles == EgSpec => [](EgTypeOK /\ EgDelivers)
<1>1. EgInv /\ EgLosses => EgTypeOK /\ EgDelivers
  BY DEF EgInv, EgTyped, EgTries, EgAccounts, EgDelivers, EgLosses
<1>2. EgInit => EgLosses
  BY FS_EmptySet, EgAssumption DEF EgInit, EgLosses
<1>3. EgInv /\ EgLosses /\ [EgNext]_egVars => EgLosses'
  BY EgLossesKept
<1> QED
  BY <1>1, <1>2, <1>3, EgInvariant, PTL DEF EgSpec

-----------------------------------------------------------------------------
(* The usage ledger.                                                        *)

(* The import of the older ledger: what is archived was counted or is so    *)
(* old that it was removed, what was removed had been archived, and how far *)
(* the import is agrees with what the database says of it. The file that    *)
(* was counted first is not the one that is archived, if it was written to  *)
(* in between.                                                              *)
UsGood == {"whole", "longer", "later"}
UsLeft(sum) == sum = "whole" /\ usGrown
UsCounted ==
  /\ usArchive \subseteq UsGood /\ usFile \notin usArchive
  /\ usFile \in {"torn", "whole", "longer"} => usArchive = {}
  /\ ~({"whole", "longer"} \subseteq usArchive)
  /\ usGrown => usFile = "longer" \/ "longer" \in usArchive
  /\ \A r \in usRows : /\ r.sum \in UsGood /\ r \in UsAllRows(r.sum)
                       /\ r.sum \in usArchive \/ r.sum = usFile \/ UsLeft(r.sum)
                       /\ UsText(r) \notin usPruned
  /\ \A sum \in usArchive : \A r \in UsAllRows(sum) : UsText(r) \in usPruned \/ r \in usRows
  /\ \A x \in usPruned : \E sum \in usArchive : \E r \in UsAllRows(sum) : x = UsText(r)
UsImports ==
  /\ usImport.status = "completed" =>
       \/ usImport.sum \in usArchive
       \/ UsLeft(usImport.sum)
       \/ usImport.sum = usFile /\ usFile \in UsGood /\ UsAllRows(usFile) \subseteq usRows
  /\ usStage \in {"opened", "hashed", "running", "committed", "completed"} => usFile # "gone"
  /\ usStage \in {"running", "committed"} => usImport = [sum |-> usFile, status |-> "running"]
  /\ usStage = "committed" => usFile \in UsGood /\ UsAllRows(usFile) \subseteq usRows
  /\ usStage = "completed" => usImport = [sum |-> usFile, status |-> "completed"]
  /\ usStage \in {"imported", "ready"} => usFile = "gone"

(* The ceilings: with all that the turns that run may cost, a ledger that   *)
(* works stays below them; and a job waits or runs only where one works or  *)
(* was given up.                                                            *)
UsRunners == {w \in UsWorkers : usRunning[w]}
UsAtStake == UsMaxCost * Cardinality(UsRunners)
UsBudget ==
  /\ UsLimitKept
  /\ ~UsUp => \A w \in UsWorkers : usQueued[w] = 0 /\ ~usRunning[w]
  /\ usStage # "broken" => /\ usUsed.today + UsAtStake < UsDaily + UsSlack
                           /\ usUsed.month + UsAtStake < UsMonthly + UsSlack

UsInv == UsTypeOK /\ UsCounted /\ UsImports /\ UsBudget

(* The lines of the files.                                                  *)
LEMMA UsFiles ==
  /\ UsAllRows("torn") = {UsRow("torn", 1), UsRow("torn", 2)}
  /\ UsAllRows("whole") = {UsRow("whole", 1), UsRow("whole", 2)}
  /\ UsAllRows("longer") = {UsRow("longer", 1), UsRow("longer", 2), UsRow("longer", 3)}
  /\ UsAllRows("later") = {UsRow("later", 1)}
  /\ UsText(UsRow("whole", 1)) = "l1" /\ UsText(UsRow("whole", 2)) = "l2" /\ UsText(UsRow("later", 1)) = "l4"
  /\ UsText(UsRow("longer", 1)) = "l1" /\ UsText(UsRow("longer", 2)) = "l2" /\ UsText(UsRow("longer", 3)) = "l3"
  /\ ~UsReadable("torn") /\ UsReadable("whole") /\ UsReadable("longer") /\ UsReadable("later")
<1>1. PICK torn, whole, longer, later :
        /\ torn = <<"l1", "unreadable">> /\ whole = <<"l1", "l2">>
        /\ longer = <<"l1", "l2", "l3">> /\ later = <<"l4">>
  OBVIOUS
<1>2. UsLines("torn") = torn /\ UsLines("whole") = whole /\ UsLines("longer") = longer /\ UsLines("later") = later
  BY <1>1 DEF UsLines
<1>3. /\ DOMAIN torn = {1, 2} /\ DOMAIN whole = {1, 2} /\ DOMAIN longer = {1, 2, 3} /\ DOMAIN later = {1}
      /\ torn[2] = "unreadable" /\ whole[1] = "l1" /\ whole[2] = "l2" /\ later[1] = "l4"
      /\ longer[1] = "l1" /\ longer[2] = "l2" /\ longer[3] = "l3"
  BY <1>1
<1>4. /\ UsAllRows("torn") = {UsRow("torn", 1), UsRow("torn", 2)}
      /\ UsAllRows("whole") = {UsRow("whole", 1), UsRow("whole", 2)}
      /\ UsAllRows("longer") = {UsRow("longer", 1), UsRow("longer", 2), UsRow("longer", 3)}
      /\ UsAllRows("later") = {UsRow("later", 1)}
  BY <1>2, <1>3 DEF UsAllRows
<1>5. /\ UsText(UsRow("whole", 1)) = "l1" /\ UsText(UsRow("whole", 2)) = "l2" /\ UsText(UsRow("later", 1)) = "l4"
      /\ UsText(UsRow("longer", 1)) = "l1" /\ UsText(UsRow("longer", 2)) = "l2" /\ UsText(UsRow("longer", 3)) = "l3"
  BY <1>2, <1>3 DEF UsText, UsRow
<1>6. ~UsReadable("torn") /\ UsReadable("whole") /\ UsReadable("longer") /\ UsReadable("later")
  BY <1>2, <1>3 DEF UsReadable
<1> QED
  BY <1>4, <1>5, <1>6

(* Lines of different files that can be read differ, but for those that a   *)
(* file kept when it was written to.                                        *)
LEMMA UsTexts ==
  ASSUME NEW s \in UsGood, NEW t \in UsGood, NEW r \in UsAllRows(s), NEW q \in UsAllRows(t)
  PROVE  /\ r.sum = s /\ q.sum = t /\ r \in UNION {UsAllRows(u) : u \in UsSums}
         /\ UsText(r) = UsText(q) => r = q \/ {s, t} = {"whole", "longer"}
<1>1. /\ r.sum = s /\ q.sum = t
  BY UsFiles DEF UsRow, UsGood
<1>2. UsText(r) = UsText(q) => r = q \/ {s, t} = {"whole", "longer"}
  <2>1. s = "whole" => r \in {UsRow("whole", 1), UsRow("whole", 2)}
    BY UsFiles
  <2>2. s = "longer" => r \in {UsRow("longer", 1), UsRow("longer", 2), UsRow("longer", 3)}
    BY UsFiles
  <2>3. s = "later" => r = UsRow("later", 1)
    BY UsFiles
  <2>4. t = "whole" => q \in {UsRow("whole", 1), UsRow("whole", 2)}
    BY UsFiles
  <2>5. t = "longer" => q \in {UsRow("longer", 1), UsRow("longer", 2), UsRow("longer", 3)}
    BY UsFiles
  <2>6. t = "later" => q = UsRow("later", 1)
    BY UsFiles
  <2>7. CASE s = t
    BY <2>1, <2>2, <2>3, <2>4, <2>5, <2>6, <2>7, UsFiles DEF UsGood
  <2>8. CASE s # t
    <3>1. {s, t} = {"whole", "longer"} \/ s = "later" \/ t = "later"
      BY <2>8 DEF UsGood
    <3>2. s = "later" => UsText(r) = "l4" /\ UsText(q) # "l4"
      BY <2>3, <2>4, <2>5, <2>8, UsFiles DEF UsGood
    <3>3. t = "later" => UsText(q) = "l4" /\ UsText(r) # "l4"
      BY <2>1, <2>2, <2>6, <2>8, UsFiles DEF UsGood
    <3> QED
      BY <3>1, <3>2, <3>3
  <2> QED
    BY <2>7, <2>8
<1>3. r \in UNION {UsAllRows(u) : u \in UsSums}
  BY DEF UsSums, UsGood
<1> QED
  BY <1>1, <1>2, <1>3

(* What the turns that run may cost, is bounded by a turn of each worker.   *)
LEMMA UsStake ==
  ASSUME NEW A, NEW B, A \subseteq B, B \subseteq UsWorkers
  PROVE  /\ Cardinality(A) \in Nat /\ Cardinality(B) \in Nat
         /\ UsMaxCost * Cardinality(A) \in Nat /\ UsMaxCost * Cardinality(B) \in Nat
         /\ UsMaxCost * Cardinality(A) <= UsMaxCost * Cardinality(B)
         /\ A # B => UsMaxCost * Cardinality(A) + UsMaxCost <= UsMaxCost * Cardinality(B)
<1>1. IsFiniteSet(B) /\ IsFiniteSet(A)
  BY UsAssumption, FS_Subset
<1>2. Cardinality(A) <= Cardinality(B) /\ Cardinality(A) \in Nat /\ Cardinality(B) \in Nat
      /\ (A # B => Cardinality(A) < Cardinality(B))
  BY <1>1, FS_Subset, FS_CardinalityType
<1>3. ASSUME NEW c \in Nat, NEW m \in Nat, NEW n \in Nat, m <= n
      PROVE  /\ c * m \in Nat /\ c * n \in Nat /\ c * m <= c * n
             /\ m < n => c * m + c <= c * n
  <2>1. PICK d \in Nat : n = m + d
    <3>1. n - m \in Nat /\ n = m + (n - m)
      BY <1>3
    <3> QED
      BY <3>1
  <2>2. c * n = c * m + c * d /\ c * d \in Nat /\ c * m \in Nat
    BY <2>1
  <2>3. d > 0 => c * d >= c
    <3>1. ASSUME d > 0 PROVE c * d >= c
      <4>1. PICK e \in Nat : d = e + 1
        <5>1. d - 1 \in Nat /\ d = (d - 1) + 1
          BY <3>1
        <5> QED
          BY <5>1
      <4>2. c * d = c * e + c /\ c * e \in Nat
        BY <4>1
      <4> QED
        BY <4>2
    <3> QED
      BY <3>1
  <2> QED
    BY <2>1, <2>2, <2>3
<1>4. PICK m \in Nat, n \in Nat : m = Cardinality(A) /\ n = Cardinality(B)
  BY <1>2
<1> QED
  BY <1>2, <1>3, <1>4, UsAssumption

(* Any of the workers that run are within the slack.                        *)
LEMMA UsRoom ==
  ASSUME UsTypeOK
  PROVE  /\ UsSlack \in Nat
         /\ \A A : A \subseteq UsWorkers =>
              UsMaxCost * Cardinality(A) <= UsSlack /\ UsMaxCost * Cardinality(A) \in Nat
<1>1. PICK all \in Nat : all = UsMaxCost * Cardinality(UsWorkers)
  BY UsStake
<1>2. usOver \in Nat /\ UsSlack = all + usOver
  BY <1>1 DEF UsTypeOK, UsSlack
<1>3. ASSUME NEW A, A \subseteq UsWorkers
      PROVE  UsMaxCost * Cardinality(A) <= UsSlack /\ UsMaxCost * Cardinality(A) \in Nat
  <2>1. UsMaxCost * Cardinality(A) \in Nat /\ UsMaxCost * Cardinality(A) <= UsMaxCost * Cardinality(UsWorkers)
    BY <1>3, UsStake
  <2>2. PICK some \in Nat : some = UsMaxCost * Cardinality(A) /\ some <= all
    BY <1>1, <2>1
  <2> QED
    BY <1>2, <2>2
<1> QED
  BY <1>2, <1>3

(* One more worker stakes at most one more turn.                            *)
LEMMA UsOneMore ==
  ASSUME NEW B, B \subseteq UsWorkers, NEW w \in UsWorkers, NEW A, A \subseteq B \cup {w},
         NEW before \in Nat, before = UsMaxCost * Cardinality(B),
         NEW after \in Nat, after = UsMaxCost * Cardinality(A)
  PROVE  after <= before + UsMaxCost
<1>1. PICK C : C = B \cup {w}
  OBVIOUS
<1>2. IsFiniteSet(B) /\ Cardinality(B) \in Nat
  BY UsAssumption, FS_Subset, FS_CardinalityType
<1>3. Cardinality(C) = Cardinality(B) \/ Cardinality(C) = Cardinality(B) + 1
  BY <1>1, <1>2, FS_AddElement
<1>4. PICK m \in Nat, n \in Nat : m = Cardinality(B) /\ n = Cardinality(C) /\ (n = m \/ n = m + 1)
  BY <1>2, <1>3
<1>5. UsMaxCost * (m + 1) = UsMaxCost * m + UsMaxCost /\ UsMaxCost * m = before
  BY <1>4, UsAssumption
<1>6. PICK most \in Nat : most = UsMaxCost * n /\ most <= before + UsMaxCost
  BY <1>4, <1>5, UsAssumption
<1>7. UsMaxCost * Cardinality(A) <= UsMaxCost * Cardinality(C)
  BY <1>1, UsStake
<1> QED
  BY <1>4, <1>6, <1>7, UsAssumption

(* A step of the start, a restart or a hand on the file: the work waits, or *)
(* ends with the process.                                                   *)
UsIdles ==
  /\ usUsed' = usUsed /\ usOver' = usOver /\ usDay' = usDay /\ usJobs' = usJobs
  /\ \/ usQueued' = usQueued /\ usRunning' = usRunning /\ ~UsUp
     \/ usQueued' = [w \in UsWorkers |-> 0] /\ usRunning' = [w \in UsWorkers |-> FALSE] /\ usStage' = "down"

(* A step in which the work waits, or ends, keeps the budget.               *)
LEMMA UsIdleKept ==
  ASSUME UsTypeOK, UsBudget, UsIdles
  PROVE  UsBudget'
<1>0. UsSlack \in Nat /\ UsSlack' = UsSlack
  BY UsRoom DEF UsIdles, UsSlack
<1>1. UsLimitKept'
  BY <1>0 DEF UsIdles, UsLimitKept, UsBudget
<1>2. UsRunners' = {} /\ \A w \in UsWorkers : usQueued'[w] = 0 /\ ~usRunning'[w]
  <2>1. CASE usQueued' = usQueued /\ usRunning' = usRunning /\ ~UsUp
    <3>1. \A w \in UsWorkers : usQueued[w] = 0 /\ ~usRunning[w]
      BY <2>1 DEF UsBudget
    <3>2. \A w \in UsWorkers : usQueued'[w] = 0 /\ ~usRunning'[w]
      BY <2>1, <3>1, Zenon
    <3> QED
      BY <3>2, Zenon DEF UsRunners
  <2>2. CASE usQueued' = [w \in UsWorkers |-> 0] /\ usRunning' = [w \in UsWorkers |-> FALSE]
    <3>1. \A w \in UsWorkers : usQueued'[w] = 0 /\ ~usRunning'[w]
      BY <2>2, Zenon
    <3> QED
      BY <3>1, Zenon DEF UsRunners
  <2> QED
    BY <2>1, <2>2 DEF UsIdles
<1>3. UsAtStake' = 0
  <2>1. Cardinality({}) = 0
    BY FS_EmptySet
  <2>2. UsMaxCost * 0 = 0
    BY UsAssumption
  <2>3. UsAtStake' = UsMaxCost * Cardinality(UsRunners')
    BY DEF UsAtStake
  <2> QED
    BY <1>2, <2>1, <2>2, <2>3
<1>4. usUsed'.today \in Nat /\ usUsed'.month \in Nat
  BY DEF UsTypeOK, UsIdles
<1>5. usUsed'.today + UsAtStake' < UsDaily + UsSlack' /\ usUsed'.month + UsAtStake' < UsMonthly + UsSlack'
  BY <1>1, <1>3, <1>4 DEF UsLimitKept
<1> QED
  BY <1>1, <1>2, <1>5 DEF UsBudget

(* The steps of the start, one by one.                                      *)
UsStarts ==
  \/ UsOpen \/ UsHash \/ UsMarkRunning \/ UsCommit \/ UsImportFails \/ UsMarkCompleted \/ UsArchiveFile \/ UsReady
  \/ UsGivesUp("down") \/ UsGivesUp("opened") \/ UsGivesUp("completed") \/ UsRestart \/ UsWrites

(* Every step of the start is one in which the work waits.                  *)
LEMMA UsStartIdles ==
  ASSUME UsTypeOK, UsBudget, UsStarts
  PROVE  UsIdles
<1>1. CASE UsOpen \/ UsHash \/ UsMarkRunning \/ UsCommit \/ UsImportFails \/ UsMarkCompleted \/ UsArchiveFile \/ UsReady
  BY <1>1 DEF UsOpen, UsHash, UsMarkRunning, UsCommit, UsImportFails, UsMarkCompleted, UsArchiveFile, UsReady, UsStep, UsIdles, UsUp, usWork
<1>2. CASE UsGivesUp("down") \/ UsGivesUp("opened") \/ UsGivesUp("completed")
  BY <1>2 DEF UsGivesUp, UsIdles, UsUp, usWork
<1>3. CASE UsRestart
  BY <1>3 DEF UsRestart, UsIdles
<1>4. CASE UsWrites
  BY <1>4 DEF UsWrites, UsIdles, UsUp, usWork
<1> QED
  BY <1>1, <1>2, <1>3, <1>4 DEF UsStarts

(* A step that leaves files, rows and archive alone.                        *)
LEMMA UsStays ==
  ASSUME UsTypeOK, UsCounted, UsImports, UNCHANGED usLegacy,
         \/ usStage' \in {usStage, "down", "broken"}
         \/ UsOpen \/ UsHash
  PROVE  UsCounted' /\ UsImports'
<1>1. /\ usFile' = usFile /\ usImport' = usImport /\ usRows' = usRows /\ usArchive' = usArchive
      /\ usPruned' = usPruned /\ usGrown' = usGrown
  BY DEF usLegacy
<1>2. UsCounted'
  BY <1>1 DEF UsCounted, UsLeft
<1>3. CASE usStage' \in {usStage, "down", "broken"}
  <2>1. CASE usStage' = usStage
    BY <1>1, <1>2, <2>1 DEF UsImports, UsLeft
  <2>2. CASE usStage' \in {"down", "broken"}
    BY <1>1, <1>2, <2>2 DEF UsImports, UsLeft
  <2> QED
    BY <1>2, <1>3, <2>1, <2>2
<1>4. CASE UsOpen
  BY <1>1, <1>2, <1>4 DEF UsImports, UsLeft, UsOpen, UsStep
<1>5. CASE UsHash
  BY <1>1, <1>2, <1>5 DEF UsImports, UsLeft, UsHash, UsStep, UsKnown
<1> QED
  BY <1>3, <1>4, <1>5

(* The lines of a file that can be read are counted.                        *)
LEMMA UsCommits ==
  ASSUME UsTypeOK, UsCounted, UsImports, UsCommit
  PROVE  UsCounted' /\ UsImports' /\ usRows' \subseteq UNION {UsAllRows(s) : s \in UsSums}
<1>1. /\ usStage = "running" /\ usStage' = "committed" /\ UsReadable(usFile) /\ usRows' = usRows \cup UsAllRows(usFile)
      /\ UNCHANGED <<usFile, usImport, usArchive, usPruned, usGrown>>
  BY DEF UsCommit, UsStep, UsInserted
<1>2. usFile \in UsGood
  BY <1>1, UsFiles DEF UsTypeOK, UsSums, UsImports, UsGood
<1>3. ASSUME NEW r \in usRows'
      PROVE  /\ r.sum \in UsGood /\ r \in UsAllRows(r.sum)
             /\ r.sum \in usArchive \/ r.sum = usFile \/ UsLeft(r.sum)
             /\ UsText(r) \notin usPruned
  <2>1. CASE r \in usRows
    BY <2>1 DEF UsCounted
  <2>2. CASE r \in UsAllRows(usFile)
    <3>1. r.sum = usFile
      BY <1>2, <2>2, UsTexts
    <3>2. ASSUME UsText(r) \in usPruned PROVE FALSE
      <4>1. PICK sum \in usArchive : \E q \in UsAllRows(sum) : UsText(r) = UsText(q)
        BY <3>2 DEF UsCounted
      <4>2. PICK q \in UsAllRows(sum) : UsText(r) = UsText(q)
        BY <4>1
      <4>3. sum \in UsGood /\ sum # usFile /\ usFile \notin {"whole", "longer"}
        BY DEF UsCounted
      <4>4. r = q \/ {usFile, sum} = {"whole", "longer"}
        BY <1>2, <2>2, <4>2, <4>3, UsTexts
      <4>5. r = q
        BY <4>3, <4>4
      <4>6. r.sum = usFile /\ q.sum = sum
        BY <1>2, <2>2, <4>2, <4>3, UsTexts
      <4> QED
        BY <4>3, <4>5, <4>6
    <3> QED
      BY <1>2, <2>2, <3>1, <3>2
  <2> QED
    BY <1>1, <2>1, <2>2
<1>4. UsCounted'
  <2>1. \A sum \in usArchive' : \A r \in UsAllRows(sum) : UsText(r) \in usPruned' \/ r \in usRows'
    BY <1>1 DEF UsCounted
  <2> QED
    BY <1>1, <1>3, <2>1 DEF UsCounted, UsLeft
<1>5. UsImports'
  BY <1>1, <1>2 DEF UsImports, UsLeft
<1>6. usRows' \subseteq UNION {UsAllRows(s) : s \in UsSums}
  BY <1>1, <1>2 DEF UsTypeOK, UsSums, UsGood
<1> QED
  BY <1>4, <1>5, <1>6

(* The file goes to the archive when its lines are counted.                 *)
LEMMA UsArchives ==
  ASSUME UsTypeOK, UsCounted, UsImports, UsArchiveFile
  PROVE  UsCounted' /\ UsImports' /\ usArchive' \subseteq UsSums
<1>1. /\ usStage = "completed" /\ usStage' = "imported" /\ usArchive' = usArchive \cup {usFile} /\ usFile' = "gone"
      /\ UNCHANGED <<usImport, usRows, usPruned, usGrown>>
  BY DEF UsArchiveFile, UsStep
<1>2. usImport = [sum |-> usFile, status |-> "completed"] /\ usFile # "gone"
  BY <1>1 DEF UsImports
<1>3. usFile \in UsGood /\ UsAllRows(usFile) \subseteq usRows
  <2>1. ~UsLeft(usFile)
    BY DEF UsLeft, UsCounted
  <2> QED
    BY <1>2, <2>1 DEF UsImports, UsCounted
<1>4. /\ usArchive' \subseteq UsGood /\ usFile' \notin usArchive'
      /\ usFile' \notin {"torn", "whole", "longer"} /\ ~({"whole", "longer"} \subseteq usArchive')
      /\ (usGrown' => "longer" \in usArchive')
  BY <1>1, <1>2, <1>3 DEF UsCounted, UsGood
<1>5. \A r \in usRows' : /\ r.sum \in UsGood /\ r \in UsAllRows(r.sum)
                         /\ r.sum \in usArchive' \/ r.sum = usFile' \/ UsLeft(r.sum)'
                         /\ UsText(r) \notin usPruned'
  BY <1>1 DEF UsCounted, UsLeft
<1>6. \A sum \in usArchive' : \A r \in UsAllRows(sum) : UsText(r) \in usPruned' \/ r \in usRows'
  BY <1>1, <1>3 DEF UsCounted
<1>7. \A x \in usPruned' : \E sum \in usArchive' : \E r \in UsAllRows(sum) : x = UsText(r)
  BY <1>1 DEF UsCounted
<1>8. UsCounted'
  BY <1>4, <1>5, <1>6, <1>7 DEF UsCounted, UsLeft
<1>9. UsImports'
  BY <1>1, <1>2 DEF UsImports
<1> QED
  BY <1>3, <1>4, <1>8, <1>9 DEF UsSums, UsGood

(* What is too old is removed: nothing, or all of it. The lines that a file *)
(* kept when it was written to are in the archive too.                      *)
LEMMA UsPrunes ==
  ASSUME UsTypeOK, UsCounted, UsImports, UsReady
  PROVE  UsCounted' /\ UsImports' /\ usRows' \subseteq usRows
<1>1. PICK rows \in {{}, usRows} : UsPrune(rows)
  BY DEF UsReady
<1>2. /\ usStage = "imported" /\ usStage' = "ready" /\ UNCHANGED <<usFile, usImport, usArchive, usGrown>>
      /\ usPruned' = usPruned \cup {UsText(r) : r \in rows} /\ usRows' = usRows \ rows
  BY <1>1 DEF UsReady, UsStep, UsPrune
<1>3. usFile = "gone" /\ rows \subseteq usRows
  BY <1>1, <1>2 DEF UsImports
<1>4. ASSUME NEW r \in usRows' PROVE UsText(r) \notin usPruned'
  BY <1>1, <1>2 DEF UsCounted
<1>5. ASSUME NEW sum \in usArchive', NEW r \in UsAllRows(sum) PROVE UsText(r) \in usPruned' \/ r \in usRows'
  BY <1>2 DEF UsCounted
<1>6. ASSUME NEW x \in usPruned' PROVE \E sum \in usArchive' : \E r \in UsAllRows(sum) : x = UsText(r)
  <2>1. CASE x \in usPruned
    BY <1>2, <2>1 DEF UsCounted
  <2>2. CASE \E r \in rows : x = UsText(r)
    <3>1. PICK r \in rows : x = UsText(r)
      BY <2>2
    <3>2. r.sum \in UsGood /\ r \in UsAllRows(r.sum) /\ (r.sum \in usArchive \/ UsLeft(r.sum))
      BY <1>3 DEF UsCounted, UsGood
    <3>3. CASE r.sum \in usArchive
      BY <1>2, <3>1, <3>2, <3>3
    <3>4. CASE UsLeft(r.sum)
      <4>1. "longer" \in usArchive' /\ r \in UsAllRows("whole")
        BY <1>2, <1>3, <3>2, <3>4 DEF UsLeft, UsCounted
      <4>2. \E q \in UsAllRows("longer") : UsText(r) = UsText(q)
        <5>1. r = UsRow("whole", 1) \/ r = UsRow("whole", 2)
          BY <4>1, UsFiles
        <5>2. CASE r = UsRow("whole", 1)
          <6>1. UsText(r) = UsText(UsRow("longer", 1)) /\ UsRow("longer", 1) \in UsAllRows("longer")
            BY <5>2, UsFiles
          <6> QED
            BY <6>1
        <5>3. CASE r = UsRow("whole", 2)
          <6>1. UsText(r) = UsText(UsRow("longer", 2)) /\ UsRow("longer", 2) \in UsAllRows("longer")
            BY <5>3, UsFiles
          <6> QED
            BY <6>1
        <5> QED
          BY <5>1, <5>2, <5>3
      <4> QED
        BY <3>1, <4>1, <4>2
    <3> QED
      BY <3>2, <3>3, <3>4
  <2> QED
    BY <1>2, <2>1, <2>2
<1>7. UsCounted'
  BY <1>2, <1>4, <1>5, <1>6 DEF UsCounted, UsLeft
<1>8. UsImports'
  BY <1>2, <1>3 DEF UsImports, UsLeft, UsGood
<1> QED
  BY <1>2, <1>7, <1>8

(* The file is repaired, or written to, or a new one is begun.              *)
LEMMA UsWritten ==
  ASSUME UsTypeOK, UsCounted, UsImports, UsWrites
  PROVE  UsCounted' /\ UsImports' /\ usFile' \in UsSums /\ usGrown' \in BOOLEAN
<1>1. usStage = "down" /\ UNCHANGED <<usStage, usImport, usRows, usArchive, usPruned>>
  BY DEF UsWrites
<1>2. CASE usFile = "whole" /\ usFile' = "longer" /\ usGrown' = (\E r \in usRows : r.sum = usFile)
  <2>1. usArchive = {} /\ ~usGrown /\ \A r \in usRows : r.sum = "whole"
    BY <1>2 DEF UsCounted, UsLeft
  <2>2. \A r \in usRows : UsLeft(r.sum)'
    BY <1>2, <2>1 DEF UsLeft
  <2>3. UsCounted'
    BY <1>1, <1>2, <2>1, <2>2 DEF UsCounted
  <2>4. usImport.status = "completed" => UsLeft(usImport.sum)'
    <3>1. SUFFICES ASSUME usImport.status = "completed" PROVE UsLeft(usImport.sum)'
      OBVIOUS
    <3>2. usImport.sum = "whole" /\ UsAllRows("whole") \subseteq usRows
      BY <1>2, <2>1, <3>1 DEF UsImports, UsLeft
    <3>3. UsRow("whole", 1) \in usRows
      BY <3>2, UsFiles
    <3> QED
      BY <1>1, <1>2, <2>1, <3>2, <3>3 DEF UsLeft
  <2>5. UsImports'
    BY <1>1, <2>4 DEF UsImports
  <2> QED
    BY <1>2, <2>3, <2>5 DEF UsSums
<1>3. CASE /\ usGrown' = usGrown
           /\ \/ usFile = "torn" /\ usFile' = "whole"
              \/ usFile = "gone" /\ "later" \notin usArchive /\ usFile' = "later"
  <2>1. \A r \in usRows : r.sum \in UsGood /\ (r.sum \in usArchive \/ UsLeft(r.sum))
    BY <1>3 DEF UsCounted, UsGood
  <2>2. usFile' \notin usArchive /\ usFile' \in {"whole", "later"} /\ (usFile' = "whole" => usArchive = {})
    BY <1>3 DEF UsCounted
  <2>3. usGrown => "longer" \in usArchive
    BY <1>3 DEF UsCounted
  <2>4. UsCounted'
    BY <1>1, <1>3, <2>1, <2>2, <2>3 DEF UsCounted, UsLeft
  <2>5. usImport.status = "completed" => usImport.sum \in usArchive \/ UsLeft(usImport.sum)
    BY <1>3 DEF UsImports, UsGood
  <2>6. UsImports'
    BY <1>1, <1>3, <2>5 DEF UsImports, UsLeft
  <2> QED
    BY <1>3, <2>2, <2>4, <2>6 DEF UsSums, UsTypeOK
<1> QED
  BY <1>2, <1>3 DEF UsWrites

(* The start keeps the types, the import and the ceilings.                  *)
LEMMA UsStarted ==
  ASSUME UsInv, UsStarts
  PROVE  UsInv'
<1>1. UsTypeOK /\ UsCounted /\ UsImports /\ UsBudget
  BY DEF UsInv
<1>2. UsIdles /\ UsBudget'
  BY <1>1, UsStartIdles, UsIdleKept
<1>3. /\ usUsed' = usUsed /\ usOver' = usOver /\ usDay' = usDay /\ usJobs' = usJobs
      /\ usQueued' \in [UsWorkers -> 0 .. UsQueue] /\ usRunning' \in [UsWorkers -> BOOLEAN]
  <2>1. usUsed' = usUsed /\ usOver' = usOver /\ usDay' = usDay /\ usJobs' = usJobs
    BY <1>2 DEF UsIdles
  <2>2. CASE usQueued' = usQueued /\ usRunning' = usRunning
    BY <1>1, <2>1, <2>2 DEF UsTypeOK
  <2>3. CASE usQueued' = [w \in UsWorkers |-> 0] /\ usRunning' = [w \in UsWorkers |-> FALSE]
    <3>1. 0 \in 0 .. UsQueue
      BY UsAssumption
    <3>2. usQueued' \in [UsWorkers -> 0 .. UsQueue]
      BY <2>3, <3>1
    <3>3. usRunning' \in [UsWorkers -> BOOLEAN]
      BY <2>3, Zenon
    <3> QED
      BY <2>1, <3>2, <3>3
  <2> QED
    BY <1>2, <2>2, <2>3 DEF UsIdles
<1>4. SUFFICES /\ UsCounted' /\ UsImports' /\ usGrown' \in BOOLEAN /\ usStage' \in UsStages /\ usCrashes' \in 0 .. UsMaxCrashes
               /\ usFile' \in UsSums \cup {"gone"} /\ usRows' \subseteq UNION {UsAllRows(s) : s \in UsSums}
               /\ usArchive' \subseteq UsSums
               /\ usImport' \in [sum : UsSums \cup {"none"}, status : {"none", "running", "failed", "completed"}]
  BY <1>1, <1>2, <1>3 DEF UsInv, UsTypeOK
<1>5. /\ usGrown \in BOOLEAN /\ usStage \in UsStages /\ usCrashes \in 0 .. UsMaxCrashes /\ usFile \in UsSums \cup {"gone"}
      /\ usRows \subseteq UNION {UsAllRows(s) : s \in UsSums} /\ usArchive \subseteq UsSums
      /\ usImport \in [sum : UsSums \cup {"none"}, status : {"none", "running", "failed", "completed"}]
  BY <1>1 DEF UsTypeOK
<1>6. CASE UsOpen \/ UsHash
  <2>1. UNCHANGED usLegacy /\ usCrashes' = usCrashes /\ usStage' \in UsStages
    BY <1>6 DEF UsOpen, UsHash, UsStep, UsStages
  <2>2. UsCounted' /\ UsImports'
    BY <1>1, <1>6, <2>1, UsStays
  <2> QED
    BY <1>5, <2>1, <2>2 DEF usLegacy
<1>7. CASE UsMarkRunning
  <2>1. /\ usStage = "hashed" /\ usStage' = "running" /\ usImport' = [sum |-> usFile, status |-> "running"]
        /\ UNCHANGED <<usFile, usRows, usArchive, usPruned, usGrown>> /\ usCrashes' = usCrashes
    BY <1>7 DEF UsMarkRunning, UsStep
  <2>2. usFile # "gone" /\ usFile \in UsSums
    BY <1>1, <1>5, <2>1 DEF UsImports
  <2>3. UsCounted'
    BY <1>1, <2>1 DEF UsCounted, UsLeft
  <2>4. UsImports'
    BY <2>1, <2>2 DEF UsImports, UsLeft
  <2> QED
    BY <1>5, <2>1, <2>2, <2>3, <2>4 DEF UsStages
<1>8. CASE UsCommit
  <2>1. UsCounted' /\ UsImports' /\ usRows' \subseteq UNION {UsAllRows(s) : s \in UsSums}
    BY <1>1, <1>8, UsCommits
  <2> QED
    BY <1>5, <1>8, <2>1 DEF UsCommit, UsStep, UsStages
<1>9. CASE UsImportFails
  <2>1. /\ usStage' = "broken" /\ usImport' = [usImport EXCEPT !.status = "failed"]
        /\ UNCHANGED <<usFile, usRows, usArchive, usPruned, usGrown>> /\ usCrashes' = usCrashes
    BY <1>9 DEF UsImportFails, UsStep
  <2>2. UsCounted'
    BY <1>1, <2>1 DEF UsCounted, UsLeft
  <2>3. usImport'.status = "failed" /\ usImport' \in [sum : UsSums \cup {"none"}, status : {"none", "running", "failed", "completed"}]
    BY <1>5, <2>1
  <2>4. UsImports'
    BY <2>1, <2>3 DEF UsImports
  <2> QED
    BY <1>5, <2>1, <2>2, <2>3, <2>4 DEF UsStages
<1>10. CASE UsMarkCompleted
  <2>1. /\ usStage = "committed" /\ usStage' = "completed" /\ usImport' = [usImport EXCEPT !.status = "completed"]
        /\ UNCHANGED <<usFile, usRows, usArchive, usPruned, usGrown>> /\ usCrashes' = usCrashes
    BY <1>10 DEF UsMarkCompleted, UsStep
  <2>2. UsCounted'
    BY <1>1, <2>1 DEF UsCounted, UsLeft
  <2>3. usImport = [sum |-> usFile, status |-> "running"] /\ usFile \in UsGood /\ UsAllRows(usFile) \subseteq usRows
    BY <1>1, <2>1 DEF UsImports
  <2>4. usImport' = [sum |-> usFile, status |-> "completed"]
    BY <2>1, <2>3
  <2>5. UsImports'
    <3>1. /\ usFile' = usFile /\ usFile' \in UsGood /\ UsAllRows(usFile') \subseteq usRows'
          /\ usStage' = "completed" /\ usFile' # "gone" /\ usImport'.sum = usFile'
      BY <2>1, <2>3, <2>4 DEF UsGood
    <3> QED
      BY <2>4, <3>1 DEF UsImports
  <2> QED
    BY <1>5, <2>1, <2>2, <2>3, <2>4, <2>5 DEF UsStages, UsSums, UsGood
<1>11. CASE UsArchiveFile
  <2>1. UsCounted' /\ UsImports' /\ usArchive' \subseteq UsSums
    BY <1>1, <1>11, UsArchives
  <2> QED
    BY <1>5, <1>11, <2>1 DEF UsArchiveFile, UsStep, UsStages
<1>12. CASE UsReady
  <2>1. UsCounted' /\ UsImports' /\ usRows' \subseteq usRows
    BY <1>1, <1>12, UsPrunes
  <2> QED
    BY <1>5, <1>12, <2>1 DEF UsReady, UsStep, UsStages
<1>13. CASE UsWrites
  <2>1. UsCounted' /\ UsImports' /\ usFile' \in UsSums /\ usGrown' \in BOOLEAN
    BY <1>1, <1>13, UsWritten
  <2> QED
    BY <1>5, <1>13, <2>1 DEF UsWrites
<1>14. CASE UsGivesUp("down") \/ UsGivesUp("opened") \/ UsGivesUp("completed") \/ UsRestart
  <2>1. UNCHANGED usLegacy /\ UsCrashed /\ usStage' \in {"broken", "down"}
    BY <1>14 DEF UsGivesUp, UsRestart, usLegacy
  <2>2. UsCounted' /\ UsImports'
    BY <1>1, <2>1, UsStays
  <2>3. usCrashes' \in 0 .. UsMaxCrashes
    BY <1>5, <2>1, UsAssumption DEF UsCrashed
  <2> QED
    BY <1>5, <2>1, <2>2, <2>3 DEF usLegacy, UsStages
<1> QED
  BY <1>6, <1>7, <1>8, <1>9, <1>10, <1>11, <1>12, <1>13, <1>14 DEF UsStarts

(* A step of the work leaves the import alone.                              *)
UsWorks == \E w \in UsWorkers : UsEnqueue(w) \/ UsBegin(w) \/ UsFinish(w)

(* Steps of the work keep what is known of the import.                      *)
LEMMA UsImportStays ==
  ASSUME UsCounted, UsImports, UNCHANGED <<usStage, usLegacy>>
  PROVE  UsCounted' /\ UsImports'
<1>1. /\ usStage' = usStage /\ usFile' = usFile /\ usImport' = usImport /\ usRows' = usRows
      /\ usArchive' = usArchive /\ usPruned' = usPruned /\ usGrown' = usGrown
  BY DEF usLegacy
<1>2. UsCounted'
  BY <1>1 DEF UsCounted, UsLeft
<1>3. UsImports'
  BY <1>1 DEF UsImports, UsLeft
<1> QED
  BY <1>2, <1>3

(* A job is accepted.                                                       *)
LEMMA UsEnqueued ==
  ASSUME UsInv, NEW w \in UsWorkers, UsEnqueue(w)
  PROVE  UsInv'
<1>1. UsTypeOK /\ UsCounted /\ UsImports /\ UsBudget
  BY DEF UsInv
<1>2. /\ UsUp /\ usJobs' \in 0 .. UsMaxJobs /\ usQueued[w] < UsQueue /\ usQueued' = [usQueued EXCEPT ![w] = @ + 1]
      /\ UNCHANGED <<usStage, usLegacy, usUsed, usOver, usDay, usRunning>> /\ usCrashes' \in 0 .. UsMaxCrashes
  BY <1>1, UsAssumption DEF UsEnqueue, UsUnread, UsCrashed, UsTypeOK
<1>3. UsCounted' /\ UsImports'
  BY <1>1, <1>2, UsImportStays
<1>4. usQueued' \in [UsWorkers -> 0 .. UsQueue]
  BY <1>1, <1>2, UsAssumption DEF UsTypeOK
<1>5. UsTypeOK'
  BY <1>1, <1>2, <1>4 DEF UsTypeOK, usLegacy
<1>6. UsRunners' = UsRunners /\ UsUp'
  BY <1>2 DEF UsRunners, UsUp
<1>7. UsBudget'
  BY <1>1, <1>2, <1>6 DEF UsBudget, UsLimitKept, UsAtStake, UsSlack
<1> QED
  BY <1>3, <1>5, <1>7 DEF UsInv

(* Sums, apart from what they are sums of.                                  *)
LEMMA UsSums1 ==
  ASSUME NEW used \in Nat, NEW limit \in Nat, NEW stake \in Nat, NEW slack \in Nat, used < limit, stake <= slack
  PROVE  used + stake < limit + slack
OBVIOUS

(* Work that waits, and a cost within its stake, keep below the limit.      *)
LEMMA UsSums2 ==
  ASSUME NEW used \in Nat, NEW limit \in Nat, NEW before \in Nat, NEW after \in Nat, NEW cost \in Nat,
         NEW most \in Nat, after + most <= before, cost <= most, used + before < limit
  PROVE  used + after < limit /\ used + cost + after < limit /\ used + cost < limit
OBVIOUS

(* A job that begins asked the ledger, or the ledger could not be read and  *)
(* the slack grew by what its turn may cost.                                *)
LEMMA UsBegun ==
  ASSUME UsInv, NEW w \in UsWorkers, UsBegin(w)
  PROVE  UsInv'
<1>1. UsTypeOK /\ UsCounted /\ UsImports /\ UsBudget
  BY DEF UsInv
<1>2. PICK may \in BOOLEAN, more \in {0, UsMaxCost} :
        /\ usRunning' = [usRunning EXCEPT ![w] = may] /\ usOver' = usOver + more
        /\ usCrashes' \in 0 .. UsMaxCrashes
        /\ \/ may = UsMayRun /\ more = 0
           \/ may = TRUE /\ more = UsMaxCost
  <2>1. usOver \in Nat /\ usCrashes \in 0 .. UsMaxCrashes /\ usOver = usOver + 0
    BY <1>1 DEF UsTypeOK
  <2>2. CASE usRunning' = [usRunning EXCEPT ![w] = UsMayRun] /\ UNCHANGED <<usOver, usCrashes>>
    <3>1. UsMayRun \in BOOLEAN
      BY DEF UsMayRun, UsAllowed
    <3> QED
      BY <2>1, <2>2, <3>1
  <2>3. CASE UsUnread /\ usRunning' = [usRunning EXCEPT ![w] = TRUE] /\ usOver' = usOver + UsMaxCost
    <3>1. usCrashes' \in 0 .. UsMaxCrashes
      BY <2>1, <2>3, UsAssumption DEF UsUnread, UsCrashed
    <3> QED
      BY <2>3, <3>1, Zenon
  <2> QED
    BY <2>2, <2>3 DEF UsBegin
<1>3. /\ usQueued[w] > 0 /\ usQueued' = [usQueued EXCEPT ![w] = @ - 1]
      /\ UNCHANGED <<usStage, usLegacy, usUsed, usDay, usJobs>>
  BY DEF UsBegin
<1>4. UsUp /\ UsUp'
  <2>1. UsUp
    BY <1>1, <1>3 DEF UsBudget
  <2> QED
    BY <1>3, <2>1 DEF UsUp
<1>5. UsCounted' /\ UsImports'
  BY <1>1, <1>3, UsImportStays
<1>6. UsTypeOK'
  <2>1. usQueued' \in [UsWorkers -> 0 .. UsQueue]
    BY <1>1, <1>3, UsAssumption DEF UsTypeOK
  <2>2. usRunning' \in [UsWorkers -> BOOLEAN]
    <3>1. usRunning \in [UsWorkers -> BOOLEAN]
      BY <1>1 DEF UsTypeOK
    <3> QED
      BY <1>2, <3>1, Zenon
  <2>3. usOver' \in Nat
    BY <1>1, <1>2, UsAssumption DEF UsTypeOK
  <2> QED
    BY <1>1, <1>2, <1>3, <2>1, <2>2, <2>3 DEF UsTypeOK, usLegacy
<1>7. PICK slack \in Nat, more2 \in Nat : slack = UsSlack /\ more2 = more /\ UsSlack' = slack + more2
  <2>1. PICK all \in Nat : all = UsMaxCost * Cardinality(UsWorkers)
    BY UsStake
  <2>2. UsSlack = all + usOver /\ UsSlack' = all + usOver' /\ usOver \in Nat /\ more \in Nat
    BY <1>1, <1>2, <2>1, UsAssumption DEF UsSlack, UsTypeOK
  <2> QED
    BY <1>2, <2>2
<1>8. PICK today \in Nat, month \in Nat : usUsed'.today = today /\ usUsed'.month = month /\ usUsed' = usUsed
  BY <1>1, <1>3 DEF UsTypeOK
<1>9. UsDaily \in Nat /\ UsMonthly \in Nat /\ UsMaxCost \in Nat
  BY UsAssumption
<1>10. UsLimitKept'
  BY <1>1, <1>7, <1>8, <1>9 DEF UsBudget, UsLimitKept
<1>11. PICK A, B : A = UsRunners' /\ B = UsRunners /\ A \subseteq UsWorkers /\ B \subseteq UsWorkers
  BY DEF UsRunners
<1>12. PICK before \in Nat, after \in Nat :
         before = UsAtStake /\ after = UsAtStake' /\ before = UsMaxCost * Cardinality(B)
         /\ after = UsMaxCost * Cardinality(A)
  <2>1. UsMaxCost * Cardinality(A) \in Nat /\ UsMaxCost * Cardinality(B) \in Nat
    BY <1>1, <1>11, UsRoom
  <2> QED
    BY <1>11, <2>1 DEF UsAtStake
<1>13. usStage' # "broken" => today + after < UsDaily + UsSlack' /\ month + after < UsMonthly + UsSlack'
  <2>1. SUFFICES ASSUME usStage = "ready"
                 PROVE  today + after < UsDaily + UsSlack' /\ month + after < UsMonthly + UsSlack'
    BY <1>3, <1>4 DEF UsUp
  <2>2. today + before < UsDaily + slack /\ month + before < UsMonthly + slack
    BY <1>1, <1>7, <1>8, <1>12, <2>1 DEF UsBudget
  <2>3. CASE may = TRUE /\ may = UsMayRun /\ more = 0
    <3>1. today < UsDaily /\ month < UsMonthly
      BY <1>8, <2>1, <2>3 DEF UsMayRun, UsAllowed, UsUnder
    <3>2. after <= slack
      BY <1>1, <1>7, <1>11, <1>12, UsRoom
    <3> QED
      BY <1>7, <1>9, <2>3, <3>1, <3>2
  <2>4. CASE may = FALSE /\ more = 0
    <3>1. A \subseteq B
      <4>1. usRunning \in [UsWorkers -> BOOLEAN]
        BY <1>1 DEF UsTypeOK
      <4>2. \A v \in UsWorkers : usRunning'[v] => usRunning[v]
        BY <1>2, <2>4, <4>1, Zenon
      <4> QED
        BY <1>11, <4>2, Zenon DEF UsRunners
    <3>2. after <= before
      BY <1>11, <1>12, <3>1, UsStake
    <3> QED
      BY <1>7, <1>9, <2>2, <2>4, <3>2
  <2>5. CASE may = TRUE /\ more = UsMaxCost
    <3>1. A \subseteq B \cup {w}
      <4>1. usRunning \in [UsWorkers -> BOOLEAN]
        BY <1>1 DEF UsTypeOK
      <4>2. \A v \in UsWorkers : usRunning'[v] => usRunning[v] \/ v = w
        BY <1>2, <4>1, Zenon
      <4> QED
        BY <1>11, <4>2, Zenon DEF UsRunners
    <3>2. after <= before + UsMaxCost
      BY <1>11, <1>12, <3>1, UsOneMore
    <3> QED
      BY <1>7, <1>9, <2>2, <2>5, <3>2
  <2> QED
    BY <1>2, <2>3, <2>4, <2>5
<1>14. UsBudget'
  BY <1>4, <1>8, <1>10, <1>12, <1>13 DEF UsBudget
<1> QED
  BY <1>5, <1>6, <1>14 DEF UsInv

(* A turn that ends adds no more than it was allowed to cost, and does not  *)
(* run any more.                                                            *)
LEMMA UsFinished ==
  ASSUME UsInv, NEW w \in UsWorkers, UsFinish(w)
  PROVE  UsInv'
<1>1. UsTypeOK /\ UsCounted /\ UsImports /\ UsBudget
  BY DEF UsInv
<1>2. /\ usRunning[w] /\ usRunning' = [usRunning EXCEPT ![w] = FALSE]
      /\ UNCHANGED <<usStage, usLegacy, usOver, usDay, usQueued, usJobs>>
  BY DEF UsFinish
<1>3. PICK cost \in 0 .. UsMaxCost : UsRecords(cost)
  <2>1. PICK usd \in 0 .. UsMaxCost, credits \in 0 .. UsMaxCost :
          UsCost(usd, credits) <= UsMaxCost /\ UsRecords(UsCost(usd, credits))
    BY DEF UsFinish
  <2>2. UsCost(usd, credits) \in 0 .. UsMaxCost
    BY <2>1, UsAssumption DEF UsCost
  <2> QED
    BY <2>1, <2>2
<1>4. UsUp /\ UsUp'
  <2>1. UsUp
    BY <1>1, <1>2 DEF UsBudget
  <2> QED
    BY <1>2, <2>1 DEF UsUp
<1>5. UsCounted' /\ UsImports'
  BY <1>1, <1>2, UsImportStays
<1>6. PICK today \in Nat, month \in Nat : usUsed = [today |-> today, month |-> month]
  BY <1>1 DEF UsTypeOK
<1>7. /\ usCrashes' \in 0 .. UsMaxCrashes
      /\ \/ usUsed' = usUsed
         \/ usStage = "ready" /\ usUsed' = [today |-> today + cost, month |-> month + cost]
  <2>1. usCrashes \in 0 .. UsMaxCrashes
    BY <1>1 DEF UsTypeOK
  <2>2. CASE usStage = "ready" /\ usUsed' = [usUsed EXCEPT !.today = @ + cost, !.month = @ + cost] /\ UNCHANGED usCrashes
    BY <1>6, <2>1, <2>2
  <2>3. CASE usStage = "broken" /\ UNCHANGED <<usUsed, usCrashes>>
    BY <2>1, <2>3
  <2>4. CASE UsCrashed /\ UNCHANGED usUsed
    BY <2>1, <2>4, UsAssumption DEF UsCrashed
  <2> QED
    BY <1>3, <2>2, <2>3, <2>4 DEF UsRecords
<1>8. UsTypeOK'
  <2>1. usRunning' \in [UsWorkers -> BOOLEAN]
    <3>1. usRunning \in [UsWorkers -> BOOLEAN]
      BY <1>1 DEF UsTypeOK
    <3> QED
      BY <1>2, <3>1, Zenon
  <2>2. usUsed' \in [today : Nat, month : Nat]
    BY <1>3, <1>6, <1>7, UsAssumption
  <2> QED
    BY <1>1, <1>2, <1>7, <2>1, <2>2 DEF UsTypeOK, usLegacy
<1>9. UsRunners' = UsRunners \ {w} /\ w \in UsRunners
  <2>1. usRunning \in [UsWorkers -> BOOLEAN]
    BY <1>1 DEF UsTypeOK
  <2>2. \A v \in UsWorkers : usRunning'[v] <=> (usRunning[v] /\ v # w)
    BY <1>2, <2>1, Zenon
  <2>3. w \in UsRunners
    BY <1>2, Zenon DEF UsRunners
  <2> QED
    BY <2>2, <2>3, Zenon DEF UsRunners
<1>10. PICK before \in Nat, after \in Nat : before = UsAtStake /\ after = UsAtStake' /\ after + UsMaxCost <= before
  <2>1. PICK A : A = UsRunners'
    OBVIOUS
  <2>2. PICK B : B = UsRunners
    OBVIOUS
  <2>3. A \subseteq B /\ B \subseteq UsWorkers /\ A # B
    BY <1>9, <2>1, <2>2 DEF UsRunners
  <2>4. /\ UsMaxCost * Cardinality(A) + UsMaxCost <= UsMaxCost * Cardinality(B)
        /\ UsMaxCost * Cardinality(A) \in Nat /\ UsMaxCost * Cardinality(B) \in Nat
    BY <2>3, UsStake
  <2>5. UsAtStake' = UsMaxCost * Cardinality(A) /\ UsAtStake = UsMaxCost * Cardinality(B)
    BY <2>1, <2>2 DEF UsAtStake
  <2> QED
    BY <2>4, <2>5
<1>11. UsSlack \in Nat /\ UsSlack' = UsSlack /\ UsDaily \in Nat /\ UsMonthly \in Nat /\ UsMaxCost \in Nat /\ cost \in Nat /\ cost <= UsMaxCost
  BY <1>1, <1>2, <1>3, UsRoom, UsAssumption DEF UsSlack
<1>12. /\ UsLimitKept' 
       /\ usStage' # "broken" => usUsed'.today + after < UsDaily + UsSlack /\ usUsed'.month + after < UsMonthly + UsSlack
  <2>0. UsDaily + UsSlack \in Nat /\ UsMonthly + UsSlack \in Nat
    BY <1>11
  <2>1. today < UsDaily + UsSlack /\ month < UsMonthly + UsSlack
    BY <1>1, <1>6 DEF UsBudget, UsLimitKept
  <2>2. usStage # "broken" => today + before < UsDaily + UsSlack /\ month + before < UsMonthly + UsSlack
    BY <1>1, <1>6, <1>10 DEF UsBudget
  <2>3. CASE usUsed' = usUsed
    <3>1. usUsed'.today = today /\ usUsed'.month = month
      BY <1>6, <2>3
    <3> QED
      <4>1. UsLimitKept'
        BY <1>11, <2>1, <3>1 DEF UsLimitKept
      <4>2. usStage # "broken" => today + after < UsDaily + UsSlack /\ month + after < UsMonthly + UsSlack
        BY <1>6, <1>10, <1>11, <2>2, <2>0, UsSums2
      <4> QED
        BY <1>2, <3>1, <4>1, <4>2
  <2>4. CASE usStage = "ready" /\ usUsed' = [today |-> today + cost, month |-> month + cost]
    <3>1. usUsed'.today = today + cost /\ usUsed'.month = month + cost
      BY <2>4
    <3>2. today + before < UsDaily + UsSlack /\ month + before < UsMonthly + UsSlack
      BY <2>2, <2>4
    <3>3. today + cost + after < UsDaily + UsSlack /\ month + cost + after < UsMonthly + UsSlack
      BY <1>6, <1>10, <1>11, <2>0, <3>2, UsSums2
    <3>4. today + cost < UsDaily + UsSlack /\ month + cost < UsMonthly + UsSlack
      BY <1>6, <1>10, <1>11, <2>0, <3>2, UsSums2
    <3> QED
      BY <1>11, <3>1, <3>3, <3>4 DEF UsLimitKept
  <2> QED
    BY <1>7, <2>3, <2>4
<1>13. UsBudget'
  BY <1>4, <1>10, <1>11, <1>12 DEF UsBudget
<1> QED
  BY <1>5, <1>8, <1>13 DEF UsInv

(* A new day begins at nothing.                                             *)
LEMMA UsMidnightKept ==
  ASSUME UsInv, UsMidnight
  PROVE  UsInv'
<1>1. UsTypeOK /\ UsCounted /\ UsImports /\ UsBudget
  BY DEF UsInv
<1>2. /\ usDay' \in 1 .. UsDays /\ usUsed' = [usUsed EXCEPT !.today = 0]
      /\ UNCHANGED <<usStage, usLegacy, usOver, usQueued, usRunning, usJobs, usCrashes>>
  BY <1>1, UsAssumption DEF UsMidnight, UsTypeOK
<1>3. UsCounted' /\ UsImports'
  BY <1>1, <1>2, UsImportStays
<1>4. PICK month \in Nat : usUsed.month = month /\ usUsed' = [today |-> 0, month |-> month]
  BY <1>1, <1>2 DEF UsTypeOK
<1>5. UsTypeOK'
  BY <1>1, <1>2, <1>4 DEF UsTypeOK, usLegacy
<1>6. UsRunners' = UsRunners /\ UsUp' = UsUp
  BY <1>2 DEF UsRunners, UsUp
<1>7. PICK stake \in Nat : stake = UsAtStake /\ stake = UsAtStake' /\ stake <= UsSlack
  <2>1. PICK A : A = UsRunners
    OBVIOUS
  <2>2. A \subseteq UsWorkers
    BY <2>1 DEF UsRunners
  <2>3. UsMaxCost * Cardinality(A) <= UsSlack /\ UsMaxCost * Cardinality(A) \in Nat
    BY <1>1, <2>2, UsRoom
  <2> QED
    BY <1>6, <2>1, <2>3 DEF UsAtStake
<1>8. UsSlack \in Nat /\ UsSlack' = UsSlack /\ UsDaily \in Nat /\ UsDaily > 0 /\ usUsed'.today = 0 /\ usUsed'.month = usUsed.month
  BY <1>1, <1>2, <1>4, UsRoom, UsAssumption DEF UsSlack
<1>9. 0 + stake < UsDaily + UsSlack /\ 0 < UsDaily + UsSlack
  <2>1. stake <= UsSlack
    BY <1>7
  <2> QED
    BY <1>8, <2>1
<1>10. UsLimitKept'
  <2>1. usUsed.month < UsMonthly + UsSlack
    BY <1>1 DEF UsBudget, UsLimitKept
  <2>2. usUsed'.today < UsDaily + UsSlack' /\ usUsed'.month < UsMonthly + UsSlack'
    BY <1>8, <1>9, <2>1
  <2> QED
    BY <2>2 DEF UsLimitKept
<1>11. usStage' # "broken" => usUsed'.today + stake < UsDaily + UsSlack /\ usUsed'.month + stake < UsMonthly + UsSlack
  <2>1. usStage # "broken" => usUsed.month + stake < UsMonthly + UsSlack
    BY <1>1, <1>7 DEF UsBudget
  <2>2. usUsed'.today + stake < UsDaily + UsSlack
    BY <1>8, <1>9
  <2> QED
    BY <1>2, <1>8, <2>1, <2>2
<1>12. ~UsUp' => \A w \in UsWorkers : usQueued'[w] = 0 /\ ~usRunning'[w]
  BY <1>1, <1>2, <1>6, Zenon DEF UsBudget
<1>13. UsBudget'
  BY <1>7, <1>8, <1>10, <1>11, <1>12 DEF UsBudget
<1> QED
  BY <1>3, <1>5, <1>13 DEF UsInv

(* The start begins with a file of the older version.                       *)
LEMMA UsBegins == UsInit => UsInv
<1> SUFFICES ASSUME UsInit PROVE UsInv
  OBVIOUS
<1>1. /\ usStage = "down" /\ usFile \in {"torn", "whole"} /\ usImport = [sum |-> "none", status |-> "none"]
      /\ usRows = {} /\ usArchive = {} /\ usPruned = {} /\ usGrown = FALSE
      /\ usUsed = [today |-> 0, month |-> 0] /\ usOver = 0 /\ usDay = 1
      /\ usQueued = [w \in UsWorkers |-> 0] /\ usRunning = [w \in UsWorkers |-> FALSE] /\ usJobs = 0 /\ usCrashes = 0
  BY DEF UsInit
<1>2. UsTypeOK
  <2>1. usQueued \in [UsWorkers -> 0 .. UsQueue]
    BY <1>1, UsAssumption
  <2>2. usRunning \in [UsWorkers -> BOOLEAN]
    BY <1>1, Zenon
  <2>3. 0 \in 0 .. UsMaxJobs /\ 0 \in 0 .. UsMaxCrashes /\ 1 \in 1 .. UsDays
    BY UsAssumption
  <2> QED
    BY <1>1, <2>1, <2>2, <2>3 DEF UsTypeOK, UsStages, UsSums
<1>3. UsCounted /\ UsImports
  BY <1>1 DEF UsCounted, UsImports, UsLeft
<1>4. \A w \in UsWorkers : usQueued[w] = 0 /\ ~usRunning[w]
  BY <1>1, Zenon
<1>5. UsAtStake = 0
  <2>1. UsRunners = {}
    BY <1>4, Zenon DEF UsRunners
  <2> QED
    BY <2>1, FS_EmptySet, UsAssumption DEF UsAtStake
<1>6. UsSlack \in Nat
  BY <1>2, UsRoom
<1>7. UsBudget
  BY <1>1, <1>4, <1>5, <1>6, UsAssumption DEF UsBudget, UsLimitKept, UsSlack
<1> QED
  BY <1>2, <1>3, <1>7 DEF UsInv

(* Import and ceilings agree with what was done in every state.             *)
THEOREM UsInvariant == UsSpec => []UsInv
<1>1. UsInv /\ [UsNext]_usVars => UsInv'
  <2> SUFFICES ASSUME UsInv, [UsNext]_usVars PROVE UsInv'
    OBVIOUS
  <2>1. CASE UsStarts
    BY <2>1, UsStarted
  <2>2. CASE UsWorks
    BY <2>2, UsEnqueued, UsBegun, UsFinished DEF UsWorks
  <2>3. CASE UsMidnight
    BY <2>3, UsMidnightKept
  <2>4. CASE UNCHANGED usVars
    <3>1. UsTypeOK' /\ UsCounted' /\ UsImports'
      BY <2>4 DEF UsInv, UsTypeOK, UsCounted, UsImports, UsLeft, usVars
    <3>2. UsBudget'
      BY <2>4 DEF UsInv, UsBudget, UsLimitKept, UsSlack, UsUp, UsAtStake, UsRunners, usVars
    <3> QED
      BY <3>1, <3>2 DEF UsInv
  <2> QED
    BY <2>1, <2>2, <2>3, <2>4 DEF UsNext, UsStarts, UsWorks
<1> QED
  BY <1>1, UsBegins, PTL DEF UsSpec

(* What is recorded of a day and of a month exceeds its ceiling by less     *)
(* than a turn of each worker, whatever was accepted before, and one of     *)
(* each job that began while the ledger could not be read; and no line of   *)
(* the older ledger is lost, wherever its import stops, or counted twice,   *)
(* unless the file was written to between its count and its archive.        *)
THEOREM UsLedger == UsSpec => [](UsTypeOK /\ UsLimitKept /\ UsImportedOnce)
<1>1. UsInv => UsTypeOK /\ UsLimitKept /\ UsImportedOnce
  <2> SUFFICES ASSUME UsInv PROVE UsTypeOK /\ UsLimitKept /\ UsImportedOnce
    OBVIOUS
  <2>1. UsTypeOK /\ UsLimitKept /\ UsCounted
    BY DEF UsInv, UsBudget
  <2>2. ASSUME NEW r1 \in usRows, NEW r2 \in usRows, UsText(r1) = UsText(r2), ~usGrown
        PROVE  r1 = r2
    <3>1. /\ r1.sum \in UsGood /\ r1 \in UsAllRows(r1.sum) /\ (r1.sum \in usArchive \/ r1.sum = usFile)
          /\ r2.sum \in UsGood /\ r2 \in UsAllRows(r2.sum) /\ (r2.sum \in usArchive \/ r2.sum = usFile)
      BY <2>1, <2>2 DEF UsCounted, UsLeft
    <3>2. r1 = r2 \/ {r1.sum, r2.sum} = {"whole", "longer"}
      BY <2>2, <3>1, UsTexts
    <3>3. {r1.sum, r2.sum} # {"whole", "longer"}
      BY <2>1, <3>1 DEF UsCounted
    <3> QED
      BY <3>2, <3>3
  <2> QED
    BY <2>1, <2>2 DEF UsCounted, UsImportedOnce
<1> QED
  BY <1>1, UsInvariant, PTL

-----------------------------------------------------------------------------
(* The audit log.                                                           *)

(* The tables are pruned in the order in which they depend on each other:   *)
(* the events first, attachments before their messages.                     *)
AuTidy ==
  /\ auPruned["discord"] <= auCutoff /\ auCutoff <= Len(auLog)
  /\ auStage \in {"attachments", "reactions", "messages", "threads", "botevents"} => auPruned["discord"] = auCutoff
  /\ auStage \in {"reactions", "messages"} => \A m \in AuMessages : auAttach[m] = 0 \/ auAttach[m] > auCutoff

(* What an event that stands left in a message's row, in a thread's and in  *)
(* a reaction's is there, and the row is as new as the event.               *)
AuRowTrue(m) ==
  /\ \A i \in AuRecorded({"delete", "bulk"}, m) : i > auPruned["discord"] => auRow[m].deleted /\ i <= auRow[m].last
  /\ \A i \in AuRecorded({"create"}, m) : i > auPruned["discord"] => auRow[m].author /\ i <= auRow[m].last
  /\ auRow[m].deleted => AuRecorded({"delete", "bulk"}, m) # {}
  /\ auAttach[m] <= auRow[m].last /\ auRow[m].last <= Len(auLog)
AuThreadTrue(m) ==
  /\ \A i \in AuRecorded({"threadend"}, m) : i > auPruned["discord"] => auThread[m].gone /\ i <= auThread[m].last
  /\ auThread[m].gone => AuRecorded({"threadend"}, m) # {}
AuReactionTrue(m) ==
  /\ \A i \in AuRecorded({"add", "remove"}, m) : i > auPruned["discord"] => i <= auReaction[m].last
  /\ auReaction[m].last # 0 =>
       /\ auReaction[m].last \in DOMAIN auLog
       /\ \A i \in AuRecorded({"add", "remove", "clear"}, m) : i <= auReaction[m].last
       /\ auReaction[m].gone = (auLog[auReaction[m].last].kind # "add")

AuInv == AuTypeOK /\ AuTidy /\ \A m \in AuMessages : AuRowTrue(m) /\ AuThreadTrue(m) /\ AuReactionTrue(m)

(* The order of the pruning.                                                *)
AuPruneStages == {"events", "attachments", "reactions", "messages", "threads", "botevents"}

(* The pruning goes through its tables in one order and then ends.          *)
LEMMA AuOrder ==
  /\ {AuPruning[n] : n \in DOMAIN AuPruning} = AuPruneStages /\ AuPruning[1] = "events"
  /\ AuPruneNext("events") = "attachments" /\ AuPruneNext("attachments") = "reactions"
  /\ AuPruneNext("reactions") = "messages" /\ AuPruneNext("messages") = "threads"
  /\ AuPruneNext("threads") = "botevents" /\ AuPruneNext("botevents") = "up"
<1>1. PICK order : order = AuPruning
  OBVIOUS
<1>2. /\ DOMAIN order = 1 .. 6 /\ Len(order) = 6
      /\ order[1] = "events" /\ order[2] = "attachments" /\ order[3] = "reactions"
      /\ order[4] = "messages" /\ order[5] = "threads" /\ order[6] = "botevents"
  BY <1>1 DEF AuPruning
<1>3. {order[n] : n \in DOMAIN order} = AuPruneStages
  BY <1>2 DEF AuPruneStages
<1>4. ASSUME NEW k \in 1 .. 6, NEW stage, stage = order[k]
      PROVE  (CHOOSE j \in DOMAIN order : order[j] = stage) = k
  <2>1. \A j \in 1 .. 6 : order[j] = stage => j = k
    BY <1>2, <1>4
  <2> QED
    BY <1>2, <1>4, <2>1
<1>5. ASSUME NEW k \in 1 .. 6, NEW stage, stage = order[k]
      PROVE  AuPruneNext(stage) = IF k = 6 THEN "up" ELSE order[k + 1]
  <2>1. k = CHOOSE j \in DOMAIN AuPruning : AuPruning[j] = stage
    BY <1>1, <1>4, <1>5
  <2> DEFINE At == CHOOSE j \in DOMAIN AuPruning : AuPruning[j] = stage
  <2>2. AuPruneNext(stage) = IF At = Len(AuPruning) THEN "up" ELSE AuPruning[At + 1]
    BY Zenon DEF AuPruneNext
  <2>3. At = k
    BY <2>1
  <2> HIDE DEF At
  <2> QED
    BY <1>1, <1>2, <2>2, <2>3
<1>6. AuPruneNext("events") = "attachments" /\ AuPruneNext("attachments") = "reactions"
  BY <1>2, <1>5
<1>7. AuPruneNext("reactions") = "messages" /\ AuPruneNext("messages") = "threads"
  BY <1>2, <1>5
<1>8. AuPruneNext("threads") = "botevents" /\ AuPruneNext("botevents") = "up"
  BY <1>2, <1>5
<1> QED
  BY <1>1, <1>2, <1>3, <1>6, <1>7, <1>8, Zenon

(* The rows of the tables.                                                  *)
AuRows == [last : AuTimes, author : BOOLEAN, deleted : BOOLEAN]
AuFlags == [last : AuTimes, gone : BOOLEAN]

(* What an event, a deletion and a removed reaction write are rows.         *)
LEMMA AuUpserts ==
  ASSUME NEW row \in AuRows, NEW author \in BOOLEAN, NEW now \in AuTimes
  PROVE  /\ AuUpsertMessage(row, author, now) \in AuRows
         /\ AuUpsertMessage(row, author, now).last = now
         /\ AuUpsertMessage(row, author, now).deleted = row.deleted
         /\ row.author \/ author => AuUpsertMessage(row, author, now).author
         /\ AuMarkDeleted(row, now) \in AuRows
         /\ AuMarkDeleted(row, now).last = now
         /\ AuMarkDeleted(row, now).author = row.author
         /\ AuMarkDeleted(row, now).deleted
<1>1. PICK named \in BOOLEAN : named = (row.author \/ author)
  OBVIOUS
<1>2. AuUpsertMessage(row, author, now) = [row EXCEPT !.last = now, !.author = named]
  BY <1>1 DEF AuUpsertMessage
<1>3. PICK new : new = [row EXCEPT !.last = now, !.author = named]
  OBVIOUS
<1>4. new \in AuRows /\ new.last = now /\ new.deleted = row.deleted /\ new.author = named
  BY <1>3 DEF AuRows
<1>5. row.author \/ author => new.author
  BY <1>1, <1>4, Zenon
<1>6. PICK gone : gone = [row EXCEPT !.last = now, !.deleted = TRUE]
  OBVIOUS
<1>7. gone \in AuRows /\ gone.last = now /\ gone.author = row.author /\ gone.deleted = TRUE
  BY <1>6 DEF AuRows
<1>8. AuMarkDeleted(row, now) = gone
  BY <1>6 DEF AuMarkDeleted
<1> QED
  BY <1>2, <1>3, <1>4, <1>5, <1>7, <1>8, Zenon

(* The log with one event more.                                             *)
AuAppends(e) == auLog' = Append(auLog, e) /\ Len(auLog) < AuMaxEvents

(* A longer log has its old events where they were, and the new one.        *)
LEMMA AuLonger ==
  ASSUME AuTypeOK, NEW e \in AuEvents, AuAppends(e)
  PROVE  /\ Len(auLog) \in Nat /\ Len(auLog') = Len(auLog) + 1 /\ Len(auLog') \in AuTimes /\ auLog' \in Seq(AuEvents)
         /\ DOMAIN auLog = 1 .. Len(auLog) /\ DOMAIN auLog' = 1 .. Len(auLog')
         /\ \A i \in 1 .. Len(auLog) : auLog'[i] = auLog[i]
         /\ auLog'[Len(auLog')] = e
         /\ \A kinds, m : /\ \A i \in AuRecorded(kinds, m) : i <= Len(auLog) /\ i \in AuRecorded(kinds, m)'
                          /\ \A i \in AuRecorded(kinds, m)' :
                               \/ i \in AuRecorded(kinds, m)
                               \/ i = Len(auLog') /\ e.kind \in kinds /\ e.msg = m
                          /\ e.kind \in kinds /\ e.msg = m => Len(auLog') \in AuRecorded(kinds, m)'
<1>1. auLog \in Seq(AuEvents) /\ auLog' = Append(auLog, e) /\ Len(auLog) < AuMaxEvents
  BY DEF AuTypeOK, AuAppends
<1>2. Len(auLog) \in Nat /\ DOMAIN auLog = 1 .. Len(auLog)
  BY <1>1, LenProperties
<1>3. /\ auLog' \in Seq(AuEvents) /\ Len(auLog') = Len(auLog) + 1
      /\ \A i \in 1 .. Len(auLog) : auLog'[i] = auLog[i]
      /\ auLog'[Len(auLog) + 1] = e
  BY <1>1, AppendProperties
<1>4. DOMAIN auLog' = 1 .. Len(auLog')
  BY <1>3, LenProperties
<1>5. Len(auLog') \in AuTimes
  BY <1>1, <1>2, <1>3, AuAssumption DEF AuTimes
<1>6. PICK old, new : old = auLog /\ new = auLog'
  OBVIOUS
<1>7. PICK n \in Nat : n = Len(old) /\ Len(new) = n + 1
  BY <1>2, <1>3, <1>6
<1>8. ASSUME NEW kinds, NEW m
      PROVE  /\ \A i \in AuRecorded(kinds, m) : i <= Len(auLog) /\ i \in AuRecorded(kinds, m)'
             /\ \A i \in AuRecorded(kinds, m)' :
                  \/ i \in AuRecorded(kinds, m)
                  \/ i = Len(auLog') /\ e.kind \in kinds /\ e.msg = m
             /\ e.kind \in kinds /\ e.msg = m => Len(auLog') \in AuRecorded(kinds, m)'
  <2>1. AuRecorded(kinds, m) = {i \in 1 .. n : old[i].kind \in kinds /\ old[i].msg = m}
    BY <1>2, <1>6, <1>7 DEF AuRecorded
  <2>2. AuRecorded(kinds, m)' = {i \in 1 .. n + 1 : new[i].kind \in kinds /\ new[i].msg = m}
    BY <1>4, <1>6, <1>7 DEF AuRecorded
  <2>3. (\A i \in 1 .. n : new[i] = old[i]) /\ new[n + 1] = e
    BY <1>3, <1>6, <1>7
  <2> QED
    BY <1>6, <1>7, <2>1, <2>2, <2>3
<1> QED
  BY <1>2, <1>3, <1>4, <1>5, <1>8

(* A message's row, after an event of a message.                            *)
LEMMA AuRowRecorded ==
  ASSUME AuInv, NEW e \in AuEvents, AuAppends(e), auPruned' = auPruned, NEW m \in AuMessages,
         \/ AuProjectMessage(e, Len(auLog'))
         \/ e.kind \notin {"create", "update", "delete", "bulk"} /\ auRow' = auRow /\ auAttach' = auAttach
  PROVE  auRow' \in [AuMessages -> AuRows] /\ auAttach' \in [AuMessages -> AuTimes] /\ AuRowTrue(m)'
<1>1. AuTypeOK /\ AuTidy /\ AuRowTrue(m)
  BY DEF AuInv
<1>2. PICK now \in AuTimes : now = Len(auLog') /\ now = Len(auLog) + 1 /\ now \in Nat
  BY <1>1, AuLonger
<1>3. auRow \in [AuMessages -> AuRows] /\ auAttach \in [AuMessages -> AuTimes] /\ e.msg \in AuMessages
  BY <1>1 DEF AuTypeOK, AuRows, AuEvents
<1>4. ASSUME NEW kinds
      PROVE  /\ \A i \in AuRecorded(kinds, m) : i < now /\ i \in AuRecorded(kinds, m)' /\ i \in Nat
             /\ \A i \in AuRecorded(kinds, m)' :
                  i \in AuRecorded(kinds, m) \/ (i = now /\ e.kind \in kinds /\ e.msg = m)
             /\ e.kind \in kinds /\ e.msg = m => now \in AuRecorded(kinds, m)'
  <2>1. /\ \A i \in AuRecorded(kinds, m) : i <= Len(auLog) /\ i \in AuRecorded(kinds, m)'
        /\ \A i \in AuRecorded(kinds, m)' :
             i \in AuRecorded(kinds, m) \/ (i = Len(auLog') /\ e.kind \in kinds /\ e.msg = m)
        /\ e.kind \in kinds /\ e.msg = m => Len(auLog') \in AuRecorded(kinds, m)'
    BY <1>1, AuLonger
  <2>2. \A i \in AuRecorded(kinds, m) : i \in Nat
    BY <1>1, AuLonger DEF AuRecorded
  <2>3. Len(auLog) \in Nat
    BY <1>1, AuLonger
  <2> QED
    BY <1>2, <2>1, <2>2, <2>3
<1>5. CASE auRow' = auRow /\ auAttach' = auAttach /\ e.kind \notin {"create", "update", "delete", "bulk"}
  <2>1. auRow[m].last <= Len(auLog')
    <3>1. Len(auLog) \in Nat /\ auRow[m].last \in Nat
      BY <1>1, <1>3, AuLonger, AuAssumption DEF AuTimes, AuRows
    <3> QED
      BY <1>1, <1>2, <3>1 DEF AuRowTrue
  <2>2. AuRowTrue(m)'
    BY <1>1, <1>4, <1>5, <2>1 DEF AuRowTrue
  <2> QED
    BY <1>3, <1>5, <2>2
<1>6. ASSUME NEW author \in BOOLEAN, NEW attached \in BOOLEAN, e.kind \in {"create", "update"}, e.kind = "create" => author,
             auRow' = [auRow EXCEPT ![e.msg] = AuUpsertMessage(@, author, now)],
             auAttach' = AuUpsertAttachments(e.msg, attached, now)
      PROVE  auRow' \in [AuMessages -> AuRows] /\ auAttach' \in [AuMessages -> AuTimes] /\ AuRowTrue(m)'
  <2>1. PICK new : new = AuUpsertMessage(auRow[e.msg], author, now)
    OBVIOUS
  <2>2. /\ new \in AuRows /\ new.last = now /\ new.deleted = auRow[e.msg].deleted
        /\ auRow[e.msg].author \/ author => new.author
    BY <1>2, <1>3, <2>1, AuUpserts
  <2>3. auRow' = [auRow EXCEPT ![e.msg] = new]
    BY <1>6, <2>1
  <2>4. auAttach' \in [AuMessages -> AuTimes] /\ \A x \in AuMessages : auAttach'[x] = auAttach[x] \/ (x = e.msg /\ auAttach'[x] = now)
    BY <1>2, <1>3, <1>6 DEF AuUpsertAttachments
  <2>5. auRow' \in [AuMessages -> AuRows]
    BY <1>3, <2>2, <2>3
  <2>6. CASE m # e.msg
    <3>1. auRow'[m] = auRow[m] /\ auAttach'[m] = auAttach[m]
      BY <1>3, <2>3, <2>4, <2>6
    <3>2. auRow[m].last \in Nat /\ auRow[m].last <= Len(auLog')
      <4>1. Len(auLog) \in Nat /\ auRow[m].last \in Nat
        BY <1>1, <1>3, AuLonger, AuAssumption DEF AuTimes, AuRows
      <4> QED
        BY <1>1, <1>2, <4>1 DEF AuRowTrue
    <3> QED
      BY <1>1, <1>4, <2>4, <2>5, <2>6, <3>1, <3>2 DEF AuRowTrue
  <2>7. CASE m = e.msg
    <3>1. auRow'[m] = new
      BY <1>3, <2>3, <2>7
    <3>2. auAttach[m] <= now
      <4>1. auAttach[m] \in Nat /\ auRow[m].last \in Nat /\ auAttach[m] <= auRow[m].last /\ auRow[m].last <= Len(auLog)
        BY <1>1, <1>3, AuAssumption DEF AuTimes, AuRows, AuRowTrue
      <4>2. Len(auLog) \in Nat
        BY <1>1, AuLonger
      <4> QED
        BY <1>2, <4>1, <4>2
    <3>3. auAttach'[m] <= now
      BY <1>2, <2>4, <3>2
    <3>4. \A i \in AuRecorded({"delete", "bulk"}, m)' : i > auPruned'["discord"] => auRow'[m].deleted /\ i <= auRow'[m].last
      <4> SUFFICES ASSUME NEW i \in AuRecorded({"delete", "bulk"}, m)', i > auPruned'["discord"]
                   PROVE  auRow'[m].deleted /\ i <= auRow'[m].last
        OBVIOUS
      <4>1. i \in AuRecorded({"delete", "bulk"}, m) /\ i < now /\ i \in Nat
        BY <1>4, <1>6
      <4>2. auRow[m].deleted
        BY <1>1, <4>1 DEF AuRowTrue
      <4>3. new.deleted
        BY <2>2, <2>7, <4>2, Zenon
      <4>4. i <= now
        BY <1>2, <4>1
      <4> QED
        BY <2>2, <3>1, <4>3, <4>4
    <3>5. \A i \in AuRecorded({"create"}, m)' : i > auPruned'["discord"] => auRow'[m].author /\ i <= auRow'[m].last
      <4> SUFFICES ASSUME NEW i \in AuRecorded({"create"}, m)', i > auPruned'["discord"]
                   PROVE  auRow'[m].author /\ i <= auRow'[m].last
        OBVIOUS
      <4>1. CASE i \in AuRecorded({"create"}, m)
        <5>1. auRow[m].author
          BY <1>1, <4>1 DEF AuRowTrue
        <5>2. new.author
          BY <2>2, <2>7, <5>1, Zenon
        <5>3. i <= now
          BY <1>2, <1>4, <4>1
        <5> QED
          BY <2>2, <3>1, <5>2, <5>3
      <4>2. CASE i = now /\ e.kind \in {"create"}
        <5>1. new.author
          BY <1>6, <2>2, <4>2, Zenon
        <5>2. i <= now
          BY <1>2, <4>2
        <5> QED
          BY <2>2, <3>1, <5>1, <5>2
      <4> QED
        BY <1>4, <4>1, <4>2
    <3>6. auRow'[m].deleted => AuRecorded({"delete", "bulk"}, m)' # {}
      <4>1. auRow'[m].deleted => AuRecorded({"delete", "bulk"}, m) # {}
        BY <1>1, <2>2, <2>7, <3>1, Zenon DEF AuRowTrue
      <4> QED
        BY <1>4, <4>1
    <3>7. auAttach'[m] <= auRow'[m].last /\ auRow'[m].last <= Len(auLog')
      BY <1>2, <2>2, <3>1, <3>3
    <3> QED
      BY <2>4, <2>5, <3>4, <3>5, <3>6, <3>7 DEF AuRowTrue
  <2> QED
    BY <2>6, <2>7
<1>7. ASSUME e.kind \in {"delete", "bulk"}, auRow' = [auRow EXCEPT ![e.msg] = AuMarkDeleted(@, now)], auAttach' = auAttach
      PROVE  auRow' \in [AuMessages -> AuRows] /\ auAttach' \in [AuMessages -> AuTimes] /\ AuRowTrue(m)'
  <2>1. PICK new : new = AuMarkDeleted(auRow[e.msg], now)
    OBVIOUS
  <2>2. new \in AuRows /\ new.last = now /\ new.deleted /\ new.author = auRow[e.msg].author
    BY <1>2, <1>3, <2>1, AuUpserts
  <2>3. auRow' = [auRow EXCEPT ![e.msg] = new]
    BY <1>7, <2>1
  <2>4. auRow' \in [AuMessages -> AuRows]
    BY <1>3, <2>2, <2>3
  <2>5. CASE m # e.msg
    <3>1. auRow'[m] = auRow[m]
      BY <1>3, <2>3, <2>5
    <3>2. Len(auLog) \in Nat /\ auRow[m].last \in Nat /\ auRow[m].last <= Len(auLog')
      <4>1. Len(auLog) \in Nat /\ auRow[m].last \in Nat
        BY <1>1, <1>3, AuLonger, AuAssumption DEF AuTimes, AuRows
      <4> QED
        BY <1>1, <1>2, <4>1 DEF AuRowTrue
    <3>3. AuRowTrue(m)'
      BY <1>1, <1>4, <1>7, <2>5, <3>1, <3>2 DEF AuRowTrue
    <3> QED
      BY <1>3, <1>7, <2>4, <3>3
  <2>6. CASE m = e.msg
    <3>1. auRow'[m] = new
      BY <1>3, <2>3, <2>6
    <3>2. auAttach'[m] <= now
      <4>1. auAttach[m] \in Nat /\ auRow[m].last \in Nat /\ auAttach[m] <= auRow[m].last /\ auRow[m].last <= Len(auLog)
        BY <1>1, <1>3, AuAssumption DEF AuTimes, AuRows, AuRowTrue
      <4>2. Len(auLog) \in Nat
        BY <1>1, AuLonger
      <4> QED
        BY <1>2, <1>7, <4>1, <4>2
    <3>3. \A kinds : \A i \in AuRecorded(kinds, m)' : i <= now
      BY <1>2, <1>4
    <3>4. \A i \in AuRecorded({"create"}, m)' : i > auPruned'["discord"] => auRow'[m].author
      <4> SUFFICES ASSUME NEW i \in AuRecorded({"create"}, m)', i > auPruned'["discord"] PROVE auRow'[m].author
        OBVIOUS
      <4>1. i \in AuRecorded({"create"}, m)
        BY <1>4, <1>7
      <4>2. auRow[m].author
        BY <1>1, <4>1 DEF AuRowTrue
      <4> QED
        BY <2>2, <2>6, <3>1, <4>2, Zenon
    <3>5. AuRecorded({"delete", "bulk"}, m)' # {}
      BY <1>4, <1>7, <2>6
    <3>6. auRow'[m].deleted
      BY <2>2, <3>1, Zenon
    <3>7. auRow'[m].last = now /\ now <= Len(auLog')
      BY <1>2, <2>2, <3>1
    <3> QED
      BY <1>3, <1>7, <2>4, <3>2, <3>3, <3>4, <3>5, <3>6, <3>7 DEF AuRowTrue
  <2> QED
    BY <2>5, <2>6
<1> QED
  BY <1>2, <1>5, <1>6, <1>7 DEF AuProjectMessage

(* A thread's row, after an event of a thread.                              *)
LEMMA AuThreadRecorded ==
  ASSUME AuInv, NEW e \in AuEvents, AuAppends(e), auPruned' = auPruned, NEW m \in AuMessages,
         \/ e.kind \in {"thread", "threadend"} /\ AuProjectThread(e, Len(auLog'))
         \/ e.kind \notin {"thread", "threadend"} /\ auThread' = auThread
  PROVE  auThread' \in [AuMessages -> AuFlags] /\ AuThreadTrue(m)'
<1>1. AuTypeOK /\ AuThreadTrue(m)
  BY DEF AuInv
<1>2. PICK now \in AuTimes : now = Len(auLog')
  BY <1>1, AuLonger
<1>3. auThread \in [AuMessages -> AuFlags] /\ e.msg \in AuMessages
  BY <1>1 DEF AuTypeOK, AuFlags, AuEvents
<1>4. /\ \A i \in AuRecorded({"threadend"}, m) : i <= now /\ i \in AuRecorded({"threadend"}, m)'
      /\ \A i \in AuRecorded({"threadend"}, m)' :
           i \in AuRecorded({"threadend"}, m) \/ (i = now /\ e.kind = "threadend" /\ e.msg = m)
      /\ e.kind = "threadend" /\ e.msg = m => now \in AuRecorded({"threadend"}, m)'
  <2>1. /\ \A i \in AuRecorded({"threadend"}, m) : i <= Len(auLog) /\ i \in AuRecorded({"threadend"}, m)'
        /\ \A i \in AuRecorded({"threadend"}, m)' :
             i \in AuRecorded({"threadend"}, m) \/ (i = Len(auLog') /\ e.kind \in {"threadend"} /\ e.msg = m)
        /\ e.kind \in {"threadend"} /\ e.msg = m => Len(auLog') \in AuRecorded({"threadend"}, m)'
    BY <1>1, AuLonger
  <2>2. \A i \in AuRecorded({"threadend"}, m) : i \in Nat
    BY <1>1, AuLonger DEF AuRecorded
  <2>3. Len(auLog) \in Nat /\ now = Len(auLog) + 1
    BY <1>1, <1>2, AuLonger
  <2> QED
    BY <1>2, <2>1, <2>2, <2>3
<1>5. CASE e.kind \notin {"thread", "threadend"} /\ auThread' = auThread
  <2>1. AuThreadTrue(m)'
    BY <1>1, <1>4, <1>5 DEF AuThreadTrue
  <2> QED
    BY <1>3, <1>5, <2>1
<1>6. CASE e.kind \in {"thread", "threadend"} /\ AuProjectThread(e, now)
  <2>1. PICK ends \in BOOLEAN : ends = (e.kind = "threadend")
    OBVIOUS
  <2>2. PICK gone \in BOOLEAN : gone = (auThread[e.msg].gone \/ ends)
    OBVIOUS
  <2>3. PICK new : new = [last |-> now, gone |-> gone]
    OBVIOUS
  <2>4. new \in AuFlags /\ new.last = now /\ new.gone = gone
    BY <1>2, <2>3 DEF AuFlags
  <2>5. auThread' = [auThread EXCEPT ![e.msg] = new]
    BY <1>6, <2>1, <2>2, <2>3 DEF AuProjectThread, AuUpsertThread
  <2>6. auThread' \in [AuMessages -> AuFlags]
    BY <1>3, <2>4, <2>5
  <2>7. CASE m # e.msg
    <3>1. auThread'[m] = auThread[m]
      BY <1>3, <2>5, <2>7
    <3> QED
      BY <1>1, <1>4, <2>6, <2>7, <3>1 DEF AuThreadTrue
  <2>8. CASE m = e.msg
    <3>1. auThread'[m] = new
      BY <1>3, <2>5, <2>8
    <3>2. \A i \in AuRecorded({"threadend"}, m)' : i > auPruned'["discord"] => auThread'[m].gone /\ i <= auThread'[m].last
      <4> SUFFICES ASSUME NEW i \in AuRecorded({"threadend"}, m)', i > auPruned'["discord"]
                   PROVE  auThread'[m].gone /\ i <= auThread'[m].last
        OBVIOUS
      <4>1. i <= now
        BY <1>2, <1>4, AuAssumption DEF AuTimes
      <4>2. CASE i \in AuRecorded({"threadend"}, m)
        <5>1. auThread[m].gone
          BY <1>1, <4>2 DEF AuThreadTrue
        <5>2. gone
          BY <2>2, <2>8, <5>1, Zenon
        <5> QED
          BY <2>4, <3>1, <4>1, <5>2
      <4>3. CASE e.kind = "threadend"
        <5>1. gone
          BY <2>1, <2>2, <4>3, Zenon
        <5> QED
          BY <2>4, <3>1, <4>1, <5>1
      <4> QED
        BY <1>4, <4>2, <4>3
    <3>3. auThread'[m].gone => AuRecorded({"threadend"}, m)' # {}
      <4>1. ASSUME auThread'[m].gone PROVE AuRecorded({"threadend"}, m)' # {}
        <5>1. gone
          BY <2>4, <3>1, <4>1, Zenon
        <5>2. CASE auThread[m].gone
          <6>1. AuRecorded({"threadend"}, m) # {}
            BY <1>1, <5>2 DEF AuThreadTrue
          <6> QED
            BY <1>4, <6>1
        <5>3. CASE e.kind = "threadend"
          BY <1>4, <2>8, <5>3
        <5> QED
          BY <2>1, <2>2, <2>8, <5>1, <5>2, <5>3, Zenon
      <4> QED
        BY <4>1
    <3> QED
      BY <2>6, <3>2, <3>3 DEF AuThreadTrue
  <2> QED
    BY <2>7, <2>8
<1> QED
  BY <1>2, <1>5, <1>6

(* A reaction's row, after an event of a reaction.                          *)
LEMMA AuReactionRecorded ==
  ASSUME AuInv, NEW e \in AuEvents, AuAppends(e), auPruned' = auPruned, NEW m \in AuMessages,
         \/ AuProjectReaction(e, Len(auLog'))
         \/ e.kind \notin {"add", "remove", "clear"} /\ auReaction' = auReaction
  PROVE  auReaction' \in [AuMessages -> AuFlags] /\ AuReactionTrue(m)'
<1>1. AuTypeOK /\ AuReactionTrue(m)
  BY DEF AuInv
<1>2. /\ Len(auLog) \in Nat /\ Len(auLog') = Len(auLog) + 1 /\ Len(auLog') \in AuTimes
      /\ DOMAIN auLog = 1 .. Len(auLog) /\ DOMAIN auLog' = 1 .. Len(auLog')
      /\ \A i \in 1 .. Len(auLog) : auLog'[i] = auLog[i]
      /\ auLog'[Len(auLog')] = e
  BY <1>1, AuLonger
<1>3. auReaction \in [AuMessages -> AuFlags] /\ e.msg \in AuMessages
  BY <1>1 DEF AuTypeOK, AuFlags, AuEvents
<1>4. PICK now \in AuTimes : now = Len(auLog') /\ now \in Nat /\ now # 0
  BY <1>2
<1>5. ASSUME NEW kinds
      PROVE  /\ \A i \in AuRecorded(kinds, m) : i <= Len(auLog) /\ i <= now /\ i \in Nat
             /\ \A i \in AuRecorded(kinds, m)' :
                  i \in AuRecorded(kinds, m) \/ (i = now /\ e.kind \in kinds /\ e.msg = m)
  <2>1. /\ \A i \in AuRecorded(kinds, m) : i <= Len(auLog)
        /\ \A i \in AuRecorded(kinds, m)' :
             i \in AuRecorded(kinds, m) \/ (i = Len(auLog') /\ e.kind \in kinds /\ e.msg = m)
    BY <1>1, AuLonger
  <2>2. \A i \in AuRecorded(kinds, m) : i \in Nat
    BY <1>2 DEF AuRecorded
  <2> QED
    BY <1>2, <1>4, <2>1, <2>2
<1>6. ASSUME auReaction'[m] = auReaction[m], auReaction' \in [AuMessages -> AuFlags],
             \/ e.msg # m \/ e.kind \notin {"add", "remove", "clear"}
             \/ e.kind = "clear" /\ auReaction[m].last = 0
      PROVE  AuReactionTrue(m)'
  <2>1. \A i \in AuRecorded({"add", "remove"}, m)' : i \in AuRecorded({"add", "remove"}, m)
    BY <1>5, <1>6
  <2>2. \A i \in AuRecorded({"add", "remove"}, m)' : i > auPruned'["discord"] => i <= auReaction'[m].last
    BY <1>1, <1>6, <2>1 DEF AuReactionTrue
  <2>3. ASSUME auReaction'[m].last # 0
        PROVE  /\ auReaction'[m].last \in DOMAIN auLog'
               /\ \A i \in AuRecorded({"add", "remove", "clear"}, m)' : i <= auReaction'[m].last
               /\ auReaction'[m].gone = (auLog'[auReaction'[m].last].kind # "add")
    <3>1. /\ auReaction[m].last \in DOMAIN auLog
          /\ \A i \in AuRecorded({"add", "remove", "clear"}, m) : i <= auReaction[m].last
          /\ auReaction[m].gone = (auLog[auReaction[m].last].kind # "add")
      BY <1>1, <1>6, <2>3 DEF AuReactionTrue
    <3>2. \A i \in AuRecorded({"add", "remove", "clear"}, m)' : i \in AuRecorded({"add", "remove", "clear"}, m)
      BY <1>5, <1>6, <2>3
    <3>3. auLog'[auReaction[m].last] = auLog[auReaction[m].last] /\ auReaction[m].last \in DOMAIN auLog'
      BY <1>2, <3>1
    <3> QED
      BY <1>6, <3>1, <3>2, <3>3
  <2> QED
    BY <2>2, <2>3 DEF AuReactionTrue
<1>7. ASSUME NEW added \in BOOLEAN, e.msg = m, added = (e.kind = "add"),
             auReaction'[m] = AuUpsertReaction(added, now)
      PROVE  AuReactionTrue(m)'
  <2>1. auReaction'[m].last = now /\ auReaction'[m].gone = ~added
    BY <1>7 DEF AuUpsertReaction
  <2>2. \A kinds : \A i \in AuRecorded(kinds, m)' : i <= now
    BY <1>4, <1>5
  <2>3. now \in DOMAIN auLog' /\ auLog'[now] = e
    BY <1>2, <1>4
  <2>4. auReaction'[m].gone = (auLog'[auReaction'[m].last].kind # "add")
    <3>1. auLog'[auReaction'[m].last].kind = e.kind
      BY <2>1, <2>3
    <3>2. (e.kind # "add") = ~added
      BY <1>7
    <3> QED
      BY <2>1, <3>1, <3>2
  <2> QED
    BY <2>1, <2>2, <2>3, <2>4 DEF AuReactionTrue
<1>8. CASE e.kind \notin {"add", "remove", "clear"} /\ auReaction' = auReaction
  BY <1>3, <1>6, <1>8
<1>9. CASE e.kind \in {"add", "remove"} /\ auReaction' = [auReaction EXCEPT ![e.msg] = AuUpsertReaction(e.kind = "add", now)]
  <2>1. PICK added \in BOOLEAN : added = (e.kind = "add")
    OBVIOUS
  <2>2. PICK new : new = AuUpsertReaction(added, now)
    OBVIOUS
  <2>3. new \in AuFlags
    BY <1>4, <2>1, <2>2 DEF AuUpsertReaction, AuFlags
  <2>4. auReaction' = [auReaction EXCEPT ![e.msg] = new]
    BY <1>9, <2>1, <2>2
  <2>5. auReaction' \in [AuMessages -> AuFlags]
    BY <1>3, <2>3, <2>4
  <2>6. CASE m # e.msg
    <3>1. auReaction'[m] = auReaction[m]
      BY <1>3, <2>4, <2>6
    <3> QED
      BY <1>6, <2>5, <2>6, <3>1
  <2>7. CASE m = e.msg
    <3>1. auReaction'[m] = new
      BY <1>3, <2>4, <2>7
    <3> QED
      BY <1>7, <2>1, <2>2, <2>5, <2>7, <3>1
  <2> QED
    BY <2>6, <2>7
<1>10. CASE /\ e.kind = "clear"
            /\ auReaction' = [auReaction EXCEPT ![e.msg] = IF @.last = 0 THEN @ ELSE AuUpsertReaction(FALSE, now)]
  <2>1. PICK new : new = IF auReaction[e.msg].last = 0 THEN auReaction[e.msg] ELSE AuUpsertReaction(FALSE, now)
    OBVIOUS
  <2>2. new \in AuFlags
    BY <1>3, <1>4, <2>1 DEF AuUpsertReaction, AuFlags
  <2>3. auReaction' = [auReaction EXCEPT ![e.msg] = new]
    BY <1>10, <2>1
  <2>4. auReaction' \in [AuMessages -> AuFlags]
    BY <1>3, <2>2, <2>3
  <2>5. CASE m # e.msg
    <3>1. auReaction'[m] = auReaction[m]
      BY <1>3, <2>3, <2>5
    <3> QED
      BY <1>6, <2>4, <2>5, <3>1
  <2>6. CASE m = e.msg /\ auReaction[m].last = 0
    <3>1. auReaction'[m] = auReaction[m]
      BY <1>3, <2>1, <2>3, <2>6
    <3> QED
      BY <1>6, <1>10, <2>4, <2>6, <3>1
  <2>7. CASE m = e.msg /\ auReaction[m].last # 0
    <3>1. auReaction'[m] = AuUpsertReaction(FALSE, now)
      BY <1>3, <2>1, <2>3, <2>7
    <3>2. FALSE \in BOOLEAN /\ FALSE = (e.kind = "add")
      BY <1>10
    <3> QED
      BY <1>7, <2>4, <2>7, <3>1, <3>2
  <2> QED
    BY <2>5, <2>6, <2>7
<1> QED
  BY <1>4, <1>8, <1>9, <1>10 DEF AuProjectReaction

(* The goroutine records the oldest event of the queue.                     *)
LEMMA AuRecordedKept ==
  ASSUME AuInv, AuRecord
  PROVE  AuInv'
<1>1. AuTypeOK /\ AuTidy
  BY DEF AuInv
<1>2. PICK e : e = Head(auQueue)
  OBVIOUS
<1>3. /\ auStage \in {"up", "closing"} /\ auQueue # <<>> /\ auQueue' = Tail(auQueue)
      /\ AuAppends(e) /\ AuProject(e, Len(auLog'))
      /\ UNCHANGED <<auStage, auPruned, auCutoff, auFaults, auStarts>>
  BY <1>2 DEF AuRecord, AuAppends
<1>4. e \in AuEvents /\ auQueue' \in Seq(AuEvents) /\ Len(auQueue') <= AuQueueSize
  <2>1. auQueue \in Seq(AuEvents) /\ auQueue # <<>> /\ Len(auQueue) <= AuQueueSize
    BY <1>1, <1>3 DEF AuTypeOK
  <2>2. Head(auQueue) \in AuEvents /\ Tail(auQueue) \in Seq(AuEvents) /\ Len(Tail(auQueue)) = Len(auQueue) - 1
        /\ Len(auQueue) \in Nat
    BY <2>1, HeadTailProperties, LenProperties
  <2> QED
    BY <1>2, <1>3, <2>1, <2>2, AuAssumption
<1>5. Len(auLog) \in Nat /\ Len(auLog') = Len(auLog) + 1 /\ auLog' \in Seq(AuEvents) /\ Len(auLog') <= AuMaxEvents
  BY <1>1, <1>3, <1>4, AuLonger, AuAssumption DEF AuTimes
<1>6. /\ \/ AuProjectMessage(e, Len(auLog'))
         \/ e.kind \notin {"create", "update", "delete", "bulk"} /\ auRow' = auRow /\ auAttach' = auAttach
      /\ \/ e.kind \in {"thread", "threadend"} /\ AuProjectThread(e, Len(auLog'))
         \/ e.kind \notin {"thread", "threadend"} /\ auThread' = auThread
      /\ \/ AuProjectReaction(e, Len(auLog'))
         \/ e.kind \notin {"add", "remove", "clear"} /\ auReaction' = auReaction
  <2>1. CASE AuProjectMessage(e, Len(auLog')) /\ UNCHANGED <<auReaction, auThread>>
    BY <2>1 DEF AuProjectMessage
  <2>2. CASE AuProjectReaction(e, Len(auLog')) /\ UNCHANGED <<auRow, auAttach, auThread>>
    BY <2>2 DEF AuProjectReaction
  <2>3. CASE e.kind \in {"thread", "threadend"} /\ AuProjectThread(e, Len(auLog')) /\ UNCHANGED <<auRow, auAttach, auReaction>>
    BY <2>3
  <2>4. CASE AuRecordsOnly(e) /\ UNCHANGED <<auRow, auAttach, auReaction, auThread>>
    BY <2>4 DEF AuRecordsOnly
  <2> QED
    BY <1>3, <2>1, <2>2, <2>3, <2>4 DEF AuProject
<1>7. ASSUME NEW m \in AuMessages
      PROVE  /\ auRow' \in [AuMessages -> AuRows] /\ auAttach' \in [AuMessages -> AuTimes] /\ AuRowTrue(m)'
             /\ auThread' \in [AuMessages -> AuFlags] /\ AuThreadTrue(m)'
             /\ auReaction' \in [AuMessages -> AuFlags] /\ AuReactionTrue(m)'
  <2>1. auPruned' = auPruned /\ AuAppends(e)
    BY <1>3
  <2>2. auRow' \in [AuMessages -> AuRows] /\ auAttach' \in [AuMessages -> AuTimes] /\ AuRowTrue(m)'
    BY <1>4, <1>6, <2>1, AuRowRecorded
  <2>3. auThread' \in [AuMessages -> AuFlags] /\ AuThreadTrue(m)'
    BY <1>4, <1>6, <2>1, AuThreadRecorded
  <2>4. auReaction' \in [AuMessages -> AuFlags] /\ AuReactionTrue(m)'
    BY <1>4, <1>6, <2>1, AuReactionRecorded
  <2> QED
    BY <2>2, <2>3, <2>4
<1>8. e.msg \in AuMessages
  BY <1>4 DEF AuEvents
<1>9. /\ auRow' \in [AuMessages -> AuRows] /\ auAttach' \in [AuMessages -> AuTimes]
      /\ auThread' \in [AuMessages -> AuFlags] /\ auReaction' \in [AuMessages -> AuFlags]
  BY <1>7, <1>8
<1>10. AuTypeOK'
  BY <1>1, <1>3, <1>4, <1>5, <1>9 DEF AuTypeOK, AuRows, AuFlags
<1>11. AuTidy'
  <2>1. auPruned["discord"] \in AuTimes /\ auCutoff \in AuTimes
    BY <1>1 DEF AuTypeOK
  <2>2. auCutoff' <= Len(auLog')
    BY <1>1, <1>3, <1>5, <2>1, AuAssumption DEF AuTidy, AuTimes
  <2> QED
    BY <1>1, <1>3, <2>2 DEF AuTidy
<1> QED
  BY <1>7, <1>10, <1>11 DEF AuInv

(* A step that leaves the tables alone.                                     *)
LEMMA AuTablesStay ==
  ASSUME AuInv, UNCHANGED <<auLog, auPruned, auRow, auAttach, auReaction, auThread>>,
         auStage' \in {auStage, "down", "up", "closing", "events"},
         auCutoff' \in auCutoff .. Len(auLog), auCutoff' = auCutoff \/ auStage' = "events",
         auQueue' \in Seq(AuEvents), Len(auQueue') <= AuQueueSize,
         auFaults' \in 0 .. AuMaxFaults, auStarts' \in 0 .. AuMaxStarts
  PROVE  AuInv'
<1>1. AuTypeOK /\ AuTidy /\ \A m \in AuMessages : AuRowTrue(m) /\ AuThreadTrue(m) /\ AuReactionTrue(m)
  BY DEF AuInv
<1>2. /\ auLog' = auLog /\ auPruned' = auPruned /\ auRow' = auRow /\ auAttach' = auAttach
      /\ auReaction' = auReaction /\ auThread' = auThread
  OBVIOUS
<1>3. Len(auLog) \in Nat /\ Len(auLog) <= AuMaxEvents /\ auCutoff \in AuTimes /\ auPruned["discord"] \in AuTimes
  BY <1>1, LenProperties DEF AuTypeOK
<1>4. auCutoff' \in AuTimes /\ auPruned'["discord"] <= auCutoff' /\ auCutoff' <= Len(auLog')
  BY <1>1, <1>2, <1>3, AuAssumption DEF AuTidy, AuTimes
<1>5. AuTypeOK'
  BY <1>1, <1>2, <1>4, AuOrder DEF AuTypeOK, AuPruneStages
<1>6. AuTidy'
  BY <1>1, <1>2, <1>4 DEF AuTidy
<1>7. \A m \in AuMessages : AuRowTrue(m)' /\ AuThreadTrue(m)' /\ AuReactionTrue(m)'
  BY <1>1, <1>2 DEF AuRowTrue, AuThreadTrue, AuReactionTrue, AuRecorded
<1> QED
  BY <1>5, <1>6, <1>7 DEF AuInv

(* The other steps of the recorder.                                         *)
LEMMA AuOthersKept ==
  ASSUME AuInv,
         \/ AuRecordFails \/ AuOpen \/ AuClose \/ AuDrained \/ AuDies \/ UNCHANGED auVars
         \/ \E e \in AuEvents : AuEnqueue(e)
  PROVE  AuInv'
<1>1. /\ auQueue \in Seq(AuEvents) /\ Len(auQueue) \in Nat /\ Len(auQueue) <= AuQueueSize /\ auFaults \in 0 .. AuMaxFaults
      /\ auStarts \in 0 .. AuMaxStarts /\ auCutoff \in Nat /\ Len(auLog) \in Nat /\ auCutoff <= Len(auLog)
      /\ AuMaxFaults \in Nat /\ AuMaxStarts \in Nat /\ AuQueueSize \in Nat
  BY AuAssumption, LenProperties DEF AuInv, AuTypeOK, AuTidy, AuTimes
<1>2. PICK none \in Seq(AuEvents) : none = <<>>
  BY EmptySeq
<1>3. Len(none) = 0
  BY <1>2
<1>4. AuFault => auFaults' \in 0 .. AuMaxFaults
  BY <1>1 DEF AuFault
<1>5. auCutoff \in auCutoff .. Len(auLog)
  BY <1>1
<1>6. CASE AuRecordFails
  <2>1. auQueue # <<>> /\ auQueue' = Tail(auQueue)
    BY <1>6 DEF AuRecordFails
  <2>2. auQueue' \in Seq(AuEvents) /\ Len(auQueue') <= AuQueueSize
    BY <1>1, <2>1, HeadTailProperties
  <2> QED
    BY <1>1, <1>4, <1>5, <1>6, <2>2, AuTablesStay DEF AuRecordFails, AuRolledBack
<1>7. CASE AuOpen
  <2>1. auStage' = "events" /\ auStarts' \in 0 .. AuMaxStarts
    BY <1>1, <1>7, AuOrder DEF AuOpen
  <2> QED
    BY <1>1, <1>7, <2>1, AuTablesStay DEF AuOpen
<1>8. CASE AuClose
  BY <1>1, <1>5, <1>8, AuTablesStay DEF AuClose, auTables
<1>9. CASE AuDrained
  <2>1. auFaults' \in 0 .. AuMaxFaults
    BY <1>1, <1>4, <1>9 DEF AuDrained
  <2>2. auQueue' \in Seq(AuEvents) /\ Len(auQueue') <= AuQueueSize
    BY <1>1, <1>2, <1>3, <1>9 DEF AuDrained
  <2> QED
    BY <1>1, <1>5, <1>9, <2>1, <2>2, AuTablesStay DEF AuDrained, auTables
<1>10. CASE AuDies
  <2>1. auQueue' \in Seq(AuEvents) /\ Len(auQueue') <= AuQueueSize
    BY <1>1, <1>2, <1>3, <1>10 DEF AuDies
  <2> QED
    BY <1>1, <1>4, <1>5, <1>10, <2>1, AuTablesStay DEF AuDies, auTables
<1>11. CASE UNCHANGED auVars
  BY <1>1, <1>5, <1>11, AuTablesStay DEF auVars
<1>12. ASSUME NEW e \in AuEvents, AuEnqueue(e) PROVE AuInv'
  <2>1. auQueue' = Append(auQueue, e) /\ Len(auQueue) < AuQueueSize
    BY <1>12 DEF AuEnqueue, AuRoom
  <2>2. auQueue' \in Seq(AuEvents) /\ Len(auQueue') = Len(auQueue) + 1
    BY <1>1, <2>1, AppendProperties
  <2>3. Len(auQueue') <= AuQueueSize
    BY <1>1, <2>1, <2>2
  <2> QED
    BY <1>1, <1>5, <1>12, <2>2, <2>3, AuTablesStay DEF AuEnqueue, auTables
<1> QED
  BY <1>6, <1>7, <1>8, <1>9, <1>10, <1>11, <1>12

(* What a statement of the pruning does to the tables.                      *)
LEMMA AuPruneEffects ==
  ASSUME AuInv, AuPrune
  PROVE  /\ auStage \in AuPruneStages /\ auStage' = AuPruneNext(auStage)
         /\ UNCHANGED <<auQueue, auLog, auCutoff, auFaults, auStarts>>
         /\ auPruned' \in [{"discord", "bot"} -> AuTimes]
         /\ auPruned'["discord"] = IF auStage = "events" THEN auCutoff ELSE auPruned["discord"]
         /\ auAttach' \in [AuMessages -> AuTimes]
         /\ \A m \in AuMessages : auAttach'[m] = IF auStage = "attachments" /\ auAttach[m] <= auCutoff THEN 0 ELSE auAttach[m]
         /\ auReaction' \in [AuMessages -> AuFlags]
         /\ \A m \in AuMessages :
              auReaction'[m] = IF auStage = "reactions" /\ auReaction[m].last <= auCutoff THEN AuNothing ELSE auReaction[m]
         /\ auRow' \in [AuMessages -> AuRows]
         /\ \A m \in AuMessages :
              auRow'[m] = IF auStage = "messages" /\ auRow[m].last <= auCutoff THEN AuNoRow ELSE auRow[m]
         /\ auThread' \in [AuMessages -> AuFlags]
         /\ \A m \in AuMessages :
              auThread'[m] = IF auStage = "threads" /\ auThread[m].last <= auCutoff THEN AuNothing ELSE auThread[m]
<1>1. /\ auPruned \in [{"discord", "bot"} -> AuTimes] /\ auCutoff \in AuTimes /\ 0 \in AuTimes
      /\ auAttach \in [AuMessages -> AuTimes] /\ auReaction \in [AuMessages -> AuFlags]
      /\ auRow \in [AuMessages -> AuRows] /\ auThread \in [AuMessages -> AuFlags]
  BY AuAssumption DEF AuInv, AuTypeOK, AuTimes, AuRows, AuFlags
<1>2. AuNothing \in AuFlags /\ AuNoRow \in AuRows
  BY <1>1 DEF AuFlags, AuRows, AuNothing, AuNoRow
<1>3. auStage \in AuPruneStages /\ auStage' = AuPruneNext(auStage)
      /\ UNCHANGED <<auQueue, auLog, auCutoff, auFaults, auStarts>>
  BY AuOrder, Zenon DEF AuPrune
<1>4. auPruned' = CASE auStage = "events" -> [auPruned EXCEPT !["discord"] = auCutoff]
                    [] auStage = "botevents" -> [auPruned EXCEPT !["bot"] = auCutoff]
                    [] OTHER -> auPruned
  BY Zenon DEF AuPrune
<1>5. /\ auPruned' \in [{"discord", "bot"} -> AuTimes]
      /\ auPruned'["discord"] = IF auStage = "events" THEN auCutoff ELSE auPruned["discord"]
  <2>1. CASE auStage = "events"
    BY <1>1, <1>4, <2>1
  <2>2. CASE auStage = "botevents"
    BY <1>1, <1>4, <2>2
  <2>3. CASE auStage # "events" /\ auStage # "botevents"
    BY <1>1, <1>4, <2>3
  <2> QED
    BY <2>1, <2>2, <2>3
<1>6. /\ auAttach' = IF auStage = "attachments" THEN [m \in AuMessages |-> IF auAttach[m] <= auCutoff THEN 0 ELSE auAttach[m]] ELSE auAttach
      /\ auReaction' = IF auStage = "reactions" THEN [m \in AuMessages |-> IF auReaction[m].last <= auCutoff THEN AuNothing ELSE auReaction[m]] ELSE auReaction
      /\ auRow' = IF auStage = "messages" THEN [m \in AuMessages |-> IF auRow[m].last <= auCutoff THEN AuNoRow ELSE auRow[m]] ELSE auRow
      /\ auThread' = IF auStage = "threads" THEN [m \in AuMessages |-> IF auThread[m].last <= auCutoff THEN AuNothing ELSE auThread[m]] ELSE auThread
  BY Zenon DEF AuPrune, AuKeep
<1>7. /\ auAttach' \in [AuMessages -> AuTimes]
      /\ \A m \in AuMessages : auAttach'[m] = IF auStage = "attachments" /\ auAttach[m] <= auCutoff THEN 0 ELSE auAttach[m]
  BY <1>1, <1>6
<1>8. /\ auReaction' \in [AuMessages -> AuFlags]
      /\ \A m \in AuMessages :
           auReaction'[m] = IF auStage = "reactions" /\ auReaction[m].last <= auCutoff THEN AuNothing ELSE auReaction[m]
  BY <1>1, <1>2, <1>6
<1>9. /\ auRow' \in [AuMessages -> AuRows]
      /\ \A m \in AuMessages :
           auRow'[m] = IF auStage = "messages" /\ auRow[m].last <= auCutoff THEN AuNoRow ELSE auRow[m]
  BY <1>1, <1>2, <1>6
<1>10. /\ auThread' \in [AuMessages -> AuFlags]
       /\ \A m \in AuMessages :
            auThread'[m] = IF auStage = "threads" /\ auThread[m].last <= auCutoff THEN AuNothing ELSE auThread[m]
  BY <1>1, <1>2, <1>6
<1> QED
  BY <1>3, <1>5, <1>7, <1>8, <1>9, <1>10, Zenon

(* A pruning keeps the tables true: a row goes when it is older than the    *)
(* cutoff, and the events that it would tell of went before it.             *)
LEMMA AuPrunedKept ==
  ASSUME AuInv, AuPrune
  PROVE  AuInv'
<1>1. AuTypeOK /\ AuTidy /\ \A m \in AuMessages : AuRowTrue(m) /\ AuThreadTrue(m) /\ AuReactionTrue(m)
  BY DEF AuInv
<1>2. /\ auStage \in AuPruneStages /\ auStage' = AuPruneNext(auStage)
      /\ auLog' = auLog /\ auCutoff' = auCutoff
      /\ auPruned'["discord"] = IF auStage = "events" THEN auCutoff ELSE auPruned["discord"]
  BY AuPruneEffects
<1>3. /\ Len(auLog) \in Nat /\ DOMAIN auLog = 1 .. Len(auLog)
      /\ auCutoff \in Nat /\ auPruned["discord"] \in Nat
      /\ auAttach \in [AuMessages -> AuTimes] /\ auReaction \in [AuMessages -> AuFlags]
      /\ auRow \in [AuMessages -> AuRows] /\ auThread \in [AuMessages -> AuFlags]
  BY <1>1, LenProperties DEF AuTypeOK, AuTimes, AuFlags, AuRows
<1>4. PICK p \in Nat, q \in Nat, c \in Nat : p = auPruned["discord"] /\ q = auPruned'["discord"] /\ c = auCutoff
  BY <1>2, <1>3
<1>5. p <= q /\ (auStage # "events" => p = q) /\ (auStage \in {"reactions", "messages", "threads"} => p = c)
  BY <1>1, <1>2, <1>4 DEF AuTidy
<1>6. AuTypeOK'
  <2>1. auStage' \in {"up"} \cup AuPruneStages
    BY <1>2, AuOrder DEF AuPruneStages
  <2>2. auStage' \in {"down", "up", "closing"} \cup {AuPruning[n] : n \in DOMAIN AuPruning}
    BY <2>1, AuOrder
  <2> QED
    BY <1>1, <2>2, AuPruneEffects DEF AuTypeOK, AuRows, AuFlags
<1>7. AuTidy'
  <2>1. q <= c /\ (auStage = "events" => q = c)
    BY <1>1, <1>2, <1>4 DEF AuTidy
  <2>2. auStage' \in {"attachments", "reactions", "messages", "threads", "botevents"} => q = c
    <3>1. CASE auStage = "events"
      BY <2>1, <3>1
    <3>2. CASE auStage \in {"attachments", "reactions", "messages", "threads", "botevents"}
      BY <1>1, <1>2, <1>4, <3>2 DEF AuTidy
    <3> QED
      BY <1>2, <3>1, <3>2 DEF AuPruneStages
  <2>3. ASSUME auStage' \in {"reactions", "messages"}, NEW m \in AuMessages
        PROVE  auAttach'[m] = 0 \/ auAttach'[m] > c
    <3>1. auStage \in {"attachments", "reactions"}
      BY <1>2, <2>3, AuOrder DEF AuPruneStages
    <3>2. auAttach'[m] = IF auStage = "attachments" /\ auAttach[m] <= auCutoff THEN 0 ELSE auAttach[m]
      BY AuPruneEffects
    <3>3. auAttach[m] \in Nat
      BY <1>3 DEF AuTimes
    <3>4. CASE auStage = "attachments"
      BY <1>4, <3>2, <3>3, <3>4
    <3>5. CASE auStage = "reactions"
      BY <1>1, <1>4, <3>2, <3>5 DEF AuTidy
    <3> QED
      BY <3>1, <3>4, <3>5
  <2> QED
    BY <1>1, <1>2, <1>4, <2>1, <2>2, <2>3 DEF AuTidy
<1>8. \A kinds, m : AuRecorded(kinds, m)' = AuRecorded(kinds, m) /\ AuRecorded(kinds, m) \subseteq 1 .. Len(auLog)
  BY <1>2, <1>3 DEF AuRecorded
<1>9. ASSUME NEW m \in AuMessages
      PROVE  AuRowTrue(m)'
  <2>1. PICK row, new, had, has : row = auRow[m] /\ new = auRow'[m] /\ had = auAttach[m] /\ has = auAttach'[m]
    OBVIOUS
  <2>2. row \in AuRows /\ had \in Nat /\ row.last \in Nat
    BY <1>3, <2>1 DEF AuRows, AuTimes
  <2>3. new = IF auStage = "messages" /\ row.last <= c THEN AuNoRow ELSE row
    BY <1>4, <2>1, AuPruneEffects
  <2>4. has = IF auStage = "attachments" /\ had <= c THEN 0 ELSE had
    BY <1>4, <2>1, AuPruneEffects
  <2>5. /\ \A i \in AuRecorded({"delete", "bulk"}, m) : i > p => row.deleted /\ i <= row.last
        /\ \A i \in AuRecorded({"create"}, m) : i > p => row.author /\ i <= row.last
        /\ row.deleted => AuRecorded({"delete", "bulk"}, m) # {}
        /\ had <= row.last /\ row.last <= Len(auLog)
    BY <1>1, <1>4, <2>1, Zenon DEF AuRowTrue
  <2>6. /\ \A i \in AuRecorded({"delete", "bulk"}, m) : i > q => new.deleted /\ i <= new.last
        /\ \A i \in AuRecorded({"create"}, m) : i > q => new.author /\ i <= new.last
        /\ new.deleted => AuRecorded({"delete", "bulk"}, m) # {}
        /\ has <= new.last /\ new.last <= Len(auLog)
    <3>1. ASSUME NEW kinds, NEW i \in AuRecorded(kinds, m), i > q PROVE i > p /\ i \in Nat
      BY <1>5, <1>8, <3>1
    <3>2. CASE auStage = "messages" /\ row.last <= c
      <4>1. p = c /\ q = c /\ new = AuNoRow
        BY <1>5, <2>3, <3>2
      <4>2. new.last = 0 /\ new.deleted = FALSE
        BY <4>1 DEF AuNoRow
      <4>3. ASSUME NEW kinds, NEW i \in AuRecorded(kinds, m), i > q, i <= row.last PROVE FALSE
        BY <2>2, <3>1, <3>2, <4>1, <4>3
      <4>4. had = 0 \/ had > c
        BY <1>1, <1>4, <2>1, <3>2 DEF AuTidy
      <4>5. has = 0
        BY <2>2, <2>4, <2>5, <3>2, <4>4
      <4> QED
        BY <1>3, <2>5, <3>1, <4>2, <4>3, <4>5
    <3>3. CASE ~(auStage = "messages" /\ row.last <= c)
      <4>1. new = row
        BY <2>3, <3>3
      <4>2. has <= row.last
        BY <2>2, <2>4, <2>5
      <4> QED
        BY <2>5, <3>1, <4>1, <4>2
    <3> QED
      BY <3>2, <3>3
  <2> QED
    BY <1>2, <1>4, <1>8, <2>1, <2>6 DEF AuRowTrue
<1>10. ASSUME NEW m \in AuMessages
       PROVE  AuThreadTrue(m)'
  <2>1. PICK row, new : row = auThread[m] /\ new = auThread'[m]
    OBVIOUS
  <2>2. row \in AuFlags /\ row.last \in Nat
    BY <1>3, <2>1 DEF AuFlags, AuTimes
  <2>3. new = IF auStage = "threads" /\ row.last <= c THEN AuNothing ELSE row
    BY <1>4, <2>1, AuPruneEffects
  <2>4. /\ \A i \in AuRecorded({"threadend"}, m) : i > p => row.gone /\ i <= row.last
        /\ row.gone => AuRecorded({"threadend"}, m) # {}
    BY <1>1, <1>4, <2>1, Zenon DEF AuThreadTrue
  <2>5. /\ \A i \in AuRecorded({"threadend"}, m) : i > q => new.gone /\ i <= new.last
        /\ new.gone => AuRecorded({"threadend"}, m) # {}
    <3>1. ASSUME NEW i \in AuRecorded({"threadend"}, m), i > q PROVE i > p /\ i \in Nat
      BY <1>5, <1>8, <3>1
    <3>2. CASE auStage = "threads" /\ row.last <= c
      <4>1. p = c /\ q = c /\ new = AuNothing
        BY <1>5, <2>3, <3>2
      <4>2. new.gone = FALSE
        BY <4>1 DEF AuNothing
      <4>3. ASSUME NEW i \in AuRecorded({"threadend"}, m), i > q, i <= row.last PROVE FALSE
        BY <2>2, <3>1, <3>2, <4>1, <4>3
      <4> QED
        BY <2>4, <3>1, <4>2, <4>3
    <3>3. CASE ~(auStage = "threads" /\ row.last <= c)
      BY <2>3, <2>4, <3>1, <3>3
    <3> QED
      BY <3>2, <3>3
  <2> QED
    BY <1>4, <1>8, <2>1, <2>5 DEF AuThreadTrue
<1>11. ASSUME NEW m \in AuMessages
       PROVE  AuReactionTrue(m)'
  <2>1. PICK row, new : row = auReaction[m] /\ new = auReaction'[m]
    OBVIOUS
  <2>2. row \in AuFlags /\ row.last \in Nat
    BY <1>3, <2>1 DEF AuFlags, AuTimes
  <2>3. new = IF auStage = "reactions" /\ row.last <= c THEN AuNothing ELSE row
    BY <1>4, <2>1, AuPruneEffects
  <2>4. /\ \A i \in AuRecorded({"add", "remove"}, m) : i > p => i <= row.last
        /\ row.last # 0 =>
             /\ row.last \in DOMAIN auLog
             /\ \A i \in AuRecorded({"add", "remove", "clear"}, m) : i <= row.last
             /\ row.gone = (auLog[row.last].kind # "add")
    BY <1>1, <1>4, <2>1, Zenon DEF AuReactionTrue
  <2>5. /\ \A i \in AuRecorded({"add", "remove"}, m) : i > q => i <= new.last
        /\ new.last # 0 => new = row
    <3>1. ASSUME NEW i \in AuRecorded({"add", "remove"}, m), i > q PROVE i > p /\ i \in Nat
      BY <1>5, <1>8, <3>1
    <3>2. CASE auStage = "reactions" /\ row.last <= c
      <4>1. p = c /\ q = c /\ new = AuNothing
        BY <1>5, <2>3, <3>2
      <4>2. new.last = 0
        BY <4>1 DEF AuNothing
      <4>3. ASSUME NEW i \in AuRecorded({"add", "remove"}, m), i > q, i <= row.last PROVE FALSE
        BY <2>2, <3>1, <3>2, <4>1, <4>3
      <4> QED
        BY <2>4, <3>1, <4>2, <4>3
    <3>3. CASE ~(auStage = "reactions" /\ row.last <= c)
      BY <2>3, <2>4, <3>1, <3>3
    <3> QED
      BY <3>2, <3>3
  <2>6. new.last # 0 =>
          /\ new.last \in DOMAIN auLog
          /\ \A i \in AuRecorded({"add", "remove", "clear"}, m) : i <= new.last
          /\ new.gone = (auLog[new.last].kind # "add")
    BY <2>4, <2>5, Zenon
  <2> QED
    BY <1>2, <1>4, <1>8, <2>1, <2>5, <2>6 DEF AuReactionTrue
<1> QED
  BY <1>6, <1>7, <1>9, <1>10, <1>11 DEF AuInv

(* An empty log is true to its tables.                                      *)
LEMMA AuBegins == AuInit => AuInv
<1> SUFFICES ASSUME AuInit PROVE AuInv
  OBVIOUS
<1>1. /\ auStage = "down" /\ auQueue = <<>> /\ auLog = <<>>
      /\ auPruned = [t \in {"discord", "bot"} |-> 0] /\ auCutoff = 0
      /\ auRow = [m \in AuMessages |-> AuNoRow] /\ auAttach = [m \in AuMessages |-> 0]
      /\ auReaction = [m \in AuMessages |-> AuNothing] /\ auThread = [m \in AuMessages |-> AuNothing]
      /\ auFaults = 0 /\ auStarts = 0
  BY DEF AuInit
<1>2. PICK none \in Seq(AuEvents) : none = <<>>
  BY EmptySeq
<1>3. auLog \in Seq(AuEvents) /\ auQueue \in Seq(AuEvents) /\ Len(auLog) = 0 /\ Len(auQueue) = 0 /\ DOMAIN auLog = {}
  BY <1>1, <1>2
<1>4. 0 \in AuTimes /\ AuNoRow \in AuRows /\ AuNothing \in AuFlags
  BY AuAssumption DEF AuTimes, AuRows, AuFlags, AuNoRow, AuNothing
<1>5. AuTypeOK
  BY <1>1, <1>3, <1>4, AuAssumption DEF AuTypeOK, AuRows, AuFlags
<1>6. AuTidy
  BY <1>1, <1>3 DEF AuTidy
<1>7. \A kinds, m : AuRecorded(kinds, m) = {}
  BY <1>3 DEF AuRecorded
<1>8. ASSUME NEW m \in AuMessages
      PROVE  AuRowTrue(m) /\ AuThreadTrue(m) /\ AuReactionTrue(m)
  <2>1. auRow[m] = AuNoRow /\ auAttach[m] = 0 /\ auReaction[m] = AuNothing /\ auThread[m] = AuNothing
    BY <1>1
  <2>2. AuRowTrue(m)
    BY <1>3, <1>7, <2>1 DEF AuRowTrue, AuNoRow
  <2>3. AuThreadTrue(m) /\ AuReactionTrue(m)
    BY <1>7, <2>1 DEF AuThreadTrue, AuReactionTrue, AuNothing
  <2> QED
    BY <2>2, <2>3
<1> QED
  BY <1>5, <1>6, <1>8 DEF AuInv

(* The invariant of the audit log.                                          *)
THEOREM AuInvariant == AuSpec => []AuInv
<1>1. AuInv /\ [AuNext]_auVars => AuInv'
  BY AuRecordedKept, AuPrunedKept, AuOthersKept, Zenon DEF AuNext
<1> QED
  BY <1>1, AuBegins, PTL DEF AuSpec

(* What a reader of the tables finds agrees with the events recorded, in    *)
(* whatever order they came and whichever of the tables were pruned.        *)
THEOREM AuAgrees == AuSpec => [](AuTypeOK /\ AuLogKept)
<1>1. AuInv => AuTypeOK /\ AuLogKept
  <2> SUFFICES ASSUME AuInv PROVE AuTypeOK /\ AuLogKept
    OBVIOUS
  <2>1. AuTypeOK /\ \A m \in AuMessages : AuRowTrue(m) /\ AuThreadTrue(m) /\ AuReactionTrue(m)
    BY DEF AuInv
  <2>2. auLog \in Seq(AuEvents) /\ DOMAIN auLog = 1 .. Len(auLog) /\ Len(auLog) \in Nat
    BY <2>1, LenProperties DEF AuTypeOK
  <2>3. \A i \in DOMAIN auLog : auLog[i] \in AuEvents
    BY <2>2, ElementOfSeq
  <2>4. auPruned["discord"] \in Nat
    BY <2>1 DEF AuTypeOK, AuTimes
  <2>5. ASSUME NEW kinds, NEW m, "bot" \notin kinds, AuStands(kinds, m)
        PROVE  \E i \in AuRecorded(kinds, m) : i \in DOMAIN auLog /\ i > auPruned["discord"]
    <3>1. PICK i \in AuRecorded(kinds, m) : AuKept(i)
      BY <2>5 DEF AuStands
    <3>2. i \in DOMAIN auLog /\ auLog[i].kind \in kinds
      BY <3>1 DEF AuRecorded
    <3>3. auPruned["discord"] < i
      BY <2>5, <3>1, <3>2 DEF AuKept
    <3> QED
      BY <2>2, <2>4, <3>1, <3>2, <3>3
  <2>6. AuTimelineTrue
    <3>1. SUFFICES ASSUME NEW entry \in AuTimeline(AuMaxEvents),
                          entry.event.kind = "delete", AuStands({"create"}, entry.event.msg)
                   PROVE  entry.author
      BY Zenon DEF AuTimelineTrue
    <3>2. PICK i \in AuNewest(AuMaxEvents) :
            entry = [event |-> auLog[i], author |-> auLog[i].kind = "delete" /\ auRow[auLog[i].msg].author]
      BY Zenon DEF AuTimeline
    <3>3. i \in DOMAIN auLog
      BY <3>2 DEF AuNewest
    <3>4. entry.event = auLog[i] /\ (entry.author <=> auLog[i].kind = "delete" /\ auRow[auLog[i].msg].author)
      BY <3>2
    <3>5. PICK m \in AuMessages : m = auLog[i].msg
      BY <2>3, <3>3 DEF AuEvents
    <3>6. PICK k \in AuRecorded({"create"}, m) : k > auPruned["discord"]
      BY <2>5, <3>1, <3>4, <3>5
    <3>7. auRow[m].author
      BY <2>1, <3>6 DEF AuRowTrue
    <3> QED
      BY <3>1, <3>4, <3>5, <3>7
  <2>7. ASSUME NEW m \in AuMessages PROVE AuLogAgrees(m)
    <3>1. AuRowTrue(m) /\ AuThreadTrue(m) /\ AuReactionTrue(m)
      BY <2>1
    <3>2. AuStands({"delete", "bulk"}, m) => auRow[m].deleted
      BY <2>5, <3>1 DEF AuRowTrue
    <3>3. AuStands({"threadend"}, m) => auThread[m].gone
      BY <2>5, <3>1 DEF AuThreadTrue
    <3>4. AuStands({"add", "remove"}, m) => auReaction[m].last # 0
      <4>1. SUFFICES ASSUME AuStands({"add", "remove"}, m) PROVE auReaction[m].last # 0
        OBVIOUS
      <4>2. PICK i \in AuRecorded({"add", "remove"}, m) : i \in DOMAIN auLog /\ i > auPruned["discord"]
        BY <2>5, <4>1
      <4>3. i <= auReaction[m].last
        BY <3>1, <4>2 DEF AuReactionTrue
      <4> QED
        BY <2>2, <4>2, <4>3
    <3> QED
      BY <3>1, <3>2, <3>3, <3>4, Zenon DEF AuLogAgrees, AuRowTrue, AuThreadTrue, AuReactionTrue
  <2> QED
    BY <2>1, <2>6, <2>7 DEF AuLogKept
<1> QED
  BY <1>1, AuInvariant, PTL

-----------------------------------------------------------------------------
(* The skills.                                                              *)

(* A creation knows what it was asked; the store has one text, of which all *)
(* of its events tell but the rejections; and what the properties say.      *)
SkillBegun == \A k \in SkillCreations : skillStage[k] # "idle" => skillTry[k] \in SkillRequest
SkillOne ==
  /\ \A i \in DOMAIN skillLog : skillLog[i].what # "discard" => skillLog[i].text = skillText
  /\ \A s \in SkillScopes : skillInstall[s] # "none" => skillText # SkillNone
SkillInv == SkillTypeOK /\ SkillBegun /\ SkillOne /\ SkillVetted /\ SkillTrail

(* The trail of a log: SkillTold and SkillSaid, of any log.                 *)
SkillToldIn(log, s, n) == {i \in 1 .. n : log[i].scope = s /\ log[i].what # "discard"}
SkillSaidIn(log, s, n) ==
  IF SkillToldIn(log, s, n) = {} THEN "none"
  ELSE log[CHOOSE i \in SkillToldIn(log, s, n) : \A k \in SkillToldIn(log, s, n) : k <= i].after

(* What the trail says is what its last event says.                         *)
LEMMA SkillLast ==
  ASSUME NEW log, NEW s, NEW n \in Nat, SkillToldIn(log, s, n) # {}
  PROVE  /\ \E i \in SkillToldIn(log, s, n) : \A k \in SkillToldIn(log, s, n) : k <= i
         /\ \A i \in SkillToldIn(log, s, n) :
              (\A k \in SkillToldIn(log, s, n) : k <= i) => SkillSaidIn(log, s, n) = log[i].after
<1>1. PICK told : told = SkillToldIn(log, s, n)
  OBVIOUS
<1>2. told \subseteq 1 .. n /\ told \subseteq 0 .. n /\ told # {}
  BY <1>1 DEF SkillToldIn
<1>3. \E i \in told : \A k \in told : k <= i
  BY <1>2, HasGreatest, Zenon
<1> DEFINE At == CHOOSE i \in told : \A k \in told : k <= i
<1>4. SkillSaidIn(log, s, n) = log[At].after
  BY <1>1, <1>2, Zenon DEF SkillSaidIn
<1>5. At \in told /\ \A k \in told : k <= At
  BY <1>3, Zenon
<1> HIDE DEF At
<1>6. ASSUME NEW i \in told, \A k \in told : k <= i PROVE i = At
  BY <1>2, <1>5, <1>6
<1> QED
  BY <1>1, <1>3, <1>4, <1>6, Zenon

(* One event more: what was said before stays said, and the new event says  *)
(* what its scope's install is now.                                         *)
SkillGrows(log, new, n) == n \in Nat /\ \A i \in 1 .. n : new[i] = log[i]

SkillSaysMore(log, new, s, n) ==
  /\ \A m \in 0 .. n : SkillToldIn(new, s, m) = SkillToldIn(log, s, m) /\ SkillSaidIn(new, s, m) = SkillSaidIn(log, s, m)
  /\ new[n + 1].scope = s /\ new[n + 1].what # "discard" =>
       /\ SkillSaidIn(new, s, n + 1) = new[n + 1].after
       /\ SkillToldIn(new, s, n + 1) = SkillToldIn(log, s, n) \cup {n + 1}
  /\ ~(new[n + 1].scope = s /\ new[n + 1].what # "discard") =>
       /\ SkillSaidIn(new, s, n + 1) = SkillSaidIn(log, s, n)
       /\ SkillToldIn(new, s, n + 1) = SkillToldIn(log, s, n)

(* What is said after one event more.                                       *)
LEMMA SkillSaidMore ==
  ASSUME NEW log, NEW new, NEW s, NEW n, SkillGrows(log, new, n)
  PROVE  SkillSaysMore(log, new, s, n)
<1> USE DEF SkillGrows, SkillSaysMore
<1>1. ASSUME NEW m \in 0 .. n
      PROVE  SkillToldIn(new, s, m) = SkillToldIn(log, s, m) /\ SkillSaidIn(new, s, m) = SkillSaidIn(log, s, m)
  <2>1. SkillToldIn(new, s, m) = SkillToldIn(log, s, m) /\ SkillToldIn(log, s, m) \subseteq 1 .. n /\ m \in Nat
    BY <1>1 DEF SkillToldIn
  <2>2. CASE SkillToldIn(log, s, m) = {}
    BY <2>1, <2>2, Zenon DEF SkillSaidIn
  <2>3. CASE SkillToldIn(log, s, m) # {}
    <3>1. PICK i \in SkillToldIn(log, s, m) : \A k \in SkillToldIn(log, s, m) : k <= i
      BY <2>1, <2>3, SkillLast, Zenon
    <3>2. SkillSaidIn(log, s, m) = log[i].after
      BY <2>1, <2>3, <3>1, SkillLast, Zenon
    <3>3. i \in SkillToldIn(new, s, m) /\ \A k \in SkillToldIn(new, s, m) : k <= i
      BY <2>1, <3>1
    <3>4. SkillSaidIn(new, s, m) = new[i].after
      BY <2>1, <3>3, SkillLast, Zenon
    <3> QED
      BY <2>1, <3>1, <3>2, <3>4
  <2> QED
    BY <2>1, <2>2, <2>3
<1>2. SkillToldIn(new, s, n + 1) = SkillToldIn(log, s, n) \cup (IF new[n + 1].scope = s /\ new[n + 1].what # "discard" THEN {n + 1} ELSE {})
  BY DEF SkillToldIn
<1>3. SkillToldIn(log, s, n) \subseteq 1 .. n /\ n + 1 \in Nat
  BY DEF SkillToldIn
<1>4. CASE new[n + 1].scope = s /\ new[n + 1].what # "discard"
  <2>1. SkillToldIn(new, s, n + 1) = SkillToldIn(log, s, n) \cup {n + 1}
    BY <1>2, <1>4
  <2>2. n + 1 \in SkillToldIn(new, s, n + 1) /\ \A k \in SkillToldIn(new, s, n + 1) : k <= n + 1
    BY <1>3, <2>1
  <2>3. SkillSaidIn(new, s, n + 1) = new[n + 1].after
    BY <1>3, <2>2, SkillLast, Zenon
  <2> QED
    BY <1>1, <1>4, <2>1, <2>3
<1>5. CASE ~(new[n + 1].scope = s /\ new[n + 1].what # "discard")
  <2>1. SkillToldIn(new, s, n + 1) = SkillToldIn(log, s, n)
    BY <1>2, <1>5
  <2>2. CASE SkillToldIn(log, s, n) = {}
    BY <1>1, <1>5, <2>1, <2>2, Zenon DEF SkillSaidIn
  <2>3. CASE SkillToldIn(log, s, n) # {}
    <3>1. PICK i \in SkillToldIn(log, s, n) : \A k \in SkillToldIn(log, s, n) : k <= i
      BY <2>3, SkillLast, Zenon
    <3>2. SkillSaidIn(log, s, n) = log[i].after
      BY <2>3, <3>1, SkillLast, Zenon
    <3>3. i \in SkillToldIn(new, s, n + 1) /\ \A k \in SkillToldIn(new, s, n + 1) : k <= i
      BY <2>1, <3>1
    <3>4. SkillSaidIn(new, s, n + 1) = new[i].after
      BY <1>3, <3>3, SkillLast, Zenon
    <3>5. SkillSaidIn(new, s, n + 1) = SkillSaidIn(log, s, n)
      BY <1>3, <3>1, <3>2, <3>4
    <3> QED
      BY <1>1, <1>5, <2>1, <3>5
  <2> QED
    BY <2>2, <2>3
<1> QED
  BY <1>1, <1>4, <1>5

(* The trail that a log makes of the installs, and SkillTrail is that of    *)
(* the store's log.                                                         *)
SkillTrailIn(log, install) ==
  \A s \in SkillScopes :
     /\ install[s] = SkillSaidIn(log, s, Len(log))
     /\ \A i \in SkillToldIn(log, s, Len(log)) : log[i].before = SkillSaidIn(log, s, i - 1)

(* The model's trail is the trail of its log.                               *)
LEMMA SkillTrailIs ==
  /\ SkillTrail => SkillTrailIn(skillLog, skillInstall)
  /\ SkillTrailIn(skillLog', skillInstall') => SkillTrail'
<1>1. \A s, n : SkillTold(s, n) = SkillToldIn(skillLog, s, n) /\ SkillTold(s, n)' = SkillToldIn(skillLog', s, n)
  BY DEF SkillTold, SkillToldIn
<1>2. \A s, n : SkillSaid(s, n) = SkillSaidIn(skillLog, s, n)
  BY Zenon DEF SkillSaid, SkillSaidIn, SkillTold, SkillToldIn
<1>3. \A s, n : SkillSaid(s, n)' = SkillSaidIn(skillLog', s, n)
  BY Zenon DEF SkillSaid, SkillSaidIn, SkillTold, SkillToldIn
<1>4. ASSUME SkillTrail PROVE SkillTrailIn(skillLog, skillInstall)
  <2>1. SUFFICES ASSUME NEW s \in SkillScopes
                 PROVE  /\ skillInstall[s] = SkillSaidIn(skillLog, s, Len(skillLog))
                        /\ \A i \in SkillToldIn(skillLog, s, Len(skillLog)) : skillLog[i].before = SkillSaidIn(skillLog, s, i - 1)
    BY Zenon DEF SkillTrailIn
  <2>2. /\ skillInstall[s] = SkillSaid(s, Len(skillLog))
        /\ \A i \in SkillTold(s, Len(skillLog)) : skillLog[i].before = SkillSaid(s, i - 1)
    BY <1>4, <2>1, Zenon DEF SkillTrail
  <2> QED
    BY <1>1, <1>2, <2>2, Zenon
<1>5. ASSUME SkillTrailIn(skillLog', skillInstall') PROVE SkillTrail'
  <2>1. SUFFICES ASSUME NEW s \in SkillScopes'
                 PROVE  (/\ skillInstall[s] = SkillSaid(s, Len(skillLog))
                         /\ \A i \in SkillTold(s, Len(skillLog)) : skillLog[i].before = SkillSaid(s, i - 1))'
    BY Zenon DEF SkillTrail
  <2>2. s \in SkillScopes
    BY <2>1 DEF SkillScopes
  <2>3. /\ skillInstall'[s] = SkillSaidIn(skillLog', s, Len(skillLog'))
        /\ \A i \in SkillToldIn(skillLog', s, Len(skillLog')) : skillLog'[i].before = SkillSaidIn(skillLog', s, i - 1)
    BY <1>5, <2>2, Zenon DEF SkillTrailIn
  <2>4. (skillInstall[s] = SkillSaid(s, Len(skillLog)))'
    BY <1>3, <2>3, Zenon
  <2>5. (\A i \in SkillTold(s, Len(skillLog)) : skillLog[i].before = SkillSaid(s, i - 1))'
    BY <1>1, <1>3, <2>3, Zenon
  <2> QED
    BY <2>4, <2>5
<1> QED
  BY <1>4, <1>5

(* A transaction of the store writes its event: a rejection changes no      *)
(* install, any other event the install of its scope, and only the first    *)
(* of them the text.                                                        *)
SkillWrites(e) ==
  /\ e \in SkillEvent /\ skillLog' = Append(skillLog, e)
  /\ \/ e.what = "discard" /\ skillText' = skillText /\ skillInstall' = skillInstall
     \/ /\ e.what # "discard" /\ e.after \in SkillStatus /\ e.before = skillInstall[e.scope]
        /\ skillInstall' = [skillInstall EXCEPT ![e.scope] = e.after]
        /\ e.text = skillText' /\ (skillText = SkillNone \/ skillText' = skillText)

(* What a write of the store keeps.                                         *)
LEMMA SkillWritten ==
  ASSUME SkillInv, NEW e, SkillWrites(e), skillGiven' = skillGiven
  PROVE  /\ skillText' \in SkillTexts \cup {SkillNone} /\ skillInstall' \in [SkillScopes -> SkillStatus]
         /\ skillLog' \in Seq(SkillEvent) /\ SkillOne' /\ SkillVetted' /\ SkillTrail'
<1>1. SkillTypeOK /\ SkillOne /\ SkillVetted /\ SkillTrail
  BY DEF SkillInv
<1>2. e \in SkillEvent /\ e.scope \in SkillScopes /\ e.text \in SkillTexts
  BY DEF SkillWrites, SkillEvent
<1>3. PICK log, new : log = skillLog /\ new = skillLog'
  OBVIOUS
<1>4. PICK n \in Nat : n = Len(log)
  BY <1>1, <1>3, LenProperties DEF SkillTypeOK
<1>5. log \in Seq(SkillEvent) /\ new = Append(log, e)
  BY <1>1, <1>3 DEF SkillTypeOK, SkillWrites
<1>6. new \in Seq(SkillEvent) /\ Len(new) = n + 1 /\ (\A i \in 1 .. n : new[i] = log[i]) /\ new[n + 1] = e
  BY <1>2, <1>4, <1>5, AppendProperties
<1>7. DOMAIN log = 1 .. n /\ DOMAIN new = 1 .. n + 1
  BY <1>4, <1>5, <1>6, LenProperties
<1>8. \A i \in 1 .. n : log[i] \in SkillEvent /\ log[i].text \in SkillTexts
  <2>1. \A i \in 1 .. n : log[i] \in SkillEvent
    BY <1>4, <1>5, ElementOfSeq, Zenon
  <2> QED
    BY <2>1 DEF SkillEvent
<1>9. /\ skillInstall \in [SkillScopes -> SkillStatus] /\ skillText \in SkillTexts \cup {SkillNone}
      /\ SkillNone \notin SkillTexts
  BY <1>1, SkillAssumption DEF SkillTypeOK
<1>10. \/ e.what = "discard" /\ skillText' = skillText /\ skillInstall' = skillInstall
       \/ /\ e.what # "discard" /\ e.after \in SkillStatus /\ e.before = skillInstall[e.scope]
          /\ skillInstall' = [skillInstall EXCEPT ![e.scope] = e.after]
          /\ e.text = skillText' /\ (skillText = SkillNone \/ skillText' = skillText)
  BY DEF SkillWrites
<1>11. skillText' \in SkillTexts \cup {SkillNone} /\ skillInstall' \in [SkillScopes -> SkillStatus]
  BY <1>2, <1>9, <1>10
<1>12. \A i \in 1 .. n : log[i].what # "discard" => log[i].text = skillText
  BY <1>1, <1>3, <1>7 DEF SkillOne
<1>13. SkillOne'
  <2>1. \A i \in 1 .. n + 1 : new[i].what # "discard" => new[i].text = skillText'
    <3>1. SUFFICES ASSUME NEW i \in 1 .. n + 1, new[i].what # "discard" PROVE new[i].text = skillText'
      OBVIOUS
    <3>2. CASE i = n + 1
      BY <1>6, <1>10, <3>1, <3>2
    <3>3. CASE i \in 1 .. n
      <4>1. log[i].text = skillText /\ log[i].text \in SkillTexts /\ new[i] = log[i]
        BY <1>6, <1>8, <1>12, <3>1, <3>3
      <4> QED
        BY <1>9, <1>10, <4>1
    <3> QED
      BY <1>4, <3>2, <3>3
  <2>2. \A s \in SkillScopes : skillInstall'[s] # "none" => skillText' # SkillNone
    BY <1>1, <1>2, <1>9, <1>10 DEF SkillOne
  <2> QED
    BY <1>3, <1>7, <2>1, <2>2 DEF SkillOne
<1>14. SkillVetted'
  <2>1. ToSet(skillLog) \subseteq ToSet(skillLog')
    <3>1. \A i \in 1 .. n : log[i] = new[i] /\ i \in 1 .. n + 1
      BY <1>4, <1>6
    <3> QED
      BY <1>3, <1>7, <3>1 DEF ToSet
  <2> QED
    BY <1>1, <2>1, Zenon DEF SkillVetted
<1>15. SkillTrail'
  <2>1. SUFFICES ASSUME NEW s \in SkillScopes
                 PROVE  /\ skillInstall'[s] = SkillSaidIn(new, s, n + 1)
                        /\ \A i \in SkillToldIn(new, s, n + 1) : new[i].before = SkillSaidIn(new, s, i - 1)
    BY <1>3, <1>6, SkillTrailIs DEF SkillTrailIn
  <2>2. /\ skillInstall[s] = SkillSaidIn(log, s, n)
        /\ \A i \in SkillToldIn(log, s, n) : log[i].before = SkillSaidIn(log, s, i - 1)
    BY <1>1, <1>3, <1>4, SkillTrailIs DEF SkillTrailIn
  <2>3. /\ \A m \in 0 .. n : SkillSaidIn(new, s, m) = SkillSaidIn(log, s, m)
        /\ e.scope = s /\ e.what # "discard" =>
             /\ SkillSaidIn(new, s, n + 1) = e.after
             /\ SkillToldIn(new, s, n + 1) = SkillToldIn(log, s, n) \cup {n + 1}
        /\ ~(e.scope = s /\ e.what # "discard") =>
             /\ SkillSaidIn(new, s, n + 1) = SkillSaidIn(log, s, n)
             /\ SkillToldIn(new, s, n + 1) = SkillToldIn(log, s, n)
    <3>1. SkillGrows(log, new, n)
      BY <1>4, <1>6 DEF SkillGrows
    <3>2. SkillSaysMore(log, new, s, n)
      BY <3>1, SkillSaidMore, Zenon
    <3> QED
      BY <1>6, <3>2 DEF SkillSaysMore
  <2>4. SkillToldIn(log, s, n) \subseteq 1 .. n
    BY DEF SkillToldIn
  <2>5. \A i \in SkillToldIn(log, s, n) : new[i].before = SkillSaidIn(new, s, i - 1)
    <3>1. SUFFICES ASSUME NEW i \in SkillToldIn(log, s, n) PROVE new[i].before = SkillSaidIn(new, s, i - 1)
      OBVIOUS
    <3>2. i \in 1 .. n /\ i - 1 \in 0 .. n
      BY <1>4, <2>4
    <3> QED
      BY <1>6, <2>2, <2>3, <3>2
  <2>6. CASE e.scope = s /\ e.what # "discard"
    <3>1. skillInstall'[s] = e.after /\ e.before = skillInstall[s]
      BY <1>2, <1>9, <1>10, <2>6
    <3>2. SkillSaidIn(new, s, (n + 1) - 1) = skillInstall[s]
      BY <1>4, <2>2, <2>3
    <3>3. new[n + 1].before = SkillSaidIn(new, s, (n + 1) - 1)
      BY <1>6, <3>1, <3>2
    <3> QED
      BY <2>3, <2>5, <2>6, <3>1, <3>3
  <2>7. CASE ~(e.scope = s /\ e.what # "discard")
    <3>1. skillInstall'[s] = skillInstall[s]
      BY <1>2, <1>9, <1>10, <2>7
    <3> QED
      BY <2>2, <2>3, <2>5, <2>7, <3>1
  <2> QED
    BY <2>6, <2>7
<1> QED
  BY <1>3, <1>6, <1>11, <1>13, <1>14, <1>15

(* What the steps of a creation keep of the calls and of the copy.          *)
SkillCallsTyped ==
  /\ skillDraft \in [SkillCreations -> {"none", "draft", "installed", "rejected"}]
  /\ skillStage \in [SkillCreations -> {"idle", "drafted", "filed", "undo", "done", "lost"}]
  /\ skillTry \in [SkillCreations -> SkillRequest \cup {SkillNone}]
  /\ skillIsNew \in [SkillCreations -> BOOLEAN]
  /\ skillFile \in SkillTexts \cup {SkillNone}
  /\ SkillBegun

(* A rejection of a draft is written, or nothing is.                        *)
LEMMA SkillDiscards ==
  ASSUME SkillInv, NEW k \in SkillCreations, skillTry[k] \in SkillRequest, SkillDiscardDraft(k),
         skillText' = skillText, skillInstall' = skillInstall
  PROVE  /\ skillDraft' \in [SkillCreations -> {"none", "draft", "installed", "rejected"}]
         /\ skillLog' = skillLog \/ \E e : SkillWrites(e)
<1>1. skillDraft \in [SkillCreations -> {"none", "draft", "installed", "rejected"}]
  BY DEF SkillInv, SkillTypeOK
<1>2. CASE UNCHANGED <<skillDraft, skillLog>>
  BY <1>1, <1>2
<1>3. CASE /\ skillDraft[k] = "draft" /\ skillDraft' = [skillDraft EXCEPT ![k] = "rejected"]
           /\ SkillRecord("discard", skillTry[k].scope, skillTry[k].text, "draft", "rejected")
  <2>1. PICK e : e = [what |-> "discard", scope |-> skillTry[k].scope, text |-> skillTry[k].text,
                      before |-> "draft", after |-> "rejected"]
    OBVIOUS
  <2>2. skillLog' = Append(skillLog, e)
    BY <1>3, <2>1 DEF SkillRecord
  <2>3. e \in SkillEvent /\ e.what = "discard"
    BY <2>1 DEF SkillRequest, SkillEvent
  <2>4. SkillWrites(e)
    BY <2>2, <2>3 DEF SkillWrites
  <2> QED
    BY <1>1, <1>3, <2>4
<1> QED
  BY <1>2, <1>3 DEF SkillDiscardDraft

(* Each step of a creation writes the store once at most.                   *)
LEMMA SkillCallMoves ==
  ASSUME SkillInv, NEW k \in SkillCreations,
         \/ SkillCreateDraft(k) \/ SkillMaterialize(k) \/ SkillMaterializeFails(k)
         \/ SkillInstallDraft(k) \/ SkillInstallFails(k) \/ SkillRemoveCopy(k) \/ SkillKilled(k)
  PROVE  SkillCallsTyped' /\ UNCHANGED skillAgents /\ (UNCHANGED skillStore \/ \E e : SkillWrites(e))
<1>1. SkillCallsTyped /\ SkillTypeOK
  BY DEF SkillInv, SkillTypeOK, SkillCallsTyped
<1>2. skillStage[k] # "idle" => skillTry[k] \in SkillRequest /\ skillTry[k].text \in SkillTexts
  BY <1>1 DEF SkillCallsTyped, SkillBegun, SkillRequest
<1>3. CASE SkillCreateDraft(k)
  <2>1. PICK try \in SkillRequest : skillTry' = [skillTry EXCEPT ![k] = try]
    BY <1>3 DEF SkillCreateDraft
  <2>2. /\ skillStage' = [skillStage EXCEPT ![k] = "drafted"] /\ skillDraft' = [skillDraft EXCEPT ![k] = "draft"]
        /\ UNCHANGED <<skillIsNew, skillStore, skillFile, skillAgents>>
    BY <1>3 DEF SkillCreateDraft, SkillStep
  <2>3. SkillBegun'
    BY <1>1, <2>1, <2>2 DEF SkillCallsTyped, SkillBegun
  <2> QED
    BY <1>1, <2>1, <2>2, <2>3 DEF SkillCallsTyped
<1>4. CASE SkillMaterialize(k)
  <2>1. /\ skillStage[k] = "drafted" /\ skillStage' = [skillStage EXCEPT ![k] = "filed"]
        /\ UNCHANGED <<skillDraft, skillTry, skillStore, skillAgents>>
    BY <1>4 DEF SkillMaterialize, SkillStep
  <2>2. skillFile' \in SkillTexts \cup {SkillNone} /\ skillIsNew' \in [SkillCreations -> BOOLEAN]
    <3>1. CASE UNCHANGED <<skillFile, skillIsNew>>
      BY <1>1, <3>1 DEF SkillCallsTyped
    <3>2. CASE skillFile' = skillTry[k].text /\ skillIsNew' = [skillIsNew EXCEPT ![k] = skillFile = SkillNone]
      <4>1. PICK fresh \in BOOLEAN : fresh = (skillFile = SkillNone)
        OBVIOUS
      <4> QED
        BY <1>1, <1>2, <2>1, <3>2, <4>1 DEF SkillCallsTyped
    <3> QED
      BY <1>4, <3>1, <3>2 DEF SkillMaterialize
  <2>3. SkillBegun'
    BY <1>1, <1>2, <2>1 DEF SkillCallsTyped, SkillBegun
  <2> QED
    BY <1>1, <2>1, <2>2, <2>3 DEF SkillCallsTyped
<1>5. CASE SkillMaterializeFails(k) \/ SkillInstallFails(k)
  <2>1. /\ skillStage[k] \in {"drafted", "filed"} /\ SkillDiscardDraft(k)
        /\ \E to \in {"done", "undo"} : skillStage' = [skillStage EXCEPT ![k] = to]
        /\ UNCHANGED <<skillTry, skillIsNew, skillText, skillInstall, skillFile, skillAgents>>
    BY <1>5 DEF SkillMaterializeFails, SkillInstallFails, SkillStep
  <2>2. /\ skillDraft' \in [SkillCreations -> {"none", "draft", "installed", "rejected"}]
        /\ skillLog' = skillLog \/ \E e : SkillWrites(e)
    BY <1>2, <2>1, SkillDiscards
  <2>3. SkillBegun' /\ skillStage' \in [SkillCreations -> {"idle", "drafted", "filed", "undo", "done", "lost"}]
    BY <1>1, <1>2, <2>1 DEF SkillCallsTyped, SkillBegun
  <2>4. UNCHANGED skillStore \/ \E e : SkillWrites(e)
    BY <2>1, <2>2 DEF skillStore
  <2> QED
    BY <1>1, <2>1, <2>2, <2>3, <2>4 DEF SkillCallsTyped
<1>6. CASE SkillInstallDraft(k)
  <2>1. /\ skillStage[k] = "filed" /\ skillStage' = [skillStage EXCEPT ![k] = "done"] /\ skillText = SkillNone
        /\ skillDraft' = [skillDraft EXCEPT ![k] = "installed"]
        /\ UNCHANGED <<skillTry, skillIsNew, skillFile, skillAgents>>
    BY <1>6 DEF SkillInstallDraft, SkillStep, SkillFree
  <2>2. PICK try \in SkillRequest : try = skillTry[k]
    BY <1>2, <2>1
  <2>3. PICK e : e = [what |-> "create", scope |-> try.scope, text |-> try.text,
                      before |-> skillInstall[try.scope], after |-> "disabled"]
    OBVIOUS
  <2>4. /\ skillLog' = Append(skillLog, e) /\ skillText' = try.text
        /\ skillInstall' = [skillInstall EXCEPT ![try.scope] = "disabled"]
    BY <1>6, <2>2, <2>3 DEF SkillInstallDraft, SkillRecord
  <2>5. try.scope \in SkillScopes /\ try.text \in SkillTexts
    BY <2>2 DEF SkillRequest
  <2>6. skillInstall[try.scope] \in SkillStatus /\ "disabled" \in SkillStatus
    BY <1>1, <2>5 DEF SkillTypeOK, SkillStatus
  <2>7. /\ e \in SkillEvent /\ e.what # "discard" /\ e.after = "disabled" /\ e.scope = try.scope /\ e.text = try.text
        /\ e.before = skillInstall[try.scope]
    BY <2>3, <2>5, <2>6 DEF SkillEvent
  <2>8. SkillWrites(e)
    BY <2>1, <2>4, <2>6, <2>7 DEF SkillWrites
  <2>9. SkillBegun'
    BY <1>1, <1>2, <2>1 DEF SkillCallsTyped, SkillBegun
  <2> QED
    BY <1>1, <2>1, <2>8, <2>9 DEF SkillCallsTyped
<1>7. CASE SkillRemoveCopy(k) \/ SkillKilled(k)
  <2>1. /\ skillStage[k] # "idle" /\ \E to \in {"done", "lost"} : skillStage' = [skillStage EXCEPT ![k] = to]
        /\ skillFile' \in {skillFile, SkillNone}
        /\ UNCHANGED <<skillDraft, skillTry, skillIsNew, skillStore, skillAgents>>
    BY <1>7 DEF SkillRemoveCopy, SkillKilled, SkillStep
  <2>2. SkillBegun' /\ skillStage' \in [SkillCreations -> {"idle", "drafted", "filed", "undo", "done", "lost"}]
    BY <1>1, <1>2, <2>1 DEF SkillCallsTyped, SkillBegun
  <2> QED
    BY <1>1, <2>1, <2>2 DEF SkillCallsTyped
<1> QED
  BY <1>3, <1>4, <1>5, <1>6, <1>7

(* A step that leaves the store and what was given alone.                   *)
LEMMA SkillStoreStays ==
  ASSUME SkillInv, UNCHANGED <<skillStore, skillGiven>>
  PROVE  /\ skillText' \in SkillTexts \cup {SkillNone} /\ skillInstall' \in [SkillScopes -> SkillStatus]
         /\ skillLog' \in Seq(SkillEvent) /\ SkillOne' /\ SkillVetted' /\ SkillTrail'
<1>1. skillText' = skillText /\ skillInstall' = skillInstall /\ skillLog' = skillLog /\ skillGiven' = skillGiven
  BY DEF skillStore
<1>2. SkillTrailIn(skillLog', skillInstall')
  BY <1>1, SkillTrailIs DEF SkillInv
<1>3. SkillOne' /\ SkillVetted'
  BY <1>1 DEF SkillInv, SkillOne, SkillVetted
<1> QED
  BY <1>1, <1>2, <1>3, SkillTrailIs DEF SkillInv, SkillTypeOK

(* The creations keep the invariant.                                        *)
LEMMA SkillCallsKept ==
  ASSUME SkillInv, NEW k \in SkillCreations,
         \/ SkillCreateDraft(k) \/ SkillMaterialize(k) \/ SkillMaterializeFails(k)
         \/ SkillInstallDraft(k) \/ SkillInstallFails(k) \/ SkillRemoveCopy(k) \/ SkillKilled(k)
  PROVE  SkillInv'
<1>1. SkillCallsTyped' /\ UNCHANGED skillAgents /\ (UNCHANGED skillStore \/ \E e : SkillWrites(e))
  BY SkillCallMoves
<1>2. skillHint' = skillHint /\ skillGiven' = skillGiven
  BY <1>1 DEF skillAgents
<1>3. /\ skillText' \in SkillTexts \cup {SkillNone} /\ skillInstall' \in [SkillScopes -> SkillStatus]
      /\ skillLog' \in Seq(SkillEvent) /\ SkillOne' /\ SkillVetted' /\ SkillTrail'
  BY <1>1, <1>2, SkillWritten, SkillStoreStays
<1>4. SkillTypeOK'
  BY <1>1, <1>2, <1>3 DEF SkillInv, SkillTypeOK, SkillCallsTyped
<1> QED
  BY <1>1, <1>3, <1>4 DEF SkillInv, SkillCallsTyped

(* An install is switched, or what was given grows.                         *)
LEMMA SkillSwitched ==
  ASSUME SkillInv, NEW s \in SkillScopes, SkillSetEnabled(s, TRUE) \/ SkillSetEnabled(s, FALSE) \/ SkillRollback(s)
  PROVE  SkillInv'
<1>1. SkillTypeOK /\ SkillOne
  BY DEF SkillInv
<1>2. /\ skillInstall[s] # "none" /\ UNCHANGED <<skillCalls, skillText, skillFile, skillAgents>>
      /\ \E what \in {"enable", "disable", "rollback"}, after \in {"active", "disabled"} :
           /\ skillInstall' = [skillInstall EXCEPT ![s] = after]
           /\ SkillRecord(what, s, skillText, skillInstall[s], after)
  BY DEF SkillSetEnabled, SkillRollback
<1>3. PICK what \in {"enable", "disable", "rollback"}, after \in {"active", "disabled"} :
        /\ skillInstall' = [skillInstall EXCEPT ![s] = after]
        /\ SkillRecord(what, s, skillText, skillInstall[s], after)
  BY <1>2
<1>4. PICK e : e = [what |-> what, scope |-> s, text |-> skillText, before |-> skillInstall[s], after |-> after]
  OBVIOUS
<1>5. skillText \in SkillTexts /\ skillInstall[s] \in SkillStatus /\ after \in SkillStatus
  BY <1>1, <1>2, <1>3 DEF SkillTypeOK, SkillOne, SkillStatus
<1>6. e \in SkillEvent /\ e.what # "discard" /\ e.after = after /\ e.scope = s /\ e.text = skillText /\ e.before = skillInstall[s]
  BY <1>3, <1>4, <1>5 DEF SkillEvent
<1>7. SkillWrites(e)
  BY <1>2, <1>3, <1>4, <1>5, <1>6 DEF SkillWrites, SkillRecord
<1>8. skillHint' = skillHint /\ skillGiven' = skillGiven /\ UNCHANGED <<skillCalls, skillFile>>
  BY <1>2 DEF skillAgents
<1>9. /\ skillText' \in SkillTexts \cup {SkillNone} /\ skillInstall' \in [SkillScopes -> SkillStatus]
      /\ skillLog' \in Seq(SkillEvent) /\ SkillOne' /\ SkillVetted' /\ SkillTrail'
  BY <1>7, <1>8, SkillWritten
<1>10. SkillTypeOK' /\ SkillBegun'
  BY <1>1, <1>8, <1>9 DEF SkillInv, SkillTypeOK, SkillBegun, skillCalls
<1> QED
  BY <1>9, <1>10 DEF SkillInv

(* An agent is hinted at the skill, or given it: what an install that is    *)
(* active has, an event of its scope said so.                               *)
LEMMA SkillRead ==
  ASSUME SkillInv, NEW c \in SkillChannels, SkillPromptHint(c) \/ SkillGet(c)
  PROVE  SkillInv'
<1>1. SkillTypeOK /\ SkillOne /\ SkillVetted /\ SkillTrail /\ SkillBegun
  BY DEF SkillInv
<1>2. UNCHANGED <<skillCalls, skillStore, skillFile>>
  BY DEF SkillPromptHint, SkillGet
<1>3. SkillBegun'
  BY <1>1, <1>2 DEF SkillBegun, skillCalls
<1>4. CASE SkillPromptHint(c)
  <2>1. skillGiven' = skillGiven /\ skillHint' \in [SkillChannels -> BOOLEAN]
    BY <1>1, <1>4 DEF SkillPromptHint, SkillTypeOK
  <2> QED
    BY <1>1, <1>2, <1>3, <2>1, SkillStoreStays DEF SkillInv, SkillTypeOK, skillCalls
<1>5. CASE SkillGet(c)
  <2>1. /\ skillHint' = skillHint /\ skillGiven' = skillGiven \cup {<<c, skillText>>}
        /\ skillText' = skillText /\ skillInstall' = skillInstall /\ skillLog' = skillLog
    BY <1>2, <1>5 DEF SkillGet, skillStore
  <2>2. PICK s \in SkillScopes : SkillMatches(s, c) /\ skillInstall[s] = "active"
    BY <1>5 DEF SkillGet, SkillVisible, SkillResolved
  <2>3. skillText \in SkillTexts
    BY <1>1, <2>2 DEF SkillTypeOK, SkillOne
  <2>4. PICK n \in Nat : n = Len(skillLog) /\ DOMAIN skillLog = 1 .. n
    BY <1>1, LenProperties DEF SkillTypeOK
  <2>5. SkillSaidIn(skillLog, s, n) = "active"
    BY <1>1, <2>2, <2>4, SkillTrailIs DEF SkillTrailIn
  <2>6. SkillToldIn(skillLog, s, n) # {}
    BY <2>5 DEF SkillSaidIn
  <2>15. /\ \E i \in SkillToldIn(skillLog, s, n) : \A k \in SkillToldIn(skillLog, s, n) : k <= i
         /\ \A i \in SkillToldIn(skillLog, s, n) :
              (\A k \in SkillToldIn(skillLog, s, n) : k <= i) => SkillSaidIn(skillLog, s, n) = skillLog[i].after
    BY <2>6, SkillLast
  <2>7. PICK i \in SkillToldIn(skillLog, s, n) : \A k \in SkillToldIn(skillLog, s, n) : k <= i
    BY <2>15
  <2>8. skillLog[i].after = "active"
    BY <2>5, <2>7, <2>15, Zenon
  <2>9. i \in DOMAIN skillLog /\ skillLog[i].scope = s /\ skillLog[i].what # "discard"
    BY <2>4, <2>7 DEF SkillToldIn
  <2>10. skillLog[i].text = skillText /\ skillLog[i] \in ToSet(skillLog)
    BY <1>1, <2>9 DEF SkillOne, ToSet
  <2>11. ASSUME NEW g \in skillGiven'
         PROVE  \E e \in ToSet(skillLog) : e.after = "active" /\ e.text = g[2] /\ SkillMatches(e.scope, g[1])
    <3>1. CASE g \in skillGiven
      BY <1>1, <3>1 DEF SkillVetted
    <3>2. CASE g = <<c, skillText>>
      BY <2>2, <2>8, <2>9, <2>10, <3>2
    <3> QED
      BY <2>1, <2>11, <3>1, <3>2
  <2>12. SkillVetted'
    BY <2>1, <2>11 DEF SkillVetted
  <2>13. SkillOne' /\ SkillTrail'
    BY <1>1, <2>1, SkillTrailIs DEF SkillOne
  <2>14. skillGiven' \subseteq SkillChannels \X SkillTexts
    BY <1>1, <2>1, <2>3 DEF SkillTypeOK
  <2> QED
    BY <1>1, <1>2, <1>3, <2>1, <2>12, <2>13, <2>14 DEF SkillInv, SkillTypeOK, skillCalls
<1> QED
  BY <1>4, <1>5

(* The store begins empty.                                                  *)
LEMMA SkillBegins == SkillInit => SkillInv
<1> SUFFICES ASSUME SkillInit PROVE SkillInv
  OBVIOUS
<1>1. PICK none \in Seq(SkillEvent) : none = <<>>
  BY EmptySeq
<1>2. skillLog = none /\ skillLog = <<>> /\ skillGiven = {} /\ skillText = SkillNone
      /\ skillInstall = [scope \in SkillScopes |-> "none"]
  BY <1>1 DEF SkillInit
<1>3. SkillTypeOK
  BY <1>1, <1>2 DEF SkillInit, SkillTypeOK, SkillStatus
<1>4. SkillBegun
  BY DEF SkillInit, SkillBegun
<1>5. SkillOne /\ SkillVetted
  BY <1>2 DEF SkillOne, SkillVetted
<1>6. SkillTrail
  <2>1. \A s, n : n = 0 => SkillTold(s, n) = {}
    BY DEF SkillTold
  <2>2. Len(skillLog) = 0
    BY <1>2
  <2>3. \A s : SkillTold(s, Len(skillLog)) = {}
    BY <2>1, <2>2
  <2> QED
    BY <1>2, <2>3 DEF SkillTrail, SkillSaid
<1> QED
  BY <1>3, <1>4, <1>5, <1>6 DEF SkillInv

(* The invariant of the skills: whatever a creation leaves half done and    *)
(* whoever switches an install meanwhile, what an agent was given had been  *)
(* enabled for it, and the trail of events tells the whole story.           *)
THEOREM SkillInvariant == SkillSpec => [](SkillInv /\ SkillTypeOK /\ SkillVetted /\ SkillTrail)
<1>1. SkillInv /\ [SkillNext]_skillVars => SkillInv'
  <2> SUFFICES ASSUME SkillInv, [SkillNext]_skillVars PROVE SkillInv'
    OBVIOUS
  <2>1. CASE UNCHANGED skillVars
    BY <2>1, SkillStoreStays DEF SkillInv, SkillTypeOK, SkillBegun, skillVars, skillCalls, skillStore, skillAgents
  <2>2. CASE SkillNext
    BY <2>2, SkillCallsKept, SkillSwitched, SkillRead, Zenon DEF SkillNext
  <2> QED
    BY <2>1, <2>2
<1>2. SkillInv => SkillInv /\ SkillTypeOK /\ SkillVetted /\ SkillTrail
  BY DEF SkillInv
<1> QED
  BY <1>1, <1>2, SkillBegins, PTL DEF SkillSpec

-----------------------------------------------------------------------------
(* The whole: the parts that PlatParts leaves.                              *)
LEMMA PlatLedgers == PlatSpec => SkillSpec /\ EgSpec /\ UsSpec /\ AuSpec
<1>1. PlatInit => SkillInit /\ EgInit /\ UsInit /\ AuInit
  BY DEF PlatInit
<1>2. [PlatNext]_platVars => [SkillNext]_skillVars /\ [EgNext]_egVars /\ [UsNext]_usVars /\ [AuNext]_auVars
  BY DEF PlatNext, PlatWeb, PlatSkill, PlatMcp, PlatIn, PlatBots, PlatEg, PlatUs, PlatMed, PlatAu, platVars
<1> QED
  BY <1>1, <1>2, PTL DEF PlatSpec, SkillSpec, EgSpec, UsSpec, AuSpec

(* No agent is given a skill that was not enabled for it, and the audit     *)
(* trail accounts for every install (SkillsGoverned).                       *)
THEOREM PlatSkillsGoverned == PlatSpec => []SkillsGoverned
<1>1. SkillVetted /\ SkillTrail => SkillsGoverned
  BY DEF SkillsGoverned
<1> QED
  BY <1>1, PlatLedgers, SkillInvariant, PTL

(* No action that an agent queued takes effect twice but for a failure or a *)
(* restart; each was done or told, or was lost to a failure of Discord or   *)
(* of its file; and none comes after its job's final answer (EgDelivers).   *)
THEOREM PlatDelivers == PlatSpec => []EgDelivers
BY PlatLedgers, EgSettles, PTL

(* What is spent stays near its ceilings, the older ledger is counted once  *)
(* unless it was written to between its count and its archive, and the      *)
(* tables of the audit log agree with its events (LedgersKept).             *)
THEOREM PlatLedgersKept == PlatSpec => []LedgersKept
<1>1. UsLimitKept /\ UsImportedOnce /\ AuLogKept => LedgersKept
  BY DEF LedgersKept
<1> QED
  BY <1>1, PlatLedgers, UsLedger, AuAgrees, PTL

(* Every part has its types (PlatTypeOK).                                   *)
THEOREM PlatTypes == PlatSpec => []PlatTypeOK
<1>1. BotsInv => BotsTypeOK
  BY DEF BotsInv
<1>2. MedInv => MedTypeOK
  BY DEF MedInv
<1>3. /\ WebTypeOK /\ SkillTypeOK /\ McpTypeOK /\ InTypeOK
      /\ BotsTypeOK /\ EgTypeOK /\ UsTypeOK /\ MedTypeOK /\ AuTypeOK
      => PlatTypeOK
  BY DEF PlatTypeOK
<1> QED
  BY <1>1, <1>2, <1>3, PlatParts, PlatLedgers, WebInvariant, WebInvGives, SkillInvariant, McpTypes, InTypes, BotsInvariant,
     EgSettles, UsLedger, MedInvariant, AuAgrees, PTL
====
