-------------------------------- MODULE Audit --------------------------------
(* The audit log. The handlers of the gateway's events and the bot itself  *)
(* put events in a bounded queue; one goroutine records each of them and   *)
(* projects it, in one transaction, onto the tables of messages, their     *)
(* attachments, reactions and threads. What is older than the retention is *)
(* deleted, table by table, when the log opens. Other processes read the   *)
(* tables meanwhile. discordgo runs each handler in a goroutine of its     *)
(* own, so that events reach the queue in any order.                       *)
EXTENDS Naturals, Sequences, FiniteSets

CONSTANTS
  AuMessages,     \* the messages, each with at most one reaction and one thread
  AuKinds,        \* the kinds of events that come; each is recorded once of a message
  AuQueueSize,    \* the capacity of the queue
  AuMaxEvents,    \* bounds the events that are recorded
  AuMaxFaults,    \* bounds the failures
  AuMaxStarts     \* bounds the starts

AuAllKinds == {"create", "update", "delete", "bulk", "add", "remove", "clear", "thread", "threadend", "other", "bot"}

ASSUME AuAssumption ==
  /\ IsFiniteSet(AuMessages) /\ AuKinds \subseteq AuAllKinds
  /\ AuQueueSize \in Nat \ {0} /\ AuMaxEvents \in Nat /\ AuMaxFaults \in Nat /\ AuMaxStarts \in Nat

VARIABLES
  auStage,     \* whether the log is closed, works, closes, or which table it prunes
  auQueue,
  auLog,       \* all that was recorded, in order: an event's time is its place here
  auPruned,    \* of each of the two tables of events, the time up to which it was pruned
  auCutoff,    \* what is not later than this is older than the retention
  auRow,       \* the row of each message
  auAttach,    \* the time of each message's attachment, 0 if there is none
  auReaction, auThread,
  auFaults, auStarts
auTables == <<auLog, auPruned, auCutoff, auRow, auAttach, auReaction, auThread>>
auVars == <<auStage, auQueue, auLog, auPruned, auCutoff, auRow, auAttach, auReaction, auThread, auFaults, auStarts>>

AuPruning == <<"events", "attachments", "reactions", "messages", "threads", "botevents">>
AuEvents == [kind : AuKinds, msg : AuMessages]
AuTimes == 0 .. AuMaxEvents
AuNoRow == [last |-> 0, author |-> FALSE, deleted |-> FALSE]
AuNothing == [last |-> 0, gone |-> FALSE]

AuTypeOK ==
  /\ auStage \in {"down", "up", "closing"} \cup {AuPruning[n] : n \in DOMAIN AuPruning}
  /\ auLog \in Seq(AuEvents) /\ Len(auLog) <= AuMaxEvents
  /\ auQueue \in Seq(AuEvents) /\ Len(auQueue) <= AuQueueSize
  /\ auPruned \in [{"discord", "bot"} -> AuTimes] /\ auCutoff \in AuTimes
  /\ auRow \in [AuMessages -> [last : AuTimes, author : BOOLEAN, deleted : BOOLEAN]]
  /\ auAttach \in [AuMessages -> AuTimes]
  /\ auReaction \in [AuMessages -> [last : AuTimes, gone : BOOLEAN]]
  /\ auThread \in [AuMessages -> [last : AuTimes, gone : BOOLEAN]]
  /\ auFaults \in 0 .. AuMaxFaults /\ auStarts \in 0 .. AuMaxStarts

AuInit ==
  /\ auStage = "down" /\ auQueue = <<>> /\ auLog = <<>>
  /\ auPruned = [t \in {"discord", "bot"} |-> 0] /\ auCutoff = 0
  /\ auRow = [m \in AuMessages |-> AuNoRow] /\ auAttach = [m \in AuMessages |-> 0]
  /\ auReaction = [m \in AuMessages |-> AuNothing] /\ auThread = [m \in AuMessages |-> AuNothing]
  /\ auFaults = 0 /\ auStarts = 0

-----------------------------------------------------------------------------
(* An event that finds the queue full is dropped, as is every event that   *)
(* finds the recorder closed: nothing changes. While the recorder closes,  *)
(* an event may be taken or be dropped.                                    *)
AuRoom == Len(auQueue) < AuQueueSize
AuHas(events, e) == \E i \in DOMAIN events : events[i] = e
AuEnqueue(e) ==
  /\ auStage \in {"up", "closing"} /\ ~AuHas(auQueue, e) /\ ~AuHas(auLog, e)
  /\ AuRoom /\ auQueue' = Append(auQueue, e)
  /\ UNCHANGED <<auStage, auTables, auFaults, auStarts>>

-----------------------------------------------------------------------------
(* The projection, at the time now. A message that is not known yet gets   *)
(* its row from any event. A creation names the author, an update may not, *)
(* and neither takes the author nor the deletion away.                     *)
AuUpsertMessage(row, author, now) == [row EXCEPT !.last = now, !.author = @ \/ author]
AuMarkDeleted(row, now) == [row EXCEPT !.last = now, !.deleted = TRUE]
AuUpsertAttachments(m, attached, now) == IF attached THEN [auAttach EXCEPT ![m] = now] ELSE auAttach
AuProjectMessage(e, now) ==
  \/ /\ e.kind \in {"create", "update"}
     /\ \E author, attached \in BOOLEAN :
          /\ e.kind = "create" => author
          /\ auRow' = [auRow EXCEPT ![e.msg] = AuUpsertMessage(@, author, now)]
          /\ auAttach' = AuUpsertAttachments(e.msg, attached, now)
  \/ /\ e.kind \in {"delete", "bulk"}
     /\ auRow' = [auRow EXCEPT ![e.msg] = AuMarkDeleted(@, now)] /\ UNCHANGED auAttach

(* An added reaction is there again, whatever came before; to clear all    *)
(* reactions of a message concerns those that have a row.                  *)
AuUpsertReaction(added, now) == [last |-> now, gone |-> ~added]
AuProjectReaction(e, now) ==
  \/ e.kind \in {"add", "remove"} /\ auReaction' = [auReaction EXCEPT ![e.msg] = AuUpsertReaction(e.kind = "add", now)]
  \/ e.kind = "clear" /\ auReaction' = [auReaction EXCEPT ![e.msg] = IF @.last = 0 THEN @ ELSE AuUpsertReaction(FALSE, now)]

(* A thread that was deleted stays deleted.                                *)
AuUpsertThread(row, deleted, now) == [last |-> now, gone |-> row.gone \/ deleted]
AuProjectThread(e, now) ==
  auThread' = [auThread EXCEPT ![e.msg] = AuUpsertThread(@, e.kind = "threadend", now)]

(* The bot's own events have a table of their own; other Discord events    *)
(* are recorded and not projected.                                         *)
AuRecordsOnly(e) == e.kind \in {"bot", "other"}

AuProject(e, now) ==
  \/ AuProjectMessage(e, now) /\ UNCHANGED <<auReaction, auThread>>
  \/ AuProjectReaction(e, now) /\ UNCHANGED <<auRow, auAttach, auThread>>
  \/ e.kind \in {"thread", "threadend"} /\ AuProjectThread(e, now) /\ UNCHANGED <<auRow, auAttach, auReaction>>
  \/ AuRecordsOnly(e) /\ UNCHANGED <<auRow, auAttach, auReaction, auThread>>

(* The goroutine takes the oldest event, also while it drains the queue at *)
(* the end. The event and its projection are one transaction; one that     *)
(* fails or takes more than five seconds leaves nothing.                   *)
AuRecord ==
  /\ auStage \in {"up", "closing"} /\ auQueue # <<>> /\ auQueue' = Tail(auQueue)
  /\ Len(auLog) < AuMaxEvents /\ auLog' = Append(auLog, Head(auQueue))
  /\ AuProject(Head(auQueue), Len(auLog'))
  /\ UNCHANGED <<auStage, auPruned, auCutoff, auFaults, auStarts>>
AuFault == auFaults < AuMaxFaults /\ auFaults' = auFaults + 1

AuRolledBack == UNCHANGED auLog
AuRecordFails ==
  /\ auStage \in {"up", "closing"} /\ auQueue # <<>> /\ auQueue' = Tail(auQueue) /\ AuFault
  /\ Len(auLog) < AuMaxEvents /\ AuRolledBack
  /\ UNCHANGED <<auStage, auPruned, auCutoff, auRow, auAttach, auReaction, auThread, auStarts>>

-----------------------------------------------------------------------------
(* The start: time has passed, and each table loses what is too old, in a  *)
(* statement of its own.                                                   *)
AuOpen ==
  /\ auStage = "down" /\ auStarts < AuMaxStarts /\ auStarts' = auStarts + 1
  /\ auStage' = AuPruning[1] /\ auCutoff' \in auCutoff .. Len(auLog)
  /\ UNCHANGED <<auQueue, auLog, auPruned, auRow, auAttach, auReaction, auThread, auFaults>>

AuPruneNext(stage) ==
  LET n == CHOOSE k \in DOMAIN AuPruning : AuPruning[k] = stage IN
    IF n = Len(AuPruning) THEN "up" ELSE AuPruning[n + 1]
AuKeep(table, none) == [m \in AuMessages |-> IF table[m].last <= auCutoff THEN none ELSE table[m]]
AuPrune ==
  /\ auStage \in {AuPruning[n] : n \in DOMAIN AuPruning} /\ auStage' = AuPruneNext(auStage)
  /\ auPruned' = CASE auStage = "events" -> [auPruned EXCEPT !["discord"] = auCutoff]
                   [] auStage = "botevents" -> [auPruned EXCEPT !["bot"] = auCutoff]
                   [] OTHER -> auPruned
  /\ auAttach' = IF auStage = "attachments" THEN [m \in AuMessages |-> IF auAttach[m] <= auCutoff THEN 0 ELSE auAttach[m]] ELSE auAttach
  /\ auReaction' = IF auStage = "reactions" THEN AuKeep(auReaction, AuNothing) ELSE auReaction
  /\ auRow' = IF auStage = "messages" THEN AuKeep(auRow, AuNoRow) ELSE auRow
  /\ auThread' = IF auStage = "threads" THEN AuKeep(auThread, AuNothing) ELSE auThread
  /\ UNCHANGED <<auQueue, auLog, auCutoff, auFaults, auStarts>>

(* The recorder is closed when the bot stops: it drains its queue, but for *)
(* no more than two seconds; and the process may die at any time, a start  *)
(* that a table could not be pruned for included.                          *)
AuClose ==
  /\ auStage = "up" /\ auStage' = "closing"
  /\ UNCHANGED <<auQueue, auTables, auFaults, auStarts>>
AuDrained ==
  /\ auStage = "closing" /\ auStage' = "down" /\ auQueue' = <<>>
  /\ IF auQueue = <<>> THEN UNCHANGED auFaults ELSE AuFault
  /\ UNCHANGED <<auTables, auStarts>>
AuDies ==
  /\ auStage # "down" /\ AuFault /\ auStage' = "down" /\ auQueue' = <<>>
  /\ UNCHANGED <<auTables, auStarts>>

AuNext ==
  \/ AuRecord \/ AuRecordFails \/ AuOpen \/ AuPrune \/ AuClose \/ AuDrained \/ AuDies
  \/ \E e \in AuEvents : AuEnqueue(e)

AuSpec == AuInit /\ [][AuNext]_auVars

-----------------------------------------------------------------------------
(* What a reader finds: the newest events of the two tables, a deletion    *)
(* with the author that the message's row names.                           *)
AuKept(i) == auPruned[IF auLog[i].kind = "bot" THEN "bot" ELSE "discord"] < i
AuNewest(limit) == {i \in DOMAIN auLog : AuKept(i) /\ Cardinality({k \in DOMAIN auLog : AuKept(k) /\ k > i}) < limit}
AuTimeline(limit) ==
  {[event |-> auLog[i], author |-> auLog[i].kind = "delete" /\ auRow[auLog[i].msg].author] : i \in AuNewest(limit)}

(* In whatever order a message's events come, whatever fails, and while    *)
(* tables are pruned, the tables a reader joins agree with the recorded    *)
(* events: a deletion that is in the timeline names the author if the      *)
(* creation was recorded, its message and its thread are deleted and stay  *)
(* so, a reaction is as its last event left it, nothing is deleted that no *)
(* event deleted, and no attachment outlives its message.                  *)
AuRecorded(kinds, m) == {i \in DOMAIN auLog : auLog[i].kind \in kinds /\ auLog[i].msg = m}
AuStands(kinds, m) == \E i \in AuRecorded(kinds, m) : AuKept(i)
AuTimelineTrue ==
  \A entry \in AuTimeline(AuMaxEvents) :
    entry.event.kind = "delete" /\ AuStands({"create"}, entry.event.msg) => entry.author
AuLogAgrees(m) ==
  /\ AuStands({"delete", "bulk"}, m) => auRow[m].deleted
  /\ AuStands({"threadend"}, m) => auThread[m].gone
  /\ auRow[m].deleted => AuRecorded({"delete", "bulk"}, m) # {}
  /\ auThread[m].gone => AuRecorded({"threadend"}, m) # {}
  /\ AuStands({"add", "remove"}, m) => auReaction[m].last # 0
  /\ auReaction[m].last # 0 =>
       /\ \A i \in AuRecorded({"add", "remove", "clear"}, m) : i <= auReaction[m].last
       /\ auReaction[m].gone = (auLog[auReaction[m].last].kind # "add")
  /\ auAttach[m] <= auRow[m].last
AuLogKept == AuTimelineTrue /\ \A m \in AuMessages : AuLogAgrees(m)
=============================================================================
