--------------------------- MODULE PlatformProofs ---------------------------
(* Proofs about what surrounds the conversations (MCPlatform): the policy   *)
(* of the MCP servers, the media jobs, the intake of messages, the peer     *)
(* bots and the web share. Each part has its inductive invariant, and what  *)
(* is proved of a part holds of the whole, whose steps are its parts' steps.*)
EXTENDS MCPlatform, TLAPS, FiniteSetTheorems, SequenceTheorems

-----------------------------------------------------------------------------
(* The policy of an MCP server.                                             *)

(* What an interaction makes of a row is a row.                             *)
LEMMA McpAskedRow ==
  ASSUME NEW row \in McpRows, NEW ask \in McpAsks
  PROVE  McpAsked(row, ask) \in McpRows
<1>1. CASE ask.kind = "full"
  BY <1>1 DEF McpAsked, McpFull, McpRows
<1>2. CASE ask.kind = "disable"
  BY <1>2 DEF McpAsked, McpRows
<1>3. CASE ask.kind = "default"
  BY <1>3, McpAssumption DEF McpAsked, McpDefaulted, McpRows
<1>4. CASE ask.kind \in {"allow", "deny"}
  <2>1. ask.tool \in McpTools
    BY <1>4 DEF McpAsks
  <2>2. PICK allow : allow = (ask.kind = "allow")
    OBVIOUS
  <2>3. PICK next : next = (IF allow THEN McpListed(row, allow) \cup {ask.tool} ELSE McpListed(row, allow) \ {ask.tool})
    OBVIOUS
  <2>4. next \in SUBSET McpTools
    BY <2>1, <2>3 DEF McpListed, McpRows
  <2>5. [row EXCEPT !.enabled = next # {}, !.all = FALSE, !.readOnly = next = {}, !.preset = "none", !.allowed = next] \in McpRows
    BY <2>4 DEF McpRows
  <2>6. McpAsked(row, ask) = McpWithTool(row, ask.tool, allow)
    BY <1>4, <2>2 DEF McpAsked
  <2> QED
    BY <2>3, <2>5, <2>6 DEF McpWithTool
<1> QED
  BY <1>1, <1>2, <1>3, <1>4 DEF McpAsks

(* The row as it is read is a row.                                          *)
LEMMA McpReadRow ==
  ASSUME mcpRow \in McpRows
  PROVE  McpRead \in McpRows
BY McpAssumption DEF McpRead, McpNormal, McpRows

(* A proxy that starts lets through what the row grants.                    *)
LEMMA McpProxyGrants ==
  ASSUME NEW row \in McpRows
  PROVE  /\ McpProxy(row) \in [at : {"down", "starting", "up"}, all : BOOLEAN, allowed : SUBSET McpTools]
         /\ (IF McpProxy(row).all THEN McpTools ELSE McpProxy(row).allowed) \subseteq McpGranted(row)
BY DEF McpProxy, McpEffective, McpGranted, McpRows

(* The types hold of an initial state.                                      *)
LEMMA McpInitTyped == McpInit => McpTypeOK
<1> SUFFICES ASSUME McpInit PROVE McpTypeOK
  OBVIOUS
<1>1. McpNoRow \in McpRows /\ McpMigrated \in McpRows /\ McpOldDefault \in McpRows
  BY McpAssumption DEF McpNoRow, McpMigrated, McpOldDefault, McpRows
<1>2. McpIdle \in [at : McpStages, ask : McpAsks, row : McpRows]
  BY <1>1, McpAssumption DEF McpIdle, McpStages, McpAsks
<1>3. McpDown \in [at : {"down", "starting", "up"}, all : BOOLEAN, allowed : SUBSET McpTools]
  BY DEF McpDown
<1>4. mcpRow \in McpRows /\ mcpInited \in BOOLEAN
  BY <1>1 DEF McpInit
<1>5. mcpDo \in [McpManagers -> [at : McpStages, ask : McpAsks, row : McpRows]]
  BY <1>2 DEF McpInit
<1>6. mcpAgent \in [McpAgents -> [at : {"down", "starting", "up"}, all : BOOLEAN, allowed : SUBSET McpTools]]
  BY <1>3 DEF McpInit
<1> QED
  BY <1>4, <1>5, <1>6, McpAssumption DEF McpInit, McpTypeOK

(* A step keeps the types.                                                  *)
LEMMA McpTypesKept == McpTypeOK /\ [McpNext]_mcpVars => McpTypeOK'
<1> DEFINE Doing == [at : McpStages, ask : McpAsks, row : McpRows]
           Agent == [at : {"down", "starting", "up"}, all : BOOLEAN, allowed : SUBSET McpTools]
<1> SUFFICES ASSUME McpTypeOK, [McpNext]_mcpVars PROVE McpTypeOK'
  OBVIOUS
<1>1. /\ mcpRow \in McpRows /\ mcpCached \in BOOLEAN /\ mcpInited \in BOOLEAN
      /\ mcpDo \in [McpManagers -> Doing] /\ mcpAgent \in [McpAgents -> Agent]
      /\ mcpOld \subseteq McpAgents /\ mcpChanges \in 0 .. McpMaxChanges
  BY DEF McpTypeOK
<1>2. McpNoRow \in McpRows
  BY DEF McpNoRow, McpRows
<1>3. McpIdle \in Doing
  BY <1>2, McpAssumption DEF McpIdle, McpStages, McpAsks
<1>4. McpIdle.ask.tool \in McpTools
  BY McpAssumption DEF McpIdle
<1>5. McpDown \in Agent
  BY DEF McpDown
<1>6. SUFFICES /\ mcpRow' \in McpRows /\ mcpCached' \in BOOLEAN /\ mcpInited' \in BOOLEAN
               /\ mcpDo' \in [McpManagers -> Doing] /\ mcpAgent' \in [McpAgents -> Agent]
               /\ mcpOld' \subseteq McpAgents /\ mcpChanges' \in 0 .. McpMaxChanges
  BY DEF McpTypeOK
<1> HIDE DEF Agent
<1>7. ASSUME NEW u \in McpManagers, NEW from, NEW ask \in McpAsks, McpReads(u, from, ask)
      PROVE  mcpDo' \in [McpManagers -> Doing]
  <2>1. McpAsked(McpRead, ask) \in McpRows
    BY <1>1, <1>7, McpReadRow, McpAskedRow
  <2> QED
    BY <1>1, <1>7, <2>1 DEF McpReads, McpStages
<1>8. ASSUME NEW u \in McpManagers, NEW from, NEW to \in McpStages, McpStage(u, from, to)
      PROVE  mcpDo' \in [McpManagers -> Doing]
  BY <1>1, <1>8 DEF McpStage
<1>9. ASSUME NEW u \in McpManagers, NEW do \in Doing, mcpDo' = [mcpDo EXCEPT ![u] = do]
      PROVE  mcpDo' \in [McpManagers -> Doing]
  BY <1>1, <1>9
<1>10. CASE \E u \in McpManagers : \E ask \in McpAsks : McpChange(u, ask)
  BY <1>1, <1>7, <1>10, McpAssumption DEF McpChange
<1>11. CASE \E u \in McpManagers : McpConfirm(u) \/ McpInitialize(u)
  <2> PICK u \in McpManagers : McpConfirm(u) \/ McpInitialize(u)
    BY <1>11
  <2>1. mcpDo' \in [McpManagers -> Doing]
    BY <1>8 DEF McpConfirm, McpInitialize, McpStages
  <2>2. mcpChanges' \in 0 .. McpMaxChanges
    BY <1>1, McpAssumption DEF McpConfirm, McpInitialize
  <2>3. /\ mcpInited' \in BOOLEAN
        /\ mcpRow' = mcpRow /\ mcpCached' = mcpCached /\ mcpAgent' = mcpAgent /\ mcpOld' = mcpOld
    BY <1>1 DEF McpConfirm, McpInitialize
  <2> QED
    BY <1>1, <2>1, <2>2, <2>3
<1>12. CASE \E u \in McpManagers : McpEnableDefault(u)
  <2>1. [kind |-> "default", tool |-> McpIdle.ask.tool] \in McpAsks
    BY <1>4 DEF McpAsks
  <2> QED
    BY <1>1, <1>7, <1>12, <2>1 DEF McpEnableDefault
<1>13. CASE \E u \in McpManagers : McpWrite(u)
  <2> PICK u \in McpManagers : McpWrite(u)
    BY <1>13
  <2>1. mcpDo' \in [McpManagers -> Doing]
    BY <1>3, <1>8, <1>9 DEF McpWrite, McpStages
  <2>2. mcpRow' \in McpRows
    BY <1>1 DEF McpWrite
  <2> QED
    BY <1>1, <2>1, <2>2 DEF McpWrite, McpRunning
<1>14. CASE \E u \in McpManagers : McpWriteFails(u)
  BY <1>1, <1>3, <1>9, <1>14 DEF McpWriteFails
<1>15. CASE \E u \in McpManagers : McpStopsAgents(u)
  BY <1>1, <1>3, <1>5, <1>9, <1>15 DEF McpStopsAgents
<1>16. CASE \E a \in McpAgents : McpStart(a)
  <2>1. McpProxy(McpRead) \in Agent
    BY <1>1, McpReadRow, McpProxyGrants DEF Agent
  <2> QED
    BY <1>1, <1>16, <2>1 DEF McpStart
<1>17. CASE \E a \in McpAgents : McpStarted(a)
  BY <1>1, <1>17 DEF McpStarted, Agent
<1>18. CASE \E a \in McpAgents : McpEnds(a)
  BY <1>1, <1>5, <1>18 DEF McpEnds
<1>19. CASE McpDiscover \/ McpRestart \/ UNCHANGED mcpVars
  BY <1>1, <1>3, <1>5, <1>19 DEF McpDiscover, McpRestart, mcpVars
<1> QED
  BY <1>10, <1>11, <1>12, <1>13, <1>14, <1>15, <1>16, <1>17, <1>18, <1>19 DEF McpNext

(* The types hold in every state of the policy.                             *)
THEOREM McpTypes == McpSpec => []McpTypeOK
BY McpInitTyped, McpTypesKept, PTL DEF McpSpec

(* No step lets an agent reach what the row does not grant, once no change  *)
(* waits to be answered: a change that wrote the row is "written" until the *)
(* agents it concerns are stopped, and those that start meanwhile read the  *)
(* row that is there.                                                       *)
LEMMA McpFollowedKept == McpTypeOK /\ McpFollowed /\ [McpNext]_mcpVars => McpFollowed'
<1> DEFINE Quiet == \A u \in McpManagers : mcpDo[u].at # "written"
<1> SUFFICES ASSUME McpTypeOK, McpFollowed, [McpNext]_mcpVars, Quiet',
                    NEW a \in McpTargets, a \notin mcpOld'
             PROVE  McpReach(a)' \subseteq McpGranted(McpRead)'
  BY DEF McpFollowed
<1>1. /\ mcpRow \in McpRows /\ a \in McpAgents
      /\ mcpDo \in [McpManagers -> [at : McpStages, ask : McpAsks, row : McpRows]]
      /\ mcpAgent \in [McpAgents -> [at : {"down", "starting", "up"}, all : BOOLEAN, allowed : SUBSET McpTools]]
  BY DEF McpTypeOK, McpAgents
<1>2. ASSUME Quiet, a \notin mcpOld, mcpRow' = mcpRow, McpReach(a)' \subseteq McpReach(a)
      PROVE  McpReach(a)' \subseteq McpGranted(McpRead)'
  <2>1. McpReach(a) \subseteq McpGranted(McpRead)
    BY <1>2 DEF McpFollowed
  <2>2. McpGranted(McpRead)' = McpGranted(McpRead)
    BY <1>2 DEF McpGranted, McpEffective, McpRead, McpNormal
  <2> QED
    BY <1>2, <2>1, <2>2
<1>3. ASSUME mcpAgent'[a].at = "down"
      PROVE  McpReach(a)' \subseteq McpGranted(McpRead)'
  BY <1>3 DEF McpReach
<1>4. mcpAgent' = mcpAgent => McpReach(a)' = McpReach(a)
  BY DEF McpReach
<1>5. ASSUME NEW u \in McpManagers, NEW do, mcpDo[u].at # "written",
             mcpDo' = [mcpDo EXCEPT ![u] = do]
      PROVE  Quiet
  <2> SUFFICES ASSUME NEW v \in McpManagers PROVE mcpDo[v].at # "written"
    OBVIOUS
  <2>1. CASE v = u
    BY <1>5, <2>1
  <2>2. CASE v # u
    BY <1>1, <1>5, <2>2
  <2> QED
    BY <2>1, <2>2
<1>6. CASE \E u \in McpManagers : \E ask \in McpAsks : McpChange(u, ask)
  <2>1. Quiet
    BY <1>5, <1>6 DEF McpChange, McpReads
  <2> QED
    BY <1>2, <1>4, <1>6, <2>1 DEF McpChange
<1>7. CASE \E u \in McpManagers : McpConfirm(u) \/ McpInitialize(u)
  <2>1. Quiet
    BY <1>5, <1>7 DEF McpConfirm, McpInitialize, McpStage
  <2> QED
    BY <1>2, <1>4, <1>7, <2>1 DEF McpConfirm, McpInitialize
<1>8. CASE \E u \in McpManagers : McpEnableDefault(u)
  <2>1. Quiet
    BY <1>5, <1>8 DEF McpEnableDefault, McpReads
  <2> QED
    BY <1>2, <1>4, <1>8, <2>1 DEF McpEnableDefault
<1>9. CASE \E u \in McpManagers : McpWrite(u)
  <2> PICK u \in McpManagers : McpWrite(u)
    BY <1>9
  <2>1. mcpDo[u].ask.kind = "default"
    <3> SUFFICES ASSUME mcpDo[u].ask.kind # "default" PROVE FALSE
      OBVIOUS
    <3>1. mcpDo' = [mcpDo EXCEPT ![u].at = "written"]
      BY DEF McpWrite, McpStage
    <3>2. mcpDo'[u].at = "written"
      BY <1>1, <3>1
    <3> QED
      BY <3>2
  <2>2. mcpOld' = McpRunning /\ mcpAgent' = mcpAgent
    BY <2>1 DEF McpWrite
  <2> QED
    BY <1>1, <1>3, <2>2 DEF McpRunning
<1>10. CASE \E u \in McpManagers : McpWriteFails(u)
  <2>1. Quiet
    BY <1>5, <1>10 DEF McpWriteFails
  <2> QED
    BY <1>2, <1>4, <1>10, <2>1 DEF McpWriteFails
<1>11. CASE \E u \in McpManagers : McpStopsAgents(u)
  <2>1. mcpAgent[a].at \in {"down", "up"}
    BY <1>1, <1>11 DEF McpStopsAgents, McpLocked
  <2>2. mcpAgent'[a].at = "down"
    BY <1>1, <1>11, <2>1 DEF McpStopsAgents, McpDown
  <2> QED
    BY <1>3, <2>2
<1>12. CASE \E b \in McpAgents : McpStart(b)
  <2> PICK b \in McpAgents : McpStart(b)
    BY <1>12
  <2>1. CASE b = a
    <3>1. PICK row \in McpRows : row = McpRead
      BY <1>1, McpReadRow
    <3>2. mcpAgent'[a] = McpProxy(row)
      BY <1>1, <2>1, <3>1 DEF McpStart
    <3>3. McpReach(a)' \subseteq McpGranted(row)
      BY <3>2, McpProxyGrants DEF McpReach
    <3>4. McpGranted(McpRead)' = McpGranted(row)
      BY <3>1 DEF McpStart, McpGranted, McpEffective, McpRead, McpNormal
    <3> QED
      BY <3>3, <3>4
  <2>2. CASE b # a
    <3>1. McpReach(a)' = McpReach(a) /\ Quiet
      BY <1>1, <2>2 DEF McpReach, McpStart
    <3> QED
      BY <1>2, <3>1 DEF McpStart
  <2> QED
    BY <2>1, <2>2
<1>13. CASE \E b \in McpAgents : McpStarted(b)
  <2>1. McpReach(a)' = McpReach(a) /\ Quiet
    BY <1>1, <1>13 DEF McpReach, McpStarted
  <2> QED
    BY <1>2, <1>13, <2>1 DEF McpStarted
<1>14. CASE \E b \in McpAgents : McpEnds(b)
  <2> PICK b \in McpAgents : McpEnds(b)
    BY <1>14
  <2>1. CASE b = a
    BY <1>1, <1>3, <2>1 DEF McpEnds, McpDown
  <2>2. CASE b # a
    <3>1. McpReach(a)' = McpReach(a) /\ Quiet /\ a \notin mcpOld
      BY <1>1, <2>2 DEF McpReach, McpEnds
    <3> QED
      BY <1>2, <3>1 DEF McpEnds
  <2> QED
    BY <2>1, <2>2
<1>15. CASE McpDiscover \/ UNCHANGED mcpVars
  <2>1. Quiet /\ a \notin mcpOld /\ mcpRow' = mcpRow /\ McpReach(a)' = McpReach(a)
    BY <1>15 DEF McpDiscover, mcpVars, McpReach
  <2> QED
    BY <1>2, <2>1
<1>16. CASE McpRestart
  BY <1>1, <1>3, <1>16 DEF McpRestart, McpDown
<1> QED
  BY <1>6, <1>7, <1>8, <1>9, <1>10, <1>11, <1>12, <1>13, <1>14, <1>15, <1>16 DEF McpNext

(* Once a change has been answered, no registered agent reaches a tool that *)
(* the row does not grant, for any number of managers and of agents.        *)
THEOREM McpFollows == McpSpec => []McpFollowed
<1>1. McpInit => McpFollowed
  BY DEF McpInit, McpFollowed, McpReach, McpDown, McpAgents
<1> QED
  BY <1>1, McpTypes, McpFollowedKept, PTL DEF McpSpec

-----------------------------------------------------------------------------
(* The media jobs. How far a job's goroutine is, what the store says of it  *)
(* and what the call was told: a job that is active or was canceled has a   *)
(* goroutine at work, one that succeeded, failed or was forgotten has none. *)
MedHangs(j) ==
  /\ medStatus[j] = "none" <=> medRun[j] = "none"
  /\ medStatus[j] \in {"succeeded", "failed", "forgotten"} => medRun[j] = "done"
  /\ medRun[j] = "done" => medStatus[j] \notin MedActiveStatus
  /\ j \in medOld => medStatus[j] \in MedTerminal \cup {"forgotten"} /\ medRun[j] = "done"
  /\ medCall[j] = "none" => medStatus[j] = "none"
  /\ medCall[j] \in MedTerminal => medStatus[j] \in {medCall[j], "forgotten"}
MedRoom == MedMaxActive > 0 => Cardinality(MedActive) <= MedMaxActive
MedInv == MedTypeOK /\ (\A j \in MedJobs : MedHangs(j)) /\ MedRoom

(* The types of the media jobs are kept.                                    *)
LEMMA MedTypesKept == MedTypeOK /\ [MedNext]_medVars => MedTypeOK'
<1> DEFINE Runs == {"none", "new", "asking", "polling", "fetching", "saved", "error", "done"}
           Calls == {"none", "waiting", "told", "refused"} \cup MedTerminal
<1> SUFFICES ASSUME MedTypeOK, [MedNext]_medVars PROVE MedTypeOK'
  OBVIOUS
<1>1. /\ medStatus \in [MedJobs -> MedStatuses] /\ medContext \in [MedJobs -> {"live", "expired", "canceled"}]
      /\ medRun \in [MedJobs -> Runs] /\ medPath \in [MedJobs -> MedTimes \cup {MedNowhere}]
      /\ medCall \in [MedJobs -> Calls] /\ medOld \subseteq MedJobs /\ medNow \in MedTimes
      /\ medFile \in [MedTimes -> MedJobs \cup {MedNobody}]
  BY DEF MedTypeOK
<1>2. MedForget(medStatus) \in [MedJobs -> MedStatuses]
  BY <1>1 DEF MedForget, MedStatuses
<1>3. ASSUME NEW j \in MedJobs, NEW from, NEW to \in Runs, MedMove(j, from, to)
      PROVE  medRun' \in [MedJobs -> Runs]
  BY <1>1, <1>3 DEF MedMove
<1>4. ASSUME NEW j \in MedJobs, NEW s \in MedStatuses, medStatus' = [medStatus EXCEPT ![j] = s]
      PROVE  medStatus' \in [MedJobs -> MedStatuses]
  BY <1>1, <1>4
<1>5. ASSUME NEW j \in MedJobs, NEW c \in Calls, medCall' = [medCall EXCEPT ![j] = c]
      PROVE  medCall' \in [MedJobs -> Calls]
  BY <1>1, <1>5
<1>6. CASE MedList
  BY <1>1, <1>2, <1>6 DEF MedList, MedTypeOK
<1>7. CASE MedTick
  BY <1>1, <1>7, MedAssumption DEF MedTick, MedTypeOK, MedTimes
<1>8. CASE UNCHANGED medVars
  BY <1>1, <1>8 DEF medVars, MedTypeOK
<1>9. ASSUME NEW j \in MedJobs, NEW call \in {"told", "waiting"}, MedAdmit(j, call)
      PROVE  MedTypeOK'
  <2>1. medStatus' \in [MedJobs -> MedStatuses]
    BY <1>2, <1>9 DEF MedAdmit, MedStatuses, MedActiveStatus
  <2>2. medRun' \in [MedJobs -> Runs] /\ medCall' \in [MedJobs -> Calls]
    BY <1>1, <1>9 DEF MedAdmit
  <2> QED
    BY <1>1, <1>9, <2>1, <2>2 DEF MedAdmit, MedTypeOK
<1>10. ASSUME NEW j \in MedJobs, MedWaits(j) \/ MedGet(j)
       PROVE  MedTypeOK'
  <2>1. MedAnswer(j) \in Calls
    BY DEF MedAnswer
  <2> QED
    BY <1>1, <1>5, <1>10, <2>1 DEF MedWaits, MedGet, MedTypeOK
<1>11. ASSUME NEW j \in MedJobs, MedCancel(j)
       PROVE  MedTypeOK'
  <2>1. PICK s : s = (IF medStatus[j] \in MedActiveStatus THEN "canceled" ELSE medStatus[j])
    OBVIOUS
  <2>2. s \in MedStatuses /\ s \in Calls
    BY <1>1, <1>11, <2>1 DEF MedCancel, MedStatuses, MedTerminal
  <2>3. /\ medStatus' = [medStatus EXCEPT ![j] = s] /\ medCall' = [medCall EXCEPT ![j] = s]
        /\ medContext' \in [MedJobs -> {"live", "expired", "canceled"}]
    BY <1>1, <1>11, <2>1 DEF MedCancel
  <2> QED
    BY <1>1, <1>4, <1>5, <1>11, <2>2, <2>3 DEF MedCancel, MedTypeOK
<1>12. ASSUME NEW j \in MedJobs, MedRunning(j)
       PROVE  MedTypeOK'
  <2>1. medStatus' \in [MedJobs -> MedStatuses]
    BY <1>1, <1>12 DEF MedRunning, MedStatuses, MedActiveStatus
  <2> QED
    BY <1>1, <1>3, <1>12, <2>1 DEF MedRunning, MedTypeOK
<1>13. ASSUME NEW j \in MedJobs, MedGenerates(j) \/ MedSubmits(j) \/ MedPolled(j) \/ MedFails(j)
       PROVE  MedTypeOK'
  <2>1. medRun' \in [MedJobs -> Runs] /\ MedProvider
    BY <1>3, <1>13 DEF MedGenerates, MedSubmits, MedPolled, MedFails
  <2> QED
    BY <1>1, <2>1 DEF MedProvider, MedTypeOK
<1>14. ASSUME NEW j \in MedJobs, MedSave(j)
       PROVE  MedTypeOK'
  BY <1>1, <1>3, <1>14 DEF MedSave, MedTypeOK
<1>15. ASSUME NEW j \in MedJobs, MedComplete(j)
       PROVE  MedTypeOK'
  <2>1. MedEnds(j) \in MedStatuses
    BY <1>1 DEF MedEnds, MedStatuses, MedTerminal
  <2>2. medRun' \in [MedJobs -> Runs]
    BY <1>3, <1>15 DEF MedComplete
  <2> QED
    BY <1>1, <1>4, <1>15, <2>1, <2>2 DEF MedComplete, MedTypeOK
<1>16. ASSUME NEW j \in MedJobs, MedDeadline(j) \/ MedAges(j)
       PROVE  MedTypeOK'
  BY <1>1, <1>16 DEF MedDeadline, MedAges, MedTypeOK
<1> QED
  BY <1>6, <1>7, <1>8, <1>9, <1>10, <1>11, <1>12, <1>13, <1>14, <1>15, <1>16 DEF MedNext, MedStartAsync, MedStartAdaptive

(* A step keeps a job's goroutine, its record and its call in agreement: a  *)
(* result that arrives after a cancellation leaves the record as it is, and *)
(* the clean-up concerns jobs whose goroutine has ended.                    *)
LEMMA MedHangsKept ==
  ASSUME MedTypeOK, \A k \in MedJobs : MedHangs(k), [MedNext]_medVars, NEW k \in MedJobs
  PROVE  MedHangs(k)'
<1>1. /\ medStatus \in [MedJobs -> MedStatuses] /\ medRun \in [MedJobs -> {"none", "new", "asking", "polling", "fetching", "saved", "error", "done"}]
      /\ medCall \in [MedJobs -> {"none", "waiting", "told", "refused"} \cup MedTerminal]
  BY DEF MedTypeOK
<1>2. MedHangs(k)
  OBVIOUS
<1>3. ASSUME medStatus'[k] = medStatus[k], medRun'[k] = medRun[k], medCall'[k] = medCall[k],
             k \in medOld' => k \in medOld
      PROVE  MedHangs(k)'
  BY <1>2, <1>3 DEF MedHangs
<1>4. ASSUME medStatus'[k] = MedForget(medStatus)[k], medRun'[k] = medRun[k], medCall'[k] \in {medCall[k], "refused"},
             medOld' = medOld
      PROVE  MedHangs(k)'
  <2>1. CASE k \in medOld
    BY <1>2, <1>4, <2>1 DEF MedHangs, MedForget, MedTerminal, MedActiveStatus
  <2>2. CASE k \notin medOld
    <3>1. medStatus'[k] = medStatus[k]
      BY <1>4, <2>2 DEF MedForget
    <3> QED
      BY <1>2, <1>4, <2>2, <3>1 DEF MedHangs, MedTerminal
  <2> QED
    BY <2>1, <2>2
<1>5. CASE MedList
  BY <1>4, <1>5 DEF MedList
<1>6. CASE MedTick \/ UNCHANGED medVars
  BY <1>3, <1>6 DEF MedTick, medVars
<1>7. ASSUME NEW j \in MedJobs, NEW call \in {"told", "waiting"}, MedAdmit(j, call)
      PROVE  MedHangs(k)'
  <2>1. CASE MedAdmits /\ k = j
    <3>1. medStatus'[k] = "queued" /\ medRun'[k] = "new" /\ medCall'[k] = call /\ medOld' = medOld /\ medStatus[k] = "none"
      BY <1>1, <1>2, <1>7, <2>1 DEF MedAdmit, MedForget, MedHangs
    <3>2. k \notin medOld
      BY <1>2, <3>1 DEF MedHangs, MedTerminal
    <3> QED
      BY <3>1, <3>2 DEF MedHangs, MedTerminal
  <2>2. CASE MedAdmits /\ k # j
    BY <1>1, <1>4, <1>7, <2>2 DEF MedAdmit, MedForget
  <2>3. CASE ~MedAdmits
    BY <1>1, <1>4, <1>7, <2>3 DEF MedAdmit, MedForget
  <2> QED
    BY <2>1, <2>2, <2>3
<1>8. ASSUME NEW j \in MedJobs, MedWaits(j) \/ MedGet(j)
      PROVE  MedHangs(k)'
  <2>1. CASE k = j
    <3>1. /\ medStatus'[k] = medStatus[k] /\ medRun'[k] = medRun[k] /\ medOld' = medOld
          /\ medCall'[k] = MedAnswer(k) /\ medCall[k] # "none"
      BY <1>1, <1>8, <2>1 DEF MedWaits, MedGet
    <3> QED
      BY <1>2, <3>1 DEF MedHangs, MedAnswer, MedTerminal
  <2>2. CASE k # j
    BY <1>1, <1>3, <1>8, <2>2 DEF MedWaits, MedGet
  <2> QED
    BY <2>1, <2>2
<1>9. ASSUME NEW j \in MedJobs, MedCancel(j)
      PROVE  MedHangs(k)'
  <2>1. CASE k = j
    <3>1. PICK s : s = (IF medStatus[k] \in MedActiveStatus THEN "canceled" ELSE medStatus[k])
      OBVIOUS
    <3>2. /\ medStatus'[k] = s /\ medCall'[k] = s /\ medRun'[k] = medRun[k] /\ medOld' = medOld
          /\ medStatus[k] \notin {"none", "forgotten"}
      BY <1>1, <1>9, <2>1, <3>1 DEF MedCancel
    <3> QED
      BY <1>2, <3>1, <3>2 DEF MedHangs, MedTerminal, MedActiveStatus
  <2>2. CASE k # j
    BY <1>1, <1>3, <1>9, <2>2 DEF MedCancel
  <2> QED
    BY <2>1, <2>2
<1>10. ASSUME NEW j \in MedJobs, MedRunning(j)
       PROVE  MedHangs(k)'
  <2>1. CASE k = j
    <3>1. /\ medStatus'[k] = (IF medStatus[k] = "queued" THEN "running" ELSE medStatus[k]) /\ medCall'[k] = medCall[k]
          /\ medRun[k] = "new" /\ medRun'[k] = "asking" /\ medOld' = medOld
      BY <1>1, <1>10, <2>1 DEF MedRunning, MedMove
    <3> QED
      BY <1>2, <3>1 DEF MedHangs, MedTerminal, MedActiveStatus
  <2>2. CASE k # j
    BY <1>1, <1>3, <1>10, <2>2 DEF MedRunning, MedMove
  <2> QED
    BY <2>1, <2>2
<1>11. ASSUME NEW j \in MedJobs, NEW from \in {"asking", "polling", "fetching"}, NEW to \in {"polling", "fetching", "saved", "error"},
              MedMove(j, from, to), UNCHANGED <<medStatus, medCall, medOld>>
       PROVE  MedHangs(k)'
  <2>1. CASE k = j
    <3>1. medRun[k] = from /\ medRun'[k] = to
      BY <1>1, <1>11, <2>1 DEF MedMove
    <3> QED
      BY <1>2, <1>11, <3>1 DEF MedHangs, MedTerminal, MedActiveStatus
  <2>2. CASE k # j
    BY <1>1, <1>3, <1>11, <2>2 DEF MedMove
  <2> QED
    BY <2>1, <2>2
<1>12. ASSUME NEW j \in MedJobs, MedGenerates(j) \/ MedSubmits(j) \/ MedPolled(j) \/ MedFails(j) \/ MedSave(j)
       PROVE  MedHangs(k)'
  BY <1>11, <1>12 DEF MedGenerates, MedSubmits, MedPolled, MedFails, MedSave, MedProvider
<1>13. ASSUME NEW j \in MedJobs, MedComplete(j)
       PROVE  MedHangs(k)'
  <2>1. CASE k = j
    <3>1. /\ medStatus'[k] = MedEnds(k) /\ medCall'[k] = medCall[k] /\ medOld' = medOld
          /\ medRun[k] \in {"saved", "error"} /\ medRun'[k] = "done"
      BY <1>1, <1>13, <2>1 DEF MedComplete, MedMove
    <3> QED
      BY <1>2, <3>1 DEF MedHangs, MedEnds, MedTerminal, MedActiveStatus
  <2>2. CASE k # j
    BY <1>1, <1>3, <1>13, <2>2 DEF MedComplete, MedMove
  <2> QED
    BY <2>1, <2>2
<1>14. ASSUME NEW j \in MedJobs, MedDeadline(j)
       PROVE  MedHangs(k)'
  BY <1>3, <1>14 DEF MedDeadline
<1>15. ASSUME NEW j \in MedJobs, MedAges(j)
       PROVE  MedHangs(k)'
  BY <1>2, <1>15 DEF MedAges, MedHangs
<1> QED
  BY <1>5, <1>6, <1>7, <1>8, <1>9, <1>10, <1>12, <1>13, <1>14, <1>15 DEF MedNext, MedStartAsync, MedStartAdaptive

(* No step makes more jobs active than may be: only an admission makes one  *)
(* active, and it counts them first.                                        *)
LEMMA MedRoomKept ==
  ASSUME MedTypeOK, \A k \in MedJobs : MedHangs(k), MedRoom, [MedNext]_medVars
  PROVE  MedRoom'
<1>1. /\ medStatus \in [MedJobs -> MedStatuses] /\ IsFiniteSet(MedActive)
  <2>1. MedActive \subseteq MedJobs
    BY DEF MedActive
  <2> QED
    BY <2>1, MedAssumption, FS_Subset DEF MedTypeOK
<1>2. ASSUME MedActive' \subseteq MedActive
      PROVE  MedRoom'
  <2>1. PICK now : now = MedActive'
    OBVIOUS
  <2>2. IsFiniteSet(now) /\ Cardinality(now) <= Cardinality(MedActive)
    BY <1>1, <1>2, <2>1, FS_Subset
  <2>3. Cardinality(now) \in Nat /\ Cardinality(MedActive) \in Nat
    BY <1>1, <2>2, FS_CardinalityType
  <2> QED
    BY <2>1, <2>2, <2>3, MedAssumption DEF MedRoom
<1>3. ASSUME NEW j \in MedJobs, MedActive' \subseteq MedActive \cup {j}, MedAdmits
      PROVE  MedRoom'
  <2>1. PICK now : now = MedActive'
    OBVIOUS
  <2>2. PICK more : more = MedActive \cup {j}
    OBVIOUS
  <2>3. IsFiniteSet(more) /\ Cardinality(more) <= Cardinality(MedActive) + 1
    <3>1. Cardinality(MedActive) \in Nat
      BY <1>1, FS_CardinalityType
    <3> QED
      BY <1>1, <2>2, <3>1, FS_AddElement
  <2>4. IsFiniteSet(now) /\ Cardinality(now) <= Cardinality(more)
    BY <1>3, <2>1, <2>2, <2>3, FS_Subset
  <2>5. Cardinality(now) \in Nat /\ Cardinality(MedActive) \in Nat /\ Cardinality(more) \in Nat
    BY <1>1, <2>3, <2>4, FS_CardinalityType
  <2> QED
    BY <1>3, <2>1, <2>3, <2>4, <2>5, MedAssumption DEF MedRoom, MedAdmits
<1>4. ASSUME NEW j \in MedJobs, NEW s, medStatus' = [medStatus EXCEPT ![j] = s],
             s \in MedActiveStatus => medStatus[j] \in MedActiveStatus
      PROVE  MedActive' \subseteq MedActive
  BY <1>1, <1>4 DEF MedActive
<1>5. CASE MedList
  BY <1>1, <1>2, <1>5 DEF MedList, MedForget, MedActive, MedActiveStatus
<1>6. CASE medStatus' = medStatus
  BY <1>2, <1>6 DEF MedActive
<1>7. ASSUME NEW j \in MedJobs, NEW call \in {"told", "waiting"}, MedAdmit(j, call)
      PROVE  MedRoom'
  <2>1. CASE MedAdmits
    <3>1. medStatus' = [MedForget(medStatus) EXCEPT ![j] = "queued"]
      BY <1>7, <2>1 DEF MedAdmit
    <3>2. MedActive' \subseteq MedActive \cup {j}
      BY <3>1 DEF MedForget, MedActive, MedActiveStatus
    <3> QED
      BY <1>3, <2>1, <3>2
  <2>2. CASE ~MedAdmits
    BY <1>1, <1>2, <1>7, <2>2 DEF MedAdmit, MedForget, MedActive, MedActiveStatus
  <2> QED
    BY <2>1, <2>2
<1>8. ASSUME NEW j \in MedJobs, MedCancel(j)
      PROVE  MedRoom'
  BY <1>2, <1>4, <1>8 DEF MedCancel, MedActiveStatus
<1>9. ASSUME NEW j \in MedJobs, MedRunning(j)
      PROVE  MedRoom'
  <2>1. PICK s : s = IF medStatus[j] = "queued" THEN "running" ELSE medStatus[j]
    OBVIOUS
  <2>2. medStatus' = [medStatus EXCEPT ![j] = s] /\ (s \in MedActiveStatus => medStatus[j] \in MedActiveStatus)
    BY <1>1, <1>9, <2>1 DEF MedRunning, MedActiveStatus
  <2> QED
    BY <1>2, <1>4, <2>2
<1>10. ASSUME NEW j \in MedJobs, MedComplete(j)
       PROVE  MedRoom'
  <2>1. MedEnds(j) \notin MedActiveStatus
    BY DEF MedEnds, MedActiveStatus
  <2> QED
    BY <1>2, <1>4, <1>10, <2>1 DEF MedComplete
<1> QED
  BY <1>5, <1>6, <1>7, <1>8, <1>9, <1>10
     DEF MedNext, MedStartAsync, MedStartAdaptive, MedWaits, MedGet, MedGenerates, MedSubmits, MedPolled, MedFails, MedSave,
         MedDeadline, MedAges, MedProvider, MedTick, medVars

(* The invariant of the media jobs holds in every state.                    *)
THEOREM MedInvariant == MedSpec => []MedInv
<1>1. MedInit => MedInv
  <2> SUFFICES ASSUME MedInit PROVE MedInv
    OBVIOUS
  <2>1. MedTypeOK
    BY MedAssumption DEF MedInit, MedTypeOK, MedTimes, MedStatuses
  <2>2. \A j \in MedJobs : MedHangs(j)
    BY DEF MedInit, MedHangs, MedActiveStatus, MedTerminal
  <2>3. MedActive = {}
    BY DEF MedInit, MedActive, MedActiveStatus
  <2> QED
    BY <2>1, <2>2, <2>3, MedAssumption, FS_EmptySet DEF MedInv, MedRoom
<1>2. MedInv /\ [MedNext]_medVars => MedInv'
  BY MedTypesKept, MedHangsKept, MedRoomKept DEF MedInv
<1> QED
  BY <1>1, <1>2, PTL DEF MedSpec

(* What an agent was told of a job's end stays so, no more jobs are active  *)
(* than allowed, and no job with a goroutine at work was forgotten, for any *)
(* number of jobs.                                                          *)
THEOREM MedTold == MedSpec => []MedAnswers
<1>1. MedInv => MedAnswers
  BY DEF MedInv, MedHangs, MedRoom, MedAnswers
<1> QED
  BY <1>1, MedInvariant, PTL

(* A result that was saved is in the file that the store names.             *)
MedSaved == \A j \in MedJobs :
  medRun[j] = "saved" \/ medStatus[j] = "succeeded" => medPath[j] \in MedTimes /\ medFile[medPath[j]] = j

(* If no two results are saved within one millisecond, no step takes the    *)
(* file of a job away.                                                      *)
LEMMA MedSavedKept ==
  ASSUME ~MedSameTick, MedInv, MedSaved, [MedNext]_medVars
  PROVE  MedSaved'
<1>1. /\ medRun \in [MedJobs -> {"none", "new", "asking", "polling", "fetching", "saved", "error", "done"}]
      /\ medStatus \in [MedJobs -> MedStatuses] /\ medPath \in [MedJobs -> MedTimes \cup {MedNowhere}]
      /\ medFile \in [MedTimes -> MedJobs \cup {MedNobody}] /\ medNow \in MedTimes
  BY DEF MedInv, MedTypeOK
<1> SUFFICES ASSUME NEW k \in MedJobs, medRun'[k] = "saved" \/ medStatus'[k] = "succeeded"
             PROVE  medPath'[k] \in MedTimes /\ medFile'[medPath'[k]] = k
  BY DEF MedSaved
<1>2. ASSUME medRun[k] = "saved" \/ medStatus[k] = "succeeded", medPath' = medPath, medFile' = medFile
      PROVE  medPath'[k] \in MedTimes /\ medFile'[medPath'[k]] = k
  BY <1>2 DEF MedSaved
<1>3. CASE MedList \/ MedTick \/ UNCHANGED medVars
  BY <1>1, <1>2, <1>3 DEF MedList, MedTick, MedForget, medVars
<1>4. ASSUME NEW j \in MedJobs, NEW call, MedAdmit(j, call)
      PROVE  medPath'[k] \in MedTimes /\ medFile'[medPath'[k]] = k
  BY <1>1, <1>2, <1>4 DEF MedAdmit, MedForget
<1>5. ASSUME NEW j \in MedJobs, MedWaits(j) \/ MedGet(j) \/ MedCancel(j) \/ MedDeadline(j) \/ MedAges(j)
      PROVE  medPath'[k] \in MedTimes /\ medFile'[medPath'[k]] = k
  BY <1>1, <1>2, <1>5 DEF MedWaits, MedGet, MedCancel, MedDeadline, MedAges
<1>6. ASSUME NEW j \in MedJobs, MedRunning(j) \/ MedGenerates(j) \/ MedSubmits(j) \/ MedPolled(j) \/ MedFails(j)
      PROVE  medPath'[k] \in MedTimes /\ medFile'[medPath'[k]] = k
  BY <1>1, <1>2, <1>6 DEF MedRunning, MedGenerates, MedSubmits, MedPolled, MedFails, MedMove, MedProvider
<1>7. ASSUME NEW j \in MedJobs, MedSave(j)
      PROVE  medPath'[k] \in MedTimes /\ medFile'[medPath'[k]] = k
  <2>1. /\ medFile[medNow] = MedNobody /\ medFile' = [medFile EXCEPT ![medNow] = j]
        /\ medPath' = [medPath EXCEPT ![j] = medNow] /\ medStatus' = medStatus
        /\ medRun' = [medRun EXCEPT ![j] = "saved"]
    BY <1>7 DEF MedSave, MedMove
  <2>2. CASE k = j
    BY <1>1, <2>1, <2>2
  <2>3. CASE k # j
    <3>1. medPath[k] \in MedTimes /\ medFile[medPath[k]] = k
      BY <1>1, <2>1, <2>3 DEF MedSaved
    <3>2. medPath[k] # medNow
      BY <2>1, <3>1, MedAssumption
    <3> QED
      BY <1>1, <2>1, <2>3, <3>1, <3>2
  <2> QED
    BY <2>2, <2>3
<1>8. ASSUME NEW j \in MedJobs, MedComplete(j)
      PROVE  medPath'[k] \in MedTimes /\ medFile'[medPath'[k]] = k
  <2>1. /\ medStatus' = [medStatus EXCEPT ![j] = MedEnds(j)] /\ medRun' = [medRun EXCEPT ![j] = "done"]
        /\ medRun[j] \in {"saved", "error"} /\ UNCHANGED <<medPath, medFile>>
    BY <1>8 DEF MedComplete, MedMove
  <2>2. CASE k = j
    <3>1. MedEnds(j) = "succeeded"
      BY <1>1, <2>1, <2>2
    <3>2. medRun[k] = "saved" \/ medStatus[k] = "succeeded"
      BY <2>2, <3>1 DEF MedEnds
    <3> QED
      BY <1>2, <2>1, <3>2
  <2>3. CASE k # j
    BY <1>1, <1>2, <2>1, <2>3
  <2> QED
    BY <2>2, <2>3
<1> QED
  BY <1>3, <1>4, <1>5, <1>6, <1>7, <1>8 DEF MedNext, MedStartAsync, MedStartAdaptive

(* The file of a job that succeeded holds what was made for that job, as    *)
(* long as no two results are saved within one millisecond: a name is the   *)
(* time of day, and nothing looks whether it is taken.                      *)
THEOREM MedFiles == ~MedSameTick => (MedSpec => []MedOwnFile)
<1> SUFFICES ASSUME ~MedSameTick PROVE MedSpec => []MedOwnFile
  OBVIOUS
<1>1. MedInit => MedSaved
  BY DEF MedInit, MedSaved
<1>2. MedInv /\ MedSaved /\ [MedNext]_medVars => MedSaved'
  BY MedSavedKept
<1>3. MedSaved => MedOwnFile
  BY DEF MedSaved, MedOwnFile
<1> QED
  BY <1>1, <1>2, <1>3, MedInvariant, PTL DEF MedSpec

-----------------------------------------------------------------------------
(* The intake of messages. A message is new to the bot as long as none of   *)
(* its deliveries was handled; of the deliveries that were, at most one is  *)
(* on its way to the queue, and none when there is a job already.           *)
InOnTheWay(h) == inAt[h] \in {"taken", "asking", "built", "blind"}
InOnce(m) ==
  /\ inJobs[m] <= 1
  /\ \A h, g \in InRuns : h[1] = m /\ g[1] = m /\ InOnTheWay(h) /\ InOnTheWay(g) => h = g
  /\ \A h \in InRuns : h[1] = m /\ InOnTheWay(h) => inJobs[m] = 0
  /\ m \in inFresh \ inSeen \/ m > inPosted => inJobs[m] = 0 /\ \A h \in InRuns : h[1] = m => inAt[h] = "idle"
  /\ m > inPosted => m \notin inFresh \cup inSeen

(* A handler moves: the others stay where they are.                         *)
LEMMA InStepMoves ==
  ASSUME inAt \in [InRuns -> InStages], NEW h \in InRuns, NEW from, NEW to \in InStages, InStep(h, from, to)
  PROVE  /\ inAt[h] = from /\ inAt'[h] = to /\ inAt' \in [InRuns -> InStages]
         /\ \A g \in InRuns : g # h => inAt'[g] = inAt[g]
BY DEF InStep

(* The types of the intake are kept.                                        *)
LEMMA InTypesKept ==
  ASSUME InTypeOK, \A m \in InIds : InOnce(m), [InNext]_inVars
  PROVE  InTypeOK'
<1>1. /\ inPosted \in 0 .. InMessages /\ inSession \in 0 .. InSessions /\ inAlive \in BOOLEAN
      /\ inSeen \subseteq InIds /\ inFresh \subseteq InIds
      /\ inAt \in [InRuns -> InStages] /\ inKey \in [InRuns -> 0 .. InSessions]
      /\ inBlock \in [InRuns -> SUBSET InIds]
      /\ inCacheKey \in 0 .. InSessions /\ inCache \subseteq InIds
      /\ inGiven \in [1 .. InSessions -> SUBSET InIds] /\ inJobs \in [InIds -> 0 .. InCopies]
      /\ inWhole \in BOOLEAN /\ inLost \in [1 .. InSessions -> SUBSET InIds]
      /\ inGaps \in 0 .. InMaxGaps /\ InMaxGaps \in Nat
  BY InAssumption DEF InTypeOK
<1>2. \A h \in InRuns : h[1] \in InIds /\ h[2] \in 1 .. InCopies
  BY DEF InRuns
<1>3. {"idle", "taken", "asking", "built", "blind", "queued", "done"} \subseteq InStages
  BY DEF InStages
<1>4. CASE InPost
  <2>1. inPosted' \in 0 .. InMessages /\ inPosted + 1 \in InIds
    BY <1>1, <1>4, InAssumption DEF InPost, InIds
  <2> QED
    BY <1>1, <1>4, <2>1 DEF InPost, InTypeOK, inHandlers
<1>5. CASE InReset
  <2>1. inSession' \in 0 .. InSessions /\ inAlive' \in BOOLEAN
    <3>1. CASE inSession < InSessions /\ inSession' = inSession + 1 /\ UNCHANGED inAlive
      BY <1>1, <3>1, InAssumption
    <3>2. CASE inAlive' = FALSE /\ UNCHANGED inSession
      BY <1>1, <3>2
    <3> QED
      BY <1>5, <3>1, <3>2 DEF InReset
  <2> QED
    BY <1>1, <1>5, <2>1 DEF InReset, InTypeOK, inHandlers
<1>6. CASE InRestart
  <2>1. inAt' \in [InRuns -> InStages] /\ inKey' \in [InRuns -> 0 .. InSessions] /\ inBlock' \in [InRuns -> SUBSET InIds]
    BY <1>3, <1>6, InAssumption DEF InRestart
  <2> QED
    BY <1>1, <1>6, <2>1, InAssumption DEF InRestart, InTypeOK
<1>7. CASE UNCHANGED inVars
  BY <1>1, <1>7 DEF inVars, inHandlers, InTypeOK
<1>8. ASSUME NEW m \in InIds, InForget(m)
      PROVE  InTypeOK'
  BY <1>1, <1>8 DEF InForget, InTypeOK, inHandlers
<1>9. ASSUME NEW h \in InRuns, InDrop(h) \/ InCommand(h) \/ InTake(h)
      PROVE  InTypeOK'
  <2>1. inAt' \in [InRuns -> InStages]
    BY <1>1, <1>3, <1>9, InStepMoves DEF InDrop, InCommand, InTake, InArrived
  <2>2. inSeen' \subseteq InIds
    BY <1>1, <1>2, <1>9 DEF InDrop, InCommand, InTake
  <2> QED
    BY <1>1, <1>9, <2>1, <2>2 DEF InDrop, InCommand, InTake, InTypeOK
<1>10. ASSUME NEW h \in InRuns, InAsk(h)
       PROVE  InTypeOK'
  <2>1. inAt' \in [InRuns -> InStages]
    BY <1>1, <1>3, <1>10, InStepMoves DEF InAsk
  <2>2. InContextKey \in 0 .. InSessions
    BY <1>1, InAssumption DEF InContextKey
  <2>3. inKey' \in [InRuns -> 0 .. InSessions]
    BY <1>1, <1>10, <2>2 DEF InAsk
  <2> QED
    BY <1>1, <1>10, <2>1, <2>3 DEF InAsk, InTypeOK
<1>11. ASSUME NEW h \in InRuns, InClassify(h)
       PROVE  InTypeOK'
  <2>1. inAt' \in [InRuns -> InStages]
    <3>1. PICK to \in InStages : InStep(h, "asking", to)
      BY <1>3, <1>11 DEF InClassify
    <3> QED
      BY <1>1, <3>1, InStepMoves
  <2>2. InStateFor(inKey[h]) \subseteq InIds
    BY <1>1 DEF InStateFor
  <2>3. InBefore(h[1]) \subseteq InIds
    BY <1>2, InAssumption DEF InBefore, InIds
  <2>4. inBlock' \in [InRuns -> SUBSET InIds]
    BY <1>1, <1>11, <2>3 DEF InClassify
  <2>5. inGaps' \in 0 .. InMaxGaps
    BY <1>1, <1>11 DEF InClassify, InGap
  <2> QED
    BY <1>1, <1>11, <2>1, <2>2, <2>4, <2>5 DEF InClassify, InTypeOK
<1>12. ASSUME NEW h \in InRuns, InEnqueue(h)
       PROVE  InTypeOK'
  <2>1. inAt' \in [InRuns -> InStages] /\ InBuilt(h)
    BY <1>1, <1>3, <1>12 DEF InEnqueue
  <2>2. PICK s : s = (IF inAlive THEN inSession ELSE inSession + 1)
    OBVIOUS
  <2>3. /\ s \in 1 .. InSessions /\ inSession' = s /\ inAlive' = TRUE
        /\ InGives(h, s) /\ inJobs' = [inJobs EXCEPT ![h[1]] = @ + 1]
    BY <1>12, <2>2 DEF InEnqueue
  <2>4. InPrompt(h) \subseteq InIds
    BY <1>1, <1>2 DEF InPrompt
  <2>5. /\ inGiven' \in [1 .. InSessions -> SUBSET InIds]
        /\ inLost' \in [1 .. InSessions -> SUBSET InIds]
    <3>1. [inGiven EXCEPT ![s] = @ \cup InPrompt(h)] \in [1 .. InSessions -> SUBSET InIds]
      BY <1>1, <2>3, <2>4
    <3>2. [inLost EXCEPT ![s] = @ \cup InPrompt(h)] \in [1 .. InSessions -> SUBSET InIds]
      BY <1>1, <2>3, <2>4
    <3> QED
      BY <1>1, <2>3, <3>1, <3>2 DEF InGives
  <2>6. inJobs[h[1]] = 0
    BY <1>2, <2>1 DEF InOnce, InOnTheWay, InBuilt
  <2>7. 1 \in 0 .. InCopies
    BY <1>2, InAssumption
  <2>8. inJobs' \in [InIds -> 0 .. InCopies]
    BY <1>1, <1>2, <2>3, <2>6, <2>7
  <2>9. inWhole' \in BOOLEAN
    BY <1>1, <1>12 DEF InEnqueue
  <2>10. /\ inSession' \in 0 .. InSessions /\ inAlive' \in BOOLEAN
         /\ inGaps' \in 0 .. InMaxGaps
    BY <1>1, <2>3, InAssumption DEF InGives, InGap
  <2> QED
    BY <1>1, <1>12, <2>1, <2>5, <2>8, <2>9, <2>10 DEF InEnqueue, InTypeOK
<1>13. ASSUME NEW h \in InRuns, InRefused(h) \/ InMarkDelivered(h)
       PROVE  InTypeOK'
  <2>1. inAt' \in [InRuns -> InStages]
    BY <1>1, <1>3, <1>13, InStepMoves DEF InRefused, InMarkDelivered
  <2>2. inKey' \in [InRuns -> 0 .. InSessions] /\ inBlock' \in [InRuns -> SUBSET InIds]
    <3>1. 0 \in 0 .. InSessions /\ InReturns(h)
      BY <1>13, InAssumption DEF InRefused, InMarkDelivered
    <3> QED
      BY <1>1, <3>1 DEF InReturns
  <2>3. InStateFor(inKey[h]) \cup InPrompt(h) \subseteq InIds
    BY <1>1, <1>2 DEF InStateFor, InPrompt
  <2>4. inCacheKey' \in 0 .. InSessions /\ inCache' \subseteq InIds
    BY <1>1, <1>13, <2>3 DEF InRefused, InMarkDelivered
  <2> QED
    BY <1>1, <1>13, <2>1, <2>2, <2>4 DEF InRefused, InMarkDelivered, InTypeOK
<1> QED
  BY <1>4, <1>5, <1>6, <1>7, <1>8, <1>9, <1>10, <1>11, <1>12, <1>13 DEF InNext

(* No step makes a second job of a message: a delivery is taken only of a   *)
(* message that nobody has seen, and seeing it is one step.                 *)
LEMMA InOnceKept ==
  ASSUME InTypeOK, \A n \in InIds : InOnce(n), [InNext]_inVars, NEW m \in InIds
  PROVE  InOnce(m)'
<1>1. /\ inPosted \in 0 .. InMessages /\ inSeen \subseteq InIds /\ inFresh \subseteq InIds
      /\ inAt \in [InRuns -> InStages] /\ inJobs \in [InIds -> 0 .. InCopies]
  BY DEF InTypeOK
<1>2. \A h \in InRuns : h[1] \in InIds
  BY DEF InRuns
<1>3. InOnce(m)
  OBVIOUS
<1>4. {"idle", "taken", "asking", "built", "blind", "queued", "done"} \subseteq InStages
  BY DEF InStages
<1>5. m \in Nat /\ inPosted \in Nat /\ inJobs[m] \in Nat
  BY <1>1, InAssumption DEF InIds
<1>6. ASSUME NEW h \in InRuns, NEW from, NEW to \in InStages, InStep(h, from, to),
             from \in {"taken", "asking", "built", "blind", "queued"},
             to \in {"taken", "asking", "built", "blind"} => from \in {"taken", "asking", "built", "blind"},
             UNCHANGED <<inPosted, inSeen, inFresh, inJobs>>
      PROVE  InOnce(m)'
  <2>1. /\ inAt[h] = from /\ inAt'[h] = to /\ inAt' \in [InRuns -> InStages]
        /\ \A g \in InRuns : g # h => inAt'[g] = inAt[g]
    BY <1>1, <1>6, InStepMoves
  <2>2. \A g \in InRuns : InOnTheWay(g)' => InOnTheWay(g)
    BY <1>6, <2>1 DEF InOnTheWay
  <2>3. \A g \in InRuns : inAt[g] = "idle" => inAt'[g] = "idle"
    BY <1>6, <2>1
  <2> QED
    BY <1>3, <1>6, <2>2, <2>3 DEF InOnce
<1>7. ASSUME NEW h \in InRuns, InArrived(h, "done"), inSeen' \in {inSeen, inSeen \cup {h[1]}}, h[1] \in inSeen',
             UNCHANGED <<inPosted, inFresh, inJobs>>
      PROVE  InOnce(m)'
  <2>1. /\ inAt[h] = "idle" /\ inAt'[h] = "done" /\ h[1] \in inFresh
        /\ \A g \in InRuns : g # h => inAt'[g] = inAt[g]
    BY <1>1, <1>4, <1>7, InStepMoves DEF InArrived
  <2>2. \A g \in InRuns : InOnTheWay(g)' => InOnTheWay(g)
    BY <2>1 DEF InOnTheWay
  <2>3. h[1] = m => m \in inSeen' /\ ~(m > inPosted)
    BY <1>3, <1>7, <2>1 DEF InOnce
  <2>4. h[1] # m => \A g \in InRuns : g[1] = m => inAt'[g] = inAt[g]
    BY <2>1
  <2>5. m \in inSeen' => m \in inSeen \/ h[1] = m
    BY <1>7
  <2>6. inSeen \subseteq inSeen'
    BY <1>7
  <2> QED
    BY <1>3, <1>7, <2>2, <2>3, <2>4, <2>5, <2>6 DEF InOnce
<1>8. CASE InPost
  <2>1. \A h \in InRuns : InOnTheWay(h)' <=> InOnTheWay(h)
    BY <1>8 DEF InPost, inHandlers, InOnTheWay
  <2>2. m > inPosted' => m > inPosted /\ m # inPosted + 1
    BY <1>5, <1>8 DEF InPost
  <2>3. m = inPosted + 1 => m > inPosted
    BY <1>5
  <2> QED
    BY <1>3, <1>8, <2>1, <2>2, <2>3 DEF InPost, inHandlers, InOnce
<1>9. ASSUME NEW n \in InIds, InForget(n)
      PROVE  InOnce(m)'
  <2>1. \A h \in InRuns : InOnTheWay(h)' <=> InOnTheWay(h)
    BY <1>9 DEF InForget, inHandlers, InOnTheWay
  <2> QED
    BY <1>3, <1>9, <2>1 DEF InForget, inHandlers, InOnce
<1>10. CASE InReset \/ UNCHANGED inVars
  <2>1. \A h \in InRuns : InOnTheWay(h)' <=> InOnTheWay(h)
    BY <1>10 DEF InReset, inVars, inHandlers, InOnTheWay
  <2> QED
    BY <1>3, <1>10, <2>1 DEF InReset, inVars, inHandlers, InOnce
<1>11. CASE InRestart
  <2>1. \A h \in InRuns : ~InOnTheWay(h)'
    BY <1>11 DEF InRestart, InOnTheWay
  <2>2. m > inPosted => \A h \in InRuns : h[1] = m => inAt'[h] = "idle"
    BY <1>5, <1>11 DEF InRestart
  <2> QED
    BY <1>3, <1>11, <2>1, <2>2 DEF InRestart, InOnce
<1>12. ASSUME NEW h \in InRuns, InDrop(h) \/ InCommand(h)
       PROVE  InOnce(m)'
  BY <1>7, <1>12 DEF InDrop, InCommand, InMark
<1>13. ASSUME NEW h \in InRuns, InTake(h)
       PROVE  InOnce(m)'
  <2>1. /\ inAt[h] = "idle" /\ inAt'[h] = "taken" /\ h[1] \in inFresh \ inSeen /\ inSeen' = inSeen \cup {h[1]}
        /\ \A g \in InRuns : g # h => inAt'[g] = inAt[g]
        /\ UNCHANGED <<inPosted, inFresh, inJobs>>
    BY <1>1, <1>4, <1>13, InStepMoves DEF InTake, InArrived, InMark
  <2>2. CASE h[1] = m
    <3>1. inJobs[m] = 0 /\ \A g \in InRuns : g[1] = m => inAt[g] = "idle"
      BY <1>3, <2>1, <2>2 DEF InOnce
    <3>2. \A g \in InRuns : g[1] = m /\ InOnTheWay(g)' => g = h
      BY <2>1, <3>1 DEF InOnTheWay
    <3>3. ~(m > inPosted) /\ m \in inSeen'
      BY <1>3, <2>1, <2>2 DEF InOnce
    <3> QED
      BY <1>3, <2>1, <3>1, <3>2, <3>3 DEF InOnce
  <2>3. CASE h[1] # m
    <3>1. \A g \in InRuns : g[1] = m => inAt'[g] = inAt[g] /\ (InOnTheWay(g)' <=> InOnTheWay(g))
      BY <2>1, <2>3 DEF InOnTheWay
    <3>2. m \in inSeen' <=> m \in inSeen
      BY <2>1, <2>3
    <3> QED
      BY <1>3, <2>1, <3>1, <3>2 DEF InOnce
  <2> QED
    BY <2>2, <2>3
<1>14. ASSUME NEW h \in InRuns, InAsk(h) \/ InClassify(h) \/ InRefused(h) \/ InMarkDelivered(h)
       PROVE  InOnce(m)'
  <2>1. InRefused(h) => InStep(h, inAt[h], "done") /\ inAt[h] \in {"built", "blind"}
    BY DEF InRefused, InBuilt, InStep
  <2> QED
    BY <1>4, <1>6, <1>14, <2>1 DEF InAsk, InClassify, InRefused, InMarkDelivered
<1>15. ASSUME NEW h \in InRuns, InEnqueue(h)
       PROVE  InOnce(m)'
  <2>1. /\ InBuilt(h) /\ inAt'[h] = "queued" /\ \A g \in InRuns : g # h => inAt'[g] = inAt[g]
        /\ UNCHANGED <<inPosted, inSeen, inFresh>> /\ inJobs' = [inJobs EXCEPT ![h[1]] = @ + 1]
    BY <1>1, <1>15 DEF InEnqueue
  <2>2. \A g \in InRuns : InOnTheWay(g)' <=> InOnTheWay(g) /\ g # h
    BY <2>1 DEF InOnTheWay
  <2>3. CASE h[1] = m
    <3>1. InOnTheWay(h)
      BY <2>1 DEF InOnTheWay, InBuilt
    <3>2. inJobs[m] = 0 /\ (\A g \in InRuns : g[1] = m /\ InOnTheWay(g) => g = h)
      BY <1>3, <2>3, <3>1 DEF InOnce
    <3>3. ~(m \in inFresh \ inSeen \/ m > inPosted)
      BY <1>3, <2>1, <2>3 DEF InOnce, InBuilt
    <3>4. inJobs'[m] = 1
      BY <1>1, <2>1, <2>3, <3>2
    <3> QED
      BY <2>1, <2>2, <3>2, <3>3, <3>4 DEF InOnce
  <2>4. CASE h[1] # m
    <3>1. inJobs'[m] = inJobs[m]
      BY <1>1, <2>1, <2>4
    <3>2. \A g \in InRuns : g[1] = m => inAt'[g] = inAt[g]
      BY <2>1, <2>4
    <3> QED
      BY <1>3, <2>1, <2>2, <3>1, <3>2 DEF InOnce
  <2> QED
    BY <2>3, <2>4
<1> QED
  BY <1>8, <1>9, <1>10, <1>11, <1>12, <1>13, <1>14, <1>15 DEF InNext

(* What the cache and the handlers under way know of the session there is:  *)
(* the messages that a cache holds for it, or for no session, were in jobs  *)
(* that its queue took, and so were those that a prompt under way leaves    *)
(* out, unless Discord did not answer.                                      *)
InHad == IF inAlive THEN InAccepted(inSession) ELSE {}
InKnows ==
  /\ inWhole
  /\ inAlive => inSession \in 1 .. InSessions
  /\ inCacheKey <= inSession /\ \A h \in InRuns : inKey[h] <= inSession
  /\ inCacheKey = 0 => inCache \subseteq InHad
  /\ inAlive /\ inCacheKey = inSession => inCache \subseteq InAccepted(inSession)
  /\ \A h \in InRuns : inAt[h] = "built" /\ inAlive /\ inKey[h] = inSession
                         => InBefore(h[1]) \subseteq inBlock[h] \cup InAccepted(inSession)
  /\ \A h \in InRuns : inAt[h] = "queued" /\ inKey[h] = 0 => inAlive
  /\ \A h \in InRuns : inAt[h] = "queued" /\ inAlive /\ inKey[h] \in {0, inSession}
                         => InPrompt(h) \subseteq InAccepted(inSession)

(* No step but a replacement of the session makes the cache or a prompt     *)
(* under way untrue; and the session is not replaced while the cache, or a  *)
(* handler under way, has no session's name.                                *)
LEMMA InKnowsKept ==
  ASSUME ~InEarlyResets, InTypeOK, InKnows, [InNext]_inVars
  PROVE  InKnows'
<1>1. /\ inSession \in 0 .. InSessions /\ inAlive \in BOOLEAN
      /\ inAt \in [InRuns -> InStages] /\ inKey \in [InRuns -> 0 .. InSessions]
      /\ inBlock \in [InRuns -> SUBSET InIds] /\ inCacheKey \in 0 .. InSessions
      /\ inGiven \in [1 .. InSessions -> SUBSET InIds] /\ InSessions \in Nat
      /\ inLost \in [1 .. InSessions -> SUBSET InIds]
  BY InAssumption DEF InTypeOK
<1>2. {"idle", "taken", "asking", "built", "blind", "queued", "done"} \subseteq InStages
  BY DEF InStages
<1>3. \A h \in InRuns : h[1] \in Nat
  BY InAssumption DEF InRuns, InIds
(* A handler moves to where nothing is asked of it.                         *)
<1>4. ASSUME NEW h \in InRuns, NEW from, NEW to \in InStages, InStep(h, from, to), to \notin {"built", "queued"},
             inKey'[h] <= inSession, \A g \in InRuns : g # h => inKey'[g] = inKey[g] /\ inBlock'[g] = inBlock[g],
             UNCHANGED <<inSession, inAlive, inCacheKey, inCache, inGiven, inLost, inWhole>>
      PROVE  InKnows'
  <2>1. /\ inAt'[h] = to /\ \A g \in InRuns : g # h => inAt'[g] = inAt[g]
    BY <1>1, <1>4, InStepMoves
  <2>2. InHad' = InHad /\ InAccepted(inSession)' = InAccepted(inSession)
    BY <1>4 DEF InHad, InAccepted
  <2>3. \A g \in InRuns : inKey'[g] <= inSession
    BY <1>4 DEF InKnows
  <2>4. \A g \in InRuns : inAt'[g] \in {"built", "queued"} =>
          /\ inAt'[g] = inAt[g] /\ inKey'[g] = inKey[g] /\ inBlock'[g] = inBlock[g]
          /\ InPrompt(g)' = InPrompt(g)
    BY <1>4, <2>1 DEF InPrompt
  <2> QED
    BY <1>4, <2>2, <2>3, <2>4 DEF InKnows
<1>5. ASSUME UNCHANGED <<inSession, inAlive, inHandlers, inCacheKey, inCache, inGiven, inLost, inWhole>>
      PROVE  InKnows'
  BY <1>5 DEF InKnows, InHad, InAccepted, InPrompt, inHandlers
<1>6. ASSUME NEW h \in InRuns, InDrop(h) \/ InCommand(h) \/ InTake(h)
      PROVE  InKnows'
  <2>1. inKey'[h] <= inSession
    BY <1>6 DEF InKnows, InDrop, InCommand, InTake
  <2> QED
    BY <1>2, <1>4, <1>6, <2>1 DEF InDrop, InCommand, InTake, InArrived
<1>7. ASSUME NEW h \in InRuns, InAsk(h)
      PROVE  InKnows'
  <2>1. inKey' = [inKey EXCEPT ![h] = InContextKey] /\ InContextKey <= inSession
    BY <1>1, <1>7 DEF InAsk, InContextKey
  <2> QED
    BY <1>1, <1>2, <1>4, <1>7, <2>1 DEF InAsk
<1>8. ASSUME NEW h \in InRuns, InRefused(h)
      PROVE  InKnows'
  <2>1. InReturns(h) /\ 0 <= inSession /\ InStep(h, inAt[h], "done")
    BY <1>1, <1>8 DEF InRefused, InStep
  <2> QED
    BY <1>1, <1>2, <1>4, <1>8, <2>1 DEF InRefused, InReturns
<1>9. ASSUME NEW h \in InRuns, InClassify(h)
      PROVE  InKnows'
  <2>1. /\ inAt'[h] \in {"built", "blind"}
        /\ \A g \in InRuns : g # h => inAt'[g] = inAt[g] /\ inBlock'[g] = inBlock[g]
        /\ inAt'[h] = "built" => inBlock'[h] = InBefore(h[1]) \ inCache'
        /\ inCacheKey' = inKey[h] /\ inCache' = InStateFor(inKey[h])
        /\ UNCHANGED <<inSession, inAlive, inGiven, inLost, inWhole, inKey>>
    <3>1. CASE InStep(h, "asking", "built") /\ inBlock' = [inBlock EXCEPT ![h] = InBefore(h[1]) \ inCache']
      BY <1>1, <1>2, <1>9, <3>1, InStepMoves DEF InClassify
    <3>2. CASE InStep(h, "asking", "blind") /\ UNCHANGED inBlock
      BY <1>1, <1>2, <1>9, <3>2, InStepMoves DEF InClassify
    <3> QED
      BY <1>9, <3>1, <3>2 DEF InClassify
  <2>2. InHad' = InHad /\ InAccepted(inSession)' = InAccepted(inSession)
    BY <1>9, <2>1 DEF InHad, InAccepted, InClassify
  <2>3. inKey[h] <= inSession
    BY DEF InKnows
  <2>4. inKey[h] = 0 => inCache' \subseteq InHad
    BY <2>1 DEF InKnows, InStateFor
  <2>5. inAlive /\ inKey[h] = inSession => inCache' \subseteq InAccepted(inSession)
    BY <2>1 DEF InKnows, InStateFor, InHad
  <2>6. inAt'[h] = "built" /\ inAlive /\ inKey[h] = inSession => InBefore(h[1]) \subseteq inBlock'[h] \cup InAccepted(inSession)
    BY <2>1, <2>5
  <2>7. \A g \in InRuns : g # h => InPrompt(g)' = InPrompt(g)
    BY <2>1 DEF InPrompt
  <2>8. \A g \in InRuns : inAt'[g] = "queued" => inAt[g] = "queued" /\ InPrompt(g)' = InPrompt(g)
    BY <2>1, <2>7
  <2>9. \A g \in InRuns : inAt'[g] = "built" /\ inAlive /\ inKey[g] = inSession
                            => InBefore(g[1]) \subseteq inBlock'[g] \cup InAccepted(inSession)
    BY <2>1, <2>6 DEF InKnows
  <2> QED
    BY <2>1, <2>2, <2>3, <2>4, <2>5, <2>8, <2>9 DEF InKnows
<1>10. ASSUME NEW h \in InRuns, InEnqueue(h)
       PROVE  InKnows'
  <2>1. PICK s : s = (IF inAlive THEN inSession ELSE inSession + 1)
    OBVIOUS
  <2>2. /\ inAt'[h] = "queued" /\ \A g \in InRuns : g # h => inAt'[g] = inAt[g]
        /\ s \in 1 .. InSessions /\ inSession' = s /\ inAlive' = TRUE
        /\ InGives(h, s)
        /\ inWhole' = (inWhole /\ (inKey[h] = s /\ inAt[h] = "built" => 1 .. h[1] \subseteq InAccepted(s)'))
        /\ UNCHANGED <<inKey, inBlock, inCacheKey, inCache>>
    BY <1>1, <1>10, <2>1 DEF InEnqueue
  <2>3. InAccepted(s)' = InAccepted(s) \cup InPrompt(h)
    <3>1. CASE inGiven' = [inGiven EXCEPT ![s] = @ \cup InPrompt(h)] /\ UNCHANGED inLost
      BY <1>1, <2>2, <3>1 DEF InAccepted
    <3>2. CASE inLost' = [inLost EXCEPT ![s] = @ \cup InPrompt(h)] /\ UNCHANGED inGiven
      BY <1>1, <2>2, <3>2 DEF InAccepted
    <3> QED
      BY <2>2, <3>1, <3>2 DEF InGives
  <2>4. \A n \in 0 .. InSessions : n <= inSession => (n = s => inAlive /\ n = inSession)
    BY <1>1, <2>1
  <2>5. /\ inCacheKey = s => inAlive /\ inCacheKey = inSession
        /\ \A g \in InRuns : inKey[g] = s => inAlive /\ inKey[g] = inSession
    BY <1>1, <2>4 DEF InKnows
  <2>6. inAlive => s = inSession
    BY <2>1
  <2>7. inWhole'
    <3> SUFFICES ASSUME inKey[h] = s, inAt[h] = "built" PROVE 1 .. h[1] \subseteq InAccepted(s)'
      BY <2>2 DEF InKnows
    <3>1. InBefore(h[1]) \subseteq inBlock[h] \cup InAccepted(s)
      BY <2>2, <2>5, <2>6 DEF InKnows
    <3>2. 1 .. h[1] \subseteq InBefore(h[1]) \cup {h[1]}
      BY <1>3 DEF InBefore
    <3> QED
      BY <2>3, <3>1, <3>2 DEF InPrompt
  <2>8. inCacheKey <= s /\ \A g \in InRuns : inKey[g] <= s
    <3>1. inSession <= s
      BY <1>1, <2>1
    <3>2. \A n \in 0 .. InSessions : n <= inSession => n <= s
      BY <1>1, <2>2, <3>1
    <3> QED
      BY <1>1, <3>2 DEF InKnows
  <2>9. inCacheKey = 0 => inCache \subseteq InAccepted(s)'
    BY <2>3, <2>6 DEF InKnows, InHad
  <2>10. InHad' = InAccepted(s)' /\ InAccepted(inSession)' = InAccepted(s)'
    BY <2>2 DEF InHad, InAccepted
  <2>11. inCacheKey = s => inCache \subseteq InAccepted(s)'
    BY <2>3, <2>5, <2>6 DEF InKnows
  <2>12. \A g \in InRuns : InPrompt(g)' = InPrompt(g)
    BY <2>2 DEF InPrompt
  <2>13. \A g \in InRuns : inAt'[g] = "built" /\ inKey[g] = s => InBefore(g[1]) \subseteq inBlock[g] \cup InAccepted(s)'
    BY <2>2, <2>3, <2>5, <2>6 DEF InKnows
  <2>14. \A g \in InRuns : inAt'[g] = "queued" /\ inKey[g] \in {0, s} => InPrompt(g) \subseteq InAccepted(s)'
    <3> SUFFICES ASSUME NEW g \in InRuns, inAt'[g] = "queued", inKey[g] \in {0, s} PROVE InPrompt(g) \subseteq InAccepted(s)'
      OBVIOUS
    <3>1. CASE g = h
      BY <2>3, <3>1
    <3>2. CASE g # h
      <4>1. inAt[g] = "queued"
        BY <2>2, <3>2
      <4>2. inAlive /\ inKey[g] \in {0, inSession}
        BY <2>5, <4>1 DEF InKnows
      <4>3. InPrompt(g) \subseteq InAccepted(s)
        BY <2>6, <4>1, <4>2 DEF InKnows
      <4> QED
        BY <2>3, <4>3
    <3> QED
      BY <3>1, <3>2
  <2> QED
    BY <2>2, <2>7, <2>8, <2>9, <2>10, <2>11, <2>12, <2>13, <2>14 DEF InKnows
<1>11. ASSUME NEW h \in InRuns, InMarkDelivered(h)
       PROVE  InKnows'
  <2>1. /\ inAt[h] = "queued" /\ inAt'[h] = "done" /\ \A g \in InRuns : g # h => inAt'[g] = inAt[g]
        /\ inCacheKey' = inKey[h] /\ inCache' = InStateFor(inKey[h]) \cup InPrompt(h)
        /\ UNCHANGED <<inSession, inAlive, inGiven, inLost, inWhole>> /\ InReturns(h)
    BY <1>1, <1>2, <1>11, InStepMoves DEF InMarkDelivered
  <2>2. /\ inKey'[h] = 0 /\ \A g \in InRuns : g # h => inKey'[g] = inKey[g] /\ inBlock'[g] = inBlock[g]
    BY <1>1, <2>1 DEF InReturns
  <2>3. InHad' = InHad /\ InAccepted(inSession)' = InAccepted(inSession)
    BY <1>11, <2>1 DEF InHad, InAccepted, InMarkDelivered
  <2>4. inKey[h] <= inSession /\ 0 <= inSession
    BY <1>1 DEF InKnows
  <2>5. inKey[h] = 0 => inCache' \subseteq InHad
    <3> SUFFICES ASSUME inKey[h] = 0 PROVE inCache' \subseteq InHad
      OBVIOUS
    <3>1. inAlive
      BY <2>1 DEF InKnows
    <3>2. InPrompt(h) \subseteq InHad
      BY <2>1, <3>1 DEF InKnows, InHad
    <3>3. InStateFor(0) \subseteq InHad
      BY DEF InStateFor, InKnows
    <3> QED
      BY <2>1, <3>2, <3>3
  <2>6. inAlive /\ inKey[h] = inSession => inCache' \subseteq InAccepted(inSession)
    <3> SUFFICES ASSUME inAlive, inKey[h] = inSession PROVE inCache' \subseteq InAccepted(inSession)
      OBVIOUS
    <3>1. InPrompt(h) \subseteq InAccepted(inSession)
      BY <2>1 DEF InKnows
    <3>2. InStateFor(inKey[h]) \subseteq InAccepted(inSession)
      BY DEF InStateFor, InKnows, InHad
    <3> QED
      BY <2>1, <3>1, <3>2
  <2>7. \A g \in InRuns : inAt'[g] \in {"built", "queued"} =>
          /\ g # h /\ inAt'[g] = inAt[g] /\ inKey'[g] = inKey[g] /\ inBlock'[g] = inBlock[g]
          /\ InPrompt(g)' = InPrompt(g)
    BY <2>1, <2>2 DEF InPrompt
  <2>8. \A g \in InRuns : inKey'[g] <= inSession
    BY <2>2, <2>4 DEF InKnows
  <2> QED
    BY <2>1, <2>3, <2>4, <2>5, <2>6, <2>7, <2>8 DEF InKnows
<1>12. CASE InReset
  <2>1. /\ inAlive /\ inCacheKey # 0 /\ UNCHANGED <<inAt, inKey, inBlock, inCacheKey, inCache, inGiven, inLost, inWhole>>
        /\ \A h \in InRuns : inAt[h] = "queued" => inKey[h] # 0
    BY <1>12 DEF InReset, InKnown, inHandlers
  <2>2. CASE inSession < InSessions /\ inSession' = inSession + 1 /\ UNCHANGED inAlive
    <3>1. inSession' \in 1 .. InSessions
      BY <1>1, <2>2
    <3>2. \A n \in 0 .. InSessions : n <= inSession => n <= inSession' /\ n # inSession'
      BY <1>1, <2>2
    <3>3. inCacheKey <= inSession' /\ inCacheKey # inSession' /\ \A h \in InRuns : inKey[h] <= inSession' /\ inKey[h] # inSession'
      BY <1>1, <3>2 DEF InKnows
    <3> QED
      BY <2>1, <2>2, <3>1, <3>3 DEF InKnows
  <2>3. CASE inAlive' = FALSE /\ UNCHANGED inSession
    BY <2>1, <2>3 DEF InKnows
  <2> QED
    BY <1>12, <2>2, <2>3 DEF InReset
<1>13. CASE InRestart
  <2>1. \A h \in InRuns : inAt'[h] \in {"idle", "done"} /\ inKey'[h] = 0
    BY <1>13 DEF InRestart
  <2>2. inCacheKey' = 0 /\ inCache' = {} /\ 0 <= inSession /\ UNCHANGED <<inSession, inAlive, inGiven, inLost, inWhole>>
    BY <1>1, <1>13 DEF InRestart
  <2> QED
    BY <2>1, <2>2 DEF InKnows
<1> QED
  <2>1. InPost \/ (\E m \in InIds : InForget(m)) \/ UNCHANGED inVars => InKnows'
    BY <1>5 DEF InPost, InForget, inVars
  <2> QED
    BY <1>6, <1>7, <1>8, <1>9, <1>10, <1>11, <1>12, <1>13, <2>1 DEF InNext

(* The types of the intake hold, and each message is one job at most.       *)
THEOREM InTypes == InSpec => [](InTypeOK /\ \A m \in InIds : InOnce(m))
<1>1. InInit => InTypeOK /\ \A m \in InIds : InOnce(m)
  <2> SUFFICES ASSUME InInit PROVE InTypeOK /\ \A m \in InIds : InOnce(m)
    OBVIOUS
  <2>1. InTypeOK
    <3>1. inPosted \in 0 .. InMessages /\ inSession \in 0 .. InSessions /\ inCacheKey \in 0 .. InSessions
      BY InAssumption DEF InInit
    <3>2. inAt \in [InRuns -> InStages] /\ inKey \in [InRuns -> 0 .. InSessions] /\ inBlock \in [InRuns -> SUBSET InIds]
      BY InAssumption DEF InInit, InStages
    <3>3. /\ inGiven \in [1 .. InSessions -> SUBSET InIds] /\ inJobs \in [InIds -> 0 .. InCopies]
          /\ inLost \in [1 .. InSessions -> SUBSET InIds] /\ inGaps \in 0 .. InMaxGaps
      BY InAssumption DEF InInit
    <3> QED
      BY <3>1, <3>2, <3>3 DEF InInit, InTypeOK
  <2>2. \A h \in InRuns : h[1] \in InIds /\ inAt[h] = "idle"
    BY DEF InInit, InRuns
  <2>3. \A m \in InIds : InOnce(m)
    BY <2>2 DEF InInit, InOnce, InOnTheWay
  <2> QED
    BY <2>1, <2>3
<1>2. InTypeOK /\ (\A m \in InIds : InOnce(m)) /\ [InNext]_inVars => (InTypeOK /\ \A m \in InIds : InOnce(m))'
  BY InTypesKept, InOnceKept
<1> QED
  BY <1>1, <1>2, PTL DEF InSpec

(* What the bot knows of its sessions is true, if the session is not        *)
(* replaced while the cache has no session's name.                          *)
THEOREM InSessionsKnown == ~InEarlyResets => (InSpec => []InKnows)
<1> SUFFICES ASSUME ~InEarlyResets PROVE InSpec => []InKnows
  OBVIOUS
<1>1. InInit => InKnows
  <2> SUFFICES ASSUME InInit PROVE InKnows
    OBVIOUS
  <2>1. \A h \in InRuns : inAt[h] = "idle" /\ inKey[h] = 0
    BY DEF InInit
  <2> QED
    BY <2>1 DEF InInit, InKnows
<1>2. InTypeOK /\ InKnows /\ [InNext]_inVars => InKnows'
  BY InKnowsKept
<1> QED
  BY <1>1, <1>2, InTypes, PTL DEF InSpec

(* A message becomes one job at most and no prompt leaves a gap, and what   *)
(* the cache says of the session there is was given to it: for any number   *)
(* of messages, deliveries and sessions.                                    *)
THEOREM InTaken == ~InEarlyResets => (InSpec => [](InDelivers /\ InCacheTrue))
<1> SUFFICES ASSUME ~InEarlyResets PROVE InSpec => [](InDelivers /\ InCacheTrue)
  OBVIOUS
<1>1. (\A m \in InIds : InOnce(m)) /\ InKnows => InDelivers /\ InCacheTrue
  BY DEF InOnce, InKnows, InDelivers, InCacheTrue
<1> QED
  BY <1>1, InTypes, InSessionsKnown, PTL

-----------------------------------------------------------------------------
(* The peer bots. What a bot noted when the thread was created: one that    *)
(* listens to everything and was not mistaken was then alone in it.         *)
BotsNoted ==
  \A b \in Bots :
    /\ botsListen[b] # "none" => b \in botsThread
    /\ botsListen[b] = "full" /\ b \notin botsOddThread => botsThread \subseteq {b}

(* A bot that took the message, told nothing else and not mistaken: alone   *)
(* with a message that names nobody, or one of those the message is for.    *)
BotsTookRightly(b) ==
  /\ botsMsg.named = {} =>
       botsSent \subseteq {b} \/ (botsMsg.at = "thread" /\ botsListen[b] = "full")
  /\ botsMsg.lead # {} /\ botsMsg.lead \subseteq botsSent => b \in botsMsg.lead
BotsInv ==
  /\ BotsTypeOK /\ botsPending \subseteq botsSent /\ botsTook \subseteq botsSent
  /\ BotsNoted /\ \A b \in botsTook \ botsOdd : BotsTookRightly(b)

(* The types of the peer bots are kept.                                     *)
LEMMA BotsTypesKept == BotsTypeOK /\ [BotsNext]_botsVars => BotsTypeOK'
<1> DEFINE Mode == [BotsTargets -> {"default", "paused", "full"}]
<1> SUFFICES ASSUME BotsTypeOK, [BotsNext]_botsVars PROVE BotsTypeOK'
  OBVIOUS
<1>1. /\ botsAccess \subseteq Bots /\ botsKnown \in [Bots -> SUBSET Bots] /\ botsCache \in [Bots -> BotsView]
      /\ botsMode \in [Bots -> Mode] /\ botsThreadMode \in [Bots -> BOOLEAN]
      /\ botsListen \in [Bots -> {"none", "mention", "full"}] /\ botsThread \subseteq Bots
      /\ botsMsg \in BotsMessages /\ botsSent \subseteq Bots /\ botsPending \subseteq Bots
      /\ botsTook \subseteq Bots /\ botsOdd \subseteq Bots
      /\ botsOddThread \subseteq Bots /\ botsEvents \in 0 .. BotsMaxEvents
  BY DEF BotsTypeOK
<1>2. BotsChange => botsEvents' \in 0 .. BotsMaxEvents
  BY <1>1, BotsAssumption DEF BotsChange
<1>3. ASSUME NEW b \in Bots
      PROVE  BotsLooked(b) \in [Bots -> BotsView]
  <2>1. \A p \in Bots : BotsCanRespond(b, p) \in {"unknown", "yes", "no"}
    BY <1>1 DEF BotsCanRespond, BotsFresh, BotsView
  <2>2. [p \in Bots |-> IF p \in botsKnown[b] THEN BotsCanRespond(b, p) ELSE botsCache[b][p]] \in BotsView
    BY <1>1, <2>1 DEF BotsView
  <2> QED
    BY <1>1, <2>2 DEF BotsLooked
<1>4. [p \in Bots |-> "unknown"] \in BotsView
  BY DEF BotsView
<1>5. ASSUME NEW odd \in SUBSET Bots, NEW b \in Bots, NEW t, NEW told
      PROVE  BotsNote(odd, b, t, told) \in SUBSET Bots
  BY DEF BotsNote
<1>6. CASE \E m \in BotsMessages : BotsPost(m)
  BY <1>1, <1>6 DEF BotsPost, BotsTypeOK, botsModes
<1>7. CASE BotsCreateThread
  BY <1>1, <1>7 DEF BotsCreateThread, BotsTypeOK, botsModes, botsMessage
<1>8. CASE UNCHANGED botsVars
  BY <1>1, <1>8 DEF botsVars, BotsTypeOK, botsModes, botsMessage
<1>9. ASSUME NEW b \in Bots, BotsHandle(b)
      PROVE  BotsTypeOK'
  <2>1. botsOdd' \subseteq Bots
    BY <1>1, <1>5, <1>9 DEF BotsHandle
  <2> QED
    <3>1. botsTook' \subseteq Bots /\ botsPending' \subseteq Bots /\ botsCache' \in [Bots -> BotsView]
      BY <1>1, <1>3, <1>9 DEF BotsHandle
    <3> QED
      BY <1>1, <1>9, <2>1, <3>1 DEF BotsHandle, BotsTypeOK, botsModes
<1>10. ASSUME NEW b \in Bots, BotsCapture(b)
       PROVE  BotsTypeOK'
  <2>1. botsOddThread' \subseteq Bots
    BY <1>1, <1>5, <1>10 DEF BotsCapture
  <2> QED
    <3>1. botsCache' \in [Bots -> BotsView] /\ botsListen' \in [Bots -> {"none", "mention", "full"}]
      BY <1>1, <1>3, <1>10 DEF BotsCapture
    <3> QED
      BY <1>1, <1>10, <2>1, <3>1 DEF BotsCapture, BotsTypeOK, botsModes, botsMessage
<1>11. ASSUME NEW b \in Bots, BotsSetThreadMode(b) \/ BotsSetAccess(b)
       PROVE  BotsTypeOK'
  BY <1>1, <1>2, <1>11 DEF BotsSetThreadMode, BotsSetAccess, BotsTypeOK, botsModes, botsMessage
<1>12. ASSUME NEW b \in Bots, BotsReady(b)
       PROVE  BotsTypeOK'
  BY <1>1, <1>2, <1>12 DEF BotsReady, BotsOthers, BotsTypeOK, botsModes, botsMessage
<1>13. ASSUME NEW b \in Bots, BotsRestart(b)
       PROVE  BotsTypeOK'
  BY <1>1, <1>2, <1>4, <1>13 DEF BotsRestart, BotsOthers, BotsTypeOK, botsModes
<1>14. ASSUME NEW b \in Bots, NEW t \in BotsTargets, NEW mode \in {"paused", "full"}, BotsSetMode(b, t, mode)
       PROVE  BotsTypeOK'
  <2>1. botsMode' \in [Bots -> Mode]
    BY <1>1, <1>14 DEF BotsSetMode, BotsStore
  <2> QED
    BY <1>1, <1>2, <1>14, <2>1 DEF BotsSetMode, BotsTypeOK, botsMessage
<1>15. ASSUME NEW b \in Bots, NEW p \in BotsOthers(b), BotsExpire(b, p)
       PROVE  BotsTypeOK'
  <2>1. botsCache' \in [Bots -> BotsView]
    BY <1>1, <1>15 DEF BotsExpire, BotsView, BotsOthers
  <2> QED
    BY <1>1, <1>15, <2>1 DEF BotsExpire, BotsTypeOK, botsModes, botsMessage
<1> QED
  BY <1>6, <1>7, <1>8, <1>9, <1>10, <1>11, <1>12, <1>13, <1>14, <1>15 DEF BotsNext

(* A bot that leaves nothing alone, was told nothing and is not mistaken    *)
(* sees no other bot that may answer: every one of those it would see.      *)
LEMMA BotsAlone ==
  ASSUME BotsTypeOK, NEW b \in Bots, NEW t \in BotsTargets, NEW told \in SUBSET Bots,
         ~BotsRequiresMention(b, t), ~BotsExcuse(b, t, told)
  PROVE  told \subseteq {b} \/ (t = "thread" /\ botsListen[b] = "full")
<1> SUFFICES ASSUME NEW p \in told, p # b, ~(t = "thread" /\ botsListen[b] = "full") PROVE FALSE
  OBVIOUS
<1>1. /\ botsMode[b] \in [BotsTargets -> {"default", "paused", "full"}] /\ botsListen[b] \in {"none", "mention", "full"}
      /\ botsCache[b] \in BotsView /\ botsKnown[b] \subseteq Bots
  BY DEF BotsTypeOK
<1>2. botsMode[b][t] # "full" /\ botsMode[b]["channel"] # "full"
  BY DEF BotsExcuse
<1>3. p \in botsKnown[b] /\ BotsCanRespond(b, p) # "no"
  BY DEF BotsExcuse, BotsOthers
<1>4. BotsCanRespond(b, p) = "yes"
  BY <1>1, <1>3 DEF BotsCanRespond, BotsFresh, BotsView
<1>5. BotsMulti(b) /\ ~BotsParentFull(b, t)
  BY <1>2, <1>3, <1>4 DEF BotsMulti, BotsParentFull
<1>6. botsMode[b][t] = "default"
  BY <1>1, <1>2 DEF BotsRequiresMention
<1> QED
  BY <1>1, <1>5, <1>6 DEF BotsRequiresMention, BotsTargets

(* A bot that takes a message without being mistaken is one of those the    *)
(* message begins with, if it begins with bots that were told of it.        *)
LEMMA BotsLed ==
  ASSUME BotsTypeOK, NEW b \in Bots, NEW told \in SUBSET Bots, NEW m \in BotsMessages,
         BotsTakes(b, m), ~BotsExcuse(b, m.at, told), m.lead # {}, m.lead \subseteq told
  PROVE  b \in m.lead
<1>1. m.lead \subseteq botsKnown[b] \cup {b}
  BY DEF BotsExcuse, BotsOthers
<1>2. m.lead \subseteq m.named
  BY DEF BotsMessages
<1> QED
  BY <1>1, <1>2 DEF BotsTakes, BotsAddressed, BotsNamesOther, BotsLeading

(* What was noted at the thread's creation stays true.                      *)
LEMMA BotsNotedKept == BotsTypeOK /\ BotsNoted /\ [BotsNext]_botsVars => BotsNoted'
<1> SUFFICES ASSUME BotsTypeOK, BotsNoted, [BotsNext]_botsVars PROVE BotsNoted'
  OBVIOUS
<1>1. botsListen \in [Bots -> {"none", "mention", "full"}] /\ botsThread \subseteq Bots
  BY DEF BotsTypeOK
<1>2. CASE UNCHANGED <<botsListen, botsThread, botsOddThread>>
  BY <1>2 DEF BotsNoted
<1>3. CASE BotsCreateThread
  <2>1. botsThread = {} /\ UNCHANGED <<botsListen, botsOddThread>>
    BY <1>3 DEF BotsCreateThread
  <2>2. \A b \in Bots : botsListen[b] = "none"
    BY <2>1 DEF BotsNoted
  <2> QED
    BY <2>1, <2>2 DEF BotsNoted
<1>4. ASSUME NEW b \in Bots, BotsCapture(b)
      PROVE  BotsNoted'
  <2>1. PICK note : note = (IF BotsRequiresMention(b, "thread") THEN "mention" ELSE "full")
    OBVIOUS
  <2>2. /\ b \in botsThread /\ botsListen[b] = "none" /\ botsThread' = botsThread
        /\ botsListen' = [botsListen EXCEPT ![b] = note]
        /\ botsOddThread' = BotsNote(botsOddThread, b, "thread", botsThread)
    BY <1>4, <2>1 DEF BotsCapture
  <2>3. botsOddThread \subseteq botsOddThread'
    BY <2>2 DEF BotsNote
  <2>4. note = "full" /\ b \notin botsOddThread' => botsThread \subseteq {b}
    <3> SUFFICES ASSUME note = "full", b \notin botsOddThread' PROVE botsThread \subseteq {b}
      OBVIOUS
    <3>1. ~BotsRequiresMention(b, "thread") /\ ~BotsExcuse(b, "thread", botsThread)
      BY <2>1, <2>2 DEF BotsNote
    <3> QED
      BY <1>1, <2>2, <3>1, BotsAlone DEF BotsTargets
  <2>5. botsListen'[b] = note /\ \A p \in Bots : p # b => botsListen'[p] = botsListen[p]
    BY <1>1, <2>2
  <2> QED
    BY <2>2, <2>3, <2>4, <2>5 DEF BotsNoted
<1> QED
  BY <1>2, <1>3, <1>4
     DEF BotsNext, BotsPost, BotsHandle, BotsSetThreadMode, BotsSetAccess, BotsReady, BotsRestart, BotsSetMode, BotsExpire,
         botsVars

(* The invariant of the peer bots is kept: a bot decides by what it sees at *)
(* that moment, and what it was then stays so when it took the message.     *)
LEMMA BotsInvKept == BotsInv /\ [BotsNext]_botsVars => BotsInv'
<1> SUFFICES ASSUME BotsInv, [BotsNext]_botsVars PROVE BotsInv'
  OBVIOUS
<1>1. BotsTypeOK' /\ BotsNoted' /\ BotsTypeOK /\ BotsNoted
  BY BotsTypesKept, BotsNotedKept DEF BotsInv
<1>2. ASSUME UNCHANGED <<botsMsg, botsSent, botsTook, botsOdd>>, botsPending' \subseteq botsPending,
             \A b \in Bots : botsListen[b] = "full" => botsListen'[b] = "full"
      PROVE  BotsInv'
  <2>1. \A b \in Bots : BotsTookRightly(b) => BotsTookRightly(b)'
    BY <1>2 DEF BotsTookRightly
  <2> QED
    BY <1>1, <1>2, <2>1 DEF BotsInv, BotsTypeOK
<1>3. CASE \E m \in BotsMessages : BotsPost(m)
  BY <1>1, <1>3 DEF BotsPost, BotsInv
<1>4. ASSUME NEW b \in Bots, BotsHandle(b)
      PROVE  BotsInv'
  <2>1. /\ b \in botsPending /\ botsPending' = botsPending \ {b}
        /\ botsTook' = (IF BotsTakes(b, botsMsg) THEN botsTook \cup {b} ELSE botsTook)
        /\ botsOdd' = BotsNote(botsOdd, b, botsMsg.at, botsSent)
        /\ UNCHANGED <<botsMsg, botsSent, botsListen>>
    BY <1>4 DEF BotsHandle
  <2>2. botsPending' \subseteq botsSent /\ botsTook' \subseteq botsSent
    BY <2>1 DEF BotsInv
  <2>3. ASSUME NEW p \in botsTook' \ botsOdd'
        PROVE  BotsTookRightly(p)
    <3>1. p \notin botsOdd
      BY <2>1, <2>3 DEF BotsNote
    <3>2. CASE p \in botsTook
      BY <3>1, <3>2 DEF BotsInv
    <3>3. CASE p \notin botsTook
      <4>1. p = b /\ BotsTakes(b, botsMsg) /\ ~BotsExcuse(b, botsMsg.at, botsSent)
        BY <2>1, <2>3, <3>3 DEF BotsNote
      <4>2. botsMsg \in BotsMessages /\ botsMsg.at \in BotsTargets /\ botsSent \in SUBSET Bots
        BY <1>1 DEF BotsTypeOK, BotsMessages
      <4>3. botsMsg.named = {} => ~BotsRequiresMention(b, botsMsg.at)
        BY <4>1 DEF BotsTakes, BotsAddressed
      <4> QED
        BY <1>1, <4>1, <4>2, <4>3, BotsAlone, BotsLed DEF BotsTookRightly
    <3> QED
      BY <3>2, <3>3
  <2>4. \A p \in Bots : BotsTookRightly(p) => BotsTookRightly(p)'
    BY <2>1 DEF BotsTookRightly
  <2>5. botsTook' \subseteq Bots
    BY <1>1 DEF BotsTypeOK
  <2> QED
    BY <1>1, <2>1, <2>2, <2>3, <2>4, <2>5 DEF BotsInv
<1>5. ASSUME NEW b \in Bots, BotsCapture(b)
      PROVE  BotsInv'
  <2>1. \A p \in Bots : botsListen[p] = "full" => botsListen'[p] = "full"
    BY <1>1, <1>5 DEF BotsCapture, BotsTypeOK
  <2> QED
    BY <1>2, <1>5, <2>1 DEF BotsCapture, botsMessage
<1>6. ASSUME NEW b \in Bots, BotsRestart(b)
      PROVE  BotsInv'
  BY <1>2, <1>6 DEF BotsRestart
<1>7. CASE UNCHANGED <<botsMessage, botsListen>>
  BY <1>2, <1>7 DEF botsMessage
<1> QED
  BY <1>3, <1>4, <1>5, <1>6, <1>7
     DEF BotsNext, BotsCreateThread, BotsSetThreadMode, BotsSetAccess, BotsReady, BotsSetMode, BotsExpire, botsVars

(* The invariant of the peer bots holds in every state.                     *)
THEOREM BotsInvariant == BotsSpec => []BotsInv
<1>1. BotsInit => BotsInv
  <2> SUFFICES ASSUME BotsInit PROVE BotsInv
    OBVIOUS
  <2>1. botsMsg \in BotsMessages
    BY DEF BotsInit, BotsMessages, BotsTargets
  <2>2. BotsTypeOK
    <3>1. botsMode \in [Bots -> [BotsTargets -> {"default", "paused", "full"}]] /\ botsCache \in [Bots -> BotsView]
      BY DEF BotsInit, BotsView
    <3> QED
      BY <2>1, <3>1, BotsAssumption DEF BotsInit, BotsTypeOK, BotsOthers
  <2> QED
    BY <2>2 DEF BotsInit, BotsInv, BotsNoted
<1> QED
  BY <1>1, BotsInvKept, PTL DEF BotsSpec

(* One message, one bot: of any number of bots that take a message naming   *)
(* nobody, all but one were told to listen or were mistaken about another   *)
(* bot; and one that begins with bots is taken by no other that knows them. *)
THEOREM BotsOne == BotsSpec => []BotsOneAnswers
<1>1. ASSUME BotsInv
      PROVE  BotsOneAnswers
  <2> DEFINE Rest == botsTook \ BotsExcused
  <2>1. BotsTypeOK /\ BotsNoted /\ botsTook \subseteq botsSent /\ Rest \subseteq Bots
    BY <1>1 DEF BotsInv, BotsTypeOK
  <2>2. ASSUME botsMsg.named = {}, NEW b \in Rest, NEW p \in Rest
        PROVE  b = p
    <3>1. \A q \in Rest : botsSent \subseteq {q} \/ (botsMsg.at = "thread" /\ botsListen[q] = "full")
      BY <1>1, <2>2 DEF BotsInv, BotsTookRightly, BotsExcused
    <3>2. botsMsg.at = "thread" => \A q \in Rest : botsListen[q] = "full" => q \in botsThread /\ botsThread \subseteq {q}
      BY <2>1 DEF BotsNoted, BotsExcused
    <3> QED
      BY <2>1, <3>1, <3>2
  <2>3. botsMsg.named = {} => Cardinality(Rest) <= 1
    <3> SUFFICES ASSUME botsMsg.named = {} PROVE Cardinality(Rest) <= 1
      OBVIOUS
    <3>1. PICK rest : rest = Rest
      OBVIOUS
    <3>2. CASE rest = {}
      BY <3>1, <3>2, FS_EmptySet
    <3>3. CASE rest # {}
      <4>1. PICK b \in rest : TRUE
        BY <3>3
      <4>2. rest = {b}
        BY <2>2, <3>1, <4>1
      <4> QED
        BY <3>1, <4>2, FS_Singleton
    <3> QED
      BY <3>2, <3>3
  <2>4. botsMsg.lead # {} /\ botsMsg.lead \subseteq botsSent => botsTook \subseteq botsMsg.lead \cup botsOdd
    BY <1>1 DEF BotsInv, BotsTookRightly
  <2> QED
    BY <2>3, <2>4 DEF BotsOneAnswers
<1> QED
  BY <1>1, BotsInvariant, PTL

-----------------------------------------------------------------------------
(* The web share. The types, stronger than WebTypeOK.                       *)
WebEffect == {"post", "file", "job", "command", "thread", "stop", "ref"}
WebTyped ==
  /\ WebTypeOK /\ webSeq \in 0 .. WebMaxSent
  /\ webActed \in [WebIds -> Seq(WebEffect)] /\ webLate \in {0, 1}

(* An action that was done has used its id up; only a share that is gone    *)
(* forgets the ids, and it does nothing any more.                           *)
WebUsed(id) == id \in webClaimed \/ webStatus = "gone"
WebProper(id, done) ==
  /\ \A i, j \in DOMAIN done : done[i] = done[j] => i = j
  /\ \A i \in DOMAIN done : done[i] \in {"file", "job"} /\ id # 0 => done[1] = "post"
WebDid(id) == WebProper(id, webActed[id]) /\ (webActed[id] # <<>> => WebUsed(id))
WebSafe ==
  /\ webStatus = "gone" => webDoing = WebNone
  /\ webLate = 1 => WebEnded /\ webDoing = WebNone
  /\ \A id \in WebIds : WebDid(id)

(* The file of an upload under way holds the chunks that were counted, or   *)
(* else the next one was tried and will not be taken again.                 *)
WebFirst(n) == [i \in 1 .. n |-> i]
WebCarries ==
  /\ webUp # WebNone => /\ WebUsed(0) /\ ~webRef
                        /\ webFile = WebFirst(webUp) \/ (webUp < WebChunks /\ WebUsed(webUp + 1))
  /\ webRef => WebUsed(0) /\ webFile = WebFirst(WebChunks)

(* The ids that a share acts on.                                            *)
LEMMA WebIdsAre ==
  /\ WebActions \subseteq WebIds /\ WebNone \notin WebIds /\ 0 \in WebIds /\ WebChunks + 1 \in WebIds
  /\ \A n \in Nat : n <= WebChunks + 1 => n \in WebIds
BY WebAssumption DEF WebIds

(* A share that ended stays so, whichever step is taken.                    *)
LEMMA WebEndedStays == WebEnded /\ [WebNext]_webVars => WebEnded'
<1> SUFFICES ASSUME WebEnded, [WebNext]_webVars PROVE WebEnded'
  OBVIOUS
<1>1. ~WebActive
  BY DEF WebEnded, WebActive
<1>2. CASE webStatus' = webStatus \/ webStatus' \in {"revoked", "gone"}
  BY <1>2 DEF WebEnded
<1>3. CASE WebStart \/ WebRevoke \/ WebPrune \/ WebLive \/ WebReceive \/ WebConnected
  BY <1>1, <1>2, <1>3 DEF WebStart, WebRevoke, WebPrune, WebLive, WebReceive, WebConnected, WebMarkConnected, WebEnded
<1>4. CASE WebHandle
  BY <1>2, <1>4 DEF WebHandle, WebPrompt, WebPost, WebCommand, WebStop, WebCreateThread, WebUploadChunk, WebUploadInit,
                    WebUploadFinish, WebRejected
<1>5. CASE WebDial \/ WebHostLost \/ WebRelayNotices \/ WebStopHost \/ WebLast \/ WebRestart \/ WebHookDeleted
  BY <1>2, <1>5 DEF WebDial, WebHostLost, WebRelayNotices, WebStopHost, WebLast, WebRestart, WebHookDeleted
<1>6. CASE WebJoin \/ WebUploading \/ (\E a \in WebActions : WebSubmit(a)) \/ (\E f \in webSealing : WebSeal(f))
           \/ (\E t \in WebThreads : WebLifecycle(t)) \/ UNCHANGED webVars
  BY <1>2, <1>6 DEF WebJoin, WebUploading, WebSubmit, WebNumber, WebSeal, WebLifecycle, webVars
<1> QED
  BY <1>3, <1>4, <1>5, <1>6 DEF WebNext

(* A share that ended stays so, whoever is connecting meanwhile: stopped,   *)
(* revoked, expired or forgotten, it is never active again.                 *)
THEOREM WebEndsFinally == WebSpec => WebEndedFinal
<1>1. [WebNext]_webVars => [WebEnded => WebEnded']_webVars
  BY WebEndedStays
<1> QED
  BY <1>1, PTL DEF WebSpec, WebEndedFinal

(* What an action does when it is done: its effects are those it has not    *)
(* had yet, and its id is used up.                                          *)
LEMMA WebDoneSafely ==
  ASSUME WebTyped, WebSafe, NEW id \in WebIds, NEW effects \in Seq(WebEffect), WebDone(id, effects), WebProper(id, effects),
         webStatus' = webStatus \/ webStatus' = "revoked"
  PROVE  /\ WebSafe' /\ webActed' \in [WebIds -> Seq(WebEffect)] /\ webLate' \in {0, 1}
         /\ ~WebUsed(id) /\ webClaimed' = webClaimed \cup {id} /\ webStatus # "gone"
<1>1. /\ webDoing = id /\ webDoing' = WebNone /\ id \notin webClaimed /\ webClaimed' = webClaimed \cup {id}
      /\ webActed' = [webActed EXCEPT ![id] = @ \o effects] /\ webLate' = webLate + (IF WebEnded THEN 1 ELSE 0)
  BY DEF WebDone, WebClaims
<1>2. webDoing # WebNone /\ webStatus # "gone" /\ webLate = 0 /\ ~WebUsed(id)
  BY <1>1, WebIdsAre DEF WebSafe, WebTyped, WebUsed
<1>3. webActed[id] = <<>> /\ webActed \in [WebIds -> Seq(WebEffect)]
  BY <1>2 DEF WebSafe, WebDid, WebTyped
<1>4. webActed'[id] = effects
  <2>1. PICK none \in Seq(WebEffect) : none = <<>>
    BY EmptySeq
  <2>2. none \o effects = effects
    BY <2>1, ConcatEmptySeq
  <2> QED
    BY <1>1, <1>3, <2>1, <2>2
<1>5. webActed' \in [WebIds -> Seq(WebEffect)] /\ \A k \in WebIds : k # id => webActed'[k] = webActed[k]
  <2>1. PICK acted : acted = webActed[id] \o effects
    OBVIOUS
  <2>2. webActed' = [webActed EXCEPT ![id] = acted]
    BY <1>1, <1>3, <2>1
  <2>3. acted = effects
    BY <1>3, <1>4, <2>2
  <2> QED
    BY <1>3, <2>2, <2>3
<1>6. webLate' \in {0, 1} /\ (webLate' = 1 => WebEnded)
  BY <1>1, <1>2
<1>7. WebEnded => WebEnded'
  BY DEF WebEnded
<1>8. \A k \in WebIds : WebUsed(k) => WebUsed(k)'
  BY <1>1, <1>2 DEF WebUsed
<1>9. ASSUME NEW k \in WebIds
      PROVE  WebDid(k)'
  <2>1. CASE k = id
    BY <1>1, <1>4, <2>1 DEF WebDid, WebProper, WebUsed
  <2>2. CASE k # id
    BY <1>5, <1>8, <2>2 DEF WebSafe, WebDid, WebProper
  <2> QED
    BY <2>1, <2>2
<1> QED
  BY <1>1, <1>2, <1>5, <1>6, <1>7, <1>9 DEF WebSafe

(* One effect after others.                                                 *)
LEMMA WebOneMore ==
  \A s \in Seq(WebEffect) : \A e \in WebEffect : s \o <<e>> = Append(s, e)
<1> SUFFICES ASSUME NEW s \in Seq(WebEffect), NEW e \in WebEffect PROVE s \o <<e>> = Append(s, e)
  OBVIOUS
<1>1. PICK more : more = <<e>>
  OBVIOUS
<1>2. more \in Seq(WebEffect) /\ Len(more) = 1 /\ more[1] = e
  BY <1>1
<1>3. PICK both : both = s \o more
  OBVIOUS
<1>4. both \in Seq(WebEffect) /\ Len(both) = Len(s) + 1 /\ Len(s) \in Nat
  <2>1. s \o more \in Seq(WebEffect) /\ Len(s \o more) = Len(s) + Len(more)
    BY <1>2, ConcatProperties
  <2>2. Len(s) \in Nat
    OBVIOUS
  <2> QED
    BY <1>2, <1>3, <2>1, <2>2
<1>5. \A i \in 1 .. Len(s) + 1 : both[i] = IF i <= Len(s) THEN s[i] ELSE more[i - Len(s)]
  BY <1>2, <1>3, ConcatProperties
<1>6. PICK longer : longer = Append(s, e)
  OBVIOUS
<1>7. longer \in Seq(WebEffect) /\ Len(longer) = Len(s) + 1
  BY <1>6
<1>8. \A i \in 1 .. Len(both) : both[i] = longer[i]
  BY <1>2, <1>4, <1>5, <1>6
<1>9. both = longer
  BY <1>4, <1>7, <1>8, SeqEqual
<1> QED
  BY <1>1, <1>3, <1>6, <1>9

(* The effects of a message and of a prompt: each at most once, the record  *)
(* in the channel first.                                                    *)
LEMMA WebPostsFirst ==
  ASSUME NEW id \in WebIds, NEW file \in {<<>>, <<"file">>}, NEW queued \in {<<>>, <<"job">>}
  PROVE  /\ <<"post">> \o file \o queued \in Seq(WebEffect) /\ WebProper(id, <<"post">> \o file \o queued)
         /\ <<"post">> \o file \in Seq(WebEffect) /\ WebProper(id, <<"post">> \o file)
<1>1. PICK none \in Seq(WebEffect) : none = <<>>
  BY EmptySeq
<1>2. <<"post">> \in Seq(WebEffect) /\ <<"file">> \in Seq(WebEffect) /\ <<"job">> \in Seq(WebEffect)
  BY DEF WebEffect
<1>3. /\ <<"post">> \o none = <<"post">> /\ <<"post">> \o <<"file">> = <<"post", "file">>
      /\ <<"post">> \o <<"job">> = <<"post", "job">> /\ <<"post", "file">> \o <<"job">> = <<"post", "file", "job">>
  <2>1. <<"post">> \o none = <<"post">>
    BY <1>1, <1>2, ConcatEmptySeq
  <2>2. "file" \in WebEffect /\ "job" \in WebEffect /\ <<"post", "file">> \in Seq(WebEffect)
    BY DEF WebEffect
  <2>3. <<"post">> \o <<"file">> = Append(<<"post">>, "file")
    BY <1>2, <2>2, WebOneMore, Zenon
  <2>4. <<"post">> \o <<"job">> = Append(<<"post">>, "job")
    BY <1>2, <2>2, WebOneMore, Zenon
  <2>5. <<"post", "file">> \o <<"job">> = Append(<<"post", "file">>, "job")
    BY <2>2, WebOneMore, Zenon
  <2>6. /\ Append(<<"post">>, "file") = <<"post", "file">> /\ Append(<<"post">>, "job") = <<"post", "job">>
        /\ Append(<<"post", "file">>, "job") = <<"post", "file", "job">>
    <3>1. Append(<<"post">>, "file") = <<"post", "file">>
      <4>1. PICK p, q : p = Append(<<"post">>, "file") /\ q = <<"post", "file">>
        OBVIOUS
      <4>2. p \in Seq(WebEffect) /\ Len(p) = 2 /\ p[1] = "post" /\ p[2] = "file"
        BY <1>2, <2>2, <4>1
      <4>3. q \in Seq(WebEffect) /\ Len(q) = 2 /\ q[1] = "post" /\ q[2] = "file"
        BY <2>2, <4>1
      <4>4. \A i \in 1 .. Len(p) : p[i] = q[i]
        BY <4>2, <4>3
      <4> QED
        BY <4>1, <4>2, <4>3, <4>4, SeqEqual
    <3>2. Append(<<"post">>, "job") = <<"post", "job">>
      <4>1. PICK p, q : p = Append(<<"post">>, "job") /\ q = <<"post", "job">>
        OBVIOUS
      <4>2. p \in Seq(WebEffect) /\ Len(p) = 2 /\ p[1] = "post" /\ p[2] = "job"
        BY <1>2, <2>2, <4>1
      <4>3. q \in Seq(WebEffect) /\ Len(q) = 2 /\ q[1] = "post" /\ q[2] = "job"
        BY <1>2, <2>2, <4>1
      <4>4. \A i \in 1 .. Len(p) : p[i] = q[i]
        BY <4>2, <4>3
      <4> QED
        BY <4>1, <4>2, <4>3, <4>4, SeqEqual
    <3>3. Append(<<"post", "file">>, "job") = <<"post", "file", "job">>
      <4>1. PICK p, q : p = Append(<<"post", "file">>, "job") /\ q = <<"post", "file", "job">>
        OBVIOUS
      <4>2. p \in Seq(WebEffect) /\ Len(p) = 3 /\ p[1] = "post" /\ p[2] = "file" /\ p[3] = "job"
        BY <1>2, <2>2, <4>1
      <4>3. q \in Seq(WebEffect) /\ Len(q) = 3 /\ q[1] = "post" /\ q[2] = "file" /\ q[3] = "job"
        BY <1>2, <2>2, <4>1
      <4>4. \A i \in 1 .. Len(p) : p[i] = q[i]
        BY <4>2, <4>3
      <4> QED
        BY <4>1, <4>2, <4>3, <4>4, SeqEqual
    <3> QED
      BY <3>1, <3>2, <3>3
  <2> QED
    BY <2>1, <2>3, <2>4, <2>5, <2>6
<1>4. <<"post", "file">> \in Seq(WebEffect) /\ <<"post", "job">> \in Seq(WebEffect) /\ <<"post", "file", "job">> \in Seq(WebEffect)
  BY DEF WebEffect
<1>5. <<"post", "file">> \o none = <<"post", "file">>
  BY <1>1, <1>4, ConcatEmptySeq
<1>6. /\ WebProper(id, <<"post">>) /\ WebProper(id, <<"post", "file">>) /\ WebProper(id, <<"post", "job">>)
      /\ WebProper(id, <<"post", "file", "job">>)
  BY DEF WebProper
<1> QED
  BY <1>1, <1>2, <1>3, <1>4, <1>5, <1>6

(* The effects of the other actions.                                        *)
LEMMA WebOthersProper ==
  /\ \A id \in WebIds : /\ WebProper(id, <<"command">>) /\ WebProper(id, <<"thread">>) /\ WebProper(id, <<"stop">>)
                        /\ WebProper(id, <<"ref">>) /\ WebProper(id, <<>>)
  /\ WebProper(0, <<"file">>)
  /\ <<"command">> \in Seq(WebEffect) /\ <<"thread">> \in Seq(WebEffect) /\ <<"stop">> \in Seq(WebEffect)
  /\ <<"ref">> \in Seq(WebEffect) /\ <<>> \in Seq(WebEffect) /\ <<"file">> \in Seq(WebEffect)
<1>1. PICK none \in Seq(WebEffect) : none = <<>>
  BY EmptySeq
<1>2. \A id \in WebIds : WebProper(id, none)
  BY <1>1 DEF WebProper
<1> QED
  BY <1>1, <1>2 DEF WebProper, WebEffect

(* The invariant but for the types of what the page and the relay keep.     *)
WebCore ==
  /\ webActed \in [WebIds -> Seq(WebEffect)] /\ webLate \in {0, 1} /\ webClaimed \subseteq WebIds
  /\ webDoing \in WebIds \cup {WebNone} /\ webUp \in 0 .. WebChunks \cup {WebNone}
  /\ webFile \in Seq(0 .. WebChunks) /\ webRef \in BOOLEAN
  /\ WebSafe /\ WebCarries

(* What is done in the share's name keeps what is promised of actions and   *)
(* of uploads.                                                              *)
LEMMA WebHandled ==
  ASSUME WebTyped, WebSafe, WebCarries, WebHandle
  PROVE  WebCore'
<1>1. /\ webClaimed \subseteq WebIds /\ webDoing \in WebIds \cup {WebNone} /\ webUp \in 0 .. WebChunks \cup {WebNone}
      /\ webFile \in Seq(0 .. WebChunks) /\ webRef \in BOOLEAN
      /\ webActed \in [WebIds -> Seq(WebEffect)] /\ webLate \in {0, 1}
  BY DEF WebTyped, WebTypeOK
<1>2. ASSUME NEW id \in WebIds, NEW effects \in Seq(WebEffect), WebDone(id, effects), WebProper(id, effects),
             webStatus' = webStatus \/ webStatus' = "revoked"
      PROVE  /\ WebSafe' /\ webActed' \in [WebIds -> Seq(WebEffect)] /\ webLate' \in {0, 1}
             /\ webClaimed' \subseteq WebIds /\ webDoing' \in WebIds \cup {WebNone}
             /\ ~WebUsed(id) /\ WebUsed(id)' /\ \A k \in WebIds : WebUsed(k) => WebUsed(k)'
  <2>1. /\ WebSafe' /\ webActed' \in [WebIds -> Seq(WebEffect)] /\ webLate' \in {0, 1}
        /\ ~WebUsed(id) /\ webClaimed' = webClaimed \cup {id} /\ webStatus # "gone"
    BY <1>2, WebDoneSafely
  <2> QED
    BY <1>1, <1>2, <2>1 DEF WebDone, WebUsed
<1>3. ASSUME UNCHANGED <<webUp, webFile, webRef>>, \A k \in WebIds : WebUsed(k) => WebUsed(k)'
      PROVE  WebCarries' /\ webUp' \in 0 .. WebChunks \cup {WebNone} /\ webFile' \in Seq(0 .. WebChunks) /\ webRef' \in BOOLEAN
  <2>1. webUp # WebNone /\ webUp < WebChunks => webUp + 1 \in WebIds
    BY <1>1, WebIdsAre, WebAssumption
  <2> QED
    BY <1>1, <1>3, <2>1, WebIdsAre DEF WebCarries
<1>4. ASSUME NEW a \in WebActions, WebPrompt(a) \/ WebPost(a)
      PROVE  WebCore'
  <2>1. PICK file \in {<<>>, <<"file">>}, queued \in {<<>>, <<"job">>} :
            WebDone(a, <<"post">> \o file \o queued) \/ WebDone(a, <<"post">> \o file)
    BY <1>4 DEF WebPrompt, WebPost, WebAttached
  <2>2. /\ WebSafe' /\ webActed' \in [WebIds -> Seq(WebEffect)] /\ webLate' \in {0, 1}
        /\ webClaimed' \subseteq WebIds /\ webDoing' \in WebIds \cup {WebNone}
        /\ \A k \in WebIds : WebUsed(k) => WebUsed(k)'
    BY <1>2, <1>4, <2>1, WebIdsAre, WebPostsFirst DEF WebPrompt, WebPost
  <2> QED
    BY <1>3, <1>4, <2>2 DEF WebPrompt, WebPost, WebCore
<1>5. ASSUME NEW a \in WebActions, WebCommand(a) \/ WebStop(a) \/ \E t \in WebThreads : WebCreateThread(a, t)
      PROVE  WebCore'
  <2>1. /\ WebDone(a, <<"command">>) \/ WebDone(a, <<"stop">>) \/ WebDone(a, <<"thread">>)
        /\ webStatus' = webStatus \/ webStatus' = "revoked"
        /\ UNCHANGED <<webUp, webFile, webRef>>
    BY <1>5 DEF WebCommand, WebStop, WebCreateThread, webFiles
  <2>2. /\ WebSafe' /\ webActed' \in [WebIds -> Seq(WebEffect)] /\ webLate' \in {0, 1}
        /\ webClaimed' \subseteq WebIds /\ webDoing' \in WebIds \cup {WebNone}
        /\ \A k \in WebIds : WebUsed(k) => WebUsed(k)'
    BY <1>2, <2>1, WebIdsAre, WebOthersProper
  <2> QED
    BY <1>3, <2>1, <2>2 DEF WebCore
<1>6. CASE WebUploadInit
  <2>1. /\ WebDone(0, <<"file">>) /\ webUp' = 0 /\ webFile' = <<>> /\ webStatus' = webStatus /\ webRef' = webRef
    BY <1>6 DEF WebUploadInit
  <2>2. /\ WebSafe' /\ webActed' \in [WebIds -> Seq(WebEffect)] /\ webLate' \in {0, 1}
        /\ webClaimed' \subseteq WebIds /\ webDoing' \in WebIds \cup {WebNone}
        /\ ~WebUsed(0) /\ WebUsed(0)'
    BY <1>2, <2>1, WebIdsAre, WebOthersProper
  <2>3. ~webRef
    BY <2>2 DEF WebCarries
  <2>4. webFile' = WebFirst(0) /\ webFile' \in Seq(0 .. WebChunks) /\ 0 \in 0 .. WebChunks
    <3>1. <<>> \in Seq(0 .. WebChunks) /\ WebFirst(0) = <<>>
      BY EmptySeq DEF WebFirst
    <3> QED
      BY <2>1, <3>1, WebAssumption
  <2> QED
    BY <1>1, <2>1, <2>2, <2>3, <2>4 DEF WebCore, WebCarries
<1>7. ASSUME NEW i \in 1 .. WebChunks, WebUploadChunk(i)
      PROVE  WebCore'
  <2>1. /\ WebDone(i, <<>>) /\ webUp # WebNone /\ i = webUp + 1 /\ webStatus' = webStatus /\ webRef' = webRef /\ i \in WebIds
    BY <1>7, WebIdsAre, WebAssumption DEF WebUploadChunk, WebInOrder
  <2>2. /\ WebSafe' /\ webActed' \in [WebIds -> Seq(WebEffect)] /\ webLate' \in {0, 1}
        /\ webClaimed' \subseteq WebIds /\ webDoing' \in WebIds \cup {WebNone}
        /\ ~WebUsed(i) /\ WebUsed(i)' /\ \A k \in WebIds : WebUsed(k) => WebUsed(k)'
    BY <1>2, <2>1, WebOthersProper
  <2>3. /\ webUp \in 0 .. WebChunks /\ webUp < WebChunks /\ i \in 0 .. WebChunks /\ i # WebNone
    BY <1>1, <2>1, WebIdsAre, WebAssumption
  <2>4. ~webRef /\ WebUsed(0)' /\ webFile = WebFirst(webUp)
    BY <2>1, <2>2, WebIdsAre DEF WebCarries
  <2>5. CASE webFile' = Append(webFile, i) /\ webUp' = i
    <3>1. webFile' = WebFirst(i)
      <4>1. Append(WebFirst(webUp), i) = WebFirst(i)
        BY <2>1, <2>3 DEF WebFirst
      <4> QED
        BY <2>4, <2>5, <4>1
    <3>2. webFile' \in Seq(0 .. WebChunks)
      BY <1>1, <2>3, <2>5
    <3>3. webUp' # WebNone /\ webUp' \in 0 .. WebChunks /\ webRef' \in BOOLEAN /\ ~webRef'
      BY <1>1, <2>1, <2>3, <2>4, <2>5
    <3>4. WebCarries'
      BY <2>4, <2>5, <3>1, <3>3 DEF WebCarries
    <3> QED
      BY <2>2, <3>2, <3>3, <3>4 DEF WebCore
  <2>6. CASE webUp' = webUp /\ webFile' \in {Append(webFile, 0), Append(webFile, i)}
    <3>1. webFile' \in Seq(0 .. WebChunks)
      <4>1. 0 \in 0 .. WebChunks
        BY WebAssumption
      <4>2. CASE webFile' = Append(webFile, 0)
        BY <1>1, <4>1, <4>2
      <4>3. CASE webFile' = Append(webFile, i)
        BY <1>1, <2>3, <4>3
      <4> QED
        BY <2>6, <4>2, <4>3
    <3>2. webUp' < WebChunks /\ WebUsed(webUp + 1)'
      BY <2>1, <2>2, <2>3, <2>6
    <3>3. webUp' # WebNone /\ webUp' \in 0 .. WebChunks /\ webRef' \in BOOLEAN /\ ~webRef'
      BY <1>1, <2>1, <2>3, <2>4, <2>6
    <3>4. WebUsed(webUp + 1)' <=> (webUp' + 1 \in webClaimed' \/ webStatus' = "gone")
      BY DEF WebUsed
    <3>5. WebCarries'
      BY <2>4, <2>6, <3>2, <3>3, <3>4 DEF WebCarries
    <3> QED
      BY <2>2, <3>1, <3>3, <3>5 DEF WebCore
  <2> QED
    BY <1>7, <2>5, <2>6 DEF WebUploadChunk
<1>8. CASE WebUploadFinish
  <2>1. /\ WebDone(WebChunks + 1, <<"ref">>) /\ webUp # WebNone /\ webUp' = WebNone /\ webStatus' = webStatus
        /\ IF webUp = WebChunks THEN webRef' = TRUE /\ webFile' = webFile ELSE webFile' = <<>> /\ webRef' = webRef
    BY <1>8 DEF WebUploadFinish, WebComplete
  <2>2. /\ WebSafe' /\ webActed' \in [WebIds -> Seq(WebEffect)] /\ webLate' \in {0, 1}
        /\ webClaimed' \subseteq WebIds /\ webDoing' \in WebIds \cup {WebNone}
        /\ \A k \in WebIds : WebUsed(k) => WebUsed(k)'
    BY <1>2, <2>1, WebIdsAre, WebOthersProper
  <2>3. WebUsed(0)' /\ ~webRef
    BY <2>1, <2>2, WebIdsAre DEF WebCarries
  <2>4. webUp = WebChunks => webFile = WebFirst(WebChunks)
    BY <1>1, <2>1, WebAssumption DEF WebCarries
  <2>5. <<>> \in Seq(0 .. WebChunks)
    BY EmptySeq
  <2> QED
    BY <1>1, <2>1, <2>2, <2>3, <2>4, <2>5 DEF WebCore, WebCarries
<1>9. CASE WebRejected
  <2>1. /\ webDoing # WebNone /\ webDoing' = WebNone /\ webClaimed' \in {webClaimed, webClaimed \cup {webDoing}}
        /\ UNCHANGED <<webStatus, webActed, webLate, webUp, webFile, webRef>>
    BY <1>9 DEF WebRejected, webFiles, webGhosts
  <2>2. \A k \in WebIds : WebUsed(k) => WebUsed(k)'
    BY <2>1 DEF WebUsed
  <2>3. WebSafe'
    BY <2>1, <2>2 DEF WebSafe, WebDid, WebProper, WebEnded
  <2> QED
    BY <1>1, <1>3, <2>1, <2>2, <2>3 DEF WebCore
<1> QED
  BY <1>4, <1>5, <1>6, <1>7, <1>8, <1>9 DEF WebHandle

(* The rest of the types: the store, the loop, the relay and the page.      *)
WebOuter ==
  /\ webStatus \in {"none", "created", "active", "degraded", "revoked", "expired", "gone"}
  /\ webHigh \in 0 .. WebMaxSent /\ webChild \subseteq WebThreads
  /\ webLoop \in {"none", "wait", "dialing", "on", "last", "ended"}
  /\ webRelay \in {"none", "live", "lost"} /\ webGuest \in BOOLEAN /\ webWire \in Seq(WebFrame)
  /\ webSealing \subseteq WebFrame /\ webNext \in 0 .. WebChunks + 2 /\ webSeq \in 0 .. WebMaxSent

(* Those types are kept by every step.                                      *)
LEMMA WebOuterKept == WebOuter /\ [WebNext]_webVars => WebOuter'
<1> SUFFICES ASSUME WebOuter, [WebNext]_webVars PROVE WebOuter'
  OBVIOUS
<1>1. WebFrame = [n : 1 .. WebMaxSent, id : WebIds] /\ WebMaxSent \in Nat /\ WebChunks \in Nat
  BY WebAssumption DEF WebFrame
<1>2. PICK none \in Seq(WebFrame) : none = <<>>
  BY EmptySeq
<1>3. CASE WebStart \/ WebRevoke \/ WebPrune \/ WebLive \/ \E t \in WebThreads : WebLifecycle(t)
  BY <1>1, <1>3 DEF WebStart, WebRevoke, WebPrune, WebLive, WebLifecycle, WebOuter, webStore, webNet, webPage
<1>4. CASE WebDial \/ WebConnected \/ WebStopHost \/ WebRestart \/ WebHookDeleted
  BY <1>4 DEF WebDial, WebConnected, WebMarkConnected, WebStopHost, WebRestart, WebHookDeleted, WebOuter, WebActive,
              webStore, webNet, webPage
<1>5. CASE WebHostLost \/ WebRelayNotices \/ WebLast
  BY <1>2, <1>5 DEF WebHostLost, WebRelayNotices, WebLast, WebRoomCloses, WebOuter, webStore, webPage
<1>6. CASE WebJoin
  BY <1>6 DEF WebJoin, WebOuter, webStore, webPage
<1>7. ASSUME NEW id \in WebIds, WebNumber(id), webNext' \in 0 .. WebChunks + 2
      PROVE  WebOuter'
  <2>1. PICK f : f = [n |-> webSeq + 1, id |-> id]
    OBVIOUS
  <2>2. webSeq + 1 \in 1 .. WebMaxSent /\ webSealing' = webSealing \cup {f} /\ webSeq' = webSeq + 1
    BY <1>1, <1>7, <2>1 DEF WebNumber, WebOuter
  <2>3. f \in WebFrame
    BY <1>1, <1>7, <2>1, <2>2
  <2>4. webSealing' \subseteq WebFrame /\ webSeq' \in 0 .. WebMaxSent
    BY <1>1, <2>2, <2>3 DEF WebOuter
  <2> QED
    BY <1>7, <2>4 DEF WebNumber, WebOuter, webStore, webNet
<1>8. CASE WebUploading \/ \E a \in WebActions : WebSubmit(a)
  <2>1. ASSUME WebUploading
        PROVE  WebOuter'
    <3>1. webNext \in WebIds /\ webNext + 1 \in 0 .. WebChunks + 2
      BY <1>1, <2>1, WebIdsAre DEF WebUploading, WebOuter
    <3> QED
      BY <1>7, <2>1, <3>1 DEF WebUploading
  <2>2. ASSUME NEW a \in WebActions, WebSubmit(a)
        PROVE  WebOuter'
    BY <1>7, <2>2, WebIdsAre DEF WebSubmit, WebOuter
  <2> QED
    BY <1>8, <2>1, <2>2
<1>9. ASSUME NEW f \in webSealing, WebSeal(f)
      PROVE  WebOuter'
  <2>1. f \in WebFrame /\ webWire \in Seq(WebFrame)
    BY <1>9 DEF WebOuter
  <2>2. Append(webWire, f) \in Seq(WebFrame)
    BY <2>1
  <2> QED
    BY <1>9, <2>1, <2>2 DEF WebSeal, WebOuter, webStore
<1>10. CASE WebReceive
  <2>1. webWire # <<>> /\ webWire \in Seq(WebFrame)
    BY <1>10 DEF WebReceive, WebOuter
  <2>2. Head(webWire) \in WebFrame /\ Tail(webWire) \in Seq(WebFrame)
    BY <2>1, HeadTailProperties
  <2>3. Head(webWire).n \in 0 .. WebMaxSent
    BY <1>1, <2>2
  <2>4. /\ webHigh' \in {webHigh, Head(webWire).n} /\ webWire' \in {webWire, Tail(webWire)}
        /\ webStatus' \in {webStatus, "degraded"}
        /\ UNCHANGED <<webChild, webLoop, webRelay, webGuest, webSealing, webNext, webSeq>>
    BY <1>10 DEF WebReceive, webPage
  <2> QED
    BY <2>1, <2>2, <2>3, <2>4 DEF WebOuter
<1>11. CASE WebHandle
  <2>1. /\ UNCHANGED <<webHigh, webLoop, webRelay, webGuest, webWire, webSealing, webNext, webSeq>>
        /\ webStatus' \in {webStatus, "revoked"}
        /\ webChild' = webChild \/ \E t \in WebThreads : webChild' = webChild \cup {t}
    BY <1>11 DEF WebHandle, WebPrompt, WebPost, WebCommand, WebStop, WebCreateThread, WebUploadChunk, WebUploadInit,
                 WebUploadFinish, WebRejected, webNet, webPage
  <2> QED
    BY <2>1 DEF WebOuter
<1>12. CASE UNCHANGED webVars
  BY <1>12 DEF webVars, webStore, webNet, webPage, WebOuter
<1> QED
  BY <1>3, <1>4, <1>5, <1>6, <1>8, <1>9, <1>10, <1>11, <1>12 DEF WebNext

(* What is not done in the share's name does no action and no upload: it    *)
(* can start one, forget an action under way, or forget the share.          *)
LEMMA WebOutside ==
  ASSUME WebTyped, WebSafe, WebCarries, [WebNext]_webVars, ~WebHandle
  PROVE  WebCore'
<1>1. /\ webClaimed \subseteq WebIds /\ webDoing \in WebIds \cup {WebNone} /\ webUp \in 0 .. WebChunks \cup {WebNone}
      /\ webFile \in Seq(0 .. WebChunks) /\ webRef \in BOOLEAN
      /\ webActed \in [WebIds -> Seq(WebEffect)] /\ webLate \in {0, 1}
  BY DEF WebTyped, WebTypeOK
<1>2. WebEnded => WebEnded'
  BY WebEndedStays
<1>3. webUp # WebNone /\ webUp < WebChunks => webUp + 1 \in WebIds
  BY <1>1, WebIdsAre, WebAssumption
<1>4. ASSUME UNCHANGED <<webActed, webLate, webFile, webRef>>, webUp' \in {webUp, WebNone},
             webClaimed' \subseteq WebIds, webDoing' \in WebIds \cup {WebNone},
             webStatus' = "gone" => webDoing' = WebNone, webLate = 1 => webDoing' = WebNone,
             \A k \in WebIds : WebUsed(k) => WebUsed(k)'
      PROVE  WebCore'
  <2>1. WebSafe'
    BY <1>1, <1>2, <1>4 DEF WebSafe, WebDid, WebProper
  <2>2. WebCarries'
    BY <1>1, <1>3, <1>4, WebIdsAre DEF WebCarries
  <2> QED
    BY <1>1, <1>4, <2>1, <2>2 DEF WebCore
<1>5. CASE WebStart \/ WebRevoke \/ WebLive \/ \E t \in WebThreads : WebLifecycle(t)
  <2>1. /\ UNCHANGED <<webActed, webLate, webFile, webRef, webUp, webClaimed, webDoing>>
        /\ webStatus' \in {webStatus, "created", "revoked", "degraded"} /\ (webStatus = "gone" => webStatus' = "gone")
    BY <1>5 DEF WebStart, WebRevoke, WebLive, WebLifecycle, WebActive, webStore, webFiles, webGhosts
  <2> QED
    BY <1>1, <1>4, <2>1 DEF WebSafe, WebUsed
<1>6. CASE WebPrune
  <2>1. /\ UNCHANGED <<webActed, webLate, webFile, webRef, webUp, webDoing>> /\ webDoing = WebNone
        /\ (webStatus # "gone" /\ webClaimed' = webClaimed) \/ (webStatus' = "gone" /\ webClaimed' = {})
    BY <1>6 DEF WebPrune, WebActive, webStore, webFiles, webGhosts
  <2> QED
    BY <1>1, <1>4, <2>1 DEF WebUsed
<1>7. CASE WebDial \/ WebHostLost \/ WebRelayNotices \/ WebStopHost \/ WebLast \/ WebHookDeleted \/ WebRestart \/ WebConnected
  <2>1. /\ UNCHANGED <<webActed, webLate, webFile, webRef, webClaimed>>
        /\ webUp' \in {webUp, WebNone} /\ webDoing' \in {webDoing, WebNone}
        /\ webStatus' = webStatus \/ (webStatus' = "active" /\ webStatus # "gone")
    BY <1>7 DEF WebDial, WebHostLost, WebRelayNotices, WebStopHost, WebLast, WebHookDeleted, WebRestart,
                WebConnected, WebMarkConnected, WebActive, webStore, webFiles, webGhosts
  <2> QED
    BY <1>1, <1>4, <2>1 DEF WebSafe, WebUsed
<1>8. CASE \/ WebJoin \/ WebUploading \/ UNCHANGED webVars \/ \E a \in WebActions : WebSubmit(a)
           \/ \E f \in webSealing : WebSeal(f)
  <2>1. UNCHANGED <<webActed, webLate, webFile, webRef, webUp, webClaimed, webDoing, webStatus>>
    BY <1>8 DEF WebJoin, WebUploading, WebSubmit, WebNumber, WebSeal, webVars, webStore, webFiles, webGhosts
  <2> QED
    BY <1>1, <1>4, <2>1 DEF WebSafe, WebUsed
<1>9. CASE WebReceive
  <2>1. Head(webWire).id \in WebIds
    <3>1. webWire # <<>> /\ webWire \in Seq(WebFrame)
      BY <1>9 DEF WebReceive, WebTyped, WebTypeOK
    <3>2. Head(webWire) \in WebFrame
      BY <3>1, HeadTailProperties
    <3> QED
      BY <3>2 DEF WebFrame
  <2>2. /\ UNCHANGED <<webActed, webLate, webFile, webRef, webUp, webClaimed>>
        /\ \/ UNCHANGED <<webDoing, webStatus>>
           \/ WebActive /\ webDoing' = Head(webWire).id /\ webStatus' = webStatus
           \/ WebActive /\ webStatus' = "degraded" /\ webDoing' = webDoing
    BY <1>9 DEF WebReceive, webFiles, webGhosts
  <2>3. WebActive => webStatus # "gone" /\ webLate = 0
    BY <1>1 DEF WebActive, WebSafe, WebEnded
  <2>4. \A k \in WebIds : WebUsed(k) => WebUsed(k)'
    BY <2>2, <2>3 DEF WebUsed
  <2> QED
    BY <1>1, <1>4, <2>1, <2>2, <2>3, <2>4 DEF WebSafe, WebActive
<1> QED
  BY <1>5, <1>6, <1>7, <1>8, <1>9 DEF WebNext

(* The invariant of the web share holds in every state.                     *)
WebInv == WebTyped /\ WebSafe /\ WebCarries

(* Every step of the web share keeps its invariant.                         *)
LEMMA WebInvKept == WebInv /\ [WebNext]_webVars => WebInv'
<1> SUFFICES ASSUME WebInv, [WebNext]_webVars PROVE WebInv'
  OBVIOUS
<1>1. WebTyped /\ WebSafe /\ WebCarries
  BY DEF WebInv
<1>2. WebCore'
  <2>1. CASE WebHandle
    BY <1>1, <2>1, WebHandled
  <2>2. CASE ~WebHandle
    BY <1>1, <2>2, WebOutside
  <2> QED
    BY <2>1, <2>2
<1>3. WebOuter
  BY <1>1 DEF WebTyped, WebTypeOK, WebOuter
<1>4. WebOuter'
  BY <1>3, WebOuterKept
<1>5. WebTyped'
  BY <1>2, <1>4 DEF WebCore, WebOuter, WebTyped, WebTypeOK
<1> QED
  BY <1>2, <1>5 DEF WebCore, WebInv

(* A share begins so.                                                       *)
LEMMA WebBegins == WebInit => WebInv
<1> SUFFICES ASSUME WebInit PROVE WebInv
  OBVIOUS
<1>1. PICK none : none = <<>>
  OBVIOUS
<1>2. none \in Seq(0 .. WebChunks) /\ none \in Seq(WebFrame) /\ none \in Seq(WebEffect)
  BY <1>1, EmptySeq
<1>3. /\ webFile = none /\ webWire = none /\ webActed = [id \in WebIds |-> none]
      /\ webClaimed = {} /\ webSealing = {} /\ webNext = 0 /\ webSeq = 0 /\ webLate = 0 /\ webHigh = 0 /\ webChild = {}
      /\ webUp = WebNone /\ webDoing = WebNone /\ webRef = FALSE /\ webGuest = FALSE /\ webStatus = "none"
      /\ webLoop = "none" /\ webRelay = "none"
  BY <1>1 DEF WebInit
<1>4. 0 \in 0 .. WebMaxSent /\ 0 \in 0 .. WebChunks + 2
  BY WebAssumption
<1>5. WebTyped
  BY <1>2, <1>3, <1>4 DEF WebTyped, WebTypeOK
<1>6. \A id \in WebIds : WebDid(id)
  BY <1>1, <1>3 DEF WebDid, WebProper
<1> QED
  BY <1>3, <1>5, <1>6 DEF WebInv, WebSafe, WebCarries

(* The ids that were used up, what was done under them and the chunks of an *)
(* upload agree in every state of a share.                                  *)
THEOREM WebInvariant == WebSpec => []WebInv
BY WebBegins, WebInvKept, PTL DEF WebSpec

(* It gives what a run checks.                                              *)
LEMMA WebInvGives == WebInv => WebTypeOK /\ WebActionsKept
<1> SUFFICES ASSUME WebInv PROVE WebTypeOK /\ WebActionsKept
  OBVIOUS
<1>1. WebTypeOK /\ webLate <= 1
  BY DEF WebInv, WebTyped
<1>2. ASSUME NEW id \in WebIds
      PROVE  /\ \A i, j \in DOMAIN webActed[id] : webActed[id][i] = webActed[id][j] => i = j
             /\ \A i \in DOMAIN webActed[id] : webActed[id][i] \in {"file", "job"} /\ id # 0 => webActed[id][1] = "post"
  BY DEF WebInv, WebSafe, WebDid, WebProper
<1>3. WebActsOnce
  BY <1>1, <1>2 DEF WebActsOnce
<1>4. WebUploadWhole
  BY DEF WebInv, WebCarries, WebFirst, WebUploadWhole
<1> QED
  BY <1>1, <1>3, <1>4 DEF WebActionsKept

(* Whatever comes twice, and whoever restarts, each effect of an action is  *)
(* had at most once, a job after its record in the channel; at most one     *)
(* action is done after the share ended; and a file that can be referred to *)
(* holds all chunks of its upload in their order and nothing else.          *)
THEOREM WebActs == WebSpec => []WebActionsKept
BY WebInvariant, WebInvGives, PTL

-----------------------------------------------------------------------------
(* The whole. A behaviour of it is one of each part, if the others wait.    *)
LEMMA PlatParts == PlatSpec => WebSpec /\ McpSpec /\ InSpec /\ BotsSpec /\ MedSpec
<1>1. PlatInit => WebInit /\ McpInit /\ InInit /\ BotsInit /\ MedInit
  BY DEF PlatInit
<1>2. [PlatNext]_platVars => [WebNext]_webVars /\ [McpNext]_mcpVars /\ [InNext]_inVars /\ [BotsNext]_botsVars /\ [MedNext]_medVars
  BY DEF PlatNext, PlatWeb, PlatSkill, PlatMcp, PlatIn, PlatBots, PlatEg, PlatUs, PlatMed, PlatAu, platVars
<1> QED
  BY <1>1, <1>2, PTL DEF PlatSpec, WebSpec, McpSpec, InSpec, BotsSpec, MedSpec

(* A page's action takes effect once, with its record first, an upload that *)
(* can be referred to is whole, and a share that ended stays ended          *)
(* (WebActionsKept, WebEndedFinal).                                         *)
THEOREM PlatWebKept == PlatSpec => []WebActionsKept /\ WebEndedFinal
BY PlatParts, WebActs, WebEndsFinally, PTL

(* The agents that run reach no more of an MCP server than their channel's  *)
(* row allows (McpFollowed), while no change is between write and stop.     *)
THEOREM PlatMcpKept == PlatSpec => []McpFollowed
BY PlatParts, McpFollows, PTL

(* What an agent was told of a media job stays true, and its file is its    *)
(* own (MediaJobs), if no two results are saved in one millisecond of the   *)
(* clock that names the files.                                              *)
THEOREM PlatMediaKept == ~MedSameTick => (PlatSpec => []MediaJobs)
<1>1. MedAnswers /\ MedOwnFile => MediaJobs
  BY DEF MediaJobs
<1> QED
  BY <1>1, PlatParts, MedTold, MedFiles, PTL

(* A message becomes one job, in one bot, that knows all that came before   *)
(* but what a dropped job held or Discord did not show, and what the cache  *)
(* calls delivered was in prompts that the queue took (MessagesTaken), if a *)
(* session is not replaced while the cache does not know of it.             *)
THEOREM PlatMessagesTaken == ~InEarlyResets => (PlatSpec => []MessagesTaken)
<1>1. InDelivers /\ InCacheTrue /\ BotsOneAnswers => MessagesTaken
  BY DEF MessagesTaken
<1> QED
  BY <1>1, PlatParts, InTaken, BotsOne, PTL
====
