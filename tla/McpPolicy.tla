------------------------------- MODULE McpPolicy -------------------------------
(* The tools of one MCP server that one channel's agents may call: a row   *)
(* of the policy store, changed by managers' commands, by their clicks in  *)
(* a panel and by the channel's setup, each of which reads the row,        *)
(* changes it and writes it back; and the agents, whose proxies are given  *)
(* the row's tools when they start and keep them until they are stopped.   *)
EXTENDS Naturals, FiniteSets

CONSTANTS
  McpTools,          \* the server's tools
  McpLegacy,         \* the default tools of an older version
  McpDefault,        \* those of this one
  McpManagers,       \* goroutines that handle managers' interactions
  McpTargets,        \* the channel and its threads: agents that the manager registers
  McpTemps,          \* temporary agents (of jobs that are scheduled, of monitors)
  McpMaxChanges      \* bounds the interactions

ASSUME McpAssumption ==
  /\ IsFiniteSet(McpTools) /\ McpTools # {} /\ McpDefault \subseteq McpTools /\ McpLegacy \subseteq McpDefault
  /\ McpTargets \cap McpTemps = {} /\ McpMaxChanges \in Nat

VARIABLES
  mcpRow,      \* the policy row
  mcpCached,   \* are the server's tools in the catalog's cache?
  mcpInited,   \* does the channel have a session row?
  mcpDo,       \* of each manager's interaction: its stage, what it asks, the row it will write
  mcpAgent,    \* of each agent: its stage and what its proxy lets through
  mcpOld,      \* ghost: the agents that ran when the setup replaced the row
  mcpChanges   \* bounds the interactions
mcpVars == <<mcpRow, mcpCached, mcpInited, mcpDo, mcpAgent, mcpOld, mcpChanges>>

McpAgents == McpTargets \cup McpTemps
McpRows == [enabled : BOOLEAN, all : BOOLEAN, readOnly : BOOLEAN, preset : {"none", "safe-write", "full"}, allowed : SUBSET McpTools]
McpAsks == [kind : {"full", "disable", "default"}, tool : McpTools] \cup [kind : {"allow", "deny"}, tool : McpTools]
McpNoRow == [enabled |-> FALSE, all |-> FALSE, readOnly |-> TRUE, preset |-> "none", allowed |-> {}]
McpStages == {"idle", "first", "setup", "writing", "written"}
McpIdle == [at |-> "idle", ask |-> [kind |-> "full", tool |-> CHOOSE t \in McpTools : TRUE], row |-> McpNoRow]
McpDown == [at |-> "down", all |-> FALSE, allowed |-> {}]

McpTypeOK ==
  /\ mcpRow \in McpRows /\ mcpCached \in BOOLEAN /\ mcpInited \in BOOLEAN
  /\ mcpDo \in [McpManagers -> [at : McpStages, ask : McpAsks, row : McpRows]]
  /\ mcpAgent \in [McpAgents -> [at : {"down", "starting", "up"}, all : BOOLEAN, allowed : SUBSET McpTools]]
  /\ mcpOld \subseteq McpAgents /\ mcpChanges \in 0 .. McpMaxChanges

(* A channel of an older version starts with its session and with the row  *)
(* that the migration gave it, or one with the old default tools.          *)
McpMigrated == [enabled |-> TRUE, all |-> TRUE, readOnly |-> FALSE, preset |-> "full", allowed |-> {}]
McpOldDefault == [enabled |-> TRUE, all |-> FALSE, readOnly |-> FALSE, preset |-> "safe-write", allowed |-> McpLegacy]

McpInit ==
  /\ \/ mcpInited = FALSE /\ mcpRow = McpNoRow
     \/ mcpInited = TRUE /\ mcpRow \in {McpMigrated, McpOldDefault}
  /\ mcpCached \in BOOLEAN
  /\ mcpDo = [u \in McpManagers |-> McpIdle] /\ mcpAgent = [a \in McpAgents |-> McpDown]
  /\ mcpOld = {} /\ mcpChanges = 0

-----------------------------------------------------------------------------
(* A row that holds the old default as it was is read as the new default;  *)
(* a list that somebody chose is read as it is.                            *)
McpNormal(row) ==
  IF row.enabled /\ ~row.all /\ ~row.readOnly /\ row.preset = "safe-write" /\ row.allowed = McpLegacy
  THEN [row EXCEPT !.allowed = McpDefault] ELSE row
McpRead == McpNormal(mcpRow)

McpEffective(row) == IF row.all \/ row.readOnly THEN {} ELSE row.allowed
McpGranted(row) ==
  IF ~row.enabled THEN {} ELSE IF row.all THEN McpTools ELSE McpEffective(row)
McpExposes(row) == row.enabled => row.all \/ McpEffective(row) # {}

(* What an interaction makes of the row it read.                           *)
McpFull(row) == [row EXCEPT !.enabled = TRUE, !.all = TRUE, !.readOnly = FALSE, !.preset = "full", !.allowed = {}]
McpDefaulted(row) == [row EXCEPT !.enabled = TRUE, !.all = FALSE, !.readOnly = FALSE, !.preset = "safe-write", !.allowed = McpDefault]

McpListed(row, allow) ==
  IF row.all /\ ~allow /\ mcpCached THEN McpTools ELSE row.allowed
McpWithTool(row, tool, allow) ==
  LET next == IF allow THEN McpListed(row, allow) \cup {tool} ELSE McpListed(row, allow) \ {tool} IN
  [row EXCEPT !.enabled = next # {}, !.all = FALSE, !.readOnly = next = {}, !.preset = "none", !.allowed = next]

McpAsked(row, ask) ==
  CASE ask.kind = "full" -> McpFull(row)
    [] ask.kind = "disable" -> [row EXCEPT !.enabled = FALSE]
    [] ask.kind = "default" -> McpDefaulted(row)
    [] OTHER -> McpWithTool(row, ask.tool, ask.kind = "allow")

-----------------------------------------------------------------------------
McpStage(u, from, to) == mcpDo[u].at = from /\ mcpDo' = [mcpDo EXCEPT ![u].at = to]
McpReads(u, from, ask) ==
  /\ mcpDo[u].at = from /\ McpExposes(McpAsked(McpRead, ask))
  /\ mcpDo' = [mcpDo EXCEPT ![u] = [at |-> "writing", ask |-> ask, row |-> McpAsked(McpRead, ask)]]

(* A command for the server, or a click on one of the tools that the panel *)
(* lists, whatever it showed when it was drawn.                            *)
McpOffered(ask) == ask.kind \in {"full", "disable"} \/ (ask.kind \in {"allow", "deny"} /\ mcpCached)

McpChange(u, ask) ==
  /\ mcpChanges < McpMaxChanges /\ mcpChanges' = mcpChanges + 1
  /\ McpOffered(ask) /\ McpReads(u, "idle", ask)
  /\ UNCHANGED <<mcpRow, mcpCached, mcpInited, mcpAgent, mcpOld>>

(* The setup: only if the channel had no session does it enable the        *)
(* default tools, after it has given it one.                               *)
McpConfirm(u) ==
  /\ ~mcpInited /\ mcpChanges < McpMaxChanges /\ mcpChanges' = mcpChanges + 1
  /\ McpStage(u, "idle", "first")
  /\ UNCHANGED <<mcpRow, mcpCached, mcpInited, mcpAgent, mcpOld>>

McpInitialize(u) ==
  /\ \/ McpStage(u, "first", "setup") /\ mcpInited' = TRUE
     \/ McpStage(u, "first", "idle") /\ UNCHANGED mcpInited
  /\ UNCHANGED <<mcpRow, mcpCached, mcpAgent, mcpOld, mcpChanges>>

McpEnableDefault(u) ==
  /\ McpReads(u, "setup", [kind |-> "default", tool |-> McpIdle.ask.tool])
  /\ UNCHANGED <<mcpRow, mcpCached, mcpInited, mcpAgent, mcpOld, mcpChanges>>

(* The row is written, or the store fails; then the channel's registered   *)
(* agents are stopped, but not by the setup.                               *)
McpRunning == {a \in McpAgents : mcpAgent[a].at # "down"}

McpWrite(u) ==
  /\ mcpDo[u].at = "writing" /\ mcpRow' = mcpDo[u].row
  /\ IF mcpDo[u].ask.kind = "default"
     THEN mcpDo' = [mcpDo EXCEPT ![u] = McpIdle] /\ mcpOld' = McpRunning
     ELSE McpStage(u, "writing", "written") /\ UNCHANGED mcpOld
  /\ UNCHANGED <<mcpCached, mcpInited, mcpAgent, mcpChanges>>

McpWriteFails(u) ==
  /\ mcpDo[u].at \in {"setup", "writing"} /\ mcpDo' = [mcpDo EXCEPT ![u] = McpIdle]
  /\ UNCHANGED <<mcpRow, mcpCached, mcpInited, mcpAgent, mcpOld, mcpChanges>>

(* Mutant of McpLocked: nothing waits for an agent that is starting.       *)
McpUnlocked == FALSE

McpLocked == \E a \in McpTargets : mcpAgent[a].at = "starting"

McpStopsAgents(u) ==
  /\ mcpDo[u].at = "written" /\ ~McpLocked
  /\ mcpDo' = [mcpDo EXCEPT ![u] = McpIdle]
  /\ mcpAgent' = [a \in McpAgents |-> IF a \in McpTargets /\ mcpAgent[a].at = "up" THEN McpDown ELSE mcpAgent[a]]
  /\ mcpOld' = mcpOld \ McpTargets
  /\ UNCHANGED <<mcpRow, mcpCached, mcpInited, mcpChanges>>

-----------------------------------------------------------------------------
(* Agents. A registered one starts under the manager's mutex; the proxy of *)
(* a server that is enabled gets the tools of the row as it is then. A     *)
(* server that is not enabled is given to none.                            *)
McpProxy(row) == [at |-> "starting", all |-> row.enabled /\ row.all, allowed |-> IF row.enabled THEN McpEffective(row) ELSE {}]

McpStart(a) ==
  /\ mcpInited /\ mcpAgent[a].at = "down" /\ (a \in McpTargets => ~McpLocked)
  /\ mcpAgent' = [mcpAgent EXCEPT ![a] = McpProxy(McpRead)]
  /\ UNCHANGED <<mcpRow, mcpCached, mcpInited, mcpDo, mcpOld, mcpChanges>>

McpStarted(a) ==
  /\ mcpAgent[a].at = "starting" /\ mcpAgent' = [mcpAgent EXCEPT ![a].at = "up"]
  /\ UNCHANGED <<mcpRow, mcpCached, mcpInited, mcpDo, mcpOld, mcpChanges>>

McpEnds(a) ==
  /\ mcpAgent[a].at = "up" /\ mcpAgent' = [mcpAgent EXCEPT ![a] = McpDown] /\ mcpOld' = mcpOld \ {a}
  /\ UNCHANGED <<mcpRow, mcpCached, mcpInited, mcpDo, mcpChanges>>

(* What the proxy of an agent passes on; other calls it answers itself.    *)
McpReach(a) == IF mcpAgent[a].at = "down" THEN {} ELSE IF mcpAgent[a].all THEN McpTools ELSE mcpAgent[a].allowed

McpDiscover ==
  /\ ~mcpCached /\ mcpCached' = TRUE
  /\ UNCHANGED <<mcpRow, mcpInited, mcpDo, mcpAgent, mcpOld, mcpChanges>>

(* The bot restarts: the rows are kept.                                    *)
McpRestart ==
  /\ mcpDo' = [u \in McpManagers |-> McpIdle] /\ mcpAgent' = [a \in McpAgents |-> McpDown] /\ mcpOld' = {}
  /\ UNCHANGED <<mcpRow, mcpCached, mcpInited, mcpChanges>>

McpNext ==
  \/ \E u \in McpManagers :
       \/ \E ask \in McpAsks : McpChange(u, ask)
       \/ McpConfirm(u) \/ McpInitialize(u) \/ McpEnableDefault(u)
       \/ McpWrite(u) \/ McpWriteFails(u) \/ McpStopsAgents(u)
  \/ \E a \in McpAgents : McpStart(a) \/ McpStarted(a) \/ McpEnds(a)
  \/ McpDiscover \/ McpRestart

McpSpec == McpInit /\ [][McpNext]_mcpVars

-----------------------------------------------------------------------------
(* Once a change has been answered, no registered agent reaches a tool     *)
(* that the row does not grant: whichever agents started meanwhile,        *)
(* whichever changes overlapped. Agents that ran when the setup replaced   *)
(* the row are left alone.                                                 *)
McpFollowed ==
  (\A u \in McpManagers : mcpDo[u].at # "written")
    => \A a \in McpTargets \ mcpOld : McpReach(a) \subseteq McpGranted(McpRead)

(* To take a tool away grants none. Does not hold: the removal of one tool *)
(* from the list of a server that is disabled enables the server with the  *)
(* tools that are left.                                                    *)
McpAlone(u) == \A v \in McpManagers \ {u} : mcpDo[v].at = "idle"

McpRemovalNarrows ==
  \A u \in McpManagers :
    mcpDo[u].at = "writing" /\ mcpDo[u].ask.kind = "deny" /\ McpAlone(u)
      => McpGranted(mcpDo[u].row) \subseteq McpGranted(McpRead)
=============================================================================
