----------------------------- MODULE MCPlatform -----------------------------
(* What surrounds the conversations, for TLC: the web share, the skills,   *)
(* the policy of the MCP servers, the intake of messages, the peer bots,   *)
(* the egress, the usage limits, the media jobs and the audit log. They    *)
(* share no state, so that a behaviour moves one of them, chosen at the    *)
(* start; the others stay in one of their initial states.                  *)
EXTENDS WebShare, Skills, McpPolicy, Intake, BotPeers, Egress, Usage, Media, Audit

CONSTANTS a1, w1, w2, c1, x1, x2, k1, k2, t1, t2, u1, u2, g1, b1, b2, tc, tt, e1, j1, j2, m1

VARIABLE part
platVars == <<part, webVars, skillVars, mcpVars, inVars, botsVars, egVars, usVars, medVars, auVars>>

PlatInit ==
  /\ part \in {"web", "skill", "mcp", "intake", "bots", "egress", "usage", "media", "audit"}
  /\ WebInit /\ SkillInit /\ McpInit /\ InInit /\ BotsInit /\ EgInit /\ UsInit /\ MedInit /\ AuInit
  /\ part # "mcp" => mcpRow = McpNoRow /\ ~mcpInited /\ ~mcpCached
  /\ part # "bots" => botsAccess = {}
  /\ part # "usage" => usFile = "whole"

PlatWeb == part = "web" /\ WebNext /\ UNCHANGED <<part, skillVars, mcpVars, inVars, botsVars, egVars, usVars, medVars, auVars>>
PlatSkill == part = "skill" /\ SkillNext /\ UNCHANGED <<part, webVars, mcpVars, inVars, botsVars, egVars, usVars, medVars, auVars>>
PlatMcp == part = "mcp" /\ McpNext /\ UNCHANGED <<part, webVars, skillVars, inVars, botsVars, egVars, usVars, medVars, auVars>>
PlatIn == part = "intake" /\ InNext /\ UNCHANGED <<part, webVars, skillVars, mcpVars, botsVars, egVars, usVars, medVars, auVars>>
PlatBots == part = "bots" /\ BotsNext /\ UNCHANGED <<part, webVars, skillVars, mcpVars, inVars, egVars, usVars, medVars, auVars>>
PlatEg == part = "egress" /\ EgNext /\ UNCHANGED <<part, webVars, skillVars, mcpVars, inVars, botsVars, usVars, medVars, auVars>>
PlatUs == part = "usage" /\ UsNext /\ UNCHANGED <<part, webVars, skillVars, mcpVars, inVars, botsVars, egVars, medVars, auVars>>
PlatMed == part = "media" /\ MedNext /\ UNCHANGED <<part, webVars, skillVars, mcpVars, inVars, botsVars, egVars, usVars, auVars>>
PlatAu == part = "audit" /\ AuNext /\ UNCHANGED <<part, webVars, skillVars, mcpVars, inVars, botsVars, egVars, usVars, medVars>>
PlatNext == PlatWeb \/ PlatSkill \/ PlatMcp \/ PlatIn \/ PlatBots \/ PlatEg \/ PlatUs \/ PlatMed \/ PlatAu

PlatSpec == PlatInit /\ [][PlatNext]_platVars

-----------------------------------------------------------------------------
PlatTypeOK ==
  /\ WebTypeOK /\ SkillTypeOK /\ McpTypeOK /\ InTypeOK
  /\ BotsTypeOK /\ EgTypeOK /\ UsTypeOK /\ MedTypeOK /\ AuTypeOK

(* A page's action takes effect once, with its record in the channel       *)
(* first, and an upload that can be referred to is whole.                  *)
WebActionsKept == WebActsOnce /\ WebUploadWhole

(* No agent is given a skill that was not enabled for it, and the audit    *)
(* trail accounts for every install.                                       *)
SkillsGoverned == SkillVetted /\ SkillTrail

(* A message becomes one job, in one bot, that knows all that came before  *)
(* but what a dropped job held or Discord did not show, and what the cache *)
(* calls delivered was in prompts that the queue took.                     *)
MessagesTaken == InDelivers /\ InCacheTrue /\ BotsOneAnswers

(* What is spent stays near its ceilings, the older ledger is counted once *)
(* unless it was written to between its count and its archive, and the     *)
(* tables of the audit log agree with its events.                          *)
LedgersKept == UsLimitKept /\ UsImportedOnce /\ AuLogKept

(* What an agent was told of a media job stays true, and its file is its   *)
(* own.                                                                    *)
MediaJobs == MedAnswers /\ MedOwnFile
=============================================================================
