-------------------------------- MODULE Skills --------------------------------
(* One skill of the store that the bot and the MCP servers of its agents   *)
(* share: a text with the tools it needs, created disabled for a scope,    *)
(* enabled by somebody who may manage that scope, hinted to the agents the *)
(* scope covers and read by them. Each row is written in a transaction     *)
(* together with an event; the copy of the text in the project's files is  *)
(* written outside of it. A creation is a process of several steps.        *)
EXTENDS Naturals, Sequences, SequencesExt

CONSTANTS
  SkillChannels,   \* channels, all of one guild and of one project
  SkillTexts,      \* what a skill may say
  SkillCreations,  \* calls of the creating tool or command
  SkillMaxEvents,  \* bound on the events
  SkillNone

ASSUME SkillAssumption == SkillMaxEvents \in Nat /\ SkillNone \notin SkillChannels \cup SkillTexts

VARIABLES skillDraft, skillStage, skillTry, skillIsNew,  \* of each creation
          skillText, skillInstall, skillLog,             \* the store
          skillFile,                                     \* the project's copy
          skillHint, skillGiven                          \* the agents
skillCalls == <<skillDraft, skillStage, skillTry, skillIsNew>>
skillStore == <<skillText, skillInstall, skillLog>>
skillAgents == <<skillHint, skillGiven>>
skillVars == <<skillCalls, skillStore, skillFile, skillAgents>>

(* A scope: the guild, the project, a channel, a channel and the project.  *)
SkillScopes == {[kind |-> k, channel |-> SkillNone] : k \in {"guild", "project"}}
               \cup [kind : {"channel", "channel_project"}, channel : SkillChannels]
SkillCopied(scope) == scope.kind \in {"project", "channel_project"}
SkillRequest == [scope : SkillScopes, text : SkillTexts, overwrite : BOOLEAN]
SkillStatus == {"none", "disabled", "active"}
SkillEvent == [what : {"create", "enable", "disable", "rollback", "discard"}, scope : SkillScopes,
               text : SkillTexts, before : SkillStatus \cup {"draft"}, after : SkillStatus \cup {"rejected"}]

SkillTypeOK ==
  /\ skillDraft \in [SkillCreations -> {"none", "draft", "installed", "rejected"}]
  /\ skillStage \in [SkillCreations -> {"idle", "drafted", "filed", "undo", "done", "lost"}]
  /\ skillTry \in [SkillCreations -> SkillRequest \cup {SkillNone}]
  /\ skillIsNew \in [SkillCreations -> BOOLEAN]
  /\ skillText \in SkillTexts \cup {SkillNone} /\ skillInstall \in [SkillScopes -> SkillStatus]
  /\ skillLog \in Seq(SkillEvent) /\ skillFile \in SkillTexts \cup {SkillNone}
  /\ skillHint \in [SkillChannels -> BOOLEAN] /\ skillGiven \subseteq SkillChannels \X SkillTexts

SkillInit ==
  /\ skillDraft = [k \in SkillCreations |-> "none"] /\ skillStage = [k \in SkillCreations |-> "idle"]
  /\ skillTry = [k \in SkillCreations |-> SkillNone]
  /\ skillIsNew = [k \in SkillCreations |-> FALSE]
  /\ skillText = SkillNone /\ skillInstall = [scope \in SkillScopes |-> "none"] /\ skillLog = <<>>
  /\ skillFile = SkillNone
  /\ skillHint = [c \in SkillChannels |-> FALSE] /\ skillGiven = {}

(* An event is appended in the transaction of what it tells of.            *)
SkillRecord(what, scope, text, before, after) ==
  /\ Len(skillLog) < SkillMaxEvents
  /\ skillLog' = Append(skillLog, [what |-> what, scope |-> scope, text |-> text,
                                   before |-> before, after |-> after])

-----------------------------------------------------------------------------
(* A creation: the draft, the copy, the install; who fails later takes     *)
(* back what it did before.                                                *)
SkillStep(k, from, to) == skillStage[k] = from /\ skillStage' = [skillStage EXCEPT ![k] = to]

SkillCreateDraft(k) ==
  /\ SkillStep(k, "idle", "drafted") /\ skillDraft' = [skillDraft EXCEPT ![k] = "draft"]
  /\ \E try \in SkillRequest : skillTry' = [skillTry EXCEPT ![k] = try]
  /\ UNCHANGED <<skillIsNew, skillStore, skillFile, skillAgents>>

(* The draft is rejected, unless somebody took it or the store fails.      *)
SkillDiscardDraft(k) ==
  \/ /\ skillDraft[k] = "draft" /\ skillDraft' = [skillDraft EXCEPT ![k] = "rejected"]
     /\ SkillRecord("discard", skillTry[k].scope, skillTry[k].text, "draft", "rejected")
  \/ UNCHANGED <<skillDraft, skillLog>>

(* A copy that differs is left alone unless the caller said otherwise.     *)
SkillDrifted(k) == skillFile \notin {SkillNone, skillTry[k].text} /\ ~skillTry[k].overwrite

SkillMaterialize(k) ==
  /\ SkillStep(k, "drafted", "filed") /\ UNCHANGED <<skillDraft, skillTry, skillStore, skillAgents>>
  /\ IF SkillCopied(skillTry[k].scope)
     THEN /\ ~SkillDrifted(k) /\ skillFile' = skillTry[k].text
          /\ skillIsNew' = [skillIsNew EXCEPT ![k] = skillFile = SkillNone]
     ELSE UNCHANGED <<skillFile, skillIsNew>>

SkillMaterializeFails(k) ==
  /\ SkillStep(k, "drafted", "done") /\ SkillCopied(skillTry[k].scope) /\ SkillDiscardDraft(k)
  /\ UNCHANGED <<skillTry, skillIsNew, skillText, skillInstall, skillFile, skillAgents>>

(* Mutant of SkillFree: a skill of this name is installed anyway.          *)
SkillTaken == TRUE

(* The install: refused when there is a skill of this name, in whatever    *)
(* scope; the draft is taken, the skill, its only version and the install  *)
(* written.                                                                *)
SkillFree == skillText = SkillNone

SkillInstallDraft(k) ==
  LET try == skillTry[k] IN
  /\ SkillStep(k, "filed", "done") /\ SkillFree
  /\ skillDraft[k] = "draft" /\ skillDraft' = [skillDraft EXCEPT ![k] = "installed"]
  /\ skillText' = try.text /\ skillInstall' = [skillInstall EXCEPT ![try.scope] = "disabled"]
  /\ SkillRecord("create", try.scope, try.text, skillInstall[try.scope], "disabled")
  /\ UNCHANGED <<skillTry, skillIsNew, skillFile, skillAgents>>

SkillInstallFails(k) ==
  /\ SkillStep(k, "filed", "undo") /\ SkillDiscardDraft(k)
  /\ UNCHANGED <<skillTry, skillIsNew, skillText, skillInstall, skillFile, skillAgents>>

SkillRemoveCopy(k) ==
  /\ SkillStep(k, "undo", "done")
  /\ skillFile' = (IF skillIsNew[k] /\ skillFile = skillTry[k].text THEN SkillNone ELSE skillFile)
  /\ UNCHANGED <<skillDraft, skillTry, skillIsNew, skillStore, skillAgents>>

(* The process of a creation is killed.                                    *)
SkillKilled(k) ==
  /\ skillStage[k] \in {"drafted", "filed", "undo"} /\ skillStage' = [skillStage EXCEPT ![k] = "lost"]
  /\ UNCHANGED <<skillDraft, skillTry, skillIsNew, skillStore, skillFile, skillAgents>>

-----------------------------------------------------------------------------
(* Enable, disable, restore and rollback to a version there is, by a       *)
(* command, a button or a tool: on the install of the caller's scope.      *)
SkillSetEnabled(scope, on) ==
  /\ skillInstall[scope] # "none"
  /\ LET after == IF on THEN "active" ELSE "disabled" IN
     /\ skillInstall' = [skillInstall EXCEPT ![scope] = after]
     /\ SkillRecord(IF on THEN "enable" ELSE "disable", scope, skillText, skillInstall[scope], after)
  /\ UNCHANGED <<skillCalls, skillText, skillFile, skillAgents>>

SkillRollback(scope) ==
  /\ skillText # SkillNone /\ skillInstall[scope] # "none"
  /\ skillInstall' = [skillInstall EXCEPT ![scope] = "active"]
  /\ SkillRecord("rollback", scope, skillText, skillInstall[scope], "active")
  /\ UNCHANGED <<skillCalls, skillText, skillFile, skillAgents>>

-----------------------------------------------------------------------------
(* What a channel sees: of the installs that cover it the most particular  *)
(* one, and nothing when that one is disabled.                             *)
SkillMatches(scope, c) == scope.kind \in {"guild", "project"} \/ scope.channel = c
SkillPrecedence(scope) == CHOOSE p \in 1 .. 4 : <<"guild", "project", "channel", "channel_project">>[p] = scope.kind
SkillResolved(c) ==
  {s \in SkillScopes : /\ skillInstall[s] # "none" /\ SkillMatches(s, c)
                       /\ \A t \in SkillScopes : skillInstall[t] # "none" /\ SkillMatches(t, c)
                                                    => SkillPrecedence(t) <= SkillPrecedence(s)}
SkillVisible(c) == \E s \in SkillResolved(c) : skillInstall[s] = "active"

(* A prompt hints at the skills that its channel sees and has the tools    *)
(* for; the agent reads one later, with the view of then.                  *)
SkillPromptHint(c) ==
  /\ \/ SkillVisible(c) /\ skillHint' = [skillHint EXCEPT ![c] = TRUE]
     \/ skillHint' = [skillHint EXCEPT ![c] = FALSE]
  /\ UNCHANGED <<skillCalls, skillStore, skillFile, skillGiven>>

SkillGet(c) ==
  /\ skillHint[c] /\ SkillVisible(c) /\ skillGiven' = skillGiven \cup {<<c, skillText>>}
  /\ UNCHANGED <<skillCalls, skillStore, skillFile, skillHint>>

SkillNext ==
  \/ \E k \in SkillCreations :
       \/ SkillCreateDraft(k) \/ SkillMaterialize(k) \/ SkillMaterializeFails(k)
       \/ SkillInstallDraft(k) \/ SkillInstallFails(k) \/ SkillRemoveCopy(k) \/ SkillKilled(k)
  \/ \E s \in SkillScopes : SkillSetEnabled(s, TRUE) \/ SkillSetEnabled(s, FALSE) \/ SkillRollback(s)
  \/ \E c \in SkillChannels : SkillPromptHint(c) \/ SkillGet(c)

SkillSpec == SkillInit /\ [][SkillNext]_skillVars

-----------------------------------------------------------------------------
(* What an agent was given had been enabled, as it reads, for a scope that *)
(* covers its channel, whoever created the same name elsewhere meanwhile.  *)
SkillVetted ==
  \A g \in skillGiven : \E e \in ToSet(skillLog) :
     e.after = "active" /\ e.text = g[2] /\ SkillMatches(e.scope, g[1])

(* The trail tells the whole story: the last event of each scope says what *)
(* its install is, and each event begins where the one before it ended.    *)
SkillTold(s, n) == {i \in 1 .. n : skillLog[i].scope = s /\ skillLog[i].what # "discard"}
SkillSaid(s, n) ==
  IF SkillTold(s, n) = {} THEN "none" ELSE skillLog[CHOOSE i \in SkillTold(s, n) : \A k \in SkillTold(s, n) : k <= i].after
SkillTrail ==
  \A s \in SkillScopes :
     /\ skillInstall[s] = SkillSaid(s, Len(skillLog))
     /\ \A i \in SkillTold(s, Len(skillLog)) : skillLog[i].before = SkillSaid(s, i - 1)
=============================================================================
