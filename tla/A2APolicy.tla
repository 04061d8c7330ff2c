----------------------------- MODULE A2APolicy -----------------------------
(* Who may delegate to whom: the policy rows of the channels, the requests *)
(* that change them and the questions people put to another runtime. The   *)
(* rows live in one SQLite file, shared by the bot, which runs /a2a, and   *)
(* the MCP server of every agent: a change reads the whole row, edits its  *)
(* copy and saves it, in two steps that others may interleave. A runtime   *)
(* is named by its channel and the channel's present name, so that every   *)
(* row that mentions it is rewritten when the name changes.                *)
EXTENDS Naturals, FiniteSets

CONSTANTS
  PolChannels,   \* the channels of this bot that have a runtime
  PolNames,      \* the names a channel may have
  PolForeign,    \* runtimes of another bot in the same Discord channels
  PolUsers,      \* the people who ask, the first to confirm their question
  PolWriters,    \* requests and passes that are under way at a time
  PolConfs,      \* confirmations on the screen
  PolTasks,      \* delegations
  PolCap,        \* A2A_MAX_OUTBOUND_TASKS_PER_CHANNEL
  PolMaxChanges, \* bound on the requests and the changes of names
  PolNone

ASSUME PolAssumption == /\ PolCap \in Nat \ {0} /\ PolMaxChanges \in Nat /\ PolNames # {}
                        /\ IsFiniteSet(PolWriters) /\ IsFiniteSet(PolTasks)
                        /\ PolNone \notin PolChannels \cup PolConfs \cup PolTasks

VARIABLES polName, polRow, polReq, polConf, polTask, polShown, polGrant, polOdd, polChanges
polVars == <<polName, polRow, polReq, polConf, polTask, polShown, polGrant, polOdd, polChanges>>

PolRuntimes == PolChannels \X PolNames        \* GenerateRuntimeAgentIDFromAlias
PolAgents == PolRuntimes \cup PolForeign
PolOwner(p) == IF p \in PolForeign THEN p ELSE p[1]
PolIdle == [op |-> "idle"]

(* The rows, questions and tasks.                                          *)
PolModes == {"delegator", "mirror", "co_present"}
PolRows == [on : BOOLEAN, rid : PolRuntimes, accept : SUBSET PolAgents, mode : PolModes]
PolQuestions == [u : PolUsers, c : PolChannels, to : PolAgents, mode : PolModes, k : PolConfs \cup {PolNone}]
PolEnvelopes == [c : PolChannels, by : PolUsers, from : PolRuntimes, to : PolAgents, mode : PolModes,
                 st : {"sent", "running", "ended"}]
ASSUME PolNoneAssumption == PolNone \notin PolRows \cup PolQuestions \cup PolEnvelopes

(* A runtime belongs to one bot.                                           *)
ASSUME PolForeignAssumption == PolForeign \cap (PolRuntimes \cup PolChannels) = {}

(* The row of a channel that has none: disabled, with the runtime's name.  *)
PolDefault(c) == [on |-> FALSE, rid |-> <<c, polName[c]>>, accept |-> {}, mode |-> "delegator"]
PolRead(c) == IF polRow[c] = PolNone THEN PolDefault(c) ELSE polRow[c]
PolCurrent(c) == PolRead(c).rid

(* How a question is delivered: people of one Discord channel share it.    *)
PolMode(p) == IF p \in PolForeign THEN "co_present" ELSE "mirror"

(* A change enables the row under the channel's present name (a new name   *)
(* is a new runtime id); an allow also accepts the peer, and gives the row *)
(* the mode of this peer, for all of them.                                 *)
PolEnabled(c, row) == [row EXCEPT !.on = TRUE, !.rid = <<c, polName[c]>>]
PolAllowed(c, p) == [PolEnabled(c, PolRead(c)) EXCEPT !.accept = @ \cup {p}, !.mode = PolMode(p)]
PolWithout(c, p) == [PolRead(c) EXCEPT !.accept = @ \ {p}]
PolNamed(c, row) == [row EXCEPT !.rid = <<c, polName[c]>>]

PolTypeOK ==
  /\ polName \in [PolChannels -> PolNames]
  /\ \A c \in PolChannels : polRow[c] # PolNone =>
       /\ polRow[c].rid \in {c} \X PolNames /\ polRow[c].on \in BOOLEAN
       /\ polRow[c].accept \subseteq PolAgents
       /\ polRow[c].mode \in {"delegator", "mirror", "co_present"}
  /\ \A w \in PolWriters : polReq[w].op \in {"idle", "save", "ask", "apply"}
  /\ polGrant \in [PolChannels -> SUBSET (PolChannels \cup PolForeign)]
  /\ polShown \in [PolConfs -> SUBSET PolTasks]
  /\ \A t \in PolTasks : polTask[t] # PolNone => polTask[t].st \in {"sent", "running", "ended"}

PolInit ==
  /\ polName = [c \in PolChannels |-> CHOOSE n \in PolNames : TRUE]
  /\ polRow \in {[c \in PolChannels |-> PolNone], [c \in PolChannels |-> PolEnabled(c, PolDefault(c))]}
  /\ polReq = [w \in PolWriters |-> PolIdle]
  /\ polConf = [k \in PolConfs |-> PolNone]
  /\ polTask = [t \in PolTasks |-> PolNone]
  /\ polShown = [k \in PolConfs |-> {}]
  /\ polGrant = [c \in PolChannels |-> {}] /\ polOdd = FALSE /\ polChanges = 0

PolChange == polChanges < PolMaxChanges /\ polChanges' = polChanges + 1

(* Discord renames a channel; the metadata file follows.                   *)
PolRename(c, n) ==
  /\ PolChange /\ n # polName[c] /\ polName' = [polName EXCEPT ![c] = n]
  /\ UNCHANGED <<polRow, polReq, polConf, polTask, polShown, polGrant, polOdd>>

(* The first half of a change: the row is read and the copy edited.        *)
PolEdit(w, c, row, gives, takes) ==
  /\ polReq[w].op = "idle" /\ PolChange
  /\ polReq' = [polReq EXCEPT ![w] = [op |-> "save", c |-> c, row |-> row,
                                      base |-> polRow[c], gives |-> gives, takes |-> takes]]
  /\ UNCHANGED <<polName, polRow, polConf, polTask, polShown, polGrant, polOdd>>

(* /a2a allow and bot_a2a_trust_peer: a manager, a peer that has been      *)
(* seen, under whatever name the peer's card had.                          *)
PolTrustPeer(w, c, p) ==
  /\ PolOwner(p) # c /\ (p \in PolRuntimes => polRow[p[1]] # PolNone)
  /\ PolEdit(w, c, PolAllowed(c, p), {p}, {})
PolRevokePeer(w, c, p) == PolOwner(p) # c /\ PolEdit(w, c, PolWithout(c, p), {}, {p})

(* The presence pass gives a row the channel's present name.               *)
PolSync(w, c) ==
  /\ polRow[c] # PolNone /\ polRow[c].on /\ PolNamed(c, polRow[c]) # polRow[c]
  /\ PolEdit(w, c, PolNamed(c, polRow[c]), {}, {})

(* Mutant of PolRewritten: the other rows keep the name of before.         *)
PolRewrittenNever(row, old, new) == row

PolRewritten(row, old, new) ==
  IF row # PolNone /\ old \in row.accept THEN [row EXCEPT !.accept = (@ \ {old}) \cup {new}] ELSE row

(* The other half, one transaction: the copy replaces the row, and a new   *)
(* runtime id replaces the old one in every row. polOdd notes a save over  *)
(* a row that changed meanwhile, and an allow or a revoke of an outdated   *)
(* name.                                                                   *)
PolSave(w) ==
  LET q == polReq[w]
      old == IF polRow[q.c] = PolNone THEN q.row.rid ELSE polRow[q.c].rid
      outdated == \E p \in (q.gives \cup q.takes) \cap PolRuntimes : p # PolCurrent(p[1])
      rows == [polRow EXCEPT ![q.c] = q.row]
  IN /\ q.op = "save"
     /\ \/ /\ polRow' = [c \in PolChannels |-> PolRewritten(rows[c], old, q.row.rid)]
           /\ polGrant' = [polGrant EXCEPT ![q.c] = (@ \cup {PolOwner(p) : p \in q.gives})
                                                     \ {PolOwner(p) : p \in q.takes}]
           /\ polOdd' = (polOdd \/ q.base # polRow[q.c] \/ outdated)
        \/ UNCHANGED <<polRow, polGrant, polOdd>>     \* the store fails
     /\ polReq' = [polReq EXCEPT ![w] = PolIdle]
     /\ UNCHANGED <<polName, polConf, polTask, polShown, polChanges>>

PolOpen(c) == Cardinality({t \in PolTasks : /\ polTask[t] # PolNone /\ polTask[t].c = c
                                            /\ polTask[t].st # "ended"})

(* Delegate, up to the publication: the row is enabled, the target is a    *)
(* known runtime and the quota leaves room. The first time, when a         *)
(* confirmation is needed (by the configuration or by the request), the    *)
(* question goes to the screen with what it would do; otherwise the task   *)
(* may be sent.                                                            *)
PolMayAsk(c) == polRow[c] # PolNone /\ polRow[c].on /\ PolOpen(c) < PolCap

PolQuestion(u, c, p) == [u |-> u, c |-> c, to |-> p, mode |-> PolMode(p), k |-> PolNone]
PolShows(k) == polConf[k] # PolNone /\ polConf[k].k # PolNone      \* still in the store
PolGone(k) == [polConf EXCEPT ![k].k = PolNone]

PolDelegate(w, u, c, p) ==
  /\ polReq[w].op = "idle" /\ PolOwner(p) # c /\ PolMayAsk(c) /\ PolChange
  /\ \/ \E k \in PolConfs :
          /\ polConf[k] = PolNone
          /\ polConf' = [polConf EXCEPT ![k] = [PolQuestion(u, c, p) EXCEPT !.k = k]]
          /\ UNCHANGED polReq
     \/ /\ polReq' = [polReq EXCEPT ![w] = [op |-> "ask", q |-> PolQuestion(u, c, p)]]
        /\ UNCHANGED polConf
  /\ UNCHANGED <<polName, polRow, polTask, polShown, polGrant, polOdd>>

(* A click on the button: the entry is looked up and the clicking user     *)
(* compared before it is taken, under another lock.                        *)
PolClick(w, u, k) ==
  /\ polReq[w].op = "idle" /\ PolShows(k) /\ u = polConf[k].u
  /\ polReq' = [polReq EXCEPT ![w] = [op |-> "apply", k |-> k]]
  /\ UNCHANGED <<polName, polRow, polConf, polTask, polShown, polGrant, polOdd, polChanges>>

(* The entry is cancelled, or its ten minutes pass.                        *)
PolDismiss(k) ==
  /\ PolShows(k) /\ polConf' = PolGone(k)
  /\ UNCHANGED <<polName, polRow, polReq, polTask, polShown, polGrant, polOdd, polChanges>>

(* Take, then Delegate again with the token: every test is repeated on the *)
(* state of now, and what it would do must be what the token was made for. *)
PolTake(w) ==
  LET k == polReq[w].k IN
  /\ polReq[w].op = "apply"
  /\ polConf' = PolGone(k)
  /\ polReq' = [polReq EXCEPT ![w] =
       IF PolShows(k) /\ PolMayAsk(polConf[k].c)
       THEN [op |-> "ask", q |-> polConf[k]] ELSE PolIdle]
  /\ UNCHANGED <<polName, polRow, polTask, polShown, polGrant, polOdd, polChanges>>

(* SendTask: the row is created and the message published, in the name of  *)
(* the channel's runtime.                                                  *)
PolEnvelope(q) ==
  [c |-> q.c, by |-> q.u, from |-> PolCurrent(q.c), to |-> q.to, mode |-> q.mode, st |-> "sent"]

PolSend(w) ==
  LET q == polReq[w].q IN
  /\ polReq[w].op = "ask"
  /\ \E t \in PolTasks :
       /\ polTask[t] = PolNone
       /\ polTask' = [polTask EXCEPT ![t] = PolEnvelope(q)]
       /\ polShown' = IF q.k = PolNone THEN polShown ELSE [polShown EXCEPT ![q.k] = @ \cup {t}]
  /\ polReq' = [polReq EXCEPT ![w] = PolIdle]
  /\ UNCHANGED <<polName, polRow, polConf, polGrant, polOdd, polChanges>>

(* What the executor asks of a request: a channel that is enabled under    *)
(* the name it was sent to, a sender its row accepts, the row's delivery.  *)
PolPolicyFor(to) == {c \in PolChannels : polRow[c] # PolNone /\ polRow[c].on /\ polRow[c].rid = to}
PolAccepts(c, from) == from \in polRow[c].accept
PolDelivers(c, mode) == mode = polRow[c].mode
PolAdmits(from, to, mode) == \E c \in PolPolicyFor(to) : PolAccepts(c, from) /\ PolDelivers(c, mode)

PolArrive(t) ==
  /\ polTask[t] # PolNone /\ polTask[t].st = "sent"
  /\ polTask' = [polTask EXCEPT ![t].st =
       IF polTask[t].to \in PolForeign \/ PolAdmits(polTask[t].from, polTask[t].to, polTask[t].mode)
       THEN "running" ELSE "ended"]
  /\ UNCHANGED <<polName, polRow, polReq, polConf, polShown, polGrant, polOdd, polChanges>>

PolFinish(t) ==
  /\ polTask[t] # PolNone /\ polTask[t].st = "running"
  /\ polTask' = [polTask EXCEPT ![t].st = "ended"]
  /\ UNCHANGED <<polName, polRow, polReq, polConf, polShown, polGrant, polOdd, polChanges>>

(* A cancel from the channel that asked, by who asked or by a manager; a   *)
(* task that has ended refuses it. (The control's way is in A2ATask.)      *)
PolVisible(t, c, u, manager) ==
  polTask[t] # PolNone /\ polTask[t].c = c /\ (manager \/ polTask[t].by = u)

PolControl(t, c, u, manager) ==
  /\ PolVisible(t, c, u, manager) /\ polTask[t].st # "ended"
  /\ polTask' = [polTask EXCEPT ![t].st = "ended"]
  /\ UNCHANGED <<polName, polRow, polReq, polConf, polShown, polGrant, polOdd, polChanges>>

PolNext ==
  \/ \E c \in PolChannels, n \in PolNames : PolRename(c, n)
  \/ \E w \in PolWriters, c \in PolChannels :
       \/ PolSync(w, c)
       \/ \E p \in PolAgents : PolTrustPeer(w, c, p) \/ PolRevokePeer(w, c, p)
       \/ \E u \in PolUsers, p \in PolAgents : PolDelegate(w, u, c, p)
  \/ \E w \in PolWriters : PolSave(w) \/ PolTake(w) \/ PolSend(w)
  \/ \E w \in PolWriters, u \in PolUsers, k \in PolConfs : PolClick(w, u, k)
  \/ \E k \in PolConfs : PolDismiss(k)
  \/ \E t \in PolTasks : PolArrive(t) \/ PolFinish(t)
  \/ \E t \in PolTasks, c \in PolChannels, u \in PolUsers, m \in BOOLEAN : PolControl(t, c, u, m)

PolSpec == PolInit /\ [][PolNext]_polVars

-----------------------------------------------------------------------------
(* A decision holds across renames: as long as changes do not overlap and  *)
(* name the peer by its present name, a channel accepts exactly the        *)
(* runtimes of the peers it allowed last (rewriteRuntimeIDReferences).     *)
PolGrantsFollow ==
  polOdd \/ \A c \in PolChannels, d \in PolChannels \cup PolForeign :
    LET p == IF d \in PolForeign THEN d ELSE PolCurrent(d)
    IN c # d => (d \in polGrant[c] <=> p \in PolRead(c).accept)

(* One confirmation sends at most one task, whoever clicks how often       *)
(* (Take is the only test that counts).                                    *)
PolConfirmedOnce == \A k \in PolConfs : Cardinality(polShown[k]) <= 1

(* The quota is tested before the task exists: requests under way may pass *)
(* it together, never by more than the others that were under way.         *)
PolQuotaSlack == \A c \in PolChannels : PolOpen(c) <= PolCap + Cardinality(PolWriters) - 1
=============================================================================
