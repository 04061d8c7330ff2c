------------------------------- MODULE BotPeers -------------------------------
(* Several bots of this program in one channel and one thread of it. Each  *)
(* decides on its own which messages of people it takes: it knows the      *)
(* others from a discovery when it connects, asks Discord (through a cache *)
(* of half a minute) who may answer here, and keeps its own listen modes.  *)
EXTENDS Naturals, FiniteSets

CONSTANTS
  Bots,          \* the bots
  BotsMaxEvents  \* changes of access, modes and connections

ASSUME BotsAssumption == IsFiniteSet(Bots) /\ BotsMaxEvents \in Nat

VARIABLES
  botsAccess,               \* Discord: who may answer in the channel
  botsKnown, botsCache,     \* of each bot: the bots it knows; permissions it remembers
  botsMode, botsThreadMode, \* of each bot: /pause or /back by target; does it open threads?
  botsListen,               \* of each bot: what it noted when the thread was created
  botsThread,               \* the thread: the bots that are told of it; {}: there is none
  botsMsg, botsSent,        \* the message, the bots that it is delivered to
  botsPending,              \* those that still have to handle it
  botsTook,                 \* the bots that took it
  botsOdd, botsOddThread,   \* ghosts: told to listen or mistaken, now and at the creation
  botsEvents                \* bounds the changes
botsModes == <<botsMode, botsThreadMode>>
botsMessage == <<botsMsg, botsSent, botsPending, botsTook, botsOdd>>
botsVars == <<botsAccess, botsKnown, botsCache, botsModes, botsListen, botsThread, botsMessage, botsOddThread, botsEvents>>

BotsTargets == {"channel", "thread"}
BotsOthers(b) == Bots \ {b}
BotsView == [Bots -> {"unknown", "yes", "no"}]
(* A message names bots, and begins with the names of some of them.        *)
BotsMessages == {m \in [at : BotsTargets, named : SUBSET Bots, lead : SUBSET Bots] : m.lead \subseteq m.named}

BotsTypeOK ==
  /\ botsAccess \subseteq Bots /\ botsKnown \in [Bots -> SUBSET Bots] /\ botsCache \in [Bots -> BotsView]
  /\ botsMode \in [Bots -> [BotsTargets -> {"default", "paused", "full"}]] /\ botsThreadMode \in [Bots -> BOOLEAN]
  /\ botsListen \in [Bots -> {"none", "mention", "full"}] /\ botsThread \subseteq Bots
  /\ botsMsg \in BotsMessages /\ botsSent \subseteq Bots /\ botsPending \subseteq Bots /\ botsTook \subseteq Bots /\ botsOdd \subseteq Bots
  /\ botsOddThread \subseteq Bots /\ botsEvents \in 0 .. BotsMaxEvents

BotsInit ==
  /\ botsAccess \in SUBSET Bots /\ botsKnown = [b \in Bots |-> BotsOthers(b)]
  /\ botsCache = [b \in Bots |-> [p \in Bots |-> "unknown"]]
  /\ botsMode = [b \in Bots |-> [t \in BotsTargets |-> "default"]] /\ botsThreadMode = [b \in Bots |-> TRUE]
  /\ botsListen = [b \in Bots |-> "none"] /\ botsThread = {}
  /\ botsMsg = [at |-> "channel", named |-> {}, lead |-> {}]
  /\ botsSent = {} /\ botsPending = {} /\ botsTook = {} /\ botsOdd = {} /\ botsOddThread = {} /\ botsEvents = 0

BotsChange == botsEvents < BotsMaxEvents /\ botsEvents' = botsEvents + 1

-----------------------------------------------------------------------------
(* May p answer here, in b's eyes? A remembered answer counts while it is  *)
(* kept; looking writes it down.                                           *)
BotsFresh(p) == IF p \in botsAccess THEN "yes" ELSE "no"
BotsCanRespond(b, p) == IF botsCache[b][p] = "unknown" THEN BotsFresh(p) ELSE botsCache[b][p]
BotsLooked(b) == [botsCache EXCEPT ![b] = [p \in Bots |-> IF p \in botsKnown[b] THEN BotsCanRespond(b, p) ELSE @[p]]]
BotsMulti(b) == \E p \in botsKnown[b] : BotsCanRespond(b, p) = "yes"
BotsExcuse(b, t, told) ==
  \/ botsMode[b][t] = "full" \/ botsMode[b]["channel"] = "full"
  \/ \E p \in BotsOthers(b) \cap (botsAccess \cup told) : p \notin botsKnown[b] \/ BotsCanRespond(b, p) = "no"
BotsNote(odd, b, t, told) == IF BotsExcuse(b, t, told) THEN odd \cup {b} ELSE odd

(* Must a message that names nobody be left alone? A mode that was set for *)
(* the target decides, then what was noted at the thread's creation, then  *)
(* the parent's modes and whether others may answer here.                  *)
BotsThreadMentionOnly(b) == botsMode[b]["channel"] = "paused" \/ ~botsThreadMode[b]
BotsParentFull(b, t) == t = "thread" /\ botsMode[b]["channel"] = "full"

BotsRequiresMention(b, t) ==
  \/ botsMode[b][t] = "paused"
  \/ /\ botsMode[b][t] = "default"
     /\ \/ t = "thread" /\ botsListen[b] = "mention"
        \/ /\ t = "channel" \/ botsListen[b] = "none"
           /\ \/ t = "thread" /\ BotsThreadMentionOnly(b)
              \/ t = "channel" /\ ~botsThreadMode[b]
              \/ BotsMulti(b) /\ ~BotsParentFull(b, t)

(* Is it for b? One that names b, unless it begins with others; one that   *)
(* names no other bot it can tell, if nothing requires a mention.          *)
BotsNamesOther(b, m) == m.named \ {b} # {}
BotsLeading(b, m) == IF m.lead \subseteq botsKnown[b] \cup {b} THEN m.lead ELSE m.lead \cap {b}
BotsAddressed(b, m) == b \in m.named /\ (BotsLeading(b, m) = {} \/ b \in BotsLeading(b, m))
BotsTakes(b, m) ==
  \/ BotsAddressed(b, m)
  \/ /\ b \notin m.named /\ ~BotsNamesOther(b, m)
     /\ ~BotsRequiresMention(b, m.at)

-----------------------------------------------------------------------------
BotsPost(m) ==
  /\ botsPending = {} /\ (m.at = "channel" \/ botsThread # {})
  /\ botsMsg' = m /\ botsSent' = botsAccess /\ botsPending' = botsAccess /\ botsTook' = {} /\ botsOdd' = {}
  /\ UNCHANGED <<botsAccess, botsKnown, botsCache, botsModes, botsListen, botsThread, botsOddThread, botsEvents>>

BotsHandle(b) ==
  /\ b \in botsPending /\ botsPending' = botsPending \ {b}
  /\ botsTook' = IF BotsTakes(b, botsMsg) THEN botsTook \cup {b} ELSE botsTook
  /\ botsOdd' = BotsNote(botsOdd, b, botsMsg.at, botsSent)
  /\ botsCache' = BotsLooked(b)
  /\ UNCHANGED <<botsAccess, botsKnown, botsModes, botsListen, botsThread, botsMsg, botsSent, botsOddThread, botsEvents>>

(* A thread is created: every bot that is told notes how it listens there, *)
(* once; duplicates of the event change nothing.                           *)
BotsCreateThread ==
  /\ botsThread = {} /\ botsThread' = botsAccess
  /\ UNCHANGED <<botsAccess, botsKnown, botsCache, botsModes, botsListen, botsMessage, botsOddThread, botsEvents>>

BotsCapture(b) ==
  /\ b \in botsThread /\ botsListen[b] = "none"
  /\ botsListen' = [botsListen EXCEPT ![b] = IF BotsRequiresMention(b, "thread") THEN "mention" ELSE "full"]
  /\ botsCache' = BotsLooked(b) /\ botsOddThread' = BotsNote(botsOddThread, b, "thread", botsThread)
  /\ UNCHANGED <<botsAccess, botsKnown, botsModes, botsThread, botsMessage, botsEvents>>

-----------------------------------------------------------------------------
(* What people do to the bots, by command, and to the channel.             *)
BotsStore(b, t, mode) == botsMode' = [botsMode EXCEPT ![b][t] = mode]
BotsSetMode(b, t, mode) ==
  /\ BotsChange /\ b \in botsAccess /\ BotsStore(b, t, mode)
  /\ UNCHANGED <<botsAccess, botsKnown, botsCache, botsThreadMode, botsListen, botsThread, botsMessage, botsOddThread>>

BotsSetThreadMode(b) ==
  /\ BotsChange /\ b \in botsAccess /\ botsThreadMode' = [botsThreadMode EXCEPT ![b] = ~@]
  /\ UNCHANGED <<botsAccess, botsKnown, botsCache, botsMode, botsListen, botsThread, botsMessage, botsOddThread>>

BotsSetAccess(b) ==
  /\ BotsChange /\ botsAccess' = IF b \in botsAccess THEN botsAccess \ {b} ELSE botsAccess \cup {b}
  /\ UNCHANGED <<botsKnown, botsCache, botsModes, botsListen, botsThread, botsMessage, botsOddThread>>

BotsExpire(b, p) ==
  /\ botsCache[b][p] # "unknown" /\ botsCache' = [botsCache EXCEPT ![b][p] = "unknown"]
  /\ UNCHANGED <<botsAccess, botsKnown, botsModes, botsListen, botsThread, botsMessage, botsOddThread, botsEvents>>

(* A bot connects anew: it asks for the guild's members; if that fails it  *)
(* goes on with none, those it knew included.                              *)
BotsReady(b) ==
  /\ BotsChange /\ \E known \in {{}, BotsOthers(b)} : botsKnown' = [botsKnown EXCEPT ![b] = known]
  /\ UNCHANGED <<botsAccess, botsCache, botsModes, botsListen, botsThread, botsMessage, botsOddThread>>

(* It restarts: the modes are kept, what it remembers of permissions not.  *)
BotsRestart(b) ==
  /\ BotsChange /\ botsCache' = [botsCache EXCEPT ![b] = [p \in Bots |-> "unknown"]]
  /\ \E known \in {{}, BotsOthers(b)} : botsKnown' = [botsKnown EXCEPT ![b] = known]
  /\ botsPending' = botsPending \ {b}
  /\ UNCHANGED <<botsAccess, botsModes, botsListen, botsThread, botsMsg, botsSent, botsTook, botsOdd, botsOddThread>>

BotsNext ==
  \/ \E m \in BotsMessages : BotsPost(m)
  \/ BotsCreateThread
  \/ \E b \in Bots :
       \/ BotsHandle(b) \/ BotsCapture(b) \/ BotsSetThreadMode(b) \/ BotsSetAccess(b) \/ BotsReady(b) \/ BotsRestart(b)
       \/ \E t \in BotsTargets, mode \in {"paused", "full"} : BotsSetMode(b, t, mode)
       \/ \E p \in BotsOthers(b) : BotsExpire(b, p)

BotsSpec == BotsInit /\ [][BotsNext]_botsVars

-----------------------------------------------------------------------------
(* One message, one bot: of the bots that take a message naming nobody,    *)
(* all but one were told to listen or mistaken about another bot, now or   *)
(* when the thread was created; and one that begins with the names of      *)
(* bots is taken by no other bot that knows them.                          *)
BotsExcused == botsOdd \cup (IF botsMsg.at = "thread" THEN botsOddThread ELSE {})

BotsOneAnswers ==
  /\ botsMsg.named = {}
       => Cardinality(botsTook \ BotsExcused) <= 1
  /\ botsMsg.lead # {} /\ botsMsg.lead \subseteq botsSent => botsTook \subseteq botsMsg.lead \cup botsOdd
=============================================================================
