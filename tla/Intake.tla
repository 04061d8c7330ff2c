-------------------------------- MODULE Intake --------------------------------
(* The messages of one channel or thread on their way to its queue. The    *)
(* gateway may deliver one twice, and each delivery is handled in a        *)
(* goroutine of its own. A message that is taken becomes a prompt with     *)
(* those messages before it which the agent's session has not been given;  *)
(* a cache remembers the given ones for one session, by the key that the   *)
(* session had when the prompt was prepared.                               *)
EXTENDS Naturals

CONSTANTS
  InMessages,    \* the messages are 1 .. InMessages
  InSessions,    \* the sessions are 1 .. InSessions; 0: there is none
  InCopies,      \* deliveries of one message
  InEarlyResets, \* may the session be replaced while the cache does not know it?
  InMaxGaps      \* bound: prompts that Discord's silence or a dropped job makes incomplete

ASSUME InAssumption == InMessages \in Nat /\ InSessions \in Nat /\ InCopies \in Nat /\ InEarlyResets \in BOOLEAN /\ InMaxGaps \in Nat

VARIABLES inPosted, inSession,       \* the channel's messages, the newest session
          inAlive,                   \* is there a session now?
          inSeen, inFresh,           \* messages handled lately; which may still come twice
          inAt, inKey, inBlock,      \* of each handler: its stage, its key, its context
          inCacheKey, inCache,       \* the context cache: its key, the messages given
          inGiven, inJobs, inWhole,  \* what each session was given; jobs of a message; no gap
          inLost,                    \* what was in jobs that a session's queue took and dropped
          inGaps                     \* prompts that were dropped or went out without the rest
inHandlers == <<inAt, inKey, inBlock>>
inVars == <<inPosted, inSession, inAlive, inSeen, inFresh, inHandlers, inCacheKey, inCache, inGiven, inJobs, inWhole, inLost, inGaps>>

InIds == 1 .. InMessages
InRuns == InIds \X (1 .. InCopies)
InStages == {"idle", "taken", "asking", "built", "blind", "queued", "done"}

InTypeOK ==
  /\ inPosted \in 0 .. InMessages /\ inSession \in 0 .. InSessions /\ inAlive \in BOOLEAN
  /\ inSeen \subseteq InIds /\ inFresh \subseteq InIds
  /\ inAt \in [InRuns -> InStages] /\ inKey \in [InRuns -> 0 .. InSessions]
  /\ inBlock \in [InRuns -> SUBSET InIds]
  /\ inCacheKey \in 0 .. InSessions /\ inCache \subseteq InIds
  /\ inGiven \in [1 .. InSessions -> SUBSET InIds] /\ inJobs \in [InIds -> 0 .. InCopies]
  /\ inWhole \in BOOLEAN /\ inLost \in [1 .. InSessions -> SUBSET InIds]
  /\ inGaps \in 0 .. InMaxGaps

InInit ==
  /\ inPosted = 0 /\ inSession = 0 /\ inAlive = FALSE /\ inSeen = {} /\ inFresh = {}
  /\ inAt = [h \in InRuns |-> "idle"] /\ inKey = [h \in InRuns |-> 0] /\ inBlock = [h \in InRuns |-> {}]
  /\ inCacheKey = 0 /\ inCache = {}
  /\ inGiven = [s \in 1 .. InSessions |-> {}] /\ inJobs = [m \in InIds |-> 0] /\ inWhole = TRUE
  /\ inLost = [s \in 1 .. InSessions |-> {}] /\ inGaps = 0

InStep(h, from, to) == inAt[h] = from /\ inAt' = [inAt EXCEPT ![h] = to]

-----------------------------------------------------------------------------
(* Discord: a message; later none of its deliveries is possible any more,  *)
(* and its id is forgotten.                                                *)
InPost ==
  /\ inPosted < InMessages /\ inPosted' = inPosted + 1 /\ inFresh' = inFresh \cup {inPosted + 1}
  /\ UNCHANGED <<inSession, inAlive, inSeen, inHandlers, inCacheKey, inCache, inGiven, inJobs, inWhole, inLost, inGaps>>

InForget(m) ==
  /\ m \in inFresh /\ inFresh' = inFresh \ {m} /\ inSeen' = inSeen \ {m}
  /\ UNCHANGED <<inPosted, inSession, inAlive, inHandlers, inCacheKey, inCache, inGiven, inJobs, inWhole, inLost, inGaps>>

(* A delivery, numbered as they come: a message seen before is dropped;    *)
(* others are ignored for what they are (another bot's, for another bot,   *)
(* while only mentions count), run as a command, or taken.                 *)
InMark(m) == m \notin inSeen

InArrived(h, to) ==
  /\ h[1] \in inFresh /\ \A c \in 1 .. h[2] - 1 : inAt[<<h[1], c>>] # "idle"
  /\ InStep(h, "idle", to)

InDrop(h) ==
  /\ InArrived(h, "done") /\ ~InMark(h[1])
  /\ UNCHANGED <<inPosted, inSession, inAlive, inSeen, inFresh, inKey, inBlock, inCacheKey, inCache, inGiven, inJobs, inWhole, inLost, inGaps>>

InCommand(h) ==
  /\ InArrived(h, "done") /\ InMark(h[1]) /\ inSeen' = inSeen \cup {h[1]}
  /\ UNCHANGED <<inPosted, inSession, inAlive, inFresh, inKey, inBlock, inCacheKey, inCache, inGiven, inJobs, inWhole, inLost, inGaps>>

InTake(h) ==
  /\ InArrived(h, "taken") /\ InMark(h[1]) /\ inSeen' = inSeen \cup {h[1]}
  /\ UNCHANGED <<inPosted, inSession, inAlive, inFresh, inKey, inBlock, inCacheKey, inCache, inGiven, inJobs, inWhole, inLost, inGaps>>

-----------------------------------------------------------------------------
(* A prompt: its files are fetched, then the session's key and the         *)
(* messages before it; each wait is a place where others go on.            *)
InContextKey == IF inAlive THEN inSession ELSE 0

InAsk(h) ==
  /\ InStep(h, "taken", "asking") /\ inKey' = [inKey EXCEPT ![h] = InContextKey]
  /\ UNCHANGED <<inPosted, inSession, inAlive, inSeen, inFresh, inBlock, inCacheKey, inCache, inGiven, inJobs, inWhole, inLost, inGaps>>

(* Mutant of InStateFor: the cache survives the session it speaks of.      *)
InStateKept(key) == inCache

(* The cache belongs to one key: asked for another it starts anew, unless  *)
(* the old one named no session, which is then taken for this one.         *)
InStateFor(key) == IF key # inCacheKey /\ inCacheKey # 0 THEN {} ELSE inCache

InBefore(m) == 1 .. m - 1

InGap == inGaps < InMaxGaps /\ inGaps' = inGaps + 1

(* Discord may not answer: the prompt then goes out without those messages *)
(* (a reply's original is fetched apart and left out here).                *)
InClassify(h) ==
  /\ inCacheKey' = inKey[h] /\ inCache' = InStateFor(inKey[h])
  /\ \/ /\ InStep(h, "asking", "built")
        /\ inBlock' = [inBlock EXCEPT ![h] = InBefore(h[1]) \ inCache'] /\ UNCHANGED inGaps
     \/ InStep(h, "asking", "blind") /\ InGap /\ UNCHANGED inBlock
  /\ UNCHANGED <<inPosted, inSession, inAlive, inSeen, inFresh, inKey, inGiven, inJobs, inWhole, inLost>>

(* The queue takes it, with a session if there was none; or refuses it,    *)
(* and then nothing has been given. A prompt is its message, with its      *)
(* files, and the block of those before it. The worker prompts in the      *)
(* queue's order, so that what becomes of a job may be chosen here: it     *)
(* gives its prompt, or it ends before (its worker or the process stopped, *)
(* a canceled or failed start, the user's limit) and its prompt is lost.   *)
InBuilt(h) == inAt[h] \in {"built", "blind"}
InPrompt(h) == inBlock[h] \cup {h[1]}
InAccepted(s) == inGiven[s] \cup inLost[s]
InGives(h, s) ==
  \/ inGiven' = [inGiven EXCEPT ![s] = @ \cup InPrompt(h)] /\ UNCHANGED <<inLost, inGaps>>
  \/ inLost' = [inLost EXCEPT ![s] = @ \cup InPrompt(h)] /\ InGap /\ UNCHANGED inGiven

InEnqueue(h) ==
  LET s == IF inAlive THEN inSession ELSE inSession + 1 IN
  /\ InBuilt(h) /\ inAt' = [inAt EXCEPT ![h] = "queued"]
  /\ s \in 1 .. InSessions /\ inSession' = s /\ inAlive' = TRUE
  /\ InGives(h, s) /\ inJobs' = [inJobs EXCEPT ![h[1]] = @ + 1]
  /\ inWhole' = (inWhole /\ (inKey[h] = s /\ inAt[h] = "built" => 1 .. h[1] \subseteq InAccepted(s)'))
  /\ UNCHANGED <<inPosted, inSeen, inFresh, inKey, inBlock, inCacheKey, inCache>>

InReturns(h) == inKey' = [inKey EXCEPT ![h] = 0] /\ inBlock' = [inBlock EXCEPT ![h] = {}]

InRefused(h) ==
  /\ InBuilt(h) /\ inAt' = [inAt EXCEPT ![h] = "done"] /\ InReturns(h)
  /\ UNCHANGED <<inPosted, inSession, inAlive, inSeen, inFresh, inCacheKey, inCache, inGiven, inJobs, inWhole, inLost, inGaps>>

InMarkDelivered(h) ==
  /\ InStep(h, "queued", "done") /\ InReturns(h) /\ inCacheKey' = inKey[h]
  /\ inCache' = InStateFor(inKey[h]) \cup InPrompt(h)
  /\ UNCHANGED <<inPosted, inSession, inAlive, inSeen, inFresh, inGiven, inJobs, inWhole, inLost, inGaps>>

(* The session is replaced (a reset, a new model or directory), or ends.   *)
InKnown == inCacheKey # 0 /\ \A h \in InRuns : inAt[h] \in {"asking", "built", "blind", "queued"} => inKey[h] # 0

InReset ==
  /\ inAlive /\ (InEarlyResets \/ InKnown)
  /\ \/ inSession < InSessions /\ inSession' = inSession + 1 /\ UNCHANGED inAlive
     \/ inAlive' = FALSE /\ UNCHANGED inSession
  /\ UNCHANGED <<inPosted, inSeen, inFresh, inHandlers, inCacheKey, inCache, inGiven, inJobs, inWhole, inLost, inGaps>>

(* The bot restarts: sessions are kept, what it remembers is not. A new    *)
(* connection delivers no message of the old one.                          *)
InRestart ==
  /\ inFresh # {} /\ inFresh' = {} /\ inSeen' = {} /\ inCacheKey' = 0 /\ inCache' = {}
  /\ inAt' = [h \in InRuns |-> IF h[1] <= inPosted THEN "done" ELSE "idle"]
  /\ inKey' = [h \in InRuns |-> 0] /\ inBlock' = [h \in InRuns |-> {}]
  /\ UNCHANGED <<inPosted, inSession, inAlive, inGiven, inJobs, inWhole, inLost, inGaps>>

InNext ==
  \/ InPost \/ InReset \/ InRestart
  \/ \E m \in InIds : InForget(m)
  \/ \E h \in InRuns : InDrop(h) \/ InCommand(h) \/ InTake(h) \/ InAsk(h) \/ InClassify(h) \/ InEnqueue(h) \/ InRefused(h) \/ InMarkDelivered(h)

InSpec == InInit /\ [][InNext]_inVars

-----------------------------------------------------------------------------
(* A message becomes one job at most, and a prompt leaves no gap but what  *)
(* a dropped job took with it: if Discord answered, its session has with   *)
(* it every message before it that was not in such a job, whichever        *)
(* handlers overlapped, whichever prompts were refused, and whatever was   *)
(* left out of an earlier prompt because Discord did not answer.           *)
InDelivers == inWhole /\ \A m \in InIds : inJobs[m] <= 1

(* What the cache says of the session there is was in prompts that its     *)
(* queue took: after a change of sessions it starts anew, and no message   *)
(* is marked that a prompt left out.                                       *)
InCacheTrue == inAlive /\ inCacheKey = inSession => inCache \subseteq InAccepted(inSession)
=============================================================================
