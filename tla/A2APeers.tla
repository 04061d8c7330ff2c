------------------------------ MODULE A2APeers -----------------------------
(* How bots find each other. Every heartbeat a bot puts a card for each of *)
(* its enabled runtimes in a shared bucket, after its transport consumes   *)
(* what is sent to that runtime; a watcher brings the cards of the others  *)
(* into the peer table, in the order of the bucket. Entries and rows that  *)
(* are not refreshed expire after three minutes. An entry that cannot be   *)
(* read ends the watcher, which starts again five seconds later with all   *)
(* present entries.                                                        *)
EXTENDS Naturals, Sequences, SequencesExt

CONSTANTS
  PeerOwn,      \* runtimes of this bot
  PeerLeaky,    \* those of PeerOwn whose card cannot be built (its name is redacted)
  PeerOther,    \* runtimes of other bots
  PeerCallers,  \* the heartbeat's pass and the responder to requests for cards
  PeerNone,
  PeerMaxBad    \* bound on the unreadable entries, departures and restarts

ASSUME PeerAssumption == /\ PeerLeaky \subseteq PeerOwn /\ PeerMaxBad \in Nat
                         /\ PeerNone \notin PeerOwn

VARIABLES peerOn, peerAccepts, peerServed, peerAdding, peerCards,
          peerUp, peerKV, peerFeed, peerWatch, peerRow, peerBad
peerOwnVars == <<peerOn, peerAccepts, peerServed, peerAdding, peerCards>>
peerOtherVars == <<peerUp, peerKV, peerFeed, peerWatch, peerRow, peerBad>>
peerVars == <<peerOwnVars, peerOtherVars>>

PeerEntry == PeerOther \X {"card", "bad"}

PeerTypeOK ==
  /\ peerOn \subseteq PeerOwn /\ peerServed \subseteq PeerOwn
  /\ peerAccepts \subseteq PeerOwn /\ peerCards \subseteq PeerOwn
  /\ peerAdding \in [PeerCallers -> PeerOwn \cup {PeerNone}]
  /\ peerUp \subseteq PeerOther /\ peerKV \in Seq(PeerEntry) /\ peerFeed \in Seq(PeerEntry)
  /\ peerWatch \in BOOLEAN /\ peerRow \in [PeerOther -> {"unknown", "online", "stale"}]

PeerInit ==
  /\ peerOn = {} /\ peerAccepts = {} /\ peerServed = {} /\ peerCards = {}
  /\ peerAdding = [x \in PeerCallers |-> PeerNone]
  /\ peerUp = PeerOther /\ peerKV = <<>> /\ peerFeed = <<>> /\ peerWatch = FALSE
  /\ peerRow = [a \in PeerOther |-> "unknown"] /\ peerBad = 0

(* A policy is enabled (A2APolicy).                                        *)
PeerEnabled(o) ==
  /\ o \notin peerOn /\ peerOn' = peerOn \cup {o}
  /\ UNCHANGED <<peerAccepts, peerServed, peerAdding, peerCards, peerOtherVars>>

(* AddAgent: the runtime counts as accepted before its consumers are       *)
(* opened, and no longer when one of them cannot be.                       *)
PeerAddAgent(x, o) ==
  /\ peerAdding[x] = PeerNone /\ o \in peerOn \ peerAccepts
  /\ peerAccepts' = peerAccepts \cup {o} /\ peerAdding' = [peerAdding EXCEPT ![x] = o]
  /\ UNCHANGED <<peerOn, peerServed, peerCards, peerOtherVars>>

PeerOpened(x) ==
  /\ peerAdding[x] # PeerNone
  /\ peerServed' = peerServed \cup {peerAdding[x]}
  /\ peerAdding' = [peerAdding EXCEPT ![x] = PeerNone]
  /\ UNCHANGED <<peerOn, peerAccepts, peerCards, peerOtherVars>>

(* Mutant of PeerNotOpened: a runtime without consumers stays accepted.    *)
PeerStaysAccepted(x) ==
  /\ peerAdding[x] # PeerNone /\ peerAdding' = [peerAdding EXCEPT ![x] = PeerNone]
  /\ UNCHANGED <<peerOn, peerAccepts, peerServed, peerCards, peerOtherVars>>

PeerNotOpened(x) ==
  /\ peerAdding[x] # PeerNone
  /\ peerAccepts' = peerAccepts \ {peerAdding[x]}
  /\ peerAdding' = [peerAdding EXCEPT ![x] = PeerNone]
  /\ UNCHANGED <<peerOn, peerServed, peerCards, peerOtherVars>>

(* A card shows nothing private: what looks like a secret, an address or a *)
(* path is redacted, and a card whose name was redacted is no card.        *)
PeerSanitized(o) == IF o \in PeerLeaky THEN PeerNone ELSE o
PeerValid(o) == PeerSanitized(o) = o
PeerBuilds(o) == PeerValid(o)

(* The cards to publish: of the enabled runtimes that the transport        *)
(* accepts; one that cannot be built fails them all.                       *)
PeerRecords == IF \E o \in peerOn : ~PeerBuilds(o) THEN {} ELSE peerOn \cap peerAccepts

(* The pass puts them one after the other, up to the first failure.        *)
PeerPublish(x) ==
  /\ peerAdding[x] = PeerNone
  /\ \E published \in SUBSET PeerRecords : peerCards' = peerCards \cup published
  /\ UNCHANGED <<peerOn, peerAccepts, peerServed, peerAdding, peerOtherVars>>

PeerPublishAll(x) == PeerPublish(x) /\ peerCards' = peerCards \cup PeerRecords

(* The bot restarts: the transport opens the consumers of what is enabled  *)
(* or does not start at all; the bucket outlives it.                       *)
PeerRestart ==
  /\ peerBad < PeerMaxBad /\ peerBad' = peerBad + 1
  /\ \E ok \in BOOLEAN : peerAccepts' = IF ok THEN peerOn ELSE {}
  /\ peerServed' = peerAccepts' /\ peerAdding' = [x \in PeerCallers |-> PeerNone]
  /\ peerWatch' = FALSE /\ peerFeed' = <<>>
  /\ UNCHANGED <<peerOn, peerCards, peerUp, peerKV, peerRow>>

-----------------------------------------------------------------------------
(* The bucket, and what the watcher has still to read of it, holds at most *)
(* one entry of an agent.                                                  *)
PeerWithout(s, a) ==
  LET old == {i \in DOMAIN s : s[i][1] = a}
  IN IF old = {} THEN s ELSE RemoveAt(s, CHOOSE i \in old : TRUE)

(* An entry takes the place of its agent's last one, at the end.           *)
PeerPut(a, kind) ==
  /\ peerKV' = Append(PeerWithout(peerKV, a), <<a, kind>>)
  /\ peerFeed' = IF peerWatch THEN Append(PeerWithout(peerFeed, a), <<a, kind>>)
                              ELSE peerFeed
  /\ UNCHANGED <<peerOwnVars, peerUp, peerWatch, peerRow>>

(* A heartbeat is much longer than what the watcher takes for an entry.    *)
PeerPresence(a) ==
  /\ a \in peerUp /\ \A i \in DOMAIN peerFeed : peerFeed[i][1] # a
  /\ PeerPut(a, "card") /\ UNCHANGED peerBad
PeerUnreadable(a) == peerBad < PeerMaxBad /\ peerBad' = peerBad + 1 /\ PeerPut(a, "bad")

PeerGone(a) ==
  /\ a \in peerUp /\ peerBad < PeerMaxBad /\ peerBad' = peerBad + 1 /\ peerUp' = peerUp \ {a}
  /\ UNCHANGED <<peerOwnVars, peerKV, peerFeed, peerWatch, peerRow>>

(* Three minutes without a refresh; nobody is told.                        *)
PeerExpires(a) ==
  /\ \E i \in DOMAIN peerKV : peerKV[i][1] = a /\ (a \notin peerUp \/ peerKV[i][2] = "bad")
  /\ peerKV' = PeerWithout(peerKV, a)
  /\ UNCHANGED <<peerOwnVars, peerUp, peerFeed, peerWatch, peerRow, peerBad>>

PeerWatchStarts ==
  /\ ~peerWatch /\ peerWatch' = TRUE /\ peerFeed' = peerKV
  /\ UNCHANGED <<peerOwnVars, peerUp, peerKV, peerRow, peerBad>>

PeerReadable(e) == e[2] = "card"
PeerUpsert(a) == [peerRow EXCEPT ![a] = "online"]

PeerWatch ==
  /\ peerWatch /\ peerFeed # <<>>
  /\ IF PeerReadable(Head(peerFeed))
     THEN /\ peerRow' = PeerUpsert(Head(peerFeed)[1])
          /\ peerFeed' = Tail(peerFeed) /\ UNCHANGED peerWatch
     ELSE peerWatch' = FALSE /\ peerFeed' = <<>> /\ UNCHANGED peerRow
  /\ UNCHANGED <<peerOwnVars, peerUp, peerKV, peerBad>>

(* What a list of peers calls a row three minutes after its card.          *)
PeerStale(a) ==
  /\ peerRow[a] = "online" /\ (a \notin peerUp \/ ~peerWatch)
  /\ peerRow' = [peerRow EXCEPT ![a] = "stale"]
  /\ UNCHANGED <<peerOwnVars, peerUp, peerKV, peerFeed, peerWatch, peerBad>>

PeerPass(x, o) == PeerAddAgent(x, o) \/ PeerPublish(x) \/ PeerOpened(x) \/ PeerNotOpened(x)
PeerBucket(a) == PeerPresence(a) \/ PeerUnreadable(a) \/ PeerGone(a) \/ PeerExpires(a) \/ PeerStale(a)
PeerNext ==
  \/ \E o \in PeerOwn : PeerEnabled(o) \/ \E x \in PeerCallers : PeerPass(x, o)
  \/ \E a \in PeerOther : PeerBucket(a)
  \/ PeerRestart \/ PeerWatchStarts \/ PeerWatch

(* The heartbeat's pass comes again and again and a consumer can be opened *)
(* in the end; time passes; the watcher's loop goes on.                    *)
PeerSpec ==
  /\ PeerInit /\ [][PeerNext]_peerVars
  /\ \A x \in PeerCallers : WF_peerVars(PeerPublishAll(x)) /\ SF_peerVars(PeerOpened(x))
  /\ \A x \in PeerCallers, o \in PeerOwn : WF_peerVars(PeerAddAgent(x, o))
  /\ \A a \in PeerOther :
       WF_peerVars(PeerPresence(a)) /\ WF_peerVars(PeerExpires(a)) /\ WF_peerVars(PeerStale(a))
  /\ WF_peerVars(PeerWatchStarts) /\ WF_peerVars(PeerWatch)

-----------------------------------------------------------------------------
(* An enabled runtime is found in the end: its card is in the bucket and   *)
(* something consumes what is sent to it, whichever of two passes opened   *)
(* the consumers and whatever failed before, unless a card of this bot     *)
(* cannot be built, which keeps back all of them.                          *)
PeerFound == \A o \in PeerOwn :
  (o \in peerOn) ~> ((o \in peerCards /\ o \in peerServed) \/ \E q \in peerOn : ~PeerBuilds(q))

(* The table follows the others: who stays is online again and again, past *)
(* every unreadable entry, and who has gone is not online for good.        *)
PeerTableFollows == \A a \in PeerOther :
  /\ <>[](a \in peerUp) => []<>(peerRow[a] = "online")
  /\ <>[](a \notin peerUp) => <>[](peerRow[a] # "online")
=============================================================================
