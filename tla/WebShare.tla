------------------------------ MODULE WebShare ------------------------------
(* A share: a link to a page from which its holder acts in one channel or  *)
(* thread in the opener's name. The bot is the host of a relay's room, the *)
(* page its guest; what they send each other is sealed and numbered, and   *)
(* an action carries an id besides. The rows of the share (status, highest *)
(* number, receipts, threads) outlive the bot; its connection, the uploads *)
(* under way and what the page was about to send do not. One opener has    *)
(* one active share for a target (a unique index); this is one of them.    *)
EXTENDS Naturals, Sequences

CONSTANTS
  WebActions,    \* ids of the actions other than an upload's
  WebThreads,    \* threads of the share's channel
  WebChunks,     \* an upload has this many chunks
  WebMaxFaults,  \* bound on failures and on frames that come twice
  WebMaxSent,    \* bound on the frames of the page
  WebNone

ASSUME WebAssumption == /\ WebChunks \in Nat \ {0} /\ WebMaxFaults \in Nat /\ WebMaxSent \in Nat
                        /\ WebNone \notin WebActions \cup (0 .. WebChunks + 1)

VARIABLES webStatus, webHigh, webClaimed, webChild,           \* the store
          webLoop, webDoing, webHook, webUp, webFile, webRef, \* the bot and its files
          webRelay, webGuest, webWire,                        \* the relay
          webSeq, webSealing, webNext, webTold,               \* the page
          webActed, webLate, webFaults
webStore == <<webHigh, webClaimed, webChild>>
webFiles == <<webHook, webUp, webFile, webRef>>
webNet == <<webRelay, webGuest, webWire>>
webPage == <<webSeq, webSealing, webNext, webTold>>
webGhosts == <<webActed, webLate>>
webVars == <<webStatus, webStore, webLoop, webDoing, webFiles, webNet, webPage, webGhosts, webFaults>>

(* An upload's frames: 0 opens it, 1 .. WebChunks carry it, the next ends. *)
WebIds == WebActions \cup (0 .. WebChunks + 1)
WebFrame == [n : 1 .. WebMaxSent, id : WebIds]
WebActive == webStatus \in {"created", "active"}
WebEnded == webStatus \in {"degraded", "revoked", "expired", "gone"}

WebTypeOK ==
  /\ webStatus \in {"none", "created", "active", "degraded", "revoked", "expired", "gone"}
  /\ webHigh \in 0 .. WebMaxSent /\ webClaimed \subseteq WebIds /\ webChild \subseteq WebThreads
  /\ webLoop \in {"none", "wait", "dialing", "on", "last", "ended"}
  /\ webDoing \in WebIds \cup {WebNone} /\ webUp \in 0 .. WebChunks \cup {WebNone}
  /\ webFile \in Seq(0 .. WebChunks) /\ webRef \in BOOLEAN
  /\ webRelay \in {"none", "live", "lost"} /\ webGuest \in BOOLEAN /\ webWire \in Seq(WebFrame)
  /\ webSealing \subseteq WebFrame /\ webNext \in 0 .. WebChunks + 2

WebInit ==
  /\ webStatus = "none" /\ webHigh = 0 /\ webClaimed = {} /\ webChild = {}
  /\ webLoop = "none" /\ webDoing = WebNone
  /\ webHook = "none" /\ webUp = WebNone /\ webFile = <<>> /\ webRef = FALSE
  /\ webRelay = "none" /\ webGuest = FALSE /\ webWire = <<>>
  /\ webSeq = 0 /\ webSealing = {} /\ webNext = 0 /\ webTold = FALSE
  /\ webActed = [id \in WebIds |-> <<>>] /\ webLate = 0 /\ webFaults = 0

WebFault == webFaults < WebMaxFaults /\ webFaults' = webFaults + 1

-----------------------------------------------------------------------------
(* /webshare start; stop or revoke by a manager, by id whatever its state; *)
(* the cleanup after days without a frame, and after days of being over.   *)
WebStart ==
  /\ webStatus = "none" /\ webStatus' = "created" /\ webLoop' = "wait"
  /\ UNCHANGED <<webStore, webDoing, webFiles, webNet, webPage, webGhosts, webFaults>>

WebRevoke ==
  /\ webStatus \notin {"none", "gone"} /\ webStatus' = "revoked"
  /\ UNCHANGED <<webStore, webLoop, webDoing, webFiles, webNet, webPage, webGhosts, webFaults>>

WebPrune ==
  /\ webDoing = WebNone
  /\ \/ WebActive /\ webStatus' = "expired" /\ UNCHANGED webStore
     \/ /\ WebEnded /\ webStatus' = "gone"
        /\ webHigh' = 0 /\ webClaimed' = {} /\ webChild' = {}
  /\ UNCHANGED <<webLoop, webDoing, webFiles, webNet, webPage, webGhosts, webFaults>>

(* A message of the channel is about to be shown: the opener's right to    *)
(* manage the target is looked at each time. Its threads come and go.      *)
WebLive ==
  /\ WebActive /\ webStatus' = "degraded"
  /\ UNCHANGED <<webStore, webLoop, webDoing, webFiles, webNet, webPage, webGhosts, webFaults>>

WebLifecycle(t) ==
  /\ WebActive /\ webChild' \in {webChild \cup {t}, webChild \ {t}}
  /\ UNCHANGED <<webStatus, webHigh, webClaimed, webLoop, webDoing, webFiles, webNet, webPage,
                 webGhosts, webFaults>>

-----------------------------------------------------------------------------
(* Mutant of WebMarkConnected: whatever the row says by then.              *)
WebMarkAnyway == "active"

(* The host's loop: the share is read, the relay dialed, and the row       *)
(* marked, unless the share ended meanwhile. The loop gives up for good    *)
(* when the share cannot be read; its entry stays.                         *)
WebMarkConnected == IF WebActive THEN "active" ELSE webStatus

WebDial ==
  /\ webLoop = "wait"
  /\ \/ webLoop' = (IF WebActive THEN "dialing" ELSE "ended") /\ UNCHANGED webFaults
     \/ WebFault /\ webLoop' = "ended"
  /\ UNCHANGED <<webStatus, webStore, webDoing, webFiles, webNet, webPage, webGhosts>>

(* A room has one host: until the relay has noticed that the last one is   *)
(* gone it closes the new one at once.                                     *)
WebRegisters == webRelay = "none"

WebConnected ==
  /\ webLoop = "dialing" /\ webStatus' = WebMarkConnected
  /\ IF WebRegisters THEN webLoop' = "on" /\ webRelay' = "live"
                     ELSE webLoop' = "wait" /\ UNCHANGED webRelay
  /\ UNCHANGED <<webStore, webDoing, webFiles, webGuest, webWire, webPage, webGhosts, webFaults>>

(* The host is gone: the room and its guests go with it.                   *)
WebRoomCloses == webRelay' = "none" /\ webGuest' = FALSE /\ webWire' = <<>>

WebHostLost ==
  /\ webLoop = "on" /\ webDoing = WebNone /\ WebFault /\ webLoop' = "wait"
  /\ \/ WebRoomCloses
     \/ webRelay' = "lost" /\ UNCHANGED <<webGuest, webWire>>
  /\ UNCHANGED <<webStatus, webStore, webDoing, webFiles, webPage, webGhosts>>

WebRelayNotices ==
  /\ webRelay = "lost" /\ WebRoomCloses
  /\ UNCHANGED <<webStatus, webStore, webLoop, webDoing, webFiles, webPage, webGhosts, webFaults>>

(* A tenth of a second after a stop, a revoke or a lost permission the     *)
(* loop is canceled, which ends a read only with the next frame.           *)
WebStopHost ==
  /\ webStatus \in {"revoked", "degraded"} /\ webLoop \in {"wait", "dialing", "on", "ended"}
  /\ webLoop' = (IF webLoop = "on" THEN "last" ELSE "none")
  /\ UNCHANGED <<webStatus, webStore, webDoing, webFiles, webNet, webPage, webGhosts, webFaults>>

WebLast ==
  /\ webLoop = "last" /\ webDoing = WebNone /\ webLoop' = "none" /\ WebRoomCloses
  /\ UNCHANGED <<webStatus, webStore, webDoing, webFiles, webPage, webGhosts, webFaults>>

(* The bot restarts and hosts the shares that are active.                  *)
WebRestart ==
  /\ webLoop # "none" /\ WebFault /\ webLoop' = (IF WebActive THEN "wait" ELSE "none")
  /\ webDoing' = WebNone /\ webUp' = WebNone /\ webHook' = "none"
  /\ webRelay' = (IF webRelay = "live" THEN "lost" ELSE webRelay)
  /\ UNCHANGED <<webStatus, webStore, webFile, webRef, webGuest, webWire, webPage, webGhosts>>

-----------------------------------------------------------------------------
(* The page: it joins the room and joins again; a message takes its number *)
(* first and is sealed after, so that two of them may leave in the other   *)
(* order, or never when the page is not connected.                         *)
WebJoin ==
  /\ ~webGuest /\ webRelay # "none" /\ webGuest' = TRUE
  /\ UNCHANGED <<webStatus, webStore, webLoop, webDoing, webFiles, webRelay, webWire, webPage,
                 webGhosts, webFaults>>

WebNumber(id) ==
  /\ webSeq < WebMaxSent /\ webSeq' = webSeq + 1
  /\ webSealing' = webSealing \cup {[n |-> webSeq + 1, id |-> id]}
  /\ UNCHANGED <<webStatus, webStore, webLoop, webDoing, webFiles, webNet, webGhosts, webFaults>>

WebSubmit(a) == webStatus # "none" /\ WebNumber(a) /\ UNCHANGED <<webNext, webTold>>

WebUploading ==
  /\ webStatus # "none" /\ webNext <= WebChunks + 1 /\ (webNext = 0 \/ webTold)
  /\ \A f \in webSealing : f.id # webNext - 1
  /\ WebNumber(webNext) /\ webNext' = webNext + 1 /\ UNCHANGED webTold

WebSeal(f) ==
  /\ f \in webSealing /\ webSealing' = webSealing \ {f}
  /\ webWire' = IF webGuest /\ webRelay # "none" THEN Append(webWire, f) ELSE webWire
  /\ UNCHANGED <<webStatus, webStore, webLoop, webDoing, webFiles, webRelay, webGuest, webSeq,
                 webNext, webTold, webGhosts, webFaults>>

-----------------------------------------------------------------------------
(* A frame: one whose number is not higher than the highest is a replay.   *)
(* Its action is looked at with the share as it is now: the opener may     *)
(* have lost the right to manage the target, and the action must be        *)
(* allowed by the link, its capabilities and its target.                   *)
WebAcceptsSequence(n) == n > webHigh
WebTargets == {WebNone} \cup webChild

WebReceive ==
  LET f == Head(webWire) IN
  /\ webLoop = "on" /\ webRelay = "live" /\ webDoing = WebNone /\ webWire # <<>>
  /\ \/ webWire' = Tail(webWire) /\ UNCHANGED webFaults
     \/ WebFault /\ UNCHANGED webWire                       \* and comes again
  /\ IF WebAcceptsSequence(f.n)
     THEN /\ webHigh' = f.n
          /\ \/ WebActive /\ webDoing' = f.id /\ UNCHANGED webStatus
             \/ WebActive /\ webStatus' = "degraded" /\ UNCHANGED webDoing
             \/ UNCHANGED <<webStatus, webDoing>>           \* rejected
     ELSE UNCHANGED <<webHigh, webStatus, webDoing>>
  /\ UNCHANGED <<webClaimed, webChild, webLoop, webFiles, webRelay, webGuest, webPage, webGhosts>>

(* Mutant of WebClaims: an action that was done is done again.             *)
WebClaimsAgain(id) == TRUE

(* Then its id is claimed, and its effects follow, in their order.         *)
WebClaims(id) == id \notin webClaimed
WebDone(id, effects) ==
  /\ webDoing = id /\ webDoing' = WebNone /\ WebClaims(id) /\ webClaimed' = webClaimed \cup {id}
  /\ webActed' = [webActed EXCEPT ![id] = @ \o effects]
  /\ webLate' = webLate + (IF WebEnded THEN 1 ELSE 0)
WebRejected ==
  /\ webDoing # WebNone /\ webDoing' = WebNone /\ webClaimed' \in {webClaimed, webClaimed \cup {webDoing}}
  /\ UNCHANGED <<webStatus, webHigh, webChild, webLoop, webFiles, webNet, webPage, webGhosts, webFaults>>

(* The channel's webhook is looked for or created once and remembered;     *)
(* nothing notices that it was deleted.                                    *)
WebWebhook == webHook # "deleted" /\ webHook' = "known"
WebHookDeleted ==
  /\ webHook = "known" /\ WebFault /\ webHook' = "deleted"
  /\ UNCHANGED <<webStatus, webStore, webLoop, webDoing, webUp, webFile, webRef, webNet, webPage, webGhosts>>

(* A message goes to the channel with the files it refers to. A prompt     *)
(* does so first, and then to the queue of the channel or thread, which    *)
(* may be full; a command and an interrupt only go to the manager.         *)
WebAttached == IF webRef THEN {<<>>, <<"file">>} ELSE {<<>>}

WebPost(a) ==
  /\ WebWebhook /\ \E file \in WebAttached : WebDone(a, <<"post">> \o file)
  /\ UNCHANGED <<webStatus, webHigh, webChild, webLoop, webUp, webFile, webRef, webNet, webPage, webFaults>>

WebPrompt(a) ==
  /\ WebWebhook /\ \E file \in WebAttached, queued \in {<<>>, <<"job">>} :
                      WebDone(a, <<"post">> \o file \o queued)
  /\ UNCHANGED <<webStatus, webHigh, webChild, webLoop, webUp, webFile, webRef, webNet, webPage, webFaults>>

WebCommand(a) ==
  /\ WebDone(a, <<"command">>)
  /\ UNCHANGED <<webStatus, webHigh, webChild, webLoop, webFiles, webNet, webPage, webFaults>>

WebCreateThread(a, t) ==
  /\ WebDone(a, <<"thread">>) /\ webChild' = webChild \cup {t}
  /\ UNCHANGED <<webStatus, webHigh, webLoop, webFiles, webNet, webPage, webFaults>>

WebStop(a) ==
  /\ WebDone(a, <<"stop">>) /\ webStatus # "gone" /\ webStatus' = "revoked"
  /\ UNCHANGED <<webHigh, webChild, webLoop, webFiles, webNet, webPage, webFaults>>

(* An upload: a new session and an empty file; the chunks in their order,  *)
(* each appended to the file and then counted; at the end the count must   *)
(* be the promised one, and only then can the file be referred to.         *)
WebUploadInit ==
  /\ WebDone(0, <<"file">>) /\ webUp' = 0 /\ webFile' = <<>> /\ webTold' \in {TRUE, webTold}
  /\ UNCHANGED <<webStatus, webHigh, webChild, webLoop, webHook, webRef, webNet, webSeq, webSealing,
                 webNext, webFaults>>

WebInOrder(i) == webUp # WebNone /\ i = webUp + 1

WebUploadChunk(i) ==
  /\ WebDone(i, <<>>) /\ WebInOrder(i)
  /\ \/ webFile' = Append(webFile, i) /\ webUp' = i /\ UNCHANGED webFaults
     \/ /\ WebFault /\ UNCHANGED webUp                \* part of it, or its close failed
        /\ webFile' \in {Append(webFile, 0), Append(webFile, i)}
  /\ UNCHANGED <<webStatus, webHigh, webChild, webLoop, webHook, webRef, webNet, webPage>>

WebComplete == webUp = WebChunks

WebUploadFinish ==
  /\ WebDone(WebChunks + 1, <<"ref">>) /\ webUp # WebNone /\ webUp' = WebNone
  /\ IF WebComplete THEN webRef' = TRUE /\ UNCHANGED webFile
                    ELSE webFile' = <<>> /\ UNCHANGED webRef
  /\ UNCHANGED <<webStatus, webHigh, webChild, webLoop, webHook, webNet, webPage, webFaults>>

WebHandle ==
  \/ \E a \in WebActions : \/ WebPrompt(a) \/ WebPost(a) \/ WebCommand(a) \/ WebStop(a)
                           \/ \E t \in WebThreads : WebCreateThread(a, t)
  \/ \E i \in 1 .. WebChunks : WebUploadChunk(i)
  \/ WebUploadInit \/ WebUploadFinish \/ WebRejected

WebNext ==
  \/ \E t \in WebThreads : WebLifecycle(t)
  \/ WebStart \/ WebRevoke \/ WebPrune \/ WebLive
  \/ WebDial \/ WebConnected \/ WebHostLost \/ WebRelayNotices \/ WebStopHost \/ WebLast \/ WebRestart \/ WebHookDeleted
  \/ WebJoin \/ WebUploading
  \/ \E a \in WebActions : WebSubmit(a)
  \/ \E f \in webSealing : WebSeal(f)
  \/ WebReceive \/ WebHandle

WebSpec == WebInit /\ [][WebNext]_webVars

-----------------------------------------------------------------------------
(* An action is done at most once, whatever comes twice and whoever        *)
(* restarts; a job always has its record in the channel before it; and at  *)
(* most one action, which was under way, is done after the share ended.    *)
WebActsOnce ==
  /\ webLate <= 1
  /\ \A id \in WebIds : LET done == webActed[id] IN
       /\ \A i, j \in DOMAIN done : done[i] = done[j] => i = j
       /\ \A i \in DOMAIN done : done[i] \in {"file", "job"} /\ id # 0 => done[1] = "post"

(* A share that ended stays so, whoever is connecting meanwhile.           *)
WebEndedFinal == [][WebEnded => WebEnded']_webVars

(* An upload that can be referred to holds all its chunks in their order   *)
(* and nothing else, whatever was lost, came twice or was half written.    *)
WebUploadWhole == webRef => webFile = [i \in 1 .. WebChunks |-> i]
=============================================================================
