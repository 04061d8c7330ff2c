------------------------------- MODULE Gateway -------------------------------
(***************************************************************************)
(* The watchdog of the Discord gateway: heartbeat/gateway.go, and          *)
(* bot/gateway_adapter.go for what it observes and how it reconnects. Time *)
(* is what StaleReason makes of it: a link that is not ready, or whose     *)
(* heartbeats are no longer acknowledged, is quiet until StaleAfter has    *)
(* passed since the last event or attempt, and then it is stale.           *)
(***************************************************************************)
EXTENDS Integers

CONSTANT GwMaxAttempts   \* MaxReconnectAttempts
ASSUME GwAttemptsAssumption == GwMaxAttempts \in Nat \ {0}

VARIABLES
  gwLink,     \* the discordgo session: "ready", "quiet" or "stale"
  gwRecovery, \* recoverDiscordGateway's goroutine: "none", "waited for" or "late"
  gwFails,    \* consecutiveFailures
  gwExited    \* os.Exit

gwVars == <<gwLink, gwRecovery, gwFails, gwExited>>
GwUp == ~gwExited

GwInit == gwLink = "ready" /\ gwRecovery = "none" /\ gwFails = 0 /\ gwExited = FALSE

(* The session by itself: it loses the gateway or its acknowledgements,    *)
(* StaleAfter passes, or discordgo resumes it.                             *)
GwSession ==
  /\ GwUp
  /\ \/ gwLink = "ready" /\ gwLink' = "quiet"
     \/ gwLink = "quiet" /\ gwLink' = "stale"
     \/ gwLink # "ready" /\ gwLink' = "ready"
  /\ UNCHANGED <<gwRecovery, gwFails, gwExited>>

(* A failure is counted, and the last one ends the process.                *)
GwFailed == gwFails' = gwFails + 1 /\ gwExited' = (gwFails' >= GwMaxAttempts)

(* Run while a recovery outlives its timeout.                              *)
GwHung ==
  /\ GwUp /\ gwRecovery = "late" /\ GwFailed
  /\ UNCHANGED <<gwLink, gwRecovery>>

(* Run of a link that is not stale.                                        *)
GwFresh ==
  /\ GwUp /\ gwRecovery = "none" /\ gwLink # "stale" /\ gwFails' = 0
  /\ UNCHANGED <<gwLink, gwRecovery, gwExited>>

(* Run of a stale link: the recovery begins, the heartbeat waits for it.   *)
(* The session is closed; the attempt is the last event there was.         *)
GwRecover ==
  /\ GwUp /\ gwRecovery = "none" /\ gwLink = "stale"
  /\ gwRecovery' = "waited for" /\ gwLink' = "quiet"
  /\ UNCHANGED <<gwFails, gwExited>>

(* Open returns in time: the session is ready, or on the way to be.        *)
GwOpened ==
  /\ GwUp /\ gwRecovery = "waited for" /\ gwRecovery' = "none"
  /\ gwFails' = 0 /\ gwLink' \in {"ready", gwLink}
  /\ UNCHANGED gwExited

(* Open fails in time, or the time is up and the goroutine stays.          *)
GwOpenFailed ==
  /\ GwUp /\ gwRecovery = "waited for" /\ gwRecovery' \in {"none", "late"}
  /\ GwFailed /\ UNCHANGED gwLink

(* The goroutine ends late; nobody reads its result.                       *)
GwLateEnd ==
  /\ GwUp /\ gwRecovery = "late" /\ gwRecovery' = "none"
  /\ gwLink' \in {"ready", gwLink}
  /\ UNCHANGED <<gwFails, gwExited>>

GwRun == GwHung \/ GwFresh \/ GwRecover \/ GwOpened \/ GwOpenFailed
GwNext == GwSession \/ GwRun \/ GwLateEnd
GwSpec == GwInit /\ [][GwNext]_gwVars

(* The heartbeat ticks, and its wait for Open has a timeout.               *)
GwFairSpec == GwSpec /\ WF_gwVars(GwRun)

-----------------------------------------------------------------------------
(* Types of the variables.                                                 *)
GwTypeOK ==
  /\ gwLink \in {"ready", "quiet", "stale"} /\ gwRecovery \in {"none", "waited for", "late"}
  /\ gwFails \in 0..GwMaxAttempts /\ gwExited \in BOOLEAN

(* A stale gateway does not stay so: it is closed and opened again, or, if *)
(* a recovery hangs, the process ends and its manager starts it anew.      *)
GwStaleAttended == (gwLink = "stale") ~> (gwLink # "stale" \/ gwExited)
=============================================================================
