-------------------------------- MODULE Media --------------------------------
(* The jobs of the media server. A tool call starts a job, in a goroutine  *)
(* with a deadline of its own, and answers at once or waits a while for    *)
(* it; the provider is asked, polled, and its result downloaded and saved  *)
(* under the time of day; meanwhile jobs are listed, canceled and, when    *)
(* they ended long ago, forgotten.                                         *)
EXTENDS Naturals, FiniteSets

CONSTANTS
  MedJobs,        \* the jobs that may be started
  MedMaxActive,   \* how many may be active
  MedSameTick,    \* may two results be saved within one millisecond?
  MedMaxTicks,    \* bounds the time
  MedNobody       \* no job

ASSUME MedAssumption ==
  /\ IsFiniteSet(MedJobs) /\ MedNobody \notin MedJobs
  /\ MedMaxActive \in Nat /\ MedSameTick \in BOOLEAN /\ MedMaxTicks \in Nat

VARIABLES
  medStatus,    \* of each job, as the store has it
  medContext,   \* of each job: does its context live, or is it over its deadline, or canceled?
  medRun,       \* how far its goroutine is
  medPath,      \* where the store says the result is: the time it was saved at
  medCall,      \* of each job: what the tool call that started it does, or was told
  medOld,       \* the jobs that ended longer ago than they are kept
  medFile,      \* at each time a result was saved: the job whose result the file holds
  medNow
medVars == <<medStatus, medContext, medRun, medPath, medCall, medOld, medFile, medNow>>

MedTimes == 0 .. MedMaxTicks
MedNowhere == MedMaxTicks + 1
MedActiveStatus == {"queued", "running"}
MedTerminal == {"succeeded", "failed", "canceled"}
MedStatuses == {"none", "forgotten"} \cup MedActiveStatus \cup MedTerminal

MedTypeOK ==
  /\ medStatus \in [MedJobs -> MedStatuses]
  /\ medContext \in [MedJobs -> {"live", "expired", "canceled"}]
  /\ medRun \in [MedJobs -> {"none", "new", "asking", "polling", "fetching", "saved", "error", "done"}]
  /\ medPath \in [MedJobs -> MedTimes \cup {MedNowhere}]
  /\ medCall \in [MedJobs -> {"none", "waiting", "told", "refused"} \cup MedTerminal]
  /\ medOld \subseteq MedJobs /\ medNow \in MedTimes
  /\ medFile \in [MedTimes -> MedJobs \cup {MedNobody}]

MedInit ==
  /\ medStatus = [j \in MedJobs |-> "none"] /\ medContext = [j \in MedJobs |-> "live"]
  /\ medRun = [j \in MedJobs |-> "none"] /\ medPath = [j \in MedJobs |-> MedNowhere]
  /\ medCall = [j \in MedJobs |-> "none"] /\ medOld = {}
  /\ medFile = [t \in MedTimes |-> MedNobody] /\ medNow = 0

-----------------------------------------------------------------------------
(* Ended jobs that are kept no longer are forgotten when one is started    *)
(* and when the jobs are listed.                                           *)
MedForget(status) == [j \in MedJobs |-> IF j \in medOld THEN "forgotten" ELSE status[j]]
MedActive == {j \in MedJobs : medStatus[j] \in MedActiveStatus}
MedAdmits == MedMaxActive = 0 \/ Cardinality(MedActive) < MedMaxActive

MedAdmit(j, call) ==
  /\ medCall[j] = "none"
  /\ IF MedAdmits
     THEN /\ medStatus' = [MedForget(medStatus) EXCEPT ![j] = "queued"]
          /\ medRun' = [medRun EXCEPT ![j] = "new"] /\ medCall' = [medCall EXCEPT ![j] = call]
     ELSE /\ medStatus' = MedForget(medStatus) /\ medCall' = [medCall EXCEPT ![j] = "refused"]
          /\ UNCHANGED medRun
  /\ UNCHANGED <<medContext, medPath, medOld, medFile, medNow>>

(* The start_... tools answer with the name of the job at once; the others *)
(* wait a while for the job to end.                                        *)
MedStartAsync(j) == MedAdmit(j, "told")
MedStartAdaptive(j) == MedAdmit(j, "waiting")

MedList ==
  /\ medStatus' = MedForget(medStatus) /\ medStatus' # medStatus
  /\ UNCHANGED <<medContext, medRun, medPath, medCall, medOld, medFile, medNow>>

(* The call looks every 50 ms until the job ended or its time is over; in  *)
(* the second case its answer is the job as it is then.                    *)
MedAnswer(j) == IF medStatus[j] \in MedTerminal THEN medStatus[j] ELSE "told"
MedWaits(j) ==
  /\ medCall[j] = "waiting" /\ medCall' = [medCall EXCEPT ![j] = MedAnswer(j)]
  /\ UNCHANGED <<medStatus, medContext, medRun, medPath, medOld, medFile, medNow>>
(* Afterwards the agent asks with the job's name.                          *)
MedGet(j) ==
  /\ medCall[j] = "told" /\ medStatus[j] \in MedTerminal
  /\ medCall' = [medCall EXCEPT ![j] = MedAnswer(j)]
  /\ UNCHANGED <<medStatus, medContext, medRun, medPath, medOld, medFile, medNow>>

(* A cancellation answers with the job as it leaves it; what has ended     *)
(* stays as it is.                                                         *)
MedCancel(j) ==
  /\ medStatus[j] \notin {"none", "forgotten"} /\ medCall[j] = "told"
  /\ LET status == IF medStatus[j] \in MedActiveStatus THEN "canceled" ELSE medStatus[j] IN
       /\ medStatus' = [medStatus EXCEPT ![j] = status]
       /\ medCall' = [medCall EXCEPT ![j] = status]
  /\ medContext' = [medContext EXCEPT ![j] = IF medStatus[j] \in MedActiveStatus /\ @ = "live" THEN "canceled" ELSE @]
  /\ UNCHANGED <<medRun, medPath, medOld, medFile, medNow>>

-----------------------------------------------------------------------------
(* The goroutine of a job.                                                 *)
MedMove(j, from, to) ==
  /\ medRun[j] = from /\ medRun' = [medRun EXCEPT ![j] = to]
MedRunning(j) ==
  /\ MedMove(j, "new", "asking")
  /\ medStatus' = [medStatus EXCEPT ![j] = IF @ = "queued" THEN "running" ELSE @]
  /\ UNCHANGED <<medContext, medPath, medCall, medOld, medFile, medNow>>

(* The provider is asked for the bytes, or for a video, which is polled    *)
(* for and then downloaded; each request may fail, and does when the       *)
(* context is over.                                                        *)
MedLives(j) == medContext[j] = "live"
MedProvider == UNCHANGED <<medStatus, medContext, medPath, medCall, medOld, medFile, medNow>>
MedGenerates(j) == MedLives(j) /\ MedMove(j, "asking", "fetching") /\ MedProvider
MedSubmits(j) == MedLives(j) /\ MedMove(j, "asking", "polling") /\ MedProvider
MedPolled(j) == MedLives(j) /\ MedMove(j, "polling", "fetching") /\ MedProvider
MedFails(j) == (\E from \in {"asking", "polling", "fetching"} : MedMove(j, from, "error")) /\ MedProvider

(* The bytes are written under the time of day, to the millisecond,        *)
(* whatever file may have that name.                                       *)
MedSave(j) ==
  /\ MedMove(j, "fetching", "saved")
  /\ MedSameTick \/ medFile[medNow] = MedNobody
  /\ medFile' = [medFile EXCEPT ![medNow] = j] /\ medPath' = [medPath EXCEPT ![j] = medNow]
  /\ UNCHANGED <<medStatus, medContext, medCall, medOld, medNow>>

(* Mutant of MedEnds: the result counts, whatever the job's status.        *)
MedEndsAnyway(j) == IF medRun[j] = "saved" THEN "succeeded" ELSE "failed"

(* Another: a job that failed gets the name of what ended its context.     *)
MedEndsAsContext(j) == IF medRun[j] = "saved" THEN "succeeded" ELSE medContext[j]

(* The result reaches the store; a job canceled meanwhile stays canceled.  *)
MedEnds(j) ==
  IF medStatus[j] \in {"canceled", "forgotten"} THEN medStatus[j]
  ELSE IF medRun[j] = "saved" THEN "succeeded"
  ELSE IF medContext[j] = "canceled" THEN "canceled" ELSE "failed"
MedComplete(j) ==
  /\ \E from \in {"saved", "error"} : MedMove(j, from, "done")
  /\ medStatus' = [medStatus EXCEPT ![j] = MedEnds(j)]
  /\ UNCHANGED <<medContext, medPath, medCall, medOld, medFile, medNow>>

MedDeadline(j) ==
  /\ medRun[j] \notin {"none", "done"} /\ MedLives(j) /\ medContext' = [medContext EXCEPT ![j] = "expired"]
  /\ UNCHANGED <<medStatus, medRun, medPath, medCall, medOld, medFile, medNow>>

MedAges(j) ==
  /\ medStatus[j] \in MedTerminal /\ medRun[j] = "done" /\ j \notin medOld /\ medOld' = medOld \cup {j}
  /\ UNCHANGED <<medStatus, medContext, medRun, medPath, medCall, medFile, medNow>>
MedTick ==
  /\ medNow < MedMaxTicks /\ medNow' = medNow + 1
  /\ UNCHANGED <<medStatus, medContext, medRun, medPath, medCall, medOld, medFile>>

MedNext ==
  \/ MedList \/ MedTick
  \/ \E j \in MedJobs :
       \/ MedStartAsync(j) \/ MedStartAdaptive(j) \/ MedWaits(j) \/ MedGet(j) \/ MedCancel(j)
       \/ MedRunning(j) \/ MedGenerates(j) \/ MedSubmits(j) \/ MedPolled(j) \/ MedFails(j) \/ MedSave(j) \/ MedComplete(j) \/ MedDeadline(j) \/ MedAges(j)

MedSpec == MedInit /\ [][MedNext]_medVars

-----------------------------------------------------------------------------
(* What an agent was told of a job's end stays so, whatever raced with it: *)
(* a result that arrives after the cancellation, a deadline, a second      *)
(* cancellation, and the clean-up only forgets. No more jobs are active    *)
(* than allowed, and no job that has a goroutine at work was forgotten.    *)
MedAnswers ==
  /\ \A j \in MedJobs : medCall[j] \in MedTerminal => medStatus[j] \in {medCall[j], "forgotten"}
  /\ MedMaxActive > 0 => Cardinality(MedActive) <= MedMaxActive
  /\ \A j \in MedJobs : medStatus[j] = "forgotten" => medRun[j] = "done"

(* The file of a job that succeeded holds what was made for that job.      *)
MedOwnFile ==
  \A j \in MedJobs : medStatus[j] = "succeeded" => medFile[medPath[j]] = j
=============================================================================
