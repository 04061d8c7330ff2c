-------------------------------- MODULE Usage --------------------------------
(* The usage ledger: what the turns of one user cost, in a database, and   *)
(* the ceilings per day and per month that it is asked about before a job  *)
(* is accepted and again before it runs. When the bot starts, the ledger   *)
(* of an older version, a file of lines, is imported and put in an         *)
(* archive; the bot may stop between any two steps of that.                *)
EXTENDS Naturals, FiniteSets

CONSTANTS
  UsWorkers,      \* the workers that may run a job of the user
  UsDays,         \* the days of a month, 1 .. UsDays
  UsDaily,        \* the ceilings
  UsMonthly,
  UsMaxCost,      \* what a turn may cost
  UsQueue,        \* bounds the jobs that wait in a worker
  UsMaxJobs,      \* bounds the jobs
  UsMaxCrashes    \* bounds the failures and restarts

ASSUME UsAssumption ==
  /\ IsFiniteSet(UsWorkers) /\ UsDays \in Nat \ {0} /\ UsDaily \in Nat \ {0} /\ UsMonthly \in Nat \ {0}
  /\ UsMaxCost \in Nat /\ UsQueue \in Nat /\ UsMaxJobs \in Nat /\ UsMaxCrashes \in Nat

VARIABLES
  usStage,     \* how far the start of the bot is, or that the ledger works or is given up
  usFile,      \* the file of the older version, by its checksum, or "gone"
  usImport,    \* what the database says of its import
  usRows,      \* the imported rows: checksum and line
  usArchive,   \* the checksums of the archived files
  usPruned,    \* ghost: the imported lines that were removed for their age
  usGrown,     \* ghost: the file was written to after its lines were counted
  usUsed,      \* what the records of this day and of this month add up to
  usOver,      \* ghost: what the turns may cost that began over a ceiling, unread
  usDay,       \* today
  usQueued, usRunning,   \* of each worker
  usJobs, usCrashes
usLegacy == <<usFile, usImport, usRows, usArchive, usPruned, usGrown>>
usWork == <<usUsed, usOver, usDay, usQueued, usRunning, usJobs>>
usVars == <<usStage, usFile, usImport, usRows, usArchive, usPruned, usGrown,
            usUsed, usOver, usDay, usQueued, usRunning, usJobs, usCrashes>>

UsStages == {"down", "opened", "hashed", "running", "committed", "completed", "imported", "ready", "broken"}
(* The file as it was left, with a line that cannot be read; repaired; and *)
(* what an older version, run again, makes of it: the file with one more   *)
(* line, or a new one.                                                     *)
UsSums == {"torn", "whole", "longer", "later"}
UsLines(sum) ==
  CASE sum = "torn" -> <<"l1", "unreadable">> [] sum = "whole" -> <<"l1", "l2">>
    [] sum = "longer" -> <<"l1", "l2", "l3">> [] sum = "later" -> <<"l4">>
UsRow(sum, n) == [sum |-> sum, line |-> n]
UsAllRows(sum) == {UsRow(sum, n) : n \in DOMAIN UsLines(sum)}
UsText(row) == UsLines(row.sum)[row.line]

UsTypeOK ==
  /\ usStage \in UsStages /\ usFile \in UsSums \cup {"gone"}
  /\ usImport \in [sum : UsSums \cup {"none"}, status : {"none", "running", "failed", "completed"}]
  /\ usRows \subseteq UNION {UsAllRows(s) : s \in UsSums} /\ usArchive \subseteq UsSums
  /\ usGrown \in BOOLEAN
  /\ usDay \in 1 .. UsDays /\ usUsed \in [today : Nat, month : Nat] /\ usOver \in Nat
  /\ usQueued \in [UsWorkers -> 0 .. UsQueue] /\ usRunning \in [UsWorkers -> BOOLEAN]
  /\ usJobs \in 0 .. UsMaxJobs /\ usCrashes \in 0 .. UsMaxCrashes

UsInit ==
  /\ usStage = "down" /\ usFile \in {"torn", "whole"} /\ usImport = [sum |-> "none", status |-> "none"]
  /\ usRows = {} /\ usArchive = {} /\ usPruned = {} /\ usGrown = FALSE
  /\ usUsed = [today |-> 0, month |-> 0] /\ usOver = 0 /\ usDay = 1
  /\ usQueued = [w \in UsWorkers |-> 0] /\ usRunning = [w \in UsWorkers |-> FALSE]
  /\ usJobs = 0 /\ usCrashes = 0

UsCrashed == usCrashes < UsMaxCrashes /\ usCrashes' = usCrashes + 1

-----------------------------------------------------------------------------
(* The start. A ledger that cannot be opened or imported is given up until *)
(* the next start.                                                         *)
UsGivesUp(from) ==
  /\ usStage = from /\ UsCrashed /\ usStage' = "broken"
  /\ UNCHANGED <<usLegacy, usWork>>
UsStep(from, to) == usStage = from /\ usStage' = to /\ UNCHANGED <<usCrashes, usWork>>

UsOpen ==
  /\ UsStep("down", IF usFile = "gone" THEN "imported" ELSE "opened")
  /\ UNCHANGED usLegacy

(* A file whose import is known to be complete is only archived.           *)
UsKnown == usImport = [sum |-> usFile, status |-> "completed"]
UsHash ==
  /\ UsStep("opened", IF UsKnown THEN "completed" ELSE "hashed")
  /\ UNCHANGED usLegacy
UsMarkRunning ==
  /\ UsStep("hashed", "running") /\ usImport' = [sum |-> usFile, status |-> "running"]
  /\ UNCHANGED <<usFile, usRows, usArchive, usPruned, usGrown>>

(* All lines in one transaction, each under a name made of the file's      *)
(* checksum and its place; one line that cannot be read undoes them all.   *)
UsReadable(sum) == \A n \in DOMAIN UsLines(sum) : UsLines(sum)[n] # "unreadable"
UsInserted(sum) == usRows \cup UsAllRows(sum)
UsCommit ==
  /\ UsStep("running", "committed") /\ UsReadable(usFile) /\ usRows' = UsInserted(usFile)
  /\ UNCHANGED <<usFile, usImport, usArchive, usPruned, usGrown>>
UsImportFails ==
  /\ UsStep("running", "broken") /\ ~UsReadable(usFile) /\ usImport' = [usImport EXCEPT !.status = "failed"]
  /\ UNCHANGED <<usFile, usRows, usArchive, usPruned, usGrown>>
UsMarkCompleted ==
  /\ UsStep("committed", "completed") /\ usImport' = [usImport EXCEPT !.status = "completed"]
  /\ UNCHANGED <<usFile, usRows, usArchive, usPruned, usGrown>>

(* The archive keeps files of one name and different contents apart; a     *)
(* file that it holds already is removed.                                  *)
UsArchiveFile ==
  /\ UsStep("completed", "imported")
  /\ usArchive' = usArchive \cup {usFile} /\ usFile' = "gone"
  /\ UNCHANGED <<usImport, usRows, usPruned, usGrown>>

(* What is older than the retention is removed when the ledger opens and   *)
(* with the first record of a month; the imported lines may be that old.   *)
UsPrune(rows) == usPruned' = usPruned \cup {UsText(r) : r \in rows} /\ usRows' = usRows \ rows
UsReady ==
  /\ UsStep("imported", "ready")
  /\ \E rows \in {{}, usRows} : UsPrune(rows)
  /\ UNCHANGED <<usFile, usImport, usArchive, usGrown>>

(* The bot stops, its jobs with it. While it is down somebody may repair   *)
(* the file, or run the older version: it adds to the file, which may have *)
(* been counted and not yet archived, or begins a new one.                 *)
UsRestart ==
  /\ usStage # "down" /\ UsCrashed /\ usStage' = "down"
  /\ usQueued' = [w \in UsWorkers |-> 0] /\ usRunning' = [w \in UsWorkers |-> FALSE]
  /\ UNCHANGED <<usLegacy, usUsed, usOver, usDay, usJobs>>
UsWrites ==
  /\ usStage = "down" /\ UNCHANGED <<usStage, usImport, usRows, usArchive, usPruned, usWork, usCrashes>>
  /\ \/ usFile = "torn" /\ usFile' = "whole" /\ UNCHANGED usGrown
     \/ usFile = "whole" /\ usFile' = "longer" /\ usGrown' = (\E r \in usRows : r.sum = usFile)
     \/ usFile = "gone" /\ "later" \notin usArchive /\ usFile' = "later" /\ UNCHANGED usGrown

-----------------------------------------------------------------------------
(* What the records say of the windows; a ledger that was given up allows, *)
(* and so does one that cannot be read just now.                           *)
UsUnder == usUsed.today < UsDaily /\ usUsed.month < UsMonthly
UsAllowed == usStage = "ready" => UsUnder
UsUnread == usStage = "ready" /\ ~UsUnder /\ UsCrashed
UsUp == usStage \in {"ready", "broken"}

(* A message is refused at once when the user is over a ceiling.           *)
UsEnqueue(w) ==
  /\ UsUp
  /\ \/ UsAllowed /\ UNCHANGED usCrashes
     \/ UsUnread
  /\ usJobs < UsMaxJobs /\ usJobs' = usJobs + 1
  /\ usQueued[w] < UsQueue /\ usQueued' = [usQueued EXCEPT ![w] = @ + 1]
  /\ UNCHANGED <<usStage, usLegacy, usUsed, usOver, usDay, usRunning>>

(* And a job again before it runs: what waited meanwhile may be over.      *)
UsMayRunOnceAccepted == TRUE
UsMayRun == UsAllowed
UsBegin(w) ==
  /\ usQueued[w] > 0 /\ ~usRunning[w]
  /\ usQueued' = [usQueued EXCEPT ![w] = @ - 1]
  /\ \/ usRunning' = [usRunning EXCEPT ![w] = UsMayRun] /\ UNCHANGED <<usOver, usCrashes>>
     \/ UsUnread /\ usRunning' = [usRunning EXCEPT ![w] = TRUE] /\ usOver' = usOver + UsMaxCost
  /\ UNCHANGED <<usStage, usLegacy, usUsed, usDay, usJobs>>

(* The turn's cost is recorded before the worker takes its next job; a     *)
(* record that cannot be written is lost.                                  *)
UsCost(usd, credits) == usd + credits
UsRecords(cost) ==
  \/ usStage = "ready" /\ usUsed' = [usUsed EXCEPT !.today = @ + cost, !.month = @ + cost] /\ UNCHANGED usCrashes
  \/ usStage = "broken" /\ UNCHANGED <<usUsed, usCrashes>>
  \/ UsCrashed /\ UNCHANGED usUsed
UsFinish(w) ==
  /\ usRunning[w] /\ usRunning' = [usRunning EXCEPT ![w] = FALSE]
  /\ \E usd, credits \in 0 .. UsMaxCost :
       UsCost(usd, credits) <= UsMaxCost /\ UsRecords(UsCost(usd, credits))
  /\ UNCHANGED <<usStage, usLegacy, usOver, usDay, usQueued, usJobs>>

UsMidnight ==
  /\ usDay < UsDays /\ usDay' = usDay + 1 /\ usUsed' = [usUsed EXCEPT !.today = 0]
  /\ UNCHANGED <<usStage, usLegacy, usOver, usQueued, usRunning, usJobs, usCrashes>>

UsNext ==
  \/ UsOpen \/ UsHash \/ UsMarkRunning \/ UsCommit \/ UsImportFails \/ UsMarkCompleted \/ UsArchiveFile \/ UsReady
  \/ UsGivesUp("down") \/ UsGivesUp("opened") \/ UsGivesUp("completed") \/ UsRestart \/ UsWrites \/ UsMidnight
  \/ \E w \in UsWorkers : UsEnqueue(w) \/ UsBegin(w) \/ UsFinish(w)

UsSpec == UsInit /\ [][UsNext]_usVars

-----------------------------------------------------------------------------
(* The ceilings hold but for the turns that ran when one was reached: what *)
(* is recorded of a day and of a month exceeds its ceiling by less than    *)
(* one turn of each worker, however many jobs had been accepted before,    *)
(* and one of each job that began over it because the ledger could not be  *)
(* read.                                                                   *)
UsSlack == UsMaxCost * Cardinality(UsWorkers) + usOver
UsLimitKept == usUsed.today < UsDaily + UsSlack /\ usUsed.month < UsMonthly + UsSlack

(* Wherever an import stops, no line of the older ledger is counted twice, *)
(* unless an older version wrote to the file between its count and its     *)
(* archive; and once its file is gone each line is counted or was removed  *)
(* for age.                                                                *)
UsImportedOnce ==
  /\ \A r1, r2 \in usRows : UsText(r1) = UsText(r2) => r1 = r2 \/ usGrown
  /\ \A r \in usRows : UsText(r) \notin usPruned
  /\ \A sum \in usArchive : \A r \in UsAllRows(sum) : UsText(r) \in usPruned \/ r \in usRows
=============================================================================
