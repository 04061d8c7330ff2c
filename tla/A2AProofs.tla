------------------------------ MODULE A2AProofs ------------------------------
(* Proofs about the delegation of tasks (A2ATask): whatever is delivered    *)
(* twice, late, out of order or not at all, and whenever the executor       *)
(* restarts, the executor's quota is what it counts, a task runs once, an   *)
(* end stays and is the same on both sides, and the two bots implement the  *)
(* abstract delegation.                                                     *)
EXTENDS MCA2A, FiniteSetTheorems, SequenceTheorems, TLAPS

-----------------------------------------------------------------------------
(* The types, stronger than A2ATypeOK.                                      *)
Kinds == {"task"} \cup A2AControls \cup A2AEvents
Texts == A2AStates \cup {"none"}
Rows == A2ARow \cup {A2ANone}
Notes == [k : Kinds, t : A2ATasks, rev : Nat, st : Texts]
Messages == [k : Kinds, t : A2ATasks, rev : Nat, st : Texts, n : 1 .. A2AMaxDeliver]
RunStages == {"begin", "wait", "got", "publish"}
Runs == [t : A2ATasks, key : Nat, base : Nat, st : RunStages, res : Texts, rev : Nat]
Jobs == [t : A2ATasks, key : Nat, cancel : BOOLEAN]
RunEnds == {"COMPLETED", "FAILED", "CANCELED"} \cup A2AAsking

(* What a note of each kind says.                                           *)
Says(p) ==
  /\ p.k \in {"task"} \cup A2AControls => p.st = "none"
  /\ p.k = "accepted" => p.st = "WORKING"
  /\ p.k = "rejected" => p.st = "REJECTED"
  /\ p.k \in {"event_status", "result"} => p.st \in A2AStates

(* Every message on its way was published.                                  *)
NoteOf(m) == A2ANote(m.k, m.t, m.rev, m.st)
NetOK ==
  /\ a2aNet \subseteq Messages /\ a2aPub \subseteq Notes
  /\ \A m \in a2aNet : NoteOf(m) \in a2aPub
  /\ \A p \in a2aPub : Says(p)

RunsOK ==
  /\ a2aRuns \subseteq Runs
  /\ \A r \in a2aRuns : /\ r.st = "got" => r.res \in RunEnds
                        /\ r.st = "publish" => r.res \in RunEnds \cup {"REJECTED"}

LogOK ==
  /\ a2aLog \subseteq [t : A2ATasks, rev : Nat, k : Kinds, st : Texts]
  /\ a2aSeen \subseteq [t : A2ATasks, rev : Nat, k : Kinds]
  /\ \A s \in a2aSeen : \E e \in a2aLog : e.t = s.t /\ e.rev = s.rev /\ e.k = s.k

Typed ==
  /\ a2aOut \in [A2ATasks -> Rows] /\ a2aIn \in [A2ATasks -> Rows]
  /\ NetOK /\ RunsOK /\ LogOK
  /\ a2aRes \subseteq A2ATasks /\ a2aOpen \in Nat
  /\ a2aStarted \subseteq A2ATasks \X Nat /\ a2aQueue \in Seq(Jobs) /\ a2aLeft \in Nat
  /\ a2aGhost \in [ran : [A2ATasks -> Nat], touched : SUBSET A2ATasks, stranded : SUBSET A2ATasks, late : SUBSET A2ATasks]

-----------------------------------------------------------------------------
(* How the rows of the two sides, and what was published, hang together.    *)

(* A row of the executor is of a task it refused, or of one it admitted.    *)
InRow(row) ==
  row # A2ANone => row.id \in {"task", "msg"} /\ (row.id = "msg" <=> row.st = "REJECTED")

(* What was published is of a task that was asked for, and decided on as    *)
(* the note says.                                                           *)
Decided(p) ==
  /\ a2aOut[p.t] # A2ANone
  /\ p.k # "task" => a2aIn[p.t] # A2ANone /\ (p.k = "rejected" <=> a2aIn[p.t].id = "msg")

(* A reply answers a question that was published.                           *)
Reply == {"input_reply", "auth_reply"}
Asked(t, rev) == \E p \in a2aPub : p.t = t /\ p.rev = rev /\ p.st \in A2AAsking
Answers(p) == p.k \in Reply => p.rev > 0 /\ Asked(p.t, p.rev - 1)

(* A row of the delegator says what it was told.                            *)
Told(t) == \E p \in a2aPub : p.t = t /\ p.st = a2aOut[t].st
WasTold(t, k) == \E p \in a2aPub : p.t = t /\ p.k = k
OutRow(t) ==
  a2aOut[t] # A2ANone =>
    /\ a2aOut[t].id = "none" => a2aOut[t].st = "SUBMITTED"
    /\ a2aOut[t].id = "msg" => a2aOut[t].st = "REJECTED" /\ WasTold(t, "rejected")
    /\ a2aOut[t].id = "task" => WasTold(t, "accepted")
    /\ a2aOut[t].st \in A2ATerminal => Told(t)
    /\ a2aOut[t].st \in A2AAsking => Asked(t, a2aOut[t].rev)

Linked ==
  /\ \A t \in A2ATasks : InRow(a2aIn[t]) /\ OutRow(t) /\ (a2aIn[t] # A2ANone => a2aOut[t] # A2ANone)
  /\ \A p \in a2aPub : Decided(p) /\ Answers(p)
  /\ \A r \in a2aRuns : a2aIn[r.t] # A2ANone /\ a2aIn[r.t].id = "task"

-----------------------------------------------------------------------------
(* A task that the executor did not touch by a cancel, a denial or a        *)
(* restart. A run that has not ended is alone, and the row is as it was     *)
(* when the run began.                                                      *)
Live(r) == r.st # "publish"
Untouched(t) == t \notin a2aGhost.touched /\ a2aIn[t] # A2ANone

RunAlone(r) ==
  /\ a2aIn[r.t].st = (IF r.key = 0 THEN "SUBMITTED" ELSE "WORKING") /\ a2aIn[r.t].rev = r.base
  /\ \A q \in a2aRuns : q.t = r.t /\ Live(q) => q = r

(* A question is on its way or was published: either the reply to it has    *)
(* been started, or no run is under way and the row waits for it.           *)
AsksAt(t, rev) == Asked(t, rev) \/ \E r \in a2aRuns : r.t = t /\ r.st = "publish" /\ r.res \in A2AAsking /\ r.rev = rev
NoRun(t) == \A r \in a2aRuns : r.t = t => ~Live(r)
Waits(t, rev) ==
  \/ <<t, rev + 1>> \in a2aStarted \/ a2aIn[t].st \in A2ATerminal
  \/ /\ NoRun(t)
     /\ \/ a2aIn[t].st \in A2AAsking /\ a2aIn[t].rev = rev
        \/ a2aIn[t].st = "WORKING" /\ a2aIn[t].rev = rev + 1

Alone(t) ==
  /\ a2aIn[t].id = "task" /\ a2aIn[t].st # "SUBMITTED" => <<t, 0>> \in a2aStarted
  /\ a2aIn[t].st = "SUBMITTED" => t \in a2aRes
  /\ \A r \in a2aRuns : r.t = t =>
       /\ Live(r) => RunAlone(r)
       /\ r.st = "publish" /\ r.res \in A2ATerminal => a2aIn[t].st = r.res
  /\ \A p \in a2aPub : p.t = t /\ p.st \in A2ATerminal => a2aIn[t].st = p.st
  /\ \A rev \in Nat : AsksAt(t, rev) => rev <= a2aIn[t].rev /\ Waits(t, rev)

(* Once a run of it was late, its row stays open: nothing that was started  *)
(* can start again, and its row waits for no answer.                        *)
Stuck(t) ==
  /\ a2aIn[t].id = "task" /\ a2aIn[t].st \in {"SUBMITTED", "WORKING"}
  /\ <<t, 0>> \in a2aStarted /\ NoRun(t)
  /\ \A rev \in Nat : AsksAt(t, rev) => <<t, rev + 1>> \in a2aStarted \/ rev >= a2aIn[t].rev

Fine(t) == IF t \in a2aGhost.late THEN Stuck(t) ELSE Alone(t)
Kept(t) == Untouched(t) => Fine(t)

(* An end that is about to be published was recorded, or its run was late.  *)
Backed ==
  /\ \A t \in a2aGhost.late : a2aIn[t] # A2ANone
  /\ \A r \in a2aRuns : r.st = "publish" /\ r.res \in A2ATerminal => A2AEnded(a2aIn[r.t]) \/ r.t \in a2aGhost.late

-----------------------------------------------------------------------------
(* A reservation is of a task that was admitted, and a task whose prompt    *)
(* was enqueued does not begin again while it holds its reservation.        *)
Reserved ==
  /\ A2AQuota
  /\ \A t \in a2aRes : a2aIn[t] # A2ANone

Begins(t) == <<t, 0>> \notin a2aStarted \/ \E r \in a2aRuns : r.t = t /\ r.key = 0 /\ r.st = "begin"
Once ==
  /\ \A r \in a2aRuns : <<r.t, r.key>> \in a2aStarted
  /\ \A q, r \in a2aRuns : q.t = r.t /\ q.key = r.key => q = r
  /\ \A t \in A2ATasks :
       /\ a2aGhost.ran[t] <= 1
       /\ a2aGhost.ran[t] > 0 => a2aIn[t] # A2ANone /\ (t \in a2aRes => ~Begins(t))

IInv == Typed /\ Linked /\ Reserved /\ Once /\ Backed /\ \A t \in A2ATasks : Kept(t)

-----------------------------------------------------------------------------
(* The model's operators on rows and notes.                                 *)

(* A row takes a newer revision of an event, and keeps its own otherwise.   *)
LEMMA AppliedRow ==
  ASSUME NEW row \in A2ARow, NEW rev \in Nat, NEW st \in A2AStates
  PROVE  /\ A2AApplied(row, rev, st) \in A2ARow
         /\ A2AApplied(row, rev, st).id = row.id /\ A2AApplied(row, rev, st).rev >= row.rev
         /\ \/ A2AApplied(row, rev, st) = row /\ rev <= row.rev
            \/ A2AApplied(row, rev, st).st = st /\ A2AApplied(row, rev, st).rev = rev /\ rev > row.rev
<1>0. row.rev \in Nat BY DEF A2ARow
<1>1. CASE rev <= row.rev BY <1>0, <1>1 DEF A2AApplied
<1>2. CASE ~(rev <= row.rev)
  <2>1. A2AApplied(row, rev, st) = [row EXCEPT !.st = st, !.rev = rev] BY <1>2 DEF A2AApplied, A2ARow
  <2>2. [row EXCEPT !.st = st, !.rev = rev] \in A2ARow BY DEF A2ARow
  <2>3. /\ [row EXCEPT !.st = st, !.rev = rev].id = row.id
        /\ [row EXCEPT !.st = st, !.rev = rev].st = st /\ [row EXCEPT !.st = st, !.rev = rev].rev = rev
    BY DEF A2ARow
  <2>4. rev > row.rev BY <1>0, <1>2
  <2> QED BY <1>0, <2>1, <2>2, <2>3, <2>4
<1> QED BY <1>1, <1>2

(* What the end of a run makes of the row: one that ended stays, any other  *)
(* keeps its identity and goes on to a newer revision or stays.             *)
LEMMA ResultRow ==
  ASSUME NEW row \in A2ARow, NEW base \in Nat, NEW st \in RunEnds
  PROVE  /\ A2AResultRow(row, base, st) \in A2ARow /\ A2AResultRev(row, base, st) \in Nat
         /\ A2AResultRow(row, base, st).id = row.id /\ A2AResultRow(row, base, st).rev >= row.rev
         /\ row.st \in A2ATerminal => A2AResultRow(row, base, st) = row
         /\ A2AResultRow(row, base, st) = row \/ A2AResultRow(row, base, st).st = st
         /\ row.st \notin A2ATerminal /\ st \in A2ATerminal => A2AResultRow(row, base, st).st = st
         /\ row.st \notin A2ATerminal /\ st \notin A2ATerminal /\ row.rev = base =>
              /\ A2AResultRow(row, base, st).st = st /\ A2AResultRow(row, base, st).rev = base + 1
              /\ A2AResultRev(row, base, st) = base + 1
<1>1. st \in A2AStates BY DEF RunEnds, A2AStates, A2ATerminal, A2AAsking
<1>2. row.rev \in Nat /\ base + 1 \in Nat BY DEF A2ARow
<1>3. /\ A2AApplied(row, base + 1, st) \in A2ARow /\ A2AApplied(row, base + 1, st).id = row.id
      /\ A2AApplied(row, base + 1, st).rev >= row.rev
      /\ \/ A2AApplied(row, base + 1, st) = row /\ base + 1 <= row.rev
         \/ A2AApplied(row, base + 1, st).st = st /\ A2AApplied(row, base + 1, st).rev = base + 1 /\ base + 1 > row.rev
  BY <1>1, <1>2, AppliedRow
<1>4. /\ A2ARecorded(row, st) \in A2ARow /\ A2ARecorded(row, st).id = row.id /\ A2ARecorded(row, st).rev >= row.rev
      /\ row.st \in A2ATerminal => A2ARecorded(row, st) = row
      /\ row.st \notin A2ATerminal => A2ARecorded(row, st).st = st
  <2>1. CASE row.st \in A2ATerminal BY <2>1, <1>2 DEF A2ARecorded
  <2>2. CASE row.st \notin A2ATerminal
    <3>1. A2ARecorded(row, st) = [row EXCEPT !.st = st, !.rev = @ + 1] BY <2>2 DEF A2ARecorded
    <3>2. [row EXCEPT !.st = st, !.rev = @ + 1] \in A2ARow
      <4>1. row.rev + 1 \in Nat BY <1>2
      <4> QED BY <1>1, <4>1 DEF A2ARow
    <3>3. /\ [row EXCEPT !.st = st, !.rev = @ + 1].id = row.id
          /\ [row EXCEPT !.st = st, !.rev = @ + 1].st = st /\ [row EXCEPT !.st = st, !.rev = @ + 1].rev = row.rev + 1
      BY DEF A2ARow
    <3> QED BY <1>2, <2>2, <3>1, <3>2, <3>3
  <2> QED BY <2>1, <2>2
<1>5. A2AResultRow(row, base, st).rev \in Nat
  BY <1>2, <1>3, <1>4 DEF A2AResultRow, A2ARow
<1>6. CASE st \in A2ATerminal
  BY <1>2, <1>4, <1>5, <1>6 DEF A2AResultRow, A2AResultRev
<1>7. CASE st \notin A2ATerminal
  BY <1>2, <1>3, <1>5, <1>7 DEF A2AResultRow, A2AResultRev, A2AAppliable
<1> QED BY <1>6, <1>7

(* The revision a control applies at is newer than the row's.               *)
LEMMA ControlRev ==
  ASSUME Typed, NEW m \in a2aNet, a2aIn[m.t] # A2ANone
  PROVE  A2AControlRev(m) \in Nat /\ A2AControlRev(m) > a2aIn[m.t].rev /\ A2AControlRev(m) >= m.rev
<1>1. m.rev \in Nat /\ a2aIn[m.t] \in A2ARow BY DEF Typed, NetOK, Messages, Rows
<1> QED BY <1>1 DEF A2AControlRev, A2AMore, A2ARow

(* However a handler ends, what it published is what was published before   *)
(* and some of what it meant to publish, and the messages are published.    *)
LEMMA Published ==
  ASSUME NetOK, NEW sent \in SUBSET Notes, \A s \in sent : Says(s),
         A2ASends(sent) \/ \E m \in a2aNet : A2AAcked(m, sent) \/ A2ANaked(m, sent)
  PROVE  NetOK' /\ a2aPub \subseteq a2aPub' /\ a2aPub' \subseteq a2aPub \cup sent
<1>1. A2AFresh(sent) \subseteq sent /\ a2aPub' = a2aPub \cup A2AFresh(sent)
  BY DEF A2ASends, A2AAcked, A2ANaked, A2AFresh
<1>2. A2AMaxDeliver \in Nat \ {0} BY A2ABoundsAssumption
<1>3. \A x \in A2APosted(sent) : x \in Messages /\ NoteOf(x) \in A2AFresh(sent)
  <2> SUFFICES ASSUME NEW x \in A2APosted(sent) PROVE x \in Messages /\ NoteOf(x) \in A2AFresh(sent)
    OBVIOUS
  <2>1. PICK s \in A2AFresh(sent) : x = [k |-> s.k, t |-> s.t, rev |-> s.rev, st |-> s.st, n |-> A2AMaxDeliver]
    BY DEF A2APosted
  <2>2. s \in Notes BY <1>1, <2>1
  <2>3. x \in Messages BY <1>2, <2>1, <2>2 DEF Messages, Notes
  <2>4. NoteOf(x) = s BY <2>1, <2>2 DEF NoteOf, A2ANote, Notes
  <2> QED BY <2>1, <2>3, <2>4
<1>4. \A x \in a2aNet' : x \in Messages /\ NoteOf(x) \in a2aPub'
  <2> SUFFICES ASSUME NEW x \in a2aNet' PROVE x \in Messages /\ NoteOf(x) \in a2aPub' OBVIOUS
  <2>1. CASE x \in a2aNet BY <1>1, <2>1 DEF NetOK
  <2>2. CASE x \in A2APosted(sent) BY <1>1, <1>3, <2>2
  <2>3. ASSUME x \notin a2aNet, x \notin A2APosted(sent) PROVE x \in Messages /\ NoteOf(x) \in a2aPub'
    <3>1. PICK m \in a2aNet : m.n > 1 /\ x = [m EXCEPT !.n = @ - 1]
      BY <2>3 DEF A2ASends, A2AAcked, A2ANaked
    <3>2. m \in Messages BY DEF NetOK
    <3>3. x \in Messages BY <1>2, <3>1, <3>2 DEF Messages
    <3>4. NoteOf(x) = NoteOf(m) BY <3>1, <3>2 DEF NoteOf, A2ANote, Messages
    <3> QED BY <1>1, <3>3, <3>4 DEF NetOK
  <2> QED BY <2>1, <2>2, <2>3
<1>5. \A p \in a2aPub' : Says(p) BY <1>1 DEF NetOK
<1> QED BY <1>1, <1>4, <1>5 DEF NetOK

(* So too the ways a handler finishes.                                      *)
LEMMA Finished ==
  ASSUME NetOK, a2aLeft \in Nat, NEW sent \in SUBSET Notes, \A s \in sent : Says(s),
         NEW m \in a2aNet, A2AFinish(m, sent)
  PROVE  NetOK' /\ a2aPub \subseteq a2aPub' /\ a2aPub' \subseteq a2aPub \cup sent /\ a2aLeft' \in Nat
<1>1. CASE A2ANaked(m, {})
  <2>1. NetOK' /\ a2aPub \subseteq a2aPub' /\ a2aPub' \subseteq a2aPub \cup {} BY <1>1, Published
  <2> QED BY <2>1 DEF A2AFinish, A2AFree, A2ASpend
<1>2. CASE A2AAcked(m, sent) \/ A2ANaked(m, sent)
  <2>1. NetOK' /\ a2aPub \subseteq a2aPub' /\ a2aPub' \subseteq a2aPub \cup sent BY <1>2, Published
  <2> QED BY <2>1 DEF A2AFinish, A2AFree, A2ASpend
<1> QED BY <1>1, <1>2 DEF A2AFinish

(* A message on its way is of a task that was asked for, and what it says   *)
(* was published.                                                           *)
LEMMA Message ==
  ASSUME Typed, Linked, NEW m \in a2aNet
  PROVE  /\ m.t \in A2ATasks /\ m.rev \in Nat /\ m.k \in Kinds /\ m.st \in Texts
         /\ a2aOut[m.t] \in A2ARow /\ a2aIn[m.t] \in Rows
         /\ m.k # "task" => a2aIn[m.t] \in A2ARow /\ (m.k = "rejected" <=> a2aIn[m.t].id = "msg")
         /\ Says(m)
         /\ \E p \in a2aPub : p.k = m.k /\ p.t = m.t /\ p.rev = m.rev /\ p.st = m.st
<1>1. m \in Messages BY DEF Typed, NetOK
<1>2. m.t \in A2ATasks /\ m.rev \in Nat /\ m.k \in Kinds /\ m.st \in Texts BY <1>1 DEF Messages
<1>3. PICK p \in a2aPub : p.k = m.k /\ p.t = m.t /\ p.rev = m.rev /\ p.st = m.st
  <2>1. NoteOf(m) \in a2aPub BY DEF Typed, NetOK
  <2>2. /\ NoteOf(m).k = m.k /\ NoteOf(m).t = m.t
        /\ NoteOf(m).rev = m.rev /\ NoteOf(m).st = m.st
    BY DEF NoteOf, A2ANote
  <2> QED BY <2>1, <2>2
<1>4. Decided(p) /\ Says(p) BY DEF Linked, Typed, NetOK
<1>5. a2aOut[m.t] \in Rows /\ a2aIn[m.t] \in Rows BY <1>2 DEF Typed
<1>6. a2aOut[m.t] # A2ANone
      /\ (m.k # "task" => a2aIn[m.t] # A2ANone /\ (m.k = "rejected" <=> a2aIn[m.t].id = "msg"))
  BY <1>3, <1>4 DEF Decided
<1>7. Says(m) BY <1>3, <1>4 DEF Says
<1> QED BY <1>2, <1>3, <1>5, <1>6, <1>7 DEF Rows

(* A step that keeps the rows that are there, and publishes only notes of   *)
(* decisions that were taken, keeps the two sides linked.                   *)
LEMMA LinkedStep ==
  ASSUME Typed, Linked, NEW sent \in SUBSET Notes,
         a2aPub \subseteq a2aPub', a2aPub' \subseteq a2aPub \cup sent,
         \A t \in A2ATasks : a2aOut[t] # A2ANone => a2aOut'[t] # A2ANone,
         \A t \in A2ATasks : a2aIn[t] # A2ANone => a2aIn'[t] # A2ANone /\ a2aIn'[t].id = a2aIn[t].id,
         \A t \in A2ATasks : InRow(a2aIn'[t]),
         \A t \in A2ATasks : a2aIn'[t] # A2ANone => a2aOut'[t] # A2ANone,
         \A t \in A2ATasks : a2aOut'[t] = a2aOut[t] \/ OutRow(t)',
         \A p \in sent : Decided(p)' /\ Answers(p)',
         \A r \in a2aRuns' : a2aIn'[r.t] # A2ANone /\ a2aIn'[r.t].id = "task"
  PROVE  Linked'
<1>1. \A t, rev : Asked(t, rev) => Asked(t, rev)' BY DEF Asked
<1>2. ASSUME NEW t \in A2ATasks PROVE OutRow(t)'
  <2>1. CASE a2aOut'[t] = a2aOut[t]
    <3>1. OutRow(t) BY DEF Linked
    <3> QED BY <1>1, <2>1, <3>1 DEF OutRow, Told, WasTold
  <2> QED BY <2>1
<1>3. ASSUME NEW p \in a2aPub' PROVE Decided(p)' /\ Answers(p)'
  <2>1. CASE p \in a2aPub
    <3>1. Decided(p) /\ Answers(p) /\ p.t \in A2ATasks BY <2>1 DEF Linked, Typed, NetOK, Notes
    <3>2. Decided(p)' BY <3>1 DEF Decided
    <3>3. Answers(p)' BY <1>1, <3>1 DEF Answers
    <3> QED BY <3>2, <3>3
  <2>2. CASE p \in sent BY <2>2
  <2> QED BY <2>1, <2>2
<1> QED BY <1>2, <1>3 DEF Linked

(* What the end of a run does to the executor.                              *)
LEMMA EndsStep ==
  ASSUME Typed, Linked, NEW r \in a2aRuns, NEW st \in RunEnds, A2AEnds(r, st)
  PROVE  /\ r.t \in A2ATasks /\ a2aIn[r.t] \in A2ARow
         /\ a2aIn' = [a2aIn EXCEPT ![r.t] = A2AResultRow(a2aIn[r.t], r.base, st)]
         /\ a2aIn' \in [A2ATasks -> Rows]
         /\ \A t \in A2ATasks : a2aIn[t] # A2ANone => a2aIn'[t] # A2ANone /\ a2aIn'[t].id = a2aIn[t].id
         /\ \A t \in A2ATasks : InRow(a2aIn'[t])
         /\ \A t \in A2ATasks : a2aIn[t] = A2ANone => a2aIn'[t] = A2ANone
         /\ RunsOK' /\ a2aRes' \subseteq A2ATasks /\ a2aOpen' \in Nat
         /\ \A q \in a2aRuns' : a2aIn'[q.t] # A2ANone /\ a2aIn'[q.t].id = "task"
<1> DEFINE row == A2AResultRow(a2aIn[r.t], r.base, st)
           new == [r EXCEPT !.st = "publish", !.res = st, !.rev = A2AResultRev(a2aIn[r.t], r.base, st)]
<1>1. r \in Runs /\ r.t \in A2ATasks /\ r.base \in Nat BY DEF Typed, RunsOK, Runs
<1>2. a2aIn[r.t] \in A2ARow /\ a2aIn[r.t].id = "task" BY <1>1 DEF Typed, Linked, Rows
<1>3. /\ row \in A2ARow /\ A2AResultRev(a2aIn[r.t], r.base, st) \in Nat /\ row.id = "task"
      /\ row = a2aIn[r.t] \/ row.st = st
  BY <1>1, <1>2, ResultRow
<1>4. a2aIn' = [a2aIn EXCEPT ![r.t] = row] BY DEF A2AEnds
<1>5. a2aIn' \in [A2ATasks -> Rows] BY <1>1, <1>3, <1>4 DEF Typed, Rows
<1>6. \A t \in A2ATasks : a2aIn[t] # A2ANone => a2aIn'[t] # A2ANone /\ a2aIn'[t].id = a2aIn[t].id
  BY <1>1, <1>2, <1>3, <1>4, A2ANoneAssumption DEF Typed
<1>13. \A t \in A2ATasks : a2aIn[t] = A2ANone => a2aIn'[t] = A2ANone
  BY <1>1, <1>2, <1>4, A2ANoneAssumption DEF Typed
<1>7. ASSUME NEW t \in A2ATasks PROVE InRow(a2aIn'[t])
  <2>1. InRow(a2aIn[t]) BY DEF Linked
  <2>2. st # "REJECTED" BY DEF RunEnds, A2AAsking
  <2>3. InRow(row) BY <1>1, <1>2, <1>3, <2>2 DEF InRow, Linked
  <2> QED BY <1>1, <1>4, <2>1, <2>3 DEF Typed
<1>8. new \in Runs /\ new.st = "publish" /\ new.res = st /\ new.t = r.t
  BY <1>1, <1>3 DEF Runs, RunStages, RunEnds, Texts, A2AStates, A2ATerminal, A2AAsking
<1>9. a2aRuns' = (a2aRuns \ {r}) \cup {new} BY DEF A2AEnds, A2AGoes
<1>10. RunsOK' BY <1>8, <1>9 DEF Typed, RunsOK
<1>11. a2aRes' \subseteq A2ATasks /\ a2aOpen' \in Nat
  BY DEF A2AEnds, A2AReleased, A2AMore, Typed
<1>12. \A q \in a2aRuns' : a2aIn'[q.t] # A2ANone /\ a2aIn'[q.t].id = "task"
  <2> SUFFICES ASSUME NEW q \in a2aRuns' PROVE a2aIn'[q.t] # A2ANone /\ a2aIn'[q.t].id = "task" OBVIOUS
  <2>1. \E x \in a2aRuns : x.t = q.t BY <1>8, <1>9
  <2>2. a2aIn[q.t] # A2ANone /\ a2aIn[q.t].id = "task" /\ q.t \in A2ATasks
    BY <2>1 DEF Linked, Typed, RunsOK, Runs
  <2> QED BY <1>6, <2>2
<1> QED BY <1>1, <1>2, <1>4, <1>5, <1>6, <1>7, <1>10, <1>11, <1>12, <1>13

(* What a start adds: at most a run of the task, in its first stage.        *)
LEMMA StartStep ==
  ASSUME Typed, NEW t \in A2ATasks, NEW key \in Nat, NEW base \in Nat, A2AStart(t, key, base)
  PROVE  /\ RunsOK' /\ a2aStarted' \subseteq A2ATasks \X Nat
         /\ \A q \in a2aRuns' : q \in a2aRuns \/ q = A2ARun(t, key, base)
<1>1. A2ARun(t, key, base) \in Runs /\ A2ARun(t, key, base).st = "begin"
  BY DEF A2ARun, Runs, RunStages, Texts
<1> QED BY <1>1 DEF A2AStart, Typed, RunsOK

-----------------------------------------------------------------------------
(* Each step keeps the types and the links.                                 *)

(* The delegator asks, or sends a control.                                  *)
LEMMA SendTaskLinked ==
  ASSUME Typed, Linked, NEW t \in A2ATasks, A2ASendTask(t)
  PROVE  Typed' /\ Linked'
<1> DEFINE row == [st |-> "SUBMITTED", rev |-> 0, id |-> "none"]
           sent == {A2ANote("task", t, 0, "none")}
<1>1. row \in A2ARow /\ a2aOut[t] = A2ANone /\ a2aOut' = [a2aOut EXCEPT ![t] = row]
  BY DEF A2ASendTask, A2ARow, A2AStates
<1>2. sent \in SUBSET Notes /\ (\A p \in sent : Says(p)) /\ (\A p \in sent : p.t = t /\ p.k = "task")
  BY DEF A2ANote, Notes, Kinds, Texts, Says, A2AControls
<1>3. NetOK' /\ a2aPub \subseteq a2aPub' /\ a2aPub' \subseteq a2aPub \cup sent
  <2>1. CASE A2ASends(sent) BY <2>1, <1>2, Published DEF Typed
  <2>2. CASE A2ASends({})
    <3>1. NetOK' /\ a2aPub \subseteq a2aPub' /\ a2aPub' \subseteq a2aPub \cup {} BY <2>2, Published DEF Typed
    <3> QED BY <3>1
  <2> QED BY <2>1, <2>2 DEF A2ASendTask
<1>4. a2aOut' \in [A2ATasks -> Rows] BY <1>1 DEF Typed, Rows
<1>5. UNCHANGED <<a2aExec, a2aLog, a2aSeen, a2aGhost>> /\ a2aLeft' \in Nat
  BY DEF A2ASendTask, A2ASpend, Typed
<1>6. Typed' BY <1>3, <1>4, <1>5 DEF Typed, a2aExec, RunsOK, LogOK
<1>7. Linked'
  <2>1. \A u \in A2ATasks : a2aOut'[u] = a2aOut[u] \/ OutRow(u)'
    BY <1>1, A2ANoneAssumption DEF OutRow, Typed, A2ATerminal, A2AAsking
  <2>2. \A p \in sent : Decided(p)' /\ Answers(p)'
    BY <1>1, <1>2, A2ANoneAssumption DEF Decided, Answers, Reply, Typed
  <2>3. \A u \in A2ATasks : a2aOut[u] # A2ANone => a2aOut'[u] # A2ANone
    BY <1>1 DEF Typed
  <2>4. \A u \in A2ATasks : InRow(a2aIn'[u]) BY <1>5 DEF Linked, a2aExec
  <2>5. \A r \in a2aRuns' : a2aIn'[r.t] # A2ANone /\ a2aIn'[r.t].id = "task" BY <1>5 DEF Linked, a2aExec
  <2>6. \A u \in A2ATasks : a2aIn[u] # A2ANone => a2aIn'[u] # A2ANone /\ a2aIn'[u].id = a2aIn[u].id
    BY <1>5 DEF a2aExec
  <2>7. \A u \in A2ATasks : a2aIn'[u] # A2ANone => a2aOut'[u] # A2ANone BY <2>3, <1>5 DEF Linked, a2aExec
  <2> QED BY <1>2, <1>3, <2>7, <2>1, <2>2, <2>3, <2>4, <2>5, <2>6, LinkedStep
<1> QED BY <1>6, <1>7

(* A control is for an accepted task; a reply answers what its row asks.    *)
LEMMA SendControlLinked ==
  ASSUME Typed, Linked, NEW t \in A2ATasks, NEW k \in A2AControls, A2ASendControl(k, t)
  PROVE  Typed' /\ Linked'
<1>0. PICK rev : rev = a2aOut[t].rev OBVIOUS
<1> DEFINE note == A2ANote(k, t, rev + 1, "none")
<1>1. /\ a2aOut[t] \in A2ARow /\ a2aOut[t].id = "task" /\ a2aOut[t].rev \in Nat
      /\ (k \in Reply => a2aOut[t].st \in A2AAsking)
  BY DEF A2ASendControl, A2AMayControl, Typed, Rows, Reply, A2AAsking, A2ARow
<1>2. /\ note \in Notes /\ Says(note) /\ note.t = t /\ note.k = k
      /\ note.rev = rev + 1
  BY <1>0, <1>1 DEF A2ANote, Notes, Kinds, Texts, Says, A2AControls
<1>3. NetOK' /\ a2aPub \subseteq a2aPub' /\ a2aPub' \subseteq a2aPub \cup {note}
  BY <1>0, <1>2, Published DEF Typed, A2ASendControl
<1>4. UNCHANGED <<a2aExec, a2aDeleg, a2aGhost>> /\ a2aLeft' \in Nat
  BY DEF A2ASendControl, A2ASpend, Typed
<1>5. Typed' BY <1>3, <1>4 DEF Typed, a2aExec, a2aDeleg, RunsOK, LogOK
<1>6. OutRow(t) /\ a2aOut[t] # A2ANone BY <1>1, A2ANoneAssumption DEF Linked
<1>7. a2aIn[t] # A2ANone /\ a2aIn[t].id = "task"
  <2>1. PICK p \in a2aPub : p.t = t /\ p.k = "accepted" BY <1>1, <1>6 DEF OutRow, WasTold
  <2>2. Decided(p) /\ InRow(a2aIn[t]) BY <2>1 DEF Linked
  <2> QED BY <2>1, <2>2 DEF Decided, InRow
<1>8. Decided(note)'
  <2>1. k # "task" /\ k # "rejected" BY DEF A2AControls
  <2> QED BY <1>2, <1>4, <1>6, <1>7, <2>1 DEF Decided, a2aExec, a2aDeleg
<1>9. Answers(note)'
  <2>1. k \in Reply => Asked(t, rev) BY <1>0, <1>1, <1>6 DEF OutRow
  <2>2. k \in Reply => Asked(t, rev)' BY <1>3, <1>4, <2>1 DEF Asked, a2aDeleg
  <2>3. note.rev > 0 /\ note.rev - 1 = rev BY <1>0, <1>1, <1>2
  <2> QED BY <1>2, <1>4, <2>2, <2>3 DEF Answers, Asked, a2aDeleg
<1>10. Linked'
  <2>1. \A u \in A2ATasks : a2aOut'[u] = a2aOut[u] BY <1>4 DEF a2aDeleg
  <2>2. \A u \in A2ATasks : InRow(a2aIn'[u]) BY <1>4 DEF Linked, a2aExec
  <2>3. \A r \in a2aRuns' : a2aIn'[r.t] # A2ANone /\ a2aIn'[r.t].id = "task" BY <1>4 DEF Linked, a2aExec
  <2>4. \A u \in A2ATasks : a2aIn'[u] = a2aIn[u] BY <1>4 DEF a2aExec
  <2>7. {note} \in SUBSET Notes /\ \A p \in {note} : Decided(p)' /\ Answers(p)' BY <1>2, <1>8, <1>9
  <2>8. \A u \in A2ATasks : a2aOut[u] # A2ANone => a2aOut'[u] # A2ANone BY <2>1
  <2>9. \A u \in A2ATasks : a2aIn[u] # A2ANone => a2aIn'[u] # A2ANone /\ a2aIn'[u].id = a2aIn[u].id BY <2>4
  <2>10. \A u \in A2ATasks : a2aIn'[u] # A2ANone => a2aOut'[u] # A2ANone BY <2>1, <2>4 DEF Linked
  <2> QED BY <1>3, <2>10, <2>1, <2>2, <2>3, <2>7, <2>8, <2>9, LinkedStep
<1> QED BY <1>5, <1>10

(* The executor refuses a task, or admits it.                               *)
LEMMA RefuseLinked ==
  ASSUME Typed, Linked, NEW m \in a2aNet, A2ARefuse(m)
  PROVE  Typed' /\ Linked'
<1> DEFINE row == [st |-> "REJECTED", rev |-> 1, id |-> "msg"]
           note == A2ANote("rejected", m.t, 1, "REJECTED")
<1>1. m.t \in A2ATasks /\ a2aOut[m.t] \in A2ARow BY Message
<1>2. /\ row \in A2ARow /\ a2aIn[m.t] = A2ANone /\ a2aIn' = [a2aIn EXCEPT ![m.t] = row]
      /\ A2AFinish(m, {note}) /\ UNCHANGED <<a2aDeleg, a2aRes, a2aOpen, a2aStarted, a2aRuns, a2aQueue, a2aGhost>>
  BY DEF A2ARefuse, A2ARow, A2AStates, A2ATerminal
<1>3. note \in Notes /\ Says(note) /\ note.t = m.t /\ note.k = "rejected"
  BY <1>1 DEF A2ANote, Notes, Kinds, Texts, Says, A2AEvents, A2AStates, A2ATerminal, A2AControls
<1>4. NetOK' /\ a2aPub \subseteq a2aPub' /\ a2aPub' \subseteq a2aPub \cup {note} /\ a2aLeft' \in Nat
  BY <1>2, <1>3, Finished DEF Typed
<1>5. a2aIn' \in [A2ATasks -> Rows] BY <1>1, <1>2 DEF Typed, Rows
<1>6. Typed' BY <1>2, <1>4, <1>5 DEF Typed, a2aDeleg, RunsOK, LogOK
<1>7. Linked'
  <2>1. Decided(note)' /\ Answers(note)'
    BY <1>1, <1>2, <1>3, A2ANoneAssumption DEF Decided, Answers, Reply, Typed, a2aDeleg
  <2>2. \A u \in A2ATasks : a2aOut'[u] = a2aOut[u] BY <1>2 DEF a2aDeleg
  <2>3. \A u \in A2ATasks : a2aIn[u] # A2ANone => a2aIn'[u] # A2ANone /\ a2aIn'[u].id = a2aIn[u].id
    BY <1>1, <1>2 DEF Typed
  <2>4. \A u \in A2ATasks : InRow(a2aIn'[u]) BY <1>1, <1>2 DEF Linked, InRow, Typed
  <2>5. \A r \in a2aRuns' : a2aIn'[r.t] # A2ANone /\ a2aIn'[r.t].id = "task"
    BY <1>2, <2>3 DEF Linked, Typed, RunsOK, Runs
  <2>7. {note} \in SUBSET Notes /\ \A p \in {note} : Decided(p)' /\ Answers(p)' BY <1>3, <2>1
  <2>8. \A u \in A2ATasks : a2aOut[u] # A2ANone => a2aOut'[u] # A2ANone BY <2>2
  <2>9. \A u \in A2ATasks : a2aIn'[u] # A2ANone => a2aOut'[u] # A2ANone BY <1>1, <1>2, <2>2, A2ANoneAssumption DEF Linked, Typed
  <2> QED BY <1>4, <2>9, <2>2, <2>3, <2>4, <2>5, <2>7, <2>8, LinkedStep
<1> QED BY <1>6, <1>7

(* An admission keeps the types and the links of rows, runs and messages.   *)
LEMMA AdmitLinked ==
  ASSUME Typed, Linked, NEW m \in a2aNet, A2AAdmit(m)
  PROVE  Typed' /\ Linked'
<1> DEFINE row == [st |-> "SUBMITTED", rev |-> 1, id |-> "task"]
           note == A2ANote("accepted", m.t, 1, "WORKING")
<1>1. m.t \in A2ATasks /\ a2aOut[m.t] \in A2ARow BY Message
<1>2. /\ row \in A2ARow /\ a2aIn[m.t] = A2ANone /\ a2aIn' = [a2aIn EXCEPT ![m.t] = row]
      /\ UNCHANGED <<a2aDeleg, a2aQueue>> /\ a2aRes' = a2aRes \cup {m.t} /\ a2aOpen' = a2aOpen + 1
  BY DEF A2AAdmit, A2ARow, A2AStates
<1>3. note \in Notes /\ Says(note) /\ note.t = m.t /\ note.k = "accepted"
  BY <1>1 DEF A2ANote, Notes, Kinds, Texts, Says, A2AEvents, A2AStates, A2AControls
<1>4. NetOK' /\ a2aPub \subseteq a2aPub' /\ a2aPub' \subseteq a2aPub \cup {note}
  <2>1. CASE A2AAcked(m, {note}) \/ A2ANaked(m, {note}) BY <2>1, <1>3, Published DEF Typed
  <2>2. CASE A2ANaked(m, {})
    <3>1. NetOK' /\ a2aPub \subseteq a2aPub' /\ a2aPub' \subseteq a2aPub \cup {} BY <2>2, Published DEF Typed
    <3> QED BY <3>1
  <2> QED BY <2>1, <2>2 DEF A2AAdmit
<1>5. a2aIn' \in [A2ATasks -> Rows] BY <1>1, <1>2 DEF Typed, Rows
<1>6. /\ RunsOK' /\ a2aStarted' \subseteq A2ATasks \X Nat
      /\ \A q \in a2aRuns' : q \in a2aRuns \/ q = A2ARun(m.t, 0, 1)
  <2>1. CASE A2AStart(m.t, 0, 1) BY <1>1, <2>1, StartStep
  <2>2. CASE UNCHANGED <<a2aStarted, a2aRuns>> BY <2>2 DEF Typed, RunsOK
  <2> QED BY <2>1, <2>2 DEF A2AAdmit
<1>7. a2aLeft' \in Nat BY DEF A2AAdmit, A2AFree, A2ASpend, Typed
<1>8. a2aGhost' \in [ran : [A2ATasks -> Nat], touched : SUBSET A2ATasks, stranded : SUBSET A2ATasks, late : SUBSET A2ATasks]
  <2>1. a2aGhost' = a2aGhost \/ a2aGhost' = [a2aGhost EXCEPT !.stranded = @ \cup {m.t}] BY DEF A2AAdmit
  <2>2. a2aGhost \in [ran : [A2ATasks -> Nat], touched : SUBSET A2ATasks, stranded : SUBSET A2ATasks, late : SUBSET A2ATasks] BY DEF Typed
  <2>3. a2aGhost.stranded \cup {m.t} \in SUBSET A2ATasks BY <1>1, <2>2
  <2> QED BY <2>1, <2>2, <2>3
<1>9. Typed' BY <1>1, <1>2, <1>4, <1>5, <1>6, <1>7, <1>8 DEF Typed, a2aDeleg, LogOK
<1>10. Linked'
  <2>1. Decided(note)' /\ Answers(note)'
    BY <1>1, <1>2, <1>3, A2ANoneAssumption DEF Decided, Answers, Reply, Typed, a2aDeleg
  <2>2. \A u \in A2ATasks : a2aOut'[u] = a2aOut[u] BY <1>2 DEF a2aDeleg
  <2>3. \A u \in A2ATasks : a2aIn[u] # A2ANone => a2aIn'[u] # A2ANone /\ a2aIn'[u].id = a2aIn[u].id
    BY <1>1, <1>2 DEF Typed
  <2>4. \A u \in A2ATasks : InRow(a2aIn'[u]) BY <1>1, <1>2 DEF Linked, InRow, Typed
  <2>5. a2aIn'[m.t] = row BY <1>1, <1>2 DEF Typed
  <2>6. \A r \in a2aRuns' : a2aIn'[r.t] # A2ANone /\ a2aIn'[r.t].id = "task"
    BY <1>2, <1>6, <2>3, <2>5, A2ANoneAssumption DEF Linked, Typed, RunsOK, Runs, A2ARun
  <2>7. {note} \in SUBSET Notes /\ \A p \in {note} : Decided(p)' /\ Answers(p)' BY <1>3, <2>1
  <2>8. \A u \in A2ATasks : a2aOut[u] # A2ANone => a2aOut'[u] # A2ANone BY <2>2
  <2>9. \A u \in A2ATasks : a2aIn'[u] # A2ANone => a2aOut'[u] # A2ANone BY <1>1, <1>2, <2>2, A2ANoneAssumption DEF Linked, Typed
  <2> QED BY <1>4, <2>9, <2>2, <2>3, <2>4, <2>6, <2>7, <2>8, LinkedStep
<1> QED BY <1>9, <1>10

(* A row of a task that was admitted goes on, or stays.                     *)
LEMMA RowGoesOn ==
  ASSUME Typed, Linked, NEW t \in A2ATasks, a2aIn[t] # A2ANone, a2aIn[t].id = "task",
         NEW row \in A2ARow, row.id = "task", row.st # "REJECTED",
         a2aIn' = a2aIn \/ a2aIn' = [a2aIn EXCEPT ![t] = row]
  PROVE  /\ a2aIn' \in [A2ATasks -> Rows]
         /\ \A u \in A2ATasks : a2aIn[u] # A2ANone => a2aIn'[u] # A2ANone /\ a2aIn'[u].id = a2aIn[u].id
         /\ \A u \in A2ATasks : InRow(a2aIn'[u])
         /\ \A u \in A2ATasks : a2aIn[u] = A2ANone => a2aIn'[u] = A2ANone
         /\ \A r \in a2aRuns : a2aIn'[r.t] # A2ANone /\ a2aIn'[r.t].id = "task"
<1>1. a2aIn' \in [A2ATasks -> Rows] BY DEF Typed, Rows
<1>2. \A u \in A2ATasks : a2aIn[u] # A2ANone => a2aIn'[u] # A2ANone /\ a2aIn'[u].id = a2aIn[u].id
  BY A2ANoneAssumption DEF Typed
<1>3. \A u \in A2ATasks : InRow(a2aIn'[u]) BY DEF Typed, Linked, InRow
<1>4. \A r \in a2aRuns : a2aIn'[r.t] # A2ANone /\ a2aIn'[r.t].id = "task"
  BY <1>2 DEF Typed, Linked, RunsOK, Runs
<1>5. \A u \in A2ATasks : a2aIn[u] = A2ANone => a2aIn'[u] = A2ANone BY DEF Typed
<1> QED BY <1>1, <1>2, <1>3, <1>4, <1>5

(* An executor's step that publishes one note of an admitted task, or none. *)
LEMMA ExecutorStep ==
  ASSUME Typed, Linked, NEW t \in A2ATasks, a2aIn[t] # A2ANone, NEW note \in Notes, note.t = t,
         (note.k \in {"event_status", "result"} /\ a2aIn[t].id = "task") \/ (note.k = "rejected" /\ a2aIn[t].id = "msg"),
         a2aPub \subseteq a2aPub', a2aPub' \subseteq a2aPub \cup {note}, UNCHANGED a2aDeleg,
         a2aOut[t] # A2ANone,
         \A u \in A2ATasks : a2aIn[u] # A2ANone => a2aIn'[u] # A2ANone /\ a2aIn'[u].id = a2aIn[u].id,
         \A u \in A2ATasks : InRow(a2aIn'[u]),
         \A u \in A2ATasks : a2aIn[u] = A2ANone => a2aIn'[u] = A2ANone,
         \A r \in a2aRuns' : a2aIn'[r.t] # A2ANone /\ a2aIn'[r.t].id = "task"
  PROVE  Linked'
<1>1. a2aIn'[t] # A2ANone /\ a2aIn'[t].id = a2aIn[t].id OBVIOUS
<1>2. \A p \in {note} : Decided(p)' /\ Answers(p)'
  BY <1>1 DEF Decided, Answers, Reply, a2aDeleg
<1>3. \A u \in A2ATasks : a2aOut'[u] = a2aOut[u] BY DEF a2aDeleg
<1>4. \A u \in A2ATasks : a2aOut[u] # A2ANone => a2aOut'[u] # A2ANone BY <1>3
<1>5. \A u \in A2ATasks : a2aOut'[u] = a2aOut[u] \/ OutRow(u)' BY <1>3
<1>6. {note} \in SUBSET Notes OBVIOUS
<1>7. \A u \in A2ATasks : a2aIn'[u] # A2ANone => a2aOut'[u] # A2ANone BY <1>3 DEF Linked
<1> QED BY <1>2, <1>4, <1>5, <1>6, <1>7, LinkedStep

(* A request that is delivered again keeps them.                            *)
LEMMA AgainLinked ==
  ASSUME Typed, Linked, NEW m \in a2aNet, A2AAgain(m)
  PROVE  Typed' /\ Linked'
<1>1. m.t \in A2ATasks /\ a2aOut[m.t] \in A2ARow BY Message
<1>2. PICK row \in A2ARow : row = a2aIn[m.t] BY <1>1 DEF A2AAgain, Typed, Rows
<1> DEFINE ended == row.st \in A2ATerminal
           note == IF row.st = "REJECTED" THEN A2ANote("rejected", m.t, 1, "REJECTED")
                                          ELSE A2ANote("result", m.t, row.rev, row.st)
           sent == {s \in {A2ANote("rejected", m.t, 1, "REJECTED"), A2ANote("result", m.t, row.rev, row.st)} :
                      ended /\ (s.k = "rejected" <=> row.st = "REJECTED")}
<1>3. InRow(row) /\ row # A2ANone BY <1>1, <1>2, A2ANoneAssumption DEF Linked
<1>4. sent \subseteq {note} /\ note.t = m.t
      /\ ((note.k = "result" /\ row.id = "task") \/ (note.k = "rejected" /\ row.id = "msg"))
  <2>1. CASE row.st = "REJECTED" BY <1>3, <2>1 DEF A2ANote, InRow
  <2>2. CASE row.st # "REJECTED"
    <3>1. note = A2ANote("result", m.t, row.rev, row.st) BY <2>2
    <3>2. A2ANote("rejected", m.t, 1, "REJECTED").k = "rejected" BY DEF A2ANote
    <3>3. sent \subseteq {note} BY <2>2, <3>1, <3>2
    <3>4. note.t = m.t /\ note.k = "result" BY <3>1 DEF A2ANote
    <3>5. row.id = "task" BY <1>3, <2>2 DEF InRow
    <3> QED BY <3>3, <3>4, <3>5
  <2> QED BY <2>1, <2>2
<1>5. note \in Notes /\ Says(note)
  BY <1>1, <1>2 DEF A2ANote, Notes, Kinds, Texts, Says, A2AEvents, A2AStates, A2ATerminal, A2AControls, A2ARow
<1>6. /\ UNCHANGED <<a2aDeleg, a2aIn, a2aRes, a2aOpen, a2aQueue, a2aGhost>>
      /\ IF ended THEN UNCHANGED <<a2aStarted, a2aRuns>> ELSE A2AStart(m.t, 0, row.rev)
      /\ \E s \in {{}, sent} : A2AAcked(m, s) \/ A2ANaked(m, s)
      /\ A2AFree \/ A2ASpend
  BY <1>2 DEF A2AAgain
<1>7. NetOK' /\ a2aPub \subseteq a2aPub' /\ a2aPub' \subseteq a2aPub \cup {note}
  <2>1. PICK s \in SUBSET {note} : A2AAcked(m, s) \/ A2ANaked(m, s) BY <1>4, <1>6
  <2>2. NetOK' /\ a2aPub \subseteq a2aPub' /\ a2aPub' \subseteq a2aPub \cup s
    BY <2>1, <1>5, Published DEF Typed
  <2> QED BY <2>2
<1>8. /\ RunsOK' /\ a2aStarted' \subseteq A2ATasks \X Nat
      /\ \A q \in a2aRuns' : q \in a2aRuns \/ (q = A2ARun(m.t, 0, row.rev) /\ row.st \notin A2ATerminal)
  <2>1. CASE ~ended BY <1>1, <1>2, <1>6, <2>1, StartStep DEF A2ARow
  <2>2. CASE ended BY <1>6, <2>2 DEF Typed, RunsOK
  <2> QED BY <2>1, <2>2
<1>9. Typed' BY <1>6, <1>7, <1>8 DEF Typed, a2aDeleg, LogOK, A2AFree, A2ASpend
<1>10. Linked'
  <2>1. \A u \in A2ATasks : a2aIn'[u] = a2aIn[u] BY <1>6
  <2>2. \A u \in A2ATasks : InRow(a2aIn'[u]) BY <2>1 DEF Linked
  <2>3. \A r \in a2aRuns' : a2aIn'[r.t] # A2ANone /\ a2aIn'[r.t].id = "task"
    <3> SUFFICES ASSUME NEW r \in a2aRuns' PROVE a2aIn'[r.t] # A2ANone /\ a2aIn'[r.t].id = "task" OBVIOUS
    <3>1. CASE r \in a2aRuns BY <1>6, <3>1 DEF Linked
    <3>2. CASE r = A2ARun(m.t, 0, row.rev) /\ row.st \notin A2ATerminal
      BY <1>2, <1>3, <1>6, <3>2 DEF A2ARun, InRow, A2ATerminal
    <3> QED BY <1>8, <3>1, <3>2
  <2>4. /\ a2aIn[m.t] # A2ANone /\ a2aOut[m.t] # A2ANone
        /\ \A u \in A2ATasks : a2aIn[u] # A2ANone => a2aIn'[u] # A2ANone /\ a2aIn'[u].id = a2aIn[u].id
    BY <1>1, <1>2, <1>3, <2>1, A2ANoneAssumption
  <2>5. (note.k \in {"event_status", "result"} /\ a2aIn[m.t].id = "task") \/ (note.k = "rejected" /\ a2aIn[m.t].id = "msg")
    BY <1>2, <1>4
  <2>6. UNCHANGED a2aDeleg BY <1>6
  <2>7. \A u \in A2ATasks : a2aIn[u] = A2ANone => a2aIn'[u] = A2ANone BY <2>1
  <2> HIDE DEF note
  <2> QED BY <1>1, <1>4, <1>5, <1>7, <2>2, <2>3, <2>4, <2>5, <2>6, <2>7, ExecutorStep
<1> QED BY <1>9, <1>10

(* The controls: of a task that was admitted.                               *)
LEMMA ControlMessage ==
  ASSUME Typed, Linked, NEW m \in a2aNet, m.k \in A2AControls
  PROVE  /\ m.t \in A2ATasks /\ m.rev \in Nat /\ a2aIn[m.t] \in A2ARow /\ a2aIn[m.t] # A2ANone
         /\ a2aIn[m.t].id = "task" /\ a2aIn[m.t].st # "REJECTED" /\ a2aOut[m.t] # A2ANone
<1>1. /\ m.t \in A2ATasks /\ m.rev \in Nat /\ a2aOut[m.t] \in A2ARow /\ a2aIn[m.t] \in A2ARow
      /\ a2aIn[m.t].id # "msg"
  BY Message DEF A2AControls
<1>2. InRow(a2aIn[m.t]) BY <1>1 DEF Linked
<1> QED BY <1>1, <1>2, A2ANoneAssumption DEF InRow

(* A control that applies at its revision, and says so in a note.           *)
LEMMA ControlApplied ==
  ASSUME Typed, Linked, NEW m \in a2aNet, m.k \in A2AControls, NEW rev \in Nat, NEW st \in A2AStates, st # "REJECTED",
         a2aIn' = a2aIn \/ a2aIn' = [a2aIn EXCEPT ![m.t] = A2AApplied(a2aIn[m.t], rev, st)],
         NEW k \in {"event_status", "result"}, NEW says \in A2AStates,
         a2aPub \subseteq a2aPub', a2aPub' \subseteq a2aPub \cup {A2ANote(k, m.t, rev, says)}, UNCHANGED a2aDeleg,
         \A q \in a2aRuns' : q \in a2aRuns \/ q.t = m.t
  PROVE  a2aIn' \in [A2ATasks -> Rows] /\ Linked'
<1>1. /\ m.t \in A2ATasks /\ a2aIn[m.t] \in A2ARow /\ a2aIn[m.t] # A2ANone
      /\ a2aIn[m.t].id = "task" /\ a2aIn[m.t].st # "REJECTED" /\ a2aOut[m.t] # A2ANone
  BY ControlMessage
<1> DEFINE row == A2AApplied(a2aIn[m.t], rev, st)
           note == A2ANote(k, m.t, rev, says)
<1>2. row \in A2ARow /\ row.id = "task" /\ row.st # "REJECTED" BY <1>1, AppliedRow
<1>3. /\ a2aIn' \in [A2ATasks -> Rows]
      /\ \A u \in A2ATasks : a2aIn[u] # A2ANone => a2aIn'[u] # A2ANone /\ a2aIn'[u].id = a2aIn[u].id
      /\ \A u \in A2ATasks : InRow(a2aIn'[u])
      /\ \A u \in A2ATasks : a2aIn[u] = A2ANone => a2aIn'[u] = A2ANone
      /\ \A r \in a2aRuns : a2aIn'[r.t] # A2ANone /\ a2aIn'[r.t].id = "task"
  <2> HIDE DEF row
  <2> QED BY <1>1, <1>2, RowGoesOn DEF row
<1>4. \A r \in a2aRuns' : a2aIn'[r.t] # A2ANone /\ a2aIn'[r.t].id = "task" BY <1>1, <1>3
<1>5. note \in Notes /\ note.t = m.t /\ note.k = k
  BY <1>1 DEF A2ANote, Notes, Kinds, Texts, A2AEvents
<1> HIDE DEF note, row
<1>6. a2aPub' \subseteq a2aPub \cup {note} BY DEF note
<1>7. note.k \in {"event_status", "result"} /\ a2aIn[m.t].id = "task" BY <1>1, <1>5
<1>8. Linked'
  <2>1. PICK t \in A2ATasks : t = m.t BY <1>1
  <2> QED BY <1>1, <1>3, <1>4, <1>5, <1>6, <1>7, <2>1, ExecutorStep
<1> QED BY <1>3, <1>8

(* A control touches its task, or nothing.                                  *)
LEMMA TouchType ==
  ASSUME Typed, NEW t \in A2ATasks, A2ATouch(t) \/ UNCHANGED a2aGhost
  PROVE  a2aGhost' \in [ran : [A2ATasks -> Nat], touched : SUBSET A2ATasks, stranded : SUBSET A2ATasks, late : SUBSET A2ATasks]
<1>1. a2aGhost \in [ran : [A2ATasks -> Nat], touched : SUBSET A2ATasks, stranded : SUBSET A2ATasks, late : SUBSET A2ATasks] BY DEF Typed
<1>2. a2aGhost.touched \cup {t} \in SUBSET A2ATasks BY <1>1
<1>3. a2aGhost' = [a2aGhost EXCEPT !.touched = @ \cup {t}] \/ a2aGhost' = a2aGhost BY DEF A2ATouch
<1> QED BY <1>1, <1>2, <1>3

(* A cancel keeps them.                                                     *)
LEMMA CancelLinked ==
  ASSUME Typed, Linked, NEW m \in a2aNet, A2ACancel(m)
  PROVE  Typed' /\ Linked'
<1>1. m.k \in A2AControls /\ m.t \in A2ATasks /\ a2aIn[m.t] # A2ANone
  <2>1. m.k \in A2AControls BY DEF A2ACancel, A2AControls
  <2> QED BY <2>1, ControlMessage
<1>2. PICK rev \in Nat : rev = A2AControlRev(m) BY <1>1, ControlRev
<1> DEFINE note == A2ANote("event_status", m.t, rev, "CANCELED")
<1>3. /\ \/ A2ANaked(m, {}) /\ A2AFree /\ UNCHANGED <<a2aIn, a2aGhost>>
         \/ /\ a2aIn' = [a2aIn EXCEPT ![m.t] = A2AApplied(a2aIn[m.t], rev, "CANCELED")] /\ A2ATouch(m.t)
            /\ A2AFinish(m, {note})
      /\ UNCHANGED <<a2aDeleg, a2aRes, a2aOpen, a2aStarted, a2aRuns, a2aQueue>>
  BY <1>2 DEF A2ACancel
<1>4. note \in Notes /\ Says(note)
  BY <1>1 DEF A2ANote, Notes, Kinds, Texts, Says, A2AEvents, A2AStates, A2ATerminal, A2AControls
<1>5. NetOK' /\ a2aPub \subseteq a2aPub' /\ a2aPub' \subseteq a2aPub \cup {note} /\ a2aLeft' \in Nat
  <2>1. CASE A2AFinish(m, {note}) BY <1>4, <2>1, Finished DEF Typed
  <2>2. CASE A2ANaked(m, {}) /\ A2AFree
    <3>1. NetOK' /\ a2aPub \subseteq a2aPub' /\ a2aPub' \subseteq a2aPub \cup {} BY <2>2, Published DEF Typed
    <3> QED BY <2>2, <3>1 DEF A2AFree, Typed
  <2> QED BY <1>3, <2>1, <2>2
<1>6. a2aIn' \in [A2ATasks -> Rows] /\ Linked'
  <2>1. a2aIn' = a2aIn \/ a2aIn' = [a2aIn EXCEPT ![m.t] = A2AApplied(a2aIn[m.t], rev, "CANCELED")] BY <1>3
  <2>2. \A q \in a2aRuns' : q \in a2aRuns \/ q.t = m.t BY <1>3
  <2>3. "CANCELED" \in A2AStates BY DEF A2AStates, A2ATerminal
  <2>4. UNCHANGED a2aDeleg BY <1>3
  <2> QED BY <1>1, <1>5, <2>1, <2>2, <2>3, <2>4, ControlApplied
<1>7. a2aGhost' \in [ran : [A2ATasks -> Nat], touched : SUBSET A2ATasks, stranded : SUBSET A2ATasks, late : SUBSET A2ATasks]
  BY <1>1, <1>3, TouchType
<1> QED BY <1>3, <1>5, <1>6, <1>7 DEF Typed, a2aDeleg, RunsOK, LogOK

(* A request for the status keeps them.                                     *)
LEMMA StatusLinked ==
  ASSUME Typed, Linked, NEW m \in a2aNet, A2AStatusRequest(m)
  PROVE  Typed' /\ Linked'
<1>1. m.k \in A2AControls /\ m.t \in A2ATasks /\ a2aIn[m.t] # A2ANone /\ a2aIn[m.t] \in A2ARow
  <2>1. m.k \in A2AControls BY DEF A2AStatusRequest, A2AControls
  <2> QED BY <2>1, ControlMessage
<1>2. PICK rev \in Nat, st \in A2AStates : rev = a2aIn[m.t].rev /\ st = a2aIn[m.t].st BY <1>1 DEF A2ARow
<1> DEFINE note == A2ANote("event_status", m.t, rev, st)
<1>3. A2AFinish(m, {note}) /\ UNCHANGED <<a2aDeleg, a2aExec, a2aGhost>> BY <1>2 DEF A2AStatusRequest
<1>4. note \in Notes /\ Says(note)
  BY <1>1 DEF A2ANote, Notes, Kinds, Texts, Says, A2AEvents, A2AControls
<1>5. NetOK' /\ a2aPub \subseteq a2aPub' /\ a2aPub' \subseteq a2aPub \cup {note} /\ a2aLeft' \in Nat
  BY <1>3, <1>4, Finished DEF Typed
<1>6. a2aIn' \in [A2ATasks -> Rows] /\ Linked'
  <2>1. a2aIn' = a2aIn BY <1>3 DEF a2aExec
  <2>2. \A q \in a2aRuns' : q \in a2aRuns \/ q.t = m.t BY <1>3 DEF a2aExec
  <2>3. "WORKING" \in A2AStates /\ "WORKING" # "REJECTED" BY DEF A2AStates
  <2>4. UNCHANGED a2aDeleg BY <1>3
  <2> QED BY <1>1, <1>5, <2>1, <2>2, <2>3, <2>4, ControlApplied
<1> QED BY <1>3, <1>5, <1>6 DEF Typed, a2aDeleg, a2aExec, RunsOK, LogOK

(* A reply to a task that asked keeps them, with the run it starts.         *)
LEMMA ReplyLinked ==
  ASSUME Typed, Linked, NEW m \in a2aNet, A2AReply(m)
  PROVE  Typed' /\ Linked'
<1>1. m.k \in A2AControls /\ m.t \in A2ATasks /\ m.rev \in Nat /\ a2aIn[m.t] # A2ANone /\ a2aIn[m.t] \in A2ARow
  <2>1. m.k \in A2AControls BY DEF A2AReply, A2AControls
  <2> QED BY <2>1, ControlMessage
<1>2. A2AControlRev(m) \in Nat /\ a2aIn[m.t].rev \in Nat BY <1>1, ControlRev DEF A2ARow
<1>3. PICK rev \in Nat : rev = IF A2AAnswers(m.k, a2aIn[m.t].st) THEN A2AControlRev(m) ELSE a2aIn[m.t].rev
  BY <1>2
<1> DEFINE note == A2ANote("event_status", m.t, rev, "WORKING")
<1>4. /\ a2aIn' = a2aIn \/ a2aIn' = [a2aIn EXCEPT ![m.t] = A2AApplied(a2aIn[m.t], rev, "WORKING")]
      /\ (A2AStart(m.t, m.rev, rev) \/ UNCHANGED <<a2aStarted, a2aRuns>>)
      /\ \E s \in SUBSET {note} : A2AAcked(m, s) \/ A2ANaked(m, s)
      /\ (A2AFree \/ A2ASpend)
      /\ UNCHANGED <<a2aDeleg, a2aRes, a2aOpen, a2aQueue, a2aGhost>>
  <2>1. /\ a2aIn' = a2aIn \/ a2aIn' = [a2aIn EXCEPT ![m.t] = A2AApplied(a2aIn[m.t], rev, "WORKING")]
        /\ UNCHANGED <<a2aDeleg, a2aRes, a2aOpen, a2aQueue, a2aGhost>>
    BY <1>3 DEF A2AReply
  <2>2. /\ (A2AStart(m.t, m.rev, rev) \/ UNCHANGED <<a2aStarted, a2aRuns>>)
        /\ \E s \in {{}, {note}} : A2AAcked(m, s) \/ A2ANaked(m, s)
        /\ (A2AFree \/ A2ASpend)
    BY <1>3 DEF A2AReply
  <2>3. {} \in SUBSET {note} /\ {note} \in SUBSET {note} OBVIOUS
  <2> QED BY <2>1, <2>2, <2>3
<1>5. note \in Notes /\ Says(note)
  BY <1>1 DEF A2ANote, Notes, Kinds, Texts, Says, A2AEvents, A2AStates, A2AControls
<1>6. NetOK' /\ a2aPub \subseteq a2aPub' /\ a2aPub' \subseteq a2aPub \cup {note} /\ a2aLeft' \in Nat
  <2>1. PICK s \in SUBSET {note} : A2AAcked(m, s) \/ A2ANaked(m, s) BY <1>4
  <2>2. NetOK' /\ a2aPub \subseteq a2aPub' /\ a2aPub' \subseteq a2aPub \cup s
    BY <2>1, <1>5, Published DEF Typed
  <2> QED BY <1>4, <2>2 DEF A2AFree, A2ASpend, Typed
<1>7. /\ RunsOK' /\ a2aStarted' \subseteq A2ATasks \X Nat
      /\ \A q \in a2aRuns' : q \in a2aRuns \/ q.t = m.t
  <2>1. CASE A2AStart(m.t, m.rev, rev) BY <1>1, <2>1, StartStep DEF A2ARun
  <2>2. CASE UNCHANGED <<a2aStarted, a2aRuns>> BY <2>2 DEF Typed, RunsOK
  <2> QED BY <1>4, <2>1, <2>2
<1>8. a2aIn' \in [A2ATasks -> Rows] /\ Linked'
  <2>1. "WORKING" \in A2AStates /\ "WORKING" # "REJECTED" BY DEF A2AStates
  <2>2. UNCHANGED a2aDeleg BY <1>4
  <2> QED BY <1>1, <1>4, <1>6, <1>7, <2>1, <2>2, ControlApplied
<1> QED BY <1>4, <1>6, <1>7, <1>8 DEF Typed, a2aDeleg, LogOK

(* A denial keeps them.                                                     *)
LEMMA DenyLinked ==
  ASSUME Typed, Linked, NEW m \in a2aNet, A2ADeny(m)
  PROVE  Typed' /\ Linked'
<1>1. m.k \in A2AControls /\ m.t \in A2ATasks /\ a2aIn[m.t] # A2ANone
  <2>1. m.k \in A2AControls BY DEF A2ADeny, A2AControls
  <2> QED BY <2>1, ControlMessage
<1>2. PICK rev \in Nat : rev = A2AControlRev(m) BY <1>1, ControlRev
<1> DEFINE note == A2ANote("result", m.t, rev, "FAILED")
<1>3. /\ \/ A2AAcked(m, {}) /\ A2AFree /\ UNCHANGED <<a2aIn, a2aGhost>>
         \/ /\ a2aIn' = [a2aIn EXCEPT ![m.t] = A2AApplied(a2aIn[m.t], rev, "FAILED")] /\ A2ATouch(m.t)
            /\ A2AFinish(m, {note})
      /\ UNCHANGED <<a2aDeleg, a2aRes, a2aOpen, a2aStarted, a2aRuns, a2aQueue>>
  BY <1>2 DEF A2ADeny
<1>4. note \in Notes /\ Says(note)
  BY <1>1 DEF A2ANote, Notes, Kinds, Texts, Says, A2AEvents, A2AStates, A2ATerminal, A2AControls
<1>5. NetOK' /\ a2aPub \subseteq a2aPub' /\ a2aPub' \subseteq a2aPub \cup {note} /\ a2aLeft' \in Nat
  <2>1. CASE A2AFinish(m, {note}) BY <1>4, <2>1, Finished DEF Typed
  <2>2. CASE A2AAcked(m, {}) /\ A2AFree
    <3>1. NetOK' /\ a2aPub \subseteq a2aPub' /\ a2aPub' \subseteq a2aPub \cup {} BY <2>2, Published DEF Typed
    <3> QED BY <2>2, <3>1 DEF A2AFree, Typed
  <2> QED BY <1>3, <2>1, <2>2
<1>6. a2aIn' \in [A2ATasks -> Rows] /\ Linked'
  <2>1. a2aIn' = a2aIn \/ a2aIn' = [a2aIn EXCEPT ![m.t] = A2AApplied(a2aIn[m.t], rev, "FAILED")] BY <1>3
  <2>2. \A q \in a2aRuns' : q \in a2aRuns \/ q.t = m.t BY <1>3
  <2>3. "FAILED" \in A2AStates BY DEF A2AStates, A2ATerminal
  <2>4. UNCHANGED a2aDeleg BY <1>3
  <2> QED BY <1>1, <1>5, <2>1, <2>2, <2>3, <2>4, ControlApplied
<1>7. a2aGhost' \in [ran : [A2ATasks -> Nat], touched : SUBSET A2ATasks, stranded : SUBSET A2ATasks, late : SUBSET A2ATasks]
  BY <1>1, <1>3, TouchType
<1> QED BY <1>3, <1>5, <1>6, <1>7 DEF Typed, a2aDeleg, RunsOK, LogOK

(* A step of the delegator publishes nothing, and moves the row of the      *)
(* task it was told of.                                                     *)
LEMMA DelegatorStep ==
  ASSUME Typed, Linked, NEW t \in A2ATasks, a2aPub' = a2aPub, UNCHANGED a2aExec,
         NEW row \in A2ARow, a2aOut' = a2aOut \/ a2aOut' = [a2aOut EXCEPT ![t] = row],
         row.id = "none" => row.st = "SUBMITTED",
         row.id = "msg" => row.st = "REJECTED" /\ WasTold(t, "rejected"),
         row.id = "task" => WasTold(t, "accepted"),
         row.st \in A2ATerminal => \E p \in a2aPub : p.t = t /\ p.st = row.st,
         row.st \in A2AAsking => Asked(t, row.rev)
  PROVE  a2aOut' \in [A2ATasks -> Rows] /\ Linked'
<1>1. a2aOut' \in [A2ATasks -> Rows] BY DEF Typed, Rows
<1>2. \A u \in A2ATasks : a2aOut[u] # A2ANone => a2aOut'[u] # A2ANone
  BY A2ANoneAssumption DEF Typed
<1>3. /\ \A u \in A2ATasks : a2aIn'[u] = a2aIn[u]
      /\ \A u \in A2ATasks : InRow(a2aIn'[u])
      /\ \A r \in a2aRuns' : a2aIn'[r.t] # A2ANone /\ a2aIn'[r.t].id = "task"
  BY DEF a2aExec, Linked
<1>4. \A u \in A2ATasks : a2aOut'[u] = a2aOut[u] \/ OutRow(u)'
  <2> SUFFICES ASSUME NEW u \in A2ATasks, a2aOut'[u] # a2aOut[u] PROVE OutRow(u)' OBVIOUS
  <2>1. u = t /\ a2aOut'[u] = row BY DEF Typed
  <2> QED BY <2>1 DEF OutRow, WasTold, Told, Asked
<1>5. PICK sent \in SUBSET Notes : sent = {} OBVIOUS
<1>6. /\ a2aPub \subseteq a2aPub' /\ a2aPub' \subseteq a2aPub \cup sent
      /\ \A p \in sent : Decided(p)' /\ Answers(p)'
  BY <1>5
<1>7. \A u \in A2ATasks : a2aIn'[u] # A2ANone => a2aOut'[u] # A2ANone BY <1>2, <1>3 DEF Linked
<1> QED BY <1>1, <1>2, <1>3, <1>4, <1>6, <1>7, LinkedStep

(* The executor's variables are typed as they were.                         *)
LEMMA ExecutorRests ==
  ASSUME Typed, UNCHANGED <<a2aExec, a2aGhost>>, NetOK', a2aOut' \in [A2ATasks -> Rows], LogOK', a2aLeft' \in Nat
  PROVE  Typed'
BY DEF Typed, a2aExec, RunsOK

(* An acceptance that reaches the delegator keeps them.                     *)
LEMMA AcceptedLinked ==
  ASSUME Typed, Linked, NEW m \in a2aNet, A2AAccepted(m)
  PROVE  Typed' /\ Linked'
<1>1. /\ m.t \in A2ATasks /\ a2aOut[m.t] \in A2ARow
      /\ \E p \in a2aPub : p.k = m.k /\ p.t = m.t
  BY Message
<1>2. m.k = "accepted" /\ UNCHANGED <<a2aExec, a2aLog, a2aSeen, a2aGhost>> BY DEF A2AAccepted
<1> DEFINE row == [st |-> "WORKING", rev |-> a2aOut[m.t].rev + 1, id |-> "task"]
<1>3. row \in A2ARow /\ row.st = "WORKING" /\ row.id = "task"
  BY <1>1 DEF A2ARow, A2AStates
<1>4. a2aOut' = a2aOut \/ a2aOut' = [a2aOut EXCEPT ![m.t] = row] BY DEF A2AAccepted
<1>5. (A2ANaked(m, {}) /\ A2AFree) \/ A2AFinish(m, {}) BY DEF A2AAccepted
<1>6. NetOK' /\ a2aPub' = a2aPub /\ a2aLeft' \in Nat
  <2>1. CASE A2ANaked(m, {}) /\ A2AFree
    <3>1. NetOK' /\ a2aPub \subseteq a2aPub' /\ a2aPub' \subseteq a2aPub \cup {} BY <2>1, Published DEF Typed
    <3> QED BY <2>1, <3>1 DEF A2AFree, Typed
  <2>2. CASE A2AFinish(m, {})
    <3>1. NetOK' /\ a2aPub \subseteq a2aPub' /\ a2aPub' \subseteq a2aPub \cup {} /\ a2aLeft' \in Nat
      BY <2>2, Finished DEF Typed
    <3> QED BY <3>1
  <2> QED BY <1>5, <2>1, <2>2
<1>7. a2aOut' \in [A2ATasks -> Rows] /\ Linked'
  <2>1. WasTold(m.t, "accepted") BY <1>1, <1>2 DEF WasTold
  <2>2. row.st \notin A2ATerminal /\ row.st \notin A2AAsking BY <1>3 DEF A2ATerminal, A2AAsking
  <2>3. UNCHANGED a2aExec BY <1>2
  <2> HIDE DEF row
  <2> QED BY <1>1, <1>3, <1>4, <1>6, <2>1, <2>2, <2>3, DelegatorStep
<1>8. LogOK' BY <1>2 DEF Typed, LogOK
<1> QED BY <1>2, <1>6, <1>7, <1>8, ExecutorRests

(* A refusal that reaches the delegator keeps them.                         *)
LEMMA RejectedLinked ==
  ASSUME Typed, Linked, NEW m \in a2aNet, A2ARejected(m)
  PROVE  Typed' /\ Linked'
<1>1. /\ m.t \in A2ATasks /\ a2aOut[m.t] \in A2ARow /\ Says(m)
      /\ \E p \in a2aPub : p.k = m.k /\ p.t = m.t /\ p.st = m.st
  BY Message
<1>2. m.k = "rejected" /\ UNCHANGED <<a2aExec, a2aLog, a2aSeen, a2aGhost>> BY DEF A2ARejected
<1> DEFINE row == [st |-> "REJECTED", rev |-> a2aOut[m.t].rev + 1, id |-> "msg"]
<1>3. row \in A2ARow /\ row.st = "REJECTED" /\ row.id = "msg"
  BY <1>1 DEF A2ARow, A2AStates, A2ATerminal
<1>4. a2aOut' = a2aOut \/ a2aOut' = [a2aOut EXCEPT ![m.t] = row] BY DEF A2ARejected
<1>5. (A2ANaked(m, {}) /\ A2AFree) \/ A2AFinish(m, {}) BY DEF A2ARejected
<1>6. NetOK' /\ a2aPub' = a2aPub /\ a2aLeft' \in Nat
  <2>1. CASE A2ANaked(m, {}) /\ A2AFree
    <3>1. NetOK' /\ a2aPub \subseteq a2aPub' /\ a2aPub' \subseteq a2aPub \cup {} BY <2>1, Published DEF Typed
    <3> QED BY <2>1, <3>1 DEF A2AFree, Typed
  <2>2. CASE A2AFinish(m, {})
    <3>1. NetOK' /\ a2aPub \subseteq a2aPub' /\ a2aPub' \subseteq a2aPub \cup {} /\ a2aLeft' \in Nat
      BY <2>2, Finished DEF Typed
    <3> QED BY <3>1
  <2> QED BY <1>5, <2>1, <2>2
<1>7. a2aOut' \in [A2ATasks -> Rows] /\ Linked'
  <2>1. WasTold(m.t, "rejected") /\ \E p \in a2aPub : p.t = m.t /\ p.st = row.st
    BY <1>1, <1>2, <1>3 DEF WasTold, Says
  <2>2. row.st \notin A2AAsking BY <1>3 DEF A2AAsking
  <2>3. UNCHANGED a2aExec BY <1>2
  <2> HIDE DEF row
  <2> QED BY <1>1, <1>3, <1>4, <1>6, <2>1, <2>2, <2>3, DelegatorStep
<1>8. LogOK' BY <1>2 DEF Typed, LogOK
<1> QED BY <1>2, <1>6, <1>7, <1>8, ExecutorRests

(* An event that reaches the delegator keeps them.                          *)
LEMMA EventLinked ==
  ASSUME Typed, Linked, NEW m \in a2aNet, A2AEvent(m)
  PROVE  Typed' /\ Linked'
<1>1. /\ m.t \in A2ATasks /\ a2aOut[m.t] \in A2ARow /\ Says(m) /\ m.rev \in Nat /\ m.k \in Kinds /\ m.st \in Texts
      /\ \E p \in a2aPub : p.t = m.t /\ p.rev = m.rev /\ p.st = m.st
  BY Message
<1>2. m.k \in {"event_status", "result"} /\ UNCHANGED <<a2aExec, a2aGhost>> BY DEF A2AEvent
<1>3. m.st \in A2AStates BY <1>1, <1>2 DEF Says
<1> DEFINE row == A2AApplied(a2aOut[m.t], m.rev, m.st)
<1>4. /\ row \in A2ARow /\ row.id = a2aOut[m.t].id
      /\ row = a2aOut[m.t] \/ (row.st = m.st /\ row.rev = m.rev)
  BY <1>1, <1>3, AppliedRow
<1>5. \/ /\ a2aOut[m.t].id = "task" /\ a2aOut' = [a2aOut EXCEPT ![m.t] = row]
         /\ a2aLog' = a2aLog \cup {[t |-> m.t, rev |-> m.rev, k |-> m.k, st |-> m.st]}
         /\ a2aSeen' \in {a2aSeen, a2aSeen \cup {[t |-> m.t, rev |-> m.rev, k |-> m.k]}}
      \/ UNCHANGED <<a2aOut, a2aLog, a2aSeen>>
  BY DEF A2AEvent, A2AAdds, a2aDeleg
<1>6. NetOK' /\ a2aPub' = a2aPub /\ a2aLeft' \in Nat
  <2>1. (A2AAcked(m, {}) \/ A2ANaked(m, {})) /\ (A2AFree \/ A2ASpend) BY DEF A2AEvent
  <2>2. NetOK' /\ a2aPub \subseteq a2aPub' /\ a2aPub' \subseteq a2aPub \cup {} BY <2>1, Published DEF Typed
  <2>3. a2aPub' = a2aPub BY <2>2
  <2>4. a2aLeft' \in Nat BY <2>1 DEF A2AFree, A2ASpend, Typed
  <2> QED BY <2>2, <2>3, <2>4
<1>7. a2aOut' \in [A2ATasks -> Rows] /\ Linked'
  <2>1. UNCHANGED a2aExec BY <1>2
  <2>2. OutRow(m.t) /\ a2aOut[m.t] # A2ANone BY <1>1, A2ANoneAssumption DEF Linked
  <2>3. CASE a2aOut[m.t].id = "task" /\ a2aOut' = [a2aOut EXCEPT ![m.t] = row]
    <3>1. WasTold(m.t, "accepted") BY <2>2, <2>3 DEF OutRow
    <3>2. row.st \in A2ATerminal => \E p \in a2aPub : p.t = m.t /\ p.st = row.st
      BY <1>1, <1>4, <2>2 DEF OutRow, Told
    <3>3. row.st \in A2AAsking => Asked(m.t, row.rev)
      BY <1>1, <1>4, <2>2 DEF OutRow, Asked
    <3>4. row.id = "task" BY <1>4, <2>3
    <3> HIDE DEF row
    <3> QED BY <1>1, <1>4, <1>6, <2>1, <2>3, <3>1, <3>2, <3>3, <3>4, DelegatorStep
  <2>4. CASE UNCHANGED a2aOut
    <3>1. OutRow(m.t) /\ a2aOut' = a2aOut BY <2>2, <2>4
    <3>2. PICK old \in A2ARow : old = a2aOut[m.t] BY <1>1
    <3>3. /\ old.id = "none" => old.st = "SUBMITTED"
          /\ old.id = "msg" => old.st = "REJECTED" /\ WasTold(m.t, "rejected")
          /\ old.id = "task" => WasTold(m.t, "accepted")
          /\ old.st \in A2ATerminal => \E p \in a2aPub : p.t = m.t /\ p.st = old.st
          /\ old.st \in A2AAsking => Asked(m.t, old.rev)
      BY <2>2, <3>2 DEF OutRow, Told
    <3> QED BY <1>1, <1>6, <2>1, <3>1, <3>3, DelegatorStep
  <2> QED BY <1>5, <2>3, <2>4
<1>8. LogOK'
  <2> DEFINE e == [t |-> m.t, rev |-> m.rev, k |-> m.k, st |-> m.st]
             key == [t |-> m.t, rev |-> m.rev, k |-> m.k]
  <2>1. /\ e \in [t : A2ATasks, rev : Nat, k : Kinds, st : Texts] /\ key \in [t : A2ATasks, rev : Nat, k : Kinds]
        /\ e.t = key.t /\ e.rev = key.rev /\ e.k = key.k
    BY <1>1
  <2>2. CASE a2aLog' = a2aLog \cup {e} /\ a2aSeen' \in {a2aSeen, a2aSeen \cup {key}}
    <3>1. a2aSeen' \subseteq a2aSeen \cup {key} BY <2>2
    <3> HIDE DEF e, key
    <3> QED BY <2>1, <2>2, <3>1 DEF Typed, LogOK
  <2>3. CASE UNCHANGED <<a2aLog, a2aSeen>> BY <2>3 DEF Typed, LogOK
  <2> QED BY <1>5, <2>2, <2>3
<1> QED BY <1>2, <1>6, <1>7, <1>8, ExecutorRests

(* The executor's runs. One that ends without its row keeps them.           *)
Lately(r, st) ==
  /\ A2AGoes(r, [r EXCEPT !.st = "publish", !.res = st, !.rev = r.base + 1])
  /\ a2aGhost' = [a2aGhost EXCEPT !.late = @ \cup {r.t}] /\ UNCHANGED a2aIn

LEMMA LateLinked ==
  ASSUME Typed, Linked, NEW r \in a2aRuns, NEW st \in RunEnds \cup {"REJECTED"}, Lately(r, st),
         UNCHANGED <<a2aDeleg, a2aNet, a2aPub, a2aStarted>>, a2aRes' \subseteq A2ATasks, a2aOpen' \in Nat,
         a2aQueue' \in Seq(Jobs), a2aLeft' \in Nat
  PROVE  Typed' /\ Linked'
<1> DEFINE new == [r EXCEPT !.st = "publish", !.res = st, !.rev = r.base + 1]
<1>1. a2aRuns' = (a2aRuns \ {r}) \cup {new} /\ UNCHANGED a2aIn BY DEF Lately, A2AGoes
<1>2. r \in Runs BY DEF Typed, RunsOK
<1>3. new \in Runs /\ new.st = "publish" /\ new.res = st /\ new.t = r.t
  <2>1. r.base + 1 \in Nat BY <1>2 DEF Runs
  <2> QED BY <1>2, <2>1 DEF Runs, RunStages, RunEnds, Texts, A2AStates, A2ATerminal, A2AAsking
<1>4. RunsOK'
  <2> HIDE DEF new
  <2> QED BY <1>1, <1>3 DEF Typed, RunsOK
<1>5. a2aGhost' \in [ran : [A2ATasks -> Nat], touched : SUBSET A2ATasks, stranded : SUBSET A2ATasks, late : SUBSET A2ATasks]
  <2>1. r.t \in A2ATasks BY <1>2 DEF Runs
  <2> QED BY <2>1 DEF Typed, Lately
<1>6. Typed' BY <1>1, <1>4, <1>5 DEF Typed, a2aDeleg, NetOK, LogOK
<1>7. \A q \in a2aRuns' : \E x \in a2aRuns : x.t = q.t BY <1>1, <1>3
<1>8. Linked' BY <1>1, <1>7 DEF Linked, a2aDeleg, OutRow, Told, WasTold, Asked, Decided, Answers
<1> QED BY <1>6, <1>8

(* A run that found no reservation keeps them.                              *)
LEMMA RunLostLinked ==
  ASSUME Typed, Linked, NEW r \in a2aRuns, A2ARunLost(r)
  PROVE  Typed' /\ Linked'
<1>1. Lately(r, "REJECTED") BY DEF A2ARunLost, Lately
<1>2. UNCHANGED <<a2aDeleg, a2aNet, a2aPub, a2aRes, a2aOpen, a2aStarted, a2aQueue, a2aLeft>> BY DEF A2ARunLost
<1>3. a2aRes' \subseteq A2ATasks /\ a2aOpen' \in Nat /\ a2aQueue' \in Seq(Jobs) /\ a2aLeft' \in Nat BY <1>2 DEF Typed
<1> QED BY <1>1, <1>2, <1>3, LateLinked

(* So does one whose time is over.                                          *)
LEMMA LapsesLinked ==
  ASSUME Typed, Linked, NEW r \in a2aRuns, NEW st \in RunEnds, A2ALapses(r, st),
         UNCHANGED <<a2aDeleg, a2aNet, a2aPub, a2aStarted>>, a2aQueue' \in Seq(Jobs), a2aLeft' \in Nat
  PROVE  Typed' /\ Linked'
<1>1. Lately(r, st) BY DEF A2ALapses, Lately
<1>2. a2aRes' \subseteq A2ATasks /\ a2aOpen' \in Nat BY DEF A2ALapses, A2AReleased, A2AMore, Typed
<1> QED BY <1>1, <1>2, LateLinked

(* When only the executor's rows, runs and reservations change.             *)
LEMMA RunLinked ==
  ASSUME Typed, Linked, NEW r \in a2aRuns, NEW st \in RunEnds, A2AEnds(r, st),
         UNCHANGED <<a2aDeleg, a2aNet, a2aPub, a2aStarted, a2aGhost>>, a2aQueue' \in Seq(Jobs), a2aLeft' \in Nat
  PROVE  Typed' /\ Linked'
<1>1. /\ a2aIn' \in [A2ATasks -> Rows]
      /\ \A t \in A2ATasks : a2aIn[t] # A2ANone => a2aIn'[t] # A2ANone /\ a2aIn'[t].id = a2aIn[t].id
      /\ \A t \in A2ATasks : InRow(a2aIn'[t])
      /\ \A t \in A2ATasks : a2aIn[t] = A2ANone => a2aIn'[t] = A2ANone
      /\ RunsOK' /\ a2aRes' \subseteq A2ATasks /\ a2aOpen' \in Nat
      /\ \A q \in a2aRuns' : a2aIn'[q.t] # A2ANone /\ a2aIn'[q.t].id = "task"
  BY EndsStep
<1>2. Typed' BY <1>1 DEF Typed, a2aDeleg, NetOK, LogOK
<1>3. PICK sent \in SUBSET Notes : sent = {} OBVIOUS
<1>4. /\ a2aPub \subseteq a2aPub' /\ a2aPub' \subseteq a2aPub \cup sent
      /\ \A p \in sent : Decided(p)' /\ Answers(p)'
  BY <1>3
<1>5. /\ \A t \in A2ATasks : a2aOut'[t] = a2aOut[t] \/ OutRow(t)'
      /\ \A t \in A2ATasks : a2aOut[t] # A2ANone => a2aOut'[t] # A2ANone
  BY DEF a2aDeleg
<1>7. \A t \in A2ATasks : a2aIn'[t] # A2ANone => a2aOut'[t] # A2ANone BY <1>1, <1>5 DEF Linked
<1>6. Linked' BY <1>1, <1>4, <1>5, <1>7, LinkedStep
<1> QED BY <1>2, <1>6

(* The hand-over of a run to its worker keeps them.                         *)
LEMMA EnqueueLinked ==
  ASSUME Typed, Linked, NEW r \in a2aRuns, A2AEnqueue(r)
  PROVE  Typed' /\ Linked'
<1>1. r \in Runs /\ r.t \in A2ATasks /\ r.key \in Nat BY DEF Typed, RunsOK, Runs
<1>2. UNCHANGED <<a2aDeleg, a2aNet, a2aPub, a2aStarted>> BY DEF A2AEnqueue
<1>3. CASE A2ASpend /\ A2AEnds(r, "FAILED") /\ UNCHANGED <<a2aQueue, a2aGhost>>
  <2>1. "FAILED" \in RunEnds BY DEF RunEnds
  <2>2. a2aQueue' \in Seq(Jobs) /\ a2aLeft' \in Nat BY <1>3 DEF Typed, A2ASpend
  <2> QED BY <1>2, <1>3, <2>1, <2>2, RunLinked
<1>5. CASE A2ASpend /\ A2ALapses(r, "FAILED") /\ UNCHANGED a2aQueue
  <2>1. "FAILED" \in RunEnds BY DEF RunEnds
  <2>2. a2aQueue' \in Seq(Jobs) /\ a2aLeft' \in Nat BY <1>5 DEF Typed, A2ASpend
  <2> QED BY <1>2, <1>5, <2>1, <2>2, LapsesLinked
<1>4. CASE /\ A2AGoes(r, [r EXCEPT !.st = "wait"]) /\ A2AFree
           /\ a2aQueue' = Append(a2aQueue, [t |-> r.t, key |-> r.key, cancel |-> FALSE])
           /\ a2aGhost' = IF r.key = 0 THEN [a2aGhost EXCEPT !.ran[r.t] = @ + 1] ELSE a2aGhost
           /\ UNCHANGED <<a2aIn, a2aRes, a2aOpen>>
  <2> DEFINE new == [r EXCEPT !.st = "wait"]
  <2>1. new \in Runs /\ new.st = "wait" /\ new.t = r.t BY <1>1 DEF Runs, RunStages
  <2>2. a2aRuns' = (a2aRuns \ {r}) \cup {new} BY <1>4 DEF A2AGoes
  <2>3. RunsOK'
    <3> HIDE DEF new
    <3> QED BY <2>1, <2>2 DEF Typed, RunsOK
  <2>4. [t |-> r.t, key |-> r.key, cancel |-> FALSE] \in Jobs BY <1>1 DEF Jobs
  <2>5. a2aQueue' \in Seq(Jobs) BY <1>4, <2>4 DEF Typed
  <2>6. a2aGhost' \in [ran : [A2ATasks -> Nat], touched : SUBSET A2ATasks, stranded : SUBSET A2ATasks, late : SUBSET A2ATasks]
    <3>1. CASE r.key # 0 BY <1>4, <3>1 DEF Typed
    <3>2. CASE r.key = 0
      <4>1. a2aGhost.ran \in [A2ATasks -> Nat] /\ a2aGhost.ran[r.t] + 1 \in Nat BY <1>1 DEF Typed
      <4>2. [a2aGhost.ran EXCEPT ![r.t] = a2aGhost.ran[r.t] + 1] \in [A2ATasks -> Nat] BY <1>1, <4>1
      <4>3. a2aGhost' = [a2aGhost EXCEPT !.ran = [a2aGhost.ran EXCEPT ![r.t] = a2aGhost.ran[r.t] + 1]]
        BY <1>4, <3>2 DEF Typed
      <4> QED BY <4>2, <4>3 DEF Typed
    <3> QED BY <3>1, <3>2
  <2>7. Typed' BY <1>2, <1>4, <2>3, <2>5, <2>6 DEF Typed, a2aDeleg, NetOK, LogOK, A2AFree
  <2>8. \A q \in a2aRuns' : \E x \in a2aRuns : x.t = q.t BY <2>1, <2>2
  <2>9. Linked' BY <1>2, <1>4, <2>8 DEF Linked, a2aDeleg, OutRow, Told, WasTold, Asked, Decided, Answers
  <2> QED BY <2>7, <2>9
<1> QED BY <1>3, <1>4, <1>5 DEF A2AEnqueue

(* What becomes of the runs that wait for the job that ends.                *)
Handed(r, res) == [r EXCEPT !.st = IF res = "none" THEN "wait" ELSE "got", !.res = res]

(* The end of a job keeps them, with the result it hands to the runs that   *)
(* wait for it.                                                             *)
LEMMA JobEndsLinked ==
  ASSUME Typed, Linked, A2AJobEnds
  PROVE  Typed' /\ Linked'
<1> DEFINE job == Head(a2aQueue)
           waiting == {r \in a2aRuns : r.t = job.t /\ r.key = job.key /\ r.st = "wait"}
<1>1. PICK res \in RunEnds \cup {"none"} : a2aRuns' = (a2aRuns \ waiting) \cup {Handed(r, res) : r \in waiting}
  BY DEF A2AJobEnds, Handed, RunEnds
<1>2. /\ a2aQueue # <<>> /\ a2aQueue' = Tail(a2aQueue)
      /\ UNCHANGED <<a2aDeleg, a2aIn, a2aNet, a2aPub, a2aRes, a2aOpen, a2aStarted, a2aLeft, a2aGhost>>
  BY DEF A2AJobEnds
<1>3. \A q \in a2aRuns' : q \in a2aRuns \/ \E r \in a2aRuns : q = Handed(r, res) BY <1>1
<1>4. ASSUME NEW r \in a2aRuns
      PROVE  /\ Handed(r, res) \in Runs /\ Handed(r, res).t = r.t /\ Handed(r, res).st \in {"wait", "got"}
             /\ Handed(r, res).st = "got" => Handed(r, res).res \in RunEnds
  <2>1. r \in Runs BY DEF Typed, RunsOK
  <2>2. res \in Texts BY DEF RunEnds, Texts, A2AStates, A2ATerminal, A2AAsking
  <2>3. CASE res = "none" BY <2>1, <2>2, <2>3 DEF Handed, Runs, RunStages
  <2>4. CASE res # "none" BY <2>1, <2>2, <2>4 DEF Handed, Runs, RunStages
  <2> QED BY <2>3, <2>4
<1>5. RunsOK' BY <1>3, <1>4 DEF Typed, RunsOK
<1>6. a2aQueue' \in Seq(Jobs) BY <1>2 DEF Typed
<1>7. Typed' BY <1>2, <1>5, <1>6 DEF Typed, a2aDeleg, NetOK, LogOK
<1>8. \A q \in a2aRuns' : \E x \in a2aRuns : x.t = q.t BY <1>3, <1>4
<1>9. Linked' BY <1>2, <1>8 DEF Linked, a2aDeleg, OutRow, Told, WasTold, Asked, Decided, Answers
<1> QED BY <1>7, <1>9

(* A run that takes its result keeps them.                                  *)
LEMMA RunResultLinked ==
  ASSUME Typed, Linked, NEW r \in a2aRuns, A2ARunResult(r)
  PROVE  Typed' /\ Linked'
<1>1. r.res \in RunEnds BY DEF A2ARunResult, Typed, RunsOK
<1>2. UNCHANGED <<a2aDeleg, a2aNet, a2aPub, a2aStarted, a2aQueue>> BY DEF A2ARunResult
<1>3. a2aQueue' \in Seq(Jobs) /\ a2aLeft' \in Nat BY <1>2 DEF A2ARunResult, A2AFree, A2ASpend, Typed
<1>4. CASE A2AEnds(r, r.res) /\ A2AFree /\ UNCHANGED a2aGhost BY <1>1, <1>2, <1>3, <1>4, RunLinked
<1>5. CASE A2ALapses(r, r.res) /\ A2ASpend BY <1>1, <1>2, <1>3, <1>5, LapsesLinked
<1> QED BY <1>4, <1>5 DEF A2ARunResult

(* A run whose time is over keeps them.                                     *)
LEMMA RunTimeoutLinked ==
  ASSUME Typed, Linked, NEW r \in a2aRuns, A2ARunTimeout(r)
  PROVE  Typed' /\ Linked'
<1>1. "CANCELED" \in RunEnds BY DEF RunEnds
<1>2. A2ALapses(r, "CANCELED") /\ UNCHANGED <<a2aDeleg, a2aNet, a2aPub, a2aStarted>> BY DEF A2ARunTimeout
<1>3. a2aLeft' \in Nat BY DEF A2ARunTimeout, A2ASpend, A2AFree, Typed
<1>4. a2aQueue' \in Seq(Jobs)
  <2>1. a2aQueue \in Seq(Jobs) BY DEF Typed
  <2>2. a2aQueue' = [i \in DOMAIN a2aQueue |-> IF i = 1 THEN [a2aQueue[1] EXCEPT !.cancel = TRUE] ELSE a2aQueue[i]]
    BY DEF A2ARunTimeout
  <2>3. \A i \in DOMAIN a2aQueue : a2aQueue[i] \in Jobs /\ [a2aQueue[i] EXCEPT !.cancel = TRUE] \in Jobs
    <3>1. \A i \in DOMAIN a2aQueue : a2aQueue[i] \in Jobs BY <2>1
    <3> QED BY <3>1 DEF Jobs
  <2>4. PICK n \in Nat : DOMAIN a2aQueue = 1 .. n BY <2>1
  <2>5. \A i \in 1 .. n : IF i = 1 THEN [a2aQueue[1] EXCEPT !.cancel = TRUE] \in Jobs ELSE a2aQueue[i] \in Jobs
    BY <2>3, <2>4
  <2>6. a2aQueue' \in [1 .. n -> Jobs] BY <2>2, <2>4, <2>5
  <2> QED BY <2>6, SeqDef
<1> QED BY <1>1, <1>2, <1>3, <1>4, LapsesLinked

(* A run that publishes its end keeps them.                                 *)
LEMMA RunPublishLinked ==
  ASSUME Typed, Linked, NEW r \in a2aRuns, A2ARunPublish(r)
  PROVE  Typed' /\ Linked'
<1>1. /\ r.t \in A2ATasks /\ r.rev \in Nat /\ r.res \in A2AStates
      /\ a2aIn[r.t] # A2ANone /\ a2aIn[r.t].id = "task"
  <2>1. r \in Runs /\ r.res \in RunEnds \cup {"REJECTED"} BY DEF A2ARunPublish, Typed, RunsOK
  <2> QED BY <2>1 DEF Runs, Linked, RunEnds, A2AStates, A2ATerminal, A2AAsking
<1>2. PICK k \in {"event_status", "result"} : k = IF r.res \in A2ATerminal THEN "result" ELSE "event_status"
  OBVIOUS
<1> DEFINE note == A2ANote(k, r.t, r.rev, r.res)
<1>3. /\ note \in Notes /\ Says(note) /\ note.t = r.t /\ note.k = k
  BY <1>1 DEF A2ANote, Notes, Kinds, Texts, Says, A2AEvents, A2AControls
<1>4. /\ a2aRuns' = a2aRuns \ {r}
      /\ (A2ASends({note}) /\ A2AFree) \/ (A2ASends({}) /\ A2ASpend)
      /\ UNCHANGED <<a2aDeleg, a2aIn, a2aRes, a2aOpen, a2aStarted, a2aQueue, a2aGhost>>
  BY <1>2 DEF A2ARunPublish
<1>5. NetOK' /\ a2aPub \subseteq a2aPub' /\ a2aPub' \subseteq a2aPub \cup {note}
  <2>1. CASE A2ASends({note}) BY <1>3, <2>1, Published DEF Typed
  <2>2. CASE A2ASends({})
    <3>1. NetOK' /\ a2aPub \subseteq a2aPub' /\ a2aPub' \subseteq a2aPub \cup {} BY <2>2, Published DEF Typed
    <3> QED BY <3>1
  <2> QED BY <1>4, <2>1, <2>2
<1>6. RunsOK' BY <1>4 DEF Typed, RunsOK
<1>7. a2aLeft' \in Nat BY <1>4 DEF A2AFree, A2ASpend, Typed
<1>8. Typed' BY <1>4, <1>5, <1>6, <1>7 DEF Typed, a2aDeleg, LogOK
<1>9. Linked'
  <2>1. /\ \A u \in A2ATasks : a2aIn[u] # A2ANone => a2aIn'[u] # A2ANone /\ a2aIn'[u].id = a2aIn[u].id
        /\ \A u \in A2ATasks : InRow(a2aIn'[u])
        /\ \A u \in A2ATasks : a2aIn[u] = A2ANone => a2aIn'[u] = A2ANone
        /\ \A q \in a2aRuns' : a2aIn'[q.t] # A2ANone /\ a2aIn'[q.t].id = "task"
    BY <1>4 DEF Linked
  <2>2. a2aOut[r.t] # A2ANone BY <1>1 DEF Linked
  <2>3. UNCHANGED a2aDeleg BY <1>4
  <2>4. note.k \in {"event_status", "result"} /\ a2aIn[r.t].id = "task" BY <1>1, <1>3
  <2> HIDE DEF note
  <2> QED BY <1>1, <1>3, <1>5, <2>1, <2>2, <2>3, <2>4, ExecutorStep
<1> QED BY <1>8, <1>9

(* A restart leaves the rows and the streams.                               *)
LEMMA RestartLinked ==
  ASSUME Typed, Linked, A2ARestart
  PROVE  Typed' /\ Linked'
<1>1. /\ a2aRes' = {} /\ a2aOpen' = 0 /\ a2aStarted' = {} /\ a2aRuns' = {} /\ a2aQueue' = <<>>
      /\ UNCHANGED <<a2aDeleg, a2aIn, a2aNet, a2aPub>> /\ a2aLeft' \in Nat
  BY DEF A2ARestart, A2ASpend, Typed
<1>2. a2aGhost' \in [ran : [A2ATasks -> Nat], touched : SUBSET A2ATasks, stranded : SUBSET A2ATasks, late : SUBSET A2ATasks]
  <2>1. PICK more \in SUBSET A2ATasks : a2aGhost' = [a2aGhost EXCEPT !.touched = @ \cup more] BY DEF A2ARestart
  <2> QED BY <2>1 DEF Typed
<1>3. RunsOK' /\ a2aQueue' \in Seq(Jobs) BY <1>1 DEF RunsOK
<1>4. Typed' BY <1>1, <1>2, <1>3 DEF Typed, a2aDeleg, NetOK, LogOK
<1>5. Linked' BY <1>1 DEF Linked, a2aDeleg, OutRow, Told, WasTold, Asked, Decided, Answers
<1> QED BY <1>4, <1>5

(* The types and the links hold at the start, and every step keeps them.    *)
LEMMA InitLinked == A2AInit => Typed /\ Linked
<1> SUFFICES ASSUME A2AInit PROVE Typed /\ Linked OBVIOUS
<1>1. a2aOut = [t \in A2ATasks |-> A2ANone] /\ a2aIn = [t \in A2ATasks |-> A2ANone] BY DEF A2AInit
<1>2. /\ a2aNet = {} /\ a2aPub = {} /\ a2aRes = {} /\ a2aOpen = 0 /\ a2aStarted = {} /\ a2aRuns = {}
      /\ a2aQueue = <<>> /\ a2aLog = {} /\ a2aSeen = {} /\ a2aLeft = A2AMaxEvents
      /\ a2aGhost = [ran |-> [t \in A2ATasks |-> 0], touched |-> {}, stranded |-> {}, late |-> {}]
  BY DEF A2AInit
<1>3. NetOK /\ RunsOK /\ LogOK BY <1>2 DEF NetOK, RunsOK, LogOK
<1>4. a2aOut \in [A2ATasks -> Rows] /\ a2aIn \in [A2ATasks -> Rows] BY <1>1 DEF Rows
<1>5. a2aGhost \in [ran : [A2ATasks -> Nat], touched : SUBSET A2ATasks, stranded : SUBSET A2ATasks, late : SUBSET A2ATasks] BY <1>2
<1>6. Typed BY <1>2, <1>3, <1>4, <1>5, A2ABoundsAssumption DEF Typed
<1>7. Linked BY <1>1, <1>2 DEF Linked, InRow, OutRow
<1> QED BY <1>6, <1>7

(* Every step keeps the types and the links.                                *)
LEMMA NextLinked ==
  ASSUME Typed, Linked, A2ANext
  PROVE  Typed' /\ Linked'
<1>1. ASSUME NEW t \in A2ATasks, A2ASendTask(t) PROVE Typed' /\ Linked' BY <1>1, SendTaskLinked
<1>2. ASSUME NEW t \in A2ATasks, NEW k \in A2AControls, A2ASendControl(k, t) PROVE Typed' /\ Linked'
  BY <1>2, SendControlLinked
<1>3. ASSUME NEW m \in a2aNet, A2AConsumed(m) PROVE Typed' /\ Linked'
  BY <1>3, RefuseLinked, AdmitLinked, AgainLinked, CancelLinked, StatusLinked, ReplyLinked, DenyLinked,
     AcceptedLinked, RejectedLinked, EventLinked DEF A2AConsumed
<1>4. ASSUME NEW r \in a2aRuns, A2ARunStep(r) PROVE Typed' /\ Linked'
  BY <1>4, RunLostLinked, EnqueueLinked, RunResultLinked, RunTimeoutLinked, RunPublishLinked DEF A2ARunStep
<1> QED BY <1>1, <1>2, <1>3, <1>4, JobEndsLinked, RestartLinked DEF A2ANext

(* So does a step that changes nothing.                                     *)
LEMMA StutterLinked ==
  ASSUME Typed, Linked, UNCHANGED a2aVars
  PROVE  Typed' /\ Linked'
BY DEF a2aVars, Typed, NetOK, RunsOK, LogOK, Linked, OutRow, Told, WasTold, Asked, Decided, Answers

-----------------------------------------------------------------------------
(* How a row goes on: it stays there, its revision does not go back, and    *)
(* once it ended it does not change.                                        *)
GoesOn(old, new) == old # A2ANone => new # A2ANone /\ new.rev >= old.rev /\ (A2AEnded(old) => new = old)

(* A newer event, the end of a run and an unchanged row go on.              *)
LEMMA SameGoesOn ==
  ASSUME NEW row \in Rows
  PROVE  GoesOn(row, row)
BY DEF GoesOn, Rows, A2ARow

(* A row to which an event is applied only goes on: no end is undone.       *)
LEMMA AppliedGoesOn ==
  ASSUME NEW row \in A2ARow, NEW rev \in Nat, NEW st \in A2AStates, A2AAppliable(row, rev)
  PROVE  GoesOn(row, A2AApplied(row, rev, st))
<1>1. /\ A2AApplied(row, rev, st) \in A2ARow /\ A2AApplied(row, rev, st).rev >= row.rev
      /\ A2AApplied(row, rev, st) = row \/ rev > row.rev
  BY AppliedRow
<1>2. A2AEnded(row) => A2AApplied(row, rev, st) = row
  <2>1. row.rev \in Nat BY DEF A2ARow
  <2> QED BY <1>1, <2>1 DEF A2AEnded, A2AAppliable
<1> QED BY <1>1, <1>2, A2ANoneAssumption DEF GoesOn

(* Neither is it by the result of a run.                                    *)
LEMMA ResultGoesOn ==
  ASSUME NEW row \in A2ARow, NEW base \in Nat, NEW st \in RunEnds
  PROVE  GoesOn(row, A2AResultRow(row, base, st))
BY ResultRow, A2ANoneAssumption DEF GoesOn, A2AEnded

(* Every step lets every row of the executor go on.                         *)
LEMMA InGoesOn ==
  ASSUME Typed, Linked, A2ANext, NEW t \in A2ATasks
  PROVE  GoesOn(a2aIn[t], a2aIn'[t])
<1>1. CASE UNCHANGED a2aIn
  <2>1. a2aIn[t] \in Rows BY DEF Typed
  <2> QED BY <1>1, <2>1, SameGoesOn
<1>2. ASSUME NEW u \in A2ATasks, NEW row, a2aIn' = [a2aIn EXCEPT ![u] = row], GoesOn(a2aIn[u], row)
      PROVE  GoesOn(a2aIn[t], a2aIn'[t])
  <2>1. CASE t = u BY <1>2, <2>1 DEF Typed
  <2>2. CASE t # u
    <3>1. a2aIn[t] \in Rows /\ a2aIn'[t] = a2aIn[t] BY <1>2, <2>2 DEF Typed
    <3> QED BY <3>1, SameGoesOn
  <2> QED BY <2>1, <2>2
<1>3. ASSUME NEW m \in a2aNet, A2ARefuse(m) \/ A2AAdmit(m) PROVE GoesOn(a2aIn[t], a2aIn'[t])
  <2>1. m.t \in A2ATasks BY Message
  <2>2. GoesOn(a2aIn[m.t], a2aIn'[m.t]) BY <1>3 DEF GoesOn, A2ARefuse, A2AAdmit
  <2>3. \E row : a2aIn' = [a2aIn EXCEPT ![m.t] = row] BY <1>3 DEF A2ARefuse, A2AAdmit
  <2>4. PICK row : a2aIn' = [a2aIn EXCEPT ![m.t] = row] BY <2>3
  <2>5. a2aIn'[m.t] = row BY <2>1, <2>4 DEF Typed
  <2> QED BY <1>2, <2>1, <2>2, <2>4, <2>5
<1>4. ASSUME NEW m \in a2aNet, A2ACancel(m) \/ A2AReply(m) \/ A2ADeny(m) PROVE GoesOn(a2aIn[t], a2aIn'[t])
  <2>1. m.k \in A2AControls BY <1>4 DEF A2ACancel, A2AReply, A2ADeny, A2AControls
  <2>2. m.t \in A2ATasks /\ a2aIn[m.t] \in A2ARow /\ a2aIn[m.t] # A2ANone BY <2>1, ControlMessage
  <2>3. PICK rev \in Nat : rev = A2AControlRev(m) BY <2>2, ControlRev
  <2>4. \/ UNCHANGED a2aIn
        \/ /\ a2aIn[m.t].st \notin A2ATerminal
           /\ \E st \in A2AStates : a2aIn' = [a2aIn EXCEPT ![m.t] = A2AApplied(a2aIn[m.t], rev, st)]
    <3>1. "CANCELED" \in A2AStates /\ "WORKING" \in A2AStates /\ "FAILED" \in A2AStates BY DEF A2AStates, A2ATerminal
    <3>2. CASE A2ACancel(m) BY <2>3, <3>1, <3>2 DEF A2ACancel
    <3>3. CASE A2AReply(m) BY <2>3, <3>1, <3>3 DEF A2AReply, A2AAnswers, A2ATerminal
    <3>4. CASE A2ADeny(m) BY <2>3, <3>1, <3>4 DEF A2ADeny, A2ATerminal
    <3> QED BY <1>4, <3>2, <3>3, <3>4
  <2>5. CASE a2aIn[m.t].st \notin A2ATerminal /\ ~ UNCHANGED a2aIn
    <3>1. PICK st \in A2AStates : a2aIn' = [a2aIn EXCEPT ![m.t] = A2AApplied(a2aIn[m.t], rev, st)] BY <2>4, <2>5
    <3>2. A2AAppliable(a2aIn[m.t], rev) BY <2>5 DEF A2AAppliable
    <3>3. GoesOn(a2aIn[m.t], A2AApplied(a2aIn[m.t], rev, st)) BY <2>2, <3>2, AppliedGoesOn
    <3> QED BY <1>2, <2>2, <3>1, <3>3
  <2> QED BY <1>1, <2>4, <2>5
<1>5. ASSUME NEW r \in a2aRuns, NEW st \in RunEnds, A2AEnds(r, st) PROVE GoesOn(a2aIn[t], a2aIn'[t])
  <2>1. /\ r.t \in A2ATasks /\ a2aIn[r.t] \in A2ARow
        /\ a2aIn' = [a2aIn EXCEPT ![r.t] = A2AResultRow(a2aIn[r.t], r.base, st)]
    BY <1>5, EndsStep
  <2>2. r.base \in Nat BY DEF Typed, RunsOK, Runs
  <2>3. GoesOn(a2aIn[r.t], A2AResultRow(a2aIn[r.t], r.base, st)) BY <2>1, <2>2, ResultGoesOn
  <2> QED BY <1>2, <2>1, <2>3
<1>6. ASSUME NEW r \in a2aRuns, A2ARunStep(r) PROVE GoesOn(a2aIn[t], a2aIn'[t])
  <2>1. "FAILED" \in RunEnds /\ "CANCELED" \in RunEnds BY DEF RunEnds
  <2>2. UNCHANGED a2aIn \/ \E st \in RunEnds : A2AEnds(r, st)
    BY <1>6, <2>1 DEF A2ARunStep, A2ARunLost, A2AEnqueue, A2ARunResult, A2ARunTimeout, A2ALapses, A2ARunPublish, Typed, RunsOK
  <2> QED BY <1>1, <1>5, <2>2
<1>7. ASSUME NEW m \in a2aNet, A2AConsumed(m) PROVE GoesOn(a2aIn[t], a2aIn'[t])
  <2>1. \/ A2ARefuse(m) \/ A2AAdmit(m) \/ A2ACancel(m) \/ A2AReply(m) \/ A2ADeny(m)
        \/ UNCHANGED a2aIn
    BY <1>7 DEF A2AConsumed, A2AAgain, A2AStatusRequest, A2AAccepted, A2ARejected, A2AEvent, a2aExec
  <2> QED BY <1>1, <1>3, <1>4, <2>1
<1>8. CASE \/ \E u \in A2ATasks : A2ASendTask(u) \/ \E k \in A2AControls : A2ASendControl(k, u)
           \/ A2AJobEnds \/ A2ARestart
  BY <1>1, <1>8 DEF A2ASendTask, A2ASendControl, A2AJobEnds, A2ARestart, a2aExec
<1> QED BY <1>6, <1>7, <1>8 DEF A2ANext

(* And every row of the delegator.                                          *)
LEMMA OutGoesOn ==
  ASSUME Typed, Linked, A2ANext, NEW t \in A2ATasks
  PROVE  GoesOn(a2aOut[t], a2aOut'[t])
<1>1. CASE UNCHANGED a2aOut
  <2>1. a2aOut[t] \in Rows BY DEF Typed
  <2> QED BY <1>1, <2>1, SameGoesOn
<1>2. ASSUME NEW u \in A2ATasks, NEW row, a2aOut' = [a2aOut EXCEPT ![u] = row], GoesOn(a2aOut[u], row)
      PROVE  GoesOn(a2aOut[t], a2aOut'[t])
  <2>1. CASE t = u BY <1>2, <2>1 DEF Typed
  <2>2. CASE t # u
    <3>1. a2aOut[t] \in Rows /\ a2aOut'[t] = a2aOut[t] BY <1>2, <2>2 DEF Typed
    <3> QED BY <3>1, SameGoesOn
  <2> QED BY <2>1, <2>2
<1>3. ASSUME NEW u \in A2ATasks, A2ASendTask(u) PROVE GoesOn(a2aOut[t], a2aOut'[t])
  BY <1>2, <1>3 DEF A2ASendTask, GoesOn
<1>4. ASSUME NEW m \in a2aNet, A2AAccepted(m) \/ A2ARejected(m), ~ UNCHANGED a2aOut
      PROVE  GoesOn(a2aOut[t], a2aOut'[t])
  <2>1. m.t \in A2ATasks /\ a2aOut[m.t] \in A2ARow BY Message
  <2>2. OutRow(m.t) /\ a2aOut[m.t] # A2ANone /\ a2aOut[m.t].rev \in Nat
    BY <2>1, A2ANoneAssumption DEF Linked, A2ARow
  <2>3. PICK row \in {[st |-> "WORKING", rev |-> a2aOut[m.t].rev + 1, id |-> "task"],
                      [st |-> "REJECTED", rev |-> a2aOut[m.t].rev + 1, id |-> "msg"]} :
          a2aOut' = [a2aOut EXCEPT ![m.t] = row]
    BY <1>4 DEF A2AAccepted, A2ARejected
  <2>4. a2aOut[m.t].id = "none"
    <3>1. CASE A2AAccepted(m) BY <1>4, <2>1, <3>1 DEF A2AAccepted, A2ARow
    <3>2. CASE A2ARejected(m) BY <1>4, <2>1, <2>2, <3>2 DEF A2ARejected, A2ARow, OutRow
    <3> QED BY <1>4, <3>1, <3>2
  <2>5. ~A2AEnded(a2aOut[m.t]) BY <2>2, <2>4 DEF OutRow, A2AEnded, A2ATerminal
  <2>6. row \in A2ARow /\ row.rev >= a2aOut[m.t].rev
    <3>1. a2aOut[m.t].rev + 1 \in Nat BY <2>2
    <3>2. row \in A2ARow /\ row.rev = a2aOut[m.t].rev + 1 BY <2>3, <3>1 DEF A2ARow, A2AStates, A2ATerminal
    <3> QED BY <2>2, <3>2
  <2>7. GoesOn(a2aOut[m.t], row) BY <2>5, <2>6, A2ANoneAssumption DEF GoesOn
  <2> QED BY <1>2, <2>1, <2>3, <2>7
<1>5. ASSUME NEW m \in a2aNet, A2AEvent(m), ~ UNCHANGED a2aOut PROVE GoesOn(a2aOut[t], a2aOut'[t])
  <2>1. m.t \in A2ATasks /\ a2aOut[m.t] \in A2ARow /\ m.rev \in Nat /\ m.st \in A2AStates
    BY <1>5, Message DEF A2AEvent, Says
  <2>2. A2AAppliable(a2aOut[m.t], m.rev) /\ a2aOut' = [a2aOut EXCEPT ![m.t] = A2AApplied(a2aOut[m.t], m.rev, m.st)]
    BY <1>5 DEF A2AEvent, A2AAdds, a2aDeleg
  <2>3. GoesOn(a2aOut[m.t], A2AApplied(a2aOut[m.t], m.rev, m.st)) BY <2>1, <2>2, AppliedGoesOn
  <2> QED BY <1>2, <2>1, <2>2, <2>3
<1>6. ASSUME NEW m \in a2aNet, A2AConsumed(m) PROVE GoesOn(a2aOut[t], a2aOut'[t])
  <2>1. A2AAccepted(m) \/ A2ARejected(m) \/ A2AEvent(m) \/ UNCHANGED a2aOut
    BY <1>6 DEF A2AConsumed, A2ARefuse, A2AAdmit, A2AAgain, A2ACancel, A2AStatusRequest, A2AReply, A2ADeny, a2aDeleg
  <2> QED BY <1>1, <1>4, <1>5, <2>1
<1>7. ASSUME NEW r \in a2aRuns, A2ARunStep(r) PROVE UNCHANGED a2aOut
  BY <1>7 DEF A2ARunStep, A2ARunLost, A2AEnqueue, A2ARunResult, A2ARunTimeout, A2ARunPublish, a2aDeleg
<1>8. CASE A2AJobEnds \/ A2ARestart \/ \E u \in A2ATasks, k \in A2AControls : A2ASendControl(k, u)
  BY <1>1, <1>8 DEF A2AJobEnds, A2ARestart, A2ASendControl, a2aDeleg
<1> QED BY <1>1, <1>3, <1>6, <1>7, <1>8 DEF A2ANext

-----------------------------------------------------------------------------
(* The quota counts the reservations.                                       *)
LEMMA ReservedFinite ==
  ASSUME Typed
  PROVE  IsFiniteSet(a2aRes) /\ Cardinality(a2aRes) \in Nat
<1>1. a2aRes \subseteq A2ATasks BY DEF Typed
<1>2. IsFiniteSet(a2aRes) BY <1>1, A2ATasksAssumption, FS_Subset
<1> QED BY <1>2, FS_CardinalityType

(* The end of a run gives back its reservation, if it has one.              *)
LEMMA ReleasedCounts ==
  ASSUME Typed, A2AQuota, NEW r \in a2aRuns, A2AReleased(r)
  PROVE  A2AQuota' /\ a2aRes' \subseteq a2aRes
<1>1. IsFiniteSet(a2aRes) /\ a2aOpen = Cardinality(a2aRes) /\ a2aOpen \in Nat /\ A2ACap \in Nat
  BY ReservedFinite, A2ABoundsAssumption DEF A2AQuota, Typed
<1>2. CASE r.key = 0 /\ r.t \in a2aRes
  <2>1. a2aRes' = a2aRes \ {r.t} /\ a2aOpen' = A2AMore(a2aOpen - 1, 0) BY <1>2 DEF A2AReleased
  <2>2. Cardinality(a2aRes') = Cardinality(a2aRes) - 1 /\ IsFiniteSet(a2aRes')
    BY <1>1, <1>2, <2>1, FS_RemoveElement
  <2>3. Cardinality(a2aRes') \in Nat BY <2>2, FS_CardinalityType
  <2>4. a2aOpen' = Cardinality(a2aRes') BY <1>1, <2>1, <2>2, <2>3 DEF A2AMore
  <2>5. a2aOpen' <= a2aOpen BY <1>1, <2>2, <2>4
  <2>6. A2ACap > 0 => a2aOpen' <= A2ACap BY <1>1, <2>3, <2>4, <2>5 DEF A2AQuota
  <2> QED BY <2>1, <2>4, <2>6 DEF A2AQuota
<1>3. CASE ~(r.key = 0 /\ r.t \in a2aRes)
  <2>1. UNCHANGED <<a2aRes, a2aOpen>> BY <1>3 DEF A2AReleased
  <2> QED BY <2>1 DEF A2AQuota
<1> QED BY <1>2, <1>3

(* Every step keeps the count of the executor's open tasks.                 *)
LEMMA NextReserved ==
  ASSUME Typed, Linked, Reserved, A2ANext
  PROVE  Reserved'
<1>1. \A t \in A2ATasks : a2aIn[t] # A2ANone => a2aIn'[t] # A2ANone BY InGoesOn DEF GoesOn
<1>2. ASSUME A2AQuota', a2aRes' \subseteq a2aRes PROVE Reserved'
  BY <1>1, <1>2 DEF Reserved, Typed
<1>3. CASE UNCHANGED <<a2aRes, a2aOpen>>
  <2>1. A2AQuota' BY <1>3 DEF Reserved, A2AQuota
  <2> QED BY <1>2, <1>3, <2>1
<1>4. ASSUME NEW m \in a2aNet, A2AAdmit(m) PROVE Reserved'
  <2>1. /\ m.t \in A2ATasks /\ a2aIn[m.t] = A2ANone /\ A2AHasRoom /\ a2aIn'[m.t] # A2ANone
        /\ a2aRes' = a2aRes \cup {m.t} /\ a2aOpen' = a2aOpen + 1
    <3>1. m.t \in A2ATasks BY Message
    <3>2. [st |-> "SUBMITTED", rev |-> 1, id |-> "task"] \in A2ARow BY DEF A2ARow, A2AStates
    <3> QED BY <1>4, <3>1, <3>2, A2ANoneAssumption DEF A2AAdmit, Typed
  <2>2. m.t \notin a2aRes BY <2>1 DEF Reserved
  <2>3. IsFiniteSet(a2aRes) /\ a2aOpen = Cardinality(a2aRes) /\ a2aOpen \in Nat /\ A2ACap \in Nat
    BY ReservedFinite, A2ABoundsAssumption DEF Reserved, A2AQuota, Typed
  <2>4. Cardinality(a2aRes') = Cardinality(a2aRes) + 1 BY <2>1, <2>2, <2>3, FS_AddElement
  <2>5. A2ACap > 0 => a2aOpen' <= A2ACap BY <2>1, <2>3 DEF A2AHasRoom
  <2>6. A2AQuota' BY <2>1, <2>3, <2>4, <2>5 DEF A2AQuota
  <2>7. \A t \in a2aRes' : a2aIn'[t] # A2ANone BY <1>1, <2>1 DEF Reserved, Typed
  <2> QED BY <2>6, <2>7 DEF Reserved
<1>5. ASSUME NEW r \in a2aRuns, A2AReleased(r) PROVE Reserved'
  BY <1>2, <1>5, ReleasedCounts DEF Reserved
<1>6. ASSUME NEW r \in a2aRuns, A2ARunStep(r) PROVE Reserved'
  <2>1. A2AReleased(r) \/ UNCHANGED <<a2aRes, a2aOpen>>
    BY <1>6 DEF A2ARunStep, A2ARunLost, A2AEnqueue, A2ARunResult, A2ARunTimeout, A2ARunPublish,
                A2AEnds, A2ALapses
  <2> QED BY <1>3, <1>5, <1>6, <2>1
<1>7. ASSUME NEW m \in a2aNet, A2AConsumed(m) PROVE Reserved'
  <2>1. A2AAdmit(m) \/ UNCHANGED <<a2aRes, a2aOpen>>
    BY <1>7 DEF A2AConsumed, A2ARefuse, A2AAgain, A2ACancel, A2AStatusRequest, A2AReply, A2ADeny,
                A2AAccepted, A2ARejected, A2AEvent, a2aExec
  <2> QED BY <1>3, <1>4, <1>7, <2>1
<1>8. CASE A2ARestart
  <2>1. a2aRes' = {} /\ a2aOpen' = 0 BY <1>8 DEF A2ARestart
  <2>2. A2AQuota' BY <2>1, FS_EmptySet, A2ABoundsAssumption DEF A2AQuota
  <2> QED BY <1>2, <2>1, <2>2
<1>9. CASE A2AJobEnds \/ \E u \in A2ATasks : A2ASendTask(u) \/ \E k \in A2AControls : A2ASendControl(k, u)
  <2>1. UNCHANGED <<a2aRes, a2aOpen>> BY <1>9 DEF A2AJobEnds, A2ASendControl, A2ASendTask, a2aExec
  <2> QED BY <1>3, <2>1
<1> QED BY <1>6, <1>7, <1>8, <1>9 DEF A2ANext

-----------------------------------------------------------------------------
(* A task is enqueued once. When the runs only go on or end, and no task    *)
(* is admitted or enqueued for the first time, Once stays.                  *)
LEMMA RunsGoOn ==
  ASSUME Typed, Once, \A t \in A2ATasks : a2aIn[t] # A2ANone => a2aIn'[t] # A2ANone,
         a2aStarted' = a2aStarted, a2aRes' \subseteq a2aRes, a2aGhost'.ran = a2aGhost.ran,
         \A q \in a2aRuns' : \E r \in a2aRuns : q.t = r.t /\ q.key = r.key /\ (q.st = "begin" => r.st = "begin"),
         \A p, q \in a2aRuns' : p.t = q.t /\ p.key = q.key => p = q
  PROVE  Once'
<1>1. \A r \in a2aRuns' : <<r.t, r.key>> \in a2aStarted' BY DEF Once
<1>2. \A t : Begins(t)' => Begins(t) BY DEF Begins
<1> QED BY <1>1, <1>2 DEF Once

(* A run that goes on is the only one of its task and key, as before.       *)
LEMMA OneGoesOn ==
  ASSUME Once, NEW r \in a2aRuns, NEW new, new.t = r.t, new.key = r.key, A2AGoes(r, new),
         new.st = "begin" => r.st = "begin"
  PROVE  /\ \A q \in a2aRuns' : \E x \in a2aRuns : q.t = x.t /\ q.key = x.key /\ (q.st = "begin" => x.st = "begin")
         /\ \A p, q \in a2aRuns' : p.t = q.t /\ p.key = q.key => p = q
BY DEF A2AGoes, Once

(* A start is of a task that does not hold a reservation of a run before.   *)
LEMMA StartOnce ==
  ASSUME Typed, Once, NEW t \in A2ATasks, NEW key \in Nat, NEW base \in Nat,
         A2AStart(t, key, base) \/ UNCHANGED <<a2aStarted, a2aRuns>>,
         \A u \in A2ATasks : a2aIn[u] # A2ANone => a2aIn'[u] # A2ANone,
         a2aGhost'.ran = a2aGhost.ran,
         \A u \in a2aRes' : u \in a2aRes \/ (u = t /\ a2aGhost.ran[t] = 0)
  PROVE  Once'
<1>1. A2ARun(t, key, base).t = t /\ A2ARun(t, key, base).key = key BY DEF A2ARun
<1>2. \A r \in a2aRuns' : <<r.t, r.key>> \in a2aStarted' BY <1>1 DEF A2AStart, Once
<1>3. \A p, q \in a2aRuns' : p.t = q.t /\ p.key = q.key => p = q BY <1>1 DEF A2AStart, Once
<1>4. ASSUME NEW u \in A2ATasks, a2aGhost.ran[u] > 0, u \in a2aRes', Begins(u)' PROVE FALSE
  <2>1. u \in a2aRes /\ ~Begins(u) BY <1>4 DEF Once, Typed
  <2>2. CASE A2AStart(t, key, base) /\ <<t, key>> \notin a2aStarted
    <3>1. /\ a2aStarted' = a2aStarted \cup {<<t, key>>} /\ a2aRuns' = a2aRuns \cup {A2ARun(t, key, base)}
      BY <2>2 DEF A2AStart
    <3>2. ~(u = t /\ key = 0) BY <2>1, <2>2 DEF Begins
    <3> QED BY <1>1, <1>4, <2>1, <3>1, <3>2 DEF Begins
  <2>3. CASE UNCHANGED <<a2aStarted, a2aRuns>> BY <1>4, <2>1, <2>3 DEF Begins
  <2> QED BY <2>2, <2>3 DEF A2AStart
<1> QED BY <1>2, <1>3, <1>4 DEF Once

(* The hand-over of a run leaves it the only one of its task.               *)
LEMMA EnqueueOnce ==
  ASSUME Typed, Linked, Once, NEW r \in a2aRuns, A2AEnqueue(r), A2AGoes(r, [r EXCEPT !.st = "wait"]),
         UNCHANGED <<a2aIn, a2aRes, a2aStarted>>,
         a2aGhost' = IF r.key = 0 THEN [a2aGhost EXCEPT !.ran[r.t] = @ + 1] ELSE a2aGhost
  PROVE  Once'
<1> DEFINE new == [r EXCEPT !.st = "wait"]
<1>1. r \in Runs BY DEF Typed, RunsOK
<1>2. new.t = r.t /\ new.key = r.key /\ new.st = "wait" /\ r.t \in A2ATasks /\ r.key \in Nat BY <1>1 DEF Runs
<1>3. /\ \A q \in a2aRuns' : \E x \in a2aRuns : q.t = x.t /\ q.key = x.key /\ (q.st = "begin" => x.st = "begin")
      /\ \A p, q \in a2aRuns' : p.t = q.t /\ p.key = q.key => p = q
  BY <1>2, OneGoesOn
<1>4. CASE r.key # 0
  <2>1. a2aGhost'.ran = a2aGhost.ran BY <1>4
  <2> QED BY <1>3, <2>1, RunsGoOn
<1>5. CASE r.key = 0
  <2>1. r.st = "begin" /\ r.t \in a2aRes BY <1>5 DEF A2AEnqueue
  <2>2. Begins(r.t) /\ <<r.t, 0>> \in a2aStarted BY <1>5, <2>1 DEF Begins, Once
  <2>3. a2aGhost.ran[r.t] = 0
    <3>1. a2aGhost.ran[r.t] \in Nat BY <1>2 DEF Typed
    <3> QED BY <1>2, <2>1, <2>2, <3>1 DEF Once
  <2>4. a2aGhost'.ran = [a2aGhost.ran EXCEPT ![r.t] = 1]
    <3>1. a2aGhost' = [a2aGhost EXCEPT !.ran = [a2aGhost.ran EXCEPT ![r.t] = a2aGhost.ran[r.t] + 1]]
      BY <1>5 DEF Typed
    <3> QED BY <2>3, <3>1 DEF Typed
  <2>12. new \in a2aRuns' BY DEF A2AGoes
  <2> HIDE DEF new
  <2>5. \A x \in a2aRuns' : x.t = r.t /\ x.key = 0 => x = new BY <1>2, <1>3, <1>5, <2>12
  <2>6. ~Begins(r.t)' BY <1>2, <2>2, <2>5 DEF Begins
  <2>7. \A t \in A2ATasks : Begins(t)' => Begins(t) BY <1>3 DEF Begins
  <2>8. \A t \in A2ATasks : a2aGhost'.ran[t] = IF t = r.t THEN 1 ELSE a2aGhost.ran[t] BY <2>4 DEF Typed
  <2>9. \A x \in a2aRuns' : <<x.t, x.key>> \in a2aStarted' BY <1>3 DEF Once
  <2>10. a2aIn[r.t] # A2ANone BY DEF Linked
  <2>11. ASSUME NEW t \in A2ATasks
         PROVE  /\ a2aGhost'.ran[t] <= 1
                /\ a2aGhost'.ran[t] > 0 => a2aIn'[t] # A2ANone /\ (t \in a2aRes' => ~Begins(t)')
    <3>1. CASE t = r.t BY <2>6, <2>8, <2>10, <3>1
    <3>2. CASE t # r.t BY <2>7, <2>8, <3>2 DEF Once
    <3> QED BY <3>1, <3>2
  <2> QED BY <1>3, <2>9, <2>11 DEF Once
<1> QED BY <1>4, <1>5

(* The job that ends moves the runs that wait for it.                       *)
LEMMA JobEndsOnce ==
  ASSUME Typed, Linked, Once, A2AJobEnds
  PROVE  Once'
<1> DEFINE job == Head(a2aQueue)
           waiting == {r \in a2aRuns : r.t = job.t /\ r.key = job.key /\ r.st = "wait"}
<1>1. PICK res \in RunEnds \cup {"none"} : a2aRuns' = (a2aRuns \ waiting) \cup {Handed(r, res) : r \in waiting}
  BY DEF A2AJobEnds, Handed, RunEnds
<1>2. UNCHANGED <<a2aIn, a2aRes, a2aStarted, a2aGhost>> BY DEF A2AJobEnds
<1>3. \A q \in a2aRuns' : (q \in a2aRuns /\ q \notin waiting) \/ \E r \in waiting : q = Handed(r, res)
  BY <1>1
<1>4. ASSUME NEW r \in a2aRuns PROVE Handed(r, res).t = r.t /\ Handed(r, res).key = r.key /\ Handed(r, res).st # "begin"
  <2>1. r \in Runs BY DEF Typed, RunsOK
  <2> QED BY <2>1 DEF Handed, Runs
<1>5. waiting \subseteq a2aRuns OBVIOUS
<1> HIDE DEF waiting
<1>6. \A q \in a2aRuns' : \E r \in a2aRuns : q.t = r.t /\ q.key = r.key /\ (q.st = "begin" => r.st = "begin")
  BY <1>3, <1>4, <1>5
<1>7. \A p, q \in a2aRuns' : p.t = q.t /\ p.key = q.key => p = q BY <1>3, <1>4, <1>5 DEF Once
<1> QED BY <1>2, <1>6, <1>7, RunsGoOn

(* Every step leaves each task run at most once.                            *)
LEMMA NextOnce ==
  ASSUME Typed, Linked, Once, A2ANext
  PROVE  Once'
<1>1. \A t \in A2ATasks : a2aIn[t] # A2ANone => a2aIn'[t] # A2ANone BY InGoesOn DEF GoesOn
<1>2. CASE UNCHANGED <<a2aRuns, a2aStarted, a2aRes>> /\ a2aGhost'.ran = a2aGhost.ran
  BY <1>1, <1>2 DEF Once, Begins
<1>3. ASSUME NEW m \in a2aNet, A2AAdmit(m) PROVE Once'
  <2>1. m.t \in A2ATasks /\ a2aIn[m.t] = A2ANone /\ a2aRes' = a2aRes \cup {m.t} BY <1>3, Message DEF A2AAdmit
  <2>2. a2aGhost.ran[m.t] = 0
    <3>1. a2aGhost.ran[m.t] \in Nat BY <2>1 DEF Typed
    <3> QED BY <2>1, <3>1 DEF Once
  <2>3. A2AStart(m.t, 0, 1) \/ UNCHANGED <<a2aStarted, a2aRuns>> BY <1>3 DEF A2AAdmit
  <2>4. a2aGhost'.ran = a2aGhost.ran
    <3>1. a2aGhost' = a2aGhost \/ a2aGhost' = [a2aGhost EXCEPT !.stranded = @ \cup {m.t}] BY <1>3 DEF A2AAdmit
    <3> QED BY <3>1 DEF Typed
  <2> QED BY <1>1, <2>1, <2>2, <2>3, <2>4, StartOnce
<1>4. ASSUME NEW m \in a2aNet, A2AAgain(m) PROVE Once'
  <2>1. m.t \in A2ATasks /\ a2aIn[m.t].rev \in Nat BY <1>4, Message DEF A2AAgain, Rows, A2ARow
  <2>2. A2AStart(m.t, 0, a2aIn[m.t].rev) \/ UNCHANGED <<a2aStarted, a2aRuns>> BY <1>4 DEF A2AAgain
  <2>3. a2aGhost'.ran = a2aGhost.ran /\ a2aRes' = a2aRes BY <1>4 DEF A2AAgain
  <2> QED BY <1>1, <2>1, <2>2, <2>3, StartOnce
<1>5. ASSUME NEW m \in a2aNet, A2AReply(m) PROVE Once'
  <2>1. m.k \in A2AControls BY <1>5 DEF A2AReply, A2AControls
  <2>2. m.t \in A2ATasks /\ m.rev \in Nat /\ a2aIn[m.t].rev \in Nat /\ A2AControlRev(m) \in Nat
    BY <2>1, ControlMessage, ControlRev DEF A2ARow
  <2>3. PICK rev \in Nat : A2AStart(m.t, m.rev, rev) \/ UNCHANGED <<a2aStarted, a2aRuns>>
    BY <1>5, <2>2 DEF A2AReply
  <2>4. a2aGhost'.ran = a2aGhost.ran /\ a2aRes' = a2aRes BY <1>5 DEF A2AReply
  <2> QED BY <1>1, <2>2, <2>3, <2>4, StartOnce
<1>6. ASSUME NEW m \in a2aNet, A2ACancel(m) \/ A2ADeny(m) PROVE Once'
  <2>1. UNCHANGED <<a2aRuns, a2aStarted, a2aRes>> BY <1>6 DEF A2ACancel, A2ADeny
  <2>2. A2ATouch(m.t) \/ UNCHANGED a2aGhost BY <1>6 DEF A2ACancel, A2ADeny
  <2>3. a2aGhost'.ran = a2aGhost.ran BY <2>2 DEF A2ATouch, Typed
  <2> QED BY <1>2, <2>1, <2>3
<1>7. ASSUME NEW m \in a2aNet, A2AConsumed(m) PROVE Once'
  <2>1. \/ A2AAdmit(m) \/ A2AAgain(m) \/ A2AReply(m) \/ A2ACancel(m) \/ A2ADeny(m)
        \/ UNCHANGED <<a2aRuns, a2aStarted, a2aRes, a2aGhost>>
    BY <1>7 DEF A2AConsumed, A2ARefuse, A2AStatusRequest, A2AAccepted, A2ARejected, A2AEvent, a2aExec
  <2> QED BY <1>2, <1>3, <1>4, <1>5, <1>6, <1>7, <2>1
<1>8. ASSUME NEW r \in a2aRuns, NEW new, new.t = r.t, new.key = r.key, A2AGoes(r, new), new.st = "begin" => r.st = "begin",
             a2aStarted' = a2aStarted, a2aRes' \subseteq a2aRes, a2aGhost'.ran = a2aGhost.ran
      PROVE  Once'
  <2>1. /\ \A q \in a2aRuns' : \E x \in a2aRuns : q.t = x.t /\ q.key = x.key /\ (q.st = "begin" => x.st = "begin")
        /\ \A p, q \in a2aRuns' : p.t = q.t /\ p.key = q.key => p = q
    BY <1>8, OneGoesOn
  <2> QED BY <1>1, <1>8, <2>1, RunsGoOn
<1>9. ASSUME NEW r \in a2aRuns, NEW st, A2AEnds(r, st), a2aStarted' = a2aStarted, a2aGhost' = a2aGhost PROVE Once'
  <2>1. r \in Runs BY DEF Typed, RunsOK
  <2>2. \A rev : [r EXCEPT !.st = "publish", !.res = st, !.rev = rev].t = r.t
               /\ [r EXCEPT !.st = "publish", !.res = st, !.rev = rev].key = r.key
               /\ [r EXCEPT !.st = "publish", !.res = st, !.rev = rev].st = "publish"
    BY <2>1 DEF Runs
  <2>3. a2aRes' \subseteq a2aRes BY <1>9 DEF A2AEnds, A2AReleased
  <2>4. PICK rev : rev = A2AResultRev(a2aIn[r.t], r.base, st) OBVIOUS
  <2>5. PICK new : new = [r EXCEPT !.st = "publish", !.res = st, !.rev = rev] OBVIOUS
  <2>6. A2AGoes(r, new) BY <1>9, <2>4, <2>5 DEF A2AEnds
  <2> QED BY <1>8, <1>9, <2>2, <2>3, <2>5, <2>6
<1>16. ASSUME NEW r \in a2aRuns, NEW st, Lately(r, st), a2aStarted' = a2aStarted, a2aRes' \subseteq a2aRes PROVE Once'
  <2>1. r \in Runs BY DEF Typed, RunsOK
  <2>2. PICK new : new = [r EXCEPT !.st = "publish", !.res = st, !.rev = r.base + 1] OBVIOUS
  <2>3. new.t = r.t /\ new.key = r.key /\ new.st = "publish" BY <2>1, <2>2 DEF Runs
  <2>4. A2AGoes(r, new) BY <1>16, <2>2 DEF Lately
  <2>5. a2aGhost'.ran = a2aGhost.ran BY <1>16 DEF Lately, Typed
  <2> QED BY <1>8, <1>16, <2>3, <2>4, <2>5
<1>10. ASSUME NEW r \in a2aRuns, A2ARunLost(r) PROVE Once'
  <2>1. Lately(r, "REJECTED") /\ a2aStarted' = a2aStarted /\ a2aRes' \subseteq a2aRes BY <1>10 DEF A2ARunLost, Lately
  <2> QED BY <1>16, <2>1
<1>17. ASSUME NEW r \in a2aRuns, NEW st, A2ALapses(r, st), a2aStarted' = a2aStarted PROVE Once'
  <2>1. Lately(r, st) /\ a2aRes' \subseteq a2aRes BY <1>17 DEF A2ALapses, A2AReleased, Lately
  <2> QED BY <1>16, <1>17, <2>1
<1>11. ASSUME NEW r \in a2aRuns, A2AEnqueue(r) PROVE Once'
  <2>3. CASE A2ALapses(r, "FAILED") BY <1>11, <1>17, <2>3 DEF A2AEnqueue
  <2>1. CASE A2AEnds(r, "FAILED") /\ UNCHANGED a2aGhost BY <1>9, <1>11, <2>1 DEF A2AEnqueue
  <2>2. CASE A2AGoes(r, [r EXCEPT !.st = "wait"]) /\ UNCHANGED <<a2aIn, a2aRes, a2aStarted>>
             /\ a2aGhost' = IF r.key = 0 THEN [a2aGhost EXCEPT !.ran[r.t] = @ + 1] ELSE a2aGhost
    BY <1>11, <2>2, EnqueueOnce
  <2> QED BY <1>11, <2>1, <2>2, <2>3 DEF A2AEnqueue
<1>12. ASSUME NEW r \in a2aRuns, A2ARunPublish(r) PROVE Once'
  <2>1. a2aRuns' = a2aRuns \ {r} /\ UNCHANGED <<a2aStarted, a2aRes, a2aGhost>> BY <1>12 DEF A2ARunPublish
  <2>2. \A q \in a2aRuns' : \E x \in a2aRuns : q.t = x.t /\ q.key = x.key /\ (q.st = "begin" => x.st = "begin")
    BY <2>1
  <2>3. \A p, q \in a2aRuns' : p.t = q.t /\ p.key = q.key => p = q BY <2>1 DEF Once
  <2> QED BY <1>1, <2>1, <2>2, <2>3, RunsGoOn
<1>13. ASSUME NEW r \in a2aRuns, A2ARunStep(r) PROVE Once'
  <2>1. CASE A2ARunResult(r)
    <3>1. a2aStarted' = a2aStarted /\ ((A2AEnds(r, r.res) /\ a2aGhost' = a2aGhost) \/ A2ALapses(r, r.res))
      BY <2>1 DEF A2ARunResult
    <3> QED BY <1>9, <1>17, <3>1
  <2>2. CASE A2ARunTimeout(r) BY <1>17, <2>2 DEF A2ARunTimeout
  <2> QED BY <1>10, <1>11, <1>12, <1>13, <2>1, <2>2 DEF A2ARunStep
<1>14. CASE A2ARestart
  <2>1. a2aRes' = {} /\ a2aRuns' = {} /\ a2aStarted' = {} BY <1>14 DEF A2ARestart
  <2>2. a2aGhost'.ran = a2aGhost.ran
    <3>1. PICK more : a2aGhost' = [a2aGhost EXCEPT !.touched = @ \cup more] BY <1>14 DEF A2ARestart
    <3> QED BY <3>1 DEF Typed
  <2> QED BY <1>1, <2>1, <2>2 DEF Once
<1>15. CASE \E u \in A2ATasks : A2ASendTask(u) \/ \E k \in A2AControls : A2ASendControl(k, u)
  BY <1>2, <1>15 DEF A2ASendTask, A2ASendControl, a2aExec
<1> QED BY <1>7, <1>13, <1>14, <1>15, JobEndsOnce DEF A2ANext

-----------------------------------------------------------------------------
(* An untouched task. Its row is as it was, runs are only dropped, and what *)
(* is published agrees with the row or was asked before.                    *)
LEMMA AloneStays ==
  ASSUME NEW t \in A2ATasks, Alone(t), a2aIn'[t] = a2aIn[t], a2aStarted \subseteq a2aStarted',
         t \in a2aRes => t \in a2aRes', \A q \in a2aRuns' : q.t = t => q \in a2aRuns,
         \A p \in a2aPub' : p \in a2aPub \/ p.t # t
                             \/ ((p.st \in A2ATerminal => p.st = a2aIn[t].st)
                                 /\ (p.st \in A2AAsking => AsksAt(t, p.rev) \/ (a2aIn[t].st = p.st /\ a2aIn[t].rev = p.rev))),
         a2aIn[t] \in A2ARow
  PROVE  Alone(t)'
<1>1. a2aIn[t].rev \in Nat BY DEF A2ARow
<1>2. a2aIn'[t].id = "task" /\ a2aIn'[t].st # "SUBMITTED" => <<t, 0>> \in a2aStarted' BY DEF Alone
<1>3. a2aIn'[t].st = "SUBMITTED" => t \in a2aRes' BY DEF Alone
<1>4. ASSUME NEW r \in a2aRuns', r.t = t
      PROVE  /\ Live(r) => RunAlone(r)'
             /\ r.st = "publish" /\ r.res \in A2ATerminal => a2aIn'[t].st = r.res
  <2>1. r \in a2aRuns BY <1>4
  <2>2. Live(r) => RunAlone(r) BY <1>4, <2>1 DEF Alone
  <2>3. Live(r) => RunAlone(r)' BY <1>4, <2>2 DEF RunAlone
  <2> QED BY <1>4, <2>1, <2>3 DEF Alone
<1>5. \A p \in a2aPub' : p.t = t /\ p.st \in A2ATerminal => a2aIn'[t].st = p.st BY DEF Alone
<1>6. NoRun(t) => NoRun(t)' BY DEF NoRun
<1>7. ASSUME NEW rev \in Nat, AsksAt(t, rev)' PROVE rev <= a2aIn'[t].rev /\ Waits(t, rev)'
  <2>1. AsksAt(t, rev) \/ (a2aIn[t].st \in A2AAsking /\ a2aIn[t].rev = rev)
    BY <1>7 DEF AsksAt, Asked
  <2>2. CASE AsksAt(t, rev)
    <3>1. rev <= a2aIn[t].rev /\ Waits(t, rev) BY <2>2 DEF Alone
    <3>2. Waits(t, rev)' BY <1>6, <3>1 DEF Waits
    <3> QED BY <3>1, <3>2
  <2>3. CASE a2aIn[t].st \in A2AAsking /\ a2aIn[t].rev = rev
    <3>1. NoRun(t) BY <2>3 DEF Alone, NoRun, RunAlone, A2AAsking
    <3>2. Waits(t, rev)' BY <1>6, <2>3, <3>1 DEF Waits
    <3> QED BY <1>1, <2>3, <3>2
  <2> QED BY <2>1, <2>2, <2>3
<1> QED BY <1>2, <1>3, <1>4, <1>5, <1>7 DEF Alone

(* Runs of the task that go on: each live run is one that was.              *)
LEMMA AloneGoesOn ==
  ASSUME NEW t \in A2ATasks, Alone(t), a2aIn'[t] = a2aIn[t], a2aStarted' = a2aStarted, a2aPub' = a2aPub,
         t \in a2aRes => t \in a2aRes', Once',
         \A q \in a2aRuns' : q.t = t => q \in a2aRuns
            \/ (Live(q) /\ \E r \in a2aRuns : Live(r) /\ r.t = t /\ q.key = r.key /\ q.base = r.base)
  PROVE  Alone(t)'
<1>1. a2aIn'[t].id = "task" /\ a2aIn'[t].st # "SUBMITTED" => <<t, 0>> \in a2aStarted' BY DEF Alone
<1>2. a2aIn'[t].st = "SUBMITTED" => t \in a2aRes' BY DEF Alone
<1>3. \A q \in a2aRuns' : q.t = t /\ Live(q) => \E r \in a2aRuns : Live(r) /\ r.t = t /\ q.key = r.key /\ q.base = r.base
  OBVIOUS
<1>4. ASSUME NEW q \in a2aRuns', q.t = t, Live(q) PROVE RunAlone(q)'
  <2>1. PICK r \in a2aRuns : Live(r) /\ r.t = t /\ q.key = r.key /\ q.base = r.base BY <1>3, <1>4
  <2>2. RunAlone(r) BY <2>1 DEF Alone
  <2>3. \A p \in a2aRuns' : p.t = t /\ Live(p) => p = q
    <3> SUFFICES ASSUME NEW p \in a2aRuns', p.t = t, Live(p) PROVE p = q OBVIOUS
    <3>1. PICK x \in a2aRuns : Live(x) /\ x.t = t /\ p.key = x.key BY <1>3
    <3>2. x = r BY <2>1, <2>2, <3>1 DEF RunAlone
    <3> QED BY <1>4, <2>1, <3>1, <3>2 DEF Once
  <2> QED BY <1>4, <2>1, <2>2, <2>3 DEF RunAlone
<1>5. \A q \in a2aRuns' : q.t = t /\ q.st = "publish" => q \in a2aRuns BY DEF Live
<1>6. \A q \in a2aRuns' : q.t = t /\ q.st = "publish" /\ q.res \in A2ATerminal => a2aIn'[t].st = q.res
  BY <1>5 DEF Alone
<1>7. \A p \in a2aPub' : p.t = t /\ p.st \in A2ATerminal => a2aIn'[t].st = p.st BY DEF Alone
<1>8. NoRun(t) => NoRun(t)' BY <1>3 DEF NoRun
<1>9. ASSUME NEW rev \in Nat, AsksAt(t, rev)' PROVE rev <= a2aIn'[t].rev /\ Waits(t, rev)'
  <2>1. AsksAt(t, rev) BY <1>5, <1>9 DEF AsksAt, Asked
  <2>2. rev <= a2aIn[t].rev /\ Waits(t, rev) BY <2>1 DEF Alone
  <2> QED BY <1>8, <2>2 DEF Waits
<1> QED BY <1>1, <1>2, <1>4, <1>6, <1>7, <1>9 DEF Alone

(* The end of the live run of the task.                                     *)
LEMMA AloneEnds ==
  ASSUME Typed, Linked, Once, NEW r \in a2aRuns, NEW st \in RunEnds, A2AEnds(r, st), Live(r),
         Alone(r.t), a2aStarted' = a2aStarted, a2aPub' = a2aPub
  PROVE  Alone(r.t)'
<1>0. PICK t \in A2ATasks : t = r.t BY EndsStep
<1>1. PICK row \in A2ARow : row = a2aIn[t] BY <1>0, EndsStep
<1>2. r \in Runs /\ r.base \in Nat /\ r.key \in Nat BY DEF Typed, RunsOK, Runs
<1>3. RunAlone(r) BY <1>0 DEF Alone
<1>4. row.st \in {"SUBMITTED", "WORKING"} /\ row.rev = r.base /\ row.rev \in Nat
      /\ row.st \notin A2ATerminal /\ row.st \notin A2AAsking
  BY <1>0, <1>1, <1>2, <1>3 DEF RunAlone, A2ATerminal, A2AAsking
<1>5. PICK new : new = A2AResultRow(row, r.base, st) OBVIOUS
<1>6. PICK rev : rev = A2AResultRev(row, r.base, st) OBVIOUS
<1>7. /\ new \in A2ARow /\ new.rev >= row.rev /\ rev \in Nat
      /\ (st \in A2ATerminal => new.st = st)
      /\ (st \notin A2ATerminal => new.st = st /\ new.rev = r.base + 1 /\ rev = r.base + 1)
  <2>1. PICK base \in Nat : base = r.base BY <1>2
  <2>2. new = A2AResultRow(row, base, st) /\ rev = A2AResultRev(row, base, st) BY <1>5, <1>6, <2>1
  <2>3. /\ new \in A2ARow /\ rev \in Nat /\ new.rev >= row.rev
        /\ row.st \notin A2ATerminal /\ st \in A2ATerminal => new.st = st
        /\ row.st \notin A2ATerminal /\ st \notin A2ATerminal /\ row.rev = base =>
             new.st = st /\ new.rev = base + 1 /\ rev = base + 1
    <3>1. LET to == A2AResultRow(row, base, st) next == A2AResultRev(row, base, st)
          IN /\ to \in A2ARow /\ next \in Nat /\ to.rev >= row.rev
             /\ row.st \notin A2ATerminal /\ st \in A2ATerminal => to.st = st
             /\ row.st \notin A2ATerminal /\ st \notin A2ATerminal /\ row.rev = base =>
                  to.st = st /\ to.rev = base + 1 /\ next = base + 1
      BY ResultRow
    <3> QED BY <2>2, <3>1, Zenon
  <2>4. row.st \notin A2ATerminal /\ row.rev = base BY <1>4, <2>1
  <2>5. st \in A2ATerminal => new.st = st BY <2>3, <2>4, Zenon
  <2>6. st \notin A2ATerminal => new.st = st /\ new.rev = base + 1 /\ rev = base + 1 BY <2>3, <2>4, Zenon
  <2> QED BY <2>1, <2>3, <2>5, <2>6
<1>8. a2aIn'[t] = new
  <2>1. a2aIn' = [a2aIn EXCEPT ![t] = new] BY <1>0, <1>1, <1>5, EndsStep
  <2> QED BY <2>1 DEF Typed
<1>9. PICK run : run = [r EXCEPT !.st = "publish", !.res = st, !.rev = rev] OBVIOUS
<1>10. run.t = t /\ run.key = r.key /\ run.st = "publish" /\ run.res = st /\ run.rev = rev
  BY <1>0, <1>2, <1>9 DEF Runs
<1>11. a2aRuns' = (a2aRuns \ {r}) \cup {run} BY <1>0, <1>1, <1>6, <1>9 DEF A2AEnds, A2AGoes
<1>12. new.st = st /\ st # "SUBMITTED" BY <1>7 DEF RunEnds, A2AAsking
<1>13. <<t, 0>> \in a2aStarted'
  <2>1. CASE r.key = 0 BY <1>0, <2>1 DEF Once
  <2>2. CASE r.key # 0
    <3>1. a2aIn[t].id = "task" /\ a2aIn[t].st = "WORKING" BY <1>0, <1>3, <2>2 DEF Linked, RunAlone
    <3> QED BY <1>0, <3>1 DEF Alone
  <2> QED BY <2>1, <2>2
<1>14. NoRun(t)'
  <2>1. \A q \in a2aRuns : q.t = t /\ Live(q) => q = r BY <1>0, <1>3 DEF RunAlone
  <2> QED BY <1>10, <1>11, <2>1 DEF NoRun, Live
<1>15. \A q \in a2aRuns' : q.t = t => /\ ~Live(q)
                                    /\ (q.st = "publish" /\ q.res \in A2ATerminal => a2aIn'[t].st = q.res)
  BY <1>0, <1>1, <1>4, <1>8, <1>10, <1>11, <1>12, <1>14 DEF Alone, NoRun
<1>16. \A p \in a2aPub' : p.t = t /\ p.st \in A2ATerminal => a2aIn'[t].st = p.st
  BY <1>0, <1>1, <1>4 DEF Alone
<1>17. ASSUME NEW q \in Nat, AsksAt(t, q)' PROVE q <= a2aIn'[t].rev /\ Waits(t, q)'
  <2>1. AsksAt(t, q) \/ (st \in A2AAsking /\ rev = q) BY <1>10, <1>11, <1>17 DEF AsksAt, Asked
  <2>2. CASE AsksAt(t, q)
    <3>1. q <= row.rev /\ Waits(t, q) BY <1>0, <1>1, <2>2 DEF Alone
    <3>2. ~NoRun(t) BY <1>0 DEF NoRun
    <3>3. <<t, q + 1>> \in a2aStarted BY <1>1, <1>4, <3>1, <3>2 DEF Waits
    <3>4. q <= new.rev
      <4>1. new.rev \in Nat BY <1>7 DEF A2ARow
      <4> QED BY <1>4, <1>7, <3>1, <4>1
    <3> QED BY <1>8, <3>3, <3>4 DEF Waits
  <2>3. CASE st \in A2AAsking /\ rev = q
    <3>1. st \notin A2ATerminal BY <2>3 DEF A2AAsking, A2ATerminal
    <3>2. new.rev = q BY <1>7, <2>3, <3>1
    <3> QED BY <1>8, <1>12, <1>14, <2>3, <3>2 DEF Waits
  <2> QED BY <2>1, <2>2, <2>3
<1>18. Alone(t)' BY <1>8, <1>12, <1>13, <1>15, <1>16, <1>17 DEF Alone
<1> QED BY <1>0, <1>18

(* A task of which no run is under way is started: for the first time, or   *)
(* because the question that its row waits with was answered.               *)
LEMMA AloneStarts ==
  ASSUME Typed, Once, NEW t \in A2ATasks, Alone(t), NEW key \in Nat, NEW base \in Nat,
         A2AStart(t, key, base), <<t, key>> \notin a2aStarted, NoRun(t),
         a2aIn'[t] \in A2ARow, a2aIn'[t].id = "task", a2aIn'[t].st = (IF key = 0 THEN "SUBMITTED" ELSE "WORKING"),
         a2aIn'[t].rev = base, a2aIn[t].rev <= base, a2aIn[t] \in A2ARow, a2aIn[t].st \notin A2ATerminal,
         key # 0 => <<t, 0>> \in a2aStarted, key = 0 => t \in a2aRes',
         \A p \in a2aPub' : p \in a2aPub \/ p.t # t \/ p.st \notin A2ATerminal \cup A2AAsking,
         \A rev \in Nat : AsksAt(t, rev) => <<t, rev + 1>> \in a2aStarted \/ rev + 1 = key
  PROVE  Alone(t)'
<1> DEFINE run == A2ARun(t, key, base)
<1>1. run.t = t /\ run.key = key /\ run.base = base /\ run.st = "begin" BY DEF A2ARun
<1>2. a2aStarted' = a2aStarted \cup {<<t, key>>} /\ a2aRuns' = a2aRuns \cup {run} BY DEF A2AStart
<1> HIDE DEF run
<1>3. \A q \in a2aRuns' : q.t = t /\ Live(q) => q = run BY <1>1, <1>2 DEF NoRun
<1>4. RunAlone(run)' BY <1>1, <1>3 DEF RunAlone
<1>5. ASSUME NEW r \in a2aRuns', r.t = t
      PROVE  /\ Live(r) => RunAlone(r)'
             /\ r.st = "publish" /\ r.res \in A2ATerminal => a2aIn'[t].st = r.res
  <2>1. r.st = "publish" => r \in a2aRuns BY <1>1, <1>2
  <2>2. r.st = "publish" /\ r.res \in A2ATerminal => FALSE BY <1>5, <2>1 DEF Alone
  <2> QED BY <1>3, <1>4, <1>5, <2>2
<1>6. \A p \in a2aPub' : p.t = t /\ p.st \in A2ATerminal => a2aIn'[t].st = p.st BY DEF Alone
<1>7. ASSUME NEW rev \in Nat, AsksAt(t, rev)' PROVE rev <= a2aIn'[t].rev /\ Waits(t, rev)'
  <2>1. AsksAt(t, rev) BY <1>1, <1>2, <1>7 DEF AsksAt, Asked
  <2>2. rev <= a2aIn[t].rev BY <2>1 DEF Alone
  <2>3. rev <= a2aIn'[t].rev
    <3>1. a2aIn[t].rev \in Nat BY DEF A2ARow
    <3> QED BY <2>2, <3>1
  <2>4. <<t, rev + 1>> \in a2aStarted' BY <1>2, <2>1
  <2> QED BY <2>3, <2>4 DEF Waits
<1>8. a2aIn'[t].id = "task" /\ a2aIn'[t].st # "SUBMITTED" => <<t, 0>> \in a2aStarted' BY <1>2
<1>9. a2aIn'[t].st = "SUBMITTED" => t \in a2aRes' OBVIOUS
<1> QED BY <1>5, <1>6, <1>7, <1>8, <1>9 DEF Alone

(* The task is decided on: nothing was published of it yet, nor run.        *)
LEMMA AloneDecided ==
  ASSUME Typed, Linked, NEW t \in A2ATasks, a2aIn[t] = A2ANone, a2aIn'[t] \in A2ARow, NEW note,
         a2aPub' \subseteq a2aPub \cup {note}, note.st \notin A2AAsking,
         note.st \in A2ATerminal => a2aIn'[t].st = note.st,
         a2aIn'[t].id = "task" => a2aIn'[t].st = "SUBMITTED" /\ a2aIn'[t].rev = 1 /\ t \in a2aRes',
         a2aIn'[t].id # "task" => a2aIn'[t].st = "REJECTED",
         \A q \in a2aRuns' : q \in a2aRuns \/ (q = A2ARun(t, 0, 1) /\ a2aIn'[t].id = "task")
  PROVE  Alone(t)'
<1>1. \A p \in a2aPub : p.t = t => p.st = "none"
  <2> SUFFICES ASSUME NEW p \in a2aPub, p.t = t PROVE p.st = "none" OBVIOUS
  <2>1. Decided(p) /\ Says(p) BY DEF Linked, Typed, NetOK
  <2> QED BY <2>1 DEF Decided, Says
<1>2. \A q \in a2aRuns : q.t # t BY DEF Linked
<1>3. \A q \in a2aRuns' : q.t = t => q = A2ARun(t, 0, 1) /\ a2aIn'[t].id = "task" BY <1>2
<1>4. A2ARun(t, 0, 1).st = "begin" /\ A2ARun(t, 0, 1).base = 1 /\ A2ARun(t, 0, 1).key = 0 BY DEF A2ARun
<1>5. ASSUME NEW r \in a2aRuns', r.t = t PROVE RunAlone(r)' /\ r.st # "publish"
  <2>1. r.st = "begin" /\ r.base = 1 /\ r.key = 0 /\ a2aIn'[t].id = "task" BY <1>3, <1>4, <1>5
  <2> QED BY <1>3, <1>5, <2>1 DEF RunAlone
<1>6. \A p \in a2aPub' : p.t = t /\ p.st \in A2ATerminal => a2aIn'[t].st = p.st BY <1>1 DEF A2ATerminal
<1>7. \A rev : ~ AsksAt(t, rev)' BY <1>1, <1>5 DEF AsksAt, Asked, A2AAsking
<1>8. a2aIn'[t].st = "SUBMITTED" => t \in a2aRes' OBVIOUS
<1> QED BY <1>5, <1>6, <1>7, <1>8 DEF Alone

(* A task delivered again is started if it was not.                         *)
LEMMA AloneAgain ==
  ASSUME Typed, Linked, Once, NEW m \in a2aNet, A2AAgain(m), Alone(m.t)
  PROVE  Alone(m.t)'
<1>0. PICK t \in A2ATasks : t = m.t BY Message
<1>1. PICK row \in A2ARow : row = a2aIn[t] BY <1>0 DEF A2AAgain, Typed, Rows
<1>2. UNCHANGED <<a2aIn, a2aRes>> BY DEF A2AAgain
<1>3. InRow(row) /\ row # A2ANone /\ row.rev \in Nat BY <1>0, <1>1, A2ANoneAssumption DEF Linked, A2ARow
<1> DEFINE sent == {s \in {A2ANote("rejected", t, 1, "REJECTED"), A2ANote("result", t, row.rev, row.st)} :
                      row.st \in A2ATerminal /\ (s.k = "rejected" <=> row.st = "REJECTED")}
<1>4. \E s \in {{}, sent} : A2AAcked(m, s) \/ A2ANaked(m, s) BY <1>0, <1>1 DEF A2AAgain
<1>5. \A p \in a2aPub' : p \in a2aPub \/ (p.st = row.st /\ row.st \in A2ATerminal)
  <2>1. \A s \in sent : s.st = row.st /\ row.st \in A2ATerminal BY DEF A2ANote
  <2> HIDE DEF sent
  <2>2. \A p \in a2aPub' : p \in a2aPub \/ p \in sent BY <1>4 DEF A2AAcked, A2ANaked, A2AFresh
  <2> QED BY <2>1, <2>2
<1> HIDE DEF sent
<1>6. CASE UNCHANGED <<a2aStarted, a2aRuns>>
  <2>1. \A p \in a2aPub' : p \in a2aPub \/ p.t # t
                             \/ ((p.st \in A2ATerminal => p.st = a2aIn[t].st)
                                 /\ (p.st \in A2AAsking => AsksAt(t, p.rev) \/ (a2aIn[t].st = p.st /\ a2aIn[t].rev = p.rev)))
    BY <1>1, <1>5 DEF A2AAsking, A2ATerminal
  <2> QED BY <1>0, <1>1, <1>2, <1>6, <2>1, AloneStays
<1>7. CASE row.st \notin A2ATerminal /\ A2AStart(t, 0, row.rev) /\ <<t, 0>> \notin a2aStarted
  <2>1. row.id = "task" /\ row.st = "SUBMITTED"
    BY <1>0, <1>1, <1>3, <1>7 DEF InRow, Alone, A2ATerminal
  <2>2. NoRun(t)
    <3> SUFFICES ASSUME NEW r \in a2aRuns, r.t = t, Live(r) PROVE FALSE BY DEF NoRun
    <3>1. RunAlone(r) BY <1>0 DEF Alone
    <3>2. r.key = 0 BY <1>1, <2>1, <3>1 DEF RunAlone
    <3> QED BY <1>7, <3>2 DEF Once
  <2>3. ASSUME NEW rev \in Nat, AsksAt(t, rev) PROVE <<t, rev + 1>> \in a2aStarted
    <3>1. Waits(t, rev) BY <1>0, <2>3 DEF Alone
    <3> QED BY <1>1, <2>1, <3>1 DEF Waits, A2ATerminal, A2AAsking
  <2>4. a2aIn'[t] = row /\ t \in a2aRes' BY <1>0, <1>1, <1>2, <2>1 DEF Alone
  <2>5. \A p \in a2aPub' : p \in a2aPub \/ p.t # t \/ p.st \notin A2ATerminal \cup A2AAsking BY <1>5, <1>7
  <2>6. row.rev <= row.rev BY <1>3
  <2>7. PICK key \in Nat, base \in Nat : key = 0 /\ base = row.rev BY <1>3
  <2>8. /\ A2AStart(t, key, base) /\ <<t, key>> \notin a2aStarted /\ a2aIn[t].rev <= base
        /\ a2aIn'[t].st = (IF key = 0 THEN "SUBMITTED" ELSE "WORKING") /\ a2aIn'[t].rev = base
        /\ (key # 0 => <<t, 0>> \in a2aStarted) /\ (key = 0 => t \in a2aRes')
    BY <1>1, <1>7, <2>1, <2>4, <2>6, <2>7
  <2>9. a2aIn'[t] \in A2ARow /\ a2aIn'[t].id = "task" /\ a2aIn[t] \in A2ARow /\ a2aIn[t].st \notin A2ATerminal
    BY <1>1, <1>7, <2>1, <2>4
  <2>10. Alone(t) /\ (Alone(t)' => Alone(m.t)') BY <1>0
  <2> QED BY <2>2, <2>3, <2>5, <2>8, <2>9, <2>10, AloneStarts
<1> QED BY <1>0, <1>1, <1>6, <1>7 DEF A2AAgain, A2AStart

(* A reply puts the row that asks back to work, with a run of its own or,   *)
(* when it was not published, without; delivered again it starts that run.  *)
LEMMA AloneReply ==
  ASSUME Typed, Linked, Once, NEW m \in a2aNet, A2AReply(m), Alone(m.t)
  PROVE  Alone(m.t)'
<1>1. m.k \in A2AControls /\ m.k \in Reply BY DEF A2AReply, A2AControls, Reply
<1>2. /\ m.t \in A2ATasks /\ m.rev \in Nat /\ a2aIn[m.t] \in A2ARow /\ a2aIn[m.t] # A2ANone
      /\ a2aIn[m.t].id = "task" /\ A2AControlRev(m) \in Nat
  BY <1>1, ControlMessage, ControlRev
<1>3. PICK t \in A2ATasks : t = m.t BY <1>2
<1>4. PICK key \in Nat : key = m.rev BY <1>2
<1>5. PICK row \in A2ARow : row = a2aIn[t] BY <1>2, <1>3
<1>6. row.rev \in Nat /\ row.id = "task" BY <1>2, <1>3, <1>5 DEF A2ARow
<1>7. PICK ask \in Nat : key = ask + 1 /\ AsksAt(t, ask)
  <2>1. PICK p \in a2aPub : p.k = m.k /\ p.t = m.t /\ p.rev = m.rev BY Message
  <2>2. p.rev > 0 /\ Asked(p.t, p.rev - 1) BY <1>1, <2>1 DEF Linked, Answers
  <2>3. key - 1 \in Nat /\ AsksAt(t, key - 1) BY <1>3, <1>4, <2>1, <2>2 DEF AsksAt
  <2> QED BY <2>3
<1>8. ask <= row.rev /\ Waits(t, ask) BY <1>3, <1>5, <1>7 DEF Alone
<1>9. PICK rev \in Nat : rev = A2AMore(key, row.rev + 1) BY <1>6 DEF A2AMore
<1>10. rev = row.rev + 1 /\ rev = A2AControlRev(m)
  BY <1>3, <1>4, <1>5, <1>6, <1>7, <1>8, <1>9 DEF A2AControlRev, A2AMore
<1>11. UNCHANGED <<a2aRes, a2aGhost>> BY DEF A2AReply
<1>12. \A base : \A p \in a2aPub' : (\E s \in {{}, {A2ANote("event_status", m.t, base, "WORKING")}} : A2AAcked(m, s) \/ A2ANaked(m, s)) =>
         p \in a2aPub \/ p.st = "WORKING"
  BY DEF A2AAcked, A2ANaked, A2AFresh, A2ANote
<1>13. \A p \in a2aPub' : p \in a2aPub \/ p.st = "WORKING"
  <2>1. \E base : \E s \in {{}, {A2ANote("event_status", m.t, base, "WORKING")}} : A2AAcked(m, s) \/ A2ANaked(m, s)
    BY DEF A2AReply
  <2> QED BY <1>12, <2>1
<1>14. \A p \in a2aPub' : p \in a2aPub \/ p.t # t \/ p.st \notin A2ATerminal \cup A2AAsking
  BY <1>13 DEF A2ATerminal, A2AAsking
<1>15. ASSUME UNCHANGED <<a2aStarted, a2aRuns>>, a2aIn' = a2aIn PROVE Alone(t)'
  <2>1. \A p \in a2aPub' : p \in a2aPub \/ p.t # t
                             \/ ((p.st \in A2ATerminal => p.st = a2aIn[t].st)
                                 /\ (p.st \in A2AAsking => AsksAt(t, p.rev) \/ (a2aIn[t].st = p.st /\ a2aIn[t].rev = p.rev)))
    BY <1>14
  <2> QED BY <1>3, <1>5, <1>11, <1>15, <2>1, AloneStays
<1>16. ASSUME A2AStart(t, key, a2aIn'[t].rev), <<t, key>> \notin a2aStarted, NoRun(t), row.st \in A2AAsking \cup {"WORKING"},
              a2aIn'[t] \in A2ARow, a2aIn'[t].id = "task", a2aIn'[t].st = "WORKING", row.rev <= a2aIn'[t].rev,
              \A q \in Nat : AsksAt(t, q) => <<t, q + 1>> \in a2aStarted \/ q + 1 = key
       PROVE  Alone(t)'
  <2>1. PICK base \in Nat : base = a2aIn'[t].rev BY <1>16 DEF A2ARow
  <2>2. key # 0 BY <1>7
  <2>3. <<t, 0>> \in a2aStarted BY <1>3, <1>5, <1>6, <1>16 DEF Alone, A2AAsking
  <2>4. a2aIn'[t].st = (IF key = 0 THEN "SUBMITTED" ELSE "WORKING") BY <1>16, <2>2
  <2>5. a2aIn[t] \in A2ARow /\ a2aIn[t].st \notin A2ATerminal /\ a2aIn[t].rev <= base
    BY <1>5, <1>16, <2>1 DEF A2AAsking, A2ATerminal
  <2>6. Alone(t) BY <1>3
  <2>7. A2AStart(t, key, base) /\ a2aIn'[t].rev = base BY <1>16, <2>1
  <2>8. (key # 0 => <<t, 0>> \in a2aStarted) /\ (key = 0 => t \in a2aRes') BY <2>2, <2>3
  <2> QED BY <1>14, <1>16, <2>4, <2>5, <2>6, <2>7, <2>8, AloneStarts
<1>17. CASE A2AAnswers(m.k, row.st)
  <2>1. row.st \in A2AAsking BY <1>17 DEF A2AAnswers, A2AAsking
  <2>2. NoRun(t)
    <3> SUFFICES ASSUME NEW r \in a2aRuns, r.t = t, Live(r) PROVE FALSE BY DEF NoRun
    <3>1. RunAlone(r) BY <1>3 DEF Alone
    <3> QED BY <1>5, <2>1, <3>1 DEF RunAlone, A2AAsking
  <2>3. PICK new \in A2ARow : new = A2AApplied(row, rev, "WORKING") /\ new.st = "WORKING" /\ new.rev = rev /\ new.id = "task"
    <3>1. "WORKING" \in A2AStates BY DEF A2AStates
    <3>2. ~(rev <= row.rev) BY <1>6, <1>10
    <3> QED BY <1>6, <3>1, <3>2, AppliedRow
  <2>4. a2aIn'[t] = new
    <3>1. a2aIn' = [a2aIn EXCEPT ![t] = A2AApplied(row, rev, "WORKING")]
      BY <1>3, <1>5, <1>10, <1>17 DEF A2AReply
    <3> QED BY <2>3, <3>1 DEF Typed
  <2>5. ASSUME NEW q \in Nat, AsksAt(t, q) PROVE q <= row.rev /\ (<<t, q + 1>> \in a2aStarted \/ q = row.rev)
    <3>1. q <= row.rev /\ Waits(t, q) BY <1>3, <1>5, <2>5 DEF Alone
    <3> QED BY <1>5, <2>1, <3>1 DEF Waits, A2ATerminal, A2AAsking
  <2>6. CASE A2AStart(t, key, rev) /\ <<t, key>> \notin a2aStarted
    <3>1. ask = row.rev /\ key = rev BY <1>7, <1>10, <2>5, <2>6
    <3>2. \A q \in Nat : AsksAt(t, q) => <<t, q + 1>> \in a2aStarted \/ q + 1 = key BY <1>7, <2>5, <3>1
    <3>3. row.rev <= rev BY <1>6, <1>10
    <3> QED BY <1>3, <1>16, <2>1, <2>2, <2>3, <2>4, <2>6, <3>2, <3>3
  <2>7. CASE UNCHANGED <<a2aStarted, a2aRuns>>
    <3>1. NoRun(t)' BY <2>2, <2>7 DEF NoRun
    <3>2. \A r \in a2aRuns' : r.t = t => ~Live(r) /\ (r.st = "publish" /\ r.res \in A2ATerminal => FALSE)
      BY <1>3, <1>5, <2>1, <2>7, <3>1 DEF Alone, NoRun, A2AAsking, A2ATerminal
    <3>3. \A p \in a2aPub' : p.t = t /\ p.st \in A2ATerminal => FALSE
      BY <1>3, <1>5, <1>14, <2>1 DEF Alone, A2AAsking, A2ATerminal
    <3>4. ASSUME NEW q \in Nat, AsksAt(t, q)' PROVE q <= rev /\ Waits(t, q)'
      <4>1. AsksAt(t, q) BY <1>14, <2>7, <3>4 DEF AsksAt, Asked
      <4>2. q <= row.rev /\ (<<t, q + 1>> \in a2aStarted \/ q = row.rev) BY <2>5, <4>1
      <4>3. q <= rev BY <1>6, <1>10, <4>2
      <4> QED BY <1>10, <2>3, <2>4, <2>7, <3>1, <4>2, <4>3 DEF Waits
    <3>5. <<t, 0>> \in a2aStarted' BY <1>3, <1>5, <1>6, <2>1, <2>7 DEF Alone, A2AAsking
    <3> QED BY <1>3, <2>3, <2>4, <3>2, <3>3, <3>4, <3>5 DEF Alone
  <2>8. A2AStart(t, key, rev) \/ UNCHANGED <<a2aStarted, a2aRuns>>
    BY <1>3, <1>4, <1>5, <1>10, <1>17 DEF A2AReply
  <2> QED BY <1>3, <2>6, <2>7, <2>8 DEF A2AStart
<1>18. CASE ~A2AAnswers(m.k, row.st)
  <2>1. a2aIn' = a2aIn BY <1>3, <1>5, <1>18 DEF A2AReply
  <2>2. \/ UNCHANGED <<a2aStarted, a2aRuns>>
        \/ row.st = "WORKING" /\ key <= row.rev /\ A2AStart(t, key, row.rev)
    BY <1>3, <1>4, <1>5, <1>18 DEF A2AReply
  <2>3. CASE row.st = "WORKING" /\ key <= row.rev /\ A2AStart(t, key, row.rev) /\ <<t, key>> \notin a2aStarted
    <3>1. NoRun(t) /\ row.rev = key BY <1>5, <1>7, <1>8, <2>3 DEF Waits, A2ATerminal, A2AAsking
    <3>2. ASSUME NEW q \in Nat, AsksAt(t, q) PROVE <<t, q + 1>> \in a2aStarted \/ q + 1 = key
      <4>1. Waits(t, q) BY <1>3, <3>2 DEF Alone
      <4> QED BY <1>5, <2>3, <3>1, <4>1 DEF Waits, A2ATerminal, A2AAsking
    <3>3. row.rev <= row.rev BY <1>6
    <3> QED BY <1>3, <1>5, <1>6, <1>16, <2>1, <2>3, <3>1, <3>2, <3>3
  <2> QED BY <1>3, <1>15, <2>1, <2>2, <2>3 DEF A2AStart
<1> QED BY <1>17, <1>18

-----------------------------------------------------------------------------
(* What a step leaves alone: a handler is about the task of its message, a  *)
(* run about its own.                                                       *)
LEMMA PubGrows ==
  ASSUME NEW m, NEW sent, A2ASends(sent) \/ A2AAcked(m, sent) \/ A2ANaked(m, sent)
  PROVE  a2aPub \subseteq a2aPub' /\ a2aPub' \subseteq a2aPub \cup sent
BY DEF A2ASends, A2AAcked, A2ANaked, A2AFresh

(* A handler that ends adds to what was published, and takes nothing back.  *)
LEMMA FinishGrows ==
  ASSUME NEW m, NEW sent, A2AFinish(m, sent)
  PROVE  a2aPub \subseteq a2aPub' /\ a2aPub' \subseteq a2aPub \cup sent
<1>1. CASE A2AAcked(m, sent) \/ A2ANaked(m, sent) BY <1>1, PubGrows
<1>2. CASE A2ANaked(m, {})
  <2>1. a2aPub \subseteq a2aPub' /\ a2aPub' \subseteq a2aPub \cup {} BY <1>2, PubGrows
  <2> QED BY <2>1
<1> QED BY <1>1, <1>2 DEF A2AFinish

Others(u) ==
  /\ \A t \in A2ATasks : t # u => /\ a2aIn'[t] = a2aIn[t] /\ a2aOut'[t] = a2aOut[t]
                                 /\ (t \in a2aRes => t \in a2aRes') /\ (t \in a2aGhost.touched => t \in a2aGhost'.touched)
                                 /\ (t \in a2aGhost'.late <=> t \in a2aGhost.late)
                                 /\ \A q \in a2aRuns' : q.t = t => q \in a2aRuns
  /\ a2aStarted \subseteq a2aStarted' /\ a2aPub \subseteq a2aPub'
  /\ \A p \in a2aPub' : p \in a2aPub \/ p.t = u

(* A handler is about the task of its message.                              *)
LEMMA ConsumedOthers ==
  ASSUME Typed, Linked, NEW m \in a2aNet, A2AConsumed(m)
  PROVE  Others(m.t)
<1>1. m.t \in A2ATasks BY Message
<1>2. ASSUME NEW k, NEW rev, NEW st PROVE A2ANote(k, m.t, rev, st).t = m.t BY DEF A2ANote
<1>3. ASSUME NEW key, NEW base PROVE A2ARun(m.t, key, base).t = m.t BY DEF A2ARun
<1>4. ASSUME NEW sent, \A s \in sent : s.t = m.t,
             A2AFinish(m, sent) \/ A2AAcked(m, sent) \/ A2ANaked(m, sent)
      PROVE  a2aPub \subseteq a2aPub' /\ \A p \in a2aPub' : p \in a2aPub \/ p.t = m.t
  <2>1. a2aPub \subseteq a2aPub' /\ a2aPub' \subseteq a2aPub \cup sent BY <1>4, PubGrows, FinishGrows
  <2> QED BY <1>4, <2>1
<1>5. ASSUME NEW key, NEW base, A2AStart(m.t, key, base) \/ UNCHANGED <<a2aStarted, a2aRuns>>
      PROVE  a2aStarted \subseteq a2aStarted' /\ \A q \in a2aRuns' : q \in a2aRuns \/ q.t = m.t
  BY <1>3, <1>5 DEF A2AStart
<1>6. ASSUME a2aStarted \subseteq a2aStarted', \A q \in a2aRuns' : q \in a2aRuns \/ q.t = m.t,
             a2aPub \subseteq a2aPub', \A p \in a2aPub' : p \in a2aPub \/ p.t = m.t,
             a2aRes \subseteq a2aRes', a2aGhost.touched \subseteq a2aGhost'.touched, a2aGhost'.late = a2aGhost.late,
             \A t \in A2ATasks : t # m.t => a2aIn'[t] = a2aIn[t] /\ a2aOut'[t] = a2aOut[t]
      PROVE  Others(m.t)
  BY <1>6 DEF Others
<1>7. CASE A2ARefuse(m)
  <2>1. A2AFinish(m, {A2ANote("rejected", m.t, 1, "REJECTED")}) BY <1>7 DEF A2ARefuse
  <2>2. a2aPub \subseteq a2aPub' /\ \A p \in a2aPub' : p \in a2aPub \/ p.t = m.t BY <1>2, <1>4, <2>1
  <2>3. UNCHANGED <<a2aDeleg, a2aRes, a2aStarted, a2aRuns, a2aGhost>>
        /\ \A t \in A2ATasks : t # m.t => a2aIn'[t] = a2aIn[t]
    BY <1>7 DEF A2ARefuse, Typed
  <2> QED BY <1>6, <2>2, <2>3 DEF a2aDeleg
<1>8. CASE A2AAdmit(m)
  <2>1. \E sent \in {{}, {A2ANote("accepted", m.t, 1, "WORKING")}} : A2AAcked(m, sent) \/ A2ANaked(m, sent)
    BY <1>8 DEF A2AAdmit
  <2>2. a2aPub \subseteq a2aPub' /\ \A p \in a2aPub' : p \in a2aPub \/ p.t = m.t BY <1>2, <1>4, <2>1
  <2>3. A2AStart(m.t, 0, 1) \/ UNCHANGED <<a2aStarted, a2aRuns>> BY <1>8 DEF A2AAdmit
  <2>4. a2aStarted \subseteq a2aStarted' /\ \A q \in a2aRuns' : q \in a2aRuns \/ q.t = m.t BY <1>5, <2>3
  <2>5. UNCHANGED a2aDeleg /\ a2aRes \subseteq a2aRes' /\ \A t \in A2ATasks : t # m.t => a2aIn'[t] = a2aIn[t]
    BY <1>8 DEF A2AAdmit, Typed
  <2>6. a2aGhost.touched \subseteq a2aGhost'.touched /\ a2aGhost'.late = a2aGhost.late
    <3>1. a2aGhost' = a2aGhost \/ a2aGhost' = [a2aGhost EXCEPT !.stranded = @ \cup {m.t}] BY <1>8 DEF A2AAdmit
    <3> QED BY <3>1 DEF Typed
  <2> QED BY <1>6, <2>2, <2>4, <2>5, <2>6 DEF a2aDeleg
<1>9. CASE A2AAgain(m)
  <2>1. PICK row : row = a2aIn[m.t] OBVIOUS
  <2>2. \E both : both = {A2ANote("rejected", m.t, 1, "REJECTED"), A2ANote("result", m.t, row.rev, row.st)}
                 /\ \E sent \in SUBSET both : A2AAcked(m, sent) \/ A2ANaked(m, sent)
    BY <1>9, <2>1 DEF A2AAgain
  <2>3. \E sent : (\A s \in sent : s.t = m.t) /\ (A2AAcked(m, sent) \/ A2ANaked(m, sent)) BY <1>2, <2>2
  <2>4. a2aPub \subseteq a2aPub' /\ \A p \in a2aPub' : p \in a2aPub \/ p.t = m.t BY <1>4, <2>3
  <2>5. A2AStart(m.t, 0, row.rev) \/ UNCHANGED <<a2aStarted, a2aRuns>> BY <1>9, <2>1 DEF A2AAgain
  <2>6. a2aStarted \subseteq a2aStarted' /\ \A q \in a2aRuns' : q \in a2aRuns \/ q.t = m.t BY <1>5, <2>5
  <2>7. UNCHANGED <<a2aDeleg, a2aIn, a2aRes, a2aGhost>> BY <1>9 DEF A2AAgain
  <2> QED BY <1>6, <2>4, <2>6, <2>7 DEF a2aDeleg
<1>10. CASE A2ACancel(m) \/ A2ADeny(m)
  <2>1. \E k, rev, st : \E sent \in {{}, {A2ANote(k, m.t, rev, st)}} :
          A2AFinish(m, sent) \/ A2AAcked(m, sent) \/ A2ANaked(m, sent)
    BY <1>10 DEF A2ACancel, A2ADeny
  <2>2. a2aPub \subseteq a2aPub' /\ \A p \in a2aPub' : p \in a2aPub \/ p.t = m.t BY <1>2, <1>4, <2>1
  <2>3. UNCHANGED <<a2aDeleg, a2aRes, a2aStarted, a2aRuns>> /\ (A2ATouch(m.t) \/ UNCHANGED a2aGhost)
    BY <1>10 DEF A2ACancel, A2ADeny
  <2>4. a2aGhost.touched \subseteq a2aGhost'.touched /\ a2aGhost'.late = a2aGhost.late BY <2>3 DEF A2ATouch, Typed
  <2>5. \A t \in A2ATasks : t # m.t => a2aIn'[t] = a2aIn[t] BY <1>10 DEF A2ACancel, A2ADeny, Typed
  <2> QED BY <1>6, <2>2, <2>3, <2>4, <2>5 DEF a2aDeleg
<1>11. CASE A2AStatusRequest(m)
  <2>1. \E k, rev, st : A2AFinish(m, {A2ANote(k, m.t, rev, st)}) BY <1>11 DEF A2AStatusRequest
  <2>2. a2aPub \subseteq a2aPub' /\ \A p \in a2aPub' : p \in a2aPub \/ p.t = m.t BY <1>2, <1>4, <2>1
  <2>3. UNCHANGED <<a2aDeleg, a2aExec, a2aGhost>> BY <1>11 DEF A2AStatusRequest
  <2> QED BY <1>6, <2>2, <2>3 DEF a2aDeleg, a2aExec
<1>12. CASE A2AReply(m)
  <2>1. \E rev : \E sent \in {{}, {A2ANote("event_status", m.t, rev, "WORKING")}} : A2AAcked(m, sent) \/ A2ANaked(m, sent)
    BY <1>12 DEF A2AReply
  <2>2. a2aPub \subseteq a2aPub' /\ \A p \in a2aPub' : p \in a2aPub \/ p.t = m.t BY <1>2, <1>4, <2>1
  <2>3. \E rev : A2AStart(m.t, m.rev, rev) \/ UNCHANGED <<a2aStarted, a2aRuns>> BY <1>12 DEF A2AReply
  <2>4. a2aStarted \subseteq a2aStarted' /\ \A q \in a2aRuns' : q \in a2aRuns \/ q.t = m.t BY <1>5, <2>3
  <2>5. UNCHANGED <<a2aDeleg, a2aRes, a2aGhost>> /\ \A t \in A2ATasks : t # m.t => a2aIn'[t] = a2aIn[t]
    BY <1>12 DEF A2AReply, Typed
  <2> QED BY <1>6, <2>2, <2>4, <2>5 DEF a2aDeleg
<1>13. CASE A2AAccepted(m) \/ A2ARejected(m) \/ A2AEvent(m)
  <2>1. A2AFinish(m, {}) \/ A2AAcked(m, {}) \/ A2ANaked(m, {}) BY <1>13 DEF A2AAccepted, A2ARejected, A2AEvent
  <2>2. a2aPub \subseteq a2aPub' /\ a2aPub' \subseteq a2aPub \cup {} BY <2>1, PubGrows, FinishGrows
  <2>3. UNCHANGED <<a2aExec, a2aGhost>> BY <1>13 DEF A2AAccepted, A2ARejected, A2AEvent
  <2>4. \A t \in A2ATasks : t # m.t => a2aOut'[t] = a2aOut[t]
    BY <1>13 DEF A2AAccepted, A2ARejected, A2AEvent, a2aDeleg, Typed
  <2> QED BY <1>6, <2>2, <2>3, <2>4 DEF a2aExec
<1> QED BY <1>7, <1>8, <1>9, <1>10, <1>11, <1>12, <1>13 DEF A2AConsumed

(* A run is about its task.                                                 *)
LEMMA RunOthers ==
  ASSUME Typed, Linked, NEW r \in a2aRuns, A2ARunStep(r)
  PROVE  Others(r.t)
<1>1. r \in Runs /\ r.t \in A2ATasks BY DEF Typed, RunsOK, Runs
<1>2. ASSUME NEW new, new.t = r.t, A2AGoes(r, new) PROVE \A q \in a2aRuns' : q \in a2aRuns \/ q.t = r.t
  BY <1>2 DEF A2AGoes
<1>3. ASSUME \A q \in a2aRuns' : q \in a2aRuns \/ q.t = r.t, UNCHANGED <<a2aDeleg, a2aStarted>>,
             a2aPub \subseteq a2aPub', \A p \in a2aPub' : p \in a2aPub \/ p.t = r.t, a2aGhost'.touched = a2aGhost.touched,
             \A t \in A2ATasks : t # r.t => a2aIn'[t] = a2aIn[t] /\ (t \in a2aRes => t \in a2aRes')
                                            /\ (t \in a2aGhost'.late <=> t \in a2aGhost.late)
      PROVE  Others(r.t)
  BY <1>3 DEF Others, a2aDeleg
<1>4. ASSUME NEW st \in RunEnds, A2AEnds(r, st), UNCHANGED <<a2aDeleg, a2aStarted, a2aPub, a2aGhost>> PROVE Others(r.t)
  <2>1. PICK rev : rev = A2AResultRev(a2aIn[r.t], r.base, st) OBVIOUS
  <2>2. PICK new : new = [r EXCEPT !.st = "publish", !.res = st, !.rev = rev] OBVIOUS
  <2>3. new.t = r.t BY <1>1, <2>2 DEF Runs
  <2>4. \A q \in a2aRuns' : q \in a2aRuns \/ q.t = r.t BY <1>2, <1>4, <2>1, <2>2, <2>3 DEF A2AEnds
  <2>5. \A t \in A2ATasks : t # r.t => a2aIn'[t] = a2aIn[t] /\ (t \in a2aRes => t \in a2aRes')
    BY <1>4 DEF A2AEnds, A2AReleased, Typed
  <2> QED BY <1>3, <1>4, <2>4, <2>5
<1>9. ASSUME NEW st, Lately(r, st), UNCHANGED <<a2aDeleg, a2aStarted, a2aPub>>,
             \A t \in A2ATasks : t # r.t => (t \in a2aRes => t \in a2aRes')
      PROVE  Others(r.t)
  <2>1. PICK new : new = [r EXCEPT !.st = "publish", !.res = st, !.rev = r.base + 1] OBVIOUS
  <2>2. new.t = r.t BY <1>1, <2>1 DEF Runs
  <2>3. A2AGoes(r, new) /\ a2aIn' = a2aIn BY <1>9, <2>1 DEF Lately
  <2>4. a2aGhost'.touched = a2aGhost.touched /\ a2aGhost'.late = a2aGhost.late \cup {r.t} BY <1>9 DEF Lately, Typed
  <2> QED BY <1>2, <1>3, <1>9, <2>2, <2>3, <2>4
<1>5. CASE A2ARunLost(r)
  <2>1. Lately(r, "REJECTED") /\ UNCHANGED <<a2aDeleg, a2aStarted, a2aPub, a2aRes>> BY <1>5 DEF A2ARunLost, Lately
  <2> QED BY <1>9, <2>1
<1>10. ASSUME NEW st, A2ALapses(r, st), UNCHANGED <<a2aDeleg, a2aStarted, a2aPub>> PROVE Others(r.t)
  <2>1. Lately(r, st) /\ \A t \in A2ATasks : t # r.t => (t \in a2aRes => t \in a2aRes')
    BY <1>10 DEF A2ALapses, A2AReleased, Lately
  <2> QED BY <1>9, <1>10, <2>1
<1>6. CASE A2AEnqueue(r)
  <2>1. UNCHANGED <<a2aDeleg, a2aStarted, a2aPub>> BY <1>6 DEF A2AEnqueue
  <2>2. CASE A2AEnds(r, "FAILED") /\ UNCHANGED a2aGhost
    <3>1. "FAILED" \in RunEnds BY DEF RunEnds
    <3> QED BY <1>4, <2>1, <2>2, <3>1
  <2>3. CASE /\ A2AGoes(r, [r EXCEPT !.st = "wait"]) /\ UNCHANGED <<a2aIn, a2aRes>>
             /\ a2aGhost' = IF r.key = 0 THEN [a2aGhost EXCEPT !.ran[r.t] = @ + 1] ELSE a2aGhost
    <3>1. a2aGhost'.touched = a2aGhost.touched /\ a2aGhost'.late = a2aGhost.late BY <2>3 DEF Typed
    <3>2. PICK new : new = [r EXCEPT !.st = "wait"] OBVIOUS
    <3>3. new.t = r.t BY <1>1, <3>2 DEF Runs
    <3>4. \A q \in a2aRuns' : q \in a2aRuns \/ q.t = r.t BY <1>2, <2>3, <3>2, <3>3
    <3> QED BY <1>3, <2>1, <2>3, <3>1, <3>4
  <2>4. CASE A2ALapses(r, "FAILED") BY <1>10, <2>1, <2>4
  <2> QED BY <1>6, <2>2, <2>3, <2>4 DEF A2AEnqueue
<1>7. CASE A2ARunResult(r) \/ A2ARunTimeout(r)
  <2>1. r.st = "got" => r.res \in RunEnds BY DEF Typed, RunsOK
  <2>2. UNCHANGED <<a2aDeleg, a2aStarted, a2aPub>> BY <1>7 DEF A2ARunResult, A2ARunTimeout
  <2>3. CASE \E st : A2ALapses(r, st) BY <1>10, <2>2, <2>3
  <2>4. CASE r.res \in RunEnds /\ A2AEnds(r, r.res) /\ UNCHANGED a2aGhost BY <1>4, <2>2, <2>4
  <2> QED BY <1>7, <2>1, <2>3, <2>4 DEF A2ARunResult, A2ARunTimeout
<1>8. CASE A2ARunPublish(r)
  <2>1. a2aRuns' = a2aRuns \ {r} /\ UNCHANGED <<a2aDeleg, a2aStarted, a2aGhost, a2aIn, a2aRes>>
    BY <1>8 DEF A2ARunPublish
  <2>2. PICK k : \E sent \in {{}, {A2ANote(k, r.t, r.rev, r.res)}} : A2ASends(sent) BY <1>8 DEF A2ARunPublish
  <2>3. PICK sent \in {{}, {A2ANote(k, r.t, r.rev, r.res)}} : A2ASends(sent) BY <2>2
  <2>4. a2aPub \subseteq a2aPub' /\ a2aPub' \subseteq a2aPub \cup sent BY <2>3, PubGrows
  <2>5. \A s \in sent : s.t = r.t BY <2>3 DEF A2ANote
  <2> QED BY <1>3, <2>1, <2>4, <2>5
<1> QED BY <1>5, <1>6, <1>7, <1>8 DEF A2ARunStep

(* A task whose run was late. Its row is as it was, and no run begins.      *)
LEMMA StuckStays ==
  ASSUME NEW t \in A2ATasks, Stuck(t), a2aIn'[t] = a2aIn[t], a2aStarted \subseteq a2aStarted',
         \A q \in a2aRuns' : q.t = t => q \in a2aRuns,
         \A p \in a2aPub' : p \in a2aPub \/ p.t # t
                             \/ (p.st \in A2AAsking => AsksAt(t, p.rev) \/ (a2aIn[t].st = p.st /\ a2aIn[t].rev = p.rev))
  PROVE  Stuck(t)'
<1>1. NoRun(t)' BY DEF Stuck, NoRun
<1>2. ASSUME NEW rev \in Nat, AsksAt(t, rev)' PROVE AsksAt(t, rev)
  <2>1. \A p \in a2aPub' : p \in a2aPub \/ p.t # t \/ (p.st \in A2AAsking => AsksAt(t, p.rev)) BY DEF Stuck, A2AAsking
  <2> QED BY <1>2, <2>1 DEF AsksAt, Asked
<1> QED BY <1>1, <1>2 DEF Stuck

(* The only run of the task, which is late.                                 *)
LEMMA AloneLapses ==
  ASSUME Typed, Linked, Once, NEW r \in a2aRuns, NEW st, Lately(r, st), Live(r), Alone(r.t),
         a2aStarted' = a2aStarted, a2aPub' = a2aPub
  PROVE  Stuck(r.t)'
<1>1. r \in Runs /\ r.t \in A2ATasks /\ r.base \in Nat BY DEF Typed, RunsOK, Runs
<1>2. PICK t \in A2ATasks : t = r.t BY <1>1
<1>3. PICK run : run = [r EXCEPT !.st = "publish", !.res = st, !.rev = r.base + 1] OBVIOUS
<1>4. run.t = t /\ run.st = "publish" /\ run.rev = r.base + 1 BY <1>1, <1>2, <1>3 DEF Runs
<1>5. a2aRuns' = (a2aRuns \ {r}) \cup {run} /\ a2aIn' = a2aIn BY <1>3 DEF Lately, A2AGoes
<1>6. RunAlone(r) BY DEF Alone
<1>7. a2aIn[t].id = "task" /\ a2aIn[t].st \in {"SUBMITTED", "WORKING"} /\ a2aIn[t].rev = r.base
  BY <1>2, <1>6 DEF Linked, RunAlone
<1>8. <<t, 0>> \in a2aStarted
  <2>1. CASE r.key = 0 BY <1>2, <2>1 DEF Once
  <2>2. CASE r.key # 0 BY <1>2, <1>6, <1>7, <2>2 DEF RunAlone, Alone
  <2> QED BY <2>1, <2>2
<1>9. NoRun(t)'
  <2>1. \A q \in a2aRuns : q.t = t /\ Live(q) => q = r BY <1>2, <1>6 DEF RunAlone
  <2> QED BY <1>4, <1>5, <2>1 DEF NoRun, Live
<1>10. ASSUME NEW rev \in Nat, AsksAt(t, rev)' PROVE <<t, rev + 1>> \in a2aStarted \/ rev >= a2aIn[t].rev
  <2>1. AsksAt(t, rev) \/ rev = r.base + 1 BY <1>4, <1>5, <1>10 DEF AsksAt, Asked
  <2>2. CASE AsksAt(t, rev)
    <3>1. Waits(t, rev) BY <1>2, <2>2 DEF Alone
    <3>2. ~NoRun(t) BY <1>2 DEF NoRun
    <3> QED BY <1>7, <3>1, <3>2 DEF Waits, A2ATerminal
  <2> QED BY <1>1, <1>7, <2>1, <2>2
<1>11. Stuck(t)' BY <1>5, <1>7, <1>8, <1>9, <1>10 DEF Stuck
<1> QED BY <1>2, <1>11

(* Its task, delivered again, was started before.                           *)
LEMMA StuckAgain ==
  ASSUME Typed, NEW m \in a2aNet, A2AAgain(m), Stuck(m.t), m.t \in A2ATasks
  PROVE  Stuck(m.t)'
<1>1. a2aIn[m.t].st \notin A2ATerminal /\ <<m.t, 0>> \in a2aStarted BY DEF Stuck, A2ATerminal
<1>2. UNCHANGED <<a2aIn, a2aStarted, a2aRuns>> BY <1>1 DEF A2AAgain, A2AStart
<1> DEFINE sent == {s \in {A2ANote("rejected", m.t, 1, "REJECTED"), A2ANote("result", m.t, a2aIn[m.t].rev, a2aIn[m.t].st)} :
                      a2aIn[m.t].st \in A2ATerminal /\ (s.k = "rejected" <=> a2aIn[m.t].st = "REJECTED")}
<1>3. \E s \in {{}, sent} : A2AAcked(m, s) \/ A2ANaked(m, s) BY DEF A2AAgain
<1>4. sent = {} BY <1>1
<1>5. \A p \in a2aPub' : p \in a2aPub
  <2> HIDE DEF sent
  <2>1. PICK s : s = {} /\ (A2AAcked(m, s) \/ A2ANaked(m, s)) BY <1>3, <1>4
  <2>2. a2aPub' \subseteq a2aPub \cup s BY <2>1, PubGrows
  <2> QED BY <2>1, <2>2
<1> QED BY <1>2, <1>5, StuckStays

(* A reply to it was started before, or is terminated.                      *)
LEMMA StuckReply ==
  ASSUME Typed, Linked, NEW m \in a2aNet, A2AReply(m), Stuck(m.t), m.t \in A2ATasks
  PROVE  Stuck(m.t)'
<1>1. m.k \in A2AControls /\ m.k \in Reply BY DEF A2AReply, A2AControls, Reply
<1>2. m.rev \in Nat /\ a2aIn[m.t] \in A2ARow BY <1>1, ControlMessage
<1>3. PICK row : row = a2aIn[m.t] OBVIOUS
<1>4. row.rev \in Nat /\ row.st \in {"SUBMITTED", "WORKING"} BY <1>2, <1>3 DEF A2ARow, Stuck
<1>5. ~A2AAnswers(m.k, row.st) BY <1>4 DEF A2AAnswers
<1>6. m.rev <= row.rev => <<m.t, m.rev>> \in a2aStarted
  <2>1. PICK p \in a2aPub : p.k = m.k /\ p.t = m.t /\ p.rev = m.rev BY Message
  <2>2. p.rev > 0 /\ Asked(p.t, p.rev - 1) BY <1>1, <2>1 DEF Linked, Answers
  <2>3. PICK ask \in Nat : m.rev = ask + 1 /\ AsksAt(m.t, ask)
    <3>1. m.rev - 1 \in Nat /\ AsksAt(m.t, m.rev - 1) BY <1>2, <2>1, <2>2 DEF AsksAt
    <3> QED BY <1>2, <3>1
  <2>4. <<m.t, ask + 1>> \in a2aStarted \/ ask >= row.rev BY <1>3, <2>3 DEF Stuck
  <2> QED BY <1>4, <2>3, <2>4
<1>7. UNCHANGED a2aIn BY <1>3, <1>5 DEF A2AReply
<1>8. UNCHANGED <<a2aStarted, a2aRuns>> BY <1>3, <1>5, <1>6 DEF A2AReply, A2AStart
<1>9. \A p \in a2aPub' : p \in a2aPub \/ p.st = "WORKING"
  <2>1. PICK rev, s : s \in {{}, {A2ANote("event_status", m.t, rev, "WORKING")}} /\ (A2AAcked(m, s) \/ A2ANaked(m, s))
    BY DEF A2AReply
  <2>2. a2aPub' \subseteq a2aPub \cup s BY <2>1, PubGrows
  <2> QED BY <2>1, <2>2 DEF A2ANote
<1> QED BY <1>7, <1>8, <1>9, StuckStays DEF A2AAsking

(* Either kind of task stays what it is, when its row does and runs of it   *)
(* are only dropped, or go on.                                              *)
LEMMA FineStays ==
  ASSUME NEW t \in A2ATasks, Fine(t), a2aIn'[t] = a2aIn[t], a2aStarted \subseteq a2aStarted',
         t \in a2aGhost'.late <=> t \in a2aGhost.late,
         t \in a2aRes => t \in a2aRes', \A q \in a2aRuns' : q.t = t => q \in a2aRuns,
         \A p \in a2aPub' : p \in a2aPub \/ p.t # t
                             \/ ((p.st \in A2ATerminal => p.st = a2aIn[t].st)
                                 /\ (p.st \in A2AAsking => AsksAt(t, p.rev) \/ (a2aIn[t].st = p.st /\ a2aIn[t].rev = p.rev))),
         a2aIn[t] \in A2ARow
  PROVE  Fine(t)'
<1>1. CASE t \in a2aGhost.late
  <2>1. Stuck(t)' BY <1>1, StuckStays DEF Fine
  <2> QED BY <1>1, <2>1 DEF Fine
<1>2. CASE t \notin a2aGhost.late
  <2>1. Alone(t)' BY <1>2, AloneStays DEF Fine
  <2> QED BY <1>2, <2>1 DEF Fine
<1> QED BY <1>1, <1>2

(* The same when live runs of it go on.                                     *)
LEMMA FineGoesOn ==
  ASSUME NEW t \in A2ATasks, Fine(t), a2aIn'[t] = a2aIn[t], a2aStarted' = a2aStarted, a2aPub' = a2aPub,
         t \in a2aGhost'.late <=> t \in a2aGhost.late,
         t \in a2aRes => t \in a2aRes', Once',
         \A q \in a2aRuns' : q.t = t => q \in a2aRuns
            \/ (Live(q) /\ \E r \in a2aRuns : Live(r) /\ r.t = t /\ q.key = r.key /\ q.base = r.base)
  PROVE  Fine(t)'
<1>1. CASE t \in a2aGhost.late
  <2>1. \A q \in a2aRuns' : q.t = t => q \in a2aRuns BY <1>1 DEF Fine, Stuck, NoRun
  <2>2. Stuck(t)' BY <1>1, <2>1, StuckStays DEF Fine
  <2> QED BY <1>1, <2>2 DEF Fine
<1>2. CASE t \notin a2aGhost.late
  <2>1. Alone(t)' BY <1>2, AloneGoesOn DEF Fine
  <2> QED BY <1>2, <2>1 DEF Fine
<1> QED BY <1>1, <1>2

(* A handler keeps the untouched tasks as the run of each requires.         *)
LEMMA ConsumedAlone ==
  ASSUME Typed, Linked, Once, NEW m \in a2aNet, A2AConsumed(m), Backed, NEW t \in A2ATasks, Kept(t)
  PROVE  Kept(t)'
<1> SUFFICES ASSUME Untouched(t)' PROVE Fine(t)' BY DEF Kept
<1>1. m.t \in A2ATasks BY Message
<1>2. Others(m.t) BY ConsumedOthers
<1>3. CASE t # m.t
  <2>1. a2aIn'[t] = a2aIn[t] /\ t \notin a2aGhost.touched BY <1>2, <1>3 DEF Others, Untouched
  <2>2. a2aIn[t] \in A2ARow /\ Fine(t) BY <2>1 DEF Kept, Untouched, Typed, Rows
  <2>3. /\ a2aStarted \subseteq a2aStarted' /\ (t \in a2aRes => t \in a2aRes')
        /\ \A q \in a2aRuns' : q.t = t => q \in a2aRuns
        /\ \A p \in a2aPub' : p \in a2aPub \/ p.t # t
        /\ (t \in a2aGhost'.late <=> t \in a2aGhost.late)
    BY <1>2, <1>3 DEF Others
  <2> QED BY <2>1, <2>2, <2>3, FineStays
<1>4. CASE t = m.t
  <2>1. ASSUME A2ARefuse(m) \/ A2AAdmit(m) PROVE Fine(t)'
    <3>1. a2aIn[t] = A2ANone BY <1>4, <2>1 DEF A2ARefuse, A2AAdmit
    <3>4. t \notin a2aGhost'.late
      <4>1. t \notin a2aGhost.late BY <3>1 DEF Backed
      <4>2. UNCHANGED a2aGhost \/ a2aGhost' = [a2aGhost EXCEPT !.stranded = @ \cup {m.t}] BY <2>1 DEF A2ARefuse, A2AAdmit
      <4> QED BY <4>1, <4>2 DEF Typed
    <3>2. CASE A2ARefuse(m)
      <4>1. PICK note : note = A2ANote("rejected", t, 1, "REJECTED") OBVIOUS
      <4>2. a2aPub' \subseteq a2aPub \cup {note} BY <1>4, <3>2, <4>1, FinishGrows DEF A2ARefuse
      <4>7. PICK row : row = [st |-> "REJECTED", rev |-> 1, id |-> "msg"] OBVIOUS
      <4>3. row \in A2ARow /\ a2aIn' = [a2aIn EXCEPT ![t] = row] /\ row.st = "REJECTED" /\ row.id = "msg"
        BY <1>4, <3>2, <4>7 DEF A2ARefuse, A2ARow, A2AStates, A2ATerminal
      <4>4. a2aIn'[t] = row BY <4>3 DEF Typed
      <4>5. note.st = "REJECTED" BY <4>1 DEF A2ANote
      <4>6. a2aRuns' = a2aRuns BY <3>2 DEF A2ARefuse
      <4> QED BY <3>1, <3>4, <4>2, <4>3, <4>4, <4>5, <4>6, AloneDecided DEF A2AAsking, Fine
    <3>3. CASE A2AAdmit(m)
      <4>1. PICK note : note = A2ANote("accepted", t, 1, "WORKING") OBVIOUS
      <4>2. \E sent \in {{}, {note}} : A2AAcked(m, sent) \/ A2ANaked(m, sent) BY <1>4, <3>3, <4>1 DEF A2AAdmit
      <4>3. a2aPub' \subseteq a2aPub \cup {note} BY <4>2, PubGrows
      <4>9. PICK row : row = [st |-> "SUBMITTED", rev |-> 1, id |-> "task"] OBVIOUS
      <4>4. row \in A2ARow /\ a2aIn' = [a2aIn EXCEPT ![t] = row] /\ row.st = "SUBMITTED" /\ row.id = "task" /\ row.rev = 1
        BY <1>4, <3>3, <4>9 DEF A2AAdmit, A2ARow, A2AStates
      <4>5. a2aIn'[t] = row BY <4>4 DEF Typed
      <4>6. note.st = "WORKING" BY <4>1 DEF A2ANote
      <4>7. t \in a2aRes' /\ \A q \in a2aRuns' : q \in a2aRuns \/ q = A2ARun(t, 0, 1)
        BY <1>4, <3>3 DEF A2AAdmit, A2AStart
      <4>8. note.st \notin A2AAsking /\ note.st \notin A2ATerminal BY <4>6 DEF A2AAsking, A2ATerminal
      <4> QED BY <3>1, <3>4, <4>3, <4>4, <4>5, <4>7, <4>8, AloneDecided DEF Fine
    <3> QED BY <2>1, <3>2, <3>3
  <2>2. ASSUME a2aIn'[t] = a2aIn[t], A2AAgain(m) \/ UNCHANGED a2aGhost PROVE Fine(t) /\ a2aIn[t] \in A2ARow
    <3>1. UNCHANGED a2aGhost BY <2>2 DEF A2AAgain
    <3> QED BY <2>2, <3>1 DEF Untouched, Kept, Typed, Rows
  <2>3. ASSUME UNCHANGED <<a2aIn, a2aStarted, a2aRes, a2aRuns, a2aGhost>>,
               \A p \in a2aPub' : p \in a2aPub \/ p.t # t
                 \/ ((p.st \in A2ATerminal => p.st = a2aIn[t].st)
                     /\ (p.st \in A2AAsking => AsksAt(t, p.rev) \/ (a2aIn[t].st = p.st /\ a2aIn[t].rev = p.rev)))
        PROVE  Fine(t)'
    BY <2>2, <2>3, FineStays
  <2>4. ASSUME A2AAgain(m) PROVE Fine(t)'
    <3>1. a2aIn' = a2aIn /\ a2aGhost' = a2aGhost BY <2>4 DEF A2AAgain
    <3>2. Fine(t) BY <2>2, <2>4, <3>1
    <3> QED BY <1>4, <2>4, <3>1, <3>2, AloneAgain, StuckAgain DEF Fine
  <2>5. ASSUME A2AReply(m) PROVE Fine(t)'
    <3>1. m.k \in A2AControls /\ a2aGhost' = a2aGhost BY <2>5 DEF A2AReply, A2AControls
    <3>2. a2aIn[t] # A2ANone BY <1>4, <3>1, ControlMessage
    <3>3. Fine(t) BY <3>1, <3>2 DEF Kept, Untouched
    <3> QED BY <1>4, <2>5, <3>1, <3>3, AloneReply, StuckReply DEF Fine
  <2>6. ASSUME A2ACancel(m) \/ A2ADeny(m) PROVE Fine(t)'
    <3>1. ~A2ATouch(m.t)
      <4>1. A2ATouch(m.t) => m.t \in a2aGhost'.touched BY <1>1 DEF A2ATouch, Typed
      <4> QED BY <1>4, <4>1 DEF Untouched
    <3>2. UNCHANGED <<a2aIn, a2aStarted, a2aRes, a2aRuns, a2aGhost>> /\ (A2AAcked(m, {}) \/ A2ANaked(m, {}))
      BY <2>6, <3>1 DEF A2ACancel, A2ADeny
    <3>3. a2aPub' \subseteq a2aPub \cup {} BY <3>2, PubGrows
    <3>4. \A p \in a2aPub' : p \in a2aPub BY <3>3
    <3> QED BY <2>3, <3>2, <3>4
  <2>7. ASSUME A2AStatusRequest(m) PROVE Fine(t)'
    <3>1. PICK note : note = A2ANote("event_status", t, a2aIn[t].rev, a2aIn[t].st) OBVIOUS
    <3>2. A2AFinish(m, {note}) /\ UNCHANGED <<a2aIn, a2aStarted, a2aRes, a2aRuns, a2aGhost>>
      BY <1>4, <2>7, <3>1 DEF A2AStatusRequest, a2aExec
    <3>3. a2aPub' \subseteq a2aPub \cup {note} BY <3>2, FinishGrows
    <3>4. note.st = a2aIn[t].st /\ note.rev = a2aIn[t].rev BY <3>1 DEF A2ANote
    <3>5. \A p \in a2aPub' : p \in a2aPub \/ (p.st = a2aIn[t].st /\ p.rev = a2aIn[t].rev) BY <3>3, <3>4
    <3> QED BY <2>3, <3>2, <3>5
  <2>8. ASSUME A2AAccepted(m) \/ A2ARejected(m) \/ A2AEvent(m) PROVE Fine(t)'
    <3>1. A2AFinish(m, {}) \/ A2AAcked(m, {}) \/ A2ANaked(m, {}) BY <2>8 DEF A2AAccepted, A2ARejected, A2AEvent
    <3>2. a2aPub' \subseteq a2aPub \cup {} BY <3>1, PubGrows, FinishGrows
    <3>3. UNCHANGED <<a2aIn, a2aStarted, a2aRes, a2aRuns, a2aGhost>>
      BY <2>8 DEF A2AAccepted, A2ARejected, A2AEvent, a2aExec
    <3>4. \A p \in a2aPub' : p \in a2aPub BY <3>2
    <3> QED BY <2>3, <3>3, <3>4
  <2> QED BY <2>1, <2>4, <2>5, <2>6, <2>7, <2>8 DEF A2AConsumed
<1> QED BY <1>3, <1>4

(* A run keeps them, too.                                                   *)
LEMMA RunAloneStep ==
  ASSUME Typed, Linked, Once, Once', NEW r \in a2aRuns, A2ARunStep(r), NEW t \in A2ATasks, Kept(t)
  PROVE  Kept(t)'
<1> SUFFICES ASSUME Untouched(t)' PROVE Fine(t)' BY DEF Kept
<1>1. r \in Runs /\ r.t \in A2ATasks BY DEF Typed, RunsOK, Runs
<1>2. Others(r.t) BY RunOthers
<1>3. CASE t # r.t
  <2>1. a2aIn'[t] = a2aIn[t] /\ t \notin a2aGhost.touched BY <1>2, <1>3 DEF Others, Untouched
  <2>2. a2aIn[t] \in A2ARow /\ Fine(t) BY <2>1 DEF Kept, Untouched, Typed, Rows
  <2>3. /\ a2aStarted \subseteq a2aStarted' /\ (t \in a2aRes => t \in a2aRes')
        /\ \A q \in a2aRuns' : q.t = t => q \in a2aRuns
        /\ \A p \in a2aPub' : p \in a2aPub \/ p.t # t
        /\ (t \in a2aGhost'.late <=> t \in a2aGhost.late)
    BY <1>2, <1>3 DEF Others
  <2> QED BY <2>1, <2>2, <2>3, FineStays
<1>4. CASE t = r.t
  <2>1. a2aGhost'.touched = a2aGhost.touched
    BY <1>1 DEF A2ARunStep, A2ARunLost, A2AEnqueue, A2ARunResult, A2ARunTimeout, A2ALapses, A2ARunPublish, Typed
  <2>2. Fine(t) /\ a2aIn[t] \in A2ARow
    <3>1. a2aIn[t] # A2ANone BY <1>4 DEF Linked
    <3> QED BY <2>1, <3>1 DEF Untouched, Kept, Typed, Rows
  <2>9. Live(r) => Alone(t) /\ t \notin a2aGhost.late BY <1>4, <2>2 DEF Fine, Stuck, NoRun
  <2>3. CASE A2ARunLost(r)
    <3>1. Live(r) BY <2>3 DEF A2ARunLost, Live
    <3>2. RunAlone(r) /\ r.key = 0 /\ r.t \notin a2aRes BY <1>4, <2>3, <2>9, <3>1 DEF A2ARunLost, Alone
    <3>3. a2aIn[t].st = "SUBMITTED" BY <1>4, <3>2 DEF RunAlone
    <3> QED BY <1>4, <2>9, <3>1, <3>2, <3>3 DEF Alone
  <2>4. ASSUME NEW st \in RunEnds, A2AEnds(r, st), Live(r), UNCHANGED <<a2aStarted, a2aPub, a2aGhost>> PROVE Fine(t)'
    BY <1>4, <2>4, <2>9, AloneEnds DEF Fine
  <2>10. ASSUME NEW st, A2ALapses(r, st), Live(r), UNCHANGED <<a2aStarted, a2aPub>> PROVE Fine(t)'
    <3>1. Lately(r, st) BY <2>10 DEF A2ALapses, Lately
    <3>2. Stuck(t)' BY <1>4, <2>9, <2>10, <3>1, AloneLapses
    <3>3. t \in a2aGhost'.late BY <1>1, <1>4, <3>1 DEF Lately, Typed
    <3> QED BY <3>2, <3>3 DEF Fine
  <2>5. CASE A2AEnqueue(r) /\ A2AGoes(r, [r EXCEPT !.st = "wait"]) /\ UNCHANGED <<a2aIn, a2aRes>>
             /\ a2aGhost' = IF r.key = 0 THEN [a2aGhost EXCEPT !.ran[r.t] = @ + 1] ELSE a2aGhost
    <3>1. PICK new : new = [r EXCEPT !.st = "wait"] OBVIOUS
    <3>2. new.t = r.t /\ new.key = r.key /\ new.base = r.base /\ new.st = "wait" BY <1>1, <3>1 DEF Runs
    <3>3. a2aRuns' = (a2aRuns \ {r}) \cup {new} /\ Live(r) /\ Live(new) BY <2>5, <3>1, <3>2 DEF A2AGoes, Live, A2AEnqueue
    <3>4. \A q \in a2aRuns' : q.t = t => q \in a2aRuns
            \/ (Live(q) /\ \E x \in a2aRuns : Live(x) /\ x.t = t /\ q.key = x.key /\ q.base = x.base)
      BY <1>4, <3>2, <3>3
    <3>5. UNCHANGED <<a2aStarted, a2aPub>> BY <2>5 DEF A2AEnqueue
    <3>6. a2aGhost'.late = a2aGhost.late BY <2>5 DEF Typed
    <3> QED BY <2>2, <2>5, <3>4, <3>5, <3>6, FineGoesOn
  <2>6. CASE A2AEnqueue(r) /\ ((A2AEnds(r, "FAILED") /\ UNCHANGED a2aGhost) \/ A2ALapses(r, "FAILED"))
    <3>1. "FAILED" \in RunEnds /\ Live(r) BY <2>6 DEF RunEnds, Live, A2AEnqueue
    <3>2. UNCHANGED <<a2aStarted, a2aPub>> BY <2>6 DEF A2AEnqueue
    <3> QED BY <2>4, <2>6, <2>10, <3>1, <3>2
  <2>7. CASE A2ARunResult(r) \/ A2ARunTimeout(r)
    <3>1. r.st = "got" => r.res \in RunEnds BY DEF Typed, RunsOK
    <3>2. UNCHANGED <<a2aStarted, a2aPub>> /\ Live(r) BY <2>7 DEF A2ARunResult, A2ARunTimeout, Live
    <3>3. \/ r.res \in RunEnds /\ A2AEnds(r, r.res) /\ UNCHANGED a2aGhost
          \/ \E st : A2ALapses(r, st)
      BY <2>7, <3>1 DEF A2ARunResult, A2ARunTimeout
    <3> QED BY <2>4, <2>10, <3>2, <3>3
  <2>8. CASE A2ARunPublish(r)
    <3>1. a2aRuns' = a2aRuns \ {r} /\ UNCHANGED <<a2aIn, a2aStarted, a2aRes, a2aGhost>> /\ r.st = "publish"
      BY <2>8 DEF A2ARunPublish
    <3>2. PICK k : \E sent \in {{}, {A2ANote(k, t, r.rev, r.res)}} : A2ASends(sent) BY <1>4, <2>8 DEF A2ARunPublish
    <3>3. PICK sent \in {{}, {A2ANote(k, t, r.rev, r.res)}} : A2ASends(sent) BY <3>2
    <3>4. a2aPub' \subseteq a2aPub \cup sent BY <3>3, PubGrows
    <3>5. \A p \in sent : p.st = r.res /\ p.rev = r.rev BY <3>3 DEF A2ANote
    <3>6. \A p \in a2aPub' : p \in a2aPub \/ (p.st = r.res /\ (p.st \in A2AAsking => AsksAt(t, p.rev)))
      BY <1>4, <3>1, <3>4, <3>5 DEF AsksAt
    <3>7. CASE t \in a2aGhost.late
      <4>1. Stuck(t)' BY <2>2, <3>1, <3>6, <3>7, StuckStays DEF Fine
      <4> QED BY <3>1, <3>7, <4>1 DEF Fine
    <3>8. CASE t \notin a2aGhost.late
      <4>1. r.res \in A2ATerminal => r.res = a2aIn[t].st BY <1>4, <2>2, <3>1, <3>8 DEF Fine, Alone
      <4> QED BY <2>2, <3>1, <3>6, <4>1, FineStays
    <3> QED BY <3>7, <3>8
  <2> QED BY <2>3, <2>5, <2>6, <2>7, <2>8 DEF A2ARunStep, A2AEnqueue
<1> QED BY <1>3, <1>4

(* And so does every step.                                                  *)
LEMMA NextAlone ==
  ASSUME Typed, Linked, Once, Once', A2ANext, Backed, NEW t \in A2ATasks, Kept(t)
  PROVE  Kept(t)'
<1>1. ASSUME UNCHANGED <<a2aIn, a2aStarted, a2aRes, a2aRuns, a2aGhost>>,
             \A p \in a2aPub' : p \in a2aPub \/ p.st = "none"
      PROVE  Kept(t)'
  <2> SUFFICES ASSUME Untouched(t)' PROVE Fine(t)' BY DEF Kept
  <2>1. Fine(t) /\ a2aIn[t] \in A2ARow BY <1>1 DEF Kept, Untouched, Typed, Rows
  <2> QED BY <1>1, <2>1, FineStays DEF A2ATerminal, A2AAsking
<1>2. ASSUME NEW u \in A2ATasks, A2ASendTask(u) PROVE Kept(t)'
  <2>1. \E sent \in {{}, {A2ANote("task", u, 0, "none")}} : A2ASends(sent) BY <1>2 DEF A2ASendTask
  <2>2. a2aPub' \subseteq a2aPub \cup {A2ANote("task", u, 0, "none")} BY <2>1, PubGrows
  <2>3. A2ANote("task", u, 0, "none").st = "none" BY DEF A2ANote
  <2>4. UNCHANGED <<a2aExec, a2aGhost>> BY <1>2 DEF A2ASendTask
  <2> QED BY <1>1, <2>2, <2>3, <2>4 DEF a2aExec
<1>3. ASSUME NEW u \in A2ATasks, NEW k \in A2AControls, A2ASendControl(k, u) PROVE Kept(t)'
  <2>1. PICK rev : A2ASends({A2ANote(k, u, rev, "none")}) BY <1>3 DEF A2ASendControl
  <2>2. a2aPub' \subseteq a2aPub \cup {A2ANote(k, u, rev, "none")} BY <2>1, PubGrows
  <2>3. A2ANote(k, u, rev, "none").st = "none" BY DEF A2ANote
  <2>4. UNCHANGED <<a2aExec, a2aGhost>> BY <1>3 DEF A2ASendControl
  <2> QED BY <1>1, <2>2, <2>3, <2>4 DEF a2aExec
<1>4. CASE A2AJobEnds
  <2> DEFINE job == Head(a2aQueue)
             waiting == {r \in a2aRuns : r.t = job.t /\ r.key = job.key /\ r.st = "wait"}
  <2>1. PICK res \in RunEnds \cup {"none"} : a2aRuns' = (a2aRuns \ waiting) \cup {Handed(r, res) : r \in waiting}
    BY <1>4 DEF A2AJobEnds, Handed, RunEnds
  <2>2. UNCHANGED <<a2aIn, a2aRes, a2aStarted, a2aPub, a2aGhost>> BY <1>4 DEF A2AJobEnds
  <2>3. ASSUME NEW r \in a2aRuns
        PROVE  Handed(r, res).t = r.t /\ Handed(r, res).key = r.key /\ Handed(r, res).base = r.base /\ Live(Handed(r, res))
    <3>1. r \in Runs BY DEF Typed, RunsOK
    <3> QED BY <3>1 DEF Handed, Runs, Live
  <2>4. \A r \in waiting : r \in a2aRuns /\ Live(r) BY DEF Live
  <2> HIDE DEF waiting
  <2>5. \A q \in a2aRuns' : q.t = t => q \in a2aRuns
          \/ (Live(q) /\ \E r \in a2aRuns : Live(r) /\ r.t = t /\ q.key = r.key /\ q.base = r.base)
    BY <2>1, <2>3, <2>4
  <2>6. Untouched(t)' => Fine(t) BY <2>2 DEF Kept, Untouched
  <2> QED BY <2>2, <2>5, <2>6, FineGoesOn DEF Kept
<1>5. CASE A2ARestart
  <2>1. a2aIn' = a2aIn /\ a2aGhost' = [a2aGhost EXCEPT !.touched = @ \cup {u \in A2ATasks : a2aIn[u] # A2ANone}]
    BY <1>5 DEF A2ARestart
  <2>2. a2aGhost'.touched = a2aGhost.touched \cup {u \in A2ATasks : a2aIn[u] # A2ANone} BY <2>1 DEF Typed
  <2>3. ~Untouched(t)' BY <2>1, <2>2 DEF Untouched
  <2> QED BY <2>3 DEF Kept
<1> QED BY <1>2, <1>3, <1>4, <1>5, ConsumedAlone, RunAloneStep DEF A2ANext

(* No handler makes a task late.                                            *)
LEMMA LateStays ==
  ASSUME Typed, NEW m \in a2aNet, A2AConsumed(m)
  PROVE  a2aGhost'.late = a2aGhost.late
<1>1. \/ UNCHANGED a2aGhost \/ A2ATouch(m.t) \/ a2aGhost' = [a2aGhost EXCEPT !.stranded = @ \cup {m.t}]
  BY DEF A2AConsumed, A2ARefuse, A2AAdmit, A2AAgain, A2ACancel, A2AStatusRequest, A2AReply, A2ADeny,
         A2AAccepted, A2ARejected, A2AEvent
<1> QED BY <1>1 DEF A2ATouch, Typed

(* What a run is about to publish stays backed by its row, or late.         *)
LEMMA NextBacked ==
  ASSUME Typed, Linked, Backed, A2ANext
  PROVE  Backed'
<1>1. \A t \in A2ATasks : GoesOn(a2aIn[t], a2aIn'[t]) BY InGoesOn
<1>2. a2aGhost.late \subseteq A2ATasks /\ \A r \in a2aRuns : r \in Runs /\ r.t \in A2ATasks
  BY DEF Typed, RunsOK, Runs
<1>3. ASSUME a2aGhost.late \subseteq a2aGhost'.late,
             \A t \in a2aGhost'.late : t \in a2aGhost.late \/ (t \in A2ATasks /\ a2aIn[t] # A2ANone),
             \A q \in a2aRuns' : q.st = "publish" /\ q.res \in A2ATerminal =>
               q \in a2aRuns \/ A2AEnded(a2aIn'[q.t]) \/ q.t \in a2aGhost'.late
      PROVE  Backed'
  <2>1. \A t \in a2aGhost'.late : a2aIn'[t] # A2ANone BY <1>1, <1>2, <1>3 DEF Backed, GoesOn
  <2>2. ASSUME NEW q \in a2aRuns', q.st = "publish", q.res \in A2ATerminal
        PROVE  A2AEnded(a2aIn'[q.t]) \/ q.t \in a2aGhost'.late
    <3>1. CASE q \in a2aRuns
      <4>1. A2AEnded(a2aIn[q.t]) => A2AEnded(a2aIn'[q.t]) BY <1>1, <1>2, <3>1 DEF GoesOn, A2AEnded
      <4> QED BY <1>3, <2>2, <3>1, <4>1 DEF Backed
    <3> QED BY <1>3, <2>2, <3>1
  <2> QED BY <2>1, <2>2 DEF Backed
<1>4. ASSUME a2aGhost'.late = a2aGhost.late, \A q \in a2aRuns' : q.st = "publish" => q \in a2aRuns PROVE Backed'
  BY <1>3, <1>4
<1>5. ASSUME NEW r \in a2aRuns, NEW st, Lately(r, st) PROVE Backed'
  <2>1. PICK new : new = [r EXCEPT !.st = "publish", !.res = st, !.rev = r.base + 1] OBVIOUS
  <2>2. a2aRuns' = (a2aRuns \ {r}) \cup {new} /\ new.t = r.t BY <1>2, <1>5, <2>1 DEF Lately, A2AGoes, Runs
  <2>3. a2aGhost'.late = a2aGhost.late \cup {r.t} BY <1>5 DEF Lately, Typed
  <2>4. r.t \in A2ATasks /\ a2aIn[r.t] # A2ANone BY <1>2 DEF Linked
  <2> QED BY <1>3, <2>2, <2>3, <2>4
<1>6. ASSUME NEW r \in a2aRuns, NEW st \in RunEnds, A2AEnds(r, st), UNCHANGED a2aGhost PROVE Backed'
  <2>1. PICK new : new = [r EXCEPT !.st = "publish", !.res = st, !.rev = A2AResultRev(a2aIn[r.t], r.base, st)] OBVIOUS
  <2>2. a2aRuns' = (a2aRuns \ {r}) \cup {new} BY <1>6, <2>1 DEF A2AEnds, A2AGoes
  <2>3. new.t = r.t /\ new.res = st BY <1>2, <2>1 DEF Runs
  <2>4. a2aIn' = [a2aIn EXCEPT ![r.t] = A2AResultRow(a2aIn[r.t], r.base, st)] /\ a2aIn[r.t] \in A2ARow /\ r.t \in A2ATasks
    BY <1>6, EndsStep
  <2>5. st \in A2ATerminal => A2AEnded(a2aIn'[r.t])
    <3>1. PICK row : row = A2AResultRow(a2aIn[r.t], r.base, st) OBVIOUS
    <3>2. a2aIn'[r.t] = row BY <2>4, <3>1 DEF Typed
    <3>3. r.base \in Nat BY <1>2 DEF Runs
    <3>4. row \in A2ARow BY <2>4, <3>1, <3>3, ResultRow
    <3>5. st \in A2ATerminal => row.st \in A2ATerminal
      BY <2>4, <3>1 DEF A2AResultRow, A2ARecorded, A2ARow
    <3> QED BY <3>2, <3>4, <3>5, A2ANoneAssumption DEF A2AEnded
  <2> QED BY <1>3, <1>6, <2>2, <2>3, <2>5
<1>7. ASSUME NEW m \in a2aNet, A2AConsumed(m) PROVE Backed'
  <2>1. a2aGhost'.late = a2aGhost.late BY <1>7, LateStays
  <2>2. UNCHANGED a2aRuns \/ \E key, base : A2AStart(m.t, key, base)
    BY <1>7 DEF A2AConsumed, A2ARefuse, A2AAdmit, A2AAgain, A2ACancel, A2AStatusRequest, A2AReply, A2ADeny,
                A2AAccepted, A2ARejected, A2AEvent, a2aExec
  <2>4. \A key, base : A2ARun(m.t, key, base).st = "begin" BY DEF A2ARun
  <2>3. \A q \in a2aRuns' : q.st = "publish" => q \in a2aRuns
    <3>1. CASE UNCHANGED a2aRuns BY <3>1
    <3>2. ASSUME NEW key, NEW base, A2AStart(m.t, key, base) PROVE \A q \in a2aRuns' : q.st = "publish" => q \in a2aRuns
      <4>1. \A q \in a2aRuns' : q \in a2aRuns \/ q = A2ARun(m.t, key, base) BY <3>2 DEF A2AStart
      <4> QED BY <2>4, <4>1
    <3> QED BY <2>2, <3>1, <3>2
  <2> QED BY <1>4, <2>1, <2>3
<1>8. ASSUME NEW r \in a2aRuns, A2AEnqueue(r) PROVE Backed'
  <2>1. CASE A2AGoes(r, [r EXCEPT !.st = "wait"]) /\ a2aGhost' = (IF r.key = 0 THEN [a2aGhost EXCEPT !.ran[r.t] = @ + 1] ELSE a2aGhost)
    <3>1. a2aGhost'.late = a2aGhost.late BY <2>1 DEF Typed
    <3>2. [r EXCEPT !.st = "wait"].st = "wait" BY <1>2 DEF Runs
    <3> QED BY <1>4, <2>1, <3>1, <3>2 DEF A2AGoes
  <2>2. CASE A2AEnds(r, "FAILED") /\ UNCHANGED a2aGhost BY <1>6, <2>2 DEF RunEnds
  <2>3. CASE A2ALapses(r, "FAILED") BY <1>5, <2>3 DEF A2ALapses, Lately
  <2> QED BY <1>8, <2>1, <2>2, <2>3 DEF A2AEnqueue
<1>9. ASSUME NEW r \in a2aRuns, A2ARunStep(r) PROVE Backed'
  <2>1. CASE A2ARunLost(r) BY <1>5, <2>1 DEF A2ARunLost, Lately
  <2>2. CASE A2ARunResult(r)
    <3>1. r.res \in RunEnds BY <2>2 DEF A2ARunResult, Typed, RunsOK
    <3>2. (A2AEnds(r, r.res) /\ UNCHANGED a2aGhost) \/ Lately(r, r.res) BY <2>2 DEF A2ARunResult, A2ALapses, Lately
    <3> QED BY <1>5, <1>6, <3>1, <3>2
  <2>3. CASE A2ARunTimeout(r) BY <1>5, <2>3 DEF A2ARunTimeout, A2ALapses, Lately
  <2>4. CASE A2ARunPublish(r) BY <1>4, <2>4 DEF A2ARunPublish
  <2> QED BY <1>8, <1>9, <2>1, <2>2, <2>3, <2>4 DEF A2ARunStep
<1>10. CASE A2AJobEnds
  <2> DEFINE job == Head(a2aQueue)
             waiting == {r \in a2aRuns : r.t = job.t /\ r.key = job.key /\ r.st = "wait"}
  <2>1. PICK res \in RunEnds \cup {"none"} : a2aRuns' = (a2aRuns \ waiting) \cup {Handed(r, res) : r \in waiting}
    BY <1>10 DEF A2AJobEnds, Handed, RunEnds
  <2>2. ASSUME NEW r \in a2aRuns PROVE Handed(r, res).st # "publish" BY <1>2 DEF Handed, Runs
  <2>3. waiting \subseteq a2aRuns OBVIOUS
  <2> HIDE DEF waiting
  <2>4. \A q \in a2aRuns' : q.st = "publish" => q \in a2aRuns BY <2>1, <2>2, <2>3
  <2> QED BY <1>4, <1>10, <2>4 DEF A2AJobEnds
<1>11. CASE A2ARestart
  <2>1. PICK more : a2aGhost' = [a2aGhost EXCEPT !.touched = @ \cup more] /\ a2aRuns' = {} BY <1>11 DEF A2ARestart
  <2> QED BY <1>4, <2>1 DEF Typed
<1>12. CASE \E u \in A2ATasks : A2ASendTask(u) \/ \E k \in A2AControls : A2ASendControl(k, u)
  BY <1>4, <1>12 DEF A2ASendTask, A2ASendControl, a2aExec
<1> QED BY <1>7, <1>9, <1>10, <1>11, <1>12 DEF A2ANext

-----------------------------------------------------------------------------
(* The inductive invariant holds at the start, and every step keeps it.     *)
LEMMA InitInv == A2AInit => IInv
<1> SUFFICES ASSUME A2AInit PROVE IInv OBVIOUS
<1>1. Typed /\ Linked BY InitLinked
<1>2. /\ a2aRes = {} /\ a2aOpen = 0 /\ a2aRuns = {} /\ a2aIn = [t \in A2ATasks |-> A2ANone]
      /\ a2aGhost = [ran |-> [t \in A2ATasks |-> 0], touched |-> {}, stranded |-> {}, late |-> {}]
  BY DEF A2AInit
<1>3. Reserved BY <1>2, FS_EmptySet, A2ABoundsAssumption DEF Reserved, A2AQuota
<1>4. Once BY <1>2 DEF Once
<1>5. \A t \in A2ATasks : Kept(t) BY <1>2 DEF Kept, Untouched
<1>6. Backed BY <1>2 DEF Backed
<1> QED BY <1>1, <1>3, <1>4, <1>5, <1>6 DEF IInv

(* The invariant is kept by every step, and by none at all.                 *)
LEMMA StepInv == IInv /\ [A2ANext]_a2aVars => IInv'
<1>1. ASSUME IInv, A2ANext PROVE IInv'
  <2>1. Typed /\ Linked /\ Reserved /\ Once /\ Backed /\ \A t \in A2ATasks : Kept(t) BY <1>1 DEF IInv
  <2>2. Typed' /\ Linked' BY <1>1, <2>1, NextLinked
  <2>3. Reserved' BY <1>1, <2>1, NextReserved
  <2>4. Once' BY <1>1, <2>1, NextOnce
  <2>5. \A t \in A2ATasks : Kept(t)' BY <1>1, <2>1, <2>4, NextAlone
  <2>6. Backed' BY <1>1, <2>1, NextBacked
  <2> QED BY <2>2, <2>3, <2>4, <2>5, <2>6 DEF IInv
<1>2. ASSUME IInv, UNCHANGED a2aVars PROVE IInv'
  <2>1. Typed' /\ Linked' BY <1>2, StutterLinked DEF IInv
  <2>2. Reserved' /\ Once' BY <1>2 DEF IInv, a2aVars, Reserved, A2AQuota, Once, Begins
  <2>3. \A t \in A2ATasks : Kept(t)'
    BY <1>2 DEF IInv, a2aVars, Kept, Untouched, Fine, Alone, Stuck, RunAlone, AsksAt, Asked, Waits, NoRun
  <2>4. Backed' BY <1>2 DEF IInv, a2aVars, Backed
  <2> QED BY <2>1, <2>2, <2>3, <2>4 DEF IInv
<1> QED BY <1>1, <1>2

(* The invariant of the delegation: the types and the links between the two *)
(* sides, the reservations, the one run of a task, and for a task that no   *)
(* cancel, denial or restart touched that its runs come one at a time, and  *)
(* none more after one that was late; an end that is published is in the    *)
(* row, or was late.                                                        *)
THEOREM A2AInvariant == A2ASpec => []IInv
<1>1. A2AInit => IInv BY InitInv
<1>2. IInv /\ [A2ANext]_a2aVars => IInv' BY StepInv
<1> QED BY <1>1, <1>2, PTL DEF A2ASpec

(* The invariant implies what the runs check of a state.                    *)
LEMMA InvTypeOK == IInv => A2ATypeOK
<1> SUFFICES ASSUME IInv PROVE A2ATypeOK OBVIOUS
<1>1. Typed /\ A2AQuota BY DEF IInv, Reserved
<1>2. \A t \in A2ATasks : a2aOut[t] \in A2ARow \cup {A2ANone} /\ a2aIn[t] \in A2ARow \cup {A2ANone}
  BY <1>1 DEF Typed, Rows
<1>3. \A m \in a2aNet : m.t \in A2ATasks /\ m.n \in 1..A2AMaxDeliver /\ m.k \in {"task"} \cup A2AControls \cup A2AEvents
  BY <1>1 DEF Typed, NetOK, Messages, Kinds
<1>4. a2aRes \subseteq A2ATasks /\ a2aOpen \in 0..Cardinality(A2ATasks)
  <2>1. a2aRes \subseteq A2ATasks BY <1>1 DEF Typed
  <2>2. /\ Cardinality(a2aRes) <= Cardinality(A2ATasks) /\ Cardinality(a2aRes) \in Nat
        /\ Cardinality(A2ATasks) \in Nat
    BY <1>1, <2>1, A2ATasksAssumption, ReservedFinite, FS_Subset, FS_CardinalityType
  <2> QED BY <1>1, <2>1, <2>2 DEF A2AQuota
<1>5. \A r \in a2aRuns : r.t \in A2ATasks /\ r.st \in {"begin", "wait", "got", "publish"}
  BY <1>1 DEF Typed, RunsOK, Runs, RunStages
<1>6. \A s \in a2aSeen : \E e \in a2aLog : e.t = s.t /\ e.rev = s.rev /\ e.k = s.k BY <1>1 DEF Typed, LogOK
<1> QED BY <1>2, <1>3, <1>4, <1>5, <1>6 DEF A2ATypeOK

(* Under the invariant the delegator's end of a task is the executor's, and *)
(* a task whose run was late does not end.                                  *)
LEMMA InvEndsAgree == IInv => A2AEndsAgree
<1> SUFFICES ASSUME IInv, NEW t \in A2ATasks \ a2aGhost.touched
             PROVE  IF t \in a2aGhost.late THEN ~A2AEnded(a2aIn[t])
                    ELSE A2AEnded(a2aOut[t]) => A2AEnded(a2aIn[t]) /\ a2aOut[t].st = a2aIn[t].st
  BY DEF A2AEndsAgree
<1>1. a2aIn[t] # A2ANone => Fine(t) BY DEF IInv, Kept, Untouched
<1>2. CASE t \in a2aGhost.late BY <1>1, <1>2 DEF Fine, Stuck, A2AEnded, A2ATerminal
<1>3. CASE t \notin a2aGhost.late /\ A2AEnded(a2aOut[t])
  <2>1. PICK p \in a2aPub : p.t = t /\ p.st = a2aOut[t].st BY <1>3 DEF IInv, Linked, OutRow, Told, A2AEnded
  <2>2. Says(p) /\ Decided(p) /\ p.st \in A2ATerminal BY <1>3, <2>1 DEF IInv, Typed, NetOK, Linked, A2AEnded
  <2>4. p.k # "task"
    <3>1. p.k = "task" => p.st = "none" BY <2>2 DEF Says
    <3> QED BY <2>2, <3>1 DEF A2ATerminal
  <2>3. a2aIn[t] # A2ANone BY <2>1, <2>2, <2>4 DEF Decided
  <2> QED BY <1>1, <1>3, <2>1, <2>2, <2>3 DEF Fine, Alone, A2AEnded
<1> QED BY <1>2, <1>3

(* Types of the variables, A2ATypeOK.                                       *)
THEOREM A2ATypes == A2ASpec => []A2ATypeOK
<1>1. IInv => A2ATypeOK BY InvTypeOK
<1> QED BY <1>1, A2AInvariant, PTL

(* The executor's quota is the number of its reservations and within the    *)
(* cap (A2AQuota), whatever fails, is retried or times out.                 *)
THEOREM A2AQuotaCounts == A2ASpec => []A2AQuota
<1>1. IInv => A2AQuota BY DEF IInv, Reserved
<1> QED BY <1>1, A2AInvariant, PTL

(* "do not enqueue second execution" (A2ARunsOnce): of every task, for any  *)
(* number of deliveries and restarts.                                       *)
THEOREM A2AOnce == A2ASpec => []A2ARunsOnce
<1>1. IInv => A2ARunsOnce BY DEF IInv, Once, A2ARunsOnce
<1> QED BY <1>1, A2AInvariant, PTL

(* The two records of an untouched task end alike, unless its run was late: *)
(* then the executor's never ends (A2AEndsAgree).                           *)
THEOREM A2AAgree == A2ASpec => []A2AEndsAgree
<1>1. IInv => A2AEndsAgree BY InvEndsAgree
<1> QED BY <1>1, A2AInvariant, PTL

(* No event, control or late run changes a row that has ended (A2AEndStays).*)
EndKept == \A t \in A2ATasks, side \in {"out", "in"} :
             LET old == IF side = "out" THEN a2aOut[t] ELSE a2aIn[t]
                 new == IF side = "out" THEN a2aOut'[t] ELSE a2aIn'[t] IN
             old # A2ANone => /\ new # A2ANone /\ new.rev >= old.rev
                              /\ A2AEnded(old) => new = old

(* No step undoes an end.                                                   *)
LEMMA StepEndKept == IInv /\ [A2ANext]_a2aVars => [EndKept]_a2aVars
<1> SUFFICES ASSUME IInv, A2ANext PROVE EndKept OBVIOUS
<1>1. \A t \in A2ATasks : GoesOn(a2aOut[t], a2aOut'[t]) /\ GoesOn(a2aIn[t], a2aIn'[t])
  BY InGoesOn, OutGoesOn DEF IInv
<1> QED BY <1>1 DEF EndKept, GoesOn

(* An end is the end, on either side, over redeliveries and late runs.      *)
THEOREM A2AEndsStay == A2ASpec => A2AEndStays
<1>1. IInv /\ [A2ANext]_a2aVars => [EndKept]_a2aVars BY StepEndKept
<1> QED BY <1>1, A2AInvariant, PTL DEF A2ASpec, A2AEndStays, EndKept

(* The ends of a task: alike on both sides unless a run was late, and final *)
(* (A2AEndsFinal).                                                          *)
THEOREM A2AFinal == A2ASpec => A2AEndsFinal
BY A2AAgree, A2AEndsStay, PTL DEF A2AEndsFinal

-----------------------------------------------------------------------------
(* The two sides implement the abstract delegation.                         *)
WorkMap == [t \in A2ATasks |-> A2AWork(t)]
SaidMap == [t \in A2ATasks |-> A2ASaid(t)]
ViewMap == [t \in A2ATasks |-> A2AView(t)]

(* What a note announces.                                                   *)
Speaks(p) == p.k \in {"accepted", "rejected"} \/ p.st \in A2ATerminal
Word(p) == IF p.k = "accepted" THEN "accepted" ELSE IF p.k = "rejected" THEN "refused" ELSE "end"

(* What was said of a task: the words of what was published about it.       *)
LEMMA SaidIs ==
  ASSUME NEW t, NEW x
  PROVE  /\ x \in A2ASaid(t) <=> \E p \in a2aPub : p.t = t /\ Speaks(p) /\ x = Word(p)
         /\ x \in A2ASaid(t)' <=> \E p \in a2aPub' : p.t = t /\ Speaks(p) /\ x = Word(p)
BY DEF A2ASaid, Speaks, Word

(* A step of one task moves the abstract delegation of that task only.      *)
LEMMA OneMoves ==
  ASSUME NEW u \in A2ATasks, Others(u)
  PROVE  /\ WorkMap' = [WorkMap EXCEPT ![u] = A2AWork(u)']
         /\ SaidMap' = [SaidMap EXCEPT ![u] = A2ASaid(u)']
         /\ ViewMap' = [ViewMap EXCEPT ![u] = A2AView(u)']
         /\ WorkMap[u] = A2AWork(u) /\ SaidMap[u] = A2ASaid(u) /\ ViewMap[u] = A2AView(u)
         /\ A2AWork(u)' = A2AWork(u) => WorkMap' = WorkMap
         /\ A2ASaid(u)' = A2ASaid(u) => SaidMap' = SaidMap
         /\ A2AView(u)' = A2AView(u) => ViewMap' = ViewMap
<1>1. ASSUME NEW t \in A2ATasks, t # u
      PROVE  A2AWork(t)' = A2AWork(t) /\ A2ASaid(t)' = A2ASaid(t) /\ A2AView(t)' = A2AView(t)
  <2>1. A2AWork(t)' = A2AWork(t) /\ A2AView(t)' = A2AView(t) BY <1>1 DEF Others, A2AWork, A2AView
  <2>2. \A p : p \in a2aPub' /\ p.t = t <=> p \in a2aPub /\ p.t = t BY <1>1 DEF Others
  <2>3. \A x : x \in A2ASaid(t)' <=> x \in A2ASaid(t) BY <2>2, SaidIs
  <2>4. A2ASaid(t)' = A2ASaid(t)
    <3>1. \A x \in A2ASaid(t)' : x \in A2ASaid(t) BY <2>3
    <3>2. \A x \in A2ASaid(t) : x \in A2ASaid(t)' BY <2>3
    <3> QED BY <3>1, <3>2
  <2> QED BY <2>1, <2>4
<1>2. WorkMap' = [t \in A2ATasks |-> A2AWork(t)'] BY DEF WorkMap
<1>3. SaidMap' = [t \in A2ATasks |-> A2ASaid(t)'] BY DEF SaidMap
<1>4. ViewMap' = [t \in A2ATasks |-> A2AView(t)'] BY DEF ViewMap
<1>5. WorkMap' = [WorkMap EXCEPT ![u] = A2AWork(u)'] BY <1>1, <1>2 DEF WorkMap
<1>6. SaidMap' = [SaidMap EXCEPT ![u] = A2ASaid(u)'] BY <1>1, <1>3 DEF SaidMap
<1>7. ViewMap' = [ViewMap EXCEPT ![u] = A2AView(u)'] BY <1>1, <1>4 DEF ViewMap
<1>8. WorkMap[u] = A2AWork(u) /\ SaidMap[u] = A2ASaid(u) /\ ViewMap[u] = A2AView(u)
  BY DEF WorkMap, SaidMap, ViewMap
<1> QED BY <1>1, <1>2, <1>3, <1>4, <1>5, <1>6, <1>7, <1>8 DEF WorkMap, SaidMap, ViewMap

LateMap == a2aGhost.late
Mapped == A2ADel!DelNext \/ UNCHANGED <<WorkMap, SaidMap, ViewMap, LateMap>>

(* A task the executor has decided on: its record only ends, and what it    *)
(* announces, other than the acceptance, is what the record says. It says   *)
(* that the task ended only if the record does, or the task is late.        *)
LEMMA DecidedMaps ==
  ASSUME Typed, Linked, Typed', Linked', NEW u \in A2ATasks, Others(u), a2aIn[u] # A2ANone, a2aOut'[u] = a2aOut[u],
         GoesOn(a2aIn[u], a2aIn'[u]), a2aIn'[u].id = a2aIn[u].id, \A p \in a2aPub' : p \in a2aPub \/ p.k # "accepted",
         a2aGhost'.late = a2aGhost.late,
         \A p \in a2aPub' : p \in a2aPub \/ p.st \notin A2ATerminal \/ A2AEnded(a2aIn'[u]) \/ u \in a2aGhost.late
  PROVE  Mapped
<1>1. A2AView(u)' = A2AView(u) BY DEF A2AView
<1>2. a2aIn'[u] # A2ANone /\ InRow(a2aIn[u]) /\ a2aIn[u].id \in {"task", "msg"} BY DEF GoesOn, Linked, InRow
<1>3. PICK word : word = IF a2aIn[u].id = "msg" THEN "refused" ELSE "end" OBVIOUS
<1>4. A2ASaid(u)' = A2ASaid(u) \/ A2ASaid(u)' = A2ASaid(u) \cup {word}
  <2>1. \A x \in A2ASaid(u) : x \in A2ASaid(u)' BY SaidIs DEF Others
  <2>2. ASSUME NEW x \in A2ASaid(u)' PROVE x \in A2ASaid(u) \/ x = word
    <3>1. PICK p \in a2aPub' : p.t = u /\ Speaks(p) /\ x = Word(p) BY <2>2, SaidIs
    <3>2. CASE p \in a2aPub BY <3>1, <3>2, SaidIs
    <3>3. CASE p \notin a2aPub
      <4>1. Decided(p)' /\ Says(p) /\ p.k # "accepted" BY <3>3 DEF Linked, Typed, NetOK
      <4>2. p.k # "task" BY <3>1, <4>1 DEF Says, Speaks, A2ATerminal
      <4>3. p.k = "rejected" <=> a2aIn[u].id = "msg" BY <3>1, <4>1, <4>2 DEF Decided
      <4> QED BY <1>3, <3>1, <4>1, <4>3 DEF Word
    <3> QED BY <3>2, <3>3
  <2> QED BY <2>1, <2>2
<1>5. A2ASaid(u)' = A2ASaid(u) \/ word \in A2ASaid(u)' BY <1>4
<1>6. CASE A2AWork(u)' = A2AWork(u)
  <2>1. CASE A2ASaid(u)' = A2ASaid(u) BY <1>1, <1>6, <2>1, OneMoves DEF Mapped, LateMap
  <2>2. CASE A2ASaid(u)' # A2ASaid(u) /\ A2ASaid(u)' = A2ASaid(u) \cup {word}
    <3>4. word \notin A2ASaid(u) BY <2>2
    <3>5. PICK p \in a2aPub' : p.t = u /\ Speaks(p) /\ word = Word(p) BY <2>2, SaidIs
    <3>6. p \notin a2aPub BY <3>4, <3>5, SaidIs
    <3>7. word = "end" => A2AEnded(a2aIn'[u]) \/ u \in a2aGhost.late BY <3>5, <3>6 DEF Word, Speaks
    <3>8. word = "end" => a2aIn[u].id # "msg" BY <1>3
    <3>1. \/ A2AWork(u) = "refused" /\ word = "refused"
          \/ (A2AWork(u) = "closed" \/ u \in a2aGhost.late) /\ word = "end"
      <4>1. CASE a2aIn[u].id = "msg" BY <1>2, <1>3, <4>1 DEF A2AWork
      <4>2. CASE a2aIn[u].id # "msg" BY <1>2, <1>3, <1>6, <3>7, <4>2 DEF A2AWork, A2AEnded
      <4> QED BY <4>1, <4>2
    <3>2. /\ WorkMap' = WorkMap /\ ViewMap' = ViewMap /\ WorkMap[u] = A2AWork(u) /\ SaidMap[u] = A2ASaid(u)
          /\ SaidMap' = [SaidMap EXCEPT ![u] = SaidMap[u] \cup {word}]
      BY <1>1, <1>6, <2>2, OneMoves
    <3>3. A2ADel!DelAnnounce(u)
      <4>1. \/ WorkMap[u] = "refused" /\ SaidMap' = [SaidMap EXCEPT ![u] = SaidMap[u] \cup {"refused"}]
            \/ /\ WorkMap[u] = "closed" \/ u \in LateMap
               /\ SaidMap' = [SaidMap EXCEPT ![u] = SaidMap[u] \cup {"end"}]
        BY <3>1, <3>2 DEF LateMap
      <4> QED BY <3>2, <4>1 DEF A2ADel!DelAnnounce, WorkMap, SaidMap, ViewMap, LateMap
    <3> QED BY <3>3 DEF Mapped, A2ADel!DelNext
  <2> QED BY <1>4, <2>1, <2>2
<1>7. CASE A2AWork(u)' # A2AWork(u)
  <2>1. A2AWork(u) = "open" /\ A2AWork(u)' = "closed" /\ word = "end"
    BY <1>2, <1>3, <1>7 DEF A2AWork, GoesOn, A2AEnded, InRow, A2ATerminal
  <2>2. PICK s \in {{}, {"end"}} : A2ASaid(u)' = A2ASaid(u) \cup s BY <1>4, <2>1
  <2>3. /\ WorkMap[u] = "open" /\ WorkMap' = [WorkMap EXCEPT ![u] = "closed"] /\ ViewMap' = ViewMap
        /\ SaidMap' = [SaidMap EXCEPT ![u] = SaidMap[u] \cup s]
    BY <1>1, <2>1, <2>2, OneMoves
  <2>4. A2ADel!DelClose(u)
    <3>1. /\ WorkMap[u] = "open" /\ WorkMap' = [WorkMap EXCEPT ![u] = "closed"]
          /\ \E x \in {{}, {"end"}} : SaidMap' = [SaidMap EXCEPT ![u] = SaidMap[u] \cup x]
          /\ UNCHANGED ViewMap
      BY <2>3
    <3> QED BY <3>1 DEF A2ADel!DelClose, WorkMap, SaidMap, ViewMap, LateMap
  <2> QED BY <2>4 DEF Mapped, A2ADel!DelNext
<1> QED BY <1>6, <1>7

(* The executor decides.                                                    *)
LEMMA DecisionMaps ==
  ASSUME Typed, Linked, NEW m \in a2aNet, A2ARefuse(m) \/ A2AAdmit(m)
  PROVE  Mapped
<1>0. PICK u \in A2ATasks : u = m.t BY Message
<1>1. Others(u) BY <1>0, ConsumedOthers DEF A2AConsumed
<1>2. PICK word, w, note :
         /\ A2AWork(u)' = w /\ word = (IF w = "open" THEN "accepted" ELSE w) /\ w \in {"refused", "open"}
         /\ note.t = u /\ Speaks(note) /\ Word(note) = word
         /\ a2aPub \subseteq a2aPub' /\ a2aPub' \subseteq a2aPub \cup {note} /\ UNCHANGED a2aOut
  <2>1. CASE A2ARefuse(m)
    <3>1. PICK note : note = A2ANote("rejected", u, 1, "REJECTED") OBVIOUS
    <3>2. PICK row : row = [st |-> "REJECTED", rev |-> 1, id |-> "msg"] OBVIOUS
    <3>3. a2aIn' = [a2aIn EXCEPT ![u] = row] /\ A2AFinish(m, {note}) /\ UNCHANGED a2aOut
      BY <1>0, <2>1, <3>1, <3>2 DEF A2ARefuse, a2aDeleg
    <3>4. row # A2ANone /\ row.id = "msg"
      <4>1. row \in A2ARow BY <3>2 DEF A2ARow, A2AStates, A2ATerminal
      <4> QED BY <3>2, <4>1, A2ANoneAssumption
    <3>5. A2AWork(u)' = "refused" BY <3>3, <3>4 DEF A2AWork, Typed
    <3>6. note.t = u /\ Speaks(note) /\ Word(note) = "refused" BY <3>1 DEF A2ANote, Speaks, Word
    <3>7. a2aPub \subseteq a2aPub' /\ a2aPub' \subseteq a2aPub \cup {note} BY <3>3, FinishGrows
    <3> QED BY <3>3, <3>5, <3>6, <3>7
  <2>2. CASE A2AAdmit(m)
    <3>1. PICK note : note = A2ANote("accepted", u, 1, "WORKING") OBVIOUS
    <3>2. PICK row : row = [st |-> "SUBMITTED", rev |-> 1, id |-> "task"] OBVIOUS
    <3>3. a2aIn' = [a2aIn EXCEPT ![u] = row] /\ UNCHANGED a2aOut
      BY <1>0, <2>2, <3>2 DEF A2AAdmit, a2aDeleg
    <3>4. row # A2ANone /\ row.id = "task" /\ row.st \notin A2ATerminal
      <4>1. row \in A2ARow BY <3>2 DEF A2ARow, A2AStates
      <4> QED BY <3>2, <4>1, A2ANoneAssumption DEF A2ATerminal
    <3>5. A2AWork(u)' = "open" BY <3>3, <3>4 DEF A2AWork, Typed
    <3>6. note.t = u /\ Speaks(note) /\ Word(note) = "accepted" BY <3>1 DEF A2ANote, Speaks, Word
    <3>7. a2aPub \subseteq a2aPub' /\ a2aPub' \subseteq a2aPub \cup {note}
      <4>1. PICK sent \in {{}, {note}} : A2AAcked(m, sent) \/ A2ANaked(m, sent) BY <1>0, <2>2, <3>1 DEF A2AAdmit
      <4> QED BY <4>1, PubGrows
    <3> QED BY <3>3, <3>5, <3>6, <3>7
  <2> QED BY <2>1, <2>2
<1>3. a2aIn[u] = A2ANone /\ a2aOut[u] # A2ANone
  <2>1. a2aOut[u] \in A2ARow BY <1>0, Message
  <2> QED BY <1>0, <2>1, A2ANoneAssumption DEF A2ARefuse, A2AAdmit
<1>4. A2AWork(u) = "none" /\ A2AView(u) # "none" /\ A2AView(u)' = A2AView(u) BY <1>2, <1>3 DEF A2AWork, A2AView
<1>5. A2ASaid(u) = {}
  <2> SUFFICES ASSUME NEW x \in A2ASaid(u) PROVE FALSE OBVIOUS
  <2>1. PICK p \in a2aPub : p.t = u /\ Speaks(p) BY SaidIs
  <2>2. Decided(p) /\ Says(p) BY <2>1 DEF Linked, Typed, NetOK
  <2> QED BY <1>3, <2>1, <2>2 DEF Decided, Says, Speaks, A2ATerminal
<1>6. A2ASaid(u)' = {} \/ A2ASaid(u)' = {word}
  <2>1. ASSUME NEW x \in A2ASaid(u)' PROVE x = word
    <3>1. PICK p \in a2aPub' : p.t = u /\ Speaks(p) /\ x = Word(p) BY <2>1, SaidIs
    <3>2. p \notin a2aPub BY <1>5, <3>1, SaidIs
    <3> QED BY <1>2, <3>1, <3>2
  <2> QED BY <2>1
<1>7. /\ WorkMap[u] = "none" /\ ViewMap[u] # "none" /\ WorkMap' = [WorkMap EXCEPT ![u] = w] /\ ViewMap' = ViewMap
      /\ SaidMap' = SaidMap \/ SaidMap' = [SaidMap EXCEPT ![u] = {word}]
  BY <1>1, <1>2, <1>4, <1>5, <1>6, OneMoves
<1>8. \E v \in {"refused", "open"}, now \in BOOLEAN :
         /\ WorkMap' = [WorkMap EXCEPT ![u] = v]
         /\ SaidMap' = IF now THEN [SaidMap EXCEPT ![u] = {IF v = "open" THEN "accepted" ELSE v}] ELSE SaidMap
  <2>1. CASE SaidMap' = SaidMap BY <1>2, <1>7, <2>1
  <2>2. CASE SaidMap' = [SaidMap EXCEPT ![u] = {word}] BY <1>2, <1>7, <2>2
  <2> QED BY <1>7, <2>1, <2>2
<1>10. a2aGhost'.late = a2aGhost.late BY LateStays DEF A2AConsumed
<1>9. A2ADel!DelDecide(u) BY <1>7, <1>8, <1>10 DEF A2ADel!DelDecide, WorkMap, SaidMap, ViewMap, LateMap
<1> QED BY <1>9 DEF Mapped, A2ADel!DelNext

(* The delegator learns what was announced.                                 *)
LEMMA LearnMaps ==
  ASSUME Typed, Linked, A2ANext, NEW m \in a2aNet, A2AAccepted(m) \/ A2ARejected(m) \/ A2AEvent(m)
  PROVE  Mapped
<1>0. PICK u \in A2ATasks : u = m.t BY Message
<1>1. Others(u) BY <1>0, ConsumedOthers DEF A2AConsumed
<1>2. a2aPub' = a2aPub /\ a2aIn' = a2aIn
  <2>1. A2AFinish(m, {}) \/ A2AAcked(m, {}) \/ A2ANaked(m, {}) BY DEF A2AAccepted, A2ARejected, A2AEvent
  <2>2. a2aPub \subseteq a2aPub' /\ a2aPub' \subseteq a2aPub \cup {} BY <2>1, PubGrows, FinishGrows
  <2>3. a2aIn' = a2aIn BY DEF A2AAccepted, A2ARejected, A2AEvent, a2aExec
  <2> QED BY <2>2, <2>3
<1>3. A2AWork(u)' = A2AWork(u) /\ A2ASaid(u)' = A2ASaid(u) BY <1>2 DEF A2AWork, A2ASaid
<1>12. a2aGhost'.late = a2aGhost.late BY LateStays DEF A2AConsumed
<1>4. PICK p \in a2aPub : p.k = m.k /\ p.t = u /\ p.st = m.st BY <1>0, Message
<1>5. Speaks(p) => Word(p) \in A2ASaid(u) BY <1>4, SaidIs
<1>6. a2aOut[u] # A2ANone /\ OutRow(u) /\ GoesOn(a2aOut[u], a2aOut'[u]) /\ a2aOut[u] \in A2ARow
  BY <1>0, OutGoesOn, Message, A2ANoneAssumption DEF Linked
<1>7. CASE UNCHANGED a2aOut
  <2>1. A2AView(u)' = A2AView(u) BY <1>7 DEF A2AView
  <2> QED BY <1>1, <1>3, <1>12, <2>1, OneMoves DEF Mapped, LateMap
<1>8. ASSUME NEW v, A2AView(u)' = v,
             \/ A2AView(u) = "asked" /\ "accepted" \in A2ASaid(u) /\ v = "open"
             \/ A2AView(u) = "asked" /\ "refused" \in A2ASaid(u) /\ v = "refused"
             \/ A2AView(u) = "open" /\ "end" \in A2ASaid(u) /\ v = "closed"
      PROVE  Mapped
  <2>1. /\ ViewMap[u] = A2AView(u) /\ SaidMap[u] = A2ASaid(u) /\ WorkMap' = WorkMap /\ SaidMap' = SaidMap
        /\ ViewMap' = [ViewMap EXCEPT ![u] = v]
    BY <1>1, <1>3, <1>8, OneMoves
  <2>2. /\ \/ ViewMap[u] = "asked" /\ "accepted" \in SaidMap[u] /\ ViewMap' = [ViewMap EXCEPT ![u] = "open"]
           \/ ViewMap[u] = "asked" /\ "refused" \in SaidMap[u] /\ ViewMap' = [ViewMap EXCEPT ![u] = "refused"]
           \/ ViewMap[u] = "open" /\ "end" \in SaidMap[u] /\ ViewMap' = [ViewMap EXCEPT ![u] = "closed"]
        /\ UNCHANGED <<WorkMap, SaidMap>>
    BY <1>8, <2>1
  <2>3. A2ADel!DelLearn(u) BY <1>12, <2>2 DEF A2ADel!DelLearn, WorkMap, SaidMap, ViewMap, LateMap
  <2> QED BY <2>3 DEF Mapped, A2ADel!DelNext
<1>9. CASE A2AAccepted(m) /\ ~ UNCHANGED a2aOut
  <2>1. m.k = "accepted" /\ a2aOut[u].id = "none" BY <1>0, <1>6, <1>9 DEF A2AAccepted, A2ARow
  <2>2. PICK row : row = [st |-> "WORKING", rev |-> a2aOut[u].rev + 1, id |-> "task"] OBVIOUS
  <2>3. a2aOut' = [a2aOut EXCEPT ![u] = row] BY <1>0, <1>9, <2>2 DEF A2AAccepted
  <2>4. row.id = "task" /\ row.st \notin A2ATerminal BY <2>2 DEF A2ATerminal
  <2>5. A2AView(u) = "asked" /\ A2AView(u)' = "open"
    <3>1. a2aOut'[u] = row BY <2>3 DEF Typed
    <3>2. a2aOut'[u] # A2ANone BY <1>6 DEF GoesOn
    <3> QED BY <1>6, <2>1, <2>4, <3>1, <3>2 DEF A2AView
  <2>6. "accepted" \in A2ASaid(u) BY <1>4, <1>5, <2>1 DEF Speaks, Word
  <2> QED BY <1>8, <2>5, <2>6
<1>10. CASE A2ARejected(m) /\ ~ UNCHANGED a2aOut
  <2>1. m.k = "rejected" /\ a2aOut[u].id = "none" BY <1>0, <1>6, <1>10 DEF A2ARejected, A2ARow, OutRow
  <2>2. PICK row : row = [st |-> "REJECTED", rev |-> a2aOut[u].rev + 1, id |-> "msg"] OBVIOUS
  <2>3. a2aOut' = [a2aOut EXCEPT ![u] = row] BY <1>0, <1>10, <2>2 DEF A2ARejected
  <2>4. row.id = "msg" BY <2>2
  <2>5. A2AView(u) = "asked" /\ A2AView(u)' = "refused"
    <3>1. a2aOut'[u] = row BY <2>3 DEF Typed
    <3>2. a2aOut'[u] # A2ANone BY <1>6 DEF GoesOn
    <3> QED BY <1>6, <2>1, <2>4, <3>1, <3>2 DEF A2AView
  <2>6. "refused" \in A2ASaid(u) BY <1>4, <1>5, <2>1 DEF Speaks, Word
  <2> QED BY <1>8, <2>5, <2>6
<1>11. CASE A2AEvent(m) /\ ~ UNCHANGED a2aOut
  <2>1. m.k \in {"event_status", "result"} /\ a2aOut[u].id = "task" /\ m.st \in A2AStates /\ m.rev \in Nat
    BY <1>0, <1>11, Message DEF A2AEvent, A2AAdds, Says, a2aDeleg
  <2>2. PICK row : row = A2AApplied(a2aOut[u], m.rev, m.st) OBVIOUS
  <2>3. a2aOut'[u] = row
    <3>1. a2aOut' = [a2aOut EXCEPT ![u] = row] BY <1>0, <1>11, <2>2 DEF A2AEvent, a2aDeleg
    <3> QED BY <3>1 DEF Typed
  <2>4. row.id = "task" /\ (row = a2aOut[u] \/ row.st = m.st) /\ row # A2ANone
    BY <1>6, <2>1, <2>2, <2>3, AppliedRow DEF GoesOn
  <2>5. CASE A2AView(u)' = A2AView(u) BY <1>1, <1>3, <1>12, <2>5, OneMoves DEF Mapped, LateMap
  <2>6. CASE A2AView(u)' # A2AView(u)
    <3>1. a2aOut[u].st \notin A2ATerminal /\ row.st \in A2ATerminal
      BY <1>6, <2>1, <2>3, <2>4, <2>6 DEF A2AView, GoesOn, A2AEnded
    <3>2. A2AView(u) = "open" /\ A2AView(u)' = "closed" BY <1>6, <2>1, <2>3, <2>4, <3>1 DEF A2AView
    <3>3. m.st \in A2ATerminal BY <2>4, <3>1
    <3>4. "end" \in A2ASaid(u) BY <1>4, <1>5, <2>1, <3>3 DEF Speaks, Word
    <3> QED BY <1>8, <3>2, <3>4
  <2> QED BY <2>5, <2>6
<1> QED BY <1>7, <1>9, <1>10, <1>11

(* A row of the executor keeps its task id.                                 *)
LEMMA IdStays ==
  ASSUME Typed, Linked, A2ANext, NEW t \in A2ATasks, a2aIn[t] # A2ANone
  PROVE  a2aIn'[t].id = a2aIn[t].id
<1>1. ASSUME NEW u \in A2ATasks, NEW row, a2aIn' = [a2aIn EXCEPT ![u] = row], a2aIn[u] = A2ANone \/ row.id = a2aIn[u].id
      PROVE  a2aIn'[t].id = a2aIn[t].id
  BY <1>1 DEF Typed
<1>2. ASSUME NEW m \in a2aNet, A2ARefuse(m) \/ A2AAdmit(m) PROVE a2aIn'[t].id = a2aIn[t].id
  <2>1. m.t \in A2ATasks /\ a2aIn[m.t] = A2ANone BY <1>2, Message DEF A2ARefuse, A2AAdmit
  <2>2. \E row : a2aIn' = [a2aIn EXCEPT ![m.t] = row] BY <1>2 DEF A2ARefuse, A2AAdmit
  <2> QED BY <1>1, <2>1, <2>2
<1>3. ASSUME NEW m \in a2aNet, A2ACancel(m) \/ A2AReply(m) \/ A2ADeny(m) PROVE a2aIn'[t].id = a2aIn[t].id
  <2>1. m.k \in A2AControls BY <1>3 DEF A2ACancel, A2AReply, A2ADeny, A2AControls
  <2>2. m.t \in A2ATasks /\ a2aIn[m.t] \in A2ARow /\ a2aIn[m.t] # A2ANone BY <2>1, ControlMessage
  <2>3. PICK rev \in Nat : rev = A2AControlRev(m) BY <2>2, ControlRev
  <2>4. "CANCELED" \in A2AStates /\ "WORKING" \in A2AStates /\ "FAILED" \in A2AStates BY DEF A2AStates, A2ATerminal
  <2>5. UNCHANGED a2aIn \/ \E st \in A2AStates : a2aIn' = [a2aIn EXCEPT ![m.t] = A2AApplied(a2aIn[m.t], rev, st)]
    <3>1. CASE A2ACancel(m) BY <2>3, <2>4, <3>1 DEF A2ACancel
    <3>2. CASE A2AReply(m) BY <2>3, <2>4, <3>2 DEF A2AReply, A2AAnswers
    <3>3. CASE A2ADeny(m) BY <2>3, <2>4, <3>3 DEF A2ADeny
    <3> QED BY <1>3, <3>1, <3>2, <3>3
  <2>6. \A st \in A2AStates : A2AApplied(a2aIn[m.t], rev, st).id = a2aIn[m.t].id BY <2>2, AppliedRow
  <2> QED BY <1>1, <2>2, <2>5, <2>6
<1>4. ASSUME NEW r \in a2aRuns, A2ARunStep(r) PROVE a2aIn'[t].id = a2aIn[t].id
  <2>1. "FAILED" \in RunEnds /\ "CANCELED" \in RunEnds BY DEF RunEnds
  <2>2. UNCHANGED a2aIn \/ \E st \in RunEnds : A2AEnds(r, st)
    BY <1>4, <2>1 DEF A2ARunStep, A2ARunLost, A2AEnqueue, A2ARunResult, A2ARunTimeout, A2ALapses, A2ARunPublish, Typed, RunsOK
  <2>3. \A st \in RunEnds : A2AEnds(r, st) => a2aIn'[t].id = a2aIn[t].id BY EndsStep
  <2> QED BY <2>2, <2>3
<1>5. ASSUME NEW m \in a2aNet, A2AConsumed(m) PROVE a2aIn'[t].id = a2aIn[t].id
  <2>1. \/ A2ARefuse(m) \/ A2AAdmit(m) \/ A2ACancel(m) \/ A2AReply(m) \/ A2ADeny(m)
        \/ UNCHANGED a2aIn
    BY <1>5 DEF A2AConsumed, A2AAgain, A2AStatusRequest, A2AAccepted, A2ARejected, A2AEvent, a2aExec
  <2> QED BY <1>2, <1>3, <2>1
<1>6. CASE \/ \E u \in A2ATasks : A2ASendTask(u) \/ \E k \in A2AControls : A2ASendControl(k, u)
           \/ A2AJobEnds \/ A2ARestart
  BY <1>6 DEF A2ASendTask, A2ASendControl, A2AJobEnds, A2ARestart, a2aExec
<1> QED BY <1>4, <1>5, <1>6 DEF A2ANext

(* A request for a task: the delegator asks.                                *)
LEMMA AskMaps ==
  ASSUME Typed, Linked, NEW u \in A2ATasks, A2ASendTask(u)
  PROVE  Mapped
<1>1. PICK note : note = A2ANote("task", u, 0, "none") OBVIOUS
<1>2. note.t = u /\ ~Speaks(note) BY <1>1 DEF A2ANote, Speaks, A2ATerminal
<1>3. a2aPub \subseteq a2aPub' /\ a2aPub' \subseteq a2aPub \cup {note}
  <2>1. PICK sent \in {{}, {note}} : A2ASends(sent) BY <1>1 DEF A2ASendTask
  <2> QED BY <2>1, PubGrows
<1>4. PICK row : row = [st |-> "SUBMITTED", rev |-> 0, id |-> "none"] OBVIOUS
<1>5. row # A2ANone /\ row.id = "none"
  <2>1. row \in A2ARow BY <1>4 DEF A2ARow, A2AStates
  <2> QED BY <1>4, <2>1, A2ANoneAssumption
<1>6. a2aOut[u] = A2ANone /\ a2aOut' = [a2aOut EXCEPT ![u] = row] /\ UNCHANGED <<a2aExec, a2aGhost>>
  BY <1>4 DEF A2ASendTask
<1>7. Others(u)
  <2>1. \A t \in A2ATasks : t # u => a2aOut'[t] = a2aOut[t] BY <1>6 DEF Typed
  <2> QED BY <1>2, <1>3, <1>6, <2>1 DEF Others, a2aExec
<1>8. A2AWork(u)' = A2AWork(u) BY <1>6 DEF A2AWork, a2aExec
<1>9. A2ASaid(u)' = A2ASaid(u)
  <2>1. \A x : x \in A2ASaid(u)' <=> x \in A2ASaid(u) BY <1>2, <1>3, SaidIs
  <2>2. \A x \in A2ASaid(u)' : x \in A2ASaid(u) BY <2>1
  <2>3. \A x \in A2ASaid(u) : x \in A2ASaid(u)' BY <2>1
  <2> QED BY <2>2, <2>3
<1>10. A2AView(u) = "none" /\ A2AView(u)' = "asked"
  <2>1. a2aOut'[u] = row BY <1>6 DEF Typed
  <2> QED BY <1>5, <1>6, <2>1 DEF A2AView
<1>11. /\ ViewMap[u] = "none" /\ ViewMap' = [ViewMap EXCEPT ![u] = "asked"]
       /\ UNCHANGED <<WorkMap, SaidMap>>
  BY <1>7, <1>8, <1>9, <1>10, OneMoves
<1>12. A2ADel!DelAsk(u) BY <1>6, <1>11 DEF A2ADel!DelAsk, WorkMap, SaidMap, ViewMap, LateMap
<1> QED BY <1>12 DEF Mapped, A2ADel!DelNext

(* A step that changes no row and announces nothing stutters.               *)
LEMMA SilentMaps ==
  ASSUME UNCHANGED <<a2aIn, a2aOut>>, a2aPub \subseteq a2aPub', \A p \in a2aPub' : p \in a2aPub \/ ~Speaks(p),
         a2aGhost'.late = a2aGhost.late
  PROVE  Mapped
<1>1. \A t \in A2ATasks : A2AWork(t)' = A2AWork(t) /\ A2AView(t)' = A2AView(t) BY DEF A2AWork, A2AView
<1>2. ASSUME NEW t \in A2ATasks PROVE A2ASaid(t)' = A2ASaid(t)
  <2>1. \A x : x \in A2ASaid(t)' <=> x \in A2ASaid(t) BY SaidIs
  <2>2. \A x \in A2ASaid(t)' : x \in A2ASaid(t) BY <2>1
  <2>3. \A x \in A2ASaid(t) : x \in A2ASaid(t)' BY <2>1
  <2> QED BY <2>2, <2>3
<1>3. WorkMap' = WorkMap BY <1>1 DEF WorkMap
<1>4. SaidMap' = SaidMap BY <1>2 DEF SaidMap
<1>5. ViewMap' = ViewMap BY <1>1 DEF ViewMap
<1> QED BY <1>3, <1>4, <1>5 DEF Mapped, LateMap

(* A run that is late lapses.                                               *)
LEMMA LateMaps ==
  ASSUME Typed, Linked, NEW r \in a2aRuns, NEW st, Lately(r, st), UNCHANGED <<a2aOut, a2aPub>>
  PROVE  Mapped
<1>1. PICK u \in A2ATasks : u = r.t BY DEF Typed, RunsOK, Runs
<1>2. A2AWork(u) \in {"open", "closed"} BY <1>1 DEF Linked, A2AWork
<1>3. a2aGhost'.late = a2aGhost.late \cup {u} /\ a2aIn' = a2aIn BY <1>1 DEF Lately, Typed
<1>4. UNCHANGED <<WorkMap, SaidMap, ViewMap>>
  BY <1>3 DEF WorkMap, SaidMap, ViewMap, A2AWork, A2ASaid, A2AView
<1>5. WorkMap[u] \in {"open", "closed"} BY <1>2 DEF WorkMap
<1>6. A2ADel!DelLapse(u) BY <1>3, <1>4, <1>5 DEF A2ADel!DelLapse, WorkMap, SaidMap, ViewMap, LateMap
<1> QED BY <1>6 DEF Mapped, A2ADel!DelNext

(* A handler of the executor, of a task it has a row of, announces no       *)
(* acceptance and leaves the delegator's row.                               *)
LEMMA HandlerMaps ==
  ASSUME Typed, Linked, Typed', Linked', A2ANext, NEW m \in a2aNet,
         A2AAgain(m) \/ A2ACancel(m) \/ A2AStatusRequest(m) \/ A2AReply(m) \/ A2ADeny(m)
  PROVE  Mapped
<1>0. PICK u \in A2ATasks : u = m.t BY Message
<1>8. a2aGhost'.late = a2aGhost.late BY LateStays DEF A2AConsumed
<1>1. Others(u) BY <1>0, ConsumedOthers DEF A2AConsumed
<1>2. a2aIn[u] # A2ANone
  <2>1. A2AAgain(m) \/ m.k \in A2AControls
    BY DEF A2ACancel, A2AStatusRequest, A2AReply, A2ADeny, A2AControls
  <2> QED BY <1>0, <2>1, ControlMessage DEF A2AAgain
<1>3. a2aOut' = a2aOut BY DEF A2AAgain, A2ACancel, A2AStatusRequest, A2AReply, A2ADeny, a2aDeleg
<1>4. GoesOn(a2aIn[u], a2aIn'[u]) /\ a2aIn'[u].id = a2aIn[u].id BY <1>2, InGoesOn, IdStays
<1>5. ASSUME NEW sent, \A p \in sent : p.k # "accepted" /\ (p.st \notin A2ATerminal \/ A2AEnded(a2aIn'[u])),
             A2AFinish(m, sent) \/ A2AAcked(m, sent) \/ A2ANaked(m, sent)
      PROVE  Mapped
  <2>1. a2aPub' \subseteq a2aPub \cup sent BY <1>5, PubGrows, FinishGrows
  <2>2. \A p \in a2aPub' : p \in a2aPub \/ p.k # "accepted" BY <1>5, <2>1
  <2>3. \A p \in a2aPub' : p \in a2aPub \/ p.st \notin A2ATerminal \/ A2AEnded(a2aIn'[u]) BY <1>5, <2>1
  <2> QED BY <1>1, <1>2, <1>3, <1>4, <1>8, <2>2, <2>3, DecidedMaps
<1>6. \A k, rev, st : A2ANote(k, u, rev, st).k = k /\ A2ANote(k, u, rev, st).st = st BY DEF A2ANote
<1>7. ASSUME NEW k \in {"event_status", "result"}, NEW rev, NEW st, st \notin A2ATerminal \/ A2AEnded(a2aIn'[u]),
             \E sent \in {{}, {A2ANote(k, u, rev, st)}} : A2AFinish(m, sent) \/ A2AAcked(m, sent) \/ A2ANaked(m, sent)
      PROVE  Mapped
  <2>1. PICK sent \in {{}, {A2ANote(k, u, rev, st)}} : A2AFinish(m, sent) \/ A2AAcked(m, sent) \/ A2ANaked(m, sent)
    BY <1>7
  <2>2. \A p \in sent : p.k # "accepted" /\ (p.st \notin A2ATerminal \/ A2AEnded(a2aIn'[u])) BY <1>6, <1>7, <2>1
  <2> QED BY <1>5, <2>1, <2>2
<1>9. CASE A2AAgain(m)
  <2>1. PICK row : row = a2aIn[u] OBVIOUS
  <2>2. PICK sent : /\ A2AAcked(m, sent) \/ A2ANaked(m, sent)
                    /\ \A p \in sent : row.st \in A2ATerminal
                                      /\ \E k \in {"rejected", "result"} : \E rev, st : p = A2ANote(k, u, rev, st)
    <3> DEFINE both == {A2ANote("rejected", u, 1, "REJECTED"), A2ANote("result", u, row.rev, row.st)}
               due == {p \in both : row.st \in A2ATerminal /\ (p.k = "rejected" <=> row.st = "REJECTED")}
    <3>1. PICK sent \in {{}, due} : A2AAcked(m, sent) \/ A2ANaked(m, sent) BY <1>0, <1>9, <2>1 DEF A2AAgain
    <3>2. \A p \in due : row.st \in A2ATerminal /\ \E k \in {"rejected", "result"} : \E rev, st : p = A2ANote(k, u, rev, st)
      OBVIOUS
    <3> HIDE DEF due
    <3> QED BY <3>1, <3>2
  <2>3. a2aIn' = a2aIn BY <1>9 DEF A2AAgain
  <2>4. \A p \in sent : p.k # "accepted" /\ A2AEnded(a2aIn'[u]) BY <1>2, <1>6, <2>1, <2>2, <2>3 DEF A2AEnded
  <2> QED BY <1>5, <2>2, <2>4
<1>10. CASE A2AStatusRequest(m)
  <2>1. A2AFinish(m, {A2ANote("event_status", u, a2aIn[u].rev, a2aIn[u].st)}) /\ a2aIn' = a2aIn
    BY <1>0, <1>10 DEF A2AStatusRequest, a2aExec
  <2>2. a2aIn[u].st \notin A2ATerminal \/ A2AEnded(a2aIn'[u]) BY <1>2, <2>1 DEF A2AEnded
  <2> QED BY <1>7, <2>1, <2>2
<1>11. CASE A2AReply(m)
  <2>1. \E rev : \E sent \in {{}, {A2ANote("event_status", u, rev, "WORKING")}} : A2AAcked(m, sent) \/ A2ANaked(m, sent)
    BY <1>0, <1>11 DEF A2AReply
  <2> QED BY <1>7, <2>1 DEF A2ATerminal
<1>12. ASSUME NEW st \in A2ATerminal, NEW rev \in Nat, rev = A2AControlRev(m), m.k \in A2AControls,
              a2aIn' = [a2aIn EXCEPT ![u] = A2AApplied(a2aIn[u], rev, st)]
       PROVE  A2AEnded(a2aIn'[u])
  <2>1. a2aIn[u] \in A2ARow /\ rev > a2aIn[u].rev
    <3>1. a2aIn[u] \in A2ARow BY <1>0, <1>12, ControlMessage
    <3>2. a2aIn[u].rev \in Nat /\ m.rev \in Nat BY <1>0, <1>12, <3>1, ControlMessage DEF A2ARow
    <3> QED BY <1>0, <1>12, <3>1, <3>2 DEF A2AControlRev, A2AMore
  <2>2. ~(rev <= a2aIn[u].rev)
    <3>1. a2aIn[u].rev \in Nat BY <2>1 DEF A2ARow
    <3> QED BY <2>1, <3>1
  <2>3. PICK row : row = A2AApplied(a2aIn[u], rev, st) OBVIOUS
  <2>4. row \in A2ARow /\ row.st = st BY <2>1, <2>2, <2>3, AppliedRow DEF A2AStates
  <2>5. a2aIn'[u] = row BY <1>12, <2>3 DEF Typed
  <2> QED BY <2>4, <2>5, A2ANoneAssumption DEF A2AEnded
<1>13. CASE A2ACancel(m)
  <2>1. m.k \in A2AControls BY <1>13 DEF A2ACancel, A2AControls
  <2>2. PICK rev \in Nat : rev = A2AControlRev(m) BY <1>0, <2>1, ControlMessage, ControlRev
  <2>3. CASE A2ANaked(m, {})
    <3>1. PICK sent : sent = {} /\ A2ANaked(m, sent) BY <2>3
    <3> QED BY <1>5, <3>1
  <2>4. CASE /\ a2aIn' = [a2aIn EXCEPT ![u] = A2AApplied(a2aIn[u], rev, "CANCELED")]
             /\ A2AFinish(m, {A2ANote("event_status", u, rev, "CANCELED")})
    <3>1. A2AEnded(a2aIn'[u]) BY <1>12, <2>1, <2>2, <2>4 DEF A2ATerminal
    <3> QED BY <1>7, <2>4, <3>1
  <2> QED BY <1>0, <1>13, <2>2, <2>3, <2>4 DEF A2ACancel
<1>14. CASE A2ADeny(m)
  <2>1. m.k \in A2AControls BY <1>14 DEF A2ADeny, A2AControls
  <2>2. PICK rev \in Nat : rev = A2AControlRev(m) BY <1>0, <2>1, ControlMessage, ControlRev
  <2>3. CASE A2AAcked(m, {})
    <3>1. PICK sent : sent = {} /\ A2AAcked(m, sent) BY <2>3
    <3> QED BY <1>5, <3>1
  <2>4. CASE /\ a2aIn' = [a2aIn EXCEPT ![u] = A2AApplied(a2aIn[u], rev, "FAILED")]
             /\ A2AFinish(m, {A2ANote("result", u, rev, "FAILED")})
    <3>1. A2AEnded(a2aIn'[u]) BY <1>12, <2>1, <2>2, <2>4 DEF A2ATerminal
    <3> QED BY <1>7, <2>4, <3>1
  <2> QED BY <1>0, <1>14, <2>2, <2>3, <2>4 DEF A2ADeny
<1> QED BY <1>9, <1>10, <1>11, <1>13, <1>14

(* And so does a run: it records the end it publishes, unless it is late.   *)
LEMMA RunMaps ==
  ASSUME Typed, Linked, Typed', Linked', Backed, A2ANext, NEW r \in a2aRuns, A2ARunStep(r)
  PROVE  Mapped
<1>0. PICK u \in A2ATasks : u = r.t BY DEF Typed, RunsOK, Runs
<1>1. Others(u) BY <1>0, RunOthers
<1>2. a2aIn[u] # A2ANone BY <1>0 DEF Linked
<1>3. a2aOut' = a2aOut
  BY DEF A2ARunStep, A2ARunLost, A2AEnqueue, A2ARunResult, A2ARunTimeout, A2ARunPublish, a2aDeleg
<1>4. GoesOn(a2aIn[u], a2aIn'[u]) /\ a2aIn'[u].id = a2aIn[u].id BY <1>2, InGoesOn, IdStays
<1>5. CASE A2ARunPublish(r)
  <2>1. \E k \in {"event_status", "result"} : \E sent \in {{}, {A2ANote(k, u, r.rev, r.res)}} : A2ASends(sent)
    BY <1>0, <1>5 DEF A2ARunPublish
  <2>2. PICK k \in {"event_status", "result"} : \E sent \in {{}, {A2ANote(k, u, r.rev, r.res)}} : A2ASends(sent)
    BY <2>1
  <2>3. PICK sent \in {{}, {A2ANote(k, u, r.rev, r.res)}} : A2ASends(sent) BY <2>2
  <2>4. a2aPub' \subseteq a2aPub \cup sent BY <2>3, PubGrows
  <2>5. \A p \in sent : p.k # "accepted" /\ p.st = r.res BY <2>3 DEF A2ANote
  <2>6. UNCHANGED <<a2aIn, a2aGhost>> /\ r.st = "publish" BY <1>5 DEF A2ARunPublish
  <2>7. r.res \in A2ATerminal => A2AEnded(a2aIn'[u]) \/ u \in a2aGhost.late BY <1>0, <2>6 DEF Backed
  <2>8. \A p \in a2aPub' : p \in a2aPub \/ p.k # "accepted" BY <2>4, <2>5
  <2>9. \A p \in a2aPub' : p \in a2aPub \/ p.st \notin A2ATerminal \/ A2AEnded(a2aIn'[u]) \/ u \in a2aGhost.late
    BY <2>4, <2>5, <2>7
  <2> QED BY <1>1, <1>2, <1>3, <1>4, <2>6, <2>8, <2>9, DecidedMaps
<1>6. CASE ~A2ARunPublish(r)
  <2>1. a2aPub' = a2aPub BY <1>6 DEF A2ARunStep, A2ARunLost, A2AEnqueue, A2ARunResult, A2ARunTimeout
  <2>2. CASE \E st : Lately(r, st) BY <1>3, <2>1, <2>2, LateMaps
  <2>3. CASE a2aGhost'.late = a2aGhost.late BY <1>1, <1>2, <1>3, <1>4, <2>1, <2>3, DecidedMaps
  <2>4. a2aGhost'.late = a2aGhost.late \/ \E st : Lately(r, st)
    <3>1. CASE A2ARunLost(r) BY <3>1 DEF A2ARunLost, Lately
    <3>2. CASE A2AEnqueue(r)
      <4>1. \/ a2aGhost' = a2aGhost \/ a2aGhost' = [a2aGhost EXCEPT !.ran[r.t] = @ + 1] \/ A2ALapses(r, "FAILED")
        BY <3>2 DEF A2AEnqueue
      <4> QED BY <4>1 DEF A2ALapses, Lately, Typed
    <3>3. CASE A2ARunResult(r) \/ A2ARunTimeout(r) BY <3>3 DEF A2ARunResult, A2ARunTimeout, A2ALapses, Lately
    <3> QED BY <1>6, <3>1, <3>2, <3>3 DEF A2ARunStep
  <2> QED BY <2>2, <2>3, <2>4
<1> QED BY <1>5, <1>6

(* Every step is a step of the abstract delegation, or stutters.            *)
LEMMA NextMaps ==
  ASSUME Typed, Linked, Typed', Linked', Backed, A2ANext
  PROVE  Mapped
<1>1. ASSUME NEW t \in A2ATasks, A2ASendTask(t) PROVE Mapped BY <1>1, AskMaps
<1>2. ASSUME NEW t \in A2ATasks, NEW k \in A2AControls, A2ASendControl(k, t) PROVE Mapped
  <2>1. PICK note : note = A2ANote(k, t, a2aOut[t].rev + 1, "none") OBVIOUS
  <2>2. ~Speaks(note) BY <2>1 DEF A2ANote, Speaks, A2AControls, A2ATerminal
  <2>3. A2ASends({note}) BY <1>2, <2>1 DEF A2ASendControl
  <2>4. a2aPub \subseteq a2aPub' /\ a2aPub' \subseteq a2aPub \cup {note} BY <2>3, PubGrows
  <2>5. UNCHANGED <<a2aIn, a2aOut, a2aGhost>> BY <1>2 DEF A2ASendControl, a2aExec, a2aDeleg
  <2> QED BY <2>2, <2>4, <2>5, SilentMaps
<1>3. ASSUME NEW m \in a2aNet, A2AConsumed(m) PROVE Mapped
  BY <1>3, DecisionMaps, HandlerMaps, LearnMaps DEF A2AConsumed
<1>4. ASSUME NEW r \in a2aRuns, A2ARunStep(r) PROVE Mapped BY <1>4, RunMaps
<1>5. CASE A2AJobEnds \/ A2ARestart
  <2>1. UNCHANGED <<a2aIn, a2aOut, a2aPub>> BY <1>5 DEF A2AJobEnds, A2ARestart, a2aDeleg
  <2>2. a2aGhost'.late = a2aGhost.late
    <3>1. CASE A2AJobEnds BY <3>1 DEF A2AJobEnds
    <3>2. CASE A2ARestart
      <4>1. PICK more : a2aGhost' = [a2aGhost EXCEPT !.touched = @ \cup more] BY <3>2 DEF A2ARestart
      <4> QED BY <4>1 DEF Typed
    <3> QED BY <1>5, <3>1, <3>2
  <2> QED BY <2>1, <2>2, SilentMaps
<1> QED BY <1>1, <1>2, <1>3, <1>4, <1>5 DEF A2ANext

(* At the start, nothing was asked, done or announced.                      *)
LEMMA InitMaps == A2AInit => A2ADel!DelInit
<1> SUFFICES ASSUME A2AInit PROVE A2ADel!DelInit OBVIOUS
<1>1. \A t \in A2ATasks : A2AWork(t) = "none" /\ A2AView(t) = "none" BY DEF A2AInit, A2AWork, A2AView
<1>2. \A t \in A2ATasks : A2ASaid(t) = {}
  <2>1. \A t \in A2ATasks : \A x : x \notin A2ASaid(t) BY SaidIs DEF A2AInit
  <2> QED BY <2>1
<1>3. a2aGhost.late = {} BY DEF A2AInit
<1> QED BY <1>1, <1>2, <1>3 DEF A2ADel!DelInit

(* The two bots implement the abstract delegation (A2ARefinesDelegation):   *)
(* the executor decides once, what it announces follows what it did unless  *)
(* a run was late, and the delegator's view follows what was announced.     *)
THEOREM A2AImplements == A2ASpec => A2ARefinesDelegation
<1>1. A2AInit => A2ADel!DelInit BY InitMaps
<1>2. IInv /\ IInv' /\ [A2ANext]_a2aVars => [A2ADel!DelNext]_(A2ADel!delVars)
  <2> SUFFICES ASSUME IInv, IInv', [A2ANext]_a2aVars PROVE A2ADel!DelNext \/ UNCHANGED A2ADel!delVars OBVIOUS
  <2>1. CASE A2ANext
    <3>1. Mapped BY <2>1, NextMaps DEF IInv
    <3> QED BY <3>1 DEF Mapped, A2ADel!delVars, WorkMap, SaidMap, ViewMap, LateMap
  <2>2. CASE UNCHANGED a2aVars
    <3>1. Mapped BY <2>2, SilentMaps DEF a2aVars
    <3> QED BY <3>1 DEF Mapped, A2ADel!delVars, WorkMap, SaidMap, ViewMap, LateMap
  <2> QED BY <2>1, <2>2
<1> QED BY <1>1, <1>2, A2AInvariant, PTL DEF A2ASpec, A2ARefinesDelegation, A2ADel!DelSpec
=============================================================================
