---------------------------- MODULE CollabProofs ----------------------------
(* Proofs about the collaboration of agents: the policies that admit the    *)
(* tasks (A2APolicy), and what holds of the whole (MCA2A). A grant follows  *)
(* the runtimes it names, a confirmation sends one task, and the quotas     *)
(* hold at both ends.                                                       *)
EXTENDS A2AProofs

-----------------------------------------------------------------------------
(* The types, stronger than PolTypeOK.                                      *)
Saves == [op : {"save"}, c : PolChannels, row : PolRows, base : PolRows \cup {PolNone},
          gives : SUBSET PolAgents, takes : SUBSET PolAgents]
Asks == [op : {"ask"}, q : PolQuestions]
Applies == [op : {"apply"}, k : PolConfs]
Requests == {PolIdle} \cup Saves \cup Asks \cup Applies

PolTyped ==
  /\ polName \in [PolChannels -> PolNames]
  /\ polRow \in [PolChannels -> PolRows \cup {PolNone}]
  /\ polReq \in [PolWriters -> Requests]
  /\ polConf \in [PolConfs -> PolQuestions \cup {PolNone}]
  /\ polTask \in [PolTasks -> PolEnvelopes \cup {PolNone}]
  /\ polShown \in [PolConfs -> SUBSET PolTasks]
  /\ polGrant \in [PolChannels -> SUBSET (PolChannels \cup PolForeign)]
  /\ polOdd \in BOOLEAN

(* A row bears a name of its channel.                                       *)
Named(c, row) == row \in PolRows /\ row.rid \in {c} \X PolNames
RowsNamed == \A c \in PolChannels : polRow[c] # PolNone => Named(c, polRow[c])

-----------------------------------------------------------------------------
(* A change under way carries the row it read, with what it gives and takes.*)
AcceptOf(row) == IF row = PolNone THEN {} ELSE row.accept
Pending(q) ==
  /\ Named(q.c, q.row)
  /\ q.row.accept = (AcceptOf(q.base) \cup q.gives) \ q.takes
  /\ \A p \in q.gives \cup q.takes : PolOwner(p) # q.c
  /\ \A p \in q.gives \cap PolRuntimes : polRow[p[1]] # PolNone
PendingOK == \A w \in PolWriters : polReq[w].op = "save" => Pending(polReq[w])

(* A row that accepts a runtime of this bot accepts it by its present id.   *)
Current ==
  \A c \in PolChannels : \A p \in AcceptOf(polRow[c]) \cap PolRuntimes :
    p[1] # c /\ polRow[p[1]] # PolNone /\ p = polRow[p[1]].rid
Follows ==
  \A c \in PolChannels, d \in PolChannels \cup PolForeign :
    c # d => (d \in polGrant[c] <=> (IF d \in PolForeign THEN d ELSE PolCurrent(d)) \in PolRead(c).accept)
Grants == PendingOK /\ (~polOdd => Current /\ Follows)

-----------------------------------------------------------------------------
(* A confirmation is in the store, or in one request's hands, or used.      *)
Holds(w, k) == polReq[w].op = "ask" /\ polReq[w].q.k = k
Tickets ==
  \A k \in PolConfs :
    /\ polConf[k] # PolNone => polConf[k].k \in {k, PolNone}
    /\ polConf[k] = PolNone => ~ \E w \in PolWriters : polReq[w].op = "apply" /\ polReq[w].k = k
    /\ (polConf[k] = PolNone \/ PolShows(k)) => polShown[k] = {} /\ ~ \E w \in PolWriters : Holds(w, k)
    /\ \A v, w \in PolWriters : Holds(v, k) /\ Holds(w, k) => v = w
    /\ \A w \in PolWriters : Holds(w, k) => polShown[k] = {}
    /\ polShown[k] = {} \/ \E t \in PolTasks : polShown[k] = {t}

(* The tasks of a channel that are open, with the requests that were let    *)
(* through and have not sent theirs.                                        *)
OpenTasks(c) == {t \in PolTasks : polTask[t] # PolNone /\ polTask[t].c = c /\ polTask[t].st # "ended"}
Asking(c) == {w \in PolWriters : polReq[w].op = "ask" /\ polReq[w].q.c = c}
Slack ==
  \A c \in PolChannels :
    Cardinality(OpenTasks(c)) + Cardinality(Asking(c)) <= PolCap + Cardinality(PolWriters) - 1

PolInv == PolTyped /\ RowsNamed /\ Grants /\ Tickets /\ Slack

-----------------------------------------------------------------------------
(* The model's operators on rows.                                           *)

(* The row a channel reads is a row under a name of the channel.            *)
LEMMA ReadRow ==
  ASSUME PolTyped, RowsNamed, NEW c \in PolChannels
  PROVE  Named(c, PolRead(c)) /\ PolRead(c).accept = AcceptOf(polRow[c])
<1>1. CASE polRow[c] = PolNone
  <2>1. PICK row : row = [on |-> FALSE, rid |-> <<c, polName[c]>>, accept |-> {}, mode |-> "delegator"] OBVIOUS
  <2>2. PolRead(c) = row BY <1>1, <2>1 DEF PolRead, PolDefault
  <2>3. polName[c] \in PolNames BY DEF PolTyped
  <2>4. row \in PolRows /\ row.rid \in {c} \X PolNames /\ row.accept = {}
    BY <2>1, <2>3 DEF PolRows, PolRuntimes, PolModes
  <2> QED BY <1>1, <2>2, <2>4 DEF Named, AcceptOf
<1>2. CASE polRow[c] # PolNone
  <2>1. PolRead(c) = polRow[c] BY <1>2 DEF PolRead
  <2> QED BY <1>2, <2>1 DEF RowsNamed, AcceptOf
<1> QED BY <1>1, <1>2

(* An edited copy is a row, too, and accepts what it should.                *)
LEMMA EnabledRow ==
  ASSUME PolTyped, NEW c \in PolChannels, NEW row, Named(c, row)
  PROVE  /\ Named(c, PolEnabled(c, row)) /\ PolEnabled(c, row).accept = row.accept
         /\ Named(c, PolNamed(c, row)) /\ PolNamed(c, row).accept = row.accept
<1>1. polName[c] \in PolNames /\ row \in PolRows BY DEF PolTyped, Named
<1>2. PICK id : id = <<c, polName[c]>> OBVIOUS
<1>3. id \in {c} \X PolNames /\ id \in PolRuntimes BY <1>1, <1>2 DEF PolRuntimes
<1>4. PolEnabled(c, row) = [row EXCEPT !.on = TRUE, !.rid = id] /\ PolNamed(c, row) = [row EXCEPT !.rid = id]
  BY <1>2 DEF PolEnabled, PolNamed
<1>5. /\ [row EXCEPT !.on = TRUE, !.rid = id] \in PolRows /\ [row EXCEPT !.on = TRUE, !.rid = id].rid = id
      /\ [row EXCEPT !.on = TRUE, !.rid = id].accept = row.accept
  BY <1>1, <1>3 DEF PolRows
<1>6. /\ [row EXCEPT !.rid = id] \in PolRows /\ [row EXCEPT !.rid = id].rid = id
      /\ [row EXCEPT !.rid = id].accept = row.accept
  BY <1>1, <1>3 DEF PolRows
<1> QED BY <1>3, <1>4, <1>5, <1>6 DEF Named

(* A row after an allow, and after a revoke.                                *)
LEMMA EditedRows ==
  ASSUME PolTyped, RowsNamed, NEW c \in PolChannels, NEW p \in PolAgents
  PROVE  /\ Named(c, PolAllowed(c, p)) /\ PolAllowed(c, p).accept = AcceptOf(polRow[c]) \cup {p}
         /\ Named(c, PolWithout(c, p)) /\ PolWithout(c, p).accept = AcceptOf(polRow[c]) \ {p}
<1>1. PICK row : row = PolRead(c) OBVIOUS
<1>2. Named(c, row) /\ row.accept = AcceptOf(polRow[c]) BY <1>1, ReadRow
<1>3. PICK on : on = PolEnabled(c, row) OBVIOUS
<1>4. Named(c, on) /\ on.accept = row.accept BY <1>2, <1>3, EnabledRow
<1>5. PolMode(p) \in PolModes BY DEF PolMode, PolModes
<1>6. /\ [on EXCEPT !.accept = @ \cup {p}, !.mode = PolMode(p)] \in PolRows
      /\ [on EXCEPT !.accept = @ \cup {p}, !.mode = PolMode(p)].rid = on.rid
      /\ [on EXCEPT !.accept = @ \cup {p}, !.mode = PolMode(p)].accept = on.accept \cup {p}
  BY <1>4, <1>5 DEF Named, PolRows
<1>7. /\ [row EXCEPT !.accept = @ \ {p}] \in PolRows /\ [row EXCEPT !.accept = @ \ {p}].rid = row.rid
      /\ [row EXCEPT !.accept = @ \ {p}].accept = row.accept \ {p}
  BY <1>2 DEF Named, PolRows
<1> QED BY <1>1, <1>2, <1>3, <1>4, <1>6, <1>7 DEF Named, PolAllowed, PolWithout

(* The rewriting of a row keeps its name, and gives the runtime's new id to *)
(* what it accepts under the old one.                                       *)
LEMMA RewrittenRow ==
  ASSUME NEW c \in PolChannels, NEW row, row = PolNone \/ Named(c, row), NEW old, NEW new \in PolRuntimes
  PROVE  /\ row = PolNone <=> PolRewritten(row, old, new) = PolNone
         /\ row # PolNone => Named(c, PolRewritten(row, old, new)) /\ PolRewritten(row, old, new).rid = row.rid
         /\ AcceptOf(PolRewritten(row, old, new)) =
              IF old \in AcceptOf(row) THEN (AcceptOf(row) \ {old}) \cup {new} ELSE AcceptOf(row)
<1>1. CASE row = PolNone BY <1>1 DEF PolRewritten, AcceptOf
<1>2. CASE row # PolNone /\ old \notin row.accept BY <1>2 DEF PolRewritten, AcceptOf
<1>3. CASE row # PolNone /\ old \in row.accept
  <2>1. PICK other : other = [row EXCEPT !.accept = (@ \ {old}) \cup {new}] OBVIOUS
  <2>2. PolRewritten(row, old, new) = other BY <1>3, <2>1 DEF PolRewritten
  <2>3. new \in PolAgents BY DEF PolAgents
  <2>4. other \in PolRows /\ other.rid = row.rid /\ other.accept = (row.accept \ {old}) \cup {new}
    BY <1>3, <2>1, <2>3 DEF Named, PolRows
  <2>5. other # PolNone BY <2>4, PolNoneAssumption
  <2> QED BY <1>3, <2>2, <2>4, <2>5 DEF Named, AcceptOf
<1> QED BY <1>1, <1>2, <1>3

-----------------------------------------------------------------------------
(* What the requests are.                                                   *)

(* A request is of the kind its op says.                                    *)
LEMMA RequestKinds ==
  ASSUME PolTyped, NEW w \in PolWriters
  PROVE  /\ polReq[w].op = "save" => polReq[w] \in Saves
         /\ polReq[w].op = "ask" => polReq[w] \in Asks
         /\ polReq[w].op = "apply" => polReq[w] \in Applies
         /\ polReq[w].op \in {"idle", "save", "ask", "apply"}
         /\ \A r : r \in Requests => r \in {PolIdle} \cup Saves \cup Asks \cup Applies
<1>1. polReq[w] \in Requests BY DEF PolTyped
<1>2. PolIdle.op = "idle" BY DEF PolIdle
<1>3. \A r \in Saves : r.op = "save" BY DEF Saves
<1>4. \A r \in Asks : r.op = "ask" BY DEF Asks
<1>5. \A r \in Applies : r.op = "apply" BY DEF Applies
<1> QED BY <1>1, <1>2, <1>3, <1>4, <1>5 DEF Requests

(* The first half of a change is a save that is pending.                    *)
PolEdits(w) ==
  \/ \E c \in PolChannels : PolSync(w, c)
  \/ \E c \in PolChannels, p \in PolAgents : PolTrustPeer(w, c, p) \/ PolRevokePeer(w, c, p)

(* It waits to be saved as the row that was read, edited.                   *)
LEMMA EditPends ==
  ASSUME PolTyped, RowsNamed, NEW w \in PolWriters, PolEdits(w)
  PROVE  /\ \E q \in Saves : Pending(q) /\ polReq' = [polReq EXCEPT ![w] = q]
         /\ polReq[w].op = "idle"
         /\ UNCHANGED <<polName, polRow, polConf, polTask, polShown, polGrant, polOdd>>
<1>1. ASSUME NEW c \in PolChannels, NEW row, NEW gives \in SUBSET PolAgents, NEW takes \in SUBSET PolAgents, Named(c, row),
             row.accept = (AcceptOf(polRow[c]) \cup gives) \ takes,
             \A p \in gives \cup takes : PolOwner(p) # c,
             \A p \in gives \cap PolRuntimes : polRow[p[1]] # PolNone,
             PolEdit(w, c, row, gives, takes)
      PROVE  /\ \E q \in Saves : Pending(q) /\ polReq' = [polReq EXCEPT ![w] = q]
             /\ polReq[w].op = "idle"
             /\ UNCHANGED <<polName, polRow, polConf, polTask, polShown, polGrant, polOdd>>
  <2>1. PICK base : base = polRow[c] OBVIOUS
  <2>2. PICK q : q = [op |-> "save", c |-> c, row |-> row, base |-> base, gives |-> gives, takes |-> takes] OBVIOUS
  <2>3. base \in PolRows \cup {PolNone} BY <2>1 DEF PolTyped
  <2>4. q \in Saves BY <1>1, <2>2, <2>3 DEF Saves, Named
  <2>5. q.c = c /\ q.row = row /\ q.base = base /\ q.gives = gives /\ q.takes = takes BY <2>2
  <2>6. Pending(q) BY <1>1, <2>1, <2>5 DEF Pending
  <2>7. polReq' = [polReq EXCEPT ![w] = q] BY <1>1, <2>1, <2>2 DEF PolEdit
  <2> QED BY <1>1, <2>4, <2>6, <2>7 DEF PolEdit
<1>2. ASSUME NEW c \in PolChannels, PolSync(w, c)
      PROVE  /\ \E q \in Saves : Pending(q) /\ polReq' = [polReq EXCEPT ![w] = q]
             /\ polReq[w].op = "idle"
             /\ UNCHANGED <<polName, polRow, polConf, polTask, polShown, polGrant, polOdd>>
  <2>1. Named(c, polRow[c]) /\ AcceptOf(polRow[c]) = polRow[c].accept BY <1>2 DEF PolSync, RowsNamed, AcceptOf
  <2>2. PICK row : row = PolNamed(c, polRow[c]) OBVIOUS
  <2>3. Named(c, row) /\ row.accept = AcceptOf(polRow[c]) BY <2>1, <2>2, EnabledRow
  <2>4. PICK none \in SUBSET PolAgents : none = {} OBVIOUS
  <2>5. PolEdit(w, c, row, none, none) BY <1>2, <2>2, <2>4 DEF PolSync
  <2>6. row.accept = (AcceptOf(polRow[c]) \cup none) \ none BY <2>3, <2>4
  <2> QED BY <1>1, <2>3, <2>4, <2>5, <2>6
<1>3. ASSUME NEW c \in PolChannels, NEW p \in PolAgents, PolTrustPeer(w, c, p) \/ PolRevokePeer(w, c, p)
      PROVE  /\ \E q \in Saves : Pending(q) /\ polReq' = [polReq EXCEPT ![w] = q]
             /\ polReq[w].op = "idle"
             /\ UNCHANGED <<polName, polRow, polConf, polTask, polShown, polGrant, polOdd>>
  <2>1. PICK none \in SUBSET PolAgents : none = {} OBVIOUS
  <2>2. PICK one \in SUBSET PolAgents : one = {p} OBVIOUS
  <2>3. PICK with, without : with = PolAllowed(c, p) /\ without = PolWithout(c, p) OBVIOUS
  <2>4. /\ Named(c, with) /\ with.accept = AcceptOf(polRow[c]) \cup one
        /\ Named(c, without) /\ without.accept = AcceptOf(polRow[c]) \ one
    BY <2>2, <2>3, EditedRows
  <2>5. CASE PolTrustPeer(w, c, p)
    <3>1. /\ PolEdit(w, c, with, one, none) /\ \A x \in one \cup none : PolOwner(x) # c
          /\ \A x \in one \cap PolRuntimes : polRow[x[1]] # PolNone
      BY <2>1, <2>2, <2>3, <2>5 DEF PolTrustPeer
    <3>2. with.accept = (AcceptOf(polRow[c]) \cup one) \ none BY <2>1, <2>4
    <3> QED BY <1>1, <2>4, <3>1, <3>2
  <2>6. CASE PolRevokePeer(w, c, p)
    <3>1. /\ PolEdit(w, c, without, none, one) /\ \A x \in none \cup one : PolOwner(x) # c
          /\ \A x \in none \cap PolRuntimes : polRow[x[1]] # PolNone
      BY <2>1, <2>2, <2>3, <2>6 DEF PolRevokePeer
    <3>2. without.accept = (AcceptOf(polRow[c]) \cup none) \ one BY <2>1, <2>4
    <3> QED BY <1>1, <2>4, <3>1, <3>2
  <2> QED BY <1>3, <2>5, <2>6
<1> QED BY <1>2, <1>3 DEF PolEdits

(* The id a save replaces.                                                  *)
OldId(q) == IF polRow[q.c] = PolNone THEN q.row.rid ELSE polRow[q.c].rid

(* The save replaces the row it was read for, and gives every row that      *)
(* accepted the old id the new one.                                         *)
LEMMA SaveRows ==
  ASSUME PolTyped, RowsNamed, PendingOK, NEW w \in PolWriters, PolSave(w), ~ UNCHANGED <<polRow, polGrant, polOdd>>
  PROVE  LET q == polReq[w] IN
         /\ q \in Saves /\ q.c \in PolChannels /\ Pending(q)
         /\ polRow' \in [PolChannels -> PolRows \cup {PolNone}] /\ RowsNamed'
         /\ OldId(q) \in {q.c} \X PolNames /\ q.row.rid \in {q.c} \X PolNames
         /\ polRow'[q.c] # PolNone /\ polRow'[q.c].rid = q.row.rid
         /\ \A c \in PolChannels \ {q.c} : /\ polRow'[c] = PolNone <=> polRow[c] = PolNone
                                           /\ polRow[c] # PolNone => polRow'[c].rid = polRow[c].rid
         /\ \A c \in PolChannels :
              LET accept == IF c = q.c THEN q.row.accept ELSE AcceptOf(polRow[c]) IN
              AcceptOf(polRow'[c]) = IF OldId(q) \in accept THEN (accept \ {OldId(q)}) \cup {q.row.rid} ELSE accept
<1>1. PICK q : q = polReq[w] OBVIOUS
<1>2. q.op = "save" /\ q \in Saves BY <1>1, RequestKinds DEF PolSave
<1>3. Pending(q) BY <1>1, <1>2 DEF PendingOK
<1>4. q.c \in PolChannels BY <1>2 DEF Saves
<1>5. Named(q.c, q.row) /\ q.row.rid \in {q.c} \X PolNames BY <1>3 DEF Pending, Named
<1>6. PICK old : old = OldId(q) OBVIOUS
<1>7. old \in {q.c} \X PolNames BY <1>4, <1>5, <1>6 DEF OldId, RowsNamed, Named
<1>8. PICK new \in PolRuntimes : new = q.row.rid BY <1>4, <1>5 DEF PolRuntimes
<1>9. PICK rows : rows = [polRow EXCEPT ![q.c] = q.row] OBVIOUS
<1>10. polRow' = [c \in PolChannels |-> PolRewritten(rows[c], old, new)]
  BY <1>1, <1>6, <1>8, <1>9 DEF PolSave, OldId
<1>11. \A c \in PolChannels : rows[c] = IF c = q.c THEN q.row ELSE polRow[c] BY <1>4, <1>9 DEF PolTyped
<1>12. q.row # PolNone BY <1>5, PolNoneAssumption DEF Named
<1>13. \A c \in PolChannels : rows[c] = PolNone \/ Named(c, rows[c])
  BY <1>5, <1>11 DEF RowsNamed
<1>14. ASSUME NEW c \in PolChannels
       PROVE  /\ rows[c] = PolNone <=> polRow'[c] = PolNone
              /\ rows[c] # PolNone => Named(c, polRow'[c]) /\ polRow'[c].rid = rows[c].rid
              /\ AcceptOf(polRow'[c]) =
                   IF old \in AcceptOf(rows[c]) THEN (AcceptOf(rows[c]) \ {old}) \cup {new} ELSE AcceptOf(rows[c])
  <2>1. PICK row : row = rows[c] OBVIOUS
  <2>2. row = PolNone \/ Named(c, row) BY <1>13, <2>1
  <2>3. PICK after : after = PolRewritten(row, old, new) OBVIOUS
  <2>4. /\ row = PolNone <=> after = PolNone
        /\ row # PolNone => Named(c, after) /\ after.rid = row.rid
        /\ AcceptOf(after) = IF old \in AcceptOf(row) THEN (AcceptOf(row) \ {old}) \cup {new} ELSE AcceptOf(row)
    BY <2>2, <2>3, RewrittenRow
  <2>5. polRow'[c] = after BY <1>10, <2>1, <2>3
  <2> QED BY <2>1, <2>4, <2>5
<1>15. \A c \in PolChannels : polRow'[c] \in PolRows \cup {PolNone} BY <1>14 DEF Named
<1>16. polRow' \in [PolChannels -> PolRows \cup {PolNone}] BY <1>10, <1>15
<1>17. RowsNamed' BY <1>14 DEF RowsNamed
<1>18. polRow'[q.c] # PolNone /\ polRow'[q.c].rid = q.row.rid BY <1>4, <1>11, <1>12, <1>14
<1>19. \A c \in PolChannels \ {q.c} : /\ polRow'[c] = PolNone <=> polRow[c] = PolNone
                                      /\ polRow[c] # PolNone => polRow'[c].rid = polRow[c].rid
  BY <1>11, <1>14
<1>20. ASSUME NEW c \in PolChannels, NEW accept, accept = IF c = q.c THEN q.row.accept ELSE AcceptOf(polRow[c])
       PROVE  AcceptOf(polRow'[c]) = IF old \in accept THEN (accept \ {old}) \cup {new} ELSE accept
  <2>1. AcceptOf(rows[c]) = accept BY <1>11, <1>12, <1>20 DEF AcceptOf
  <2> QED BY <1>14, <2>1
<1>21. \A c \in PolChannels :
         LET accept == IF c = q.c THEN q.row.accept ELSE AcceptOf(polRow[c]) IN
         AcceptOf(polRow'[c]) = IF OldId(q) \in accept THEN (accept \ {OldId(q)}) \cup {q.row.rid} ELSE accept
  BY <1>6, <1>8, <1>20
<1>22. OldId(q) \in {q.c} \X PolNames BY <1>6, <1>7
<1> HIDE DEF OldId
<1> QED BY <1>1, <1>2, <1>3, <1>4, <1>5, <1>16, <1>17, <1>18, <1>19, <1>21, <1>22

-----------------------------------------------------------------------------
(* The steps, and what each leaves alone.                                   *)

(* A question is asked: it goes on the screen, or to the one who asks.      *)
LEMMA DelegateIs ==
  ASSUME PolTyped, NEW w \in PolWriters, NEW u \in PolUsers, NEW c \in PolChannels, NEW p \in PolAgents, PolDelegate(w, u, c, p)
  PROVE  /\ polReq[w].op = "idle" /\ Cardinality(OpenTasks(c)) < PolCap
         /\ UNCHANGED <<polName, polRow, polTask, polShown, polGrant, polOdd>>
         /\ \/ \E k \in PolConfs : /\ polConf[k] = PolNone /\ UNCHANGED polReq
                                   /\ \E q \in PolQuestions : q.k = k /\ polConf' = [polConf EXCEPT ![k] = q]
            \/ \E q \in PolQuestions, r \in Asks :
                 q.k = PolNone /\ q.c = c /\ r.q = q /\ r.op = "ask" /\ polReq' = [polReq EXCEPT ![w] = r] /\ UNCHANGED polConf
<1>1. Cardinality(OpenTasks(c)) < PolCap BY DEF PolDelegate, PolMayAsk, PolOpen, OpenTasks
<1>2. PolMode(p) \in PolModes BY DEF PolMode, PolModes
<1>3. PICK q : q = [u |-> u, c |-> c, to |-> p, mode |-> PolMode(p), k |-> PolNone] OBVIOUS
<1>4. q \in PolQuestions /\ q.k = PolNone /\ q.c = c BY <1>2, <1>3 DEF PolQuestions
<1>5. PolQuestion(u, c, p) = q BY <1>3 DEF PolQuestion
<1>6. ASSUME NEW k \in PolConfs PROVE [q EXCEPT !.k = k] \in PolQuestions /\ [q EXCEPT !.k = k].k = k
  BY <1>4 DEF PolQuestions
<1>7. PICK r : r = [op |-> "ask", q |-> q] OBVIOUS
<1>8. r \in Asks /\ r.q = q /\ r.op = "ask" BY <1>4, <1>7 DEF Asks
<1>9. ASSUME NEW k \in PolConfs, polConf[k] = PolNone, polConf' = [polConf EXCEPT ![k] = [q EXCEPT !.k = k]], UNCHANGED polReq
      PROVE  \E x \in PolConfs : /\ polConf[x] = PolNone /\ UNCHANGED polReq
                                 /\ \E y \in PolQuestions : y.k = x /\ polConf' = [polConf EXCEPT ![x] = y]
  BY <1>6, <1>9
<1>10. \/ \E k \in PolConfs : polConf[k] = PolNone /\ polConf' = [polConf EXCEPT ![k] = [q EXCEPT !.k = k]] /\ UNCHANGED polReq
       \/ polReq' = [polReq EXCEPT ![w] = r] /\ UNCHANGED polConf
  BY <1>5, <1>7 DEF PolDelegate
<1>11. polReq[w].op = "idle" /\ UNCHANGED <<polName, polRow, polTask, polShown, polGrant, polOdd>> BY DEF PolDelegate
<1> QED BY <1>1, <1>4, <1>8, <1>9, <1>10, <1>11

(* An entry leaves the store.                                               *)
LEMMA GoneIs ==
  ASSUME PolTyped, NEW k \in PolConfs, polConf[k] # PolNone
  PROVE  \E q \in PolQuestions : /\ q.k = PolNone /\ PolGone(k) = [polConf EXCEPT ![k] = q]
<1>1. PICK old \in PolQuestions : old = polConf[k] BY DEF PolTyped
<1>2. PICK q : q = [old EXCEPT !.k = PolNone] OBVIOUS
<1>3. q \in PolQuestions /\ q.k = PolNone BY <1>1, <1>2 DEF PolQuestions
<1>4. PolGone(k) = [polConf EXCEPT ![k] = q] BY <1>1, <1>2 DEF PolGone
<1> QED BY <1>3, <1>4

(* A click that was taken: the question is asked, or dropped.               *)
LEMMA TakeIs ==
  ASSUME PolTyped, Tickets, NEW w \in PolWriters, PolTake(w)
  PROVE  \E k \in PolConfs :
           /\ polConf[k] # PolNone /\ polReq[w].op = "apply" /\ polReq[w].k = k
           /\ UNCHANGED <<polName, polRow, polTask, polShown, polGrant, polOdd>>
           /\ \E q \in PolQuestions : q.k = PolNone /\ polConf' = [polConf EXCEPT ![k] = q]
           /\ \/ polReq' = [polReq EXCEPT ![w] = PolIdle]
              \/ /\ PolShows(k) /\ Cardinality(OpenTasks(polConf[k].c)) < PolCap
                 /\ \E r \in Asks : r.op = "ask" /\ r.q = polConf[k] /\ polReq' = [polReq EXCEPT ![w] = r]
<1>1. PICK k \in PolConfs : k = polReq[w].k /\ polReq[w].op = "apply" BY RequestKinds DEF PolTake, Applies
<1>2. polConf[k] # PolNone BY <1>1 DEF Tickets
<1>3. \E q \in PolQuestions : q.k = PolNone /\ polConf' = [polConf EXCEPT ![k] = q]
  <2>1. polConf' = PolGone(k) BY <1>1 DEF PolTake
  <2> QED BY <1>2, <2>1, GoneIs
<1>4. PICK q \in PolQuestions : q = polConf[k] BY <1>2 DEF PolTyped
<1>5. PICK r : r = [op |-> "ask", q |-> q] OBVIOUS
<1>6. r \in Asks /\ r.q = q /\ r.op = "ask" BY <1>4, <1>5 DEF Asks
<1>7. \/ polReq' = [polReq EXCEPT ![w] = PolIdle]
      \/ PolShows(k) /\ PolMayAsk(q.c) /\ polReq' = [polReq EXCEPT ![w] = r]
  BY <1>1, <1>4, <1>5 DEF PolTake
<1>8. PolMayAsk(q.c) => Cardinality(OpenTasks(q.c)) < PolCap BY DEF PolMayAsk, PolOpen, OpenTasks
<1>9. UNCHANGED <<polName, polRow, polTask, polShown, polGrant, polOdd>> BY DEF PolTake
<1> QED BY <1>1, <1>2, <1>3, <1>4, <1>6, <1>7, <1>8, <1>9

(* A task is sent.                                                          *)
LEMMA SendIs ==
  ASSUME PolTyped, RowsNamed, NEW w \in PolWriters, PolSend(w)
  PROVE  /\ polReq[w] \in Asks /\ polReq[w].q \in PolQuestions /\ polReq' = [polReq EXCEPT ![w] = PolIdle]
         /\ UNCHANGED <<polName, polRow, polConf, polGrant, polOdd>>
         /\ \E t \in PolTasks, e \in PolEnvelopes :
              /\ polTask[t] = PolNone /\ e.c = polReq[w].q.c /\ polTask' = [polTask EXCEPT ![t] = e]
              /\ polShown' = IF polReq[w].q.k = PolNone THEN polShown
                             ELSE [polShown EXCEPT ![polReq[w].q.k] = @ \cup {t}]
<1>1. PICK q : q = polReq[w].q OBVIOUS
<1>2. polReq[w] \in Asks /\ q \in PolQuestions BY <1>1, RequestKinds DEF PolSend, Asks
<1>3. PICK from : from = PolCurrent(q.c) OBVIOUS
<1>4. from \in PolRuntimes
  <2>1. q.c \in PolChannels BY <1>2 DEF PolQuestions
  <2>2. Named(q.c, PolRead(q.c)) BY <2>1, ReadRow
  <2> QED BY <1>3, <2>1, <2>2 DEF PolCurrent, Named, PolRows
<1>5. PICK e : e = [c |-> q.c, by |-> q.u, from |-> from, to |-> q.to, mode |-> q.mode, st |-> "sent"] OBVIOUS
<1>6. e \in PolEnvelopes /\ e.c = q.c BY <1>2, <1>4, <1>5 DEF PolQuestions, PolEnvelopes
<1>7. PolEnvelope(q) = e BY <1>3, <1>5 DEF PolEnvelope
<1>8. PICK t \in PolTasks : /\ polTask[t] = PolNone /\ polTask' = [polTask EXCEPT ![t] = e]
                            /\ polShown' = IF q.k = PolNone THEN polShown ELSE [polShown EXCEPT ![q.k] = @ \cup {t}]
  BY <1>1, <1>7 DEF PolSend
<1>9. polReq' = [polReq EXCEPT ![w] = PolIdle] /\ UNCHANGED <<polName, polRow, polConf, polGrant, polOdd>>
  BY DEF PolSend
<1> QED BY <1>1, <1>2, <1>6, <1>8, <1>9

(* A task goes on.                                                          *)
PolMoves(t) == PolArrive(t) \/ PolFinish(t) \/ \E c \in PolChannels, u \in PolUsers, m \in BOOLEAN : PolControl(t, c, u, m)

(* It runs, or has ended, and was open before.                              *)
LEMMA MoveIs ==
  ASSUME PolTyped, NEW t \in PolTasks, PolMoves(t)
  PROVE  /\ UNCHANGED <<polName, polRow, polReq, polConf, polShown, polGrant, polOdd>>
         /\ polTask[t] \in PolEnvelopes /\ polTask[t].st # "ended"
         /\ \E e \in PolEnvelopes : e.c = polTask[t].c /\ polTask' = [polTask EXCEPT ![t] = e]
<1>1. PICK row : row = polTask[t] OBVIOUS
<1>2. /\ row # PolNone /\ row.st # "ended"
      /\ UNCHANGED <<polName, polRow, polReq, polConf, polShown, polGrant, polOdd>>
      /\ \E st \in {"running", "ended"} : polTask' = [polTask EXCEPT ![t].st = st]
  BY <1>1 DEF PolMoves, PolArrive, PolFinish, PolControl, PolVisible
<1>3. row \in PolEnvelopes BY <1>1, <1>2 DEF PolTyped
<1>4. PICK st \in {"running", "ended"} : polTask' = [polTask EXCEPT ![t].st = st] BY <1>2
<1>5. PICK e : e = [row EXCEPT !.st = st] OBVIOUS
<1>6. e \in PolEnvelopes /\ e.c = row.c BY <1>3, <1>5 DEF PolEnvelopes
<1>7. polTask' = [polTask EXCEPT ![t] = e] BY <1>1, <1>4, <1>5
<1> QED BY <1>1, <1>2, <1>3, <1>6, <1>7

(* A click: the entry it is for is on the screen.                           *)
LEMMA ClickIs ==
  ASSUME NEW w \in PolWriters, NEW u, NEW k \in PolConfs, PolClick(w, u, k)
  PROVE  /\ polReq[w].op = "idle" /\ polConf[k] # PolNone
         /\ UNCHANGED <<polName, polRow, polConf, polTask, polShown, polGrant, polOdd>>
         /\ \E r \in Applies : r.op = "apply" /\ r.k = k /\ polReq' = [polReq EXCEPT ![w] = r]
<1>1. PICK r : r = [op |-> "apply", k |-> k] OBVIOUS
<1>2. r \in Applies /\ r.op = "apply" /\ r.k = k BY <1>1 DEF Applies
<1> QED BY <1>1, <1>2 DEF PolClick, PolShows

(* Every step is one of these.                                              *)
LEMMA PolSteps ==
  ASSUME PolNext
  PROVE  \/ \E c \in PolChannels, n \in PolNames : PolRename(c, n)
         \/ \E w \in PolWriters : PolEdits(w) \/ PolSave(w) \/ PolTake(w) \/ PolSend(w)
         \/ \E w \in PolWriters, u \in PolUsers, c \in PolChannels, p \in PolAgents : PolDelegate(w, u, c, p)
         \/ \E w \in PolWriters, u \in PolUsers, k \in PolConfs : PolClick(w, u, k)
         \/ \E k \in PolConfs : PolDismiss(k)
         \/ \E t \in PolTasks : PolMoves(t)
BY DEF PolNext, PolEdits, PolMoves

(* Every step keeps the types.                                              *)
LEMMA PolTypedStep ==
  ASSUME PolTyped, RowsNamed, PendingOK, Tickets, PolNext
  PROVE  PolTyped' /\ RowsNamed'
<1>0. /\ PolIdle \in Requests /\ Saves \subseteq Requests /\ Asks \subseteq Requests /\ Applies \subseteq Requests
  BY DEF Requests
<1>1. ASSUME NEW c \in PolChannels, NEW n \in PolNames, PolRename(c, n) PROVE PolTyped' /\ RowsNamed'
  BY <1>1 DEF PolRename, PolTyped, RowsNamed
<1>2. ASSUME NEW w \in PolWriters, PolEdits(w) PROVE PolTyped' /\ RowsNamed'
  BY <1>0, <1>2, EditPends DEF PolTyped, RowsNamed
<1>3. ASSUME NEW w \in PolWriters, PolSave(w) PROVE PolTyped' /\ RowsNamed'
  <2>1. polReq' = [polReq EXCEPT ![w] = PolIdle] /\ UNCHANGED <<polName, polConf, polTask, polShown>> BY <1>3 DEF PolSave
  <2>2. CASE UNCHANGED polRow /\ UNCHANGED <<polGrant, polOdd>> BY <1>0, <2>1, <2>2 DEF PolTyped, RowsNamed
  <2>3. CASE ~(UNCHANGED polRow /\ UNCHANGED <<polGrant, polOdd>>)
    <3>1. PICK q : q = polReq[w] OBVIOUS
    <3>2. q \in Saves /\ q.c \in PolChannels BY <1>3, <3>1, RequestKinds DEF PolSave, Saves
    <3>3. polGrant' = [polGrant EXCEPT ![q.c] = (@ \cup {PolOwner(p) : p \in q.gives}) \ {PolOwner(p) : p \in q.takes}]
      BY <1>3, <2>3, <3>1 DEF PolSave
    <3>4. \A p \in q.gives : PolOwner(p) \in PolChannels \cup PolForeign
      BY <3>2 DEF Saves, PolAgents, PolRuntimes, PolOwner
    <3>5. polGrant[q.c] \in SUBSET (PolChannels \cup PolForeign) BY <3>2 DEF PolTyped
    <3>6. PICK grant : grant = (polGrant[q.c] \cup {PolOwner(p) : p \in q.gives}) \ {PolOwner(p) : p \in q.takes} OBVIOUS
    <3>7. grant \in SUBSET (PolChannels \cup PolForeign) BY <3>4, <3>5, <3>6
    <3>8. polGrant' \in [PolChannels -> SUBSET (PolChannels \cup PolForeign)] BY <3>3, <3>6, <3>7 DEF PolTyped
    <3>9. polOdd' \in BOOLEAN BY <1>3 DEF PolSave, PolTyped
    <3>10. polRow' \in [PolChannels -> PolRows \cup {PolNone}] /\ RowsNamed'
      <4>1. CASE UNCHANGED polRow BY <4>1 DEF PolTyped, RowsNamed
      <4>2. CASE ~ UNCHANGED polRow BY <1>3, <4>2, SaveRows
      <4> QED BY <4>1, <4>2
    <3> QED BY <1>0, <2>1, <3>8, <3>9, <3>10 DEF PolTyped
  <2> QED BY <2>2, <2>3
<1>4. ASSUME NEW w \in PolWriters, PolTake(w) PROVE PolTyped' /\ RowsNamed'
  BY <1>0, <1>4, TakeIs DEF PolTyped, RowsNamed
<1>5. ASSUME NEW w \in PolWriters, PolSend(w) PROVE PolTyped' /\ RowsNamed'
  BY <1>0, <1>5, SendIs DEF PolTyped, RowsNamed
<1>6. ASSUME NEW w \in PolWriters, NEW u \in PolUsers, NEW c \in PolChannels, NEW p \in PolAgents, PolDelegate(w, u, c, p)
      PROVE  PolTyped' /\ RowsNamed'
  BY <1>0, <1>6, DelegateIs DEF PolTyped, RowsNamed
<1>7. ASSUME NEW w \in PolWriters, NEW u \in PolUsers, NEW k \in PolConfs, PolClick(w, u, k) PROVE PolTyped' /\ RowsNamed'
  BY <1>0, <1>7, ClickIs DEF PolTyped, RowsNamed
<1>8. ASSUME NEW k \in PolConfs, PolDismiss(k) PROVE PolTyped' /\ RowsNamed'
  BY <1>8, GoneIs DEF PolDismiss, PolShows, PolTyped, RowsNamed
<1>9. ASSUME NEW t \in PolTasks, PolMoves(t) PROVE PolTyped' /\ RowsNamed'
  BY <1>9, MoveIs DEF PolTyped, RowsNamed
<1> QED BY <1>1, <1>2, <1>3, <1>4, <1>5, <1>6, <1>7, <1>8, <1>9, PolSteps

(* Every step keeps the pending changes as they were read.                  *)
LEMMA PendingStep ==
  ASSUME PolTyped, RowsNamed, PendingOK, Tickets, PolNext
  PROVE  PendingOK'
<1>1. \A c \in PolChannels : polRow[c] # PolNone => polRow'[c] # PolNone
  <2>1. CASE UNCHANGED polRow BY <2>1
  <2>2. CASE ~ UNCHANGED polRow
    <3>1. PICK w \in PolWriters : PolSave(w)
      BY <2>2, PolSteps, EditPends, TakeIs, SendIs, DelegateIs, ClickIs, MoveIs DEF PolRename, PolDismiss
    <3> QED BY <2>2, <3>1, SaveRows
  <2> QED BY <2>1, <2>2
<1>2. \A q \in Saves : Pending(q) => Pending(q)'
  <2> SUFFICES ASSUME NEW q \in Saves, Pending(q) PROVE Pending(q)' OBVIOUS
  <2>1. \A p \in q.gives \cap PolRuntimes : p[1] \in PolChannels BY DEF PolRuntimes
  <2> QED BY <1>1, <2>1 DEF Pending
<1>3. \A w \in PolWriters : \/ polReq'[w] = polReq[w] \/ polReq'[w].op # "save"
                            \/ (polReq'[w] \in Saves /\ Pending(polReq'[w]))
  <2>1. ASSUME NEW w \in PolWriters, NEW r, polReq' = [polReq EXCEPT ![w] = r], r.op # "save" \/ (r \in Saves /\ Pending(r))
        PROVE  \A v \in PolWriters : \/ polReq'[v] = polReq[v] \/ polReq'[v].op # "save"
                                     \/ (polReq'[v] \in Saves /\ Pending(polReq'[v]))
    BY <2>1 DEF PolTyped
  <2>2. PolIdle.op # "save" BY DEF PolIdle
  <2>3. ASSUME NEW w \in PolWriters, PolEdits(w)
        PROVE  \E r : polReq' = [polReq EXCEPT ![w] = r] /\ (r.op # "save" \/ (r \in Saves /\ Pending(r)))
    BY <2>3, EditPends
  <2>4. ASSUME NEW w \in PolWriters, PolSave(w) \/ PolTake(w) \/ PolSend(w)
        PROVE  \E r : polReq' = [polReq EXCEPT ![w] = r] /\ r.op # "save"
    <3>1. CASE PolSave(w) BY <2>2, <3>1 DEF PolSave
    <3>2. CASE PolTake(w)
      <4>1. polReq' = [polReq EXCEPT ![w] = PolIdle] \/ \E r \in Asks : r.op = "ask" /\ polReq' = [polReq EXCEPT ![w] = r]
        BY <3>2, TakeIs
      <4> QED BY <2>2, <4>1
    <3>3. CASE PolSend(w) BY <2>2, <3>3 DEF PolSend
    <3> QED BY <2>4, <3>1, <3>2, <3>3
  <2>5. ASSUME NEW w \in PolWriters, NEW u \in PolUsers, NEW c \in PolChannels, NEW p \in PolAgents, PolDelegate(w, u, c, p)
        PROVE  UNCHANGED polReq \/ \E r : polReq' = [polReq EXCEPT ![w] = r] /\ r.op # "save"
    <3>1. UNCHANGED polReq \/ \E r \in Asks : r.op = "ask" /\ polReq' = [polReq EXCEPT ![w] = r] BY <2>5, DelegateIs
    <3> QED BY <3>1
  <2>6. ASSUME NEW w \in PolWriters, NEW u \in PolUsers, NEW k \in PolConfs, PolClick(w, u, k)
        PROVE  \E r : polReq' = [polReq EXCEPT ![w] = r] /\ r.op # "save"
    <3>1. \E r \in Applies : r.op = "apply" /\ polReq' = [polReq EXCEPT ![w] = r] BY <2>6, ClickIs
    <3> QED BY <3>1
  <2>7. ASSUME \/ \E c \in PolChannels, n \in PolNames : PolRename(c, n)
               \/ \E k \in PolConfs : PolDismiss(k)
               \/ \E t \in PolTasks : PolMoves(t)
        PROVE  UNCHANGED polReq
    BY <2>7, MoveIs DEF PolRename, PolDismiss
  <2>8. UNCHANGED polReq \/ \E w \in PolWriters : \E r : polReq' = [polReq EXCEPT ![w] = r]
                                                       /\ (r.op # "save" \/ (r \in Saves /\ Pending(r)))
    BY <2>3, <2>4, <2>5, <2>6, <2>7, PolSteps
  <2> QED BY <2>1, <2>8
<1>4. ASSUME NEW w \in PolWriters, NEW q, q = polReq'[w], q.op = "save" PROVE Pending(q)'
  <2>1. q \in Saves /\ Pending(q) BY <1>3, <1>4, RequestKinds DEF PendingOK
  <2> QED BY <1>2, <2>1
<1>5. \A w \in PolWriters : polReq'[w].op = "save" =>
        /\ Named(polReq'[w].c, polReq'[w].row)
        /\ polReq'[w].row.accept = (AcceptOf(polReq'[w].base) \cup polReq'[w].gives) \ polReq'[w].takes
        /\ \A p \in polReq'[w].gives \cup polReq'[w].takes : PolOwner(p) # polReq'[w].c
        /\ \A p \in polReq'[w].gives \cap PolRuntimes : polRow'[p[1]] # PolNone
  BY <1>4 DEF Pending
<1> QED BY <1>5 DEF PendingOK, Pending

-----------------------------------------------------------------------------
(* The grants.                                                              *)

(* The present id of a runtime of this bot.                                 *)
LEMMA PresentId ==
  ASSUME PolTyped, RowsNamed, NEW c \in PolChannels
  PROVE  /\ PolCurrent(c) = IF polRow[c] = PolNone THEN <<c, polName[c]>> ELSE polRow[c].rid
         /\ PolCurrent(c) \in {c} \X PolNames /\ PolCurrent(c) \in PolRuntimes
         /\ PolRead(c).accept = AcceptOf(polRow[c])
<1>1. PolCurrent(c) = IF polRow[c] = PolNone THEN <<c, polName[c]>> ELSE polRow[c].rid
  BY DEF PolCurrent, PolRead, PolDefault
<1>2. Named(c, PolRead(c)) /\ PolRead(c).accept = AcceptOf(polRow[c]) BY ReadRow
<1>3. PolCurrent(c) \in {c} \X PolNames BY <1>2 DEF Named, PolCurrent
<1> QED BY <1>1, <1>2, <1>3 DEF PolRuntimes

(* The same after a step.                                                   *)
LEMMA NextPresentId ==
  ASSUME PolTyped', RowsNamed', NEW c \in PolChannels
  PROVE  /\ PolCurrent(c)' = IF polRow'[c] = PolNone THEN <<c, polName'[c]>> ELSE polRow'[c].rid
         /\ PolCurrent(c)' \in {c} \X PolNames /\ PolCurrent(c)' \in PolRuntimes
         /\ PolRead(c)'.accept = AcceptOf(polRow'[c])
<1>1. PolCurrent(c)' = IF polRow'[c] = PolNone THEN <<c, polName'[c]>> ELSE polRow'[c].rid
  BY DEF PolCurrent, PolRead, PolDefault
<1>2. polName'[c] \in PolNames BY DEF PolTyped
<1>3. polRow'[c] # PolNone => polRow'[c].rid \in {c} \X PolNames BY DEF RowsNamed, Named
<1>4. PolCurrent(c)' \in {c} \X PolNames BY <1>1, <1>2, <1>3
<1>5. PolRead(c)'.accept = AcceptOf(polRow'[c]) BY DEF PolRead, PolDefault, AcceptOf
<1> QED BY <1>1, <1>4, <1>5 DEF PolRuntimes

(* The present id of a runtime of this bot, or of another one.              *)
Present(d) == IF d \in PolForeign THEN d ELSE PolCurrent(d)

(* Who a grant names: the owner of an id, and the present id of an owner.   *)
LEMMA Owners ==
  ASSUME PolTyped, RowsNamed
  PROVE  /\ \A d \in PolChannels \cup PolForeign : PolOwner(Present(d)) = d
         /\ \A p \in PolRuntimes : PolOwner(p) = p[1] /\ p[1] \in PolChannels /\ p \notin PolForeign /\ p[1] \notin PolForeign
         /\ \A p \in PolForeign : PolOwner(p) = p
<1>1. \A p \in PolRuntimes : p \notin PolForeign /\ p[1] \in PolChannels BY PolForeignAssumption DEF PolRuntimes
<1>2. \A c \in PolChannels : c \notin PolForeign BY PolForeignAssumption
<1>3. \A c \in PolChannels : PolCurrent(c) \in PolRuntimes /\ PolCurrent(c)[1] = c BY PresentId
<1> QED BY <1>1, <1>2, <1>3 DEF PolOwner, Present

(* A change of a name leaves the grants, and what they stand for.           *)
LEMMA RenameGrants ==
  ASSUME PolTyped, RowsNamed, Current, Follows, NEW c \in PolChannels, NEW n \in PolNames, PolRename(c, n)
  PROVE  Current' /\ Follows'
<1>1. UNCHANGED <<polRow, polGrant>> /\ polName' = [polName EXCEPT ![c] = n] BY DEF PolRename
<1>2. Current' BY <1>1 DEF Current
<1>3. PolTyped' /\ RowsNamed' BY <1>1 DEF PolTyped, RowsNamed, PolRename
<1>4. ASSUME NEW b \in PolChannels, NEW d \in PolChannels \cup PolForeign, b # d
      PROVE  d \in polGrant'[b] <=> Present(d)' \in PolRead(b)'.accept
  <2>1. PolRead(b)'.accept = AcceptOf(polRow[b]) /\ PolRead(b).accept = AcceptOf(polRow[b])
    BY <1>1, <1>3, PresentId, NextPresentId
  <2>2. d \in polGrant[b] <=> Present(d) \in AcceptOf(polRow[b]) BY <1>4, <2>1 DEF Follows, Present
  <2>3. CASE d \in PolForeign BY <1>1, <2>1, <2>2, <2>3 DEF Present
  <2>4. CASE d \notin PolForeign /\ polRow[d] # PolNone
    <3>1. PolCurrent(d)' = PolCurrent(d) BY <1>1, <2>4 DEF PolCurrent, PolRead
    <3> QED BY <1>1, <2>1, <2>2, <2>4, <3>1 DEF Present
  <2>5. CASE d \notin PolForeign /\ polRow[d] = PolNone
    <3>1. PolCurrent(d) \in PolRuntimes /\ PolCurrent(d)[1] = d BY <2>5, PresentId
    <3>2. PolCurrent(d)' \in PolRuntimes /\ PolCurrent(d)'[1] = d BY <1>3, <2>5, NextPresentId
    <3>3. \A p \in PolRuntimes : p[1] = d => p \notin AcceptOf(polRow[b]) BY <2>5 DEF Current
    <3> QED BY <1>1, <2>1, <2>2, <2>5, <3>1, <3>2, <3>3 DEF Present
  <2> QED BY <2>3, <2>4, <2>5
<1> QED BY <1>2, <1>4 DEF Follows, Present

(* A change that nothing overtook, of peers under their present names,      *)
(* keeps every row and every grant in step.                                 *)
LEMMA SaveGrants ==
  ASSUME PolTyped, RowsNamed, PolTyped', RowsNamed', PendingOK, Current, Follows, NEW w \in PolWriters, PolSave(w), ~polOdd',
         ~ UNCHANGED <<polRow, polGrant, polOdd>>
  PROVE  Current' /\ Follows'
<1>1. PICK q : q = polReq[w] OBVIOUS
<1>2. PICK old, new : old = OldId(q) /\ new = q.row.rid OBVIOUS
<1>3. /\ q \in Saves /\ q.c \in PolChannels /\ Pending(q)
      /\ old \in {q.c} \X PolNames /\ new \in {q.c} \X PolNames
      /\ polRow'[q.c] # PolNone /\ polRow'[q.c].rid = new
      /\ \A c \in PolChannels \ {q.c} : /\ polRow'[c] = PolNone <=> polRow[c] = PolNone
                                        /\ polRow[c] # PolNone => polRow'[c].rid = polRow[c].rid
      /\ \A c \in PolChannels :
           LET accept == IF c = q.c THEN q.row.accept ELSE AcceptOf(polRow[c]) IN
           AcceptOf(polRow'[c]) = IF old \in accept THEN (accept \ {old}) \cup {new} ELSE accept
  <2> HIDE DEF OldId
  <2> QED BY <1>1, <1>2, SaveRows
<1>4. /\ q.base = polRow[q.c] /\ UNCHANGED polName
      /\ \A p \in (q.gives \cup q.takes) \cap PolRuntimes : p = PolCurrent(p[1])
      /\ polGrant' = [polGrant EXCEPT ![q.c] = (@ \cup {PolOwner(p) : p \in q.gives}) \ {PolOwner(p) : p \in q.takes}]
  BY <1>1 DEF PolSave
<1>5. PICK A : A = AcceptOf(polRow[q.c]) OBVIOUS
<1>6. q.row.accept = (A \cup q.gives) \ q.takes BY <1>3, <1>4, <1>5 DEF Pending
<1>7. old[1] = q.c /\ new[1] = q.c /\ old \in PolRuntimes /\ new \in PolRuntimes BY <1>3 DEF PolRuntimes
<1>8. q.gives \subseteq PolAgents /\ q.takes \subseteq PolAgents BY <1>3 DEF Saves
<1>9. \A p \in q.gives \cap PolRuntimes : p[1] # q.c /\ polRow[p[1]] # PolNone BY <1>3, Owners DEF Pending
<1>10. \A p \in A \cap PolRuntimes : p[1] # q.c /\ polRow[p[1]] # PolNone /\ p = polRow[p[1]].rid
  BY <1>3, <1>5 DEF Current
<1>11. AcceptOf(polRow'[q.c]) = (A \cup q.gives) \ q.takes
  <2>1. old \notin q.row.accept BY <1>6, <1>7, <1>9, <1>10
  <2> QED BY <1>3, <1>6, <2>1
<1>12. \A d \in PolChannels : d # q.c => PolCurrent(d)' = PolCurrent(d)
  <2> SUFFICES ASSUME NEW d \in PolChannels, d # q.c PROVE PolCurrent(d)' = PolCurrent(d) OBVIOUS
  <2>1. /\ PolCurrent(d) = IF polRow[d] = PolNone THEN <<d, polName[d]>> ELSE polRow[d].rid
        /\ PolCurrent(d)' = IF polRow'[d] = PolNone THEN <<d, polName'[d]>> ELSE polRow'[d].rid
    BY PresentId, NextPresentId
  <2> QED BY <1>3, <1>4, <2>1
<1>13. PolCurrent(q.c)' = new
  <2>1. PolCurrent(q.c)' = PolRead(q.c)'.rid BY DEF PolCurrent
  <2>2. PolRead(q.c)' = polRow'[q.c] BY <1>3 DEF PolRead
  <2> QED BY <1>3, <2>1, <2>2
<1>14. \A d \in PolChannels \cup PolForeign : d # q.c => Present(d)' = Present(d) BY <1>12 DEF Present
<1>15. ASSUME NEW S \in {q.gives, q.takes}, NEW d \in PolChannels \cup PolForeign
       PROVE  d \in {PolOwner(p) : p \in S} <=> Present(d) \in S
  <2>1. ASSUME NEW p \in S, PolOwner(p) = d PROVE Present(d) = p
    <3>1. p \in PolAgents BY <1>8
    <3>2. CASE p \in PolForeign BY <2>1, <3>2, Owners DEF Present
    <3>3. CASE p \in PolRuntimes BY <1>4, <2>1, <3>3, Owners DEF Present
    <3> QED BY <3>1, <3>2, <3>3 DEF PolAgents
  <2>2. PolOwner(Present(d)) = d BY Owners
  <2> QED BY <2>1, <2>2
<1>16. ASSUME NEW c \in PolChannels, c # q.c
       PROVE  /\ polGrant'[c] = polGrant[c]
              /\ \A p \in AcceptOf(polRow[c]) \cap PolRuntimes :
                   p[1] # c /\ polRow[p[1]] # PolNone /\ p = polRow[p[1]].rid /\ (p[1] = q.c => p = old)
              /\ AcceptOf(polRow'[c]) = IF old \in AcceptOf(polRow[c]) THEN (AcceptOf(polRow[c]) \ {old}) \cup {new}
                                        ELSE AcceptOf(polRow[c])
  <2>1. polGrant'[c] = polGrant[c] BY <1>4, <1>16 DEF PolTyped
  <2>2. polRow[q.c] # PolNone => old = polRow[q.c].rid BY <1>2 DEF OldId
  <2>3. \A p \in AcceptOf(polRow[c]) \cap PolRuntimes : p[1] # c /\ polRow[p[1]] # PolNone /\ p = polRow[p[1]].rid
    BY DEF Current
  <2>4. AcceptOf(polRow'[c]) = IF old \in AcceptOf(polRow[c]) THEN (AcceptOf(polRow[c]) \ {old}) \cup {new}
                                                            ELSE AcceptOf(polRow[c])
    BY <1>3, <1>16
  <2>5. ASSUME NEW p \in AcceptOf(polRow[c]) \cap PolRuntimes, p[1] = q.c PROVE p = old
    BY <2>2, <2>3, <2>5
  <2> QED BY <2>1, <2>3, <2>4, <2>5
<1>17. ASSUME NEW c \in PolChannels, NEW p \in AcceptOf(polRow'[c]) \cap PolRuntimes
       PROVE  p[1] # c /\ polRow'[p[1]] # PolNone /\ p = polRow'[p[1]].rid
  <2>1. p[1] \in PolChannels BY Owners
  <2>2. CASE c = q.c
    <3>1. p \in A \/ p \in q.gives BY <1>11, <1>17, <2>2
    <3>2. p[1] # q.c /\ polRow[p[1]] # PolNone BY <1>9, <1>10, <1>17, <3>1
    <3>3. p = polRow[p[1]].rid
      <4>1. CASE p \in A BY <1>10, <1>17, <4>1
      <4>2. CASE p \in q.gives
        <5>1. p = PolCurrent(p[1]) BY <1>4, <1>17, <4>2
        <5> QED BY <2>1, <3>2, <5>1, PresentId
      <4> QED BY <3>1, <4>1, <4>2
    <3> QED BY <1>3, <2>1, <2>2, <3>2, <3>3
  <2>3. CASE c # q.c
    <3>1. CASE p = new BY <1>3, <1>7, <2>3, <3>1
    <3>2. CASE p # new
      <4>1. p \in AcceptOf(polRow[c]) /\ p # old
        <5>1. PICK B : B = AcceptOf(polRow[c]) OBVIOUS
        <5>2. p \in IF old \in B THEN (B \ {old}) \cup {new} ELSE B BY <1>16, <1>17, <2>3, <5>1
        <5> QED BY <3>2, <5>1, <5>2
      <4>2. p[1] # q.c /\ p[1] # c /\ polRow[p[1]] # PolNone /\ p = polRow[p[1]].rid BY <1>16, <1>17, <2>3, <4>1
      <4> QED BY <1>3, <2>1, <4>2
    <3> QED BY <3>1, <3>2
  <2> QED BY <2>2, <2>3
<1>18. ASSUME NEW c \in PolChannels, NEW d \in PolChannels \cup PolForeign, c # d
       PROVE  d \in polGrant'[c] <=> Present(d)' \in AcceptOf(polRow'[c])
  <2>1. d \in polGrant[c] <=> Present(d) \in AcceptOf(polRow[c])
    <3>1. PolRead(c).accept = AcceptOf(polRow[c]) BY PresentId
    <3> QED BY <1>18, <3>1 DEF Follows, Present
  <2>2. CASE c = q.c
    <3>1. polGrant'[c] = (polGrant[c] \cup {PolOwner(p) : p \in q.gives}) \ {PolOwner(p) : p \in q.takes}
      BY <1>4, <2>2 DEF PolTyped
    <3>2. /\ d \in {PolOwner(p) : p \in q.gives} <=> Present(d) \in q.gives
          /\ d \in {PolOwner(p) : p \in q.takes} <=> Present(d) \in q.takes
      BY <1>15
    <3>3. Present(d)' = Present(d) BY <1>14, <1>18, <2>2
    <3> QED BY <1>5, <1>11, <2>1, <2>2, <3>1, <3>2, <3>3
  <2>3. CASE c # q.c /\ d # q.c
    <3>1. Present(d)' = Present(d) /\ PolOwner(Present(d)) = d BY <1>14, <2>3, Owners
    <3>2. PolOwner(old) = q.c /\ PolOwner(new) = q.c BY <1>7, Owners
    <3>3. Present(d) # old /\ Present(d) # new BY <2>3, <3>1, <3>2
    <3>4. Present(d) \in AcceptOf(polRow'[c]) <=> Present(d) \in AcceptOf(polRow[c])
      <4>1. PICK x, A0, B : x = Present(d) /\ A0 = AcceptOf(polRow[c]) /\ B = AcceptOf(polRow'[c]) OBVIOUS
      <4>2. B = IF old \in A0 THEN (A0 \ {old}) \cup {new} ELSE A0 BY <1>16, <2>3, <4>1
      <4>3. x # old /\ x # new BY <3>3, <4>1
      <4>4. x \in B <=> x \in A0 BY <4>2, <4>3
      <4> QED BY <4>1, <4>4
    <3> QED BY <1>16, <2>1, <2>3, <3>1, <3>4
  <2>4. CASE c # q.c /\ d = q.c
    <3>1. d \in PolChannels /\ d \notin PolForeign /\ Present(d)' = new /\ Present(d) = PolCurrent(d)
      BY <1>3, <1>13, <2>4, PolForeignAssumption DEF Present
    <3>2. Present(d) \in PolRuntimes /\ Present(d)[1] = q.c BY <2>4, <3>1, PresentId
    <3>3. CASE old \in AcceptOf(polRow[c])
      <4>1. polRow[q.c] # PolNone /\ old = polRow[q.c].rid BY <1>7, <1>16, <2>4, <3>3
      <4>2. Present(d) = old BY <2>4, <3>1, <4>1, PresentId
      <4> QED BY <1>16, <2>1, <2>4, <3>1, <3>3, <4>2
    <3>4. CASE old \notin AcceptOf(polRow[c])
      <4>1. new \notin AcceptOf(polRow[c]) /\ Present(d) \notin AcceptOf(polRow[c]) BY <1>7, <1>16, <2>4, <3>2, <3>4
      <4> QED BY <1>16, <2>1, <2>4, <3>1, <3>4, <4>1
    <3> QED BY <3>3, <3>4
  <2> QED BY <2>2, <2>3, <2>4
<1>19. Current' BY <1>17 DEF Current
<1>20. \A c \in PolChannels : PolRead(c)'.accept = AcceptOf(polRow'[c]) BY NextPresentId
<1>21. Follows' BY <1>18, <1>20 DEF Follows, Present
<1> QED BY <1>19, <1>21

-----------------------------------------------------------------------------
(* The confirmations.                                                       *)

(* A request that takes up no confirmation keeps them.                      *)
LEMMA IdleTickets ==
  ASSUME PolTyped, Tickets, UNCHANGED <<polConf, polShown>>, NEW w \in PolWriters, NEW r, polReq' = [polReq EXCEPT ![w] = r],
         r.op = "ask" => r.q.k = PolNone, r.op = "apply" => r.k \in PolConfs /\ polConf[r.k] # PolNone
  PROVE  Tickets'
<1>1. \A v \in PolWriters : polReq'[v] = IF v = w THEN r ELSE polReq[v] BY DEF PolTyped
<1>2. \A k \in PolConfs, v \in PolWriters : Holds(v, k)' => Holds(v, k) BY <1>1, PolAssumption DEF Holds
<1>3. \A k \in PolConfs : PolShows(k)' = PolShows(k) BY DEF PolShows
<1>4. \A k \in PolConfs : polConf[k] = PolNone => ~ \E v \in PolWriters : polReq'[v].op = "apply" /\ polReq'[v].k = k
  BY <1>1 DEF Tickets
<1> QED BY <1>2, <1>3, <1>4 DEF Tickets

(* An entry that leaves the store, whose question nobody or one request     *)
(* takes up.                                                                *)
LEMMA GoneTickets ==
  ASSUME PolTyped, Tickets, UNCHANGED polShown, NEW k \in PolConfs, polConf[k] # PolNone,
         NEW q \in PolQuestions, q.k = PolNone, polConf' = [polConf EXCEPT ![k] = q],
         \A v \in PolWriters : polReq'[v].op = "apply" => polReq'[v] = polReq[v],
         \A j \in PolConfs, v \in PolWriters : Holds(v, j)' => Holds(v, j) \/ (j = k /\ PolShows(k)),
         \A u, v \in PolWriters : PolShows(k) /\ Holds(u, k)' /\ Holds(v, k)' => u = v
  PROVE  Tickets'
<1>1. \A j \in PolConfs : polConf'[j] = IF j = k THEN q ELSE polConf[j] BY DEF PolTyped
<1>2. q # PolNone BY PolNoneAssumption
<1>3. ~PolShows(k)' BY <1>1 DEF PolShows
<1>4. \A j \in PolConfs : j # k => PolShows(j)' = PolShows(j) BY <1>1 DEF PolShows
<1>5. ASSUME NEW j \in PolConfs PROVE polConf'[j] # PolNone => polConf'[j].k \in {j, PolNone} BY <1>1 DEF Tickets
<1>6. ASSUME NEW j \in PolConfs, polConf'[j] = PolNone
      PROVE  ~ \E v \in PolWriters : polReq'[v].op = "apply" /\ polReq'[v].k = j
  BY <1>1, <1>2, <1>6 DEF Tickets
<1>7. ASSUME NEW j \in PolConfs, polConf'[j] = PolNone \/ PolShows(j)'
      PROVE  polShown'[j] = {} /\ ~ \E v \in PolWriters : Holds(v, j)'
  <2>1. j # k BY <1>1, <1>2, <1>3, <1>7
  <2>2. polConf[j] = PolNone \/ PolShows(j) BY <1>1, <1>4, <1>7, <2>1
  <2> QED BY <2>1, <2>2 DEF Tickets
<1>8. ASSUME NEW j \in PolConfs, NEW u \in PolWriters, NEW v \in PolWriters, Holds(u, j)', Holds(v, j)' PROVE u = v
  <2>1. CASE j = k /\ PolShows(k) BY <1>8, <2>1
  <2>2. CASE ~(j = k /\ PolShows(k))
    <3>1. Holds(u, j) /\ Holds(v, j) BY <1>8, <2>2
    <3> QED BY <3>1 DEF Tickets
  <2> QED BY <2>1, <2>2
<1>9. ASSUME NEW j \in PolConfs, NEW v \in PolWriters, Holds(v, j)' PROVE polShown'[j] = {} BY <1>9 DEF Tickets
<1>10. \A j \in PolConfs : polShown'[j] = {} \/ \E t \in PolTasks : polShown'[j] = {t} BY DEF Tickets
<1> QED BY <1>5, <1>6, <1>7, <1>8, <1>9, <1>10 DEF Tickets

(* Every step keeps them.                                                   *)
LEMMA TicketsStep ==
  ASSUME PolTyped, RowsNamed, PendingOK, Tickets, PolNext
  PROVE  Tickets'
<1>0. PolIdle.op = "idle" BY DEF PolIdle
<1>1. ASSUME UNCHANGED <<polConf, polReq, polShown>> PROVE Tickets'
  BY <1>1 DEF Tickets, PolShows, Holds
<1>2. ASSUME NEW w \in PolWriters, PolEdits(w) PROVE Tickets'
  <2>1. UNCHANGED <<polConf, polShown>> /\ \E q \in Saves : polReq' = [polReq EXCEPT ![w] = q] BY <1>2, EditPends
  <2>2. PICK q \in Saves : polReq' = [polReq EXCEPT ![w] = q] BY <2>1
  <2>3. q.op = "save" BY DEF Saves
  <2> QED BY <2>1, <2>2, <2>3, IdleTickets
<1>3. ASSUME NEW w \in PolWriters, PolSave(w) PROVE Tickets'
  <2>1. UNCHANGED <<polConf, polShown>> /\ polReq' = [polReq EXCEPT ![w] = PolIdle] BY <1>3 DEF PolSave
  <2> QED BY <1>0, <2>1, IdleTickets
<1>4. ASSUME NEW w \in PolWriters, NEW u \in PolUsers, NEW k \in PolConfs, PolClick(w, u, k) PROVE Tickets'
  <2>1. /\ UNCHANGED <<polConf, polShown>> /\ polConf[k] # PolNone
        /\ \E r \in Applies : r.op = "apply" /\ r.k = k /\ polReq' = [polReq EXCEPT ![w] = r]
    BY <1>4, ClickIs
  <2>2. PICK r \in Applies : r.op = "apply" /\ r.k = k /\ polReq' = [polReq EXCEPT ![w] = r] BY <2>1
  <2> QED BY <2>1, <2>2, IdleTickets
<1>5. ASSUME NEW w \in PolWriters, NEW u \in PolUsers, NEW c \in PolChannels, NEW p \in PolAgents, PolDelegate(w, u, c, p)
      PROVE  Tickets'
  <2>1. CASE UNCHANGED polConf /\ \E r \in Asks : r.op = "ask" /\ r.q.k = PolNone /\ polReq' = [polReq EXCEPT ![w] = r]
    <3>1. PICK r \in Asks : r.op = "ask" /\ r.q.k = PolNone /\ polReq' = [polReq EXCEPT ![w] = r] BY <2>1
    <3>2. UNCHANGED <<polConf, polShown>> BY <1>5, <2>1, DelegateIs
    <3> QED BY <3>1, <3>2, IdleTickets
  <2>2. ASSUME NEW k \in PolConfs, polConf[k] = PolNone, UNCHANGED <<polReq, polShown>>,
               NEW q \in PolQuestions, q.k = k, polConf' = [polConf EXCEPT ![k] = q]
        PROVE  Tickets'
    <3>1. \A j \in PolConfs : polConf'[j] = IF j = k THEN q ELSE polConf[j] BY <2>2 DEF PolTyped
    <3>2. q # PolNone BY PolNoneAssumption
    <3>3. \A j \in PolConfs : j # k => PolShows(j)' = PolShows(j) BY <3>1 DEF PolShows
    <3>4. \A j \in PolConfs, v \in PolWriters : Holds(v, j)' = Holds(v, j) BY <2>2 DEF Holds
    <3>5. ASSUME NEW j \in PolConfs, polConf'[j] = PolNone \/ PolShows(j)' PROVE polConf[j] = PolNone \/ PolShows(j)
      BY <2>2, <3>1, <3>3, <3>5
    <3> QED BY <2>2, <3>1, <3>2, <3>4, <3>5 DEF Tickets
  <2>3. /\ UNCHANGED polShown
        /\ \/ \E k \in PolConfs : /\ polConf[k] = PolNone /\ UNCHANGED polReq
                                  /\ \E q \in PolQuestions : q.k = k /\ polConf' = [polConf EXCEPT ![k] = q]
           \/ UNCHANGED polConf /\ \E r \in Asks : r.op = "ask" /\ r.q.k = PolNone /\ polReq' = [polReq EXCEPT ![w] = r]
    <3>1. UNCHANGED polShown BY <1>5, DelegateIs
    <3>2. \/ \E k \in PolConfs : /\ polConf[k] = PolNone /\ UNCHANGED polReq
                                 /\ \E q \in PolQuestions : q.k = k /\ polConf' = [polConf EXCEPT ![k] = q]
          \/ \E q \in PolQuestions, r \in Asks :
               q.k = PolNone /\ q.c = c /\ r.q = q /\ r.op = "ask" /\ polReq' = [polReq EXCEPT ![w] = r] /\ UNCHANGED polConf
      BY <1>5, DelegateIs
    <3> QED BY <3>1, <3>2
  <2> QED BY <2>1, <2>2, <2>3
<1>6. ASSUME NEW k \in PolConfs, PolDismiss(k) PROVE Tickets'
  <2>1. polConf[k] # PolNone /\ polConf' = PolGone(k) /\ UNCHANGED <<polReq, polShown>> BY <1>6 DEF PolDismiss, PolShows
  <2>2. PICK q \in PolQuestions : q.k = PolNone /\ polConf' = [polConf EXCEPT ![k] = q] BY <2>1, GoneIs
  <2>3. \A j \in PolConfs, v \in PolWriters : Holds(v, j)' = Holds(v, j) BY <2>1 DEF Holds
  <2>4. \A u, v \in PolWriters : Holds(u, k)' /\ Holds(v, k)' => u = v BY <2>3 DEF Tickets
  <2> QED BY <2>1, <2>2, <2>3, <2>4, GoneTickets
<1>7. ASSUME NEW w \in PolWriters, PolTake(w) PROVE Tickets'
  <2>1. PICK k \in PolConfs :
           /\ polConf[k] # PolNone /\ polReq[w].op = "apply" /\ polReq[w].k = k
           /\ UNCHANGED <<polName, polRow, polTask, polShown, polGrant, polOdd>>
           /\ \E q \in PolQuestions : q.k = PolNone /\ polConf' = [polConf EXCEPT ![k] = q]
           /\ \/ polReq' = [polReq EXCEPT ![w] = PolIdle]
              \/ /\ PolShows(k) /\ Cardinality(OpenTasks(polConf[k].c)) < PolCap
                 /\ \E r \in Asks : r.op = "ask" /\ r.q = polConf[k] /\ polReq' = [polReq EXCEPT ![w] = r]
    BY <1>7, TakeIs
  <2>2. PICK q \in PolQuestions : q.k = PolNone /\ polConf' = [polConf EXCEPT ![k] = q] BY <2>1
  <2>3. PICK r : /\ polReq' = [polReq EXCEPT ![w] = r]
                 /\ r.op = "idle" \/ (r.op = "ask" /\ r.q = polConf[k] /\ PolShows(k))
    BY <1>0, <2>1
  <2>4. \A v \in PolWriters : polReq'[v] = IF v = w THEN r ELSE polReq[v] BY <2>3 DEF PolTyped
  <2>5. \A v \in PolWriters : polReq'[v].op = "apply" => polReq'[v] = polReq[v] BY <2>3, <2>4
  <2>6. PolShows(k) => polConf[k].k = k BY <2>1 DEF Tickets, PolShows
  <2>7. \A j \in PolConfs, v \in PolWriters : Holds(v, j)' => Holds(v, j) \/ (j = k /\ v = w /\ PolShows(k))
    BY <2>3, <2>4, <2>6 DEF Holds
  <2>8. PolShows(k) => \A v \in PolWriters : ~Holds(v, k) BY DEF Tickets
  <2>9. \A u, v \in PolWriters : PolShows(k) /\ Holds(u, k)' /\ Holds(v, k)' => u = v BY <2>7, <2>8
  <2> QED BY <2>1, <2>2, <2>5, <2>7, <2>9, GoneTickets
<1>8. ASSUME NEW w \in PolWriters, PolSend(w) PROVE Tickets'
  <2>1. PICK k : k = polReq[w].q.k OBVIOUS
  <2>2. /\ polReq[w].op = "ask" /\ k \in PolConfs \cup {PolNone}
        /\ polReq' = [polReq EXCEPT ![w] = PolIdle] /\ UNCHANGED polConf
        /\ \E t \in PolTasks : polShown' = IF k = PolNone THEN polShown ELSE [polShown EXCEPT ![k] = @ \cup {t}]
    <3>1. polReq[w] \in Asks /\ polReq[w].q \in PolQuestions BY <1>8, SendIs
    <3> QED BY <1>8, <2>1, <3>1, SendIs DEF Asks, PolQuestions
  <2>3. CASE k = PolNone
    <3>1. UNCHANGED <<polConf, polShown>> BY <2>2, <2>3
    <3> QED BY <1>0, <2>2, <3>1, IdleTickets
  <2>4. CASE k # PolNone
    <3>1. PICK t \in PolTasks : polShown' = [polShown EXCEPT ![k] = @ \cup {t}] BY <2>2, <2>4
    <3>2. k \in PolConfs /\ Holds(w, k) BY <2>1, <2>2, <2>4 DEF Holds
    <3>3. polShown[k] = {} /\ polConf[k] # PolNone /\ ~PolShows(k) BY <3>2 DEF Tickets
    <3>4. \A j \in PolConfs : polShown'[j] = IF j = k THEN {t} ELSE polShown[j] BY <3>1, <3>2, <3>3 DEF PolTyped
    <3>5. \A v \in PolWriters : polReq'[v] = IF v = w THEN PolIdle ELSE polReq[v] BY <2>2 DEF PolTyped
    <3>6. \A j \in PolConfs, v \in PolWriters : Holds(v, j)' => Holds(v, j) /\ v # w BY <1>0, <3>5 DEF Holds
    <3>7. \A j \in PolConfs : PolShows(j)' = PolShows(j) BY <2>2 DEF PolShows
    <3>8. \A v \in PolWriters : ~Holds(v, k)' BY <3>2, <3>6 DEF Tickets
    <3>9. \A j \in PolConfs : polConf'[j] = PolNone => ~ \E v \in PolWriters : polReq'[v].op = "apply" /\ polReq'[v].k = j
      BY <1>0, <2>2, <3>5 DEF Tickets
    <3>10. ASSUME NEW j \in PolConfs, polConf'[j] = PolNone \/ PolShows(j)'
           PROVE  polShown'[j] = {} /\ ~ \E v \in PolWriters : Holds(v, j)'
      <4>1. j # k BY <2>2, <3>3, <3>7, <3>10
      <4>2. polConf[j] = PolNone \/ PolShows(j) BY <2>2, <3>7, <3>10
      <4> QED BY <3>4, <3>6, <4>1, <4>2 DEF Tickets
    <3>11. \A j \in PolConfs : polConf'[j] # PolNone => polConf'[j].k \in {j, PolNone} BY <2>2 DEF Tickets
    <3>12. \A j \in PolConfs, u, v \in PolWriters : Holds(u, j)' /\ Holds(v, j)' => u = v BY <3>6 DEF Tickets
    <3>13. \A j \in PolConfs, v \in PolWriters : Holds(v, j)' => polShown'[j] = {} BY <3>4, <3>6, <3>8 DEF Tickets
    <3>14. \A j \in PolConfs : polShown'[j] = {} \/ \E x \in PolTasks : polShown'[j] = {x} BY <3>4 DEF Tickets
    <3> QED BY <3>9, <3>10, <3>11, <3>12, <3>13, <3>14 DEF Tickets
  <2> QED BY <2>3, <2>4
<1>9. CASE (\E c \in PolChannels, n \in PolNames : PolRename(c, n)) \/ \E t \in PolTasks : PolMoves(t)
  BY <1>1, <1>9, MoveIs DEF PolRename
<1> QED BY <1>2, <1>3, <1>4, <1>5, <1>6, <1>7, <1>8, <1>9, PolSteps

(* Every step keeps rows and grants in step, until a change is overtaken.   *)
LEMMA GrantsStep ==
  ASSUME PolTyped, RowsNamed, Grants, Tickets, PolNext
  PROVE  Grants'
<1>1. PendingOK /\ PendingOK' BY PendingStep DEF Grants
<1>2. PolTyped' /\ RowsNamed' BY PolTypedStep DEF Grants
<1>3. SUFFICES ASSUME ~polOdd' PROVE Current' /\ Follows' BY <1>1 DEF Grants
<1>4. ASSUME UNCHANGED <<polName, polRow, polGrant, polOdd>> PROVE Current' /\ Follows'
  <2>1. Current /\ Follows BY <1>3, <1>4 DEF Grants
  <2>2. Current' BY <1>4, <2>1 DEF Current
  <2>3. \A c \in PolChannels : PolRead(c)' = PolRead(c) /\ PolCurrent(c)' = PolCurrent(c)
    BY <1>4 DEF PolRead, PolDefault, PolCurrent
  <2>4. Follows' BY <1>4, <2>1, <2>3 DEF Follows
  <2> QED BY <2>2, <2>4
<1>5. ASSUME NEW c \in PolChannels, NEW n \in PolNames, PolRename(c, n) PROVE Current' /\ Follows'
  <2>1. ~polOdd BY <1>3, <1>5 DEF PolRename
  <2> QED BY <1>5, <2>1, RenameGrants DEF Grants
<1>6. ASSUME NEW w \in PolWriters, PolSave(w) PROVE Current' /\ Follows'
  <2>1. CASE UNCHANGED <<polRow, polGrant, polOdd>>
    <3>1. UNCHANGED polName BY <1>6 DEF PolSave
    <3> QED BY <1>4, <2>1, <3>1
  <2>2. CASE ~ UNCHANGED <<polRow, polGrant, polOdd>>
    <3>1. ~polOdd BY <1>3, <1>6, <2>2 DEF PolSave
    <3>2. Current /\ Follows BY <3>1 DEF Grants
    <3> QED BY <1>1, <1>2, <1>3, <1>6, <2>2, <3>2, SaveGrants
  <2> QED BY <2>1, <2>2
<1>7. ASSUME NEW w \in PolWriters, PolEdits(w) \/ PolTake(w) \/ PolSend(w) PROVE UNCHANGED <<polName, polRow, polGrant, polOdd>>
  <2>1. CASE PolEdits(w) BY <2>1, EditPends
  <2>2. CASE PolTake(w) BY <2>2 DEF PolTake
  <2>3. CASE PolSend(w) BY <2>3 DEF PolSend
  <2> QED BY <1>7, <2>1, <2>2, <2>3
<1>8. ASSUME \/ \E w \in PolWriters, u \in PolUsers, c \in PolChannels, p \in PolAgents : PolDelegate(w, u, c, p)
             \/ \E w \in PolWriters, u \in PolUsers, k \in PolConfs : PolClick(w, u, k)
             \/ \E k \in PolConfs : PolDismiss(k)
             \/ \E t \in PolTasks : PolMoves(t)
      PROVE  UNCHANGED <<polName, polRow, polGrant, polOdd>>
  BY <1>8, MoveIs DEF PolDelegate, PolClick, PolDismiss
<1> QED BY <1>4, <1>5, <1>6, <1>7, <1>8, PolSteps

-----------------------------------------------------------------------------
(* The quota of a channel.                                                  *)

(* The tasks and the requests that count are finitely many.                 *)
LEMMA Counted ==
  ASSUME NEW c
  PROVE  /\ IsFiniteSet(OpenTasks(c)) /\ Cardinality(OpenTasks(c)) \in Nat
         /\ IsFiniteSet(Asking(c)) /\ Cardinality(Asking(c)) \in Nat
         /\ Cardinality(Asking(c)) <= Cardinality(PolWriters) /\ Cardinality(PolWriters) \in Nat /\ PolCap \in Nat \ {0}
<1>1. OpenTasks(c) \subseteq PolTasks /\ Asking(c) \subseteq PolWriters BY DEF OpenTasks, Asking
<1>2. IsFiniteSet(PolTasks) /\ IsFiniteSet(PolWriters) /\ PolCap \in Nat \ {0} BY PolAssumption
<1> HIDE DEF OpenTasks, Asking
<1>3. IsFiniteSet(OpenTasks(c)) BY <1>1, <1>2, FS_Subset
<1>4. IsFiniteSet(Asking(c)) /\ Cardinality(Asking(c)) <= Cardinality(PolWriters) BY <1>1, <1>2, FS_Subset
<1> QED BY <1>2, <1>3, <1>4, FS_CardinalityType

(* The same after a step.                                                   *)
LEMMA NextCounted ==
  ASSUME NEW c
  PROVE  /\ IsFiniteSet(OpenTasks(c)') /\ Cardinality(OpenTasks(c)') \in Nat
         /\ IsFiniteSet(Asking(c)') /\ Cardinality(Asking(c)') \in Nat
         /\ Cardinality(Asking(c)') <= Cardinality(PolWriters)
<1>1. PICK O, A : O = OpenTasks(c)' /\ A = Asking(c)' OBVIOUS
<1>2. O \subseteq PolTasks /\ A \subseteq PolWriters BY <1>1 DEF OpenTasks, Asking
<1>3. IsFiniteSet(PolTasks) /\ IsFiniteSet(PolWriters) BY PolAssumption
<1>4. IsFiniteSet(O) BY <1>2, <1>3, FS_Subset
<1>5. IsFiniteSet(A) /\ Cardinality(A) <= Cardinality(PolWriters) BY <1>2, <1>3, FS_Subset
<1>6. Cardinality(O) \in Nat /\ Cardinality(A) \in Nat BY <1>4, <1>5, FS_CardinalityType
<1> QED BY <1>1, <1>4, <1>5, <1>6

(* A step that lets no request through and opens no task keeps the quota.   *)
LEMMA SlackKept ==
  ASSUME Slack, NEW c \in PolChannels, OpenTasks(c)' \subseteq OpenTasks(c), Asking(c)' \subseteq Asking(c)
  PROVE  Cardinality(OpenTasks(c)') + Cardinality(Asking(c)') <= PolCap + Cardinality(PolWriters) - 1
<1>1. PICK O, A, P, B : O = OpenTasks(c) /\ A = Asking(c) /\ P = OpenTasks(c)' /\ B = Asking(c)' OBVIOUS
<1>2. /\ IsFiniteSet(O) /\ IsFiniteSet(A) /\ Cardinality(O) \in Nat /\ Cardinality(A) \in Nat
      /\ Cardinality(P) \in Nat /\ Cardinality(B) \in Nat /\ Cardinality(PolWriters) \in Nat /\ PolCap \in Nat
  BY <1>1, Counted, NextCounted
<1>3. Cardinality(P) <= Cardinality(O) /\ Cardinality(B) <= Cardinality(A) BY <1>1, <1>2, FS_Subset
<1>4. Cardinality(O) + Cardinality(A) <= PolCap + Cardinality(PolWriters) - 1 BY <1>1 DEF Slack
<1>5. Cardinality(P) + Cardinality(B) <= PolCap + Cardinality(PolWriters) - 1 BY <1>2, <1>3, <1>4
<1> QED BY <1>1, <1>5

(* A request is let through only while the quota leaves room for one task.  *)
LEMMA SlackLet ==
  ASSUME NEW c \in PolChannels, OpenTasks(c)' \subseteq OpenTasks(c), Cardinality(OpenTasks(c)) < PolCap
  PROVE  Cardinality(OpenTasks(c)') + Cardinality(Asking(c)') <= PolCap + Cardinality(PolWriters) - 1
<1>1. PICK O, P, B : O = OpenTasks(c) /\ P = OpenTasks(c)' /\ B = Asking(c)' OBVIOUS
<1>2. /\ IsFiniteSet(O) /\ Cardinality(O) \in Nat /\ Cardinality(P) \in Nat /\ Cardinality(B) \in Nat
      /\ Cardinality(PolWriters) \in Nat /\ PolCap \in Nat /\ Cardinality(B) <= Cardinality(PolWriters)
  BY <1>1, Counted, NextCounted
<1>3. Cardinality(P) <= Cardinality(O) BY <1>1, <1>2, FS_Subset
<1>4. Cardinality(P) + Cardinality(B) <= PolCap + Cardinality(PolWriters) - 1 BY <1>1, <1>2, <1>3
<1> QED BY <1>1, <1>4

(* A task that is sent takes the place of its request.                      *)
LEMMA SlackSent ==
  ASSUME PolTyped, Slack, NEW w \in PolWriters, NEW c \in PolChannels, w \in Asking(c), NEW t \in PolTasks,
         OpenTasks(c)' \subseteq OpenTasks(c) \cup {t}, Asking(c)' \subseteq Asking(c) \ {w}
  PROVE  Cardinality(OpenTasks(c)') + Cardinality(Asking(c)') <= PolCap + Cardinality(PolWriters) - 1
<1>1. PICK O, A, P, B : O = OpenTasks(c) /\ A = Asking(c) /\ P = OpenTasks(c)' /\ B = Asking(c)' OBVIOUS
<1>2. /\ IsFiniteSet(O) /\ IsFiniteSet(A) /\ Cardinality(O) \in Nat /\ Cardinality(A) \in Nat
      /\ Cardinality(P) \in Nat /\ Cardinality(B) \in Nat /\ Cardinality(PolWriters) \in Nat /\ PolCap \in Nat
  BY <1>1, Counted, NextCounted
<1>3. IsFiniteSet(O \cup {t}) /\ Cardinality(O \cup {t}) <= Cardinality(O) + 1
  <2>1. /\ IsFiniteSet(O \cup {t}) /\ Cardinality(O \cup {t}) = IF t \in O THEN Cardinality(O) ELSE Cardinality(O) + 1
    BY <1>2, FS_AddElement
  <2> QED BY <1>2, <2>1
<1>4. IsFiniteSet(A \ {w}) /\ Cardinality(A \ {w}) = Cardinality(A) - 1 BY <1>1, <1>2, FS_RemoveElement
<1>5. P \subseteq O \cup {t} /\ B \subseteq A \ {w} BY <1>1
<1>6. Cardinality(P) <= Cardinality(O \cup {t}) BY <1>3, <1>5, FS_Subset
<1>7. Cardinality(B) <= Cardinality(A \ {w}) BY <1>4, <1>5, FS_Subset
<1>8. Cardinality(O) + Cardinality(A) <= PolCap + Cardinality(PolWriters) - 1 BY <1>1 DEF Slack
<1>9. Cardinality(O \cup {t}) \in Nat BY <1>3, FS_CardinalityType
<1>10. Cardinality(P) + Cardinality(B) <= PolCap + Cardinality(PolWriters) - 1
  <2>1. PICK o, a, ot, p, b, wr : o = Cardinality(O) /\ a = Cardinality(A) /\ ot = Cardinality(O \cup {t})
                              /\ p = Cardinality(P) /\ b = Cardinality(B) /\ wr = Cardinality(PolWriters)
    OBVIOUS
  <2>2. /\ o \in Nat /\ a \in Nat /\ ot \in Nat /\ p \in Nat /\ b \in Nat /\ wr \in Nat /\ PolCap \in Nat
        /\ ot <= o + 1 /\ p <= ot /\ b <= a - 1 /\ o + a <= PolCap + wr - 1
    BY <1>2, <1>3, <1>4, <1>6, <1>7, <1>8, <1>9, <2>1
  <2>3. p + b <= PolCap + wr - 1 BY <2>2
  <2> QED BY <2>1, <2>3
<1> QED BY <1>1, <1>10

(* Every step keeps the quota, with the requests under way.                 *)
LEMMA SlackStep ==
  ASSUME PolTyped, RowsNamed, PendingOK, Tickets, Slack, PolNext
  PROVE  Slack'
<1>0. PolIdle.op = "idle" BY DEF PolIdle
<1> SUFFICES ASSUME NEW c \in PolChannels
             PROVE  Cardinality(OpenTasks(c)') + Cardinality(Asking(c)') <= PolCap + Cardinality(PolWriters) - 1
  BY DEF Slack
<1> DEFINE Goal == Cardinality(OpenTasks(c)') + Cardinality(Asking(c)') <= PolCap + Cardinality(PolWriters) - 1
<1>1. ASSUME UNCHANGED polTask PROVE OpenTasks(c)' \subseteq OpenTasks(c) BY <1>1 DEF OpenTasks
<1>2. ASSUME NEW w \in PolWriters, NEW r, polReq' = [polReq EXCEPT ![w] = r], r.op = "ask" => r.q.c # c
      PROVE  Asking(c)' \subseteq Asking(c) \ {w}
  BY <1>2 DEF Asking, PolTyped
<1>3. ASSUME UNCHANGED polReq PROVE Asking(c)' \subseteq Asking(c) BY <1>3 DEF Asking
<1>4. ASSUME UNCHANGED <<polTask, polReq>> PROVE Goal
  <2>1. OpenTasks(c)' \subseteq OpenTasks(c) /\ Asking(c)' \subseteq Asking(c) BY <1>1, <1>3, <1>4
  <2> QED BY <2>1, SlackKept
<1>5. ASSUME UNCHANGED polTask, NEW w \in PolWriters, NEW r, polReq' = [polReq EXCEPT ![w] = r],
             r.op = "ask" /\ r.q.c = c => Cardinality(OpenTasks(c)) < PolCap
      PROVE  Goal
  <2>1. OpenTasks(c)' \subseteq OpenTasks(c) BY <1>1, <1>5
  <2>2. CASE r.op = "ask" /\ r.q.c = c
    <3>1. Cardinality(OpenTasks(c)) < PolCap BY <1>5, <2>2
    <3> QED BY <2>1, <3>1, SlackLet
  <2>3. CASE ~(r.op = "ask" /\ r.q.c = c)
    <3>1. r.op = "ask" => r.q.c # c BY <2>3
    <3>2. Asking(c)' \subseteq Asking(c) \ {w} BY <1>2, <1>5, <3>1
    <3>3. Asking(c)' \subseteq Asking(c) BY <3>2
    <3> QED BY <2>1, <3>3, SlackKept
  <2> QED BY <2>2, <2>3
<1>6. ASSUME NEW w \in PolWriters, PolEdits(w) PROVE Goal
  <2>1. UNCHANGED polTask /\ \E q \in Saves : polReq' = [polReq EXCEPT ![w] = q] BY <1>6, EditPends
  <2>2. PICK q \in Saves : polReq' = [polReq EXCEPT ![w] = q] BY <2>1
  <2>3. q.op # "ask" BY DEF Saves
  <2> QED BY <1>5, <2>1, <2>2, <2>3
<1>7. ASSUME NEW w \in PolWriters, PolSave(w) PROVE Goal
  <2>1. UNCHANGED polTask /\ polReq' = [polReq EXCEPT ![w] = PolIdle] BY <1>7 DEF PolSave
  <2> QED BY <1>0, <1>5, <2>1
<1>8. ASSUME NEW w \in PolWriters, NEW u \in PolUsers, NEW k \in PolConfs, PolClick(w, u, k) PROVE Goal
  <2>1. UNCHANGED polTask /\ \E r \in Applies : r.op = "apply" /\ polReq' = [polReq EXCEPT ![w] = r] BY <1>8, ClickIs
  <2>2. PICK r \in Applies : r.op = "apply" /\ polReq' = [polReq EXCEPT ![w] = r] BY <2>1
  <2> QED BY <1>5, <2>1, <2>2
<1>9. ASSUME NEW w \in PolWriters, NEW u \in PolUsers, NEW b \in PolChannels, NEW p \in PolAgents, PolDelegate(w, u, b, p)
      PROVE  Goal
  <2>1. /\ UNCHANGED polTask /\ Cardinality(OpenTasks(b)) < PolCap
        /\ \/ UNCHANGED polReq
           \/ \E r \in Asks : r.q.c = b /\ r.op = "ask" /\ polReq' = [polReq EXCEPT ![w] = r]
    BY <1>9, DelegateIs
  <2>2. CASE UNCHANGED polReq BY <1>4, <2>1, <2>2
  <2>3. ASSUME NEW r \in Asks, r.q.c = b, polReq' = [polReq EXCEPT ![w] = r] PROVE Goal BY <1>5, <2>1, <2>3
  <2> QED BY <2>1, <2>2, <2>3
<1>10. ASSUME NEW w \in PolWriters, PolTake(w) PROVE Goal
  <2>1. PICK k \in PolConfs :
          /\ UNCHANGED polTask
          /\ \/ polReq' = [polReq EXCEPT ![w] = PolIdle]
             \/ /\ Cardinality(OpenTasks(polConf[k].c)) < PolCap
                /\ \E r \in Asks : r.op = "ask" /\ r.q = polConf[k] /\ polReq' = [polReq EXCEPT ![w] = r]
    BY <1>10, TakeIs
  <2>2. PICK r : polReq' = [polReq EXCEPT ![w] = r] /\ (r.op = "ask" => Cardinality(OpenTasks(r.q.c)) < PolCap)
    BY <1>0, <2>1
  <2> QED BY <1>5, <2>1, <2>2
<1>11. ASSUME NEW w \in PolWriters, PolSend(w) PROVE Goal
  <2>1. polReq[w].op = "ask" /\ polReq' = [polReq EXCEPT ![w] = PolIdle] BY <1>11 DEF PolSend
  <2>2. PICK t \in PolTasks, e \in PolEnvelopes :
          polTask[t] = PolNone /\ e.c = polReq[w].q.c /\ polTask' = [polTask EXCEPT ![t] = e]
    BY <1>11, SendIs
  <2>3. \A x \in PolTasks : polTask'[x] = IF x = t THEN e ELSE polTask[x] BY <2>2 DEF PolTyped
  <2>4. Asking(c)' \subseteq Asking(c) \ {w} BY <1>0, <1>2, <2>1
  <2>5. CASE e.c = c
    <3>1. w \in Asking(c) BY <2>1, <2>2, <2>5 DEF Asking
    <3>2. OpenTasks(c)' \subseteq OpenTasks(c) \cup {t} BY <2>3 DEF OpenTasks
    <3> QED BY <2>4, <3>1, <3>2, SlackSent
  <2>6. CASE e.c # c
    <3>1. OpenTasks(c)' \subseteq OpenTasks(c) BY <2>3, <2>6 DEF OpenTasks
    <3>2. Asking(c)' \subseteq Asking(c) BY <2>4
    <3> QED BY <3>1, <3>2, SlackKept
  <2> QED BY <2>5, <2>6
<1>12. ASSUME NEW t \in PolTasks, PolMoves(t) PROVE Goal
  <2>1. /\ UNCHANGED polReq /\ polTask[t] \in PolEnvelopes /\ polTask[t].st # "ended"
        /\ \E e \in PolEnvelopes : e.c = polTask[t].c /\ polTask' = [polTask EXCEPT ![t] = e]
    BY <1>12, MoveIs
  <2>2. PICK e \in PolEnvelopes : e.c = polTask[t].c /\ polTask' = [polTask EXCEPT ![t] = e] BY <2>1
  <2>3. \A x \in PolTasks : polTask'[x] = IF x = t THEN e ELSE polTask[x] BY <2>2 DEF PolTyped
  <2>4. polTask[t] # PolNone BY <2>1, PolNoneAssumption
  <2>5. OpenTasks(c)' \subseteq OpenTasks(c) BY <2>1, <2>2, <2>3, <2>4 DEF OpenTasks
  <2> QED BY <1>3, <2>1, <2>5, SlackKept
<1>13. ASSUME (\E b \in PolChannels, n \in PolNames : PolRename(b, n)) \/ \E k \in PolConfs : PolDismiss(k) PROVE Goal
  BY <1>4, <1>13 DEF PolRename, PolDismiss
<1> QED BY <1>6, <1>7, <1>8, <1>9, <1>10, <1>11, <1>12, <1>13, PolSteps

-----------------------------------------------------------------------------
(* The policies begin in order.                                             *)
LEMMA PolInitInv == PolInit => PolInv
<1> SUFFICES ASSUME PolInit PROVE PolInv OBVIOUS
<1>0. PolIdle.op = "idle" BY DEF PolIdle
<1>1. polName \in [PolChannels -> PolNames] BY PolAssumption DEF PolInit
<1>2. ASSUME NEW c \in PolChannels
      PROVE  Named(c, PolEnabled(c, PolDefault(c))) /\ PolEnabled(c, PolDefault(c)).accept = {}
  <2>1. PICK id : id = <<c, polName[c]>> OBVIOUS
  <2>2. id \in PolRuntimes /\ id \in {c} \X PolNames BY <1>1, <2>1 DEF PolRuntimes
  <2>3. PICK off : off = [on |-> FALSE, rid |-> id, accept |-> {}, mode |-> "delegator"] OBVIOUS
  <2>4. off \in PolRows /\ off.accept = {} BY <2>2, <2>3 DEF PolRows, PolModes
  <2>5. PICK row : row = [off EXCEPT !.on = TRUE, !.rid = id] OBVIOUS
  <2>6. row \in PolRows /\ row.rid = id /\ row.accept = {} BY <2>2, <2>4, <2>5 DEF PolRows
  <2>7. PolDefault(c) = off BY <2>1, <2>3 DEF PolDefault
  <2>8. PolEnabled(c, off) = row BY <2>1, <2>5 DEF PolEnabled
  <2> QED BY <2>2, <2>6, <2>7, <2>8 DEF Named
<1>3. \A c \in PolChannels : polRow[c] = PolNone \/ (Named(c, polRow[c]) /\ polRow[c].accept = {})
  BY <1>2 DEF PolInit
<1>4. polRow \in [PolChannels -> PolRows \cup {PolNone}] /\ RowsNamed BY <1>3 DEF PolInit, RowsNamed, Named
<1>5. polReq \in [PolWriters -> Requests] BY DEF PolInit, Requests
<1>6. PolTyped BY <1>1, <1>4, <1>5 DEF PolTyped, PolInit
<1>7. \A w \in PolWriters : polReq[w].op = "idle" BY <1>0 DEF PolInit
<1>8. PendingOK BY <1>7 DEF PendingOK
<1>9. \A c \in PolChannels : AcceptOf(polRow[c]) = {} BY <1>3 DEF AcceptOf
<1>10. Current BY <1>9 DEF Current
<1>11. \A c \in PolChannels : PolRead(c).accept = {} BY <1>4, <1>6, <1>9, PresentId
<1>12. Follows BY <1>11 DEF Follows, PolInit
<1>13. Tickets
  <2>1. \A k \in PolConfs : polConf[k] = PolNone /\ polShown[k] = {} BY DEF PolInit
  <2>2. \A k \in PolConfs, w \in PolWriters : ~Holds(w, k) BY <1>7 DEF Holds
  <2> QED BY <1>7, <2>1, <2>2 DEF Tickets
<1>14. Slack
  <2> SUFFICES ASSUME NEW c \in PolChannels
               PROVE  Cardinality(OpenTasks(c)) + Cardinality(Asking(c)) <= PolCap + Cardinality(PolWriters) - 1
    BY DEF Slack
  <2>1. PICK none : none = {} OBVIOUS
  <2>2. OpenTasks(c) = none BY <2>1 DEF OpenTasks, PolInit
  <2>3. Asking(c) = none BY <1>7, <2>1 DEF Asking
  <2>4. Cardinality(none) = 0 BY <2>1, FS_EmptySet
  <2>5. Cardinality(PolWriters) \in Nat /\ PolCap \in Nat \ {0} BY Counted
  <2> QED BY <2>2, <2>3, <2>4, <2>5
<1> QED BY <1>4, <1>6, <1>8, <1>10, <1>12, <1>13, <1>14 DEF PolInv, Grants

(* The policies stay in order.                                              *)
LEMMA PolInvStep == PolInv /\ [PolNext]_polVars => PolInv'
<1> SUFFICES ASSUME PolInv, [PolNext]_polVars PROVE PolInv' OBVIOUS
<1>1. CASE PolNext
  <2>1. PolTyped /\ RowsNamed /\ Grants /\ PendingOK /\ Tickets /\ Slack BY DEF PolInv, Grants
  <2>2. PolTyped' /\ RowsNamed' BY <1>1, <2>1, PolTypedStep
  <2>3. Grants' BY <1>1, <2>1, GrantsStep
  <2>4. Tickets' BY <1>1, <2>1, TicketsStep
  <2>5. Slack' BY <1>1, <2>1, SlackStep
  <2> QED BY <2>2, <2>3, <2>4, <2>5 DEF PolInv
<1>2. CASE UNCHANGED polVars
  <2>1. UNCHANGED <<polName, polRow, polReq, polConf, polTask, polShown, polGrant, polOdd>> BY <1>2 DEF polVars
  <2>2. PolTyped' /\ RowsNamed' BY <2>1 DEF PolInv, PolTyped, RowsNamed
  <2>3. PendingOK'
    <3>1. \A w \in PolWriters : polReq'[w].op = "save" => Pending(polReq'[w]) BY <2>1 DEF PolInv, Grants, PendingOK
    <3> QED BY <2>1, <3>1 DEF PendingOK, Pending
  <2>4. \A c \in PolChannels : PolRead(c)' = PolRead(c) /\ PolCurrent(c)' = PolCurrent(c)
    BY <2>1 DEF PolRead, PolDefault, PolCurrent
  <2>5. ~polOdd => Current' /\ Follows' BY <2>1, <2>4 DEF PolInv, Grants, Current, Follows
  <2>6. Tickets' BY <2>1 DEF PolInv, Tickets, Holds, PolShows
  <2>7. Slack' BY <2>1 DEF PolInv, Slack, OpenTasks, Asking
  <2> QED BY <2>1, <2>2, <2>3, <2>5, <2>6, <2>7 DEF PolInv, Grants
<1> QED BY <1>1, <1>2

(* What the invariant says of the policies.                                 *)
LEMMA PolInvGives == PolInv => PolTypeOK /\ PolGrantsFollow /\ PolConfirmedOnce /\ PolQuotaSlack
<1> SUFFICES ASSUME PolInv PROVE PolTypeOK /\ PolGrantsFollow /\ PolConfirmedOnce /\ PolQuotaSlack OBVIOUS
<1>0. PolTyped /\ RowsNamed /\ Tickets /\ Slack BY DEF PolInv
<1>1. PolTypeOK
  <2>1. \A c \in PolChannels : polRow[c] # PolNone => /\ polRow[c].rid \in {c} \X PolNames /\ polRow[c].on \in BOOLEAN
                                                      /\ polRow[c].accept \subseteq PolAgents
                                                      /\ polRow[c].mode \in {"delegator", "mirror", "co_present"}
    BY <1>0 DEF RowsNamed, Named, PolRows, PolModes
  <2>2. \A w \in PolWriters : polReq[w].op \in {"idle", "save", "ask", "apply"} BY <1>0, RequestKinds
  <2>3. \A t \in PolTasks : polTask[t] # PolNone => polTask[t].st \in {"sent", "running", "ended"}
    BY <1>0 DEF PolTyped, PolEnvelopes
  <2> QED BY <1>0, <2>1, <2>2, <2>3 DEF PolTypeOK, PolTyped
<1>2. PolGrantsFollow BY DEF PolGrantsFollow, PolInv, Grants, Follows
<1>3. PolConfirmedOnce
  <2> SUFFICES ASSUME NEW k \in PolConfs PROVE Cardinality(polShown[k]) <= 1 BY DEF PolConfirmedOnce
  <2>1. CASE polShown[k] = {} BY <2>1, FS_EmptySet
  <2>2. ASSUME NEW t \in PolTasks, polShown[k] = {t} PROVE Cardinality(polShown[k]) <= 1
    <3>1. Cardinality({t}) = 1 BY FS_Singleton
    <3> QED BY <2>2, <3>1
  <2> QED BY <1>0, <2>1, <2>2 DEF Tickets
<1>4. PolQuotaSlack
  <2> SUFFICES ASSUME NEW c \in PolChannels PROVE PolOpen(c) <= PolCap + Cardinality(PolWriters) - 1 BY DEF PolQuotaSlack
  <2>1. PolOpen(c) = Cardinality(OpenTasks(c)) BY DEF PolOpen, OpenTasks
  <2>2. Cardinality(OpenTasks(c)) + Cardinality(Asking(c)) <= PolCap + Cardinality(PolWriters) - 1 BY <1>0 DEF Slack
  <2>3. /\ Cardinality(OpenTasks(c)) \in Nat /\ Cardinality(Asking(c)) \in Nat /\ Cardinality(PolWriters) \in Nat
        /\ PolCap \in Nat
    BY Counted
  <2> QED BY <2>1, <2>2, <2>3
<1> QED BY <1>1, <1>2, <1>3, <1>4

-----------------------------------------------------------------------------
(* The inductive invariant of the policies: rows and requests have their    *)
(* types and names, a pending change holds the row it read, rows accept     *)
(* peers by their present ids, a confirmation is in one place, and the      *)
(* requests that were let through count against the quota.                  *)
THEOREM PolInvariant == PolSpec => []PolInv
<1>1. PolInit => PolInv BY PolInitInv
<1>2. PolInv /\ [PolNext]_polVars => PolInv' BY PolInvStep
<1> QED BY <1>1, <1>2, PTL DEF PolSpec

-----------------------------------------------------------------------------
(* The whole. A behaviour of it is one of each part, if the others wait.    *)
LEMMA CollabParts == CollabSpec => A2ASpec /\ PolSpec
<1>1. CollabInit => A2AInit /\ PolInit BY DEF CollabInit
<1>2. [CollabTask \/ CollabPolicy \/ CollabPeers]_collabVars => [A2ANext]_a2aVars /\ [PolNext]_polVars
  BY DEF CollabTask, CollabPolicy, CollabPeers, collabVars
<1> QED BY <1>1, <1>2, PTL DEF CollabSpec, A2ASpec, PolSpec

(* The quotas at both ends (Quotas): the executor never has more tasks      *)
(* admitted than its cap, and the delegator's quota is passed at most by    *)
(* the requests that were under way together.                               *)
THEOREM CollabQuotas == CollabSpec => []Quotas
<1>1. PolInv => PolQuotaSlack BY PolInvGives
<1>2. A2AQuota /\ PolQuotaSlack => Quotas BY DEF Quotas
<1> QED BY <1>1, <1>2, CollabParts, PolInvariant, A2AQuotaCounts, PTL

(* A grant holds across renames, trust and revocation, and a confirmation   *)
(* sends one task at most (PolGrants).                                      *)
THEOREM CollabGrants == CollabSpec => []PolGrants
<1>1. PolInv => PolGrantsFollow /\ PolConfirmedOnce BY PolInvGives
<1>2. PolGrantsFollow /\ PolConfirmedOnce => PolGrants BY DEF PolGrants
<1> QED BY <1>1, <1>2, CollabParts, PolInvariant, PTL

(* Over the whole: a task runs at most once, its ends are final and alike,  *)
(* and the two bots implement the abstract delegation.                      *)
THEOREM CollabTasksHold == CollabSpec => []A2ARunsOnce /\ A2AEndsFinal /\ A2ARefinesDelegation
BY CollabParts, A2AOnce, A2AFinal, A2AImplements, PTL

-----------------------------------------------------------------------------
(* The peers: only types are proved; that a runtime is found is liveness.   *)

(* A sequence without an agent's entry is a sequence of the same entries.   *)
LEMMA WithoutTyped ==
  ASSUME NEW s \in Seq(PeerEntry), NEW a
  PROVE  PeerWithout(s, a) \in Seq(PeerEntry)
<1>1. PICK old : old = {i \in DOMAIN s : s[i][1] = a} OBVIOUS
<1>2. CASE old = {} BY <1>1, <1>2 DEF PeerWithout
<1>3. CASE old # {}
  <2>1. PICK i : i = CHOOSE j \in old : TRUE OBVIOUS
  <2>2. i \in 1 .. Len(s) BY <1>1, <1>3, <2>1
  <2>3. i - 1 \in Int /\ i + 1 \in Int /\ Len(s) \in Int /\ 1 \in Int BY <2>2
  <2>4. \A j \in 1 .. (i - 1) : s[j] \in PeerEntry BY <2>2
  <2>5. \A j \in (i + 1) .. Len(s) : s[j] \in PeerEntry BY <2>2
  <2>6. SubSeq(s, 1, i - 1) \in Seq(PeerEntry) BY <2>3, <2>4, SubSeqProperties
  <2>7. SubSeq(s, i + 1, Len(s)) \in Seq(PeerEntry) BY <2>3, <2>5, SubSeqProperties
  <2>8. SubSeq(s, 1, i - 1) \o SubSeq(s, i + 1, Len(s)) \in Seq(PeerEntry) BY <2>6, <2>7, ConcatProperties
  <2> QED BY <1>1, <1>3, <2>1, <2>8 DEF PeerWithout, RemoveAt
<1> QED BY <1>2, <1>3

(* A new entry is put in the bucket and handed to the watcher.              *)
LEMMA PutTyped ==
  ASSUME PeerTypeOK, NEW a \in PeerOther, NEW kind \in {"card", "bad"}, PeerPut(a, kind)
  PROVE  peerKV' \in Seq(PeerEntry) /\ peerFeed' \in Seq(PeerEntry) /\ UNCHANGED <<peerOwnVars, peerUp, peerWatch, peerRow>>
<1>1. PICK e \in PeerEntry : e = <<a, kind>> BY DEF PeerEntry
<1>2. PICK kv, feed : kv = PeerWithout(peerKV, a) /\ feed = PeerWithout(peerFeed, a) OBVIOUS
<1>3. kv \in Seq(PeerEntry) /\ feed \in Seq(PeerEntry) BY <1>2, WithoutTyped DEF PeerTypeOK
<1>4. Append(kv, e) \in Seq(PeerEntry) /\ Append(feed, e) \in Seq(PeerEntry) BY <1>3
<1>5. peerKV' = Append(kv, e) /\ (peerFeed' = Append(feed, e) \/ peerFeed' = peerFeed) BY <1>1, <1>2 DEF PeerPut
<1> QED BY <1>4, <1>5 DEF PeerPut, PeerTypeOK

(* Every step of the peers keeps the types.                                 *)
LEMMA PeerTypedStep == PeerTypeOK /\ [PeerNext]_peerVars => PeerTypeOK'
<1> SUFFICES ASSUME PeerTypeOK, [PeerNext]_peerVars PROVE PeerTypeOK' OBVIOUS
<1> USE DEF peerOwnVars, peerOtherVars
<1>0. PICK none \in Seq(PeerEntry) : none = <<>> BY EmptySeq
<1>1. ASSUME NEW o \in PeerOwn, PeerEnabled(o) PROVE PeerTypeOK' BY <1>1 DEF PeerEnabled, PeerTypeOK
<1>2. ASSUME NEW x \in PeerCallers, NEW o \in PeerOwn, PeerPass(x, o) PROVE PeerTypeOK'
  <2>1. CASE PeerAddAgent(x, o) BY <2>1 DEF PeerAddAgent, PeerTypeOK
  <2>2. CASE PeerPublish(x)
    <3>1. PeerRecords \subseteq PeerOwn BY DEF PeerRecords, PeerTypeOK
    <3> QED BY <2>2, <3>1 DEF PeerPublish, PeerTypeOK
  <2>3. CASE PeerOpened(x) BY <2>3 DEF PeerOpened, PeerTypeOK
  <2>4. CASE PeerNotOpened(x) BY <2>4 DEF PeerNotOpened, PeerTypeOK
  <2> QED BY <1>2, <2>1, <2>2, <2>3, <2>4 DEF PeerPass
<1>3. ASSUME NEW a \in PeerOther, PeerBucket(a) PROVE PeerTypeOK'
  <2>1. CASE PeerPresence(a) BY <2>1, PutTyped DEF PeerPresence, PeerTypeOK
  <2>2. CASE PeerUnreadable(a) BY <2>2, PutTyped DEF PeerUnreadable, PeerTypeOK
  <2>3. CASE PeerGone(a) BY <2>3 DEF PeerGone, PeerTypeOK
  <2>4. CASE PeerExpires(a)
    <3>1. peerKV' = PeerWithout(peerKV, a) BY <2>4 DEF PeerExpires
    <3>2. peerKV' \in Seq(PeerEntry) BY <3>1, WithoutTyped DEF PeerTypeOK
    <3> QED BY <2>4, <3>2 DEF PeerExpires, PeerTypeOK
  <2>5. CASE PeerStale(a) BY <2>5 DEF PeerStale, PeerTypeOK
  <2> QED BY <1>3, <2>1, <2>2, <2>3, <2>4, <2>5 DEF PeerBucket
<1>4. CASE PeerRestart
  <2>1. peerAccepts' \in {peerOn, {}} /\ peerServed' = peerAccepts' /\ peerFeed' = none BY <1>0, <1>4 DEF PeerRestart
  <2>2. peerAdding' = [x \in PeerCallers |-> PeerNone] /\ peerWatch' = FALSE /\ UNCHANGED <<peerOn, peerCards, peerUp, peerKV, peerRow>>
    BY <1>4 DEF PeerRestart
  <2>3. peerAccepts' \subseteq PeerOwn /\ peerServed' \subseteq PeerOwn BY <2>1 DEF PeerTypeOK
  <2> QED BY <2>1, <2>2, <2>3 DEF PeerTypeOK
<1>5. CASE PeerWatchStarts BY <1>5 DEF PeerWatchStarts, PeerTypeOK
<1>6. CASE PeerWatch
  <2>1. Head(peerFeed) \in PeerEntry /\ Tail(peerFeed) \in Seq(PeerEntry) BY <1>6 DEF PeerWatch, PeerTypeOK
  <2>2. Head(peerFeed)[1] \in PeerOther BY <2>1 DEF PeerEntry
  <2>3. PeerUpsert(Head(peerFeed)[1]) \in [PeerOther -> {"unknown", "online", "stale"}] BY <2>2 DEF PeerUpsert, PeerTypeOK
  <2>4. UNCHANGED <<peerOwnVars, peerUp, peerKV>> BY <1>6 DEF PeerWatch
  <2>5. \/ peerRow' = PeerUpsert(Head(peerFeed)[1]) /\ peerFeed' = Tail(peerFeed) /\ UNCHANGED peerWatch
        \/ peerWatch' = FALSE /\ peerFeed' = none /\ UNCHANGED peerRow
    BY <1>0, <1>6 DEF PeerWatch
  <2>6. /\ peerRow' \in [PeerOther -> {"unknown", "online", "stale"}] /\ peerFeed' \in Seq(PeerEntry) /\ peerWatch' \in BOOLEAN
    BY <2>1, <2>3, <2>5 DEF PeerTypeOK
  <2> QED BY <2>4, <2>6 DEF PeerTypeOK
<1>7. CASE UNCHANGED peerVars BY <1>7 DEF peerVars, PeerTypeOK
<1> QED BY <1>1, <1>2, <1>3, <1>4, <1>5, <1>6, <1>7 DEF PeerNext

(* The types of the whole (CollabTypeOK): tasks, policies and peers.        *)
THEOREM CollabTypes == CollabSpec => []CollabTypeOK
<1>1. PeerInit => PeerTypeOK
  <2>1. PICK none \in Seq(PeerEntry) : none = <<>> BY EmptySeq
  <2>2. PeerInit => peerKV = none /\ peerFeed = none BY <2>1 DEF PeerInit
  <2> QED BY <2>2 DEF PeerInit, PeerTypeOK
<1>2. PolInv => PolTypeOK BY PolInvGives
<1>3. CollabInit => PeerTypeOK BY <1>1 DEF CollabInit
<1>4. [CollabTask \/ CollabPolicy \/ CollabPeers]_collabVars => [PeerNext]_peerVars
  BY DEF CollabTask, CollabPolicy, CollabPeers, collabVars
<1>5. PeerTypeOK /\ [PeerNext]_peerVars => PeerTypeOK' BY PeerTypedStep
<1>6. A2ATypeOK /\ PolTypeOK /\ PeerTypeOK => CollabTypeOK BY DEF CollabTypeOK
<1> QED BY <1>2, <1>3, <1>4, <1>5, <1>6, CollabParts, PolInvariant, A2ATypes, PTL DEF CollabSpec
=============================================================================
