----------------------------- MODULE FleetProofs -----------------------------
(* Proofs about Fleet: whatever starts, refusals, reclaims, stops, crashes  *)
(* and exit callbacks do, a live agent stays reachable from its target or   *)
(* was lost to an exit callback, and no reclaim drops accepted work.        *)
EXTENDS Fleet, TLAPS, FiniteSetTheorems

(* An entry holds a runtime that was made for its target.                   *)
Owned == \A t \in Targets : entry[t] # Null => home[entry[t]] = t

(* A runtime that ever ran has a target, and only a dead one owes its exit. *)
Homed ==
  \A a \in Agents : /\ proc[a] # "unused" => home[a] \in Targets
                    /\ exit[a] = "pending" => proc[a] = "dead"

(* Members of the types, by name.                                           *)
Reasons == {"reclaim", "dead", "user", "resume", "archive", "exit", "idle", "health"}
Loads   == 0..MaxWork
Stores  == {"none", "bound", "session"}
Sweeps  == [task : {"none", "health", "idle"}, listed : SUBSET Targets, doomed : Targets \cup {Null}]

IInv == TypeOK /\ Owned /\ Homed /\ Tracked

-----------------------------------------------------------------------------
(* What the helpers of the model return.                                    *)

(* The runtimes of some targets are agents.                                 *)
LEMMA EntryOfType ==
  ASSUME TypeOK, NEW T \in SUBSET Targets
  PROVE  EntryOf(T) \in SUBSET Agents
BY DEF TypeOK, EntryOf

(* The ones that may be reclaimed have no work.                             *)
LEMMA IdleHasNoWork ==
  ASSUME TypeOK, NEW t \in Targets, NEW T \in SUBSET Targets, NEW a \in Idle(t, T)
  PROVE  ~HasWork(a)
BY DEF TypeOK, Idle, EntryOf, Busy

(* Killing, emptying and removing agents keeps the types.                   *)
LEMMA RestType ==
  ASSUME TypeOK, NEW S \in SUBSET Agents
  PROVE  /\ Killed(S) \in [Agents -> {"unused", "up", "dead"}]
         /\ Emptied(S) \in [Agents -> Loads]
         /\ Removed(S) \in [Targets -> Agents \cup {Null}]
<1>1. Killed(S) \in [Agents -> {"unused", "up", "dead"}] BY DEF TypeOK, Killed
<1>2. 0 \in Loads BY BoundsAssumption DEF Loads
<1>3. Emptied(S) \in [Agents -> Loads] BY <1>2 DEF TypeOK, Emptied, Loads
<1>4. Removed(S) \in [Targets -> Agents \cup {Null}] BY DEF TypeOK, Removed
<1> QED BY <1>1, <1>3, <1>4

(* Stopping agents turns pending only the exits of those that lived.        *)
LEMMA StoppingExits ==
  ASSUME IInv, NEW D, NEW S, NEW why, Stopping(D, S, why)
  PROVE  /\ exit' \in [Agents -> {"none", "pending"}] /\ closeWhenIdle' \subseteq Agents
         /\ \A a \in Agents : exit'[a] = "pending" =>
              \/ exit[a] = "pending"
              \/ a \in D \cup S /\ proc[a] = "up"
<1>1. exit' \in [Agents -> {"none", "pending"}] /\ closeWhenIdle' \subseteq Agents
  BY DEF Stopping, IInv, TypeOK
<1>2. ASSUME NEW a \in Agents, exit'[a] = "pending", exit[a] # "pending"
      PROVE  a \in D \cup S /\ proc[a] = "up"
  <2>1. exit'[a] \in IF a \in D \cup S THEN ExitsAfterStop(a) ELSE {exit[a]} BY DEF Stopping
  <2>2. a \in D \cup S BY <1>2, <2>1
  <2>3. exit'[a] \in ExitsAfterStop(a) BY <2>1, <2>2
  <2> QED BY <1>2, <2>2, <2>3 DEF ExitsAfterStop
<1> QED BY <1>1, <1>2

(* The reasons noted are reasons.                                           *)
LEMMA StoppingLost ==
  ASSUME NEW D, NEW S, NEW why \in Reasons, Stopping(D, S, why)
  PROVE  lost' \subseteq Reasons
BY DEF Stopping, Reasons

-----------------------------------------------------------------------------
(* Stopping runtimes preserves the invariant, whichever they are.           *)
LEMMA StopInv ==
  ASSUME IInv, NEW D \in SUBSET EntryOf(Targets), NEW S \in SUBSET EntryOf(Targets),
         NEW why \in Reasons,
         Stop(D, S, why), saved' \in [Targets -> Stores],
         sweep' \in Sweeps
  PROVE  IInv'
<1>1. Stopping(D, S, why) /\ UNCHANGED <<home, orphans>> BY DEF Stop
<1>2. /\ proc' = Killed(D \cup S) /\ work' = Emptied(D \cup S)
      /\ entry' = Removed(D \cup S)
  BY DEF Stop
<1>3. TypeOK'
  <2>1. D \cup S \in SUBSET Agents BY EntryOfType DEF IInv
  <2>2. /\ entry' \in [Targets -> Agents \cup {Null}] /\ work' \in [Agents -> Loads]
        /\ proc' \in [Agents -> {"unused", "up", "dead"}]
    BY <1>2, <2>1, RestType DEF IInv
  <2>3. exit' \in [Agents -> {"none", "pending"}] /\ closeWhenIdle' \subseteq Agents
    BY <1>1, StoppingExits
  <2> QED BY <1>1, <2>2, <2>3, StoppingLost DEF IInv, TypeOK, Reasons, Stores, Sweeps, Loads
<1>4. Owned' BY <1>1, <1>2 DEF IInv, Owned, Removed, TypeOK
<1>5. Homed'
  <2> SUFFICES ASSUME NEW a \in Agents
               PROVE  /\ proc'[a] # "unused" => home'[a] \in Targets
                      /\ exit'[a] = "pending" => proc'[a] = "dead"
    BY DEF Homed
  <2>1. a \in D \cup S => home[a] \in Targets BY DEF EntryOf, IInv, Owned
  <2>2. exit'[a] = "pending" => exit[a] = "pending" \/ a \in D \cup S BY <1>1, StoppingExits
  <2> QED BY <1>1, <1>2, <2>1, <2>2 DEF IInv, Homed, Killed, TypeOK
<1>6. Tracked' BY <1>1, <1>2 DEF IInv, Tracked, Homed, Killed, Removed, TypeOK
<1> QED BY <1>3, <1>4, <1>5, <1>6 DEF IInv

(* So does a start, when the runtime the target has is among those stopped. *)
LEMMA SpawnInv ==
  ASSUME IInv, NEW t \in Targets, NEW b \in Agents, NEW n \in Loads,
         NEW D \in SUBSET EntryOf(Targets), NEW S \in SUBSET EntryOf(Targets),
         NEW why \in Reasons, entry[t] \in D \cup {Null}, Spawn(t, b, n, D, S, why),
         sweep' \in Sweeps
  PROVE  IInv'
<1>1. Stopping(D, S, why) BY DEF Spawn
<1>2. PICK p \in {"up", "dead"} : proc' = [Killed(D \cup S) EXCEPT ![b] = p] BY DEF Spawn
<1>3. /\ work' = [Emptied(D \cup S) EXCEPT ![b] = n]
      /\ entry' = [Removed(D \cup S) EXCEPT ![t] = b]
      /\ home' = [home EXCEPT ![b] = t] /\ orphans' = orphans \ {b}
      /\ saved' = [saved EXCEPT ![t] = "session"]
  BY DEF Spawn
<1>4. proc[b] # "up" /\ exit[b] = "none" /\ \A u \in Targets : entry[u] # b
  BY TargetsAssumption, AgentsAssumption DEF Spawn, Fresh, EntryOf
<1>5. exit'[b] = "none"
  <2>1. exit'[b] \in {"none", "pending"} BY <1>1, StoppingExits
  <2>2. exit'[b] = "pending" => exit[b] = "pending" \/ proc[b] = "up" BY <1>1, StoppingExits
  <2> QED BY <1>4, <2>1, <2>2
<1>6. TypeOK'
  <2>1. D \cup S \in SUBSET Agents BY EntryOfType DEF IInv
  <2>2. /\ entry' \in [Targets -> Agents \cup {Null}] /\ work' \in [Agents -> Loads]
        /\ proc' \in [Agents -> {"unused", "up", "dead"}]
    BY <1>2, <1>3, <2>1, RestType DEF IInv
  <2>3. home' \in [Agents -> Targets \cup {Null}] /\ orphans' \subseteq Agents
        /\ saved' \in [Targets -> Stores]
    BY <1>3 DEF IInv, TypeOK, Stores
  <2>4. exit' \in [Agents -> {"none", "pending"}] /\ closeWhenIdle' \subseteq Agents
    BY <1>1, StoppingExits
  <2> QED BY <1>1, <2>2, <2>3, <2>4, StoppingLost DEF IInv, TypeOK, Reasons, Stores, Sweeps, Loads
<1>7. Owned'
  <2> SUFFICES ASSUME NEW u \in Targets, entry'[u] # Null PROVE home'[entry'[u]] = u
    BY DEF Owned
  <2>1. CASE u = t BY <2>1, <1>3 DEF IInv, TypeOK, Removed
  <2>2. CASE u # t
    <3>1. entry'[u] = entry[u] /\ entry[u] \in Agents \ {b}
      BY <2>2, <1>3, <1>4 DEF Removed, IInv, TypeOK
    <3> QED BY <3>1, <1>3 DEF IInv, Owned, TypeOK
  <2> QED BY <2>1, <2>2
<1>8. Homed'
  <2> SUFFICES ASSUME NEW a \in Agents
               PROVE  /\ proc'[a] # "unused" => home'[a] \in Targets
                      /\ exit'[a] = "pending" => proc'[a] = "dead"
    BY DEF Homed
  <2>1. a \in D \cup S => home[a] \in Targets BY DEF EntryOf, IInv, Owned
  <2>2. exit'[a] = "pending" => exit[a] = "pending" \/ a \in D \cup S BY <1>1, StoppingExits
  <2> QED BY <1>2, <1>3, <1>5, <2>1, <2>2 DEF IInv, Homed, Killed, TypeOK
<1>9. Tracked'
  <2> SUFFICES ASSUME NEW a \in Agents, proc'[a] = "up"
               PROVE  entry'[home'[a]] = a \/ a \in orphans'
    BY DEF Tracked
  <2>1. CASE a = b BY <2>1, <1>3 DEF IInv, TypeOK, Removed
  <2>2. CASE a # b
    <3>1. proc[a] = "up" /\ a \notin D \cup S /\ home'[a] = home[a] /\ home[a] \in Targets
      BY <2>2, <1>2, <1>3 DEF Killed, IInv, Homed, TypeOK
    <3>2. entry[home[a]] = a => home[a] # t BY <3>1, TargetsAssumption, AgentsAssumption
    <3> QED BY <2>2, <3>1, <3>2, <1>3 DEF IInv, Tracked, Removed, TypeOK
  <2> QED BY <2>1, <2>2
<1> QED BY <1>6, <1>7, <1>8, <1>9 DEF IInv

(* The victims of a slot or of host pressure are entries without work.      *)
LEMMA Victims ==
  ASSUME TypeOK, NEW t \in Targets, NEW D \in SUBSET EntryOf(Targets)
  PROVE  /\ \A S \in SlotVictims(t, D) \cup PressureVictims(t, D) \cup {Idle(t, Threads) \ D} :
              S \subseteq EntryOf(Targets) /\ \A a \in S : ~HasWork(a)
<1>1. \A T \in SUBSET Targets : Idle(t, T) \subseteq EntryOf(Targets) BY DEF Idle, EntryOf
<1>2. Threads \in SUBSET Targets /\ Targets \in SUBSET Targets BY DEF Targets
<1>3. \A a \in Idle(t, Threads) \cup Idle(t, Targets) : ~HasWork(a) BY <1>2, IdleHasNoWork
<1> QED BY <1>1, <1>2, <1>3 DEF SlotVictims, PressureVictims

(* Starting, whatever the victims: spawned or refused.                      *)
LEMMA StartWithInv ==
  ASSUME IInv, NEW t \in Targets, NEW n \in Loads, NEW D \in SUBSET EntryOf(Targets),
         NEW slots, \A S \in slots : S \subseteq EntryOf(Targets), NEW why \in Reasons,
         NEW kept \in Stores,
         entry[t] \in D \cup {Null}, StartWith(t, n, D, slots, why, kept),
         sweep' \in Sweeps
  PROVE  IInv'
<1>1. PICK S \in slots : \E P \in PressureVictims(t, D \cup S) :
         \/ \E b \in Agents : Spawn(t, b, n, D, S \cup P, why)
         \/ Refused(t, D, S \cup P, why, kept)
  BY DEF StartWith
<1>2. D \cup S \in SUBSET EntryOf(Targets) OBVIOUS
<1>3. PICK P \in PressureVictims(t, D \cup S) :
         \/ \E b \in Agents : Spawn(t, b, n, D, S \cup P, why)
         \/ Refused(t, D, S \cup P, why, kept)
  BY <1>1
<1>4. S \cup P \in SUBSET EntryOf(Targets) BY <1>2, Victims DEF IInv
<1>5. CASE \E b \in Agents : Spawn(t, b, n, D, S \cup P, why)
  BY <1>4, <1>5, SpawnInv
<1>6. CASE Refused(t, D, S \cup P, why, kept)
  <2>1. saved' \in [Targets -> Stores] BY <1>6 DEF Refused, IInv, TypeOK, Stores
  <2> QED BY <1>4, <1>6, <2>1, StopInv DEF Refused
<1> QED BY <1>3, <1>5, <1>6

(* Starting under the cap: a slot is found, or all idle ones went in vain.  *)
LEMMA StartCappedInv ==
  ASSUME IInv, NEW t \in Targets, NEW n \in Loads, NEW D \in SUBSET EntryOf(Targets),
         NEW why \in Reasons, NEW kept \in Stores,
         entry[t] \in D \cup {Null}, StartCapped(t, n, D, why, kept), UNCHANGED sweep
  PROVE  IInv'
<1>1. /\ \A S \in SlotVictims(t, D) : S \subseteq EntryOf(Targets)
      /\ Idle(t, Threads) \ D \in SUBSET EntryOf(Targets)
  BY Victims DEF IInv
<1>2. sweep' \in Sweeps
  BY DEF IInv, TypeOK, Sweeps
<1>3. CASE StartWith(t, n, D, SlotVictims(t, D), why, kept) BY <1>1, <1>2, <1>3, StartWithInv
<1>4. CASE Refused(t, D, Idle(t, Threads) \ D, why, kept)
  <2>1. saved' \in [Targets -> Stores] BY <1>4 DEF Refused, IInv, TypeOK, Stores
  <2> QED BY <1>1, <1>2, <1>4, <2>1, StopInv DEF Refused
<1> QED BY <1>3, <1>4 DEF StartCapped

(* What a target has is an entry, and its own.                              *)
LEMMA OwnEntry ==
  ASSUME TypeOK, NEW t \in Targets
  PROVE  EntryOf({t}) \in SUBSET EntryOf(Targets) /\ entry[t] \in EntryOf({t}) \cup {Null}
BY DEF EntryOf

-----------------------------------------------------------------------------
(* Jobs: an enqueue, and the end of a job with the close it may trigger.    *)
LEMMA JobsInv ==
  ASSUME IInv,
         \/ \E t \in Targets : Enqueue(t)
         \/ \E a \in Agents : JobDone(a)
  PROVE  IInv'
<1>1. ASSUME NEW t \in Targets, Enqueue(t) PROVE IInv'
  <2>1. CASE Alive(t) /\ UNCHANGED entry
    <3>1. entry[t] \in Agents BY <2>1 DEF Alive, IInv, TypeOK
    <3>2. /\ work' \in [Agents -> Loads] /\ lost' = {}
          /\ UNCHANGED <<entry, proc, home, exit, closeWhenIdle, saved, sweep, orphans>>
      BY <1>1, <2>1, <3>1, BoundsAssumption DEF Enqueue, IInv, TypeOK, Loads
    <3> QED BY <3>2 DEF IInv, TypeOK, Owned, Homed, Tracked, Loads
  <2>2. CASE ~Alive(t)
    <3>1. /\ UNCHANGED sweep
          /\ IF t \in Channels THEN StartWith(t, 1, EntryOf({t}), {{}}, "dead", saved[t])
                               ELSE StartCapped(t, 1, EntryOf({t}), "dead", saved[t])
      BY <1>1, <2>2 DEF Enqueue
    <3>2. 1 \in Loads /\ (\A S \in {{}} : S \subseteq EntryOf(Targets)) /\ "dead" \in Reasons
      BY BoundsAssumption DEF Reasons, Loads
    <3>3. saved[t] \in Stores
          /\ sweep' \in Sweeps
      BY <3>1 DEF IInv, TypeOK, Stores, Sweeps
    <3>4. EntryOf({t}) \in SUBSET EntryOf(Targets) /\ entry[t] \in EntryOf({t}) \cup {Null}
      BY OwnEntry DEF IInv
    <3>5. CASE t \in Channels BY <3>1, <3>2, <3>3, <3>4, <3>5, StartWithInv
    <3>6. CASE t \notin Channels BY <3>1, <3>2, <3>3, <3>4, <3>6, StartCappedInv
    <3> QED BY <3>5, <3>6
  <2> QED BY <1>1, <2>1, <2>2 DEF Enqueue
<1>2. ASSUME NEW a \in Agents, JobDone(a) PROVE IInv'
  <2> DEFINE mine == EntryOf({home[a]} \cap Threads)
  <2>1. work' = [work EXCEPT ![a] = @ - 1] /\ HasWork(a) /\ lost' = {} /\ UNCHANGED sweep
    BY <1>2 DEF JobDone
  <2>2. work' \in [Agents -> Loads]
    BY <2>1, BoundsAssumption DEF HasWork, IInv, TypeOK, Loads
  <2>3. CASE UNCHANGED <<entry, proc, home, exit, closeWhenIdle, saved, orphans>>
    BY <2>1, <2>2, <2>3 DEF IInv, TypeOK, Owned, Homed, Tracked, Loads
  <2>4. CASE /\ exit' = exit /\ closeWhenIdle' = closeWhenIdle \ mine
             /\ proc' = Killed(mine) /\ entry' = Removed(mine)
             /\ UNCHANGED <<home, orphans, saved>>
    <3>1. mine \in SUBSET Agents /\ \A b \in mine : home[b] \in Targets
      BY DEF IInv, TypeOK, EntryOf, Owned, Targets
    <3>2. TypeOK' BY <2>1, <2>2, <2>4, <3>1, RestType DEF IInv, TypeOK, Loads
    <3>3. Owned' BY <2>4 DEF IInv, Owned, Removed, TypeOK
    <3>4. Homed' BY <2>4, <3>1 DEF IInv, Homed, Killed, TypeOK
    <3>5. Tracked' BY <2>4 DEF IInv, Tracked, Homed, Killed, Removed, TypeOK
    <3> QED BY <3>2, <3>3, <3>4, <3>5 DEF IInv
  <2> QED BY <1>2, <2>3, <2>4 DEF JobDone
<1> QED BY <1>1, <1>2

-----------------------------------------------------------------------------
(* Commands that stop runtimes: reset, stop, archive, restart of all.       *)
LEMMA StopCommandsInv ==
  ASSUME IInv,
         \/ \E c \in Channels : Reset(c) \/ RestartChannelRuntimes(c)
         \/ \E t \in Threads : StopThreadAgent(t) \/ MarkThreadArchived(t)
  PROVE  IInv'
<1>1. \A T \in SUBSET Targets : EntryOf(T) \in SUBSET EntryOf(Targets) BY DEF EntryOf
<1>2. Channels \subseteq Targets /\ Threads \subseteq Targets /\ {} \in SUBSET EntryOf(Targets)
  BY DEF Targets
<1>3. {"user", "archive"} \subseteq Reasons BY DEF Reasons
<1>4. UNCHANGED sweep => sweep' \in Sweeps
  BY DEF IInv, TypeOK, Sweeps
<1>5. UNCHANGED saved => saved' \in [Targets -> Stores] BY DEF IInv, TypeOK, Stores
<1>6. ASSUME NEW c \in Channels, Reset(c) PROVE IInv'
  <2>1. /\ Stop(EntryOf({c}), {}, "user") /\ UNCHANGED sweep
        /\ saved' = [saved EXCEPT ![c] = IF @ = "none" THEN @ ELSE "bound"]
    BY <1>6 DEF Reset
  <2>2. saved' \in [Targets -> Stores] BY <2>1 DEF IInv, TypeOK, Stores
  <2>3. EntryOf({c}) \in SUBSET EntryOf(Targets) BY <1>1, <1>2
  <2> QED BY <1>2, <1>3, <1>4, <2>1, <2>2, <2>3, StopInv
<1>7. ASSUME NEW c \in Channels, RestartChannelRuntimes(c) PROVE IInv'
  <2> DEFINE T == {c} \cup {t \in Threads : Parent[t] = c}
  <2>1. Stop(EntryOf(T), {}, "user") /\ UNCHANGED <<saved, sweep>>
    BY <1>7 DEF RestartChannelRuntimes
  <2>2. EntryOf(T) \in SUBSET EntryOf(Targets) BY <1>1, <1>2
  <2> HIDE DEF T
  <2> QED BY <1>2, <1>3, <1>4, <1>5, <2>1, <2>2, StopInv
<1>8. ASSUME NEW t \in Threads, NEW why \in {"user", "archive"},
             Stop(EntryOf({t}), {}, why), UNCHANGED <<saved, sweep>>
      PROVE  IInv'
  <2>1. EntryOf({t}) \in SUBSET EntryOf(Targets) BY <1>1, <1>2
  <2> QED BY <1>2, <1>3, <1>4, <1>5, <1>8, <2>1, StopInv
<1>9. ASSUME NEW t \in Threads, StopThreadAgent(t) PROVE IInv'
  BY <1>8, <1>9 DEF StopThreadAgent
<1>10. ASSUME NEW t \in Threads, MarkThreadArchived(t) PROVE IInv'
  <2>1. CASE ~Busy(t) /\ Stop(EntryOf({t}), {}, "archive")
    BY <1>8, <1>10, <2>1 DEF MarkThreadArchived
  <2>2. CASE /\ closeWhenIdle' = closeWhenIdle \cup {entry[t]} /\ lost' = {}
             /\ UNCHANGED <<entry, proc, home, exit, work, orphans>>
    <3>1. entry[t] \in Agents BY <1>2, <1>10 DEF MarkThreadArchived, IInv, TypeOK
    <3>2. UNCHANGED <<saved, sweep>> BY <1>10 DEF MarkThreadArchived
    <3> QED BY <2>2, <3>1, <3>2 DEF IInv, TypeOK, Owned, Homed, Tracked
  <2> QED BY <1>10, <2>1, <2>2 DEF MarkThreadArchived
<1> QED BY <1>6, <1>7, <1>9, <1>10

(* Commands that start a runtime in place of the one the target has.        *)
LEMMA StartCommandsInv ==
  ASSUME IInv,
         \/ \E c \in Channels : Restart(c)
         \/ \E t \in Threads : ResetThread(t)
         \/ \E t \in Targets : Resume(t)
  PROVE  IInv'
<1>1. 0 \in Loads /\ (\A S \in {{}} : S \subseteq EntryOf(Targets)) BY BoundsAssumption DEF Loads
<1>2. {"user", "resume"} \subseteq Reasons BY DEF Reasons
<1>3. UNCHANGED sweep => sweep' \in Sweeps
  BY DEF IInv, TypeOK, Sweeps
<1>4. ASSUME NEW t \in Targets, NEW why \in {"user", "resume"},
             NEW kept \in Stores,
             StartWith(t, 0, EntryOf({t}), {{}}, why, kept), UNCHANGED sweep
      PROVE  IInv'
  <2>1. EntryOf({t}) \in SUBSET EntryOf(Targets) /\ entry[t] \in EntryOf({t}) \cup {Null}
    BY OwnEntry DEF IInv
  <2> QED BY <1>1, <1>2, <1>3, <1>4, <2>1, StartWithInv
<1>5. ASSUME NEW c \in Channels, Restart(c) PROVE IInv'
  <2>1. c \in Targets BY DEF Targets
  <2> QED BY <1>4, <1>5, <2>1 DEF Restart, Stores
<1>6. ASSUME NEW t \in Threads, ResetThread(t) PROVE IInv'
  <2>1. t \in Targets BY DEF Targets
  <2> QED BY <1>4, <1>6, <2>1 DEF ResetThread, Stores
<1>7. ASSUME NEW t \in Targets, Resume(t) PROVE IInv'
  <2>1. saved[t] \in Stores BY DEF IInv, TypeOK, Stores
  <2>2. CASE t \in Threads /\ entry[t] = Null
    <3>1. StartCapped(t, 0, {}, "resume", saved[t]) /\ UNCHANGED sweep BY <1>7, <2>2 DEF Resume
    <3>2. {} \in SUBSET EntryOf(Targets) /\ entry[t] \in {} \cup {Null} /\ "resume" \in Reasons
      BY <1>2, <2>2
    <3> QED BY <1>1, <2>1, <3>1, <3>2, StartCappedInv
  <2>3. CASE ~(t \in Threads /\ entry[t] = Null) BY <1>4, <1>7, <2>1, <2>3 DEF Resume
  <2> QED BY <2>2, <2>3
<1> QED BY <1>5, <1>6, <1>7

(* A process exits, and its callback removes whatever its target has.       *)
LEMMA ExitInv ==
  ASSUME IInv, NEW a \in Agents, Crash(a) \/ OnExit(a)
  PROVE  IInv'
<1>1. CASE Crash(a)
  <2>1. TypeOK' BY <1>1 DEF Crash, IInv, TypeOK
  <2>2. Owned' BY <1>1 DEF Crash, IInv, Owned
  <2>3. Homed' BY <1>1 DEF Crash, IInv, Homed, TypeOK
  <2>4. Tracked' BY <1>1 DEF Crash, IInv, Tracked, TypeOK
  <2> QED BY <2>1, <2>2, <2>3, <2>4 DEF IInv
<1>2. CASE OnExit(a)
  <2> DEFINE gone == EntryOf({home[a]})
  <2>1. home[a] \in Targets BY <1>2 DEF OnExit, IInv, Homed
  <2>2. /\ exit' = [exit EXCEPT ![a] = "none"] /\ entry' = [entry EXCEPT ![home[a]] = Null]
        /\ orphans' = orphans \cup {b \in gone : proc[b] = "up"}
        /\ UNCHANGED <<proc, home, closeWhenIdle, saved, sweep>>
    BY <1>2 DEF OnExit
  <2>3. gone \in SUBSET Agents BY <2>1, EntryOfType DEF IInv
  <2>4. work' \in [Agents -> Loads] /\ lost' \subseteq Reasons
    <3>1. UNCHANGED work => work' \in [Agents -> Loads] BY DEF IInv, TypeOK, Loads
    <3>2. Emptied(gone) \in [Agents -> Loads] BY <2>3, RestType DEF IInv
    <3> QED BY <1>2, <3>1, <3>2 DEF OnExit, Reasons
  <2>5. TypeOK' BY <2>2, <2>3, <2>4 DEF IInv, TypeOK, Reasons, Loads
  <2>6. Owned' BY <2>2 DEF IInv, Owned, TypeOK
  <2>7. Homed' BY <2>2 DEF IInv, Homed, TypeOK
  <2>8. Tracked'
    <3> SUFFICES ASSUME NEW b \in Agents, proc'[b] = "up"
                 PROVE  entry'[home'[b]] = b \/ b \in orphans'
      BY DEF Tracked
    <3>1. proc[b] = "up" /\ home[b] \in Targets /\ home' = home BY <2>2 DEF IInv, Homed
    <3>2. CASE home[b] = home[a] /\ entry[home[b]] = b
      BY <3>1, <3>2, <2>2, AgentsAssumption DEF EntryOf
    <3>3. CASE home[b] # home[a] \/ entry[home[b]] # b
      BY <3>1, <3>3, <2>2 DEF IInv, Tracked, TypeOK
    <3> QED BY <3>2, <3>3
  <2> QED BY <2>5, <2>6, <2>7, <2>8 DEF IInv
<1> QED BY <1>1, <1>2

(* The heartbeat tasks.                                                     *)
LEMMA HeartbeatInv ==
  ASSUME IInv, Heartbeat
  PROVE  IInv'
<1>1. ASSUME NoRuntimeChanges,
             sweep' \in Sweeps
      PROVE  IInv'
  BY <1>1 DEF NoRuntimeChanges, IInv, TypeOK, Owned, Homed, Tracked, Sweeps
<1>2. ASSUME NEW task \in {"health", "idle"}, NEW T \in SUBSET Targets, SweepBegin(task, T)
      PROVE  IInv'
  BY <1>1, <1>2 DEF SweepBegin, Sweeps
<1>3. Channels \subseteq Targets /\ Threads \subseteq Targets BY DEF Targets
<1>4. CASE HealthBegin BY <1>2, <1>3, <1>4 DEF HealthBegin
<1>5. CASE IdleChannelsBegin BY <1>2, <1>3, <1>5 DEF IdleChannelsBegin
<1>6. CASE IdleThreadsBegin BY <1>2, <1>3, <1>6 DEF IdleThreadsBegin
<1>7. ASSUME NEW t \in Targets, StopIdle(t) PROVE IInv'
  <2>1. /\ sweep' = [sweep EXCEPT !.listed = @ \ {t}] /\ UNCHANGED saved
        /\ Stop(EntryOf({t}), {}, "idle")
    BY <1>7 DEF StopIdle
  <2>2. sweep' \in Sweeps
    BY <2>1 DEF IInv, TypeOK, Sweeps
  <2>3. /\ EntryOf({t}) \in SUBSET EntryOf(Targets) /\ {} \in SUBSET EntryOf(Targets)
        /\ "idle" \in Reasons /\ saved' \in [Targets -> Stores]
    BY <2>1, OwnEntry DEF Reasons, IInv, TypeOK, Stores
  <2> QED BY <2>1, <2>2, <2>3, StopInv
<1>8. ASSUME NEW c \in Channels, CheckAgent(c) PROVE IInv'
  <2>1. sweep' \in Sweeps
    BY <1>3, <1>8 DEF CheckAgent, IInv, TypeOK, Sweeps
  <2> QED BY <1>1, <1>8, <2>1 DEF CheckAgent
<1>9. ASSUME NEW c \in Channels, RestartAgent(c) PROVE IInv'
  <2> DEFINE kept == IF saved[c] = "none" THEN "none" ELSE "bound"
  <2>1. /\ sweep' = [sweep EXCEPT !.listed = @ \ {c}, !.doomed = Null]
        /\ StartWith(c, 0, EntryOf({c}), {{}}, "health", kept)
    BY <1>9 DEF RestartAgent
  <2>2. sweep' \in Sweeps
    BY <2>1 DEF IInv, TypeOK, Sweeps
  <2>3. c \in Targets /\ kept \in Stores /\ "health" \in Reasons
    BY <1>3 DEF Reasons, Stores
  <2>4. EntryOf({c}) \in SUBSET EntryOf(Targets) /\ entry[c] \in EntryOf({c}) \cup {Null}
    BY <2>3, OwnEntry DEF IInv
  <2>5. 0 \in Loads /\ \A S \in {{}} : S \subseteq EntryOf(Targets) BY BoundsAssumption DEF Loads
  <2> HIDE DEF kept
  <2> QED BY <2>1, <2>2, <2>3, <2>4, <2>5, StartWithInv
<1> QED BY <1>4, <1>5, <1>6, <1>7, <1>8, <1>9 DEF Heartbeat

(* The initial state.                                                       *)
LEMMA InitInv == Init => IInv
<1> SUFFICES ASSUME Init PROVE IInv OBVIOUS
<1>1. TypeOK BY BoundsAssumption DEF Init, TypeOK, NoSweep
<1>2. Owned BY DEF Init, Owned
<1>3. Homed BY DEF Init, Homed
<1>4. Tracked BY DEF Init, Tracked
<1> QED BY <1>1, <1>2, <1>3, <1>4 DEF IInv

(* Every step.                                                              *)
LEMMA NextInv == IInv /\ [Next]_vars => IInv'
<1> SUFFICES ASSUME IInv, [Next]_vars PROVE IInv' OBVIOUS
<1>1. CASE UNCHANGED vars BY <1>1 DEF vars, IInv, TypeOK, Owned, Homed, Tracked
<1>2. CASE Next
  BY <1>2, JobsInv, StopCommandsInv, StartCommandsInv, ExitInv, HeartbeatInv DEF Next
<1> QED BY <1>1, <1>2

(* The state keeps its types (no queue of a worker grows past MaxWork).     *)
THEOREM TypeCorrect == Spec => []TypeOK
<1>1. IInv => TypeOK BY DEF IInv
<1> QED BY InitInv, NextInv, <1>1, PTL DEF Spec

(* For every number of channels, threads and agents, every cap and every    *)
(* fault: a live agent is the entry of its target or lost to an exit.       *)
THEOREM AgentsTracked == Spec => []Tracked
<1>1. IInv => Tracked BY DEF IInv
<1> QED BY InitInv, NextInv, <1>1, PTL DEF Spec

-----------------------------------------------------------------------------
(* Accepted work. A step that stops D for the reason why and reclaims S     *)
(* spares it when S has none, and D has none or why is the user's will.     *)
LEMMA StoppingSpares ==
  ASSUME NEW D, NEW S, NEW why, Stopping(D, S, why), \A a \in S : ~HasWork(a),
         why \in {"user", "idle", "health"} \/ ~LosesWork(D)
  PROVE  SparesWork'
<1>1. lost' = {r \in {why} : LosesWork(D)} BY DEF Stopping, LosesWork
<1> QED BY <1>1 DEF SparesWork

(* A start spares work when its victims have none.                          *)
LEMMA StartWithSpares ==
  ASSUME TypeOK, NEW t \in Targets, NEW n, NEW D \in SUBSET EntryOf(Targets), NEW slots,
         \A S \in slots : S \subseteq EntryOf(Targets) /\ \A a \in S : ~HasWork(a),
         NEW why, NEW kept, StartWith(t, n, D, slots, why, kept),
         why \in {"user", "idle", "health"} \/ ~LosesWork(D)
  PROVE  SparesWork'
<1>1. PICK S \in slots : \E P \in PressureVictims(t, D \cup S) :
         \/ \E b \in Agents : Spawn(t, b, n, D, S \cup P, why)
         \/ Refused(t, D, S \cup P, why, kept)
  BY DEF StartWith
<1>2. D \cup S \in SUBSET EntryOf(Targets) OBVIOUS
<1>3. PICK P \in PressureVictims(t, D \cup S) :
         \/ \E b \in Agents : Spawn(t, b, n, D, S \cup P, why)
         \/ Refused(t, D, S \cup P, why, kept)
  BY <1>1
<1>4. Stopping(D, S \cup P, why) BY <1>3 DEF Spawn, Refused, Stop
<1>5. \A a \in S \cup P : ~HasWork(a) BY <1>2, Victims
<1> QED BY <1>4, <1>5, StoppingSpares

(* So does a start under the cap: its victims are idle.                     *)
LEMMA StartCappedSpares ==
  ASSUME TypeOK, NEW t \in Targets, NEW n, NEW D \in SUBSET EntryOf(Targets),
         NEW why, NEW kept, StartCapped(t, n, D, why, kept), ~LosesWork(D)
  PROVE  SparesWork'
<1>1. CASE StartWith(t, n, D, SlotVictims(t, D), why, kept) BY <1>1, Victims, StartWithSpares
<1>2. CASE Refused(t, D, Idle(t, Threads) \ D, why, kept)
  <2>1. Stopping(D, Idle(t, Threads) \ D, why) BY <1>2 DEF Refused, Stop
  <2>2. \A a \in Idle(t, Threads) \ D : ~HasWork(a) BY Victims
  <2> QED BY <2>1, <2>2, StoppingSpares
<1> QED BY <1>1, <1>2 DEF StartCapped

(* Every step of the fleet spares accepted work.                            *)
LEMMA NextSpares ==
  ASSUME TypeOK, Next
  PROVE  SparesWork'
<1>1. \A S \in {{}} : S \subseteq EntryOf(Targets) /\ \A a \in S : ~HasWork(a) OBVIOUS
<1>2. Channels \subseteq Targets /\ Threads \subseteq Targets BY DEF Targets
<1>3. \A t \in Targets : EntryOf({t}) \in SUBSET EntryOf(Targets) BY DEF EntryOf
<1>4. lost' = {} => SparesWork' BY DEF SparesWork
<1>5. ASSUME NEW t \in Targets, ~Alive(t) \/ ~Busy(t) PROVE ~LosesWork(EntryOf({t}))
  BY <1>5 DEF Alive, Busy, LosesWork, EntryOf
<1>6. ASSUME NEW D, NEW why, Stop(D, {}, why),
             why \in {"user", "idle", "health"} \/ ~LosesWork(D)
      PROVE  SparesWork'
  BY <1>6, StoppingSpares DEF Stop
<1>7. ASSUME NEW t \in Targets, Enqueue(t) PROVE SparesWork'
  <2>1. CASE lost' = {} BY <1>4, <2>1
  <2>2. CASE ~Alive(t) /\ StartWith(t, 1, EntryOf({t}), {{}}, "dead", saved[t])
    BY <1>1, <1>3, <1>5, <2>2, StartWithSpares
  <2>3. CASE ~Alive(t) /\ StartCapped(t, 1, EntryOf({t}), "dead", saved[t])
    BY <1>3, <1>5, <2>3, StartCappedSpares
  <2> QED BY <1>7, <2>1, <2>2, <2>3 DEF Enqueue
<1>8. ASSUME NEW t \in Targets, Resume(t) PROVE SparesWork'
  <2>1. ~LosesWork(EntryOf({t})) /\ ~LosesWork({}) BY <1>5, <1>8 DEF Resume, LosesWork
  <2>2. CASE StartCapped(t, 0, {}, "resume", saved[t])
    BY <2>1, <2>2, StartCappedSpares
  <2>3. CASE StartWith(t, 0, EntryOf({t}), {{}}, "resume", saved[t])
    BY <1>1, <1>3, <2>1, <2>3, StartWithSpares
  <2> QED BY <1>8, <2>2, <2>3 DEF Resume
<1>9. ASSUME NEW c \in Channels, Reset(c) \/ RestartChannelRuntimes(c) PROVE SparesWork'
  BY <1>6, <1>9 DEF Reset, RestartChannelRuntimes
<1>10. ASSUME NEW t \in Targets, NEW why \in {"user", "health"}, NEW kept,
              StartWith(t, 0, EntryOf({t}), {{}}, why, kept)
       PROVE  SparesWork'
  BY <1>1, <1>3, <1>10, StartWithSpares
<1>11. ASSUME NEW c \in Channels, Restart(c) PROVE SparesWork'
  BY <1>2, <1>10, <1>11 DEF Restart
<1>12. ASSUME NEW t \in Threads, ResetThread(t) PROVE SparesWork'
  BY <1>2, <1>10, <1>12 DEF ResetThread
<1>13. ASSUME NEW t \in Threads, StopThreadAgent(t) \/ MarkThreadArchived(t) PROVE SparesWork'
  BY <1>2, <1>4, <1>5, <1>6, <1>13 DEF StopThreadAgent, MarkThreadArchived
<1>14. ASSUME NEW a \in Agents, JobDone(a) \/ Crash(a) \/ OnExit(a) PROVE SparesWork'
  BY <1>14 DEF JobDone, Crash, OnExit, SparesWork
<1>15. CASE Heartbeat
  <2>1. ASSUME NEW t \in Targets, StopIdle(t) PROVE SparesWork' BY <1>6, <2>1 DEF StopIdle
  <2>2. ASSUME NEW c \in Channels, RestartAgent(c) PROVE SparesWork'
    BY <1>2, <1>10, <2>2 DEF RestartAgent
  <2>3. CASE NoRuntimeChanges BY <1>4, <2>3 DEF NoRuntimeChanges
  <2> QED BY <1>15, <2>1, <2>2, <2>3
          DEF Heartbeat, HealthBegin, IdleChannelsBegin, IdleThreadsBegin, SweepBegin, CheckAgent
<1> QED BY <1>7, <1>8, <1>9, <1>11, <1>12, <1>13, <1>14, <1>15 DEF Next

(* No reclaim for a slot or under pressure, no resume, no archive and no    *)
(* replacement of a dead agent stops a live runtime that has accepted work. *)
THEOREM WorkSpared == Spec => []SparesWork
<1>1. Init => SparesWork BY DEF Init, SparesWork
<1>2. TypeOK /\ SparesWork /\ [Next]_vars => SparesWork'
  <2>1. ASSUME SparesWork, UNCHANGED vars PROVE SparesWork' BY <2>1 DEF vars, SparesWork
  <2> QED BY <2>1, NextSpares
<1> QED BY TypeCorrect, <1>1, <1>2, PTL DEF Spec

-----------------------------------------------------------------------------
(* The cap on thread runtimes. *)

(* A thread's entry is its own runtime, so there are as few as agents.      *)
LEMMA LeftFinite ==
  ASSUME IInv, NEW D
  PROVE  IsFiniteSet(ThreadsLeft(D)) /\ Cardinality(ThreadsLeft(D)) \in Nat
<1> DEFINE f == [u \in ThreadsLeft(D) |-> entry[u]]
<1>1. \A u \in ThreadsLeft(D) : entry[u] \in Agents /\ home[entry[u]] = u
  BY DEF ThreadsLeft, Targets, IInv, TypeOK, Owned
<1>2. f \in [ThreadsLeft(D) -> Agents] /\ \A u, v \in ThreadsLeft(D) : f[u] = f[v] => u = v
  BY <1>1
<1>3. f \in Injection(ThreadsLeft(D), Agents) BY <1>2 DEF Injection, IsInjective
<1> HIDE DEF f
<1>4. IsFiniteSet(ThreadsLeft(D)) BY <1>3, FS_Injection, AgentsAssumption
<1> QED BY <1>4, FS_CardinalityType

(* The more agents go, the fewer threads are left.                          *)
LEMMA FewerLeft ==
  ASSUME IInv, NEW D, NEW E, D \subseteq E
  PROVE  Cardinality(ThreadsLeft(E)) <= Cardinality(ThreadsLeft(D))
<1>1. ThreadsLeft(E) \in SUBSET ThreadsLeft(D) BY DEF ThreadsLeft
<1> QED BY <1>1, LeftFinite, FS_Subset

(* Stopping D and S leaves the other threads' entries.                      *)
LEMMA StopLeaves ==
  ASSUME NEW D, NEW S, NEW why, Stop(D, S, why)
  PROVE  ThreadsLeft({})' = ThreadsLeft(D \cup S)
BY DEF Stop, ThreadsLeft, Removed, Targets

(* A start adds t's entry when t is a thread.                               *)
LEMMA SpawnLeaves ==
  ASSUME NEW t \in Targets, NEW b \in Agents, NEW n, NEW D, NEW S, NEW why, Spawn(t, b, n, D, S, why)
  PROVE  ThreadsLeft({})' = ThreadsLeft(D \cup S) \cup ({t} \cap Threads)
<1>1. Threads \subseteq Targets /\ Null \notin Agents BY AgentsAssumption DEF Targets
<1>2. entry' = [Removed(D \cup S) EXCEPT ![t] = b] BY DEF Spawn
<1>3. \A u \in Threads : entry'[u] = IF u = t THEN b ELSE IF entry[u] \in D \cup S THEN Null ELSE entry[u]
  BY <1>1, <1>2 DEF Removed
<1> QED BY <1>1, <1>3 DEF ThreadsLeft

(* A step within the cap: no more threads have a runtime than before, or no *)
(* more than the cap allows.                                                *)
WithinCap == ~(ThreadCount' > ThreadCount /\ ThreadCount' > ThreadAgentMax)

(* The steps that are: the count is a number before and after.              *)
LEMMA CountWithin ==
  ASSUME IInv, ThreadCount' \in Nat, ThreadCount' <= ThreadCount \/ ThreadCount' <= ThreadAgentMax
  PROVE  WithinCap
<1>1. ThreadCount \in Nat BY LeftFinite DEF ThreadCount
<1> QED BY <1>1, BoundsAssumption DEF WithinCap

(* Replacing the runtime a target has, or starting one for a channel, makes *)
(* no more of them.                                                         *)
LEMMA ReplaceWithin ==
  ASSUME IInv, NEW t \in Targets, NEW n, NEW D, NEW slots, NEW why, NEW kept,
         StartWith(t, n, D, slots, why, kept), t \in Channels \/ entry[t] # Null
  PROVE  WithinCap
<1>1. PICK S \in slots : \E P \in PressureVictims(t, D \cup S) :
         \/ \E b \in Agents : Spawn(t, b, n, D, S \cup P, why)
         \/ Refused(t, D, S \cup P, why, kept)
  BY DEF StartWith
<1>2. PICK P : \/ \E b \in Agents : Spawn(t, b, n, D, S \cup P, why)
               \/ Refused(t, D, S \cup P, why, kept)
  BY <1>1
<1>3. {t} \cap Threads \subseteq ThreadsLeft({}) BY TargetsAssumption DEF ThreadsLeft
<1>4. ThreadsLeft({})' \subseteq ThreadsLeft(D \cup (S \cup P)) \cup ({t} \cap Threads)
  BY <1>2, SpawnLeaves, StopLeaves DEF Refused
<1>5. ThreadsLeft({})' \in SUBSET ThreadsLeft({}) BY <1>3, <1>4 DEF ThreadsLeft
<1>6. ThreadCount' \in Nat /\ ThreadCount' <= ThreadCount
  BY <1>5, LeftFinite, FS_Subset, FS_CardinalityType DEF ThreadCount
<1> QED BY <1>6, CountWithin

(* A start under the cap: a slot was free or freed, or nothing is started.  *)
LEMMA CappedWithin ==
  ASSUME IInv, ThreadAgentMax # 0, NEW t \in Targets, NEW n, NEW D, NEW why, NEW kept,
         StartCapped(t, n, D, why, kept)
  PROVE  WithinCap
<1>1. ASSUME NEW E, Refused(t, D, E, why, kept) PROVE WithinCap
  <2>1. ThreadsLeft({})' = ThreadsLeft(D \cup E) BY <1>1, StopLeaves DEF Refused
  <2>2. Cardinality(ThreadsLeft(D \cup E)) <= Cardinality(ThreadsLeft({})) BY FewerLeft
  <2>3. ThreadCount' \in Nat /\ ThreadCount' <= ThreadCount BY <2>1, <2>2, LeftFinite DEF ThreadCount
  <2> QED BY <2>3, CountWithin
<1>2. CASE SlotVictims(t, D) = {} BY <1>1, <1>2 DEF StartCapped, StartWith
<1>3. CASE StartWith(t, n, D, SlotVictims(t, D), why, kept)
  <2>1. PICK S \in SlotVictims(t, D) : \E P \in PressureVictims(t, D \cup S) :
           \/ \E b \in Agents : Spawn(t, b, n, D, S \cup P, why)
           \/ Refused(t, D, S \cup P, why, kept)
    BY <1>3 DEF StartWith
  <2>2. PICK P : \/ \E b \in Agents : Spawn(t, b, n, D, S \cup P, why)
                 \/ Refused(t, D, S \cup P, why, kept)
    BY <2>1
  <2>3. CASE \E b \in Agents : Spawn(t, b, n, D, S \cup P, why)
    <3>1. Cardinality(ThreadsLeft(D \cup S)) < ThreadAgentMax
      <4>1. CASE Room(D)
        <5>1. D \cup S = D BY <2>1, <4>1 DEF SlotVictims
        <5> QED BY <4>1, <5>1 DEF Room
      <4>2. CASE ~Room(D)
        <5>1. Cardinality(ThreadsLeft(D \cup S)) = ThreadAgentMax - 1 BY <2>1, <4>2 DEF SlotVictims
        <5> QED BY <5>1, BoundsAssumption
      <4> QED BY <4>1, <4>2
    <3>2. D \cup S \subseteq D \cup (S \cup P) OBVIOUS
    <3>3. Cardinality(ThreadsLeft(D \cup (S \cup P))) <= Cardinality(ThreadsLeft(D \cup S))
      BY <3>2, FewerLeft
    <3>4. ThreadsLeft({})' = ThreadsLeft(D \cup (S \cup P)) \cup ({t} \cap Threads)
      BY <2>3, SpawnLeaves
    <3>5. ThreadsLeft({})' \in SUBSET (ThreadsLeft(D \cup (S \cup P)) \cup {t}) BY <3>4
    <3> PICK K : K = ThreadsLeft(D \cup (S \cup P)) OBVIOUS
    <3>6. /\ IsFiniteSet(K \cup {t})
          /\ Cardinality(K \cup {t}) = IF t \in K THEN Cardinality(K) ELSE Cardinality(K) + 1
      BY LeftFinite, FS_AddElement
    <3>7. Cardinality(ThreadsLeft({})') <= Cardinality(K \cup {t}) BY <3>5, <3>6, FS_Subset
    <3>8. Cardinality(K) \in Nat /\ Cardinality(ThreadsLeft(D \cup S)) \in Nat
          /\ Cardinality(ThreadsLeft({})') \in Nat
      BY <3>5, <3>6, LeftFinite, FS_Subset, FS_CardinalityType
    <3>9. Cardinality(ThreadsLeft({})') <= ThreadAgentMax
      BY <3>1, <3>3, <3>6, <3>7, <3>8, BoundsAssumption
    <3>10. ThreadCount' \in Nat /\ ThreadCount' <= ThreadAgentMax BY <3>8, <3>9 DEF ThreadCount
    <3> QED BY <3>10, CountWithin
  <2> QED BY <1>1, <2>2, <2>3
<1> QED BY <1>2, <1>3 DEF StartCapped

(* A message and a resume keep within the cap on thread runtimes, also when *)
(* a reset has already gone past it and whatever is reclaimed on the way.   *)
THEOREM CapKept == Spec => CapGuarded
<1> DEFINE Guarded == ThreadAgentMax # 0 /\ ThreadCount' > ThreadCount /\ ThreadCount' > ThreadAgentMax
                        => \A t \in Targets : ~Enqueue(t) /\ ~Resume(t)
<1>1. IInv /\ [Next]_vars => [Guarded]_vars
  <2> SUFFICES ASSUME IInv, [Next]_vars, ThreadAgentMax # 0, ~WithinCap, NEW t \in Targets
               PROVE  ~Enqueue(t) /\ ~Resume(t)
    BY DEF WithinCap
  <2>1. t \in Channels \/ (t \in Threads /\ t \notin Channels) BY TargetsAssumption DEF Targets
  <2>2. entry' # entry
    <3>1. ThreadCount \in Nat BY LeftFinite DEF ThreadCount
    <3>2. entry' = entry => ThreadCount' = ThreadCount BY DEF ThreadCount, ThreadsLeft
    <3> QED BY <3>1, <3>2, CountWithin
  <2>3. ASSUME NEW n, NEW D, NEW why, NEW kept PROVE ~StartCapped(t, n, D, why, kept)
    BY CappedWithin
  <2>4. ASSUME NEW n, NEW D, NEW slots, NEW why, NEW kept, t \in Channels \/ entry[t] # Null
        PROVE  ~StartWith(t, n, D, slots, why, kept)
    BY <2>4, ReplaceWithin
  <2>5. ~Enqueue(t)
    <3> SUFFICES ASSUME Enqueue(t) PROVE FALSE OBVIOUS
    <3>1. CASE t \in Channels BY <2>2, <2>4, <3>1 DEF Enqueue
    <3>2. CASE t \notin Channels BY <2>2, <2>3, <3>2 DEF Enqueue
    <3> QED BY <3>1, <3>2
  <2>6. ~Resume(t)
    <3> SUFFICES ASSUME Resume(t) PROVE FALSE OBVIOUS
    <3>1. CASE t \in Threads /\ entry[t] = Null BY <2>3, <3>1 DEF Resume
    <3>2. CASE t \in Channels \/ entry[t] # Null BY <2>4, <3>2, TargetsAssumption DEF Resume
    <3> QED BY <2>1, <3>1, <3>2
  <2> QED BY <2>5, <2>6
<1>2. CapGuarded <=> [][Guarded]_vars BY DEF CapGuarded
<1> HIDE DEF Guarded
<1> QED BY InitInv, NextInv, <1>1, <1>2, PTL DEF Spec
=============================================================================
