--------------------------- MODULE CollectorProofs ---------------------------
(***************************************************************************)
(* Proofs about the collector processes, those that start and stop (Fleet) *)
(* and what a forum collector does while it runs (ForumCrawl): for any     *)
(* number of collectors, processes, commands and faults, any board, any    *)
(* size of a page, any number of requests and failures.                    *)
(*                                                                         *)
(* Fleet.  Neither safety property is inductive: that a collector has one  *)
(* serving child, and that STOPPED means none, both rest on the            *)
(* supervisor's handles.  IInv says what a handle is worth: every child    *)
(* nobody asked to stop is the one its collector's handle is on, a handle  *)
(* is on a process of its collector whose row says RUNNING, and a spawn is *)
(* under way only where there is no handle.                                *)
(*                                                                         *)
(* ForumCrawl.  BaseInv says what the coroutine holds at each of its       *)
(* places: what it reads, and for which request, of those in hand.  On it  *)
(* rest four invariants that do not need each other, but for the last:     *)
(*   KeyInv    a row, and a thread being read, has the key the alias has;  *)
(*   ReplyInv  a reply that is out has its request in hand, or was torn;   *)
(*   DoneInv   the pages read so far for a request are stored, and a       *)
(*             thread read again has no gated row behind its first page;   *)
(*   CursorInv, WalkInv   (and KeyInv) every thread behind the cursor, and *)
(*             behind the page a walk has come to, was read; those on the  *)
(*             page are read or still at hand.                             *)
(* That a walk may trust the pages it has behind it while the board moves  *)
(* is Shifts: a thread that comes to an earlier page is one that rose.     *)
(***************************************************************************)
EXTENDS Fleet, ForumCrawl, FiniteSetTheorems, TLAPS

-----------------------------------------------------------------------------
(* FLEET. *)

-----------------------------------------------------------------------------
(* The inductive invariant. *)

Process == [of : Collectors \cup {None}, at : Stages, asked : BOOLEAN]

ServesIn(ps, p, c) == ps[p].of = c /\ ps[p].at \in Live /\ ~ps[p].asked

RowsOK ==
  /\ present \subseteq Collectors
  /\ desired \in [Collectors -> {"RUNNING", "STOPPED"}]
  /\ deleting \subseteq present
  /\ identity \in [Collectors -> {"AVAILABLE", "IN_USE", "FROZEN", "BURNED"}]
BoundsOK == commands \in 0 .. MaxCommands /\ faults \in 0 .. MaxFaults
CoolingOK == cooling \subseteq Collectors
ObservedOK == observed \in [Collectors -> {"STOPPED", "RUNNING", "COOLING", "CRASHED"}]
ProcOK == proc \in [Pids -> Process]
HandlesOK ==
  /\ tracked \in [Collectors -> Pids \cup {None}]
  /\ \A c \in Collectors : tracked[c] # None =>
       proc[tracked[c]].of = c /\ observed[c] = "RUNNING" /\ sup.at # "down"
ServingOK == \A c \in Collectors, p \in Pids : ServesIn(proc, p, c) => tracked[c] = p
SupOK ==
  /\ sup.at \in {"idle", "reconcile", "clear", "exec", "dispatch", "publish", "down"}
  /\ sup.todo \subseteq SnapshotRow
  /\ sup.item \in SnapshotRow \cup Collectors \cup {None}
  /\ sup.at \in {"clear", "exec"} => sup.item \in SnapshotRow /\ tracked[sup.item.of] = None

ChildrenOK == ObservedOK /\ ProcOK /\ HandlesOK /\ ServingOK /\ SupOK

IInv == RowsOK /\ BoundsOK /\ CoolingOK /\ ChildrenOK

-----------------------------------------------------------------------------
(* What the steps do to the children. *)

\* A process that moves on, or dies, serves nobody it did not serve before.
LEMMA MoveKeeps ==
  ASSUME ChildrenOK, NEW ps \in [Pids -> Process], proc' = ps,
         \A p \in Pids : ps[p].of = proc[p].of,
         \A p \in Pids, c \in Collectors : ServesIn(ps, p, c) => ServesIn(proc, p, c),
         UNCHANGED <<observed, tracked, sup>>
  PROVE  ChildrenOK'
  <1>1. ProcOK' /\ ObservedOK' /\ SupOK'
    BY DEF ChildrenOK, ProcOK, ObservedOK, SupOK
  <1>2. HandlesOK'
    BY DEF ChildrenOK, HandlesOK
  <1>3. ServingOK'
    BY DEF ChildrenOK, ServingOK, ServesIn
  <1> QED BY <1>1, <1>2, <1>3 DEF ChildrenOK

\* One process moves to another stage.
LEMMA GoesToKeeps ==
  ASSUME ChildrenOK, NEW p \in Pids, NEW stage \in Stages, GoesTo(p, stage),
         proc[p].at \in Live, UNCHANGED <<observed, tracked, sup>>
  PROVE  ChildrenOK'
  <1> DEFINE ps == [proc EXCEPT ![p] = Moved(proc[p], stage)]
  <1>1. ps \in [Pids -> Process]
    BY DEF ChildrenOK, ProcOK, Process, Moved
  <1>2. \A q \in Pids : ps[q] = IF q = p THEN Moved(proc[p], stage) ELSE proc[q]
    BY DEF ChildrenOK, ProcOK
  <1>3. \A q \in Pids : ps[q].of = proc[q].of
    BY <1>2 DEF Moved
  <1>4. \A q \in Pids, c \in Collectors : ServesIn(ps, q, c) => ServesIn(proc, q, c)
    BY <1>2 DEF Moved, ServesIn
  <1>5. proc' = ps
    BY DEF GoesTo
  <1> HIDE DEF ps
  <1> QED BY <1>1, <1>3, <1>4, <1>5, MoveKeeps

\* The supervisor that goes down leaves nothing that serves.
LEMMA DownKeeps ==
  ASSUME ChildrenOK, NEW ps \in [Pids -> Process], Down(ps), UNCHANGED observed
  PROVE  ChildrenOK' /\ CoolingOK'
  <1> DEFINE qs == [p \in Pids |-> IF ps[p].at \in Live THEN Moved(ps[p], "exited") ELSE ps[p]]
  <1>1. \A p \in Pids : qs[p] \in Process /\ qs[p].at \notin Live
    BY DEF Process, Moved, Live, Stages
  <1>2. proc' = qs /\ tracked' = [c \in Collectors |-> None] /\ cooling' = {}
    BY DEF Down
  <1>3. sup' = [at |-> "down", todo |-> {}, item |-> None]
    BY DEF Down, Ticks
  <1> HIDE DEF qs
  <1>4. ProcOK'
    <2>1. qs \in [Pids -> Process]
      BY <1>1 DEF qs
    <2> QED BY <2>1, <1>2 DEF ProcOK
  <1>5. ServingOK'
    BY <1>1, <1>2 DEF ServingOK, ServesIn
  <1>6. HandlesOK' /\ SupOK' /\ ObservedOK' /\ CoolingOK'
    BY <1>2, <1>3 DEF HandlesOK, SupOK, ChildrenOK, ObservedOK, CoolingOK
  <1> QED BY <1>4, <1>5, <1>6 DEF ChildrenOK

\* The handle h that row i is left with fits the processes ps, and the state s
\* that is recorded; the other handles still fit.
Fits(i, s, h, ps) ==
  /\ h # None => ps[h].of = i.of /\ s = "RUNNING"
  /\ \A c \in Collectors \ {i.of} : tracked[c] # None => ps[tracked[c]].of = c
  /\ \A p \in Pids, c \in Collectors :
       ServesIn(ps, p, c) => IF c = i.of THEN p = h ELSE ServesIn(proc, p, c)

\* A row is done, and what it leaves fits.
LEMMA SettlesKeeps ==
  ASSUME ChildrenOK, CoolingOK, NEW i \in SnapshotRow,
         NEW s \in {"STOPPED", "RUNNING", "COOLING", "CRASHED"}, NEW must \in BOOLEAN,
         NEW h \in Pids \cup {None}, NEW d \in SUBSET Collectors,
         NEW ps \in [Pids -> Process],
         Settles(i, s, must, h, d, ps),
         sup.at # "down",
         Fits(i, s, h, ps)
  PROVE  ChildrenOK' /\ CoolingOK'
  <1>0. i.of \in Collectors
    BY DEF SnapshotRow
  <1>1. CASE i.of \notin present /\ (must \/ observed[i.of] # s)
    BY <1>1, DownKeeps DEF Settles
  <1>2. CASE ~(i.of \notin present /\ (must \/ observed[i.of] # s))
    <2>1. /\ observed' = [observed EXCEPT ![i.of] = s]
          /\ tracked' = [tracked EXCEPT ![i.of] = h]
          /\ cooling' = d
          /\ proc' = ps
          /\ sup' = [at |-> "reconcile", todo |-> sup.todo \ {i}, item |-> None]
      BY <1>2 DEF Settles, Ticks
    <2>2. ObservedOK' /\ ProcOK' /\ CoolingOK'
      BY <2>1 DEF ChildrenOK, ObservedOK, ProcOK, CoolingOK
    <2>3. SupOK'
      BY <2>1 DEF ChildrenOK, SupOK
    <2>4. \A c \in Collectors : tracked'[c] = IF c = i.of THEN h ELSE tracked[c]
      BY <2>1 DEF ChildrenOK, HandlesOK
    <2>5. \A c \in Collectors : observed'[c] = IF c = i.of THEN s ELSE observed[c]
      BY <2>1 DEF ChildrenOK, ObservedOK
    <2>6. HandlesOK'
      BY <1>0, <2>1, <2>4, <2>5 DEF ChildrenOK, HandlesOK, Fits
    <2>7. ServingOK'
      BY <1>0, <2>1, <2>4 DEF ChildrenOK, ServingOK, Fits
    <2> QED BY <2>2, <2>3, <2>6, <2>7 DEF ChildrenOK
  <1> QED BY <1>1, <1>2

-----------------------------------------------------------------------------
(* The supervisor's steps. *)

\* A row that is settled with the processes as they are.
LEMMA SettlesStill ==
  ASSUME ChildrenOK, CoolingOK, NEW i \in SnapshotRow,
         NEW s \in {"STOPPED", "RUNNING", "COOLING", "CRASHED"}, NEW must \in BOOLEAN,
         NEW h \in Pids \cup {None}, NEW d \in SUBSET Collectors,
         Settles(i, s, must, h, d, proc),
         sup.at # "down",
         h # None => h = tracked[i.of] /\ s = "RUNNING",
         h = None => \A p \in Pids : ~ServesIn(proc, p, i.of)
  PROVE  ChildrenOK' /\ CoolingOK'
  <1>1. i.of \in Collectors
    BY DEF SnapshotRow
  <1>2. proc \in [Pids -> Process]
    BY DEF ChildrenOK, ProcOK
  <1>3. h # None => proc[h].of = i.of
    BY <1>1 DEF ChildrenOK, HandlesOK
  <1>4. \A c \in Collectors : tracked[c] # None => proc[tracked[c]].of = c
    BY DEF ChildrenOK, HandlesOK
  <1>5. \A p \in Pids, c \in Collectors :
          ServesIn(proc, p, c) => IF c = i.of THEN p = h ELSE ServesIn(proc, p, c)
    BY <1>1 DEF ChildrenOK, ServingOK
  <1>6. Fits(i, s, h, proc)
    BY <1>3, <1>4, <1>5 DEF Fits
  <1> QED BY <1>2, <1>6, SettlesKeeps

\* Where there is no handle, or the process it is on has exited, nobody serves.
LEMMA NobodyServes ==
  ASSUME ChildrenOK, NEW c \in Collectors, tracked[c] = None \/ HasExited(c)
  PROVE  \A p \in Pids : ~ServesIn(proc, p, c)
  <1> SUFFICES ASSUME NEW p \in Pids, ServesIn(proc, p, c) PROVE FALSE
    OBVIOUS
  <1>1. tracked[c] = p
    BY DEF ChildrenOK, ServingOK
  <1>2. p # None
    BY FleetConstants
  <1> QED BY <1>1, <1>2 DEF HasExited, ServesIn, Live

\* Terminating a child leaves nobody serving its collector.
LEMMA StopsKeeps ==
  ASSUME ChildrenOK, CoolingOK, NEW i \in SnapshotRow, Stops(i), sup.at # "down"
  PROVE  ChildrenOK' /\ CoolingOK'
  <1>1. i.of \in Collectors
    BY DEF SnapshotRow
  <1>2. cooling \ {i.of} \in SUBSET Collectors
    BY DEF CoolingOK
  <1>3. CASE ~Alive(i.of)
    <2>1. Settles(i, "STOPPED", FALSE, None, cooling \ {i.of}, proc)
      BY <1>3 DEF Stops
    <2>2. tracked[i.of] = None \/ HasExited(i.of)
      BY <1>3 DEF Alive, HasExited
    <2> QED BY <1>1, <1>2, <2>1, <2>2, NobodyServes, SettlesStill
  <1>4. CASE Alive(i.of)
    <2> DEFINE t == tracked[i.of]
               ps == Terminated(t)
    <2>1. t \in Pids /\ proc[t].of = i.of
      BY <1>1, <1>4 DEF Alive, ChildrenOK, HandlesOK
    <2>2. Settles(i, "STOPPED", FALSE, None, cooling \ {i.of}, ps)
      BY <1>4 DEF Stops
    <2>3. \A q \in Pids : ps[q] = IF q = t
                                  THEN [of |-> proc[t].of, at |-> OnSigterm(proc[t].at), asked |-> TRUE]
                                  ELSE proc[q]
      BY DEF ChildrenOK, ProcOK, Terminated
    <2>4. \A q \in Pids : proc[q] \in Process
      BY DEF ChildrenOK, ProcOK
    <2>5. ps \in [Pids -> Process]
      <3>1. OnSigterm(proc[t].at) \in Stages
        BY <2>1, <2>4 DEF OnSigterm, Stages, Process
      <3>2. [of |-> proc[t].of, at |-> OnSigterm(proc[t].at), asked |-> TRUE] \in Process
        BY <3>1, <2>1, <2>4 DEF Process
      <3> QED BY <3>2, <2>4 DEF ChildrenOK, ProcOK, Terminated
    <2>6. \A c \in Collectors \ {i.of} : tracked[c] # None => ps[tracked[c]].of = c
      BY <2>1, <2>3 DEF ChildrenOK, HandlesOK
    <2>7. \A p \in Pids, c \in Collectors : ServesIn(ps, p, c) => p # t /\ ServesIn(proc, p, c)
      BY <2>3 DEF ServesIn
    <2>8. \A p \in Pids, c \in Collectors :
            ServesIn(ps, p, c) => IF c = i.of THEN p = None ELSE ServesIn(proc, p, c)
      BY <2>7 DEF ChildrenOK, ServingOK
    <2>9. Fits(i, "STOPPED", None, ps)
      BY <2>6, <2>8 DEF Fits
    <2> HIDE DEF ps
    <2> QED BY <1>2, <2>2, <2>5, <2>9, SettlesKeeps
  <1> QED BY <1>3, <1>4

\* Every case of the pass keeps the children and their handles in order.
LEMMA ReconcileKeeps ==
  ASSUME ChildrenOK, CoolingOK, Reconcile
  PROVE  ChildrenOK' /\ CoolingOK'
  <1>1. PICK i \in sup.todo : Crashed(i) \/ Stops(i) \/ Heartbeat(i) \/ Cools(i) \/ SpawnReads(i)
    BY DEF Reconcile
  <1>2. i \in SnapshotRow /\ i.of \in Collectors
    BY DEF ChildrenOK, SupOK, SnapshotRow
  <1>3. sup.at = "reconcile"
    BY DEF Reconcile
  <1>4. CASE Crashed(i)
    <2>1. cooling \cup {i.of} \in SUBSET Collectors
      BY <1>2 DEF CoolingOK
    <2> QED BY <1>2, <1>3, <1>4, <2>1, NobodyServes, SettlesStill DEF Crashed
  <1>5. CASE Stops(i)
    BY <1>2, <1>3, <1>5, StopsKeeps
  <1>6. CASE Heartbeat(i)
    <2>1. tracked[i.of] \in Pids \cup {None} /\ tracked[i.of] # None
      BY <1>2, <1>6 DEF ChildrenOK, HandlesOK, Heartbeat, Alive
    <2>2. cooling \in SUBSET Collectors
      BY DEF CoolingOK
    <2> QED BY <1>2, <1>3, <1>6, <2>1, <2>2, SettlesStill DEF Heartbeat
  <1>7. CASE Cools(i)
    <2>1. cooling \in SUBSET Collectors
      BY DEF CoolingOK
    <2> QED BY <1>2, <1>3, <1>7, <2>1, NobodyServes, SettlesStill DEF Cools
  <1>8. CASE SpawnReads(i)
    <2>1. /\ sup' = [at |-> IF identity[i.of] = "IN_USE" THEN "clear" ELSE "exec",
                     todo |-> sup.todo, item |-> i]
          /\ UNCHANGED <<observed, proc, tracked, cooling>>
          /\ tracked[i.of] = None
      BY <1>8 DEF SpawnReads, Ticks, memory
    <2>2. SupOK'
      BY <1>2, <2>1 DEF ChildrenOK, SupOK
    <2>3. ObservedOK' /\ ProcOK' /\ HandlesOK' /\ ServingOK' /\ CoolingOK'
      BY <2>1 DEF ChildrenOK, ObservedOK, ProcOK, HandlesOK, ServingOK, CoolingOK
    <2> QED BY <2>2, <2>3 DEF ChildrenOK
  <1> QED BY <1>1, <1>4, <1>5, <1>6, <1>7, <1>8

\* A child is spawned where none serves, and its handle is kept.
LEMMA SpawnsKeeps ==
  ASSUME ChildrenOK, CoolingOK, Spawns
  PROVE  ChildrenOK' /\ CoolingOK'
  <1> DEFINE i == sup.item
  <1>1. i \in SnapshotRow /\ i.of \in Collectors /\ tracked[i.of] = None /\ sup.at = "exec"
    BY DEF Spawns, ChildrenOK, SupOK, SnapshotRow
  <1>2. PICK p \in Unused :
          Settles(i, "RUNNING", FALSE, p, cooling, [proc EXCEPT ![p] = Child(i.of)])
    BY DEF Spawns
  <1> DEFINE ps == [proc EXCEPT ![p] = Child(i.of)]
  <1>3. p \in Pids /\ p # None /\ \A c \in Collectors : tracked[c] # p
    BY FleetConstants DEF Unused
  <1>4. \A q \in Pids : ps[q] = IF q = p THEN Child(i.of) ELSE proc[q]
    BY DEF ChildrenOK, ProcOK
  <1>5. Child(i.of) \in Process
    BY <1>1 DEF Child, Process, Stages
  <1>6. ps \in [Pids -> Process]
    BY <1>5 DEF ChildrenOK, ProcOK
  <1>7. ps[p].of = i.of
    BY <1>3, <1>4 DEF Child
  <1>8. \A c \in Collectors \ {i.of} : tracked[c] # None => ps[tracked[c]].of = c
    BY <1>3, <1>4 DEF ChildrenOK, HandlesOK
  <1>9. \A q \in Pids, c \in Collectors :
          ServesIn(ps, q, c) => IF c = i.of THEN q = p ELSE ServesIn(proc, q, c)
    <2> SUFFICES ASSUME NEW q \in Pids, NEW c \in Collectors, ServesIn(ps, q, c)
                 PROVE  IF c = i.of THEN q = p ELSE ServesIn(proc, q, c)
      OBVIOUS
    <2>1. CASE q = p
      BY <2>1, <1>4 DEF ServesIn, Child
    <2>2. CASE q # p
      <3>1. ServesIn(proc, q, c)
        BY <2>2, <1>4 DEF ServesIn
      <3> QED BY <3>1, <1>1, NobodyServes
    <2> QED BY <2>1, <2>2
  <1>10. cooling \in SUBSET Collectors
    BY DEF CoolingOK
  <1>11. Fits(i, "RUNNING", p, ps)
    BY <1>7, <1>8, <1>9 DEF Fits
  <1>12. Settles(i, "RUNNING", FALSE, p, cooling, ps)
    BY <1>2
  <1> HIDE DEF ps, i
  <1> QED BY <1>1, <1>3, <1>6, <1>10, <1>11, <1>12, SettlesKeeps

\* A refused spawn leaves the collector without a child.
LEMMA SpawnFailsKeeps ==
  ASSUME ChildrenOK, CoolingOK, SpawnFails
  PROVE  ChildrenOK' /\ CoolingOK'
  <1>1. sup.item \in SnapshotRow /\ sup.item.of \in Collectors
        /\ tracked[sup.item.of] = None /\ sup.at = "exec"
    BY DEF SpawnFails, ChildrenOK, SupOK, SnapshotRow
  <1>2. cooling \cup {sup.item.of} \in SUBSET Collectors
    BY <1>1 DEF CoolingOK
  <1> QED BY <1>1, <1>2, NobodyServes, SettlesStill DEF SpawnFails

\* The steps of the tick that touch no child and no handle.
LEMMA TickKeeps ==
  ASSUME IInv,
         \/ Snapshot \/ ClearsClaim \/ PassEnds \/ Publishes \/ TickEnds \/ Restarts
         \/ \E c \in Collectors : LeasesScout(c)
  PROVE  ChildrenOK' /\ CoolingOK'
  <1>1. UNCHANGED <<observed, proc, tracked, cooling>>
    BY DEF Snapshot, ClearsClaim, PassEnds, Publishes, TickEnds, Restarts, LeasesScout, memory
  <1>2. ObservedOK' /\ ProcOK' /\ ServingOK' /\ CoolingOK'
    BY <1>1 DEF IInv, ChildrenOK, ObservedOK, ProcOK, ServingOK, CoolingOK
  <1>3. SupOK' /\ sup'.at # "down"
    <2>1. CASE Snapshot
      <3>1. sup' = [at |-> "reconcile", todo |-> {[of |-> c, desired |-> desired[c]] : c \in present},
                    item |-> None]
        BY <2>1 DEF Snapshot, Ticks
      <3>2. \A c \in present : [of |-> c, desired |-> desired[c]] \in SnapshotRow
        BY DEF IInv, RowsOK, SnapshotRow
      <3> QED BY <3>1, <3>2 DEF SupOK
    <2>2. CASE ClearsClaim
      <3>1. sup' = [at |-> "exec", todo |-> sup.todo, item |-> sup.item] /\ sup.at = "clear"
        BY <2>2 DEF ClearsClaim, Ticks
      <3> QED BY <3>1, <1>1 DEF IInv, ChildrenOK, SupOK
    <2>3. CASE PassEnds
      <3>1. sup' = [at |-> "dispatch", todo |-> {}, item |-> None]
        BY <2>3 DEF PassEnds, Ticks
      <3> QED BY <3>1 DEF SupOK
    <2>4. CASE Publishes
      <3>1. sup' = [at |-> "dispatch", todo |-> {}, item |-> None]
        BY <2>4 DEF Publishes, Ticks
      <3> QED BY <3>1 DEF SupOK
    <2>5. CASE TickEnds \/ Restarts
      BY <2>5 DEF TickEnds, Restarts, Idle, SupOK
    <2>6. ASSUME NEW c \in Collectors, LeasesScout(c) PROVE SupOK' /\ sup'.at # "down"
      <3>1. sup' = [at |-> "publish", todo |-> {}, item |-> c]
        BY <2>6 DEF LeasesScout, Ticks
      <3> QED BY <3>1 DEF SupOK
    <2> QED BY <2>1, <2>2, <2>3, <2>4, <2>5, <2>6
  <1>4. HandlesOK'
    BY <1>1, <1>3 DEF IInv, ChildrenOK, HandlesOK
  <1> QED BY <1>2, <1>3, <1>4 DEF ChildrenOK

-----------------------------------------------------------------------------
(* The other steps. *)

\* Every step of a process, its death and a panic only move processes.
LEMMA ProcessKeeps ==
  ASSUME IInv, Panic \/ \E p \in Pids : ProcessStep(p) \/ Dies(p)
  PROVE  ChildrenOK' /\ CoolingOK'
  <1>1. UNCHANGED <<observed, tracked, sup, cooling>>
    BY DEF Panic, ProcessStep, Dies, ClaimReads, ClaimWrites, Ready, Freezes, Disconnects,
           Releases, Exits, memory
  <1>2. CASE Panic
    <2> DEFINE ps == [p \in Pids |-> IF proc[p].at = "ready" THEN Moved(proc[p], "panicked")
                                                              ELSE proc[p]]
    <2>1. ps \in [Pids -> Process]
      BY DEF IInv, ChildrenOK, ProcOK, Process, Moved, Stages
    <2>2. \A p \in Pids : ps[p].of = proc[p].of
      BY DEF Moved
    <2>3. \A p \in Pids, c \in Collectors : ServesIn(ps, p, c) => ServesIn(proc, p, c)
      BY DEF ServesIn, Moved, Live, Stages
    <2>4. proc' = ps
      BY <1>2 DEF Panic
    <2> HIDE DEF ps
    <2>5. ChildrenOK'
      BY <1>1, <2>1, <2>2, <2>3, <2>4, MoveKeeps DEF IInv
    <2> QED BY <1>1, <2>5 DEF IInv, CoolingOK
  <1>3. ASSUME NEW p \in Pids, ProcessStep(p) \/ Dies(p) PROVE ChildrenOK' /\ CoolingOK'
    <2>1. proc[p].at \in Live /\ \E stage \in Stages : GoesTo(p, stage)
      BY <1>3 DEF ProcessStep, Dies, ClaimReads, ClaimWrites, Ready, Freezes, Disconnects,
                  Releases, Exits, Live, Stages
    <2>2. ChildrenOK'
      BY <1>1, <2>1, GoesToKeeps DEF IInv
    <2> QED BY <1>1, <2>2 DEF IInv, CoolingOK
  <1> QED BY <1>2, <1>3

\* Whatever the step, the rows and the counters keep their types.
LEMMA RowsKeep ==
  ASSUME IInv, Next
  PROVE  RowsOK' /\ BoundsOK'
  <1>1. present' \subseteq Collectors /\ deleting' \subseteq present'
        /\ desired' \in [Collectors -> {"RUNNING", "STOPPED"}]
    <2>1. CASE UNCHANGED rows
      BY <2>1 DEF rows, IInv, RowsOK
    <2>2. ASSUME NEW c \in Collectors, NEW s \in {"RUNNING", "STOPPED"}, SetDesired(c, s)
          PROVE  <1>1!:
      BY <2>2 DEF SetDesired, IInv, RowsOK
    <2>3. ASSUME NEW c \in Collectors, DeleteReads(c) \/ DeleteWrites(c)
          PROVE  <1>1!:
      BY <2>3 DEF DeleteReads, DeleteWrites, IInv, RowsOK
    <2> QED BY <2>1, <2>2, <2>3 DEF Next, Operator, ActOnIdentity, FreezeAll, Panic,
              ProcessStep, ClaimReads, ClaimWrites, Ready, Freezes, Disconnects, Releases, Exits,
              Banned, Dies, SupervisorStep, Snapshot, Reconcile, ClearsClaim, Spawns, PassEnds,
              Publishes, TickEnds, Restarts, SpawnFails, SupervisorCrashes, LeasesScout,
              CooldownElapses
  <1>2. identity' \in [Collectors -> {"AVAILABLE", "IN_USE", "FROZEN", "BURNED"}]
    <2>1. CASE UNCHANGED identity
      BY <2>1 DEF IInv, RowsOK
    <2>2. CASE FreezeAllIdentities
      BY <2>2 DEF FreezeAllIdentities, IInv, RowsOK
    <2>3. ASSUME NEW c, NEW s \in {"AVAILABLE", "IN_USE", "FROZEN", "BURNED"},
                 identity' = [identity EXCEPT ![c] = s]
          PROVE  <1>2!:
      BY <2>3 DEF IInv, RowsOK
    <2> QED BY <2>1, <2>2, <2>3 DEF Next, Operator, SetDesired, DeleteReads, DeleteWrites,
              ActOnIdentity, FreezeAll, Panic,
              ProcessStep, ClaimReads, ClaimWrites, Ready, Freezes, Disconnects, Releases, Exits,
              Banned, Dies, SupervisorStep, Snapshot, Reconcile, ClearsClaim, Spawns, PassEnds,
              Publishes, TickEnds, Restarts, SpawnFails, SupervisorCrashes, LeasesScout,
              CooldownElapses
  <1>3. BoundsOK'
    <2>1. (Commanded \/ UNCHANGED commands) /\ (Faulty \/ UNCHANGED faults)
      BY DEF Next, Operator, SetDesired, DeleteReads, DeleteWrites,
             ActOnIdentity, FreezeAll, Panic,
             ProcessStep, ClaimReads, ClaimWrites, Ready, Freezes, Disconnects, Releases, Exits,
             Banned, Dies, SupervisorStep, Snapshot, Reconcile, ClearsClaim, Spawns, PassEnds,
             Publishes, TickEnds, Restarts, SpawnFails, SupervisorCrashes, LeasesScout,
             CooldownElapses, bounds
    <2> QED BY <2>1, FleetConstants DEF Commanded, Faulty, IInv, BoundsOK
  <1> QED BY <1>1, <1>2, <1>3 DEF RowsOK

\* Whatever the step, the children and their handles stay in order.
LEMMA ChildrenKeep ==
  ASSUME IInv, Next
  PROVE  ChildrenOK' /\ CoolingOK'
  <1>1. CASE Panic \/ \E p \in Pids : ProcessStep(p) \/ Dies(p)
    BY <1>1, ProcessKeeps
  <1>2. CASE \/ Snapshot \/ ClearsClaim \/ PassEnds \/ Publishes \/ TickEnds \/ Restarts
             \/ \E c \in Collectors : LeasesScout(c)
    BY <1>2, TickKeeps
  <1>3. CASE Reconcile \/ Spawns \/ SpawnFails
    BY <1>3, ReconcileKeeps, SpawnsKeeps, SpawnFailsKeeps DEF IInv
  <1>4. CASE SupervisorCrashes
    BY <1>4, DownKeeps DEF SupervisorCrashes, IInv, ChildrenOK, ProcOK
  <1>5. CASE \/ \E c \in Collectors : CooldownElapses(c)
             \/ \E c \in Collectors, s \in {"RUNNING", "STOPPED"} : SetDesired(c, s)
             \/ \E c \in Collectors : DeleteReads(c) \/ DeleteWrites(c)
             \/ \E c \in Collectors, s \in {"AVAILABLE", "IN_USE", "FROZEN", "BURNED"} :
                  ActOnIdentity(c, s)
             \/ FreezeAll
             \/ \E p \in Pids : Banned(p)
    <2>1. UNCHANGED <<observed, proc, tracked, sup>> /\ cooling' \subseteq cooling
      BY <1>5 DEF CooldownElapses, SetDesired, DeleteReads, DeleteWrites, ActOnIdentity,
                  FreezeAll, Banned, memory
    <2>2. ObservedOK' /\ ProcOK' /\ HandlesOK' /\ ServingOK' /\ SupOK'
      BY <2>1 DEF IInv, ChildrenOK, ObservedOK, ProcOK, HandlesOK, ServingOK, SupOK
    <2> QED BY <2>1, <2>2 DEF IInv, ChildrenOK, CoolingOK
  <1> QED BY <1>1, <1>2, <1>3, <1>4, <1>5 DEF Next, Operator, SupervisorStep

-----------------------------------------------------------------------------
(* The theorems. *)

\* IInv holds of every reachable state.
THEOREM FleetInductive == Spec => []IInv
  <1>1. Init => IInv
    <2> SUFFICES ASSUME Init PROVE IInv
      OBVIOUS
    <2>1. RowsOK /\ BoundsOK /\ CoolingOK /\ ObservedOK
      BY FleetConstants DEF Init, RowsOK, BoundsOK, CoolingOK, ObservedOK
    <2>2. ProcOK /\ ServingOK
      BY DEF Init, ProcOK, ServingOK, ServesIn, NoProcess, Process, Stages, Live
    <2>3. HandlesOK /\ SupOK
      BY DEF Init, HandlesOK, SupOK, Idle
    <2> QED BY <2>1, <2>2, <2>3 DEF IInv, ChildrenOK
  <1>2. IInv /\ [Next]_vars => IInv'
    <2> SUFFICES ASSUME IInv, [Next]_vars PROVE IInv'
      OBVIOUS
    <2>1. CASE Next
      BY <2>1, RowsKeep, ChildrenKeep DEF IInv
    <2>2. CASE UNCHANGED vars
      BY <2>2 DEF vars, IInv, RowsOK, BoundsOK, CoolingOK, ChildrenOK, ObservedOK, ProcOK,
                  HandlesOK, ServingOK, SupOK
    <2> QED BY <2>1, <2>2
  <1> QED BY <1>1, <1>2, PTL DEF Spec

\* The variables keep their types, and a handle is always on a process of the
\* collector it is filed under.
THEOREM FleetTypeCorrect == Spec => []TypeOK
  <1>1. IInv => TypeOK
    BY DEF IInv, RowsOK, BoundsOK, CoolingOK, ChildrenOK, ObservedOK, ProcOK, HandlesOK,
           ServingOK, SupOK, TypeOK, Process
  <1> QED BY <1>1, FleetInductive, PTL

\* A collector never has two children that nobody asked to stop.
THEOREM OneServingChildHolds == Spec => []OneServingChild
  <1>1. IInv => OneServingChild
    BY DEF IInv, ChildrenOK, ServingOK, ServesIn, OneServingChild, Serving, LiveOf
  <1> QED BY <1>1, FleetInductive, PTL

\* A row that says STOPPED has no child that was not told to stop.
THEOREM StoppedMeansAskedHolds == Spec => []StoppedMeansAsked
  <1>1. ASSUME IInv PROVE StoppedMeansAsked
    <2> SUFFICES ASSUME NEW c \in present, observed[c] = "STOPPED", NEW p \in Serving(c)
                 PROVE  FALSE
      BY DEF StoppedMeansAsked
    <2>1. c \in Collectors /\ p \in Pids /\ ServesIn(proc, p, c)
      BY <1>1 DEF IInv, RowsOK, Serving, LiveOf, ServesIn
    <2>2. tracked[c] = p /\ p # None
      BY <1>1, <2>1, FleetConstants DEF IInv, ChildrenOK, ServingOK
    <2> QED BY <1>1, <2>1, <2>2 DEF IInv, ChildrenOK, HandlesOK
  <1> QED BY <1>1, FleetInductive, PTL

-----------------------------------------------------------------------------
(* FORUM CRAWL.  The inductive invariants. *)

\* Where the coroutine reads a thread, and where it walks a category.
InThread == {"ingest", "publish", "turn", "close", "again"}
InWalk == {"list", "page"}

ReadRecord == [mode : {"none", "poll", "backfill", "refetch", "unheard"}, key : Keys \cup {Nil},
               page : Nat, last : Nat, req : Requests \cup {Nil}]
WalkRecord == [cat : Categories \cup {Nil}, page : Nat, last : Nat, from : Nat, left : SUBSET Keys]
CrawlerRecord == [at : {"down", "idle", "replies", "backfills", "crawl"} \cup InWalk \cup InThread,
                  swept : BOOLEAN, seen : SUBSET Categories, todo : SUBSET Requests,
                  cats : SUBSET Categories, walk : WalkRecord, read : ReadRecord]
HistoryRecord == [risen : SUBSET Threads, failed : SUBSET Threads, outgrown : SUBSET Threads,
                  nameless : SUBSET Threads, lost : SUBSET Rows, torn : SUBSET Requests,
                  unheard : SUBSET Requests, short : SUBSET Requests]
RequestRecord == [kind : {"reply", "backfill", Nil}, key : Keys \cup {Nil},
                  state : {"none", "pending", "done", "failed"}, pages : Nat]

BoardOK ==
  /\ rank \in [Threads -> Nat] /\ home \in [Threads -> Categories \cup {Nil}]
  /\ length \in [Threads -> 1..MaxLength] /\ moved \subseteq Threads
  /\ unlocked \subseteq Threads /\ posted \in [Requests -> Nat] /\ monitored \subseteq Categories

RecordsOK ==
  /\ cursor \in [Categories -> [next : Nat, complete : BOOLEAN]]
  /\ alias \in [Threads -> Keys \cup {Nil}] /\ link \subseteq Categories \X Keys
  /\ stored \subseteq Rows /\ gated \subseteq stored
  /\ request \in [Requests -> RequestRecord]
  /\ crawler \in CrawlerRecord /\ history \in HistoryRecord

\* What is read, and for what.
ReadOK ==
  LET c == crawler
      r == crawler.read
  IN /\ c.at \notin InThread => r = NoRead
     /\ c.at \in InThread => r.key \in Keys /\ r.last <= MaxLength /\ r.mode # "none"
     /\ c.at \in {"ingest", "publish", "turn"} => r.page \in 1..r.last /\ r.mode # "unheard"
     /\ c.at = "publish" => r.mode # "refetch"
     /\ c.at = "turn" => r.page < r.last
     /\ c.at = "again" => r.mode = "refetch"
     /\ r.mode = "poll" => r.req = Nil
     /\ r.mode \notin {"none", "poll"} => r.req \in c.todo /\ request[r.req].key = r.key

\* Requests in hand are pending, and all of the kind that is carried out.
TodoOK ==
  LET c == crawler
  IN /\ \A r \in c.todo : request[r].state = "pending"
     /\ c.at = "replies" \/ c.read.mode \in {"refetch", "unheard"} => \A r \in c.todo : request[r].kind = "reply"
     /\ c.at = "backfills" \/ c.read.mode = "backfill" => \A r \in c.todo : request[r].kind = "backfill"
     /\ c.at \in {"down", "idle", "crawl"} \cup InWalk \/ c.read.mode = "poll" => c.todo = {}

WalkOK ==
  crawler.at \in InWalk \/ crawler.read.mode = "poll" => crawler.walk.cat \in Categories /\ crawler.walk.page > 0

RequestOK ==
  \A r \in Requests : request[r].state # "none" =>
    request[r].kind \in {"reply", "backfill"} /\ \E e \in stored : e.key = request[r].key

BaseInv == BoardOK /\ RecordsOK /\ ReadOK /\ TodoOK /\ WalkOK /\ RequestOK /\ PublishedOnce

\* A thread's rows, and what is read of it, have the key it is known by.
KeyOf(k) == k.thread \in history.nameless \/ alias[k.thread] = k
KeyInv ==
  /\ \A t \in Threads : alias[t] # Nil => alias[t].thread = t
  /\ \A e \in stored : KeyOf(e.key)
  /\ crawler.at \in {"ingest", "publish", "turn"} => KeyOf(crawler.read.key)

\* The request whose reply is out, before it is called done or failed.
Answering(r) == crawler.read.mode \in {"refetch", "unheard"} /\ crawler.read.req = r
ReplyInv ==
  \A r \in Requests :
    /\ posted[r] > 0 => request[r].state # "none"
    /\ posted[r] > 1 => r \in history.torn
    /\ request[r].kind = "reply" =>
         /\ request[r].state = "pending" /\ posted[r] > 0 => Answering(r) \/ r \in history.torn
         /\ request[r].state = "failed" /\ posted[r] > 0 => r \in history.unheard \cup history.torn
         /\ request[r].state = "done" /\ posted[r] = 0 => r \in history.short
    /\ Answering(r) /\ crawler.read.mode = "unheard" => r \in history.unheard
    /\ Answering(r) /\ crawler.read.mode = "refetch" => posted[r] > 0 \/ r \in history.short

\* What has been read so far for the request at hand.
NoGate(k) == k.thread \in unlocked /\ \A e \in gated : e.key # k
Filled(k, n) == \A m \in 1..n : Evidence(k, m) \in stored
DoneInv ==
  LET c == crawler
      k == crawler.read.key
  IN /\ \A e \in gated : e.post = 1
     /\ \A r \in Requests : request[r].state = "done" /\ r \notin history.short =>
          IF request[r].kind = "backfill" THEN Filled(request[r].key, request[r].pages) ELSE NoGate(request[r].key)
     /\ c.read.mode = "backfill" /\ c.read.req \notin history.short =>
          Filled(k, CASE c.at = "ingest" -> c.read.page - 1
                      [] c.at = "close" -> c.read.last
                      [] OTHER -> c.read.page)
     /\ c.read.mode = "refetch" /\ c.read.req \notin history.short =>
          /\ k.thread \in unlocked
          /\ c.at = "again" \/ (c.at = "ingest" /\ c.read.page = 1) \/ NoGate(k)

\* A thread that is read, or that there is an excuse for.
Had(t) == \/ \E e \in stored : e.key.thread = t /\ e.post = 1
          \/ t \in history.risen \cup history.failed \cup history.outgrown
Place(t) == PageOf(home[t], t)
Behind(c, n) == \A t \in Threads : home[t] = c /\ Place(t) < n => Had(t)
Polled(t) == crawler.read.mode = "poll" /\ crawler.read.key.thread = t
AtHand(t) == (\E a \in crawler.walk.left : a.thread = t) \/ Polled(t)
CursorInv ==
  \A c \in Categories : /\ Behind(c, cursor[c].next)
                        /\ cursor[c].complete => \A t \in Threads : home[t] = c => Had(t)

\* What is known of the walk: of the thread that is polled, of the pages behind
\* the one to be opened, and of those up to the one that is open.
PolledOK ==
  \A t \in Threads : Polled(t) /\ (crawler.at = "ingest" => crawler.read.page > 1) => Had(t)
ToOpen ==
  crawler.at = "page" => crawler.walk.page > 1 /\ Behind(crawler.walk.cat, crawler.walk.page)
OnPage == crawler.at = "list" \/ crawler.read.mode = "poll"
Covered ==
  \A t \in Threads : home[t] = crawler.walk.cat /\ Place(t) <= crawler.walk.page => Had(t) \/ AtHand(t)
Resumes ==
  LET w == crawler.walk
  IN w.page = 1 /\ w.from # 0 => w.from > 1 /\ (w.from = 2 \/ Behind(w.cat, w.from))
WalkInv ==
  /\ PolledOK /\ ToOpen
  /\ OnPage => ((crawler.walk.page = 1 /\ crawler.walk.last = 1) \/ Covered) /\ Resumes

-----------------------------------------------------------------------------
(* Pages and keys. *)

LEMMA CeilOK ==
  ASSUME NEW n \in Nat
  PROVE  Ceil(n) \in Nat /\ (n > 0 => Ceil(n) > 0)
<1>1. PageSize \in Nat /\ PageSize > 0
  BY ForumConstants
<1> QED
  BY <1>1 DEF Ceil

LEMMA PageTyped ==
  ASSUME BoardOK, NEW c, NEW t \in Threads
  PROVE  PageOf(c, t) \in Nat /\ (home[t] = c => PageOf(c, t) > 0)
<1> DEFINE above == {u \in Listed(c) : rank[u] <= rank[t]}
<1>1. IsFiniteSet(above)
  <2>1. above \subseteq Threads
    BY DEF Listed
  <2> QED
    BY <2>1, ForumConstants, FS_Subset
<1>2. Cardinality(above) \in Nat
  BY <1>1, FS_CardinalityType
<1>3. CASE home[t] = c
  <2>1. t \in above
    BY <1>3 DEF Listed, BoardOK
  <2>2. Cardinality(above) > 0
    BY <1>1, <1>2, <2>1, FS_EmptySet
  <2> HIDE DEF above
  <2> QED
    BY <1>2, <2>2, CeilOK, <1>3 DEF PageOf, above
<1>4. CASE home[t] # c
  BY <1>4 DEF PageOf
<1> QED
  BY <1>3, <1>4

LEMMA KeysTyped ==
  /\ \A t \in Threads : UrlKey(t) \in Keys /\ UrlKey(t).thread = t
  /\ \A k \in Keys : Normal(k) \in Keys /\ Normal(k).thread = k.thread /\ k.thread \in Threads
  BY DEF UrlKey, Key, Keys, Normal

LEMMA BaseStarts == CrawlInit => BaseInv
<1> SUFFICES ASSUME CrawlInit PROVE BaseInv
  OBVIOUS
<1>1. BoardOK
  BY ForumConstants DEF CrawlInit, BoardOK
<1>2. RecordsOK
  BY DEF CrawlInit, RecordsOK, NotRunning, NoWalk, NoRead, CrawlerRecord, WalkRecord, ReadRecord,
         HistoryRecord, RequestRecord
<1>3. ReadOK /\ TodoOK /\ WalkOK /\ RequestOK /\ PublishedOnce
  BY DEF CrawlInit, NotRunning, NoWalk, NoRead, ReadOK, TodoOK, WalkOK, RequestOK, PublishedOnce, InThread, InWalk
<1> QED
  BY <1>1, <1>2, <1>3 DEF BaseInv

-----------------------------------------------------------------------------
(* Every step keeps the base: what the board and the operators do. *)

LEMMA RisesTyped == Rises \subseteq Threads
  BY DEF Rises

LEMMA ToTopTyped ==
  ASSUME BoardOK, NEW t \in Threads, ToTop(t)
  PROVE  rank' \in [Threads -> Nat]
  BY DEF BoardOK, ToTop

\* The board moves, and nothing is said of it but in the history.
LEMMA BoardBase ==
  ASSUME BaseInv, BoardOK', UNCHANGED <<cursor, tables, sent, request, crawler>>,
         history' = [history EXCEPT !.risen = @ \cup Rises]
  PROVE  BaseInv'
<1>1. RecordsOK'
  BY RisesTyped DEF BaseInv, RecordsOK, HistoryRecord, tables
<1>2. history'.lost = history.lost
  BY DEF BaseInv, RecordsOK, HistoryRecord
<1>3. ReadOK' /\ TodoOK' /\ WalkOK' /\ RequestOK'
  BY DEF BaseInv, ReadOK, TodoOK, WalkOK, RequestOK, tables
<1>4. PublishedOnce'
  BY <1>2 DEF BaseInv, PublishedOnce, Post, Evidence, tables
<1> QED
  BY <1>1, <1>3, <1>4 DEF BaseInv

LEMMA MovesBase ==
  ASSUME BaseInv, Board
  PROVE  BaseInv'
<1>1. BoardOK
  BY DEF BaseInv
<1>2. ASSUME NEW t \in Threads, NewPost(t) PROVE BaseInv'
  <2>1. rank' \in [Threads -> Nat]
    BY <1>1, <1>2, ToTopTyped DEF NewPost
  <2>2. length' \in [Threads -> 1..MaxLength]
    BY <1>1, <1>2, ForumConstants DEF NewPost, BoardOK
  <2>3. BoardOK'
    BY <1>1, <1>2, <2>1, <2>2 DEF NewPost, BoardOK, account
  <2> QED
    BY <1>2, <2>3, BoardBase DEF NewPost
<1>3. ASSUME NEW t \in Threads, NEW c \in Categories, NewThread(t, c) PROVE BaseInv'
  <2>1. rank' \in [Threads -> Nat]
    BY <1>1, <1>3, ToTopTyped DEF NewThread
  <2>2. BoardOK'
    BY <1>1, <1>3, <2>1 DEF NewThread, BoardOK, account
  <2> QED
    BY <1>3, <2>2, BoardBase DEF NewThread
<1>4. ASSUME NEW t \in Threads, NEW c \in Categories, Relocates(t, c) PROVE BaseInv'
  <2>1. BoardOK'
    BY <1>1, <1>4 DEF Relocates, BoardOK, account
  <2> QED
    BY <1>4, <2>1, BoardBase DEF Relocates
<1> QED
  BY <1>2, <1>3, <1>4 DEF Board

LEMMA AsksBase ==
  ASSUME BaseInv, Operators
  PROVE  BaseInv'
<1>1. ASSUME NEW c \in Categories, Monitors(c) PROVE BaseInv'
  <2>1. BoardOK' /\ RecordsOK'
    BY <1>1 DEF BaseInv, Monitors, BoardOK, RecordsOK, board, account, tables
  <2>2. ReadOK' /\ TodoOK' /\ WalkOK' /\ RequestOK' /\ PublishedOnce'
    BY <1>1 DEF BaseInv, Monitors, ReadOK, TodoOK, WalkOK, RequestOK, PublishedOnce, Post, Evidence, tables
  <2> QED
    BY <2>1, <2>2 DEF BaseInv
<1>2. ASSUME NEW r \in Requests, NEW kind \in {"reply", "backfill"}, Asks(r, kind) PROVE BaseInv'
  <2>1. PICK e \in stored : request' = [request EXCEPT ![r] =
                     [kind |-> kind, key |-> e.key, state |-> "pending", pages |-> 0]]
    BY <1>2 DEF Asks
  <2>2. e.key \in Keys
    BY DEF BaseInv, RecordsOK, Rows
  <2>3. BoardOK' /\ RecordsOK'
    BY <1>2, <2>1, <2>2 DEF BaseInv, Asks, BoardOK, RecordsOK, board, account, tables, RequestRecord
  <2>4. r \notin crawler.todo
    BY <1>2 DEF Asks, BaseInv, TodoOK
  <2>5. \A q \in Requests : q # r => request'[q] = request[q]
    BY <2>1 DEF BaseInv, RecordsOK
  <2>6. crawler.todo \subseteq Requests
    BY DEF BaseInv, RecordsOK, CrawlerRecord
  <2>7. ReadOK' /\ TodoOK' /\ WalkOK' /\ PublishedOnce'
    BY <1>2, <2>4, <2>5, <2>6 DEF BaseInv, Asks, ReadOK, TodoOK, WalkOK, PublishedOnce, Post, Evidence, tables
  <2>8. RequestOK'
    BY <1>2, <2>1, <2>5 DEF BaseInv, Asks, RequestOK, tables, RecordsOK
  <2> QED
    BY <2>3, <2>7, <2>8 DEF BaseInv
<1> QED
  BY <1>1, <1>2 DEF Operators

-----------------------------------------------------------------------------
(* Every step keeps the base: between threads. *)

LEMMA CrawlerTyped ==
  ASSUME BaseInv
  PROVE  /\ crawler \in CrawlerRecord /\ crawler.walk \in WalkRecord /\ crawler.read \in ReadRecord
         /\ history \in HistoryRecord /\ cursor \in [Categories -> [next : Nat, complete : BOOLEAN]]
         /\ alias \in [Threads -> Keys \cup {Nil}] /\ link \subseteq Categories \X Keys
         /\ stored \subseteq Rows /\ gated \subseteq stored /\ BoardOK
  BY DEF BaseInv, RecordsOK, CrawlerRecord

\* What only adds to the tables.
LEMMA RowsBase ==
  ASSUME BaseInv, BoardOK', UNCHANGED request,
         alias' \in [Threads -> Keys \cup {Nil}], link' \subseteq Categories \X Keys,
         stored \subseteq stored', stored' \subseteq Rows, gated' \subseteq stored',
         cursor' \in [Categories -> [next : Nat, complete : BOOLEAN]],
         crawler' \in CrawlerRecord, history' \in HistoryRecord, ReadOK', TodoOK', WalkOK', PublishedOnce'
  PROVE  BaseInv'
<1>1. RecordsOK'
  BY DEF BaseInv, RecordsOK
<1>2. RequestOK'
  BY DEF BaseInv, RequestOK
<1> QED
  BY <1>1, <1>2 DEF BaseInv

\* What leaves the messages alone, and is not about to publish, or no longer.
LEMMA QuietBase ==
  ASSUME BaseInv, BoardOK', UNCHANGED <<stored, gated, sent, request>>,
         alias' \in [Threads -> Keys \cup {Nil}], link' \subseteq Categories \X Keys,
         cursor' \in [Categories -> [next : Nat, complete : BOOLEAN]],
         crawler' \in CrawlerRecord, history' \in HistoryRecord, history'.lost = history.lost,
         crawler.at # "publish", crawler'.at # "publish", ReadOK', TodoOK', WalkOK'
  PROVE  BaseInv'
<1>1. PublishedOnce'
  BY DEF BaseInv, PublishedOnce
<1>2. stored \subseteq Rows /\ gated \subseteq stored
  BY DEF BaseInv, RecordsOK
<1> QED
  BY <1>1, <1>2, RowsBase

\* The same with no thread being read.
LEMMA IdleBase ==
  ASSUME BaseInv, UNCHANGED <<board, account, monitored, tables, sent, request>>,
         cursor' \in [Categories -> [next : Nat, complete : BOOLEAN]],
         crawler' \in CrawlerRecord, history' \in HistoryRecord, history'.lost = history.lost,
         crawler.at # "publish", crawler'.at \notin InThread, crawler'.read = NoRead, TodoOK', WalkOK'
  PROVE  BaseInv'
<1>1. BoardOK'
  BY DEF BaseInv, BoardOK, board, account
<1>2. ReadOK'
  BY DEF ReadOK, NoRead, InThread
<1>3. alias \in [Threads -> Keys \cup {Nil}] /\ link \subseteq Categories \X Keys
  BY DEF BaseInv, RecordsOK
<1> QED
  BY <1>1, <1>2, <1>3, QuietBase DEF tables, InThread

LEMMA TicksBase ==
  ASSUME BaseInv, Boots \/ Leaves \/ TakesReplies \/ TakesBackfills \/ Sweeps \/ Rests \/ EndsSweep
  PROVE  BaseInv'
<1>1. /\ UNCHANGED <<board, account, monitored, cursor, tables, sent, request, history>>
      /\ crawler.at \in {"down", "idle", "replies", "backfills", "crawl"}
  BY DEF Boots, Leaves, TakesReplies, TakesBackfills, Sweeps, Rests, EndsSweep
<1>2. /\ RecordsOK /\ monitored \subseteq Categories /\ crawler.read = NoRead /\ crawler \in CrawlerRecord
      /\ \A kind \in {"reply", "backfill"} : Pending(kind) \subseteq Requests
  BY <1>1 DEF BaseInv, BoardOK, RecordsOK, ReadOK, InThread, Pending
<1>3. NotRunning \in CrawlerRecord /\ NotRunning.read = NoRead /\ NotRunning.at = "down" /\ NotRunning.todo = {}
  BY DEF NotRunning, NoWalk, NoRead, CrawlerRecord, WalkRecord, ReadRecord
<1>4. /\ crawler' \in CrawlerRecord /\ crawler'.at \in {"down", "idle", "replies", "backfills", "crawl"}
      /\ crawler'.read = NoRead
  <2>1. CASE Boots \/ Leaves
    BY <1>3, <2>1 DEF Boots, Leaves, CrawlerRecord
  <2>2. CASE TakesReplies \/ TakesBackfills
    BY <1>2, <2>2 DEF TakesReplies, TakesBackfills, CrawlerRecord
  <2>3. CASE Sweeps
    BY <1>2, <2>3 DEF Sweeps, CrawlerRecord
  <2>4. CASE Rests \/ EndsSweep
    BY <1>2, <2>4 DEF Rests, EndsSweep, CrawlerRecord
  <2> QED
    BY <2>1, <2>2, <2>3, <2>4
<1>5. \/ crawler'.todo = {}
      \/ crawler'.at = "replies" /\ crawler'.todo = Pending("reply")
      \/ crawler'.at = "backfills" /\ crawler'.todo = Pending("backfill")
  BY <1>2, <1>3 DEF Boots, Leaves, TakesReplies, TakesBackfills, Sweeps, Rests, EndsSweep, CrawlerRecord,
                    BaseInv, TodoOK
<1>6. TodoOK'
  BY <1>1, <1>4, <1>5 DEF TodoOK, NoRead, Pending, InWalk
<1>7. WalkOK'
  BY <1>4 DEF WalkOK, NoRead, InWalk
<1> QED
  BY <1>1, <1>2, <1>4, <1>6, <1>7, IdleBase DEF RecordsOK, InThread

LEMMA BreaksBase ==
  ASSUME BaseInv, Breaks
  PROVE  BaseInv'
<1>1. /\ UNCHANGED <<board, account, monitored, cursor, tables, sent, request>> /\ crawler' = NotRunning
  BY DEF Breaks
<1>2. NotRunning \in CrawlerRecord /\ NotRunning.read = NoRead /\ NotRunning.at = "down" /\ NotRunning.todo = {}
  BY DEF NotRunning, NoWalk, NoRead, CrawlerRecord, WalkRecord, ReadRecord
<1>3. crawler.at = "publish" => Post \in stored
  BY DEF BaseInv, PublishedOnce
<1>4. history' \in HistoryRecord
      /\ history'.lost = history.lost \cup (IF crawler.at = "publish" THEN {Post} ELSE {})
  <2> DEFINE lost == {Evidence(crawler.read.key, crawler.read.page) : k \in {crawler.at} \cap {"publish"}}
             torn == {r \in {crawler.read.req} \cap Requests : request[r].kind = "reply" /\ posted[r] > 0}
  <2>1. history' = [history EXCEPT !.lost = @ \cup lost, !.torn = @ \cup torn]
    BY DEF Breaks
  <2>2. history \in HistoryRecord /\ stored \subseteq Rows /\ torn \subseteq Requests
    BY DEF BaseInv, RecordsOK
  <2>3. lost = (IF crawler.at = "publish" THEN {Post} ELSE {})
    BY DEF Post
  <2>4. lost \subseteq Rows
    BY <1>3, <2>2, <2>3
  <2> HIDE DEF lost, torn
  <2> QED
    BY <2>1, <2>2, <2>3, <2>4 DEF HistoryRecord
<1>5. BoardOK' /\ RecordsOK'
  BY <1>1, <1>2, <1>4 DEF BaseInv, BoardOK, RecordsOK, board, account, tables
<1>6. ReadOK' /\ TodoOK' /\ WalkOK' /\ RequestOK'
  BY <1>1, <1>2 DEF ReadOK, TodoOK, WalkOK, BaseInv, RequestOK, tables, NoRead, InThread, InWalk
<1>7. PublishedOnce'
  BY <1>1, <1>2, <1>4 DEF PublishedOnce, BaseInv, tables
<1> QED
  BY <1>5, <1>6, <1>7 DEF BaseInv

-----------------------------------------------------------------------------
(* Every step keeps the base: from page to page of a category. *)

\* A walk in hand: what its steps leave.
LEMMA WalkBase ==
  ASSUME BaseInv, UNCHANGED <<board, account, monitored, tables, sent, request>>,
         cursor' \in [Categories -> [next : Nat, complete : BOOLEAN]],
         history' \in HistoryRecord, history'.lost = history.lost,
         crawler' \in CrawlerRecord, crawler.at \in {"crawl"} \cup InWalk, crawler'.at \in {"crawl"} \cup InWalk,
         crawler'.read = crawler.read, crawler'.todo = crawler.todo,
         crawler'.at \in InWalk => crawler'.walk.cat \in Categories /\ crawler'.walk.page > 0
  PROVE  BaseInv'
<1>1. crawler.read = NoRead /\ crawler.todo = {}
  BY DEF BaseInv, ReadOK, TodoOK, InThread, InWalk
<1>2. TodoOK' /\ WalkOK'
  BY <1>1 DEF TodoOK, WalkOK, NoRead, InWalk
<1> QED
  BY <1>1, <1>2, IdleBase DEF InThread, InWalk

LEMMA OpensBase ==
  ASSUME BaseInv, NEW c \in Categories, Opens(c) \/ OpensBlank(c) \/ PassesOver(c)
  PROVE  BaseInv'
<1>1. /\ UNCHANGED <<board, account, monitored, cursor, tables, sent, request, history>>
      /\ crawler.at = "crawl"
  BY DEF Opens, OpensBlank, PassesOver
<1>2. CASE PassesOver(c)
  <2>1. crawler' = [crawler EXCEPT !.cats = @ \ {c}]
    BY <1>2 DEF PassesOver
  <2>2. /\ crawler' \in CrawlerRecord /\ crawler'.at = "crawl"
        /\ crawler'.read = crawler.read /\ crawler'.todo = crawler.todo
    BY <1>1, <2>1, CrawlerTyped DEF CrawlerRecord
  <2> QED
    BY <1>1, <2>2, WalkBase, CrawlerTyped DEF InWalk
<1>3. ASSUME NEW last \in Nat, NEW left \in SUBSET Keys, FirstPage(c, last, left) PROVE BaseInv'
  <2> DEFINE w == [cat |-> c, page |-> 1, last |-> last, left |-> left,
                   from |-> IF cursor[c].complete THEN 0 ELSE IF cursor[c].next < 2 THEN 2 ELSE cursor[c].next]
  <2>1. w \in WalkRecord /\ w.cat = c /\ w.page = 1
    BY CrawlerTyped DEF WalkRecord
  <2>2. crawler' = [crawler EXCEPT !.at = "list", !.cats = @ \ {c}, !.walk = w]
    BY <1>3 DEF FirstPage
  <2> HIDE DEF w
  <2>3. /\ crawler' \in CrawlerRecord /\ crawler'.at = "list" /\ crawler'.walk = w
        /\ crawler'.read = crawler.read /\ crawler'.todo = crawler.todo
    BY <2>1, <2>2, CrawlerTyped DEF CrawlerRecord, InWalk
  <2> QED
    BY <1>1, <2>1, <2>3, WalkBase, CrawlerTyped DEF InWalk
<1>4. PageCount(c) \in Nat
  <2>1. Listed(c) \subseteq Threads
    BY DEF Listed
  <2>2. Cardinality(Listed(c)) \in Nat
    BY <2>1, ForumConstants, FS_Subset, FS_CardinalityType
  <2> QED
    BY <2>2, CeilOK DEF PageCount
<1>5. Linked(c, 1) \subseteq Keys
  BY KeysTyped DEF Linked, Listed
<1> QED
  BY <1>2, <1>3, <1>4, <1>5 DEF Opens, OpensBlank

LEMMA PagesBase ==
  ASSUME BaseInv, LeavesFirst \/ SavesCursor \/ SavesNothing \/ Turns \/ TurnsBlank \/ TurnsNot
  PROVE  BaseInv'
<1>1. /\ UNCHANGED <<board, account, monitored, tables, sent, request>>
      /\ crawler.at \in InWalk
  BY DEF LeavesFirst, SavesCursor, SavesNothing, Turns, TurnsBlank, TurnsNot, PageDone, InWalk
<1>2. /\ crawler \in CrawlerRecord /\ crawler.walk \in WalkRecord /\ crawler.walk.cat \in Categories
      /\ crawler.walk.page \in Nat /\ crawler.walk.page > 0 /\ crawler.walk.last \in Nat /\ crawler.walk.from \in Nat
  BY <1>1, CrawlerTyped DEF BaseInv, WalkOK, WalkRecord
<1>3. cursor' \in [Categories -> [next : Nat, complete : BOOLEAN]]
  <2>1. ASSUME NEW n \in Nat, NEW b \in BOOLEAN, cursor' = [cursor EXCEPT ![crawler.walk.cat] = [next |-> n, complete |-> b]]
        PROVE  cursor' \in [Categories -> [next : Nat, complete : BOOLEAN]]
    BY <1>2, <2>1, CrawlerTyped
  <2>2. CASE SavesCursor
    <3>1. cursor' = [cursor EXCEPT ![crawler.walk.cat] =
                       [next |-> crawler.walk.page + 1, complete |-> crawler.walk.page >= crawler.walk.last]]
      BY <2>2 DEF SavesCursor
    <3>2. crawler.walk.page + 1 \in Nat /\ (crawler.walk.page >= crawler.walk.last) \in BOOLEAN
      BY <1>2
    <3> QED
      BY <2>1, <3>1, <3>2
  <2>3. CASE TurnsNot
    BY <1>2, <2>1, <2>3 DEF TurnsNot
  <2>4. CASE LeavesFirst \/ SavesNothing \/ Turns \/ TurnsBlank
    BY <2>4, CrawlerTyped DEF LeavesFirst, SavesNothing, Turns, TurnsBlank
  <2> QED
    BY <2>2, <2>3, <2>4
<1>4. history' \in HistoryRecord /\ history'.lost = history.lost
  BY CrawlerTyped DEF LeavesFirst, SavesCursor, SavesNothing, Turns, TurnsBlank, TurnsNot, HistoryRecord
<1>5. NoWalk \in WalkRecord
  BY DEF NoWalk, WalkRecord
<1>6. ASSUME NEW page \in Nat
      PROVE  /\ TurnsTo(page) \in CrawlerRecord /\ TurnsTo(page).at \in {"crawl", "page"}
             /\ TurnsTo(page).read = crawler.read /\ TurnsTo(page).todo = crawler.todo
             /\ TurnsTo(page).at = "page" => TurnsTo(page).walk.cat = crawler.walk.cat /\ TurnsTo(page).walk.page > 0
  <2>1. CASE page # 0 /\ page <= crawler.walk.last
    <3> DEFINE w == [crawler.walk EXCEPT !.page = page]
    <3>1. w \in WalkRecord /\ w.cat = crawler.walk.cat /\ w.page = page
      BY <1>2 DEF WalkRecord
    <3>2. TurnsTo(page) = [crawler EXCEPT !.at = "page", !.walk = w]
      BY <1>2, <2>1 DEF TurnsTo, CrawlerRecord
    <3> HIDE DEF w
    <3>3. page > 0
      BY <2>1
    <3> QED
      BY <1>2, <3>1, <3>2, <3>3 DEF CrawlerRecord, InWalk
  <2>2. CASE ~(page # 0 /\ page <= crawler.walk.last)
    <3>1. TurnsTo(page) = [crawler EXCEPT !.at = "crawl", !.walk = NoWalk]
      BY <2>2 DEF TurnsTo
    <3> QED
      BY <1>2, <1>5, <3>1 DEF CrawlerRecord
  <2> QED
    BY <2>1, <2>2
<1>7. ASSUME NEW left \in SUBSET Keys, crawler' = [crawler EXCEPT !.at = "list", !.walk.left = left]
      PROVE  /\ crawler' \in CrawlerRecord /\ crawler'.at = "list"
             /\ crawler'.read = crawler.read /\ crawler'.todo = crawler.todo
             /\ crawler'.walk.cat = crawler.walk.cat /\ crawler'.walk.page = crawler.walk.page
  BY <1>2, <1>7 DEF CrawlerRecord, WalkRecord, InWalk
<1>8. /\ crawler' \in CrawlerRecord /\ crawler'.at \in {"crawl"} \cup InWalk
      /\ crawler'.read = crawler.read /\ crawler'.todo = crawler.todo
      /\ crawler'.at \in InWalk => crawler'.walk.cat \in Categories /\ crawler'.walk.page > 0
  <2>1. CASE LeavesFirst
    BY <1>2, <1>6, <2>1 DEF LeavesFirst, InWalk
  <2>2. CASE SavesCursor
    BY <1>2, <1>6, <2>2 DEF SavesCursor, InWalk
  <2>3. CASE Turns
    <3>1. Linked(crawler.walk.cat, crawler.walk.page) \subseteq Keys
      BY KeysTyped DEF Linked, Listed
    <3> QED
      BY <1>2, <1>7, <2>3, <3>1 DEF Turns, InWalk
  <2>4. CASE TurnsBlank
    BY <1>2, <2>4 DEF TurnsBlank, CrawlerRecord, InWalk
  <2>5. CASE SavesNothing \/ TurnsNot
    BY <1>2, <1>5, <2>5 DEF SavesNothing, TurnsNot, CrawlerRecord, InWalk
  <2> QED
    BY <2>1, <2>2, <2>3, <2>4, <2>5
<1> QED
  BY <1>1, <1>3, <1>4, <1>8, WalkBase DEF InWalk

-----------------------------------------------------------------------------
(* Every step keeps the base: from thread to thread. *)

LEMMA PollingBase ==
  ASSUME BaseInv, NEW a, Polling(a), NEW where \in {"ingest", "close"}, NEW key \in Keys,
         NEW last \in 1..MaxLength, Reads(where, a, key, last),
         alias' \in [Threads -> Keys \cup {Nil}], history' \in HistoryRecord, history'.lost = history.lost,
         UNCHANGED <<board, account, monitored, cursor, link, stored, gated, sent, request>>
  PROVE  BaseInv'
<1> DEFINE w == [crawler.walk EXCEPT !.left = @ \ {a}]
           r == Reading("poll", key, 1, last, Nil)
<1>1. crawler.at = "list" /\ crawler.todo = {} /\ crawler.walk.cat \in Categories /\ crawler.walk.page > 0
  BY DEF Polling, BaseInv, TodoOK, WalkOK, InWalk
<1>2. w \in WalkRecord /\ w.cat = crawler.walk.cat /\ w.page = crawler.walk.page
  BY CrawlerTyped DEF WalkRecord
<1>3. /\ r \in ReadRecord /\ r.mode = "poll" /\ r.key \in Keys /\ r.page \in 1..r.last
      /\ r.last <= MaxLength /\ r.req = Nil
  BY ForumConstants DEF ReadRecord, Reading
<1>4. crawler' = [crawler EXCEPT !.at = where, !.walk = w, !.read = r]
  BY CrawlerTyped DEF Reads, CrawlerRecord
<1> HIDE DEF w, r
<1>5. /\ crawler' \in CrawlerRecord /\ crawler'.at = where /\ crawler'.walk = w /\ crawler'.read = r
      /\ crawler'.todo = {}
  BY <1>1, <1>2, <1>3, <1>4, CrawlerTyped DEF CrawlerRecord, InThread
<1>6. ReadOK' /\ TodoOK' /\ WalkOK'
  BY <1>1, <1>2, <1>3, <1>5 DEF ReadOK, TodoOK, WalkOK, InThread, InWalk
<1>7. BoardOK'
  BY CrawlerTyped DEF BoardOK, board, account
<1> QED
  BY <1>1, <1>5, <1>6, <1>7, QuietBase, CrawlerTyped

LEMMA ShallowTyped ==
  ASSUME BoardOK, NEW t \in Threads
  PROVE  Shallow(t) \in 1..MaxLength
  BY ForumConstants DEF BoardOK, Shallow

LEMMA PollsBase ==
  ASSUME BaseInv, NEW a \in crawler.walk.left, Polls(a) \/ PollsNameless(a) \/ PollsBlank(a) \/ PollsNot(a)
  PROVE  BaseInv'
<1>1. a \in Keys /\ a.thread \in Threads /\ Normal(a) \in Keys
  BY CrawlerTyped, KeysTyped DEF WalkRecord, Keys
<1>2. Shallow(a.thread) \in 1..MaxLength /\ 1 \in 1..MaxLength
  BY <1>1, ShallowTyped, CrawlerTyped, ForumConstants
<1>3. Bound(a) \in Keys
  BY <1>1, CrawlerTyped DEF Bound
<1>4. history' \in HistoryRecord /\ history'.lost = history.lost
  BY <1>1, CrawlerTyped DEF Polls, PollsNameless, PollsBlank, PollsNot, HistoryRecord
<1>5. CASE Polls(a)
  <2>1. alias' \in [Threads -> Keys \cup {Nil}]
    BY <1>1, <1>3, <1>5, CrawlerTyped DEF Polls
  <2> QED
    BY <1>2, <1>3, <1>4, <1>5, <2>1, PollingBase DEF Polls
<1>6. CASE PollsNameless(a)
  BY <1>1, <1>2, <1>4, <1>6, PollingBase, CrawlerTyped DEF PollsNameless, tables
<1>7. CASE PollsBlank(a)
  BY <1>1, <1>2, <1>4, <1>7, PollingBase, CrawlerTyped DEF PollsBlank, tables
<1>8. CASE PollsNot(a)
  <2> DEFINE w == [crawler.walk EXCEPT !.left = @ \ {a}]
  <2>1. w \in WalkRecord /\ w.cat = crawler.walk.cat /\ w.page = crawler.walk.page
    BY CrawlerTyped DEF WalkRecord
  <2>2. crawler' = [crawler EXCEPT !.walk = w] /\ crawler.at = "list"
    BY <1>8, CrawlerTyped DEF PollsNot, Polling, CrawlerRecord
  <2>3. crawler.walk.cat \in Categories /\ crawler.walk.page > 0
    BY <2>2 DEF BaseInv, WalkOK, InWalk
  <2> HIDE DEF w
  <2>4. /\ crawler' \in CrawlerRecord /\ crawler'.at = "list" /\ crawler'.walk = w
        /\ crawler'.read = crawler.read /\ crawler'.todo = crawler.todo
    BY <2>1, <2>2, CrawlerTyped DEF CrawlerRecord
  <2> QED
    BY <1>4, <1>8, <2>1, <2>2, <2>3, <2>4, WalkBase, CrawlerTyped DEF PollsNot, InWalk
<1> QED
  BY <1>5, <1>6, <1>7, <1>8

LEMMA PolledBase ==
  ASSUME BaseInv, Skips \/ Links
  PROVE  BaseInv'
<1>1. /\ UNCHANGED <<board, account, monitored, cursor, alias, stored, gated, sent, request>>
      /\ crawler.at \in {"ingest", "close"} /\ crawler.read.mode = "poll" /\ crawler' = NextThread
  BY DEF Skips, Links, tables
<1>2. crawler.todo = {} /\ crawler.walk.cat \in Categories /\ crawler.walk.page > 0 /\ crawler.read.key \in Keys
  BY <1>1 DEF BaseInv, TodoOK, WalkOK, ReadOK, InThread
<1>3. NoRead \in ReadRecord
  BY DEF NoRead, ReadRecord
<1>4. /\ crawler' \in CrawlerRecord /\ crawler'.at = "list" /\ crawler'.walk = crawler.walk
      /\ crawler'.read = NoRead /\ crawler'.todo = {}
  BY <1>1, <1>2, <1>3, CrawlerTyped DEF NextThread, CrawlerRecord, InWalk
<1>5. history' \in HistoryRecord /\ history'.lost = history.lost
  BY <1>2, CrawlerTyped DEF Skips, Links, HistoryRecord, Keys
<1>6. link' \subseteq Categories \X Keys
  BY <1>2, CrawlerTyped DEF Skips, Links, tables
<1>7. ReadOK' /\ TodoOK' /\ WalkOK'
  BY <1>2, <1>4 DEF ReadOK, TodoOK, WalkOK, NoRead, InThread, InWalk
<1>8. BoardOK'
  BY <1>1, CrawlerTyped DEF BoardOK, board, account
<1> QED
  BY <1>1, <1>4, <1>5, <1>6, <1>7, <1>8, QuietBase, CrawlerTyped

-----------------------------------------------------------------------------
(* Every step keeps the base: from page to page of a thread. *)

LEMMA ThreadBase ==
  ASSUME BaseInv, UNCHANGED request, crawler.at \in InThread, NEW place \in InThread, NEW r \in ReadRecord,
         r.mode = crawler.read.mode, r.key = crawler.read.key, r.req = crawler.read.req, r.last <= MaxLength,
         crawler' = [crawler EXCEPT !.at = place, !.read = r],
         place \in {"ingest", "publish", "turn"} => r.page \in 1..r.last /\ r.mode # "unheard",
         place = "publish" => r.mode # "refetch", place = "turn" => r.page < r.last,
         place = "again" => r.mode = "refetch"
  PROVE  /\ crawler' \in CrawlerRecord /\ crawler'.at = place /\ crawler'.read = r
         /\ ReadOK' /\ TodoOK' /\ WalkOK'
<1>1. /\ crawler' \in CrawlerRecord /\ crawler'.at = place /\ crawler'.read = r
      /\ crawler'.walk = crawler.walk /\ crawler'.todo = crawler.todo
  BY CrawlerTyped DEF CrawlerRecord
<1>2. ReadOK'
  BY <1>1 DEF ReadOK, BaseInv, InThread
<1>3. TodoOK' /\ WalkOK'
  BY <1>1 DEF TodoOK, WalkOK, BaseInv, InThread, InWalk
<1> QED
  BY <1>1, <1>2, <1>3

LEMMA AfterPageBase ==
  ASSUME BaseInv, UNCHANGED request, crawler.at \in {"ingest", "publish"}, crawler' = AfterPage
  PROVE  /\ crawler' \in CrawlerRecord /\ crawler'.at \in {"turn", "close"} /\ crawler'.read = crawler.read
         /\ ReadOK' /\ TodoOK' /\ WalkOK'
<1>1. /\ crawler.read.page \in 1..crawler.read.last /\ crawler.read.last <= MaxLength
      /\ crawler.read.mode # "unheard" /\ crawler.read \in ReadRecord
  BY CrawlerTyped DEF BaseInv, ReadOK, InThread
<1> DEFINE place == IF crawler.read.page < crawler.read.last THEN "turn" ELSE "close"
<1>2. crawler' = [crawler EXCEPT !.at = place, !.read = crawler.read]
  BY CrawlerTyped DEF AfterPage, CrawlerRecord
<1>3. place \in {"turn", "close"} /\ (place = "turn" => crawler.read.page < crawler.read.last)
  OBVIOUS
<1> HIDE DEF place
<1>4. place \in InThread /\ crawler.at \in InThread /\ place \notin {"ingest", "publish", "again"}
  BY <1>3 DEF InThread
<1> QED
  BY <1>1, <1>2, <1>3, <1>4, ThreadBase

LEMMA InThreadBase ==
  ASSUME BaseInv,
         Stores \/ Knows \/ PublishesPost \/ Overwrites \/ NextPage \/ NextPageBlank \/ ReadsNoFurther
  PROVE  BaseInv'
<1>1. UNCHANGED <<board, account, monitored, cursor, alias, link, request>> /\ crawler.at \in {"ingest", "publish", "turn"}
  BY DEF Stores, Knows, PublishesPost, Overwrites, NextPage, NextPageBlank, ReadsNoFurther, tables
<1>2. /\ crawler.read \in ReadRecord /\ crawler.read.key \in Keys /\ crawler.read.page \in 1..crawler.read.last
      /\ crawler.read.page \in Nat /\ crawler.read.last \in Nat /\ crawler.read.last <= MaxLength
      /\ crawler.read.mode # "unheard"
  BY <1>1, CrawlerTyped DEF BaseInv, ReadOK, ReadRecord, InThread
<1>3. Post \in Rows
  BY <1>2, ForumConstants DEF Post, Evidence, Rows
<1>4. history' \in HistoryRecord /\ history'.lost = history.lost
  BY CrawlerTyped DEF Stores, Knows, PublishesPost, Overwrites, NextPage, NextPageBlank, ReadsNoFurther,
                      HistoryRecord, ForRequest
<1>5. BoardOK'
  BY <1>1, CrawlerTyped DEF BoardOK, board, account
<1>6. PublishedOnce
  BY DEF BaseInv
<1>7. CASE Stores
  <2>1. crawler' = [crawler EXCEPT !.at = "publish", !.read = crawler.read]
    BY <1>7, CrawlerTyped DEF Stores, CrawlerRecord
  <2>2. crawler.at \in InThread /\ "publish" \in InThread /\ crawler.read.mode # "refetch"
    BY <1>7 DEF Stores, InThread
  <2>3. /\ crawler' \in CrawlerRecord /\ crawler'.at = "publish" /\ crawler'.read = crawler.read
        /\ ReadOK' /\ TodoOK' /\ WalkOK'
    BY <1>1, <1>2, <2>1, <2>2, ThreadBase
  <2>4. PublishedOnce'
    BY <1>4, <1>6, <1>7, <2>3 DEF PublishedOnce, Stores, Post
  <2>5. stored' = stored \cup {Post} /\ gated' \subseteq stored'
    BY <1>7, CrawlerTyped DEF Stores
  <2> QED
    BY <1>1, <1>3, <1>4, <1>5, <2>3, <2>4, <2>5, RowsBase, CrawlerTyped
<1>8. CASE Knows
  <2>1. /\ crawler' \in CrawlerRecord /\ crawler'.at \in {"turn", "close"} /\ crawler'.read = crawler.read
        /\ ReadOK' /\ TodoOK' /\ WalkOK'
    BY <1>1, <1>8, AfterPageBase DEF Knows
  <2> QED
    BY <1>1, <1>4, <1>5, <1>8, <2>1, QuietBase, CrawlerTyped DEF Knows, tables
<1>9. CASE PublishesPost
  <2>1. /\ crawler' \in CrawlerRecord /\ crawler'.at \in {"turn", "close"} /\ crawler'.read = crawler.read
        /\ ReadOK' /\ TodoOK' /\ WalkOK'
    BY <1>1, <1>9, AfterPageBase DEF PublishesPost
  <2>2. PublishedOnce'
    BY <1>4, <1>6, <1>9, <2>1 DEF PublishedOnce, PublishesPost, tables
  <2> QED
    BY <1>1, <1>4, <1>5, <1>9, <2>1, <2>2, RowsBase, CrawlerTyped DEF PublishesPost, tables
<1>10. CASE Overwrites
  <2>1. /\ crawler' \in CrawlerRecord /\ crawler'.at \in {"turn", "close"} /\ crawler'.read = crawler.read
        /\ ReadOK' /\ TodoOK' /\ WalkOK'
    BY <1>1, <1>10, AfterPageBase DEF Overwrites
  <2>2. PublishedOnce'
    BY <1>4, <1>6, <1>10, <2>1 DEF PublishedOnce, Overwrites
  <2>3. gated' \subseteq stored /\ stored' = stored
    BY <1>10, CrawlerTyped DEF Overwrites
  <2> QED
    BY <1>1, <1>4, <1>5, <2>1, <2>2, <2>3, RowsBase, CrawlerTyped
<1>11. ASSUME NEW place \in {"ingest", "turn", "close"}, NEW page \in Nat, crawler.at = "turn",
              UNCHANGED <<stored, gated, sent>>, crawler' = [crawler EXCEPT !.at = place, !.read.page = page],
              place # "close" => page \in 1..crawler.read.last, place = "turn" => page < crawler.read.last
       PROVE  BaseInv'
  <2> DEFINE r == [crawler.read EXCEPT !.page = page]
  <2>1. /\ r \in ReadRecord /\ r.mode = crawler.read.mode /\ r.key = crawler.read.key
        /\ r.req = crawler.read.req /\ r.last = crawler.read.last /\ r.page = page
    BY <1>2 DEF ReadRecord
  <2>2. crawler' = [crawler EXCEPT !.at = place, !.read = r]
    BY <1>11, CrawlerTyped DEF CrawlerRecord
  <2> HIDE DEF r
  <2>3. place \in InThread /\ crawler.at \in InThread /\ place \notin {"publish", "again"}
    BY <1>11 DEF InThread
  <2>4. crawler' \in CrawlerRecord /\ crawler'.at = place /\ ReadOK' /\ TodoOK' /\ WalkOK'
    BY <1>1, <1>2, <1>11, <2>1, <2>2, <2>3, ThreadBase
  <2> QED
    BY <1>1, <1>4, <1>5, <1>11, <2>3, <2>4, QuietBase, CrawlerTyped
<1>12. crawler.at = "turn" => crawler.read.page + 1 \in 1..crawler.read.last /\ crawler.read.page + 1 \in Nat
  BY <1>2 DEF BaseInv, ReadOK
<1>13. CASE NextPage
  <2>1. /\ crawler' = [crawler EXCEPT !.at = "ingest", !.read.page = crawler.read.page + 1]
        /\ crawler.at = "turn" /\ UNCHANGED <<stored, gated, sent>>
    BY <1>13 DEF NextPage, tables
  <2> QED
    BY <1>11, <1>12, <2>1
<1>14. CASE NextPageBlank
  <2> DEFINE page == crawler.read.page + 1
             place == IF page < crawler.read.last THEN "turn" ELSE "close"
  <2>1. crawler' = [crawler EXCEPT !.at = place, !.read.page = page] /\ crawler.at = "turn" /\ UNCHANGED <<stored, gated, sent>>
    BY <1>14 DEF NextPageBlank, tables
  <2>2. page \in Nat /\ page \in 1..crawler.read.last
    BY <1>2, <1>12, <2>1
  <2>3. place \in {"ingest", "turn", "close"} /\ (place = "turn" => page < crawler.read.last)
    OBVIOUS
  <2> HIDE DEF page, place
  <2> QED
    BY <1>11, <2>1, <2>2, <2>3
<1>15. CASE ReadsNoFurther
  <2>1. crawler' = [crawler EXCEPT !.at = "close"] /\ crawler.at = "turn" /\ UNCHANGED <<stored, gated, sent>>
    BY <1>15 DEF ReadsNoFurther, tables
  <2>2. [crawler.read EXCEPT !.page = crawler.read.page] = crawler.read
    BY <1>2 DEF ReadRecord
  <2>3. [crawler EXCEPT !.at = "close", !.read = crawler.read] = [crawler EXCEPT !.at = "close"]
    BY CrawlerTyped DEF CrawlerRecord
  <2>4. crawler' = [crawler EXCEPT !.at = "close", !.read.page = crawler.read.page]
    BY <2>1, <2>2, <2>3, CrawlerTyped DEF CrawlerRecord
  <2> QED
    BY <1>2, <1>11, <2>1, <2>4
<1> QED
  BY <1>7, <1>8, <1>9, <1>10, <1>13, <1>14, <1>15

-----------------------------------------------------------------------------
(* Every step keeps the base: requests. *)

\* A request is taken up.
LEMMA BeginsBase ==
  ASSUME BaseInv, NEW r \in crawler.todo, crawler.at \in {"replies", "backfills"},
         NEW place \in {"ingest", "close", "again"}, NEW mode \in {"refetch", "unheard", "backfill"},
         NEW page \in Nat, NEW last \in Nat, last <= MaxLength,
         crawler' = [crawler EXCEPT !.at = place, !.read = Reading(mode, request[r].key, page, last, r)],
         place = "ingest" => mode = "backfill" /\ page \in 1..last, place = "again" => mode = "refetch",
         crawler.at = IF mode = "backfill" THEN "backfills" ELSE "replies",
         history' \in HistoryRecord, history'.lost = history.lost, BoardOK',
         UNCHANGED <<cursor, tables, sent, request>>
  PROVE  BaseInv'
<1>1. r \in Requests /\ request[r].state = "pending" /\ request[r].key \in Keys
  <2>1. r \in Requests /\ request[r].state = "pending"
    BY CrawlerTyped DEF CrawlerRecord, BaseInv, TodoOK
  <2>2. PICK e \in stored : e.key = request[r].key
    BY <2>1 DEF BaseInv, RequestOK
  <2> QED
    BY <2>1, <2>2, CrawlerTyped DEF Rows
<1> DEFINE rd == Reading(mode, request[r].key, page, last, r)
<1>2. /\ rd \in ReadRecord /\ rd.mode = mode /\ rd.key = request[r].key /\ rd.page = page
      /\ rd.last = last /\ rd.req = r
  BY <1>1 DEF ReadRecord, Reading
<1> HIDE DEF rd
<1>3. crawler' = [crawler EXCEPT !.at = place, !.read = rd]
  BY DEF rd
<1>4. /\ crawler' \in CrawlerRecord /\ crawler'.at = place /\ crawler'.read = rd
      /\ crawler'.walk = crawler.walk /\ crawler'.todo = crawler.todo
  BY <1>2, <1>3, CrawlerTyped DEF CrawlerRecord, InThread
<1>5. ReadOK'
  BY <1>1, <1>2, <1>4 DEF ReadOK, InThread
<1>6. TodoOK' /\ WalkOK'
  BY <1>2, <1>4 DEF TodoOK, WalkOK, BaseInv, InWalk
<1> QED
  BY <1>4, <1>5, <1>6, QuietBase, CrawlerTyped DEF tables

\* A request is called done or failed.
LEMMA CompletesBase ==
  ASSUME BaseInv, NEW r \in crawler.todo, NEW state \in {"done", "failed"}, NEW pages \in Nat,
         Completes(r, state, pages), crawler.at # "publish",
         \A q \in crawler.todo : request[q].kind = request[r].kind,
         UNCHANGED <<board, account, monitored, cursor, tables, sent, history>>
  PROVE  BaseInv'
<1>1. /\ request \in [Requests -> RequestRecord] /\ r \in Requests /\ request[r].state = "pending"
      /\ crawler.todo \subseteq Requests
  BY CrawlerTyped DEF CrawlerRecord, BaseInv, TodoOK, RecordsOK
<1>2. request[r] \in RequestRecord /\ request[r].kind \in {"reply", "backfill"}
  BY <1>1 DEF BaseInv, RequestOK
<1> DEFINE q == [request[r] EXCEPT !.state = state, !.pages = pages]
<1>3. /\ q \in RequestRecord /\ q.kind = request[r].kind /\ q.key = request[r].key /\ q.state = state
  BY <1>2 DEF RequestRecord
<1>4. request' = [request EXCEPT ![r] = q]
  BY <1>1, <1>2 DEF Completes, RequestRecord
<1> HIDE DEF q
<1>5. /\ request' \in [Requests -> RequestRecord] /\ request'[r] = q
      /\ \A p \in Requests : p # r => request'[p] = request[p]
  BY <1>1, <1>3, <1>4
<1>6. NoRead \in ReadRecord
  BY DEF NoRead, ReadRecord
<1>7. /\ crawler' \in CrawlerRecord /\ crawler'.at = (IF request[r].kind = "reply" THEN "replies" ELSE "backfills")
      /\ crawler'.read = NoRead /\ crawler'.todo = crawler.todo \ {r}
  BY <1>6, CrawlerTyped DEF Completes, CrawlerRecord
<1>8. BoardOK'
  BY CrawlerTyped DEF BoardOK, board, account
<1>9. RecordsOK'
  BY <1>5, <1>7 DEF BaseInv, RecordsOK, tables
<1>10. ReadOK' /\ WalkOK'
  BY <1>7 DEF ReadOK, WalkOK, NoRead, InThread, InWalk
<1>11. TodoOK'
  <2>1. \A p \in crawler'.todo : request'[p] = request[p] /\ request[p].state = "pending" /\ request[p].kind = request[r].kind
    BY <1>1, <1>5, <1>7 DEF BaseInv, TodoOK
  <2> QED
    BY <1>2, <1>7, <2>1 DEF TodoOK, NoRead, InWalk
<1>12. RequestOK'
  <2>1. \A p \in Requests : request'[p].kind = request[p].kind /\ request'[p].key = request[p].key
                            /\ (request'[p].state # "none" => request[p].state # "none")
    BY <1>1, <1>3, <1>5
  <2> QED
    BY <2>1 DEF RequestOK, BaseInv, tables
<1>13. PublishedOnce'
  BY <1>7 DEF PublishedOnce, BaseInv, tables
<1> QED
  BY <1>8, <1>9, <1>10, <1>11, <1>12, <1>13 DEF BaseInv

LEMMA TakenBase ==
  ASSUME BaseInv, NEW r \in Requests, NEW place, NEW mode, Taken(r, place, mode)
  PROVE  BoardOK' /\ Rises \subseteq Threads
<1>1. request[r].key.thread \in Threads
  <2>1. r \in crawler.todo
    BY DEF Taken, At
  <2>2. PICK e \in stored : e.key = request[r].key
    BY <2>1 DEF BaseInv, RequestOK, TodoOK
  <2> QED
    BY <2>2, CrawlerTyped DEF Rows, Keys
<1>2. rank' \in [Threads -> Nat]
  BY <1>1, ToTopTyped, CrawlerTyped DEF Taken
<1>3. length' \in [Threads -> 1..MaxLength]
  BY <1>1, CrawlerTyped, ForumConstants DEF Taken, BoardOK
<1>4. posted' \in [Requests -> Nat] /\ unlocked' \subseteq Threads
  BY <1>1, CrawlerTyped DEF Taken, BoardOK
<1> QED
  BY <1>2, <1>3, <1>4, CrawlerTyped, RisesTyped DEF Taken, BoardOK

LEMMA TakesUpBase ==
  ASSUME BaseInv, NEW r \in Requests,
         Replies(r) \/ RepliesUnheard(r) \/ RepliesMisread(r) \/ Deepens(r) \/ DeepensSlug(r) \/ DeepensBlank(r)
  PROVE  BaseInv'
<1>1. r \in crawler.todo /\ crawler.at \in {"replies", "backfills"} /\ UNCHANGED <<cursor, tables, sent, request>>
  BY DEF Replies, RepliesUnheard, RepliesMisread, Taken, Deepens, DeepensSlug, DeepensBlank, Nothing, At
<1>2. history' \in HistoryRecord /\ history'.lost = history.lost
  <2>1. history \in HistoryRecord
    BY CrawlerTyped
  <2>2. CASE Replies(r)
    BY <2>1, <2>2, RisesTyped DEF Replies, HistoryRecord
  <2>3. CASE RepliesUnheard(r)
    BY <2>1, <2>3, RisesTyped DEF RepliesUnheard, HistoryRecord
  <2>4. CASE RepliesMisread(r) \/ Deepens(r) \/ DeepensSlug(r) \/ DeepensBlank(r)
    BY <2>1, <2>4 DEF RepliesMisread, Deepens, DeepensSlug, DeepensBlank, Nothing, HistoryRecord
  <2> QED
    BY <2>2, <2>3, <2>4
<1>3. 0 \in Nat /\ 1 \in Nat /\ 0 <= MaxLength /\ 1 <= MaxLength
  BY ForumConstants
<1>4. CASE Replies(r)
  <2>1. BoardOK' /\ crawler.at = "replies"
    BY <1>4, TakenBase DEF Replies, Taken, At
  <2>2. crawler' = [crawler EXCEPT !.at = "again", !.read = Reading("refetch", request[r].key, 0, 0, r)]
    BY <1>4 DEF Replies, Taken
  <2> QED
    BY <1>1, <1>2, <1>3, <2>1, <2>2, BeginsBase
<1>5. CASE RepliesUnheard(r)
  <2>1. BoardOK' /\ crawler.at = "replies"
    BY <1>5, TakenBase DEF RepliesUnheard, Taken, At
  <2>2. crawler' = [crawler EXCEPT !.at = "close", !.read = Reading("unheard", request[r].key, 0, 0, r)]
    BY <1>5 DEF RepliesUnheard, Taken
  <2> QED
    BY <1>1, <1>2, <1>3, <2>1, <2>2, BeginsBase
<1>6. CASE RepliesMisread(r)
  <2>1. BoardOK' /\ crawler.at = "replies"
    BY <1>6, CrawlerTyped DEF RepliesMisread, At, BoardOK, board, account
  <2>2. crawler' = [crawler EXCEPT !.at = "again", !.read = Reading("refetch", request[r].key, 0, 0, r)]
    BY <1>6 DEF RepliesMisread
  <2> QED
    BY <1>1, <1>2, <1>3, <2>1, <2>2, BeginsBase
<1>7. CASE Deepens(r)
  <2>1. BoardOK' /\ crawler.at = "backfills"
    BY <1>7, CrawlerTyped DEF Deepens, At, BoardOK, board, account
  <2> DEFINE last == length[request[r].key.thread]
  <2>2. crawler' = [crawler EXCEPT !.at = "ingest", !.read = Reading("backfill", request[r].key, 1, last, r)]
    BY <1>7 DEF Deepens
  <2>3. last \in 1..MaxLength
    <3>1. PICK e \in stored : e.key = request[r].key
      BY <1>1 DEF BaseInv, RequestOK, TodoOK
    <3>2. request[r].key.thread \in Threads
      BY <3>1, CrawlerTyped DEF Rows, Keys
    <3> QED
      BY <3>2, CrawlerTyped DEF BoardOK
  <2> HIDE DEF last
  <2>4. last \in Nat /\ last <= MaxLength /\ 1 \in 1..last
    BY <2>3, ForumConstants
  <2> QED
    BY <1>1, <1>2, <1>3, <2>1, <2>2, <2>4, BeginsBase
<1>8. CASE DeepensSlug(r) \/ DeepensBlank(r)
  <2>1. BoardOK' /\ crawler.at = "backfills"
    BY <1>8, CrawlerTyped DEF DeepensSlug, DeepensBlank, Nothing, At, BoardOK, board, account
  <2>2. crawler' = [crawler EXCEPT !.at = "close", !.read = Reading("backfill", request[r].key, 1, 1, r)]
    BY <1>8 DEF DeepensSlug, DeepensBlank, Nothing
  <2> QED
    BY <1>1, <1>2, <1>3, <2>1, <2>2, BeginsBase
<1> QED
  BY <1>4, <1>5, <1>6, <1>7, <1>8

\* The kind of what is in hand.
LEMMA InHand ==
  ASSUME BaseInv
  PROVE  /\ crawler.at = "replies" => \A q \in crawler.todo : request[q].kind = "reply"
         /\ crawler.at = "backfills" => \A q \in crawler.todo : request[q].kind = "backfill"
         /\ crawler.read.mode \in {"refetch", "unheard"} =>
              crawler.read.req \in crawler.todo /\ \A q \in crawler.todo : request[q].kind = "reply"
         /\ crawler.read.mode = "backfill" =>
              crawler.read.req \in crawler.todo /\ \A q \in crawler.todo : request[q].kind = "backfill"
         /\ crawler.todo \subseteq Requests
  BY CrawlerTyped DEF BaseInv, TodoOK, ReadOK, CrawlerRecord

LEMMA AnswersBase ==
  ASSUME BaseInv,
         \/ \E r \in Requests : NoForm(r) \/ Refused(r) \/ DeepensNot(r)
         \/ ReplyCompletes \/ BackfillCompletes
  PROVE  BaseInv'
<1>1. \E r \in crawler.todo, state \in {"done", "failed"}, pages \in Nat :
        /\ Completes(r, state, pages) /\ crawler.at # "publish"
        /\ \A q \in crawler.todo : request[q].kind = request[r].kind
        /\ UNCHANGED <<board, account, monitored, cursor, tables, sent, history>>
  <2>1. ASSUME NEW r \in Requests, NoForm(r) \/ Refused(r) \/ DeepensNot(r)
        PROVE  /\ r \in crawler.todo /\ Completes(r, "failed", 0) /\ crawler.at # "publish"
               /\ \A q \in crawler.todo : request[q].kind = request[r].kind
               /\ UNCHANGED <<board, account, monitored, cursor, tables, sent, history>>
    BY <2>1, InHand DEF NoForm, Refused, DeepensNot, At
  <2>2. ASSUME ReplyCompletes
        PROVE  /\ crawler.read.req \in crawler.todo /\ crawler.at # "publish"
               /\ Completes(crawler.read.req, IF crawler.read.mode = "refetch" THEN "done" ELSE "failed", 0)
               /\ \A q \in crawler.todo : request[q].kind = request[crawler.read.req].kind
               /\ UNCHANGED <<board, account, monitored, cursor, tables, sent, history>>
    BY <2>2, InHand DEF ReplyCompletes
  <2>3. ASSUME BackfillCompletes
        PROVE  /\ crawler.read.req \in crawler.todo /\ crawler.at # "publish" /\ crawler.read.last \in Nat
               /\ Completes(crawler.read.req, "done", crawler.read.last)
               /\ \A q \in crawler.todo : request[q].kind = request[crawler.read.req].kind
               /\ UNCHANGED <<board, account, monitored, cursor, tables, sent, history>>
    BY <2>3, InHand, CrawlerTyped DEF BackfillCompletes, ReadRecord
  <2> QED
    BY <2>1, <2>2, <2>3
<1> QED
  BY <1>1, CompletesBase

LEMMA AgainBase ==
  ASSUME BaseInv, ReadsAgain \/ ReadsAgainNothing
  PROVE  BaseInv'
<1>1. /\ UNCHANGED <<board, account, monitored, cursor, tables, sent, request>> /\ crawler.at = "again"
      /\ crawler.at \in InThread
  BY DEF ReadsAgain, ReadsAgainNothing, InThread
<1>2. crawler.read \in ReadRecord /\ crawler.read.mode = "refetch" /\ crawler.read.key \in Keys /\ crawler.read.last <= MaxLength
  BY <1>1, CrawlerTyped DEF BaseInv, ReadOK
<1>3. history' \in HistoryRecord /\ history'.lost = history.lost
  BY CrawlerTyped DEF ReadsAgain, ReadsAgainNothing, HistoryRecord, ForRequest
<1>4. BoardOK'
  BY <1>1, CrawlerTyped DEF BoardOK, board, account
<1>5. CASE ReadsAgain
  <2> DEFINE last == length[crawler.read.key.thread]
             r == [crawler.read EXCEPT !.page = 1, !.last = last]
  <2>1. last \in 1..MaxLength
    BY <1>2, CrawlerTyped DEF BoardOK, Keys
  <2>2. crawler' = [crawler EXCEPT !.at = "ingest", !.read = r]
    BY <1>5, CrawlerTyped DEF ReadsAgain, CrawlerRecord
  <2> HIDE DEF last
  <2>3. last \in Nat /\ 1 \in 1..last /\ last <= MaxLength
    BY <2>1, ForumConstants
  <2>4. /\ r \in ReadRecord /\ r.mode = "refetch" /\ r.key = crawler.read.key /\ r.req = crawler.read.req
        /\ r.page = 1 /\ r.last = last
    BY <1>2, <2>3 DEF ReadRecord
  <2> HIDE DEF r
  <2>5. "ingest" \in InThread
    BY DEF InThread
  <2>6. crawler' \in CrawlerRecord /\ crawler'.at = "ingest" /\ ReadOK' /\ TodoOK' /\ WalkOK'
    BY <1>1, <1>2, <2>4, <2>3, <2>2, <2>5, ThreadBase
  <2> QED
    BY <1>1, <1>3, <1>4, <2>6, QuietBase, CrawlerTyped DEF tables
<1>6. CASE ReadsAgainNothing
  <2>1. crawler' = [crawler EXCEPT !.at = "close", !.read = crawler.read] /\ "close" \in InThread
    BY <1>6, CrawlerTyped DEF ReadsAgainNothing, CrawlerRecord, InThread
  <2>2. crawler' \in CrawlerRecord /\ crawler'.at = "close" /\ ReadOK' /\ TodoOK' /\ WalkOK'
    BY <1>1, <1>2, <2>1, ThreadBase
  <2> QED
    BY <1>1, <1>3, <1>4, <2>2, QuietBase, CrawlerTyped DEF tables
<1> QED
  BY <1>5, <1>6

LEMMA BaseStep ==
  ASSUME BaseInv, [CrawlNext]_crawlVars
  PROVE  BaseInv'
<1>1. CASE Board
  BY <1>1, MovesBase
<1>2. CASE Operators
  BY <1>2, AsksBase
<1>3. CASE Works
  BY <1>3, TicksBase, OpensBase, PagesBase, PollsBase, PolledBase, InThreadBase, TakesUpBase, AnswersBase, AgainBase
     DEF Works
<1>4. CASE Fails
  BY <1>4, TicksBase, BreaksBase, OpensBase, PagesBase, PollsBase, PolledBase, InThreadBase, TakesUpBase, AnswersBase,
     AgainBase DEF Fails
<1>5. CASE UNCHANGED crawlVars
  BY <1>5 DEF crawlVars, board, account, tables, BaseInv, BoardOK, RecordsOK, ReadOK, TodoOK, WalkOK, RequestOK,
              PublishedOnce, Post, Evidence
<1> QED
  BY <1>1, <1>2, <1>3, <1>4, <1>5 DEF CrawlNext

LEMMA BaseHolds == CrawlSpec => []BaseInv
<1>1. BaseInv /\ [CrawlNext]_crawlVars => BaseInv'
  BY BaseStep
<1> QED
  BY BaseStarts, <1>1, PTL DEF CrawlSpec

\* A forum collector's variables stay within their domains (real.py).
THEOREM CrawlTypeCorrect == CrawlSpec => []CrawlTypeOK
<1>1. BaseInv => CrawlTypeOK
  BY DEF BaseInv, BoardOK, RecordsOK, CrawlTypeOK, CrawlerRecord, WalkRecord, InThread, InWalk, PublishedOnce
<1> QED
  BY <1>1, BaseHolds, PTL

\* A post goes to the sensors once, and is withheld only where the process died
\* between the row and the publish (_ingest_post).
THEOREM PublishedOnceHolds == CrawlSpec => []PublishedOnce
<1>1. BaseInv => PublishedOnce
  BY DEF BaseInv
<1> QED
  BY <1>1, BaseHolds, PTL

-----------------------------------------------------------------------------
(* A thread's posts keep one key. *)

Grown ==
  /\ history.risen \subseteq history'.risen /\ history.failed \subseteq history'.failed
  /\ history.outgrown \subseteq history'.outgrown /\ history.nameless \subseteq history'.nameless
  /\ history.torn \subseteq history'.torn /\ history.unheard \subseteq history'.unheard
  /\ history.short \subseteq history'.short

LEMMA HistoryGrows ==
  ASSUME BaseInv, CrawlNext
  PROVE  Grown
<1>1. history \in HistoryRecord
  BY CrawlerTyped
<1>2. history' = history => Grown
  BY DEF Grown
<1>3. CASE Board
  BY <1>1, <1>3 DEF Board, NewPost, NewThread, Relocates, HistoryRecord, Grown
<1>4. CASE Operators
  BY <1>2, <1>4 DEF Operators, Monitors, Asks
<1>5. CASE Works
  <2>1. CASE \E r \in Requests : NoForm(r) \/ Replies(r) \/ Deepens(r) \/ DeepensSlug(r)
    BY <1>1, <1>2, <2>1 DEF NoForm, Replies, Deepens, DeepensSlug, Nothing, HistoryRecord, Grown
  <2>2. CASE SavesCursor
    BY <1>1, <2>2 DEF SavesCursor, HistoryRecord, Grown
  <2> QED
    BY <1>2, <1>5, <2>1, <2>2 DEF Works, Boots, TakesReplies, TakesBackfills, Sweeps, Rests, Opens, EndsSweep,
       LeavesFirst, Turns, Polls, Links, Stores, Knows, PublishesPost, Overwrites, NextPage, ReadsAgain,
       ReplyCompletes, BackfillCompletes
<1>6. CASE Fails
  <2>1. CASE \E r \in Requests : RepliesUnheard(r)
    BY <1>1, <2>1 DEF RepliesUnheard, HistoryRecord, Grown
  <2>2. CASE \E r \in Requests : RepliesMisread(r) \/ DeepensBlank(r)
    BY <1>1, <2>2 DEF RepliesMisread, DeepensBlank, Nothing, HistoryRecord, Grown
  <2>3. CASE Breaks
    BY <1>1, <2>3 DEF Breaks, HistoryRecord, Grown
  <2>4. CASE TurnsBlank \/ Skips \/ \E a \in crawler.walk.left : PollsNameless(a) \/ PollsBlank(a) \/ PollsNot(a)
    BY <1>1, <2>4 DEF TurnsBlank, Skips, PollsNameless, PollsBlank, PollsNot, HistoryRecord, Grown
  <2>5. CASE NextPageBlank \/ ReadsNoFurther \/ ReadsAgainNothing
    BY <1>1, <2>5 DEF NextPageBlank, ReadsNoFurther, ReadsAgainNothing, HistoryRecord, Grown
  <2> QED
    BY <1>2, <1>6, <2>1, <2>2, <2>3, <2>4, <2>5 DEF Fails, Leaves, OpensBlank, PassesOver, SavesNothing, TurnsNot,
       Refused, DeepensNot
<1> QED
  BY <1>3, <1>4, <1>5, <1>6 DEF CrawlNext

\* A thread being read, that its rows have the key of.
AtRows == {"ingest", "publish", "turn"}

LEMMA KeyFrame ==
  ASSUME BaseInv, KeyInv, Grown, UNCHANGED <<alias, stored>>,
         crawler'.at \in AtRows =>
           \/ crawler.at \in AtRows /\ crawler'.read.key = crawler.read.key
           \/ \E e \in stored : e.key = crawler'.read.key
           \/ crawler'.read.key.thread \in history'.nameless
  PROVE  KeyInv'
  BY DEF KeyInv, KeyOf, AtRows, Grown

LEMMA RequestKeyed ==
  ASSUME BaseInv, NEW r \in Requests, r \in crawler.todo \/ request[r].state # "none"
  PROVE  request[r].key \in Keys /\ \E e \in stored : e.key = request[r].key
<1>1. PICK e \in stored : e.key = request[r].key
  BY DEF BaseInv, RequestOK, TodoOK
<1> QED
  BY <1>1, CrawlerTyped DEF Rows

\* What a step leaves of the reading.
LEMMA ReadingKept ==
  ASSUME BaseInv,
         \/ Boots \/ Leaves \/ Breaks \/ TakesReplies \/ TakesBackfills \/ Sweeps \/ Rests \/ EndsSweep
         \/ \E c \in Categories : Opens(c) \/ OpensBlank(c) \/ PassesOver(c)
         \/ LeavesFirst \/ SavesCursor \/ SavesNothing \/ Turns \/ TurnsBlank \/ TurnsNot
         \/ \E a \in crawler.walk.left : PollsBlank(a) \/ PollsNot(a)
         \/ Skips \/ Links
         \/ ReadsNoFurther \/ ReadsAgainNothing \/ ReplyCompletes \/ BackfillCompletes
         \/ \E r \in Requests : \/ NoForm(r) \/ Refused(r) \/ Replies(r) \/ RepliesUnheard(r) \/ RepliesMisread(r)
                                \/ DeepensSlug(r) \/ DeepensBlank(r) \/ DeepensNot(r)
  PROVE  crawler'.at \notin AtRows /\ UNCHANGED <<alias, stored>>
<1>1. crawler \in CrawlerRecord
  BY CrawlerTyped
<1>2. CASE Boots \/ Leaves \/ Breaks \/ TakesReplies \/ TakesBackfills \/ Sweeps \/ Rests \/ EndsSweep
  <2>1. CASE Boots \/ Leaves \/ Breaks
    BY <2>1 DEF Boots, Leaves, Breaks, tables, AtRows, NotRunning
  <2>2. CASE TakesReplies \/ TakesBackfills \/ Sweeps \/ Rests \/ EndsSweep
    BY <1>1, <2>2 DEF TakesReplies, TakesBackfills, Sweeps, Rests, EndsSweep, tables, AtRows, CrawlerRecord
  <2> QED
    BY <1>2, <2>1, <2>2
<1>3. CASE \E c \in Categories : Opens(c) \/ OpensBlank(c) \/ PassesOver(c)
  BY <1>1, <1>3 DEF Opens, OpensBlank, PassesOver, FirstPage, tables, AtRows, CrawlerRecord
<1>4. CASE LeavesFirst \/ SavesCursor \/ SavesNothing \/ Turns \/ TurnsBlank \/ TurnsNot
  BY <1>1, <1>4 DEF LeavesFirst, SavesCursor, SavesNothing, Turns, TurnsBlank, TurnsNot, TurnsTo, tables, AtRows,
                    CrawlerRecord
<1>5. CASE \/ \E a \in crawler.walk.left : PollsBlank(a) \/ PollsNot(a)
           \/ Skips \/ Links
  BY <1>1, <1>5 DEF PollsBlank, PollsNot, Reads, Polling, Skips, Links, NextThread, tables, AtRows, CrawlerRecord
<1>6. CASE ReadsNoFurther \/ ReadsAgainNothing \/ ReplyCompletes \/ BackfillCompletes
  BY <1>1, <1>6 DEF ReadsNoFurther, ReadsAgainNothing, ReplyCompletes, BackfillCompletes, Completes, tables, AtRows,
                    CrawlerRecord
<1>7. CASE \E r \in Requests : \/ NoForm(r) \/ Refused(r) \/ Replies(r) \/ RepliesUnheard(r) \/ RepliesMisread(r)
                               \/ DeepensSlug(r) \/ DeepensBlank(r) \/ DeepensNot(r)
  <2>1. CASE \E r \in Requests : NoForm(r) \/ Refused(r) \/ DeepensNot(r)
    BY <1>1, <2>1 DEF NoForm, Refused, DeepensNot, Completes, tables, AtRows, CrawlerRecord
  <2>2. CASE \E r \in Requests : Replies(r) \/ RepliesUnheard(r) \/ RepliesMisread(r)
    BY <1>1, <2>2 DEF Replies, RepliesUnheard, RepliesMisread, Taken, tables, AtRows, CrawlerRecord
  <2>3. CASE \E r \in Requests : DeepensSlug(r) \/ DeepensBlank(r)
    BY <1>1, <2>3 DEF DeepensSlug, DeepensBlank, Nothing, tables, AtRows, CrawlerRecord
  <2> QED
    BY <1>7, <2>1, <2>2, <2>3
<1> QED
  BY <1>2, <1>3, <1>4, <1>5, <1>6, <1>7

LEMMA KeyStep ==
  ASSUME BaseInv, BaseInv', KeyInv, [CrawlNext]_crawlVars
  PROVE  KeyInv'
<1>1. CASE UNCHANGED crawlVars
  BY <1>1 DEF crawlVars, tables, KeyInv, KeyOf
<1>2. CASE CrawlNext
  <2>1. Grown
    BY <1>2, HistoryGrows
  <2>2. crawler \in CrawlerRecord /\ crawler.read \in ReadRecord
    BY CrawlerTyped
  <2>3. CASE Board \/ Operators
    <3>1. UNCHANGED <<alias, stored, crawler>>
      BY <2>3 DEF Board, NewPost, NewThread, Relocates, Operators, Monitors, Asks, tables
    <3> QED
      BY <2>1, <3>1, KeyFrame
  <2>4. ASSUME NEW a \in crawler.walk.left, Polls(a) PROVE KeyInv'
    <3>1. a \in Keys /\ a.thread \in Threads /\ alias \in [Threads -> Keys \cup {Nil}] /\ stored \subseteq Rows
      BY CrawlerTyped DEF WalkRecord, Keys
    <3>2. alias' = [alias EXCEPT ![a.thread] = Bound(a)] /\ UNCHANGED <<stored, history>> /\ crawler'.read.key = Bound(a)
      BY <2>2, <2>4 DEF Polls, Reads, Reading, CrawlerRecord
    <3>3. Bound(a).thread = a.thread /\ (alias[a.thread] # Nil => Bound(a) = alias[a.thread])
      BY <3>1 DEF Bound, KeyInv
    <3>4. \A t \in Threads : alias'[t] = IF t = a.thread THEN Bound(a) ELSE alias[t]
      BY <3>1, <3>2
    <3>5. \A e \in stored : KeyOf(e.key)'
      <4> SUFFICES ASSUME NEW e \in stored PROVE e.key.thread \in history.nameless \/ alias'[e.key.thread] = e.key
        BY <3>2 DEF KeyOf
      <4>1. e.key \in Keys /\ e.key.thread \in Threads /\ e.key # Nil
        BY <3>1, ForumConstants DEF Rows, Keys
      <4> QED
        BY <3>3, <3>4, <4>1 DEF KeyInv, KeyOf
    <3>6. KeyOf(crawler.read.key)'
      BY <3>1, <3>2, <3>3, <3>4 DEF KeyOf
    <3> QED
      BY <3>2, <3>3, <3>4, <3>5, <3>6 DEF KeyInv
  <2>5. ASSUME NEW a \in crawler.walk.left, PollsNameless(a) PROVE KeyInv'
    <3>1. a.thread \in history'.nameless /\ UNCHANGED <<alias, stored>> /\ crawler'.read.key = Normal(a)
      BY <2>2, <2>5, CrawlerTyped DEF PollsNameless, HistoryRecord, Reads, Reading, CrawlerRecord, tables
    <3>2. Normal(a).thread = a.thread
      BY CrawlerTyped, KeysTyped DEF WalkRecord
    <3> QED
      BY <2>1, <3>1, <3>2, KeyFrame
  <2>6. ASSUME NEW r \in Requests, Deepens(r) PROVE KeyInv'
    <3>1. UNCHANGED <<alias, stored>> /\ crawler'.read.key = request[r].key /\ r \in crawler.todo
      BY <2>2, <2>6 DEF Deepens, At, Reading, CrawlerRecord, tables
    <3> QED
      BY <2>1, <3>1, RequestKeyed, KeyFrame
  <2>7. CASE ReadsAgain
    <3>1. UNCHANGED <<alias, stored>> /\ crawler'.read.key = crawler.read.key /\ crawler.at = "again"
      BY <2>2, <2>7 DEF ReadsAgain, CrawlerRecord, ReadRecord, tables
    <3>2. crawler.read.req \in crawler.todo /\ request[crawler.read.req].key = crawler.read.key /\ crawler.read.req \in Requests
      BY <2>2, <3>1 DEF BaseInv, ReadOK, CrawlerRecord
    <3> QED
      BY <2>1, <3>1, <3>2, RequestKeyed, KeyFrame
  <2>8. CASE Stores
    <3>1. UNCHANGED <<alias, history>> /\ stored' = stored \cup {Post} /\ crawler'.read = crawler.read /\ crawler.at \in AtRows
      BY <2>2, <2>8 DEF Stores, CrawlerRecord, AtRows
    <3>2. Post.key = crawler.read.key /\ KeyOf(crawler.read.key)
      BY <3>1 DEF Post, Evidence, KeyInv, AtRows
    <3> QED
      BY <3>1, <3>2 DEF KeyInv, KeyOf
  <2>9. CASE Knows \/ PublishesPost \/ Overwrites \/ NextPage \/ NextPageBlank
    <3>1. UNCHANGED <<alias, stored>> /\ crawler'.read.key = crawler.read.key /\ crawler.at \in AtRows
      <4>1. CASE Knows \/ PublishesPost \/ Overwrites
        BY <2>2, <4>1 DEF Knows, PublishesPost, Overwrites, AfterPage, CrawlerRecord, tables, AtRows
      <4>2. CASE NextPage
        BY <2>2, <4>2 DEF NextPage, CrawlerRecord, ReadRecord, tables, AtRows
      <4>3. CASE NextPageBlank
        BY <2>2, <4>3 DEF NextPageBlank, CrawlerRecord, ReadRecord, tables, AtRows
      <4> QED
        BY <2>9, <4>1, <4>2, <4>3
    <3> QED
      BY <2>1, <3>1, KeyFrame
  <2> QED
    BY <1>2, <2>1, <2>3, <2>4, <2>5, <2>6, <2>7, <2>8, <2>9, ReadingKept, KeyFrame DEF CrawlNext, Works, Fails
<1> QED
  BY <1>1, <1>2

LEMMA KeyHolds == CrawlSpec => []KeyInv
<1>1. CrawlInit => KeyInv
  BY DEF CrawlInit, KeyInv, NotRunning
<1>2. BaseInv /\ BaseInv' /\ KeyInv /\ [CrawlNext]_crawlVars => KeyInv'
  BY KeyStep
<1> QED
  BY <1>1, <1>2, BaseHolds, PTL DEF CrawlSpec

\* However a thread is moved, its posts keep one key, unless a page did not show
\* its tid (resolve_or_bind_forum_thread).
THEOREM OneKeyPerThreadHolds == CrawlSpec => []OneKeyPerThread
<1>1. KeyInv => OneKeyPerThread
  BY DEF KeyInv, KeyOf, OneKeyPerThread
<1> QED
  BY <1>1, KeyHolds, PTL

-----------------------------------------------------------------------------
(* A reply is posted once. *)

LEMMA ReplyFrame ==
  ASSUME BaseInv, ReplyInv, Grown, UNCHANGED <<request, posted>>,
         \/ crawler'.read.mode = crawler.read.mode /\ crawler'.read.req = crawler.read.req
         \/ crawler.read.mode \notin {"refetch", "unheard"} /\ crawler'.read.mode \notin {"refetch", "unheard"}
  PROVE  ReplyInv'
  BY DEF ReplyInv, Answering, Grown

\* The steps that take up no reply and answer nothing, and what they leave of the request at hand.
AnswersNone ==
  \/ Board \/ \E c \in Categories : Monitors(c)
  \/ Boots \/ Leaves \/ TakesReplies \/ TakesBackfills \/ Sweeps \/ Rests \/ EndsSweep
  \/ \E c \in Categories : Opens(c) \/ OpensBlank(c) \/ PassesOver(c)
  \/ LeavesFirst \/ SavesCursor \/ SavesNothing \/ Turns \/ TurnsBlank \/ TurnsNot
  \/ \E a \in crawler.walk.left : Polls(a) \/ PollsNameless(a) \/ PollsBlank(a) \/ PollsNot(a)
  \/ Skips \/ Links
  \/ Stores \/ Knows \/ PublishesPost \/ Overwrites \/ NextPage \/ NextPageBlank
  \/ ReadsNoFurther \/ ReadsAgain \/ ReadsAgainNothing
  \/ \E r \in Requests : Deepens(r) \/ DeepensSlug(r) \/ DeepensBlank(r)

LEMMA AnsweringKept ==
  ASSUME BaseInv, AnswersNone
  PROVE  /\ UNCHANGED <<request, posted>>
         /\ \/ crawler'.read.mode = crawler.read.mode /\ crawler'.read.req = crawler.read.req
            \/ crawler.read.mode \notin {"refetch", "unheard"} /\ crawler'.read.mode \notin {"refetch", "unheard"}
<1>1. crawler \in CrawlerRecord /\ crawler.read \in ReadRecord
  BY CrawlerTyped
<1>2. crawler.at \notin InThread => crawler.read.mode = "none"
  BY DEF BaseInv, ReadOK, NoRead
<1>3. NotRunning.read.mode = "none" /\ NoRead.mode = "none"
  BY DEF NotRunning, NoRead
<1>4. CASE Board \/ \E c \in Categories : Monitors(c)
  BY <1>4 DEF Board, NewPost, NewThread, Relocates, Monitors, account
<1>5. CASE Boots \/ Leaves
  BY <1>2, <1>3, <1>5 DEF Boots, Leaves, account, InThread, NotRunning
<1>6. CASE TakesReplies \/ TakesBackfills \/ Sweeps \/ Rests \/ EndsSweep
  BY <1>1, <1>6 DEF TakesReplies, TakesBackfills, Sweeps, Rests, EndsSweep, account, CrawlerRecord
<1>7. CASE \E c \in Categories : Opens(c) \/ OpensBlank(c) \/ PassesOver(c)
  BY <1>1, <1>7 DEF Opens, OpensBlank, PassesOver, FirstPage, account, CrawlerRecord
<1>8. CASE LeavesFirst \/ SavesCursor \/ SavesNothing \/ Turns \/ TurnsBlank \/ TurnsNot
  BY <1>1, <1>8 DEF LeavesFirst, SavesCursor, SavesNothing, Turns, TurnsBlank, TurnsNot, TurnsTo, account,
                    CrawlerRecord
<1>9. CASE \E a \in crawler.walk.left : Polls(a) \/ PollsNameless(a) \/ PollsBlank(a) \/ PollsNot(a)
  <2>1. crawler.at = "list" /\ UNCHANGED <<request, posted>>
    BY <1>9 DEF Polls, PollsNameless, PollsBlank, PollsNot, Polling, account
  <2>2. crawler'.read.mode \in {"poll", crawler.read.mode}
    <3>1. CASE \E a \in crawler.walk.left : Polls(a) \/ PollsNameless(a) \/ PollsBlank(a)
      <4>1. PICK where, a, key, last : Reads(where, a, key, last)
        BY <3>1 DEF Polls, PollsNameless, PollsBlank
      <4> QED
        BY <1>1, <4>1 DEF Reads, Reading, CrawlerRecord
    <3>2. CASE \E a \in crawler.walk.left : PollsNot(a)
      BY <1>1, <3>2 DEF PollsNot, CrawlerRecord
    <3> QED
      BY <1>9, <3>1, <3>2
  <2> QED
    BY <1>2, <2>1, <2>2 DEF InThread
<1>10. CASE Skips \/ Links
  BY <1>1, <1>3, <1>10 DEF Skips, Links, NextThread, account, CrawlerRecord
<1>11. CASE Stores \/ Knows \/ PublishesPost \/ Overwrites \/ ReadsNoFurther \/ ReadsAgainNothing
  BY <1>1, <1>11 DEF Stores, Knows, PublishesPost, Overwrites, ReadsNoFurther, ReadsAgainNothing, AfterPage, account,
                     CrawlerRecord
<1>12. CASE NextPage \/ ReadsAgain
  <2>1. CASE NextPage
    BY <1>1, <2>1 DEF NextPage, account, CrawlerRecord, ReadRecord
  <2>2. CASE ReadsAgain
    BY <1>1, <2>2 DEF ReadsAgain, account, CrawlerRecord, ReadRecord
  <2> QED
    BY <1>12, <2>1, <2>2
<1>13. CASE NextPageBlank
  BY <1>1, <1>13 DEF NextPageBlank, account, CrawlerRecord, ReadRecord
<1>14. CASE \E r \in Requests : Deepens(r) \/ DeepensSlug(r) \/ DeepensBlank(r)
  <2>1. crawler.at = "backfills" /\ UNCHANGED <<request, posted>> /\ crawler'.read.mode = "backfill"
    <3>1. CASE \E r \in Requests : Deepens(r)
      BY <1>1, <3>1 DEF Deepens, At, Reading, account, CrawlerRecord
    <3>2. CASE \E r \in Requests : DeepensSlug(r) \/ DeepensBlank(r)
      <4>1. PICK r \in Requests : Nothing(r)
        BY <3>2 DEF DeepensSlug, DeepensBlank
      <4> QED
        BY <1>1, <4>1 DEF Nothing, At, Reading, account, CrawlerRecord
    <3> QED
      BY <1>14, <3>1, <3>2
  <2> QED
    BY <1>2, <2>1 DEF InThread
<1> QED
  BY <1>4, <1>5, <1>6, <1>7, <1>8, <1>9, <1>10, <1>11, <1>12, <1>13, <1>14 DEF AnswersNone

LEMMA ReplyStep ==
  ASSUME BaseInv, BaseInv', ReplyInv, [CrawlNext]_crawlVars
  PROVE  ReplyInv'
<1>1. CASE UNCHANGED crawlVars
  BY <1>1 DEF crawlVars, account, ReplyInv, Answering
<1>2. CASE CrawlNext
  <2>1. Grown
    BY <1>2, HistoryGrows
  <2>2. /\ crawler \in CrawlerRecord /\ crawler.read \in ReadRecord /\ history \in HistoryRecord
        /\ request \in [Requests -> RequestRecord] /\ posted \in [Requests -> Nat]
    BY CrawlerTyped DEF BaseInv, RecordsOK, BoardOK
  <2>3. \A r \in crawler.todo : r \in Requests /\ request[r].state = "pending"
    BY <2>2 DEF BaseInv, TodoOK, CrawlerRecord
  <2>4. crawler.at \notin InThread => crawler.read.mode = "none"
    BY DEF BaseInv, ReadOK, NoRead
  <2>5. ASSUME NEW r \in Requests, NEW kind \in {"reply", "backfill"}, Asks(r, kind) PROVE ReplyInv'
    <3>1. UNCHANGED <<posted, crawler, history>> /\ request[r].state = "none"
      BY <2>5 DEF Asks, account
    <3>2. PICK e \in stored : request' = [request EXCEPT ![r] =
                                [kind |-> kind, key |-> e.key, state |-> "pending", pages |-> 0]]
      BY <2>5 DEF Asks
    <3>3. request'[r].state = "pending" /\ posted[r] = 0 /\ ~Answering(r)
      BY <2>2, <2>3, <3>1, <3>2 DEF ReplyInv, Answering, BaseInv, ReadOK
    <3>4. \A q \in Requests : q # r => request'[q] = request[q]
      BY <2>2, <3>2
    <3> QED
      BY <3>1, <3>3, <3>4 DEF ReplyInv, Answering
  <2>6. CASE Breaks
    <3>1. UNCHANGED <<request, posted>> /\ crawler'.read.mode = "none"
      BY <2>6 DEF Breaks, account, NotRunning, NoRead
    <3>2. \A r \in Requests : request[r].kind = "reply" /\ posted[r] > 0 /\ Answering(r) => r \in history'.torn
      BY <2>2, <2>6 DEF Breaks, Answering, HistoryRecord
    <3> QED
      BY <2>1, <3>1, <3>2 DEF ReplyInv, Answering, Grown
  <2>7. ASSUME NEW r \in crawler.todo, NEW state \in {"done", "failed"}, NEW pages, Completes(r, state, pages),
               UNCHANGED <<posted, history>>, crawler.read.mode \in {"refetch", "unheard"} => crawler.read.req = r,
               request[r].kind = "reply" => /\ crawler.read.mode = "refetch" => state = "done"
                                            /\ crawler.read.mode # "refetch" => state = "failed"
        PROVE  ReplyInv'
    <3>1. crawler'.read.mode = "none"
      BY <2>2, <2>7 DEF Completes, CrawlerRecord, NoRead
    <3>2. /\ request'[r].state = state /\ request'[r].kind = request[r].kind
          /\ \A q \in Requests : q # r => request'[q] = request[q]
      BY <2>2, <2>3, <2>7 DEF Completes, RequestRecord
    <3>3. \A q \in Requests : q # r => ~Answering(q)
      BY <2>7 DEF Answering
    <3>4. request[r].state = "pending" /\ r \in Requests /\ posted[r] \in Nat
      BY <2>2, <2>3
    <3> QED
      BY <2>7, <3>1, <3>2, <3>3, <3>4 DEF ReplyInv, Answering
  <2>8. ASSUME NEW r \in Requests, NoForm(r) \/ Refused(r) \/ DeepensNot(r) PROVE ReplyInv'
    <3>1. r \in crawler.todo /\ UNCHANGED <<posted, history>> /\ Completes(r, "failed", 0)
      BY <2>8, InHand DEF NoForm, Refused, DeepensNot, At, account
    <3>2. crawler.read.mode \notin {"refetch", "unheard"}
      BY <2>4, <2>8 DEF NoForm, Refused, DeepensNot, At, InThread
    <3> QED
      BY <2>7, <3>1, <3>2
  <2>9. CASE ReplyCompletes \/ BackfillCompletes
    <3> DEFINE r == crawler.read.req
               state == IF crawler.read.mode = "unheard" THEN "failed" ELSE "done"
               pages == IF crawler.read.mode = "backfill" THEN crawler.read.last ELSE 0
    <3>1. r \in crawler.todo /\ UNCHANGED <<posted, history>> /\ Completes(r, state, pages)
      BY <2>9, InHand DEF ReplyCompletes, BackfillCompletes, account
    <3>2. request[r].kind = "reply" => crawler.read.mode \in {"refetch", "unheard"}
      BY <2>9, <3>1, InHand DEF ReplyCompletes, BackfillCompletes
    <3>3. /\ state \in {"done", "failed"} /\ (crawler.read.mode = "refetch" => state = "done")
          /\ (crawler.read.mode = "unheard" => state = "failed") /\ r = crawler.read.req
      OBVIOUS
    <3> HIDE DEF r, state, pages
    <3> QED
      BY <2>7, <3>1, <3>2, <3>3
  <2>10. ASSUME NEW r \in Requests, NEW place, NEW mode \in {"refetch", "unheard"}, Taken(r, place, mode),
                mode = "unheard" => r \in history'.unheard
         PROVE  ReplyInv'
    <3>1. UNCHANGED request /\ r \in crawler.todo /\ crawler.at = "replies" /\ posted' = [posted EXCEPT ![r] = @ + 1]
      BY <2>10 DEF Taken, At
    <3>2. crawler'.read.mode = mode /\ crawler'.read.req = r
      BY <2>2, <2>10 DEF Taken, Reading, CrawlerRecord
    <3>3. posted'[r] = posted[r] + 1 /\ \A q \in Requests : q # r => posted'[q] = posted[q]
      BY <2>2, <3>1
    <3>4. request[r].kind = "reply" /\ request[r].state = "pending" /\ posted[r] \in Nat
      BY <2>2, <2>3, <3>1, InHand
    <3>5. \A q \in Requests : ~Answering(q)
      BY <2>4, <3>1 DEF Answering, InThread
    <3>6. posted'[r] > 0 /\ (posted'[r] > 1 => posted[r] > 0)
      BY <3>3, <3>4
    <3>7. \A q \in Requests : Answering(q)' => q = r
      BY <3>2 DEF Answering
    <3>8. Answering(r)'
      BY <2>10, <3>2 DEF Answering
    <3> SUFFICES ASSUME NEW q \in Requests
                 PROVE  /\ posted'[q] > 0 => request[q].state # "none"
                        /\ posted'[q] > 1 => q \in history'.torn
                        /\ request[q].kind = "reply" =>
                             /\ request[q].state = "pending" /\ posted'[q] > 0 => Answering(q)' \/ q \in history'.torn
                             /\ request[q].state = "failed" /\ posted'[q] > 0 => q \in history'.unheard \cup history'.torn
                             /\ request[q].state = "done" /\ posted'[q] = 0 => q \in history'.short
                        /\ Answering(q)' /\ crawler'.read.mode = "unheard" => q \in history'.unheard
                        /\ Answering(q)' /\ crawler'.read.mode = "refetch" => posted'[q] > 0 \/ q \in history'.short
      BY <3>1 DEF ReplyInv, Answering
    <3>9. CASE q = r
      BY <2>1, <2>10, <3>2, <3>4, <3>5, <3>6, <3>8, <3>9 DEF ReplyInv, Grown
    <3>10. CASE q # r
      BY <2>1, <3>3, <3>5, <3>7, <3>10 DEF ReplyInv, Grown
    <3> QED
      BY <3>9, <3>10
  <2>11. ASSUME NEW r \in Requests, Replies(r) \/ RepliesUnheard(r) PROVE ReplyInv'
    <3>1. RepliesUnheard(r) => r \in history'.unheard
      BY <2>2, RisesTyped DEF RepliesUnheard, HistoryRecord
    <3> QED
      BY <2>10, <2>11, <3>1 DEF Replies, RepliesUnheard
  <2>12. ASSUME NEW r \in Requests, RepliesMisread(r) PROVE ReplyInv'
    <3>1. UNCHANGED <<request, posted>> /\ r \in history'.short /\ crawler.at = "replies"
      BY <2>2, <2>12 DEF RepliesMisread, account, At, HistoryRecord
    <3>2. crawler'.read.mode = "refetch" /\ crawler'.read.req = r
      BY <2>2, <2>12 DEF RepliesMisread, Reading, CrawlerRecord
    <3>3. \A q \in Requests : ~Answering(q)
      BY <2>4, <3>1 DEF Answering, InThread
    <3> QED
      BY <2>1, <3>1, <3>2, <3>3 DEF ReplyInv, Answering, Grown
  <2>13. CASE AnswersNone
    BY <2>1, <2>13, AnsweringKept, ReplyFrame
  <2>14. CASE Board
    BY <2>13, <2>14 DEF AnswersNone
  <2>15. CASE Operators
    BY <2>5, <2>13, <2>15 DEF Operators, AnswersNone
  <2>16. CASE Works
    BY <2>8, <2>9, <2>11, <2>13, <2>16 DEF Works, AnswersNone
  <2>17. CASE Fails
    BY <2>6, <2>8, <2>11, <2>12, <2>13, <2>17 DEF Fails, AnswersNone
  <2> QED
    BY <1>2, <2>14, <2>15, <2>16, <2>17 DEF CrawlNext
<1> QED
  BY <1>1, <1>2

LEMMA ReplyHolds == CrawlSpec => []ReplyInv
<1>1. CrawlInit => ReplyInv
  BY DEF CrawlInit, ReplyInv, Answering, NotRunning, NoRead
<1>2. BaseInv /\ BaseInv' /\ ReplyInv /\ [CrawlNext]_crawlVars => ReplyInv'
  BY ReplyStep
<1> QED
  BY <1>1, <1>2, BaseHolds, PTL DEF CrawlSpec

\* A reply is posted once for each request, unless the process died before it
\* said so; failed and done mean what they say (_execute_reply).
THEOREM RepliedOnceHolds == CrawlSpec => []RepliedOnce
<1>1. ReplyInv => RepliedOnce
  BY DEF ReplyInv, RepliedOnce
<1> QED
  BY <1>1, ReplyHolds, PTL

-----------------------------------------------------------------------------
(* What a request is called done for is in the tables. *)

\* What is read of the thread at hand, as DoneInv has it.
SoFar ==
  LET c == crawler
      k == crawler.read.key
  IN /\ c.read.mode = "backfill" /\ c.read.req \notin history.short =>
          Filled(k, CASE c.at = "ingest" -> c.read.page - 1
                      [] c.at = "close" -> c.read.last
                      [] OTHER -> c.read.page)
     /\ c.read.mode = "refetch" /\ c.read.req \notin history.short =>
          /\ k.thread \in unlocked
          /\ c.at = "again" \/ (c.at = "ingest" /\ c.read.page = 1) \/ NoGate(k)

\* What a row and an unlocked thread give is not taken back.
Kept == /\ stored \subseteq stored' /\ unlocked \subseteq unlocked'
        /\ \A e \in gated' \ gated : e.post = 1 /\ e.key.thread \notin unlocked

LEMMA GateKept ==
  ASSUME Kept, NEW k, NoGate(k)
  PROVE  NoGate(k)'
  BY DEF Kept, NoGate

LEMMA FilledKept ==
  ASSUME Kept, NEW k, NEW n, Filled(k, n)
  PROVE  Filled(k, n)'
  BY DEF Kept, Filled

\* What a request's record says is there.
Delivered(q) == IF q.kind = "backfill" THEN Filled(q.key, q.pages) ELSE NoGate(q.key)

\* Each request is as it was, or done for what is there.
LEMMA DoneFrame ==
  ASSUME BaseInv, DoneInv, Grown, Kept, SoFar',
         \A r \in Requests : \/ request'[r] = request[r] \/ request'[r].state # "done" \/ r \in history'.short
                             \/ \E q : q = request'[r] /\ Delivered(q)'
  PROVE  DoneInv'
<1>1. \A e \in gated' : e.post = 1
  BY DEF DoneInv, Kept
<1>2. ASSUME NEW r \in Requests, NEW q, q = request'[r], q.state = "done", r \notin history'.short
      PROVE  Delivered(q)'
  <2>1. CASE q = request[r]
    <3>1. r \notin history.short
      BY <1>2 DEF Grown
    <3>2. Delivered(q)
      BY <1>2, <2>1, <3>1 DEF DoneInv, Delivered
    <3> QED
      BY <3>2, FilledKept, GateKept DEF Delivered
  <2> QED
    BY <1>2, <2>1
<1>3. \A r \in Requests : request'[r].state = "done" /\ r \notin history'.short =>
        IF request'[r].kind = "backfill"
          THEN \A m \in 1..request'[r].pages : Evidence(request'[r].key, m) \in stored'
          ELSE request'[r].key.thread \in unlocked' /\ \A e \in gated' : e.key # request'[r].key
  BY <1>2 DEF Delivered, Filled, NoGate
<1> QED
  BY <1>1, <1>3 DEF DoneInv, SoFar, Filled, NoGate

\* Nobody reads for a request.
LEMMA SoFarNone ==
  ASSUME crawler.read.mode \notin {"backfill", "refetch"}
  PROVE  SoFar
  BY DEF SoFar

\* The reading and its place are the same.
LEMMA SoFarKept ==
  ASSUME DoneInv, Grown, Kept, UNCHANGED crawler
  PROVE  SoFar'
<1> DEFINE c == crawler
           k == crawler.read.key
<1>1. ASSUME c.read.mode = "backfill", c.read.req \notin history'.short, NEW n, Filled(k, n) PROVE Filled(k, n)'
  <2>1. PICK q : q = k
    OBVIOUS
  <2>2. Filled(q, n)'
    BY <1>1, <2>1, FilledKept
  <2> QED
    BY <2>1, <2>2 DEF Filled
<1>2. ASSUME NoGate(k) PROVE NoGate(k)'
  <2>1. PICK q : q = k
    OBVIOUS
  <2>2. NoGate(q)'
    BY <1>2, <2>1, GateKept
  <2> QED
    BY <2>1, <2>2 DEF NoGate
<1> QED
  BY <1>1, <1>2 DEF SoFar, DoneInv, Grown, Kept, Filled, NoGate, Evidence

LEMMA KeptStep ==
  ASSUME BaseInv, CrawlNext
  PROVE  Kept
<1>1. CASE Stores
  BY <1>1 DEF Stores, account, Kept
<1>2. CASE Overwrites
  BY <1>2 DEF Overwrites, account, Kept
<1>3. CASE \E r, place, mode : Taken(r, place, mode)
  BY <1>3 DEF Taken, tables, Kept
<1>4. UNCHANGED <<stored, gated, unlocked>> => Kept
  BY DEF Kept
<1>5. CASE Board \/ Operators
  BY <1>4, <1>5 DEF Board, NewPost, NewThread, Relocates, Operators, Monitors, Asks, tables, account
<1>6. CASE Works
  <2>1. CASE Boots \/ TakesReplies \/ TakesBackfills \/ Sweeps \/ Rests \/ (\E c \in Categories : Opens(c))
             \/ EndsSweep \/ LeavesFirst \/ SavesCursor \/ Turns
    BY <1>4, <2>1 DEF Boots, TakesReplies, TakesBackfills, Sweeps, Rests, Opens, EndsSweep, LeavesFirst, SavesCursor,
                      Turns, tables, account
  <2>2. CASE (\E a \in crawler.walk.left : Polls(a)) \/ Links \/ Knows \/ PublishesPost \/ NextPage
             \/ ReadsAgain \/ ReplyCompletes \/ BackfillCompletes
    BY <1>4, <2>2 DEF Polls, Links, Knows, PublishesPost, NextPage, ReadsAgain, ReplyCompletes, BackfillCompletes,
                      tables, account
  <2>3. CASE \E r \in Requests : NoForm(r) \/ Replies(r) \/ Deepens(r) \/ DeepensSlug(r)
    BY <1>3, <1>4, <2>3 DEF NoForm, Replies, Deepens, DeepensSlug, Nothing, tables, account
  <2> QED
    BY <1>1, <1>2, <1>6, <2>1, <2>2, <2>3 DEF Works
<1>7. CASE Fails
  BY <1>3, <1>4, <1>7 DEF Fails, Leaves, Breaks, OpensBlank, PassesOver, SavesNothing, TurnsBlank, TurnsNot,
     PollsNameless, PollsBlank, PollsNot, Skips, NextPageBlank, ReadsNoFurther, ReadsAgainNothing, Refused,
     RepliesUnheard, RepliesMisread, DeepensBlank, Nothing, DeepensNot, tables, account
<1> QED
  BY <1>5, <1>6, <1>7 DEF CrawlNext

\* Only a completion says done.
LEMMA NotDoneStep ==
  ASSUME BaseInv, CrawlNext, ~ReplyCompletes, ~BackfillCompletes
  PROVE  \A r \in Requests : request'[r] = request[r] \/ request'[r].state # "done"
<1>1. request \in [Requests -> RequestRecord]
  BY DEF BaseInv, RecordsOK
<1>2. ASSUME NEW r \in Requests, Completes(r, "failed", 0)
      PROVE  \A q \in Requests : request'[q] = request[q] \/ request'[q].state # "done"
  BY <1>1, <1>2 DEF Completes, RequestRecord
<1>3. CASE Board \/ Operators
  <2>1. CASE \E r \in Requests, kind \in {"reply", "backfill"} : Asks(r, kind)
    BY <1>1, <2>1 DEF Asks
  <2> QED
    BY <1>3, <2>1 DEF Board, NewPost, NewThread, Relocates, Operators, Monitors
<1>4. CASE Works
  <2>1. CASE \E r \in Requests : NoForm(r)
    BY <1>2, <2>1 DEF NoForm
  <2>2. CASE Boots \/ TakesReplies \/ TakesBackfills \/ Sweeps \/ Rests \/ (\E c \in Categories : Opens(c))
             \/ EndsSweep \/ LeavesFirst \/ SavesCursor \/ Turns
    BY <2>2 DEF Boots, TakesReplies, TakesBackfills, Sweeps, Rests, Opens, EndsSweep, LeavesFirst, SavesCursor, Turns
  <2>3. CASE (\E a \in crawler.walk.left : Polls(a)) \/ Links \/ Stores \/ Knows \/ PublishesPost \/ Overwrites
             \/ NextPage \/ ReadsAgain
    BY <2>3 DEF Polls, Links, Stores, Knows, PublishesPost, Overwrites, NextPage, ReadsAgain
  <2>4. CASE \E r \in Requests : Replies(r) \/ Deepens(r) \/ DeepensSlug(r)
    BY <2>4 DEF Replies, Taken, Deepens, DeepensSlug, Nothing
  <2> QED
    BY <1>4, <2>1, <2>2, <2>3, <2>4 DEF Works
<1>5. CASE Fails
  <2>1. CASE \E r \in Requests : Refused(r) \/ DeepensNot(r)
    BY <1>2, <2>1 DEF Refused, DeepensNot
  <2> QED
    BY <1>5, <2>1 DEF Fails, Leaves, Breaks, OpensBlank, PassesOver, SavesNothing, TurnsBlank, TurnsNot,
       PollsNameless, PollsBlank, PollsNot, Skips, NextPageBlank, ReadsNoFurther, ReadsAgainNothing,
       RepliesUnheard, RepliesMisread, Taken, DeepensBlank, Nothing
<1> QED
  BY <1>3, <1>4, <1>5 DEF CrawlNext

\* The steps after which no thread is read.
ReadsNone ==
  \/ Boots \/ Leaves \/ Breaks \/ TakesReplies \/ TakesBackfills \/ Sweeps \/ Rests \/ EndsSweep
  \/ \E c \in Categories : Opens(c) \/ OpensBlank(c) \/ PassesOver(c)
  \/ LeavesFirst \/ SavesCursor \/ SavesNothing \/ Turns \/ TurnsBlank \/ TurnsNot
  \/ (\E a \in crawler.walk.left : PollsNot(a)) \/ Skips \/ Links
  \/ ReplyCompletes \/ BackfillCompletes
  \/ \E r \in Requests : NoForm(r) \/ Refused(r) \/ DeepensNot(r)

LEMMA ReadsNoneStep ==
  ASSUME BaseInv, BaseInv', ReadsNone
  PROVE  crawler'.at \notin InThread /\ crawler'.read = NoRead
<1>1. crawler \in CrawlerRecord
  BY CrawlerTyped
<1>2. CASE Boots \/ Leaves \/ Breaks
  BY <1>2 DEF Boots, Leaves, Breaks, InThread, NotRunning, BaseInv, ReadOK
<1>3. CASE TakesReplies \/ TakesBackfills \/ Sweeps \/ Rests \/ EndsSweep
  BY <1>1, <1>3 DEF TakesReplies, TakesBackfills, Sweeps, Rests, EndsSweep, InThread, CrawlerRecord, BaseInv, ReadOK
<1>4. CASE \E c \in Categories : Opens(c) \/ OpensBlank(c) \/ PassesOver(c)
  BY <1>1, <1>4 DEF Opens, OpensBlank, PassesOver, FirstPage, InThread, CrawlerRecord, BaseInv, ReadOK
<1>5. CASE LeavesFirst \/ SavesCursor \/ SavesNothing \/ Turns \/ TurnsBlank \/ TurnsNot
  BY <1>1, <1>5 DEF LeavesFirst, SavesCursor, SavesNothing, Turns, TurnsBlank, TurnsNot, TurnsTo, InThread,
                    CrawlerRecord, BaseInv, ReadOK
<1>6. CASE (\E a \in crawler.walk.left : PollsNot(a)) \/ Skips \/ Links
  BY <1>1, <1>6 DEF PollsNot, Polling, Skips, Links, NextThread, InThread, CrawlerRecord, BaseInv, ReadOK
<1>7. CASE \/ ReplyCompletes \/ BackfillCompletes
           \/ \E r \in Requests : NoForm(r) \/ Refused(r) \/ DeepensNot(r)
  <2>1. \E r \in Requests \cup {Nil}, state \in {"done", "failed"}, pages \in Nat : Completes(r, state, pages)
    <3>1. crawler.read.req \in Requests \cup {Nil} /\ crawler.read.last \in Nat
      BY <1>1 DEF CrawlerRecord, ReadRecord
    <3> QED
      BY <1>7, <3>1 DEF ReplyCompletes, BackfillCompletes, NoForm, Refused, DeepensNot
  <2>2. crawler'.at \in {"replies", "backfills"} /\ crawler'.read = NoRead
    BY <1>1, <2>1 DEF Completes, CrawlerRecord
  <2> QED
    BY <2>2 DEF InThread
<1> QED
  BY <1>2, <1>3, <1>4, <1>5, <1>6, <1>7 DEF ReadsNone

\* From page to page, what is read for a request grows.
LEMMA SoFarReads ==
  ASSUME BaseInv, DoneInv, Grown, Kept,
         Stores \/ Knows \/ PublishesPost \/ Overwrites \/ NextPage \/ NextPageBlank \/ ReadsNoFurther
  PROVE  SoFar'
<1> DEFINE k == crawler.read.key
           n == crawler.read.page
<1>1. /\ crawler \in CrawlerRecord /\ crawler.read \in ReadRecord /\ history \in HistoryRecord
      /\ gated \subseteq stored /\ stored \subseteq Rows
  BY CrawlerTyped
<1>2. PICK q, m : q = k /\ m = n
  OBVIOUS
<1>3. m \in 1..crawler.read.last /\ crawler.read.last \in Nat /\ m \in Nat
  BY <1>1, <1>2 DEF BaseInv, ReadOK, ReadRecord, Stores, Knows, PublishesPost, Overwrites, NextPage, NextPageBlank,
                    ReadsNoFurther
<1>4. crawler'.read.mode = crawler.read.mode /\ crawler'.read.key = q /\ crawler'.read.req = crawler.read.req
  <2>1. CASE Stores \/ Knows \/ PublishesPost \/ Overwrites \/ ReadsNoFurther
    BY <1>1, <1>2, <2>1 DEF Stores, Knows, PublishesPost, Overwrites, ReadsNoFurther, AfterPage, CrawlerRecord
  <2>2. CASE NextPage
    BY <1>1, <1>2, <2>2 DEF NextPage, CrawlerRecord, ReadRecord
  <2>3. CASE NextPageBlank
    BY <1>1, <1>2, <2>3 DEF NextPageBlank, CrawlerRecord, ReadRecord
  <2> QED
    BY <2>1, <2>2, <2>3
<1>5. CASE NextPageBlank \/ ReadsNoFurther
  <2>1. history'.short = history.short \cup ({crawler.read.req} \cap Requests)
    BY <1>1, <1>5 DEF NextPageBlank, ReadsNoFurther, ForRequest, HistoryRecord
  <2>2. crawler.read.mode \in {"backfill", "refetch"} => crawler.read.req \in Requests
    BY <1>1 DEF BaseInv, ReadOK, CrawlerRecord
  <2> QED
    BY <1>4, <2>1, <2>2 DEF SoFar
<1>6. ASSUME crawler.read.mode = "backfill", crawler.read.req \notin history'.short,
             Stores \/ Knows \/ PublishesPost \/ NextPage
      PROVE  Filled(q, m)'
  <2>1. crawler.read.req \notin history.short
    BY <1>6 DEF Grown
  <2>2. CASE Stores \/ Knows
    <3>1. Filled(q, m - 1)
      BY <1>2, <1>6, <2>1, <2>2 DEF DoneInv, Stores, Knows
    <3>2. Evidence(q, m) \in stored'
      BY <1>2, <2>2 DEF Stores, Knows, Post, tables
    <3>3. Filled(q, m - 1)'
      BY <3>1, FilledKept
    <3>4. \A i \in 1..m : i = m \/ i \in 1..(m - 1)
      BY <1>3
    <3> QED
      BY <3>2, <3>3, <3>4 DEF Filled
  <2>3. CASE PublishesPost \/ NextPage
    <3>1. Filled(q, m)
      BY <1>2, <1>6, <2>1, <2>3 DEF DoneInv, PublishesPost, NextPage
    <3> QED
      BY <3>1, FilledKept
  <2> QED
    BY <1>6, <2>2, <2>3
<1>7. CASE Stores
  <2>1. crawler'.at = "publish" /\ crawler'.read.page = m /\ crawler.read.mode # "refetch"
    BY <1>1, <1>2, <1>7 DEF Stores, CrawlerRecord
  <2> QED
    BY <1>4, <1>6, <1>7, <2>1 DEF SoFar, Filled, Evidence
<1>8. CASE Knows \/ PublishesPost
  <2>1. /\ crawler'.read.page = m /\ crawler'.read.last = crawler.read.last
        /\ crawler'.at = IF m < crawler.read.last THEN "turn" ELSE "close"
    BY <1>1, <1>2, <1>8 DEF Knows, PublishesPost, AfterPage, CrawlerRecord
  <2>2. crawler.read.mode # "refetch"
    BY <1>8 DEF Knows, PublishesPost, BaseInv, ReadOK
  <2>3. ~(m < crawler.read.last) => crawler.read.last = m
    BY <1>3
  <2> QED
    BY <1>4, <1>6, <1>8, <2>1, <2>2, <2>3 DEF SoFar, Filled, Evidence
<1>9. CASE Overwrites
  <2>1. ASSUME crawler.read.req \notin history'.short PROVE q.thread \in unlocked' /\ NoGate(q)'
    <3>1. crawler.read.req \notin history.short /\ crawler.read.mode = "refetch" /\ crawler.at = "ingest"
      BY <1>9, <2>1 DEF Grown, Overwrites
    <3>2. q.thread \in unlocked
      BY <1>2, <3>1 DEF DoneInv
    <3>3. CASE m = 1
      <4>1. gated' = gated \ {Evidence(q, 1)} /\ UNCHANGED unlocked
        BY <1>2, <1>9, <3>2, <3>3 DEF Overwrites, Post, Evidence, account
      <4>2. \A e \in gated : e.key = q => e = Evidence(q, 1)
        BY <1>1 DEF DoneInv, Rows, Evidence
      <4> QED
        BY <3>2, <4>1, <4>2 DEF NoGate
    <3>4. CASE m # 1
      <4>1. NoGate(q)
        BY <1>2, <3>1, <3>4 DEF DoneInv
      <4> QED
        BY <3>2, <4>1, GateKept DEF Kept
    <3> QED
      BY <3>3, <3>4
  <2> QED
    BY <1>4, <1>9, <2>1 DEF SoFar, NoGate, Overwrites
<1>10. CASE NextPage
  <2>1. crawler'.at = "ingest" /\ crawler'.read.page = m + 1 /\ (m + 1) - 1 = m
    BY <1>1, <1>2, <1>3, <1>10 DEF NextPage, CrawlerRecord, ReadRecord
  <2>2. ASSUME crawler.read.mode = "refetch", crawler.read.req \notin history'.short
        PROVE  q.thread \in unlocked' /\ NoGate(q)'
    <3>1. crawler.read.req \notin history.short /\ crawler.at = "turn"
      BY <1>10, <2>2 DEF Grown, NextPage
    <3>2. q.thread \in unlocked /\ NoGate(q)
      BY <1>2, <2>2, <3>1 DEF DoneInv
    <3> QED
      BY <3>2, GateKept DEF Kept
  <2> QED
    BY <1>4, <1>6, <1>10, <2>1, <2>2 DEF SoFar, Filled, NoGate, Evidence
<1> QED
  BY <1>5, <1>7, <1>8, <1>9, <1>10

\* A request is taken up, and a thread read again.
LEMMA SoFarBegins ==
  ASSUME BaseInv, DoneInv, Grown, Kept,
         \/ ReadsAgain \/ ReadsAgainNothing
         \/ \E r \in Requests : \/ Replies(r) \/ RepliesUnheard(r) \/ RepliesMisread(r)
                                \/ Deepens(r) \/ DeepensSlug(r) \/ DeepensBlank(r)
         \/ \E a \in crawler.walk.left : Polls(a) \/ PollsNameless(a) \/ PollsBlank(a)
  PROVE  SoFar'
<1>1. /\ crawler \in CrawlerRecord /\ crawler.read \in ReadRecord /\ history \in HistoryRecord
  BY CrawlerTyped
<1>2. CASE ReadsAgain \/ ReadsAgainNothing
  <2>1. crawler.at = "again" /\ crawler.read.mode = "refetch" /\ crawler.read.req \in Requests
    BY <1>1, <1>2 DEF ReadsAgain, ReadsAgainNothing, BaseInv, ReadOK, CrawlerRecord
  <2>2. CASE ReadsAgainNothing
    <3>1. crawler.read.req \in history'.short /\ crawler'.read = crawler.read
      BY <1>1, <2>1, <2>2 DEF ReadsAgainNothing, ForRequest, CrawlerRecord, HistoryRecord
    <3> QED
      BY <2>1, <3>1 DEF SoFar
  <2>3. CASE ReadsAgain
    <3>1. /\ crawler'.at = "ingest" /\ crawler'.read.page = 1 /\ crawler'.read.mode = "refetch"
          /\ crawler'.read.key = crawler.read.key /\ crawler'.read.req = crawler.read.req
      BY <1>1, <2>1, <2>3 DEF ReadsAgain, CrawlerRecord, ReadRecord
    <3>2. crawler.read.req \notin history'.short => crawler.read.key.thread \in unlocked'
      BY <2>1 DEF DoneInv, Grown, Kept
    <3> QED
      BY <3>1, <3>2 DEF SoFar
  <2> QED
    BY <1>2, <2>2, <2>3
<1>3. ASSUME NEW r \in Requests, Replies(r) PROVE SoFar'
  <2>1. /\ crawler'.at = "again" /\ crawler'.read.key = request[r].key /\ request[r].key.thread \in unlocked'
        /\ crawler'.read.mode = "refetch"
    BY <1>1, <1>3 DEF Replies, Taken, Reading, CrawlerRecord
  <2> QED
    BY <2>1 DEF SoFar
<1>4. ASSUME NEW r \in Requests, RepliesUnheard(r) PROVE SoFar'
  <2>1. crawler'.read.mode = "unheard"
    BY <1>1, <1>4 DEF RepliesUnheard, Taken, Reading, CrawlerRecord
  <2> QED
    BY <2>1 DEF SoFar
<1>5. ASSUME NEW r \in Requests, RepliesMisread(r) \/ DeepensSlug(r) \/ DeepensBlank(r) PROVE SoFar'
  <2>1. r \in history'.short /\ crawler'.read.req = r
    <3>1. CASE RepliesMisread(r)
      BY <1>1, <3>1 DEF RepliesMisread, Reading, CrawlerRecord, HistoryRecord
    <3>2. CASE Nothing(r)
      BY <1>1, <3>2 DEF Nothing, Reading, CrawlerRecord, HistoryRecord
    <3> QED
      BY <1>5, <3>1, <3>2 DEF DeepensSlug, DeepensBlank
  <2> QED
    BY <2>1 DEF SoFar
<1>6. ASSUME NEW r \in Requests, Deepens(r) PROVE SoFar'
  <2>1. crawler'.at = "ingest" /\ crawler'.read.page = 1 /\ crawler'.read.mode = "backfill"
    BY <1>1, <1>6 DEF Deepens, Reading, CrawlerRecord
  <2>2. 1 - 1 = 0 /\ 1..0 = {}
    OBVIOUS
  <2> QED
    BY <2>1, <2>2 DEF SoFar, Filled
<1>7. ASSUME NEW a \in crawler.walk.left, Polls(a) \/ PollsNameless(a) \/ PollsBlank(a) PROVE SoFar'
  <2>1. PICK where, key, last : Reads(where, a, key, last)
    BY <1>7 DEF Polls, PollsNameless, PollsBlank
  <2>2. crawler'.read.mode = "poll"
    BY <1>1, <2>1 DEF Reads, Reading, CrawlerRecord
  <2> QED
    BY <2>2 DEF SoFar
<1> QED
  BY <1>2, <1>3, <1>4, <1>5, <1>6, <1>7

LEMMA DoneStep ==
  ASSUME BaseInv, BaseInv', DoneInv, [CrawlNext]_crawlVars
  PROVE  DoneInv'
<1>1. CASE UNCHANGED crawlVars
  BY <1>1 DEF crawlVars, account, tables, DoneInv, Filled, NoGate
<1>2. CASE CrawlNext
  <2>1. Grown /\ Kept
    BY <1>2, HistoryGrows, KeptStep
  <2>2. CASE ReplyCompletes \/ BackfillCompletes
    <3> DEFINE r == crawler.read.req
    <3>1. /\ request \in [Requests -> RequestRecord] /\ r \in crawler.todo /\ r \in Requests
          /\ request[r].key = crawler.read.key /\ crawler.read.last \in Nat /\ crawler.at = "close"
      BY <2>2, CrawlerTyped, InHand DEF ReplyCompletes, BackfillCompletes, BaseInv, RecordsOK, ReadOK, ReadRecord
    <3>2. PICK q : q = request'[r]
      OBVIOUS
    <3>3. UNCHANGED <<stored, gated, unlocked, history>>
      BY <2>2 DEF ReplyCompletes, BackfillCompletes, tables, account
    <3>4. q.key = crawler.read.key /\ q.kind = request[r].kind
      BY <2>2, <3>1, <3>2 DEF ReplyCompletes, BackfillCompletes, Completes, RequestRecord
    <3>5. q.state # "done" \/ r \in history'.short \/ Delivered(q)'
      <4>1. CASE ReplyCompletes
        <5>1. q.state = "done" => crawler.read.mode = "refetch"
          BY <3>1, <3>2, <4>1 DEF ReplyCompletes, Completes, RequestRecord
        <5>2. crawler.read.mode = "refetch" /\ r \notin history.short => NoGate(q.key)
          BY <3>1, <3>4 DEF DoneInv
        <5>3. q.kind = "reply"
          BY <3>1, <3>4, <4>1, InHand DEF ReplyCompletes
        <5> QED
          BY <3>3, <5>1, <5>2, <5>3 DEF Delivered, NoGate
      <4>2. CASE BackfillCompletes
        <5>1. q.pages = crawler.read.last
          BY <3>1, <3>2, <4>2 DEF BackfillCompletes, Completes, RequestRecord
        <5>2. r \notin history.short => Filled(q.key, q.pages)
          BY <3>1, <3>4, <4>2, <5>1 DEF DoneInv, BackfillCompletes
        <5>3. q.kind = "backfill"
          BY <3>1, <3>4, <4>2, InHand DEF BackfillCompletes
        <5> QED
          BY <3>3, <5>2, <5>3 DEF Delivered, Filled, Evidence
      <4> QED
        BY <2>2, <4>1, <4>2
    <3>6. \A p \in Requests : p # r => request'[p] = request[p]
      BY <2>2, <3>1 DEF ReplyCompletes, BackfillCompletes, Completes
    <3>7. SoFar'
      <4>1. crawler'.read = NoRead
        BY <2>2, ReadsNoneStep DEF ReadsNone
      <4> QED
        BY <4>1 DEF SoFar, NoRead
    <3> HIDE DEF r
    <3> QED
      BY <2>1, <3>2, <3>5, <3>6, <3>7, DoneFrame
  <2>3. CASE ~ReplyCompletes /\ ~BackfillCompletes
    <3>1. SoFar'
      <4>1. CASE ReadsNone
        <5>1. crawler'.read = NoRead
          BY <4>1, ReadsNoneStep
        <5> QED
          BY <5>1 DEF SoFar, NoRead
      <4>2. CASE Board \/ Operators
        <5>1. UNCHANGED crawler
          BY <4>2 DEF Board, NewPost, NewThread, Relocates, Operators, Monitors, Asks
        <5> QED
          BY <2>1, <5>1, SoFarKept
      <4>3. CASE Works
        BY <2>1, <4>1, <4>3, SoFarReads, SoFarBegins DEF Works, ReadsNone
      <4>4. CASE Fails
        BY <2>1, <4>1, <4>4, SoFarReads, SoFarBegins DEF Fails, ReadsNone
      <4> QED
        BY <1>2, <4>2, <4>3, <4>4 DEF CrawlNext
    <3>2. \A r \in Requests : request'[r] = request[r] \/ request'[r].state # "done"
      BY <1>2, <2>3, NotDoneStep
    <3> QED
      BY <2>1, <3>1, <3>2, DoneFrame
  <2> QED
    BY <2>2, <2>3
<1> QED
  BY <1>1, <1>2

LEMMA DoneHolds == CrawlSpec => []DoneInv
<1>1. CrawlInit => DoneInv
  BY DEF CrawlInit, DoneInv, NotRunning, NoRead
<1>2. BaseInv /\ BaseInv' /\ DoneInv /\ [CrawlNext]_crawlVars => DoneInv'
  BY DoneStep
<1> QED
  BY <1>1, <1>2, BaseHolds, PTL DEF CrawlSpec

\* What a request is called done for is in the tables, unless a page came back
\* empty (_execute_backfill, _refetch_thread_unlocked).
THEOREM DoneIsReadHolds == CrawlSpec => []DoneIsRead
<1>1. DoneInv => DoneIsRead
  BY DEF DoneInv, DoneIsRead, Filled, NoGate
<1> QED
  BY <1>1, DoneHolds, PTL

-----------------------------------------------------------------------------
(* What the cursor passes has been read. *)

PlacesOK ==
  \A t \in Threads : Place(t) \in Nat /\ (\A c \in Categories : home[t] = c => Place(t) > 0)

LEMMA PlaceTyped == BoardOK => PlacesOK
<1> SUFFICES ASSUME BoardOK, NEW t \in Threads
             PROVE  Place(t) \in Nat /\ (\A c \in Categories : home[t] = c => Place(t) > 0)
  BY DEF PlacesOK
<1> QED
  BY PageTyped DEF Place

LEMMA PlacesTyped ==
  ASSUME BaseInv, BaseInv'
  PROVE  (\A t \in Threads : Place(t) \in Nat) /\ (\A t \in Threads : Place(t)' \in Nat)
<1>1. PlacesOK
  BY PlaceTyped DEF BaseInv
<1>2. BoardOK' => PlacesOK'
  BY PlaceTyped, PTL
<1> QED
  BY <1>1, <1>2 DEF BaseInv, PlacesOK

\* No thread comes to an earlier page, or to a category, without being noted.
Shifts ==
  \A t \in Threads : home'[t] # Nil => Had(t)' \/ (home'[t] = home[t] /\ Place(t) <= Place(t)')
HadGrows == \A t \in Threads : Had(t) => Had(t)'

LEMMA HadStep ==
  ASSUME Grown, Kept
  PROVE  HadGrows
  BY DEF Grown, Kept, HadGrows, Had

LEMMA RisesShift ==
  ASSUME BaseInv, BaseInv', Rises \subseteq history'.risen
  PROVE  Shifts
<1>1. \A t \in Threads : Place(t) \in Nat
  BY PlacesTyped
<1>2. \A t \in Threads : Place(t)' \in Nat
  BY PlacesTyped
<1> SUFFICES ASSUME NEW t \in Threads, home'[t] # Nil, ~Had(t)'
             PROVE  home'[t] = home[t] /\ Place(t) <= Place(t)'
  BY DEF Shifts
<1>3. t \notin Rises
  BY DEF Had
<1>4. home'[t] = home[t]
  BY <1>3 DEF Rises
<1>5. ~(Place(t)' < Place(t))
  BY <1>3, <1>4 DEF Rises, Place
<1> QED
  BY <1>1, <1>2, <1>4, <1>5

LEMMA StillShift ==
  ASSUME BaseInv, UNCHANGED <<rank, home>>
  PROVE  Shifts
<1>1. \A t \in Threads : Place(t) \in Nat
  BY PlaceTyped DEF BaseInv, PlacesOK
<1>2. \A t \in Threads : Place(t)' = Place(t)
  BY DEF Place, PageOf, Listed
<1> QED
  BY <1>1, <1>2 DEF Shifts

LEMMA ShiftStep ==
  ASSUME BaseInv, BaseInv', CrawlNext
  PROVE  Shifts
<1>1. history \in HistoryRecord
  BY CrawlerTyped
<1>2. CASE Board
  <2>1. Rises \subseteq history'.risen
    BY <1>1, <1>2 DEF Board, NewPost, NewThread, Relocates, HistoryRecord
  <2> QED
    BY <2>1, RisesShift
<1>3. CASE \E r \in Requests : Replies(r) \/ RepliesUnheard(r)
  <2>1. Rises \subseteq history'.risen
    BY <1>1, <1>3 DEF Replies, RepliesUnheard, HistoryRecord
  <2> QED
    BY <2>1, RisesShift
<1>4. CASE Operators
  BY <1>4, StillShift DEF Operators, Monitors, Asks, board
<1>5. CASE Works
  <2>1. CASE Boots \/ TakesReplies \/ TakesBackfills \/ Sweeps \/ Rests \/ (\E c \in Categories : Opens(c))
             \/ EndsSweep \/ LeavesFirst \/ SavesCursor \/ Turns
    BY <2>1, StillShift DEF Boots, TakesReplies, TakesBackfills, Sweeps, Rests, Opens, EndsSweep, LeavesFirst,
                            SavesCursor, Turns, board
  <2>2. CASE (\E a \in crawler.walk.left : Polls(a)) \/ Links \/ Stores \/ Knows \/ PublishesPost \/ Overwrites
             \/ NextPage \/ ReadsAgain \/ ReplyCompletes \/ BackfillCompletes
    BY <2>2, StillShift DEF Polls, Links, Stores, Knows, PublishesPost, Overwrites, NextPage, ReadsAgain,
                            ReplyCompletes, BackfillCompletes, board
  <2>3. CASE \E r \in Requests : NoForm(r) \/ Deepens(r) \/ DeepensSlug(r)
    BY <2>3, StillShift DEF NoForm, Deepens, DeepensSlug, Nothing, board
  <2> QED
    BY <1>3, <1>5, <2>1, <2>2, <2>3 DEF Works
<1>6. CASE Fails
  <2>1. CASE Leaves \/ Breaks \/ SavesNothing \/ TurnsBlank \/ TurnsNot \/ Skips
             \/ NextPageBlank \/ ReadsNoFurther \/ ReadsAgainNothing
    BY <2>1, StillShift DEF Leaves, Breaks, SavesNothing, TurnsBlank, TurnsNot, Skips, NextPageBlank, ReadsNoFurther,
                            ReadsAgainNothing, board
  <2>2. CASE \/ \E c \in Categories : OpensBlank(c) \/ PassesOver(c)
             \/ \E a \in crawler.walk.left : PollsNameless(a) \/ PollsBlank(a) \/ PollsNot(a)
    BY <2>2, StillShift DEF OpensBlank, PassesOver, PollsNameless, PollsBlank, PollsNot, board
  <2>3. CASE \E r \in Requests : Refused(r) \/ RepliesMisread(r) \/ DeepensBlank(r) \/ DeepensNot(r)
    BY <2>3, StillShift DEF Refused, RepliesMisread, DeepensBlank, Nothing, DeepensNot, board
  <2> QED
    BY <1>3, <1>6, <2>1, <2>2, <2>3 DEF Fails
<1> QED
  BY <1>2, <1>4, <1>5, <1>6 DEF CrawlNext

\* What is behind a page stays behind it.
LEMMA BehindKept ==
  ASSUME Shifts, HadGrows, BaseInv, BaseInv', NEW c \in Categories, NEW n \in Nat, Behind(c, n)
  PROVE  \A t \in Threads : home'[t] = c /\ Place(t)' < n => Had(t)'
<1>1. \A t \in Threads : Place(t) \in Nat
  BY PlacesTyped
<1>2. \A t \in Threads : Place(t)' \in Nat
  BY PlacesTyped
<1>3. c # Nil
  BY ForumConstants
<1> SUFFICES ASSUME NEW t \in Threads, home'[t] = c, Place(t)' < n PROVE Had(t)'
  OBVIOUS
<1>4. CASE home'[t] = home[t] /\ Place(t) <= Place(t)'
  <2>1. Place(t) < n
    BY <1>1, <1>2, <1>4
  <2> QED
    BY <1>4, <2>1 DEF Behind, HadGrows
<1> QED
  BY <1>3, <1>4 DEF Shifts

\* The cursor stays where it is.
LEMMA CursorFrame ==
  ASSUME Shifts, HadGrows, BaseInv, BaseInv', CursorInv, UNCHANGED cursor
  PROVE  CursorInv'
<1>1. cursor \in [Categories -> [next : Nat, complete : BOOLEAN]]
  BY CrawlerTyped
<1> SUFFICES ASSUME NEW c \in Categories
             PROVE  /\ \A t \in Threads : home'[t] = c /\ Place(t)' < cursor[c].next => Had(t)'
                    /\ cursor[c].complete => \A t \in Threads : home'[t] = c => Had(t)'
  BY DEF CursorInv, Behind
<1>2. cursor[c].next \in Nat /\ Behind(c, cursor[c].next)
  BY <1>1 DEF CursorInv
<1>3. cursor[c].complete => \A t \in Threads : home'[t] = c => Had(t)'
  BY ForumConstants DEF CursorInv, Shifts, HadGrows
<1> QED
  BY <1>2, <1>3, BehindKept

\* The walk goes on over the same page.
LEMMA OnPageFrame ==
  ASSUME Shifts, HadGrows, BaseInv, BaseInv', WalkInv, OnPage,
         crawler'.walk.cat = crawler.walk.cat, crawler'.walk.page = crawler.walk.page,
         crawler'.walk.last = crawler.walk.last, crawler'.walk.from = crawler.walk.from,
         \A t \in Threads : AtHand(t) => AtHand(t)' \/ Had(t)'
  PROVE  ((crawler'.walk.page = 1 /\ crawler'.walk.last = 1) \/ Covered') /\ Resumes'
<1>1. /\ crawler.walk.cat \in Categories /\ crawler.walk.page \in Nat /\ crawler.walk.from \in Nat
  BY CrawlerTyped DEF OnPage, BaseInv, WalkOK, WalkRecord, InWalk
<1>2. \A t \in Threads : Place(t) \in Nat
  BY PlacesTyped
<1>3. \A t \in Threads : Place(t)' \in Nat
  BY PlacesTyped
<1>4. ASSUME Covered PROVE Covered'
  <2> SUFFICES ASSUME NEW t \in Threads, home'[t] = crawler.walk.cat, Place(t)' <= crawler.walk.page, ~Had(t)'
               PROVE  AtHand(t)'
    BY DEF Covered
  <2>1. home'[t] = home[t] /\ Place(t) <= Place(t)'
    BY <1>1, ForumConstants DEF Shifts
  <2>2. Place(t) <= crawler.walk.page
    BY <1>1, <1>2, <1>3, <2>1
  <2>3. Had(t) \/ AtHand(t)
    BY <1>4, <2>1, <2>2 DEF Covered
  <2> QED
    BY <2>3 DEF HadGrows
<1>5. Resumes'
  <2>1. ASSUME Behind(crawler.walk.cat, crawler.walk.from) PROVE Behind(crawler.walk.cat, crawler.walk.from)'
    BY <1>1, <2>1, BehindKept DEF Behind
  <2>2. Resumes
    BY DEF WalkInv
  <2> QED
    BY <2>1, <2>2 DEF Resumes, Behind
<1> QED
  BY <1>4, <1>5 DEF WalkInv

\* No category is walked.
LEMMA OffPage ==
  ASSUME BaseInv', crawler'.at \notin InWalk, crawler'.read.mode # "poll"
  PROVE  WalkInv'
  BY DEF WalkInv, PolledOK, ToOpen, OnPage, Polled, InWalk

\* The steps of no walk.
OffWalk ==
  \/ Boots \/ Leaves \/ Breaks \/ TakesReplies \/ TakesBackfills \/ Sweeps \/ Rests \/ EndsSweep
  \/ (\E c \in Categories : PassesOver(c)) \/ SavesNothing \/ TurnsNot
  \/ Overwrites \/ ReadsAgain \/ ReadsAgainNothing \/ ReplyCompletes \/ BackfillCompletes
  \/ \E r \in Requests : \/ NoForm(r) \/ Refused(r) \/ DeepensNot(r) \/ Replies(r) \/ RepliesUnheard(r)
                         \/ RepliesMisread(r) \/ Deepens(r) \/ DeepensSlug(r) \/ DeepensBlank(r)

LEMMA OffWalkStep ==
  ASSUME BaseInv, BaseInv', OffWalk
  PROVE  WalkInv'
<1>1. crawler \in CrawlerRecord /\ crawler.read \in ReadRecord
  BY CrawlerTyped
<1>2. CASE \/ Boots \/ Leaves \/ Breaks \/ TakesReplies \/ TakesBackfills \/ Sweeps \/ Rests \/ EndsSweep
           \/ (\E c \in Categories : PassesOver(c)) \/ SavesNothing \/ TurnsNot
           \/ ReplyCompletes \/ BackfillCompletes
           \/ \E r \in Requests : NoForm(r) \/ Refused(r) \/ DeepensNot(r)
  <2>1. crawler'.at \notin InThread /\ crawler'.read = NoRead
    BY <1>2, ReadsNoneStep DEF ReadsNone
  <2>2. crawler'.at \notin InWalk
    <3>1. CASE Boots \/ Leaves \/ Breaks
      BY <3>1 DEF Boots, Leaves, Breaks, NotRunning, InWalk
    <3>2. CASE TakesReplies \/ TakesBackfills \/ Sweeps \/ Rests \/ EndsSweep
      BY <1>1, <3>2 DEF TakesReplies, TakesBackfills, Sweeps, Rests, EndsSweep, CrawlerRecord, InWalk
    <3>3. CASE (\E c \in Categories : PassesOver(c)) \/ SavesNothing \/ TurnsNot
      BY <1>1, <3>3 DEF PassesOver, SavesNothing, TurnsNot, CrawlerRecord, InWalk
    <3>4. CASE \/ ReplyCompletes \/ BackfillCompletes
               \/ \E r \in Requests : NoForm(r) \/ Refused(r) \/ DeepensNot(r)
      BY <1>1, <3>4 DEF ReplyCompletes, BackfillCompletes, NoForm, Refused, DeepensNot, Completes, CrawlerRecord, InWalk
    <3> QED
      BY <1>2, <3>1, <3>2, <3>3, <3>4
  <2> QED
    BY <2>1, <2>2, OffPage DEF NoRead
<1>3. CASE Overwrites \/ ReadsAgainNothing
  <2>1. crawler.read.mode # "poll"
    BY <1>3 DEF Overwrites, ReadsAgainNothing, BaseInv, ReadOK
  <2>2. crawler'.read = crawler.read /\ crawler'.at \notin InWalk
    BY <1>1, <1>3 DEF Overwrites, ReadsAgainNothing, AfterPage, CrawlerRecord, InWalk
  <2> QED
    BY <2>1, <2>2, OffPage
<1>4. CASE ReadsAgain
  <2>1. crawler.read.mode # "poll"
    BY <1>4 DEF ReadsAgain, BaseInv, ReadOK
  <2>2. crawler'.read.mode = crawler.read.mode /\ crawler'.at \notin InWalk
    BY <1>1, <1>4 DEF ReadsAgain, CrawlerRecord, ReadRecord, InWalk
  <2> QED
    BY <2>1, <2>2, OffPage
<1>5. ASSUME NEW r \in Requests, NEW place \in {"again", "close", "ingest"}, NEW mode \in {"refetch", "unheard", "backfill"},
             NEW page, NEW last,
             crawler' = [crawler EXCEPT !.at = place, !.read = Reading(mode, request[r].key, page, last, r)]
      PROVE  WalkInv'
  <2>1. crawler'.read.mode = mode /\ crawler'.at = place
    BY <1>1, <1>5 DEF Reading, CrawlerRecord
  <2> QED
    BY <2>1, OffPage DEF InWalk
<1>6. ASSUME NEW r \in Requests, \/ Replies(r) \/ RepliesUnheard(r) \/ RepliesMisread(r)
                                 \/ Deepens(r) \/ DeepensSlug(r) \/ DeepensBlank(r)
      PROVE  WalkInv'
  <2>1. CASE Replies(r)
    BY <1>5, <2>1 DEF Replies, Taken
  <2>2. CASE RepliesUnheard(r)
    BY <1>5, <2>2 DEF RepliesUnheard, Taken
  <2>3. CASE RepliesMisread(r)
    BY <1>5, <2>3 DEF RepliesMisread
  <2>4. CASE Deepens(r)
    BY <1>5, <2>4 DEF Deepens
  <2>5. CASE DeepensSlug(r) \/ DeepensBlank(r)
    BY <1>5, <2>5 DEF DeepensSlug, DeepensBlank, Nothing
  <2> QED
    BY <1>6, <2>1, <2>2, <2>3, <2>4, <2>5
<1> QED
  BY <1>2, <1>3, <1>4, <1>6 DEF OffWalk

\* The crawler stays as it is.
LEMMA WalkFrame ==
  ASSUME Shifts, HadGrows, BaseInv, BaseInv', WalkInv, UNCHANGED crawler
  PROVE  WalkInv'
<1>1. PolledOK'
  BY DEF WalkInv, PolledOK, Polled, HadGrows
<1>2. ToOpen'
  <2>1. SUFFICES ASSUME crawler.at = "page"
                 PROVE  crawler.walk.page > 1 /\ Behind(crawler.walk.cat, crawler.walk.page)'
    BY DEF ToOpen
  <2>2. crawler.walk.cat \in Categories /\ crawler.walk.page \in Nat
    BY <2>1, CrawlerTyped DEF BaseInv, WalkOK, WalkRecord, InWalk
  <2>3. crawler.walk.page > 1 /\ Behind(crawler.walk.cat, crawler.walk.page)
    BY <2>1 DEF WalkInv, ToOpen
  <2> QED
    BY <2>2, <2>3, BehindKept DEF Behind
<1>3. OnPage' => ((crawler'.walk.page = 1 /\ crawler'.walk.last = 1) \/ Covered') /\ Resumes'
  <2>1. OnPage' => OnPage
    BY DEF OnPage
  <2>2. \A t \in Threads : AtHand(t) => AtHand(t)'
    BY DEF AtHand, Polled
  <2> QED
    BY <2>1, <2>2, OnPageFrame
<1> QED
  BY <1>1, <1>2, <1>3 DEF WalkInv

\* A page is opened, and every thread on it is at hand.
LEMMA OpensStep ==
  ASSUME BaseInv, BaseInv', Shifts, HadGrows, CursorInv, NEW c \in Categories, Opens(c) \/ OpensBlank(c)
  PROVE  WalkInv'
<1>1. crawler \in CrawlerRecord /\ cursor \in [Categories -> [next : Nat, complete : BOOLEAN]]
  BY CrawlerTyped
<1>2. /\ UNCHANGED <<rank, home, stored, history>> /\ crawler.at = "crawl"
      /\ \A t \in Threads : Place(t)' = Place(t) /\ Had(t)' = Had(t)
  BY DEF Opens, OpensBlank, board, tables, Place, PageOf, Listed, Had
<1>3. crawler.read = NoRead
  BY <1>2 DEF BaseInv, ReadOK, InThread
<1>4. ASSUME NEW last, NEW left, FirstPage(c, last, left),
             last = 1 \/ \A t \in Threads : home[t] = c /\ Place(t) <= 1 => \E a \in left : a.thread = t
      PROVE  WalkInv'
  <2> DEFINE w == [cat |-> c, page |-> 1, last |-> last, left |-> left,
                   from |-> IF cursor[c].complete THEN 0 ELSE IF cursor[c].next < 2 THEN 2 ELSE cursor[c].next]
  <2>1. crawler'.at = "list" /\ crawler'.walk = w /\ crawler'.read = NoRead
    BY <1>1, <1>3, <1>4 DEF FirstPage, CrawlerRecord
  <2>2. /\ w.cat = c /\ w.page = 1 /\ w.last = last /\ w.left = left
        /\ w.from = 0 \/ w.from = 2 \/ (w.from = cursor[c].next /\ cursor[c].next > 1)
    BY <1>1
  <2> HIDE DEF w
  <2>3. PolledOK' /\ ToOpen'
    BY <2>1 DEF PolledOK, ToOpen, Polled, NoRead
  <2>4. last = 1 \/ Covered'
    BY <1>2, <1>4, <2>1, <2>2 DEF Covered, AtHand
  <2>5. Resumes'
    <3>1. Behind(c, cursor[c].next)
      BY DEF CursorInv
    <3> QED
      BY <1>2, <2>1, <2>2, <3>1 DEF Resumes, Behind
  <2> QED
    BY <2>1, <2>2, <2>3, <2>4, <2>5 DEF WalkInv
<1>5. CASE Opens(c)
  <2>1. ASSUME NEW t \in Threads, home[t] = c, Place(t) <= 1 PROVE \E a \in Linked(c, 1) : a.thread = t
    <3>1. Place(t) \in Nat /\ Place(t) > 0
      BY <2>1, PlaceTyped DEF BaseInv, PlacesOK
    <3>2. PageOf(c, t) = 1
      BY <2>1, <3>1 DEF Place
    <3>3. UrlKey(t) \in Linked(c, 1)
      BY <2>1, <3>2 DEF Linked, Listed
    <3> QED
      BY <3>3, KeysTyped
  <2> QED
    BY <1>4, <1>5, <2>1 DEF Opens
<1>6. CASE OpensBlank(c)
  BY <1>4, <1>6 DEF OpensBlank
<1> QED
  BY <1>5, <1>6

LEMMA TurnsStep ==
  ASSUME BaseInv, BaseInv', Shifts, HadGrows, WalkInv, Turns \/ TurnsBlank
  PROVE  WalkInv'
<1>1. crawler \in CrawlerRecord /\ crawler.walk \in WalkRecord /\ history \in HistoryRecord
  BY CrawlerTyped
<1>2. UNCHANGED <<rank, home, stored>> /\ crawler.at = "page" /\ \A t \in Threads : Place(t)' = Place(t)
  BY DEF Turns, TurnsBlank, board, tables, Place, PageOf, Listed
<1>3. /\ crawler.read = NoRead /\ crawler.walk.page > 1 /\ crawler.walk.page \in Nat
      /\ Behind(crawler.walk.cat, crawler.walk.page) /\ crawler.walk.cat \in Categories
  BY <1>1, <1>2 DEF BaseInv, ReadOK, WalkOK, InThread, InWalk, WalkInv, ToOpen, WalkRecord
<1>4. /\ crawler'.at = "list" /\ crawler'.read = NoRead
      /\ crawler'.walk.cat = crawler.walk.cat /\ crawler'.walk.page = crawler.walk.page
  <2>1. CASE Turns
    <3>1. PICK left : crawler' = [crawler EXCEPT !.at = "list", !.walk.left = left]
      BY <2>1 DEF Turns
    <3> QED
      BY <1>1, <1>3, <3>1 DEF CrawlerRecord, WalkRecord
  <2>2. CASE TurnsBlank
    BY <1>1, <1>3, <2>2 DEF TurnsBlank, CrawlerRecord
  <2> QED
    BY <2>1, <2>2
<1>5. ASSUME NEW t \in Threads, home[t] = crawler.walk.cat, Place(t) = crawler.walk.page
      PROVE  Had(t)' \/ AtHand(t)'
  <2>1. PageOf(crawler.walk.cat, t) = crawler.walk.page
    BY <1>5 DEF Place
  <2>2. CASE TurnsBlank
    <3>1. t \in history'.failed
      BY <1>1, <2>1, <2>2 DEF TurnsBlank, HistoryRecord
    <3> QED
      BY <3>1 DEF Had
  <2>3. CASE Turns
    <3>1. crawler'.walk.left = Linked(crawler.walk.cat, crawler.walk.page)
      BY <1>1, <2>3 DEF Turns, CrawlerRecord, WalkRecord
    <3>2. UrlKey(t) \in Linked(crawler.walk.cat, crawler.walk.page)
      BY <1>5, <2>1 DEF Linked, Listed
    <3> QED
      BY <3>1, <3>2, KeysTyped DEF AtHand
  <2> QED
    BY <2>2, <2>3
<1>6. Covered'
  <2> SUFFICES ASSUME NEW t \in Threads, home[t] = crawler.walk.cat, Place(t) <= crawler.walk.page
               PROVE  Had(t)' \/ AtHand(t)'
    BY <1>2, <1>4 DEF Covered
  <2>1. Place(t) \in Nat
    BY PlacesTyped
  <2>2. CASE Place(t) < crawler.walk.page
    BY <1>3, <2>2 DEF Behind, HadGrows
  <2>3. CASE Place(t) = crawler.walk.page
    BY <1>5, <2>3
  <2> QED
    BY <1>3, <2>1, <2>2, <2>3
<1>7. Resumes' /\ PolledOK' /\ ToOpen'
  BY <1>3, <1>4 DEF Resumes, PolledOK, ToOpen, Polled, NoRead
<1> QED
  BY <1>6, <1>7 DEF WalkInv

\* What is behind a page that is done.
LEMMA PageRead ==
  ASSUME BaseInv, WalkInv, PageDone, ~(crawler.walk.page = 1 /\ crawler.walk.last = 1)
  PROVE  \A t \in Threads : home[t] = crawler.walk.cat /\ Place(t) <= crawler.walk.page => Had(t)
<1>1. crawler.read = NoRead /\ crawler.walk.left = {} /\ crawler.at = "list"
  BY DEF PageDone, BaseInv, ReadOK, InThread
<1>2. \A t \in Threads : ~AtHand(t)
  BY <1>1 DEF AtHand, Polled, NoRead
<1> QED
  BY <1>1, <1>2 DEF WalkInv, OnPage, Covered

LEMMA TurnsToStep ==
  ASSUME BaseInv, BaseInv', HadGrows, PageDone, NEW page \in Nat, crawler' = TurnsTo(page),
         UNCHANGED <<rank, home>>,
         page # 0 /\ page <= crawler.walk.last => page > 1 /\ Behind(crawler.walk.cat, page)
  PROVE  WalkInv'
<1>1. crawler \in CrawlerRecord /\ crawler.walk \in WalkRecord
  BY CrawlerTyped
<1>2. crawler.read = NoRead
  BY DEF PageDone, BaseInv, ReadOK, InThread
<1>3. \A t \in Threads : Place(t)' = Place(t)
  BY DEF Place, PageOf, Listed
<1>4. CASE page # 0 /\ page <= crawler.walk.last
  <2> DEFINE w == [crawler.walk EXCEPT !.page = page]
  <2>1. crawler' = [crawler EXCEPT !.at = "page", !.walk = w]
    BY <1>1, <1>4 DEF TurnsTo, CrawlerRecord
  <2>2. w.page = page /\ w.cat = crawler.walk.cat
    BY <1>1 DEF WalkRecord
  <2> HIDE DEF w
  <2>3. crawler'.at = "page" /\ crawler'.walk = w /\ crawler'.read = NoRead
    BY <1>1, <1>2, <2>1 DEF CrawlerRecord
  <2>4. ToOpen'
    BY <1>3, <1>4, <2>2, <2>3 DEF ToOpen, Behind, HadGrows
  <2> QED
    BY <2>3, <2>4 DEF WalkInv, PolledOK, OnPage, Polled, NoRead
<1>5. CASE ~(page # 0 /\ page <= crawler.walk.last)
  <2>1. crawler'.at = "crawl" /\ crawler'.read = NoRead
    BY <1>1, <1>2, <1>5 DEF TurnsTo, CrawlerRecord
  <2> QED
    BY <2>1, OffPage DEF InWalk, NoRead
<1> QED
  BY <1>4, <1>5

LEMMA PageDoneStep ==
  ASSUME BaseInv, BaseInv', HadGrows, WalkInv, LeavesFirst \/ SavesCursor
  PROVE  WalkInv'
<1>1. crawler \in CrawlerRecord /\ crawler.walk \in WalkRecord
  BY CrawlerTyped
<1>2. PageDone /\ UNCHANGED <<rank, home>>
  BY DEF LeavesFirst, SavesCursor, board
<1>3. crawler.walk.page \in Nat /\ crawler.walk.from \in Nat /\ crawler.walk.last \in Nat
  BY <1>1 DEF WalkRecord
<1>4. \A t \in Threads : Place(t) \in Nat
  BY PlacesTyped
<1>5. CASE LeavesFirst
  <2>1. crawler' = TurnsTo(crawler.walk.from) /\ crawler.walk.page = 1 /\ Resumes
    BY <1>2, <1>5 DEF LeavesFirst, WalkInv, OnPage, PageDone
  <2>2. ASSUME crawler.walk.from # 0, crawler.walk.from <= crawler.walk.last
        PROVE  crawler.walk.from > 1 /\ Behind(crawler.walk.cat, crawler.walk.from)
    <3>1. crawler.walk.from > 1 /\ (crawler.walk.from = 2 \/ Behind(crawler.walk.cat, crawler.walk.from))
      BY <2>1, <2>2 DEF Resumes
    <3>2. crawler.walk.last # 1
      BY <1>3, <2>2, <3>1
    <3>3. \A t \in Threads : home[t] = crawler.walk.cat /\ Place(t) <= crawler.walk.page => Had(t)
      BY <1>2, <3>2, PageRead
    <3>4. Behind(crawler.walk.cat, 2)
      BY <1>4, <2>1, <3>3 DEF Behind
    <3> QED
      BY <3>1, <3>4
  <2> QED
    BY <1>2, <1>3, <2>1, <2>2, TurnsToStep
<1>6. CASE SavesCursor
  <2>1. crawler' = TurnsTo(crawler.walk.page + 1) /\ crawler.walk.page > 1
    BY <1>6 DEF SavesCursor
  <2>2. \A t \in Threads : home[t] = crawler.walk.cat /\ Place(t) <= crawler.walk.page => Had(t)
    BY <1>2, <1>3, <2>1, PageRead
  <2>3. Behind(crawler.walk.cat, crawler.walk.page + 1)
    BY <1>3, <1>4, <2>2 DEF Behind
  <2>4. crawler.walk.page + 1 \in Nat /\ crawler.walk.page + 1 > 1
    BY <1>3, <2>1
  <2> QED
    BY <1>2, <2>1, <2>3, <2>4, TurnsToStep
<1> QED
  BY <1>5, <1>6

\* The cursor is written only behind a page that was read.
LEMMA CursorStep ==
  ASSUME BaseInv, BaseInv', CursorInv, WalkInv, CrawlNext
  PROVE  CursorInv'
<1>1. Shifts /\ HadGrows
  BY HistoryGrows, KeptStep, HadStep, ShiftStep
<1>2. /\ cursor \in [Categories -> [next : Nat, complete : BOOLEAN]] /\ crawler.walk \in WalkRecord
      /\ history \in HistoryRecord
  BY CrawlerTyped
<1>3. \A t \in Threads : Place(t) \in Nat
  BY PlacesTyped
<1>4. ASSUME NEW next \in Nat, NEW complete \in BOOLEAN, UNCHANGED <<rank, home>>, crawler.at \in InWalk,
             cursor' = [cursor EXCEPT ![crawler.walk.cat] = [next |-> next, complete |-> complete]],
             \A t \in Threads : home[t] = crawler.walk.cat /\ (Place(t) < next \/ complete) => Had(t)'
      PROVE  CursorInv'
  <2>1. crawler.walk.cat \in Categories
    BY <1>4 DEF BaseInv, WalkOK
  <2>2. \A t \in Threads : Place(t)' = Place(t)
    BY <1>4 DEF Place, PageOf, Listed
  <2>3. ASSUME NEW c \in Categories
        PROVE  /\ \A t \in Threads : home[t] = c /\ Place(t) < cursor'[c].next => Had(t)'
               /\ cursor'[c].complete => \A t \in Threads : home[t] = c => Had(t)'
    <3>1. CASE c = crawler.walk.cat
      <4>1. cursor'[c].next = next /\ cursor'[c].complete = complete
        BY <1>2, <1>4, <3>1
      <4> QED
        BY <1>4, <3>1, <4>1
    <3>2. CASE c # crawler.walk.cat
      <4>1. cursor'[c] = cursor[c]
        BY <1>2, <1>4, <3>2
      <4> QED
        BY <1>1, <4>1 DEF CursorInv, Behind, HadGrows
    <3> QED
      BY <3>1, <3>2
  <2> QED
    BY <1>4, <2>2, <2>3 DEF CursorInv, Behind
<1>5. CASE TurnsNot
  <2>1. /\ crawler.at = "page" /\ UNCHANGED <<rank, home>> /\ crawler.walk.page \in Nat
        /\ cursor' = [cursor EXCEPT ![crawler.walk.cat] = [next |-> crawler.walk.page, complete |-> FALSE]]
    BY <1>2, <1>5 DEF TurnsNot, board, WalkRecord
  <2>2. \A t \in Threads : home[t] = crawler.walk.cat /\ Place(t) < crawler.walk.page => Had(t)'
    BY <1>1, <2>1 DEF WalkInv, ToOpen, Behind, HadGrows
  <2> QED
    BY <1>4, <2>1, <2>2 DEF InWalk
<1>6. CASE SavesCursor
  <2> DEFINE w == crawler.walk
             complete == w.page >= w.last
  <2>1. /\ PageDone /\ w.page > 1 /\ w.page \in Nat /\ w.last \in Nat /\ UNCHANGED <<rank, home>>
        /\ cursor' = [cursor EXCEPT ![w.cat] = [next |-> w.page + 1, complete |-> complete]]
        /\ history' = [history EXCEPT !.outgrown = @ \cup {t \in Threads : complete /\ PageOf(w.cat, t) > w.page}]
    BY <1>2, <1>6 DEF SavesCursor, board, WalkRecord
  <2>2. \A t \in Threads : home[t] = w.cat /\ Place(t) <= w.page => Had(t)'
    BY <1>1, <2>1, PageRead DEF HadGrows
  <2>3. ASSUME NEW t \in Threads, home[t] = w.cat, Place(t) > w.page, complete PROVE Had(t)'
    <3>1. PageOf(w.cat, t) > w.page
      BY <2>3 DEF Place
    <3>2. t \in history'.outgrown
      BY <1>2, <2>1, <2>3, <3>1 DEF HistoryRecord
    <3> QED
      BY <3>2 DEF Had
  <2>4. \A t \in Threads : home[t] = w.cat /\ (Place(t) < w.page + 1 \/ complete) => Had(t)'
    <3> SUFFICES ASSUME NEW t \in Threads, home[t] = w.cat, Place(t) < w.page + 1 \/ complete PROVE Had(t)'
      OBVIOUS
    <3>1. Place(t) <= w.page \/ Place(t) > w.page
      BY <1>3, <2>1
    <3>2. Place(t) < w.page + 1 => Place(t) <= w.page
      BY <1>3, <2>1
    <3> QED
      BY <2>2, <2>3, <3>1, <3>2
  <2>5. w.page + 1 \in Nat /\ complete \in BOOLEAN /\ crawler.at \in InWalk
    BY <2>1 DEF PageDone, InWalk
  <2> HIDE DEF complete
  <2> QED
    BY <1>4, <2>1, <2>4, <2>5
<1>7. CASE UNCHANGED cursor
  BY <1>1, <1>7, CursorFrame
<1>8. CASE Board \/ Operators
  BY <1>7, <1>8 DEF Board, NewPost, NewThread, Relocates, Operators, Monitors, Asks
<1>9. CASE Works
  <2>1. CASE Boots \/ TakesReplies \/ TakesBackfills \/ Sweeps \/ Rests \/ (\E c \in Categories : Opens(c))
             \/ EndsSweep \/ LeavesFirst \/ Turns
    BY <1>7, <2>1 DEF Boots, TakesReplies, TakesBackfills, Sweeps, Rests, Opens, EndsSweep, LeavesFirst, Turns
  <2>2. CASE (\E a \in crawler.walk.left : Polls(a)) \/ Links \/ Stores \/ Knows \/ PublishesPost \/ Overwrites
             \/ NextPage \/ ReadsAgain \/ ReplyCompletes \/ BackfillCompletes
    BY <1>7, <2>2 DEF Polls, Links, Stores, Knows, PublishesPost, Overwrites, NextPage, ReadsAgain, ReplyCompletes,
                      BackfillCompletes
  <2>3. CASE \E r \in Requests : NoForm(r) \/ Replies(r) \/ Deepens(r) \/ DeepensSlug(r)
    BY <1>7, <2>3 DEF NoForm, Replies, Taken, Deepens, DeepensSlug, Nothing
  <2> QED
    BY <1>6, <1>9, <2>1, <2>2, <2>3 DEF Works
<1>10. CASE Fails
  BY <1>5, <1>7, <1>10 DEF Fails, Leaves, Breaks, OpensBlank, PassesOver, SavesNothing, TurnsBlank, PollsNameless,
     PollsBlank, PollsNot, Skips, NextPageBlank, ReadsNoFurther, ReadsAgainNothing, Refused, RepliesUnheard,
     RepliesMisread, Taken, DeepensBlank, Nothing, DeepensNot
<1> QED
  BY <1>8, <1>9, <1>10 DEF CrawlNext

\* A thread of the page is polled.
LEMMA PollsStep ==
  ASSUME BaseInv, BaseInv', Shifts, HadGrows, WalkInv, KeyInv, NEW a \in crawler.walk.left,
         Polls(a) \/ PollsNameless(a) \/ PollsBlank(a) \/ PollsNot(a)
  PROVE  WalkInv'
<1>1. /\ crawler \in CrawlerRecord /\ crawler.walk \in WalkRecord /\ history \in HistoryRecord
      /\ a \in Keys /\ a.thread \in Threads /\ Normal(a).thread = a.thread
  BY CrawlerTyped, KeysTyped DEF WalkRecord, Keys
<1>2. Bound(a).thread = a.thread
  BY <1>1 DEF Bound, KeyInv
<1>3. crawler.at = "list" /\ crawler.read = NoRead /\ OnPage
  BY DEF Polls, PollsNameless, PollsBlank, PollsNot, Polling, BaseInv, ReadOK, InThread, OnPage
<1>4. ASSUME NEW where \in {"ingest", "close"}, NEW key, NEW last, Reads(where, a, key, last), key.thread = a.thread,
             where = "close" => Had(a.thread)'
      PROVE  WalkInv'
  <2> DEFINE w == [crawler.walk EXCEPT !.left = @ \ {a}]
             r == Reading("poll", key, 1, last, Nil)
  <2>1. crawler' = [crawler EXCEPT !.at = where, !.walk = w, !.read = r]
    BY <1>1, <1>4 DEF Reads, CrawlerRecord
  <2>2. /\ w.cat = crawler.walk.cat /\ w.page = crawler.walk.page /\ w.last = crawler.walk.last
        /\ w.from = crawler.walk.from /\ w.left = crawler.walk.left \ {a}
        /\ r.mode = "poll" /\ r.key = key /\ r.page = 1
    BY <1>1 DEF WalkRecord, Reading
  <2> HIDE DEF w, r
  <2>3. crawler'.at = where /\ crawler'.walk = w /\ crawler'.read = r
    BY <1>1, <2>1 DEF CrawlerRecord
  <2>4. \A t \in Threads : AtHand(t) => AtHand(t)'
    BY <1>3, <1>4, <2>2, <2>3 DEF AtHand, Polled, NoRead
  <2>5. PolledOK' /\ ToOpen'
    BY <1>4, <2>2, <2>3 DEF PolledOK, ToOpen, Polled
  <2>6. ((crawler'.walk.page = 1 /\ crawler'.walk.last = 1) \/ Covered') /\ Resumes'
    BY <1>3, <2>2, <2>3, <2>4, OnPageFrame
  <2> QED
    BY <2>5, <2>6 DEF WalkInv
<1>5. CASE Polls(a)
  BY <1>2, <1>4, <1>5 DEF Polls
<1>6. CASE PollsNameless(a)
  BY <1>1, <1>4, <1>6 DEF PollsNameless
<1>7. CASE PollsBlank(a)
  <2>1. Had(a.thread)'
    <3>1. a.thread \in history'.failed
      BY <1>1, <1>7 DEF PollsBlank, HistoryRecord
    <3> QED
      BY <3>1 DEF Had
  <2> QED
    BY <1>1, <1>4, <1>7, <2>1 DEF PollsBlank
<1>8. CASE PollsNot(a)
  <2> DEFINE w == [crawler.walk EXCEPT !.left = @ \ {a}]
  <2>1. crawler' = [crawler EXCEPT !.walk = w] /\ a.thread \in history'.failed
    BY <1>1, <1>8 DEF PollsNot, CrawlerRecord, HistoryRecord
  <2>2. /\ w.cat = crawler.walk.cat /\ w.page = crawler.walk.page /\ w.last = crawler.walk.last
        /\ w.from = crawler.walk.from /\ w.left = crawler.walk.left \ {a}
    BY <1>1 DEF WalkRecord
  <2> HIDE DEF w
  <2>3. crawler'.at = "list" /\ crawler'.walk = w /\ crawler'.read = NoRead
    BY <1>1, <1>3, <2>1 DEF CrawlerRecord
  <2>4. \A t \in Threads : AtHand(t) => AtHand(t)' \/ Had(t)'
    BY <1>3, <2>1, <2>2, <2>3 DEF AtHand, Polled, NoRead, Had
  <2>5. PolledOK' /\ ToOpen'
    BY <2>3 DEF PolledOK, ToOpen, Polled, NoRead
  <2>6. ((crawler'.walk.page = 1 /\ crawler'.walk.last = 1) \/ Covered') /\ Resumes'
    BY <1>3, <2>2, <2>3, <2>4, OnPageFrame
  <2> QED
    BY <2>5, <2>6 DEF WalkInv
<1> QED
  BY <1>5, <1>6, <1>7, <1>8

\* Its reading ends: it has been read, or there is the excuse.
LEMMA PolledStep ==
  ASSUME BaseInv, BaseInv', Shifts, HadGrows, WalkInv, Skips \/ Links
  PROVE  WalkInv'
<1>1. /\ crawler \in CrawlerRecord /\ history \in HistoryRecord
      /\ crawler' = [crawler EXCEPT !.at = "list", !.read = NoRead] /\ crawler.read.mode = "poll"
  BY CrawlerTyped DEF Skips, Links, NextThread
<1>2. crawler'.at = "list" /\ crawler'.walk = crawler.walk /\ crawler'.read = NoRead
  BY <1>1 DEF CrawlerRecord
<1>3. \A t \in Threads : Polled(t) => Had(t)'
  <2>1. CASE Skips
    <3>1. crawler.read.key.thread \in history'.failed
      BY <1>1, <2>1 DEF Skips, HistoryRecord
    <3> QED
      BY <3>1 DEF Polled, Had
  <2>2. CASE Links
    BY <2>2 DEF Links, WalkInv, PolledOK, HadGrows
  <2> QED
    BY <2>1, <2>2
<1>4. \A t \in Threads : AtHand(t) => AtHand(t)' \/ Had(t)'
  BY <1>2, <1>3 DEF AtHand
<1>5. PolledOK' /\ ToOpen'
  BY <1>2 DEF PolledOK, ToOpen, Polled, NoRead
<1>6. OnPage
  BY <1>1 DEF OnPage
<1>7. ((crawler'.walk.page = 1 /\ crawler'.walk.last = 1) \/ Covered') /\ Resumes'
  BY <1>2, <1>4, <1>6, OnPageFrame
<1> QED
  BY <1>5, <1>7 DEF WalkInv

\* It is read, page by page.
LEMMA ReadsStep ==
  ASSUME BaseInv, BaseInv', Shifts, HadGrows, WalkInv,
         Stores \/ Knows \/ PublishesPost \/ NextPage \/ NextPageBlank \/ ReadsNoFurther
  PROVE  WalkInv'
<1>1. crawler \in CrawlerRecord /\ crawler.read \in ReadRecord
  BY CrawlerTyped
<1>2. /\ crawler'.walk = crawler.walk /\ crawler'.read.mode = crawler.read.mode
      /\ crawler'.read.key = crawler.read.key /\ crawler'.at \notin InWalk
  <2>1. CASE Stores \/ Knows \/ PublishesPost \/ ReadsNoFurther
    BY <1>1, <2>1 DEF Stores, Knows, PublishesPost, ReadsNoFurther, AfterPage, CrawlerRecord, InWalk
  <2>2. CASE NextPage
    BY <1>1, <2>2 DEF NextPage, CrawlerRecord, ReadRecord, InWalk
  <2>3. CASE NextPageBlank
    BY <1>1, <2>3 DEF NextPageBlank, CrawlerRecord, ReadRecord, InWalk
  <2> QED
    BY <2>1, <2>2, <2>3
<1>3. CASE crawler.read.mode # "poll"
  BY <1>2, <1>3, OffPage
<1>4. CASE crawler.read.mode = "poll"
  <2>1. OnPage
    BY <1>4 DEF OnPage
  <2>2. ASSUME NEW t \in Threads, Polled(t) PROVE Had(t)'
    <3>1. CASE crawler.at = "ingest" => crawler.read.page > 1
      BY <2>2, <3>1 DEF WalkInv, PolledOK, HadGrows
    <3>2. CASE crawler.at = "ingest" /\ ~(crawler.read.page > 1)
      <4>1. crawler.read.page = 1
        BY <1>1, <3>2 DEF BaseInv, ReadOK, ReadRecord
      <4>2. Post \in stored'
        BY <3>2 DEF Stores, Knows, PublishesPost, NextPage, NextPageBlank, ReadsNoFurther, tables
      <4>3. Post.key.thread = t /\ Post.post = 1
        BY <2>2, <4>1 DEF Post, Evidence, Polled
      <4> QED
        BY <4>2, <4>3 DEF Had
    <3> QED
      BY <3>1, <3>2
  <2>3. \A t \in Threads : AtHand(t) => AtHand(t)'
    BY <1>2 DEF AtHand, Polled
  <2>4. PolledOK' /\ ToOpen'
    BY <1>2, <2>2 DEF PolledOK, ToOpen, Polled, InWalk
  <2>5. ((crawler'.walk.page = 1 /\ crawler'.walk.last = 1) \/ Covered') /\ Resumes'
    BY <1>2, <2>1, <2>3, OnPageFrame
  <2> QED
    BY <2>4, <2>5 DEF WalkInv
<1> QED
  BY <1>3, <1>4

LEMMA WalkStep ==
  ASSUME BaseInv, BaseInv', KeyInv, CursorInv, WalkInv, [CrawlNext]_crawlVars
  PROVE  CursorInv' /\ WalkInv'
<1>1. CASE UNCHANGED crawlVars
  <2>1. UNCHANGED <<rank, home, stored, history, crawler, cursor>>
    BY <1>1 DEF crawlVars, board, tables
  <2>2. Shifts /\ HadGrows
    BY <2>1, StillShift DEF HadGrows, Had
  <2> QED
    BY <2>1, <2>2, CursorFrame, WalkFrame
<1>2. CASE CrawlNext
  <2>1. Shifts /\ HadGrows
    BY <1>2, HistoryGrows, KeptStep, HadStep, ShiftStep
  <2>2. CASE Board \/ Operators
    <3>1. UNCHANGED crawler
      BY <2>2 DEF Board, NewPost, NewThread, Relocates, Operators, Monitors, Asks
    <3> QED
      BY <1>2, <2>1, <3>1, WalkFrame, CursorStep
  <2>3. CASE OffWalk
    BY <1>2, <2>3, OffWalkStep, CursorStep
  <2>4. CASE Works
    BY <1>2, <2>1, <2>3, <2>4, CursorStep, OpensStep, TurnsStep, PageDoneStep, PollsStep, PolledStep, ReadsStep
       DEF Works, OffWalk
  <2>5. CASE Fails
    BY <1>2, <2>1, <2>3, <2>5, CursorStep, OpensStep, TurnsStep, PollsStep, PolledStep, ReadsStep
       DEF Fails, OffWalk
  <2> QED
    BY <1>2, <2>2, <2>4, <2>5 DEF CrawlNext
<1> QED
  BY <1>1, <1>2

LEMMA WalkHolds == CrawlSpec => [](CursorInv /\ WalkInv)
<1>1. CrawlInit => CursorInv /\ WalkInv
  <2> SUFFICES ASSUME CrawlInit PROVE CursorInv /\ WalkInv
    OBVIOUS
  <2>1. PlacesOK
    BY BaseStarts, PlaceTyped DEF BaseInv
  <2>2. WalkInv
    BY DEF CrawlInit, WalkInv, PolledOK, ToOpen, OnPage, Polled, NotRunning, NoRead
  <2>3. CursorInv
    <3>1. \A c \in Categories : cursor[c].next = 1 /\ cursor[c].complete = FALSE
      BY DEF CrawlInit
    <3>2. \A c \in Categories, t \in Threads : home[t] = c => ~(Place(t) < 1)
      BY <2>1 DEF PlacesOK
    <3> QED
      BY <3>1, <3>2 DEF CursorInv, Behind
  <2> QED
    BY <2>2, <2>3
<1>2. BaseInv /\ BaseInv' /\ KeyInv /\ (CursorInv /\ WalkInv) /\ [CrawlNext]_crawlVars => (CursorInv /\ WalkInv)'
  BY WalkStep
<1> QED
  BY <1>1, <1>2, BaseHolds, KeyHolds, PTL DEF CrawlSpec

\* The cursor passes no thread that was not read, whatever dies in between
\* (_crawl_category).
THEOREM PassedIsStoredHolds == CrawlSpec => []PassedIsStored
<1>1. CursorInv => PassedIsStored
  <2> SUFFICES ASSUME CursorInv, NEW c \in Categories, NEW t \in Threads, PageOf(c, t) # 0,
                      cursor[c].complete \/ PageOf(c, t) < cursor[c].next
               PROVE  Had(t)
    BY DEF PassedIsStored, Had
  <2>1. home[t] = c /\ PageOf(c, t) = Place(t)
    BY DEF PageOf, Place
  <2> QED
    BY <2>1 DEF CursorInv, Behind
<1> QED
  BY <1>1, WalkHolds, PTL
=============================================================================
