---------------------------- MODULE IntakeProofs ----------------------------
(***************************************************************************)
(* Proofs about Intake, for any groups, messages, backfills, requests and  *)
(* failures.                                                               *)
(*                                                                         *)
(* Four invariants that do not need one another, each inductive together   *)
(* with the types: a config in hand is the row's unless another was        *)
(* written since it was read (ConfigInv); what is watched, read or stored  *)
(* was joined once (GateInv); what a backfill has passed is stored and     *)
(* published (ReplayInv); and a group that is watched without a            *)
(* membership, or not watched with one, is on its way or excused           *)
(* (MonitorInv).                                                           *)
(***************************************************************************)
EXTENDS Intake, TLAPS

-----------------------------------------------------------------------------
(* Steps, by what they leave alone. *)

ConfigStep ==
  \/ \E p \in Patches : WritesConfig(p) \/ \E asks \in {"config", "backfill", "both"} : ReadsConfig(p, asks)
  \/ Lists \/ SendsBackfill \/ Clears \/ DispatchStops

MessageStep ==
  \E m \in Messages : Confirms(m) \/ WatchesConfirmed(m) \/ Gates(m)
TaskStep ==
  \E t \in Tasks : FindsAuthor(t) \/ KeepsAuthor(t) \/ Stores(t) \/ Announces(t) \/ Collides(t) \/ IngestFails(t)

\* The config has its own writers.
LEMMA ConfigFrame == Next => ConfigStep \/ UNCHANGED settings
<1>1. Operator => ConfigStep \/ UNCHANGED settings
  BY DEF Operator, ConfigStep, AsksToJoin, Closes, Tells, Parks, LeaveStops
<1>2. Supervisor => ConfigStep \/ UNCHANGED settings
  BY DEF Supervisor, ConfigStep, SendsJoin
<1>3. Platform => UNCHANGED settings
  BY DEF Platform, Posts, LetsIn
<1>4. Boot => UNCHANGED settings
  BY DEF Boot, Spawns, Seeds, Subscribes, Registers, Dies, SeedsOne
<1>5. Command => UNCHANGED settings
  BY DEF Command, process, Takes, Joins, Records, Watches, JoinUnwatched, Departs, StaysIn, JoinRefused,
         StartsBackfill, Probes
<1>6. Message => UNCHANGED settings
  BY DEF Message, process, Confirms, WatchesConfirmed, Gates, FindsAuthor, KeepsAuthor, Stores, Announces,
         Collides, IngestFails
<1>7. Backfill => UNCHANGED settings
  BY DEF Backfill, EndsDialog, NextDialog, NextMessage
<1> QED
  BY <1>1, <1>2, <1>3, <1>4, <1>5, <1>6, <1>7 DEF Next

\* Messages are stored, published and read back by these.
LEMMA TasksFrame ==
  Next => \/ Posts \/ Dies \/ MessageStep \/ TaskStep \/ Backfill
          \/ \E b \in Backfills : StartsBackfill(b)
          \/ UNCHANGED <<posted, stored, announced, ingest, reader, replayed>>
<1> DEFINE Same == UNCHANGED <<posted, stored, announced, ingest, reader, replayed>>
<1>1. Operator => Same
  BY DEF Operator, platform, store, tasks, AsksToJoin, Closes, Tells, Parks, LeaveStops, WritesConfig,
         ReadsConfig
<1>2. Supervisor => Same
  BY DEF Supervisor, platform, store, tasks, SendsJoin, Lists, SendsBackfill, Clears, DispatchStops
<1>3. Platform => Posts \/ Same
  BY DEF Platform, store, tasks, LetsIn
<1>4. Boot => Dies \/ Same
  BY DEF Boot, platform, store, tasks, Spawns, Seeds, Subscribes, Registers, SeedsOne
<1>5. Command => (\E b \in Backfills : StartsBackfill(b)) \/ Same
  BY DEF Command, platform, store, tasks, Takes, Joins, Records, Watches, JoinUnwatched, Departs, StaysIn,
         JoinRefused, Probes
<1>6. Message => MessageStep \/ TaskStep
  BY DEF Message, MessageStep, TaskStep
<1> QED
  BY <1>1, <1>2, <1>3, <1>4, <1>5, <1>6 DEF Next

-----------------------------------------------------------------------------
(* Types. *)

LEMMA TypeStarts == Init => TypeOK
<1> SUFFICES ASSUME Init PROVE TypeOK
  OBVIOUS
<1>1. WorldType
  BY IntakeConstants DEF Init, WorldType
<1>2. ProcessType
  BY DEF Init, ProcessType, Down, NoCommand
<1>3. TasksType
  BY DEF Init, TasksType, NoTask, NoDialog, Tasks
<1>4. ConfigType
  BY DEF Init, ConfigType, Empty, PatchAt, NoDispatch, Owners, Configs
<1> QED
  BY <1>1, <1>2, <1>3, <1>4 DEF TypeOK

LEMMA ConfigTyped == TypeOK /\ Next => ConfigType'
<1> SUFFICES ASSUME TypeOK, Next PROVE ConfigType'
  OBVIOUS
<1>0. ConfigType /\ Empty \in Configs /\ NoDispatch \in [at : {"idle", "send", "clear"}, read : Configs, after : SUBSET Patches]
  BY DEF TypeOK, Empty, NoDispatch, Owners, Configs
<1>1. ASSUME NEW p \in Patches, WritesConfig(p) PROVE ConfigType'
  <2>1. patch[p].read \in Configs /\ PatchAt("done") \in [at : {"new", "read", "done"},
            asks : {"none", "config", "backfill", "both"}, read : Configs, after : SUBSET Patches]
    BY <1>0 DEF ConfigType, PatchAt
  <2>2. patch[p].read.user \in Owners /\ p \in Owners
    BY <2>1 DEF Configs, Owners
  <2>3. Patched(p) \in Configs
    BY <2>2 DEF Patched, Configs
  <2> QED
    BY <1>0, <1>1, <2>1, <2>2, <2>3 DEF WritesConfig, ConfigType
<1>2. ASSUME NEW p \in Patches, NEW asks \in {"config", "backfill", "both"}, ReadsConfig(p, asks)
      PROVE  ConfigType'
  BY <1>0, <1>2 DEF ReadsConfig, ConfigType, Written
<1>3. CASE Lists
  BY <1>0, <1>3 DEF Lists, ConfigType, Written
<1>4. CASE SendsBackfill
  BY <1>0, <1>4 DEF SendsBackfill, ConfigType
<1>5. CASE Clears
  <2>1. sup.read \in Configs
    BY <1>0 DEF ConfigType
  <2>2. Cleared \in Configs
    BY <2>1 DEF Cleared, Configs
  <2> QED
    BY <1>0, <1>5, <2>2 DEF Clears, ConfigType
<1>6. CASE DispatchStops
  BY <1>0, <1>6 DEF DispatchStops, ConfigType
<1>7. CASE UNCHANGED settings
  BY <1>0, <1>7 DEF settings, ConfigType, Configs, Owners
<1> QED
  BY <1>1, <1>2, <1>3, <1>4, <1>5, <1>6, <1>7, ConfigFrame DEF ConfigStep

\* A step may only let messages be written: what was typed still is.
LEMMA PostedGrows == TypeOK /\ Next => posted \in Nat /\ posted' \in Nat /\ posted <= posted'
<1> SUFFICES ASSUME TypeOK, Next PROVE posted \in Nat /\ posted' \in Nat /\ posted <= posted'
  OBVIOUS
<1>1. posted \in Nat
  BY IntakeConstants DEF TypeOK, WorldType
<1>2. CASE Posts
  BY <1>1, <1>2 DEF Posts
<1>3. CASE UNCHANGED posted
  BY <1>1, <1>3
<1>4. Posts \/ UNCHANGED posted
  <2>1. MessageStep \/ TaskStep => UNCHANGED posted
    BY DEF MessageStep, TaskStep, platform, Confirms, WatchesConfirmed, Gates, FindsAuthor, KeepsAuthor,
           Stores, Announces, Collides, IngestFails
  <2>2. Dies \/ Backfill \/ (\E b \in Backfills : StartsBackfill(b)) => UNCHANGED posted
    BY DEF platform, Dies, Backfill, EndsDialog, NextDialog, NextMessage, StartsBackfill
  <2> QED
    BY <2>1, <2>2, TasksFrame
<1> QED
  BY <1>2, <1>3, <1>4

\* The place a task is at, and how it gets there.
Task(n) == {NoTask} \cup [at : Places, msg : 1..n, fresh : BOOLEAN]
Dialog(n) == [left : SUBSET Groups, group : Groups \cup {None}, last : 0..n]

LEMMA TasksTyped == TypeOK /\ Next => TasksType'
<1> SUFFICES ASSUME TypeOK, Next PROVE TasksType'
  OBVIOUS
<1> DEFINE T == Task(posted')   D == Dialog(posted')
<1>1. posted \in Nat /\ posted' \in Nat /\ posted <= posted' /\ 1..posted \subseteq 1..posted' /\ 0..posted \subseteq 0..posted'
  BY PostedGrows
<1>2. ingest \in [Tasks -> T] /\ reader \in [Backfills -> D]
  <2>1. Task(posted) \subseteq T /\ Dialog(posted) \subseteq D
    BY <1>1 DEF Task, Dialog
  <2>2. ingest \in [Tasks -> Task(posted)] /\ reader \in [Backfills -> Dialog(posted)]
    BY DEF TypeOK, TasksType, Task, Dialog
  <2> QED
    BY <2>1, <2>2
<1>3. \A t \in Tasks : ingest[t] # NoTask =>
        ingest[t].msg \in 1..posted' /\ ingest[t].at \in Places /\ ingest[t].fresh \in BOOLEAN
  BY <1>2 DEF Task
<1>4. \A m \in Messages : ingest[m] # NoTask => ingest[m].msg = m
  BY DEF TypeOK, TasksType
<1>5. NoTask \in T /\ NoDialog \in D /\ NoTask.at = "none"
  BY <1>1 DEF Task, Dialog, NoTask, NoDialog
<1>6. SUFFICES /\ ingest' \in [Tasks -> T] /\ reader' \in [Backfills -> D]
               /\ \A m \in Messages : ingest'[m] # NoTask => ingest'[m].msg = m
  BY DEF TasksType, Task, Dialog
<1>7. ASSUME NEW t \in Tasks, NEW place \in Places, NEW fresh \in BOOLEAN,
             ingest[t] # NoTask, Goes(t, place, fresh)
      PROVE  /\ ingest' \in [Tasks -> T]
             /\ \A m \in Messages : ingest'[m] # NoTask => ingest'[m].msg = m
  <2> DEFINE r == [at |-> place, msg |-> ingest[t].msg, fresh |-> fresh]
  <2>1. r \in T /\ r.msg = ingest[t].msg
    BY <1>3, <1>7 DEF Task
  <2>2. ingest' = [ingest EXCEPT ![t] = r]
    BY <1>2, <1>7 DEF Goes
  <2> HIDE DEF T, r
  <2> QED
    BY <1>2, <1>4, <1>7, <2>1, <2>2 DEF Tasks
<1>8. ASSUME NEW t \in Tasks, NEW place \in Places, ingest[t] # NoTask, At(t, place)
      PROVE  /\ ingest' \in [Tasks -> T]
             /\ \A m \in Messages : ingest'[m] # NoTask => ingest'[m].msg = m
  BY <1>7, <1>8 DEF At
<1>9. ASSUME NEW t \in Tasks, Ends(t)
      PROVE  /\ ingest' \in [Tasks -> T]
             /\ \A m \in Messages : ingest'[m] # NoTask => ingest'[m].msg = m
  <2> HIDE DEF T
  <2> QED
    BY <1>2, <1>4, <1>5, <1>9 DEF Tasks, Ends
<1>10. ASSUME NEW t \in Tasks, Raises(t)
       PROVE  /\ ingest' \in [Tasks -> T] /\ reader' \in [Backfills -> D]
              /\ \A m \in Messages : ingest'[m] # NoTask => ingest'[m].msg = m
  <2>1. reader' \in [Backfills -> D]
    <3>1. CASE t \in Backfills
      <4>1. Over(t) \in D
        BY <1>1, <1>2, <3>1 DEF Dialog, Over
      <4> HIDE DEF D
      <4> QED
        BY <1>2, <1>10, <3>1, <4>1 DEF Raises
    <3>2. CASE t \notin Backfills
      BY <1>2, <1>10, <3>2 DEF Raises
    <3> QED
      BY <3>1, <3>2
  <2> QED
    BY <1>9, <1>10, <2>1 DEF Raises
<1>11. CASE Posts
  <2>1. posted + 1 \in Messages /\ posted + 1 \in 1..posted' /\ UNCHANGED reader
    BY <1>1, <1>11, IntakeConstants DEF Posts, Messages
  <2>2. CASE UNCHANGED ingest
    BY <1>2, <1>4, <2>1, <2>2
  <2>3. CASE ingest' = [ingest EXCEPT ![posted + 1] = [at |-> "gate", msg |-> posted + 1, fresh |-> FALSE]]
    <3>1. [at |-> "gate", msg |-> posted + 1, fresh |-> FALSE] \in T
      BY <2>1 DEF Task, Places
    <3> HIDE DEF T
    <3> QED
      BY <1>2, <1>4, <2>1, <2>3, <3>1 DEF Tasks
  <2> QED
    BY <1>11, <2>2, <2>3 DEF Posts
<1>12. CASE Dies
  <2> HIDE DEF T, D
  <2> QED
    BY <1>5, <1>12 DEF Dies, Tasks
<1>13. CASE MessageStep
  <2>1. ASSUME NEW m \in Messages, Confirms(m) \/ WatchesConfirmed(m) \/ Gates(m)
        PROVE  /\ m \in Tasks /\ ingest[m] # NoTask /\ UNCHANGED reader
               /\ At(m, "watch") \/ At(m, "find") \/ Ends(m)
    BY <1>5, <2>1 DEF Confirms, WatchesConfirmed, Gates, Tasks
  <2> QED
    BY <1>2, <1>8, <1>9, <1>13, <2>1 DEF MessageStep, Places
<1>14. CASE TaskStep
  <2>1. ASSUME NEW t \in Tasks, FindsAuthor(t) PROVE ingest' \in [Tasks -> T] /\ UNCHANGED reader
               /\ \A m \in Messages : ingest'[m] # NoTask => ingest'[m].msg = m
    BY <1>5, <1>7, <2>1 DEF FindsAuthor, Places
  <2>2. ASSUME NEW t \in Tasks, KeepsAuthor(t) PROVE ingest[t] # NoTask /\ At(t, "store") /\ UNCHANGED reader
    BY <1>5, <2>2 DEF KeepsAuthor
  <2>3. ASSUME NEW t \in Tasks, Stores(t) PROVE ingest[t] # NoTask /\ At(t, "announce") /\ UNCHANGED reader
    BY <1>5, <2>3 DEF Stores
  <2>4. ASSUME NEW t \in Tasks, Announces(t) PROVE Ends(t) /\ UNCHANGED reader
    BY <2>4 DEF Announces
  <2>5. ASSUME NEW t \in Tasks, Collides(t) \/ IngestFails(t) PROVE Raises(t)
    BY <2>5 DEF Collides, IngestFails
  <2> QED
    BY <1>2, <1>8, <1>9, <1>10, <1>14, <2>1, <2>2, <2>3, <2>4, <2>5 DEF TaskStep, Places
<1>15. CASE Backfill
  <2>1. ASSUME NEW b \in Backfills, EndsDialog(b) PROVE reader' \in [Backfills -> D] /\ UNCHANGED ingest
    <3>1. Over(b) \in D
      BY <1>1, <1>2, <2>1 DEF Dialog, Over
    <3> HIDE DEF D
    <3> QED
      BY <1>2, <2>1, <3>1 DEF EndsDialog
  <2>2. ASSUME NEW b \in Backfills, NEW g \in Groups, NextDialog(b, g)
        PROVE  reader' \in [Backfills -> D] /\ UNCHANGED ingest
    <3> DEFINE r == [left |-> reader[b].left \ {g}, last |-> 0, group |-> IF g \in proc.monitor THEN g ELSE None]
    <3>1. r \in D
      BY <1>1, <1>2, <2>2 DEF Dialog
    <3>2. reader' = [reader EXCEPT ![b] = r]
      BY <1>2, <2>2 DEF NextDialog
    <3> HIDE DEF D, r
    <3> QED
      BY <1>2, <2>2, <3>1, <3>2 DEF NextDialog
  <2>3. ASSUME NEW b \in Backfills, NEW m \in Messages, NextMessage(b, m)
        PROVE  /\ ingest' \in [Tasks -> T] /\ reader' \in [Backfills -> D]
               /\ \A n \in Messages : ingest'[n] # NoTask => ingest'[n].msg = n
    <3>1. m \in 1..posted' /\ m \in 0..posted'
      BY <1>1, <2>3 DEF NextMessage, Ahead
    <3>2. /\ [reader[b] EXCEPT !.last = m] \in D
          /\ [at |-> "find", msg |-> m, fresh |-> FALSE] \in T
      BY <1>1, <1>2, <2>3, <3>1 DEF Dialog, Task, Places
    <3>3. b \in Tasks /\ b \notin Messages
      BY IntakeConstants DEF Tasks
    <3> HIDE DEF D, T
    <3> QED
      BY <1>2, <1>4, <2>3, <3>2, <3>3 DEF NextMessage, Tasks
  <2> QED
    BY <1>2, <1>4, <1>15, <2>1, <2>2, <2>3 DEF Backfill
<1>16. ASSUME NEW b \in Backfills, StartsBackfill(b) PROVE reader' \in [Backfills -> D] /\ UNCHANGED ingest
  <2>1. [reader[b] EXCEPT !.left = account] \in D
    BY <1>2 DEF Dialog, TypeOK, WorldType
  <2> HIDE DEF D
  <2> QED
    BY <1>2, <1>16, <2>1 DEF StartsBackfill
<1>17. CASE UNCHANGED <<posted, stored, announced, ingest, reader, replayed>>
  BY <1>2, <1>4, <1>17
<1> QED
  BY <1>2, <1>4, <1>11, <1>12, <1>13, <1>14, <1>15, <1>16, <1>17, TasksFrame

\* The tables that operators and collectors share.
RowsType ==
  /\ account \subseteq Groups
  /\ candidate \in [Groups -> {"idle", "joining", "requested", "joined"}]
  /\ membership \in [Groups -> {"none", "open", "closed"}] /\ byLink \subseteq Groups
  /\ leaving \in [Groups -> {"no", "closed", "told"}]
  /\ authors \subseteq Authors /\ astray \subseteq Groups

LEMMA OpensTyped ==
  ASSUME RowsType, NEW g \in Groups, NEW link, OpensMembership(g, link)
  PROVE  /\ candidate' \in [Groups -> {"idle", "joining", "requested", "joined"}]
         /\ membership' \in [Groups -> {"none", "open", "closed"}] /\ byLink' \subseteq Groups
BY DEF RowsType, OpensMembership

LEMMA RowsTyped == TypeOK /\ Next => RowsType'
<1> SUFFICES ASSUME TypeOK, Next PROVE RowsType'
  OBVIOUS
<1>1. RowsType
  BY DEF TypeOK, WorldType, RowsType
<1>2. \A t \in Tasks : ingest[t].at # "none" => AuthorOf[ingest[t].msg] \in Authors
                                            /\ GroupOf[ingest[t].msg] \in Groups
  <2>1. posted \in 0..Count
    BY DEF TypeOK, WorldType
  <2>2. 1..posted \subseteq Messages
    BY <2>1, IntakeConstants DEF Messages
  <2>3. \A t \in Tasks : ingest[t].at # "none" => ingest[t].msg \in Messages
    BY <2>2 DEF TypeOK, TasksType, NoTask
  <2> QED
    BY <2>3, IntakeConstants DEF Authors
<1>3. /\ command.kind \in {"join", "leave"} => command.group \in Groups
      /\ command.at \in {"record", "watch"} => command.group \in Groups
  BY DEF TypeOK, ProcessType, Commands, BackfillCommand, NoCommand
<1>4. CASE UNCHANGED <<account, rows, leaving, authors, astray>>
  BY <1>1, <1>4 DEF RowsType, rows
<1>5. ASSUME NEW g \in Groups, AsksToJoin(g) PROVE RowsType'
  BY <1>1, <1>5 DEF RowsType, AsksToJoin, platform, store
<1>6. ASSUME NEW g \in Groups, Closes(g) PROVE RowsType'
  BY <1>1, <1>6 DEF RowsType, Closes, platform, store
<1>7. ASSUME NEW g \in Groups, Tells(g) PROVE RowsType'
  BY <1>1, <1>7 DEF RowsType, Tells, platform, rows, store
<1>8. ASSUME NEW g \in Groups, Parks(g) PROVE RowsType'
  BY <1>1, <1>8 DEF RowsType, Parks, platform, store
<1>9. ASSUME NEW g \in Groups, LeaveStops(g) PROVE RowsType'
  BY <1>1, <1>9 DEF RowsType, LeaveStops, platform, rows, store
<1>10. Supervisor \/ ConfigStep => UNCHANGED <<account, rows, leaving, authors, astray>>
  BY DEF Supervisor, ConfigStep, SendsJoin, Lists, SendsBackfill, Clears, DispatchStops, WritesConfig, ReadsConfig,
     platform, rows, store
<1>11. CASE Platform
  BY <1>1, <1>11 DEF RowsType, Platform, Posts, LetsIn, rows, store
<1>12. Spawns \/ Subscribes \/ Registers \/ Dies \/ Backfill => UNCHANGED <<account, rows, leaving, authors, astray>>
  BY DEF Spawns, Subscribes, Registers, Dies, Backfill, EndsDialog, NextDialog, NextMessage, platform, store
<1>13. CASE Seeds
  BY <1>1, <1>13 DEF RowsType, Seeds, platform, rows, store
<1>14. ASSUME NEW g \in Groups, SeedsOne(g) PROVE RowsType'
  BY <1>1, <1>14 DEF RowsType, SeedsOne, platform, rows, store
<1>15. Takes \/ Watches \/ (\E b \in Backfills : StartsBackfill(b)) => UNCHANGED <<account, rows, leaving, authors, astray>>
  BY DEF Takes, Watches, StartsBackfill, platform, store
<1>16. CASE Joins
  BY <1>1, <1>3, <1>16 DEF RowsType, Joins, rows, store
<1>17. ASSUME NEW o \in {"requested", "idle"}, JoinRefused(o) PROVE RowsType'
  BY <1>1, <1>3, <1>17 DEF RowsType, JoinRefused, platform, store
<1>18. CASE Records
  <2>1. UNCHANGED <<account, leaving, authors, astray>> /\ command.group \in Groups
    BY <1>3, <1>18 DEF Records, platform, store
  <2>2. CASE candidate[command.group] = "joining"
    BY <1>1, <1>18, <2>1, <2>2, OpensTyped DEF Records, RowsType
  <2>3. CASE candidate[command.group] # "joining"
    BY <1>4, <1>18, <2>1, <2>3 DEF Records
  <2> QED
    BY <2>2, <2>3
<1>19. CASE JoinUnwatched \/ StaysIn
  BY <1>1, <1>3, <1>19 DEF RowsType, JoinUnwatched, StaysIn, platform, rows, store
<1>20. CASE Departs
  BY <1>1, <1>3, <1>20 DEF RowsType, Departs, rows, store
<1>21. ASSUME NEW g \in Groups, Probes(g) PROVE RowsType'
  BY <1>1, <1>21, OpensTyped DEF RowsType, Probes, platform, store
<1>22. ASSUME NEW m \in Messages, Confirms(m) PROVE RowsType'
  BY <1>1, <1>22, OpensTyped, IntakeConstants DEF RowsType, Confirms, platform, store
<1>23. ASSUME NEW m \in Messages, WatchesConfirmed(m) PROVE RowsType'
  BY <1>1, <1>23, IntakeConstants DEF RowsType, WatchesConfirmed, platform, rows, store
<1>24. ASSUME NEW t \in Tasks, IngestFails(t) PROVE RowsType'
  BY <1>1, <1>2, <1>24 DEF RowsType, IngestFails, platform, rows, store
<1>25. ASSUME NEW t \in Tasks, KeepsAuthor(t) PROVE RowsType'
  BY <1>1, <1>2, <1>25 DEF RowsType, KeepsAuthor, platform, rows
<1>26. ASSUME NEW t \in Tasks, FindsAuthor(t) \/ Stores(t) \/ Announces(t) \/ Collides(t)
       PROVE  UNCHANGED <<account, rows, leaving, authors, astray>>
  BY <1>26 DEF FindsAuthor, Stores, Announces, Collides, platform, store
<1>27. ASSUME NEW m \in Messages, Gates(m) PROVE UNCHANGED <<account, rows, leaving, authors, astray>>
  BY <1>27 DEF Gates, platform, store
<1>28. CASE Operator
  BY <1>4, <1>5, <1>6, <1>7, <1>8, <1>9, <1>10, <1>28 DEF Operator, ConfigStep
<1>29. CASE Boot
  BY <1>4, <1>12, <1>13, <1>14, <1>29 DEF Boot
<1>30. CASE Command
  BY <1>4, <1>15, <1>16, <1>17, <1>18, <1>19, <1>20, <1>21, <1>30 DEF Command
<1>31. CASE Message
  BY <1>4, <1>22, <1>23, <1>24, <1>25, <1>26, <1>27, <1>31 DEF Message
<1> QED
  BY <1>4, <1>10, <1>11, <1>12, <1>28, <1>29, <1>30, <1>31 DEF Next

LEMMA WorldTyped == TypeOK /\ Next => WorldType'
<1> SUFFICES ASSUME TypeOK, Next PROVE WorldType'
  OBVIOUS
<1>1. /\ posted \in Nat /\ posted' \in Nat /\ posted <= posted'
      /\ 1..posted \subseteq 1..posted' /\ WorldType
  BY PostedGrows DEF TypeOK
<1>2. count' \in [joins : 0..MaxEvents, faults : 0..MaxEvents]
  <2>1. count \in [joins : 0..MaxEvents, faults : 0..MaxEvents]
    BY <1>1 DEF WorldType
  <2>2. ASSUME Fault PROVE count' \in [joins : 0..MaxEvents, faults : 0..MaxEvents]
    BY <2>1, <2>2, IntakeConstants DEF Fault, More
  <2>3. ASSUME NEW g \in Groups, AsksToJoin(g) PROVE count' \in [joins : 0..MaxEvents, faults : 0..MaxEvents]
    BY <2>1, <2>3, IntakeConstants DEF AsksToJoin, More
  <2>4. Fault \/ UNCHANGED count \/ \E g \in Groups : AsksToJoin(g)
    <3>1. Operator => Fault \/ UNCHANGED count \/ \E g \in Groups : AsksToJoin(g)
      BY DEF Operator, Closes, Tells, Parks, LeaveStops, WritesConfig, ReadsConfig
    <3>2. Supervisor => Fault \/ UNCHANGED count
      BY DEF Supervisor, SendsJoin, Lists, SendsBackfill, Clears, DispatchStops
    <3>3. Platform \/ Boot => Fault \/ UNCHANGED count
      BY DEF Platform, Posts, LetsIn, Boot, Spawns, Seeds, Subscribes, Registers, Dies, SeedsOne
    <3>4. Command => Fault \/ UNCHANGED count
      BY DEF Command, Takes, Joins, Records, Watches, JoinUnwatched, Departs, StaysIn, JoinRefused,
             StartsBackfill, Probes
    <3>5. Message \/ Backfill => Fault \/ UNCHANGED count
      BY DEF Message, Confirms, WatchesConfirmed, Gates, FindsAuthor, KeepsAuthor, Stores, Announces,
             Collides, IngestFails, Backfill, EndsDialog, NextDialog, NextMessage
    <3> QED
      BY <3>1, <3>2, <3>3, <3>4, <3>5 DEF Next
  <2> QED
    BY <2>1, <2>2, <2>3, <2>4
<1>3. stored' \subseteq 1..posted' /\ announced' \subseteq OwnWords /\ replayed' \subseteq 1..posted'
      /\ posted' \in 0..Count
  <2>1. ASSUME NEW t \in Tasks, Stores(t) PROVE ingest[t].msg \in 1..posted
    BY <2>1 DEF Stores, TypeOK, TasksType, NoTask
  <2>2. CASE TaskStep
    BY <1>1, <2>1, <2>2 DEF TaskStep, FindsAuthor, KeepsAuthor, Stores, Announces, Collides, IngestFails,
       platform, store, WorldType
  <2>3. CASE MessageStep
    BY <1>1, <2>3 DEF MessageStep, Confirms, WatchesConfirmed, Gates, platform, store, WorldType
  <2>4. CASE Posts
    <3>1. posted + 1 <= Count /\ UNCHANGED <<stored, announced, replayed>> /\ posted' = posted + 1
      BY <1>1, <2>4, IntakeConstants DEF Posts, store, WorldType
    <3> QED
      BY <1>1, <3>1, IntakeConstants DEF WorldType
  <2>5. CASE Dies \/ \E b \in Backfills : StartsBackfill(b)
    BY <1>1, <2>5 DEF Dies, StartsBackfill, platform, store, WorldType
  <2>6. CASE Backfill
    BY <1>1, <2>6 DEF Backfill, EndsDialog, NextDialog, NextMessage, platform, store, WorldType
  <2>7. CASE UNCHANGED <<posted, stored, announced, ingest, reader, replayed>>
    BY <1>1, <2>7 DEF WorldType
  <2> QED
    BY <2>2, <2>3, <2>4, <2>5, <2>6, <2>7, TasksFrame
<1>4. RowsType'
  BY RowsTyped
<1> QED
  BY <1>2, <1>3, <1>4 DEF WorldType, RowsType

\* A publish puts a command in the subscription, or nothing.
LEMMA PublishTyped ==
  ASSUME queue \in Seq(Commands), NEW c \in Commands, Publish(c)
  PROVE  queue' \in Seq(Commands)
BY DEF Publish

LEMMA ProcessTyped == TypeOK /\ Next => ProcessType'
<1> SUFFICES ASSUME TypeOK, Next PROVE ProcessType'
  OBVIOUS
<1>1. ProcessType
  BY DEF TypeOK
<1>2. \A g \in Groups : JoinCommand(g) \in Commands /\ LeaveCommand(g) \in Commands
  BY DEF JoinCommand, LeaveCommand, Commands
<1>3. BackfillCommand \in Commands
  BY DEF Commands
<1>4. CASE Operator
  BY <1>1, <1>2, <1>4, PublishTyped
  DEF Operator, AsksToJoin, Closes, Tells, Parks, LeaveStops, WritesConfig, ReadsConfig, ProcessType, process
<1>5. CASE Supervisor
  BY <1>1, <1>2, <1>3, <1>5, PublishTyped
  DEF Supervisor, SendsJoin, Lists, SendsBackfill, Clears, DispatchStops, ProcessType, process
<1>6. CASE Platform
  BY <1>1, <1>6 DEF Platform, Posts, LetsIn, ProcessType, process
<1>7. CASE Boot
  <2>1. Down \in [at : {"down", "boot", "seed", "subscribed", "ready"}, todo : SUBSET Groups, monitor : SUBSET Groups]
    BY DEF Down
  <2> QED
    <3>1. ASSUME Spawns \/ Seeds \/ Subscribes \/ Registers PROVE ProcessType'
      BY <1>1, <3>1 DEF Spawns, Seeds, Subscribes, Registers, ProcessType, Commands, NoCommand, BackfillCommand
    <3>2. ASSUME Dies PROVE ProcessType'
      <4>1. <<>> \in Seq(Commands)
        OBVIOUS
      <4> QED
        BY <2>1, <3>2, <4>1 DEF Dies, ProcessType
    <3>3. ASSUME NEW g \in Groups, SeedsOne(g) PROVE ProcessType'
      <4> DEFINE P == [at : {"down", "boot", "seed", "subscribed", "ready"}, todo : SUBSET Groups, monitor : SUBSET Groups]
      <4>1. proc \in P /\ UNCHANGED <<queue, command>>
        BY <1>1, <3>3 DEF ProcessType, SeedsOne
      <4>2. [proc EXCEPT !.todo = @ \ {g}] \in P
        BY <4>1
      <4>3. [at |-> "seed", todo |-> proc.todo \ {g}, monitor |-> proc.monitor \cup {g}] \in P
        BY <4>1
      <4>4. proc' \in P
        BY <3>3, <4>2, <4>3 DEF SeedsOne
      <4> QED
        BY <1>1, <4>1, <4>4 DEF ProcessType
    <3> QED
      BY <1>7, <3>1, <3>2, <3>3 DEF Boot
<1>8. CASE Command
  <2>1. /\ command.kind \in {"join", "leave"} => command.group \in Groups
        /\ command.at \in {"record", "watch"} => command.group \in Groups
        /\ command.at = "record" => command.kind = "join"
    BY <1>1 DEF ProcessType, Commands, BackfillCommand, NoCommand
  <2>2. ASSUME Takes PROVE ProcessType'
    <3>1. queue \in Seq(Commands) /\ queue # <<>>
      BY <1>1, <2>2 DEF Takes, ProcessType
    <3>2. Head(queue) \in Commands /\ Tail(queue) \in Seq(Commands)
      BY <3>1
    <3> QED
      BY <1>1, <2>2, <3>2 DEF Takes, ProcessType
  <2>3. ASSUME command.kind = "join" /\ command.at \in {"run", "record"}, NEW place \in {"record", "watch"}
        PROVE  [command EXCEPT !.at = place] \in [kind : {"join"}, group : Groups, at : {"record", "watch"}]
    BY <1>1, <2>1, <2>3 DEF ProcessType, Commands, BackfillCommand, NoCommand
  <2>4. ASSUME Joins \/ Records \/ \E o \in {"requested", "idle"} : JoinRefused(o) PROVE ProcessType'
    BY <1>1, <2>1, <2>3, <2>4 DEF Joins, Records, JoinRefused, ProcessType
  <2>5. ASSUME Watches \/ JoinUnwatched \/ Departs \/ StaysIn PROVE ProcessType'
    BY <1>1, <2>1, <2>5 DEF Watches, Watch, JoinUnwatched, Departs, Departed, StaysIn, ProcessType
  <2>6. ASSUME (\E b \in Backfills : StartsBackfill(b)) \/ (\E g \in Groups : Probes(g)) PROVE ProcessType'
    BY <1>1, <2>6 DEF StartsBackfill, Probes, ProcessType, process
  <2> QED
    BY <1>8, <2>2, <2>4, <2>5, <2>6 DEF Command
<1>9. CASE Message
  <2>1. \A m \in Messages : GroupOf[m] \in Groups
    BY IntakeConstants
  <2> QED
    <3>1. ASSUME NEW m \in Messages, WatchesConfirmed(m) PROVE ProcessType'
      BY <1>1, <2>1, <3>1 DEF WatchesConfirmed, Watch, ProcessType
    <3>2. ASSUME UNCHANGED process PROVE ProcessType'
      BY <1>1, <3>2 DEF process, ProcessType
    <3>3. \A m \in Messages : Confirms(m) \/ Gates(m) => UNCHANGED process
      BY DEF Confirms, Gates
    <3>4. TaskStep => UNCHANGED process
      BY DEF TaskStep, FindsAuthor, KeepsAuthor, Stores, Announces, Collides, IngestFails
    <3> QED
      BY <1>9, <3>1, <3>2, <3>3, <3>4 DEF Message, TaskStep
<1>10. CASE Backfill
  BY <1>1, <1>10 DEF Backfill, EndsDialog, NextDialog, NextMessage, ProcessType, process
<1> QED
  BY <1>4, <1>5, <1>6, <1>7, <1>8, <1>9, <1>10 DEF Next

LEMMA TypeStays == TypeOK /\ [Next]_vars => TypeOK'
<1>1. TypeOK /\ Next => TypeOK'
  BY WorldTyped, ProcessTyped, TasksTyped, ConfigTyped DEF TypeOK
<1>2. TypeOK /\ UNCHANGED vars => TypeOK'
  <2> SUFFICES ASSUME TypeOK, UNCHANGED vars PROVE TypeOK'
    OBVIOUS
  <2>1. UNCHANGED <<posted, account, candidate, membership, byLink, leaving, authors, stored, announced, astray,
                    replayed, count>>
    BY DEF vars, platform, rows, store, tasks
  <2>2. UNCHANGED <<proc, queue, command, ingest, reader, settings>>
    BY DEF vars, process, tasks
  <2> QED
    BY <2>1, <2>2 DEF TypeOK, WorldType, ProcessType, TasksType, ConfigType, settings
<1> QED
  BY <1>1, <1>2

\* Whatever joins, messages, backfills and crashes do, every variable has its type.
THEOREM IntakeTypeCorrect == Spec => []TypeOK
BY TypeStarts, TypeStays, PTL DEF Spec

-----------------------------------------------------------------------------
(* The config of the row.  A reader remembers which PATCHes had been       *)
(* written; as long as those are all there are, what it read is the row's. *)

ReadersBehind ==
  /\ \A p \in Patches : patch[p].at = "read" => patch[p].after \subseteq Written
  /\ sup.at # "idle" => sup.after \subseteq Written

ReadersFresh ==
  /\ \A p \in Patches : patch[p].at = "read" /\ patch[p].asks = "backfill" /\ patch[p].after = Written
                        => patch[p].read.user = config.user
  /\ sup.at # "idle" /\ sup.after = Written => sup.read.user = config.user
  /\ sup.at = "clear" /\ sup.after = Written => promised.backfill # "owed"

ConfigInv == ReadersBehind /\ (torn \/ (ConfigKept /\ ReadersFresh))

LEMMA ConfigInvStays == TypeOK /\ ConfigInv /\ [Next]_vars => ConfigInv'
<1> SUFFICES ASSUME TypeOK, ConfigInv, [Next]_vars PROVE ConfigInv'
  OBVIOUS
<1>1. /\ patch \in [Patches -> [at : {"new", "read", "done"}, asks : {"none", "config", "backfill", "both"},
                              read : Configs, after : SUBSET Patches]]
      /\ config \in Configs /\ torn \in BOOLEAN
      /\ sup \in [at : {"idle", "send", "clear"}, read : Configs, after : SUBSET Patches]
      /\ promised \in [user : Owners, backfill : {"no", "owed", "lost"}]
  BY DEF TypeOK, ConfigType
<1>2. ASSUME NEW p \in Patches, WritesConfig(p) PROVE ConfigInv'
  <2>1. Written' = Written \cup {p} /\ p \notin Written
    BY <1>1, <1>2 DEF WritesConfig, Written, PatchAt
  <2>2. \A q \in Patches : patch'[q].at = "read" => q # p /\ patch'[q] = patch[q]
    BY <1>1, <1>2 DEF WritesConfig, PatchAt
  <2>3. ReadersBehind'
    BY <1>2, <2>1, <2>2 DEF ConfigInv, ReadersBehind, WritesConfig
  <2>4. ReadersFresh'
    BY <1>2, <2>1, <2>2 DEF ConfigInv, ReadersBehind, ReadersFresh, WritesConfig
  <2>5. torn' \/ ConfigKept'
    BY <1>1, <1>2 DEF ConfigInv, ConfigKept, ReadersFresh, WritesConfig, Patched
  <2> QED
    BY <2>3, <2>4, <2>5 DEF ConfigInv
<1>3. ASSUME NEW p \in Patches, NEW asks \in {"config", "backfill", "both"}, ReadsConfig(p, asks)
      PROVE  ConfigInv'
  <2>1. Written' = Written /\ UNCHANGED <<config, sup, promised, torn>>
    BY <1>1, <1>3 DEF ReadsConfig, Written
  <2>2. \A q \in Patches : q # p => patch'[q] = patch[q]
    BY <1>1, <1>3 DEF ReadsConfig
  <2>3. patch'[p].after = Written /\ patch'[p].read = config
    BY <1>1, <1>3 DEF ReadsConfig
  <2> QED
    BY <2>1, <2>2, <2>3 DEF ConfigInv, ReadersBehind, ReadersFresh, ConfigKept
<1>4. CASE Lists
  BY <1>1, <1>4 DEF Lists, Written, ConfigInv, ReadersBehind, ReadersFresh, ConfigKept
<1>5. CASE SendsBackfill
  BY <1>1, <1>5 DEF SendsBackfill, Written, ConfigInv, ReadersBehind, ReadersFresh, ConfigKept
<1>6. CASE Clears
  <2>1. /\ UNCHANGED <<patch, promised>> /\ sup'.at = "idle" /\ Written' = Written
        /\ torn' = (torn \/ sup.after # Written) /\ config' = Cleared
    BY <1>6 DEF Clears, NoDispatch, Written
  <2>2. ~torn' => config'.user = config.user /\ promised.backfill # "owed"
    <3>1. Cleared.user = sup.read.user
      BY <1>1 DEF Cleared, Configs
    <3> QED
      BY <1>1, <1>6, <2>1, <3>1 DEF Clears, ConfigInv, ReadersFresh
  <2> QED
    BY <1>1, <2>1, <2>2 DEF ConfigInv, ReadersBehind, ReadersFresh, ConfigKept
<1>7. CASE DispatchStops
  BY <1>1, <1>7 DEF DispatchStops, NoDispatch, Written, ConfigInv, ReadersBehind, ReadersFresh, ConfigKept
<1>8. CASE UNCHANGED settings
  BY <1>8 DEF settings, Written, ConfigInv, ReadersBehind, ReadersFresh, ConfigKept
<1> QED
  BY <1>2, <1>3, <1>4, <1>5, <1>6, <1>7, <1>8, ConfigFrame DEF ConfigStep, vars

\* Unless a config was written back that was read before a PATCH, dispatch_backfills
\* and the PATCHes leave the operator's config and the backfill that is owed alone.
THEOREM ConfigKeptHolds == Spec => []ConfigKept
<1>1. Init => ConfigInv
  BY DEF Init, Empty, PatchAt, NoDispatch, ConfigInv, ReadersBehind, ReadersFresh, ConfigKept
<1>2. ConfigInv => ConfigKept
  BY DEF ConfigInv, ConfigKept
<1> QED
  BY <1>1, <1>2, TypeStarts, TypeStays, ConfigInvStays, PTL DEF Spec

-----------------------------------------------------------------------------
(* The gate.  A membership is never forgotten, so it is enough that no     *)
(* group gets ahead of its own: not to the monitor set, nor to a backfill, *)
(* nor a message of it past the gate.                                      *)

Ever(g) == membership[g] # "none"
Inside == Places \ {"gate"}

MonitorWasJoined ==
  /\ \A g \in proc.todo \cup proc.monitor : Ever(g)
  /\ command.at = "watch" => Ever(command.group)
TasksWereJoined ==
  /\ \A t \in Tasks : ingest[t].at \in Inside => Ever(GroupOf[ingest[t].msg])
  /\ \A b \in Backfills : reader[b].group # None => Ever(reader[b].group)
GateInv == MonitorWasJoined /\ TasksWereJoined /\ OnlyJoinedIsStored

\* A membership is opened and closed, and its row stays.
LEMMA RowsStay == TypeOK /\ Next => \A g \in Groups : Ever(g) => Ever(g)'
<1> SUFFICES ASSUME TypeOK, Next PROVE \A g \in Groups : Ever(g) => Ever(g)'
  OBVIOUS
<1> DEFINE Stay == \A g \in Groups : Ever(g) => Ever(g)'
<1>1. membership \in [Groups -> {"none", "open", "closed"}]
  BY DEF TypeOK, WorldType
<1>2. ASSUME NEW g \in Groups, NEW link, OpensMembership(g, link) PROVE Stay
  BY <1>1, <1>2 DEF OpensMembership, Ever
<1>3. ASSUME NEW g \in Groups, Closes(g) PROVE Stay
  BY <1>1, <1>3 DEF Closes, Ever
<1>4. CASE UNCHANGED membership
  BY <1>4 DEF Ever
<1>5. CASE Operator
  BY <1>3, <1>4, <1>5 DEF Operator, rows, AsksToJoin, Tells, Parks, LeaveStops, WritesConfig, ReadsConfig
<1>6. Supervisor \/ Platform \/ Boot \/ Backfill => UNCHANGED membership
  BY DEF Supervisor, rows, SendsJoin, Lists, SendsBackfill, Clears, DispatchStops, Platform, Posts, LetsIn,
     Boot, Spawns, Seeds, Subscribes, Registers, Dies, SeedsOne, Backfill, EndsDialog, NextDialog, NextMessage
<1>7. CASE Command
  <2>1. command.at = "record" => command.group \in Groups
    BY DEF TypeOK, ProcessType, Commands, BackfillCommand, NoCommand
  <2>2. CASE Records
    BY <1>2, <1>4, <2>1, <2>2 DEF Records, rows
  <2>3. ASSUME NEW g \in Groups, Probes(g) PROVE Stay
    BY <1>2, <2>3 DEF Probes
  <2> QED
    BY <1>4, <1>7, <2>2, <2>3 DEF Command, rows, Takes, Joins, Watches, JoinUnwatched, Departs, StaysIn,
       JoinRefused, StartsBackfill
<1>8. CASE Message
  <2>1. ASSUME NEW m \in Messages, Confirms(m) PROVE Stay
    BY <1>2, <2>1, IntakeConstants DEF Confirms
  <2> QED
    BY <1>4, <1>8, <2>1 DEF Message, rows, WatchesConfirmed, Gates, FindsAuthor, KeepsAuthor, Stores, Announces,
       Collides, IngestFails
<1> QED
  BY <1>4, <1>5, <1>6, <1>7, <1>8 DEF Next

\* What a task's move leaves behind.
LEMMA TaskMoves ==
  ASSUME TypeOK, NEW t \in Tasks, NEW place, NEW fresh, Goes(t, place, fresh)
  PROVE  /\ ingest'[t].at = place /\ ingest'[t].msg = ingest[t].msg
         /\ \A u \in Tasks : u # t => ingest'[u] = ingest[u]
BY DEF TypeOK, TasksType, Goes

LEMMA TaskEnds ==
  ASSUME TypeOK, NEW t \in Tasks, Ends(t)
  PROVE  /\ ingest'[t] = NoTask /\ \A u \in Tasks : u # t => ingest'[u] = ingest[u]
BY DEF TypeOK, TasksType, Ends

LEMMA MonitorWasJoinedStays == TypeOK /\ GateInv /\ Next => MonitorWasJoined'
<1> SUFFICES ASSUME TypeOK, GateInv, Next PROVE MonitorWasJoined'
  OBVIOUS
<1>1. \A g \in Groups : Ever(g) => Ever(g)'
  BY RowsStay
<1>2. /\ proc.todo \subseteq Groups /\ proc.monitor \subseteq Groups
      /\ command.at \in {"record", "watch"} => command.group \in Groups
  BY DEF TypeOK, ProcessType, Commands, BackfillCommand, NoCommand
<1>3. /\ \A g \in proc.todo \cup proc.monitor : Ever(g)'
      /\ command.at = "watch" => Ever(command.group)
      /\ command.at = "watch" => membership'[command.group] # "none"
  BY <1>1, <1>2 DEF GateInv, MonitorWasJoined, Ever
<1>4. CASE UNCHANGED <<proc, command>>
  BY <1>3, <1>4 DEF MonitorWasJoined, Ever
<1>5. Operator \/ Supervisor \/ Platform \/ Backfill \/ TaskStep => UNCHANGED <<proc, command>>
  <2>1. Operator \/ Supervisor => UNCHANGED <<proc, command>>
    BY DEF Operator, AsksToJoin, Closes, Tells, Parks, LeaveStops, WritesConfig, ReadsConfig, process,
       Supervisor, SendsJoin, Lists, SendsBackfill, Clears, DispatchStops
  <2>2. Platform \/ Backfill \/ TaskStep => UNCHANGED <<proc, command>>
    BY DEF Platform, Posts, LetsIn, Backfill, EndsDialog, NextDialog, NextMessage, process,
       TaskStep, FindsAuthor, KeepsAuthor, Stores, Announces, Collides, IngestFails
  <2> QED
    BY <2>1, <2>2
<1>6. CASE Boot
  <2>1. CASE Spawns \/ Subscribes \/ Registers
    BY <1>3, <2>1 DEF Spawns, Subscribes, Registers, MonitorWasJoined, Ever, Down, TypeOK, ProcessType
  <2>2. CASE Seeds
    <3>1. proc'.monitor = proc.monitor /\ proc'.todo = {g \in Groups : Open(g)} /\ UNCHANGED <<command, membership>>
      BY <2>2 DEF Seeds, rows, TypeOK, ProcessType
    <3> QED
      BY <1>3, <3>1 DEF MonitorWasJoined, Ever, Open
  <2>3. CASE Dies
    BY <2>3 DEF Dies, Down, NoCommand, MonitorWasJoined
  <2>4. ASSUME NEW g \in Groups, SeedsOne(g) PROVE MonitorWasJoined'
    <3>1. proc'.todo \cup proc'.monitor \subseteq proc.todo \cup proc.monitor /\ UNCHANGED command
      BY <2>4 DEF SeedsOne, TypeOK, ProcessType
    <3> QED
      BY <1>3, <3>1 DEF MonitorWasJoined, Ever
  <2> QED
    BY <1>6, <2>1, <2>2, <2>3, <2>4 DEF Boot
<1>7. CASE Command
  <2>1. CASE Takes
    <3>1. Head(queue) \in Commands
      BY <2>1 DEF Takes, TypeOK, ProcessType
    <3> QED
      BY <1>3, <2>1, <3>1 DEF Takes, MonitorWasJoined, Ever, Commands, BackfillCommand
  <2>2. CASE Joins
    BY <1>3, <2>2 DEF Joins, MonitorWasJoined, Ever, TypeOK, ProcessType, Commands, NoCommand
  <2>3. CASE Records
    <3>1. command'.at = "watch" => command'.group = command.group /\ membership'[command.group] = "open"
      <4>1. command.group \in Groups /\ membership \in [Groups -> {"none", "open", "closed"}]
        BY <1>2, <2>3 DEF Records, TypeOK, WorldType
      <4>2. command \in [kind : {"join"}, group : Groups, at : {"record", "watch"}]
        BY <2>3 DEF Records, TypeOK, ProcessType, Commands, BackfillCommand, NoCommand
      <4>3. [command EXCEPT !.at = "watch"].group = command.group
        BY <4>2
      <4> QED
        <5>1. CASE candidate[command.group] = "joining"
          BY <2>3, <4>1, <4>3, <5>1 DEF Records, OpensMembership
        <5>2. CASE candidate[command.group] # "joining"
          BY <2>3, <5>2 DEF Records, NoCommand
        <5> QED
          BY <5>1, <5>2
    <3> QED
      BY <1>3, <2>3, <3>1 DEF Records, MonitorWasJoined, Ever
  <2>4. CASE Watches
    <3>1. proc'.todo = proc.todo /\ proc'.monitor = proc.monitor \cup {command.group} /\ command' = NoCommand
      BY <2>4 DEF Watches, Watch, TypeOK, ProcessType
    <3> QED
      BY <1>3, <2>4, <3>1 DEF MonitorWasJoined, Ever, Watches, NoCommand
  <2>5. CASE Departs
    <3>1. proc'.todo = proc.todo /\ proc'.monitor \subseteq proc.monitor /\ command' = NoCommand
      BY <2>5 DEF Departs, Departed, TypeOK, ProcessType
    <3> QED
      BY <1>3, <3>1 DEF MonitorWasJoined, Ever, NoCommand
  <2>6. (\E b \in Backfills : StartsBackfill(b)) \/ JoinUnwatched \/ StaysIn
        \/ (\E o \in {"requested", "idle"} : JoinRefused(o))
        => UNCHANGED proc /\ command' = NoCommand
    BY DEF StartsBackfill, JoinUnwatched, StaysIn, JoinRefused
  <2>7. (\E g \in Groups : Probes(g)) => UNCHANGED <<proc, command>>
    BY DEF Probes, process
  <2>8. ASSUME UNCHANGED proc, command' = NoCommand PROVE MonitorWasJoined'
    BY <1>3, <2>8 DEF MonitorWasJoined, Ever, NoCommand
  <2> QED
    BY <1>4, <1>7, <2>1, <2>2, <2>3, <2>4, <2>5, <2>6, <2>7, <2>8 DEF Command
<1>8. CASE MessageStep
  <2>1. ASSUME NEW m \in Messages, WatchesConfirmed(m) PROVE MonitorWasJoined'
    <3>1. proc'.todo = proc.todo /\ proc'.monitor = proc.monitor \cup {GroupOf[m]} /\ UNCHANGED <<command, membership>>
      BY <2>1 DEF WatchesConfirmed, Watch, rows, TypeOK, ProcessType
    <3>2. Ever(GroupOf[m])
      <4>1. ingest[m].at = "watch" /\ m \in Tasks /\ "watch" \in Inside
        BY <2>1 DEF WatchesConfirmed, Tasks, Inside, Places
      <4>2. ingest[m].msg = m
        BY <4>1 DEF TypeOK, TasksType, NoTask
      <4> QED
        BY <4>1, <4>2 DEF GateInv, TasksWereJoined
    <3> QED
      BY <1>3, <3>1, <3>2 DEF MonitorWasJoined, Ever
  <2>2. ASSUME NEW m \in Messages, Confirms(m) \/ Gates(m) PROVE UNCHANGED <<proc, command>>
    BY <2>2 DEF Confirms, Gates, process
  <2> QED
    BY <1>4, <1>8, <2>1, <2>2 DEF MessageStep
<1> QED
  BY <1>4, <1>5, <1>6, <1>7, <1>8 DEF Next, Message, MessageStep, TaskStep

LEMMA TasksWereJoinedStays == TypeOK /\ GateInv /\ Next => TasksWereJoined'
<1> SUFFICES ASSUME TypeOK, GateInv, Next PROVE TasksWereJoined'
  OBVIOUS
<1> DEFINE Stays(g) == membership'[g] # "none"
<1>1. \A g \in Groups : Ever(g) => Stays(g)
  BY RowsStay DEF Ever
<1>2. \A t \in Tasks : ingest[t].at # "none" => ingest[t].msg \in Messages /\ GroupOf[ingest[t].msg] \in Groups
  <2>1. posted \in 0..Count
    BY DEF TypeOK, WorldType
  <2>2. 1..posted \subseteq Messages
    BY <2>1, IntakeConstants DEF Messages
  <2>3. \A t \in Tasks : ingest[t].at # "none" => ingest[t].msg \in Messages
    BY <2>2 DEF TypeOK, TasksType, NoTask
  <2> QED
    BY <2>3, IntakeConstants
<1>3. \A b \in Backfills : reader[b].group \in Groups \cup {None}
  BY DEF TypeOK, TasksType
<1>4. /\ \A t \in Tasks : ingest[t].at \in Inside => Stays(GroupOf[ingest[t].msg])
      /\ \A b \in Backfills : reader[b].group # None => Stays(reader[b].group)
  <2>1. "none" \notin Inside
    BY DEF Inside, Places
  <2> QED
    BY <1>1, <1>2, <1>3, <2>1 DEF GateInv, TasksWereJoined, Ever
<1> DEFINE TasksPart == \A t \in Tasks : ingest'[t].at \in Inside => Stays(GroupOf[ingest'[t].msg])
           ReaderPart == \A b \in Backfills : reader'[b].group # None => Stays(reader'[b].group)
<1>5. TasksPart /\ ReaderPart => TasksWereJoined'
  BY DEF TasksWereJoined, Ever
<1>6. UNCHANGED ingest => TasksPart
  BY <1>4 DEF Ever
<1>7. UNCHANGED reader => ReaderPart
  BY <1>4 DEF Ever
<1>8. NoTask.at \notin Inside /\ NoDialog.group = None /\ "gate" \notin Inside
  BY DEF NoTask, NoDialog, Inside, Places
<1>9. ASSUME NEW t \in Tasks, NEW place, NEW fresh, Goes(t, place, fresh),
             Stays(GroupOf[ingest[t].msg])
      PROVE  TasksPart
  <2>1. /\ ingest'[t].msg = ingest[t].msg
        /\ \A u \in Tasks : u # t => ingest'[u] = ingest[u]
    BY <1>9, TaskMoves
  <2> QED
    BY <1>4, <1>9, <2>1 DEF Ever
<1>10. ASSUME NEW t \in Tasks, Ends(t) PROVE TasksPart
  <2>1. ingest'[t] = NoTask /\ \A u \in Tasks : u # t => ingest'[u] = ingest[u]
    BY <1>10, TaskEnds
  <2> QED
    BY <1>4, <1>8, <2>1 DEF Ever
<1>11. ASSUME NEW t \in Tasks, ingest[t].at \in Inside PROVE Stays(GroupOf[ingest[t].msg])
  BY <1>4, <1>11 DEF Ever
<1>12. ASSUME NEW t \in Tasks, Raises(t) PROVE TasksPart /\ ReaderPart
  <2>1. \A b \in Backfills : reader'[b].group # None => reader'[b].group = reader[b].group
    BY <1>12 DEF Raises, Over, TypeOK, TasksType
  <2> QED
    BY <1>4, <1>10, <1>12, <2>1 DEF Raises, Ever
<1>13. CASE Posts
  <2>1. UNCHANGED reader /\ posted \in Nat
    BY <1>13, IntakeConstants DEF Posts, TypeOK, WorldType
  <2>2. \A t \in Tasks : ingest'[t] = ingest[t] \/ ingest'[t].at = "gate"
    BY <1>13 DEF Posts, TypeOK, TasksType
  <2> QED
    BY <1>4, <1>5, <1>7, <1>8, <2>1, <2>2 DEF Ever
<1>14. CASE Dies
  BY <1>5, <1>8, <1>14 DEF Dies
<1>15. CASE MessageStep
  <2>1. ASSUME NEW m \in Messages PROVE m \in Tasks /\ GroupOf[m] \in Groups
    BY IntakeConstants DEF Tasks
  <2>2. ASSUME NEW m \in Messages, ingest[m].at \in {"gate", "watch"} PROVE ingest[m].msg = m
    BY <2>1, <2>2 DEF TypeOK, TasksType, NoTask
  <2>3. ASSUME NEW m \in Messages, Confirms(m) PROVE TasksPart /\ UNCHANGED reader
    <3>1. Stays(GroupOf[m]) /\ At(m, "watch") /\ ingest[m].msg = m
      BY <2>1, <2>2, <2>3 DEF Confirms, OpensMembership, TypeOK, WorldType
    <3> QED
      BY <1>9, <2>1, <2>3, <3>1 DEF Confirms, At
  <2>4. ASSUME NEW m \in Messages, WatchesConfirmed(m) PROVE TasksPart /\ UNCHANGED reader
    <3>1. ingest[m].at \in Inside /\ At(m, "find")
      BY <2>4 DEF WatchesConfirmed, Inside, Places
    <3> QED
      BY <1>9, <1>11, <2>1, <2>4, <3>1 DEF WatchesConfirmed, At
  <2>5. ASSUME NEW m \in Messages, Gates(m) PROVE TasksPart /\ UNCHANGED reader
    <3>1. CASE Admits(m)
      <4>1. ingest[m].msg = m /\ Ever(GroupOf[m]) /\ At(m, "find")
        BY <2>1, <2>2, <2>5, <3>1 DEF Gates, Admits, GateInv, MonitorWasJoined
      <4>2. Stays(GroupOf[m])
        BY <1>1, <2>1, <4>1
      <4> QED
        BY <1>9, <2>1, <2>5, <4>1, <4>2 DEF Gates, At, Ever
    <3>2. CASE ~Admits(m)
      BY <1>10, <2>1, <2>5, <3>2 DEF Gates
    <3> QED
      BY <3>1, <3>2
  <2> QED
    BY <1>5, <1>7, <1>15, <2>3, <2>4, <2>5 DEF MessageStep
<1>16. CASE TaskStep
  <2>1. {"find", "author", "store", "announce"} \subseteq Inside
    BY DEF Inside, Places
  <2>2. ASSUME NEW t \in Tasks, FindsAuthor(t) PROVE TasksPart /\ UNCHANGED reader
    BY <1>9, <1>11, <2>1, <2>2 DEF FindsAuthor
  <2>3. ASSUME NEW t \in Tasks, KeepsAuthor(t) PROVE TasksPart /\ UNCHANGED reader
    BY <1>9, <1>11, <2>1, <2>3 DEF KeepsAuthor, At
  <2>4. ASSUME NEW t \in Tasks, Stores(t) PROVE TasksPart /\ UNCHANGED reader
    BY <1>9, <1>11, <2>1, <2>4 DEF Stores, At
  <2>5. ASSUME NEW t \in Tasks, Announces(t) PROVE TasksPart /\ UNCHANGED reader
    BY <1>10, <2>5 DEF Announces
  <2>6. ASSUME NEW t \in Tasks, Collides(t) \/ IngestFails(t) PROVE Raises(t)
    BY <2>6 DEF Collides, IngestFails
  <2> QED
    BY <1>5, <1>7, <1>12, <1>16, <2>2, <2>3, <2>4, <2>5, <2>6 DEF TaskStep
<1>17. CASE Backfill
  <2>1. ASSUME NEW b \in Backfills, EndsDialog(b) PROVE ReaderPart /\ UNCHANGED ingest
    <3>1. \A c \in Backfills : reader'[c].group # None => reader'[c].group = reader[c].group
      BY <2>1 DEF EndsDialog, Over, TypeOK, TasksType
    <3> QED
      BY <1>4, <2>1, <3>1 DEF EndsDialog, Ever
  <2>2. ASSUME NEW b \in Backfills, NEW g \in Groups, NextDialog(b, g) PROVE ReaderPart /\ UNCHANGED ingest
    <3>1. /\ \A c \in Backfills : c # b => reader'[c] = reader[c]
          /\ reader'[b].group = IF g \in proc.monitor THEN g ELSE None
      BY <2>2 DEF NextDialog, TypeOK, TasksType
    <3>2. g \in proc.monitor => Stays(g)
      BY <1>1 DEF GateInv, MonitorWasJoined
    <3> QED
      BY <1>4, <2>2, <3>1, <3>2 DEF NextDialog, Ever
  <2>3. ASSUME NEW b \in Backfills, NEW m \in Messages, NextMessage(b, m) PROVE TasksPart /\ ReaderPart
    <3>1. \A c \in Backfills : reader'[c].group = reader[c].group
      BY <2>3 DEF NextMessage, TypeOK, TasksType
    <3>2. /\ \A t \in Tasks : t # b => ingest'[t] = ingest[t]
          /\ b \in Tasks /\ ingest'[b].msg = m
      BY <2>3 DEF NextMessage, TypeOK, TasksType, Tasks
    <3>3. reader[b].group # None /\ GroupOf[m] = reader[b].group
      BY <2>3 DEF NextMessage, Ahead
    <3> QED
      BY <1>4, <3>1, <3>2, <3>3 DEF Ever
  <2> QED
    BY <1>5, <1>6, <1>7, <1>17, <2>1, <2>2, <2>3 DEF Backfill
<1>18. ASSUME NEW b \in Backfills, StartsBackfill(b) PROVE TasksWereJoined'
  <2>1. \A c \in Backfills : reader'[c].group = reader[c].group
    BY <1>18 DEF StartsBackfill, TypeOK, TasksType
  <2> QED
    BY <1>4, <1>5, <1>6, <1>18, <2>1 DEF StartsBackfill, Ever
<1>19. CASE UNCHANGED <<posted, stored, announced, ingest, reader, replayed>>
  BY <1>5, <1>6, <1>7, <1>19
<1> HIDE DEF TasksPart, ReaderPart
<1> QED
  BY <1>13, <1>14, <1>15, <1>16, <1>17, <1>18, <1>19, TasksFrame

LEMMA StoredWasJoinedStays == TypeOK /\ GateInv /\ Next => OnlyJoinedIsStored'
<1> SUFFICES ASSUME TypeOK, GateInv, Next PROVE OnlyJoinedIsStored'
  OBVIOUS
<1>1. posted \in 0..Count /\ stored \subseteq 1..posted
  BY DEF TypeOK, WorldType
<1>2. 1..posted \subseteq Messages
  BY <1>1, IntakeConstants DEF Messages
<1>3. \A m \in 1..posted : Ever(GroupOf[m]) => Ever(GroupOf[m])'
  BY <1>2, RowsStay, IntakeConstants
<1>4. ASSUME NEW t \in Tasks, Stores(t) PROVE ingest[t].msg \in 1..posted /\ Ever(GroupOf[ingest[t].msg])
  <2>1. ingest[t].at \in Inside /\ ingest[t] # NoTask
    BY <1>4 DEF Stores, Inside, Places, NoTask
  <2> QED
    BY <2>1 DEF GateInv, TasksWereJoined, TypeOK, TasksType
<1>5. UNCHANGED stored \/ \E t \in Tasks : Stores(t) /\ stored' = stored \cup {ingest[t].msg}
  <2>1. Posts \/ Dies \/ MessageStep \/ Backfill \/ (\E b \in Backfills : StartsBackfill(b)) => UNCHANGED stored
    BY DEF Posts, Dies, MessageStep, Confirms, WatchesConfirmed, Gates, Backfill, EndsDialog, NextDialog,
       NextMessage, StartsBackfill, store
  <2>2. TaskStep => UNCHANGED stored \/ \E t \in Tasks : Stores(t) /\ stored' = stored \cup {ingest[t].msg}
    BY DEF TaskStep, FindsAuthor, KeepsAuthor, Stores, Announces, Collides, IngestFails, store
  <2> QED
    BY <2>1, <2>2, TasksFrame
<1> QED
  BY <1>1, <1>3, <1>4, <1>5 DEF GateInv, OnlyJoinedIsStored, Ever

\* However joins, leaves, restarts and backfills fall between, a message is stored
\* only of a group the collector has, or had, a membership of.
THEOREM OnlyJoinedIsStoredHolds == Spec => []OnlyJoinedIsStored
<1>1. Init => GateInv
  BY DEF Init, Down, NoCommand, NoTask, NoDialog, GateInv, MonitorWasJoined, TasksWereJoined,
     OnlyJoinedIsStored, Inside, Places
<1>2. TypeOK /\ GateInv /\ [Next]_vars => GateInv'
  <2>1. TypeOK /\ GateInv /\ Next => GateInv'
    BY MonitorWasJoinedStays, TasksWereJoinedStays, StoredWasJoinedStays DEF GateInv
  <2>2. GateInv /\ UNCHANGED vars => GateInv'
    BY DEF vars, rows, store, tasks, process, GateInv, MonitorWasJoined, TasksWereJoined,
       OnlyJoinedIsStored, Ever
  <2> QED
    BY <2>1, <2>2
<1>3. GateInv => OnlyJoinedIsStored
  BY DEF GateInv
<1> QED
  BY <1>1, <1>2, <1>3, TypeStarts, TypeStays, PTL DEF Spec

-----------------------------------------------------------------------------
(* Backfills.  What a dialog has passed is in the store and with the       *)
(* sensors, but for the message at hand.                                   *)

Passed(task, dialog, n, s, a) ==
  /\ task # NoTask => /\ dialog.group # None /\ task.msg = dialog.last
                      /\ task.at = "announce" => task.msg \in s
  /\ dialog.group # None =>
       \A m \in 1..n : GroupOf[m] = dialog.group /\ m <= dialog.last =>
         (m \in s /\ (m \in OwnWords => m \in a)) \/ (task # NoTask /\ m = dialog.last)

ReplayInv ==
  BackfillReplays /\ \A b \in Backfills : Passed(ingest[b], reader[b], posted, stored, announced)

LEMMA StoreGrows == Next => stored \subseteq stored' /\ announced \subseteq announced'
<1>1. MessageStep \/ TaskStep => stored \subseteq stored' /\ announced \subseteq announced'
  BY DEF MessageStep, Confirms, WatchesConfirmed, Gates, TaskStep, FindsAuthor, KeepsAuthor, Stores, Announces,
     Collides, IngestFails, store
<1>2. Posts \/ Dies \/ Backfill \/ (\E b \in Backfills : StartsBackfill(b)) => UNCHANGED <<stored, announced>>
  BY DEF Posts, Dies, Backfill, EndsDialog, NextDialog, NextMessage, StartsBackfill, store
<1> QED
  BY <1>1, <1>2, TasksFrame

\* A backfill that is not at hand has passed what it had.
LEMMA PassedStays ==
  ASSUME TypeOK, Next, NEW b \in Backfills, ingest'[b] = ingest[b], reader'[b] = reader[b],
         Passed(ingest[b], reader[b], posted, stored, announced)
  PROVE  Passed(ingest'[b], reader'[b], posted', stored', announced')
<1>1. stored \subseteq stored' /\ announced \subseteq announced'
  BY StoreGrows
<1>2. posted \in Nat /\ posted' \in Nat /\ posted <= posted' /\ reader[b].last \in 0..posted
  BY PostedGrows DEF TypeOK, TasksType
<1>3. \A m \in 1..posted' : m <= reader[b].last => m \in 1..posted
  BY <1>2
<1> QED
  BY <1>1, <1>3 DEF Passed

LEMMA ReplayInvStays == TypeOK /\ ReplayInv /\ Next => ReplayInv'
<1> SUFFICES ASSUME TypeOK, ReplayInv, Next PROVE ReplayInv'
  OBVIOUS
<1> DEFINE Now(b) == Passed(ingest'[b], reader'[b], posted', stored', announced')
           Same(b) == ingest'[b] = ingest[b] /\ reader'[b] = reader[b]
<1>1. \A b \in Backfills : Same(b) => Now(b)
  BY PassedStays DEF ReplayInv
<1>2. stored \subseteq stored' /\ announced \subseteq announced'
  BY StoreGrows
<1>3. ASSUME \A b \in Backfills : Now(b), UNCHANGED replayed PROVE ReplayInv'
  BY <1>2, <1>3 DEF ReplayInv, BackfillReplays
<1>4. \A b \in Backfills : b \in Tasks /\ b \notin Messages
  BY IntakeConstants DEF Tasks
<1>5. \A b \in Backfills : Passed(ingest[b], reader[b], posted, stored, announced)
  BY DEF ReplayInv
<1>6. reader \in [Backfills -> [left : SUBSET Groups, group : Groups \cup {None}, last : 0..posted]]
      /\ posted \in Nat
  BY IntakeConstants DEF TypeOK, TasksType, WorldType
<1>7. \A m \in 1..posted : GroupOf[m] \in Groups /\ GroupOf[m] # None
  <2>1. 1..posted \subseteq Messages
    BY <1>6, IntakeConstants DEF TypeOK, WorldType, Messages
  <2> QED
    BY <2>1, IntakeConstants
<1>8. ASSUME NEW t \in Tasks, NEW place \in Inside, NEW fresh, Goes(t, place, fresh), ingest[t].at # "none",
             place = "announce" => ingest[t].msg \in stored', UNCHANGED <<posted, reader>>
      PROVE  \A b \in Backfills : Now(b)
  <2>1. /\ ingest'[t].at = place /\ ingest'[t].msg = ingest[t].msg /\ ingest[t] # NoTask
        /\ \A u \in Tasks : u # t => ingest'[u] = ingest[u]
    BY <1>8, TaskMoves DEF NoTask
  <2>2. ingest'[t] # NoTask
    BY <2>1 DEF NoTask, Inside, Places
  <2>3. t \in Backfills => Now(t)
    BY <1>2, <1>5, <1>8, <2>1, <2>2 DEF Passed
  <2> QED
    BY <1>1, <1>4, <1>8, <2>1, <2>3
<1>9. CASE Posts
  <2>1. posted + 1 \in Messages
    BY <1>6, <1>9, IntakeConstants DEF Posts, Messages
  <2>2. \A b \in Backfills : Same(b)
    BY <1>4, <1>9, <2>1 DEF Posts, TypeOK, TasksType
  <2> QED
    BY <1>1, <1>3, <1>9, <2>2 DEF Posts
<1>10. CASE Dies
  <2>1. \A b \in Backfills : ingest'[b] = NoTask /\ reader'[b] = NoDialog
    BY <1>4, <1>10 DEF Dies
  <2>2. \A b \in Backfills : Now(b)
    BY <2>1 DEF Passed, NoDialog
  <2> QED
    BY <1>3, <1>10, <2>2 DEF Dies
<1>11. CASE MessageStep
  <2>1. ASSUME NEW m \in Messages, NEW t \in Tasks, NEW place, Goes(m, place, FALSE) \/ Ends(m)
        PROVE  t # m => ingest'[t] = ingest[t]
    BY <2>1 DEF Goes, Ends, TypeOK, TasksType
  <2>2. ASSUME NEW m \in Messages, Confirms(m) \/ WatchesConfirmed(m) \/ Gates(m)
        PROVE  UNCHANGED <<reader, replayed>> /\ \E place : Goes(m, place, FALSE) \/ Ends(m)
    BY <2>2 DEF Confirms, WatchesConfirmed, Gates, At
  <2>3. \A b \in Backfills : Same(b)
    BY <1>4, <1>11, <2>1, <2>2 DEF MessageStep
  <2>4. UNCHANGED replayed
    BY <1>11, <2>2 DEF MessageStep
  <2> QED
    BY <1>1, <1>3, <2>3, <2>4
<1>12. ASSUME NEW t \in Tasks, FindsAuthor(t) PROVE ReplayInv'
  BY <1>3, <1>8, <1>12 DEF FindsAuthor, platform, Inside, Places
<1>13. ASSUME NEW t \in Tasks, KeepsAuthor(t) PROVE ReplayInv'
  BY <1>3, <1>8, <1>13 DEF KeepsAuthor, At, platform, Inside, Places
<1>14. ASSUME NEW t \in Tasks, Stores(t) PROVE ReplayInv'
  <2>1. ingest[t].msg \in stored' /\ UNCHANGED <<posted, reader, replayed>> /\ ingest[t].at # "none"
    BY <1>14 DEF Stores, platform
  <2> QED
    BY <1>3, <1>8, <1>14, <2>1 DEF Stores, At, Inside, Places
<1>15. ASSUME NEW t \in Tasks, Announces(t) PROVE ReplayInv'
  <2>1. /\ UNCHANGED <<posted, reader, replayed, stored>> /\ announced' = announced \cup ({ingest[t].msg} \cap OwnWords)
        /\ ingest[t].at = "announce" /\ ingest[t] # NoTask
    BY <1>15 DEF Announces, platform, NoTask
  <2>2. ingest'[t] = NoTask /\ \A u \in Tasks : u # t => ingest'[u] = ingest[u]
    BY <1>15, TaskEnds DEF Announces
  <2>3. t \in Backfills => Now(t)
    BY <1>5, <2>1, <2>2 DEF Passed
  <2> QED
    BY <1>1, <1>3, <1>4, <2>1, <2>2, <2>3
<1>16. ASSUME NEW t \in Tasks, Collides(t) \/ IngestFails(t) PROVE ReplayInv'
  <2>1. Raises(t) /\ UNCHANGED replayed
    BY <1>16 DEF Collides, IngestFails
  <2>2. ingest'[t] = NoTask /\ \A u \in Tasks : u # t => ingest'[u] = ingest[u]
    BY <2>1, TaskEnds DEF Raises
  <2>3. \A b \in Backfills : b # t => reader'[b] = reader[b]
    BY <1>6, <2>1 DEF Raises
  <2>4. t \in Backfills => reader'[t].group = None
    BY <1>6, <2>1 DEF Raises, Over
  <2>5. t \in Backfills => Now(t)
    BY <2>2, <2>4 DEF Passed
  <2> QED
    BY <1>1, <1>3, <1>4, <2>1, <2>2, <2>3, <2>5
<1>17. ASSUME NEW b \in Backfills, EndsDialog(b) PROVE ReplayInv'
  <2>1. /\ reader'[b].group = None /\ ingest'[b] = NoTask /\ UNCHANGED <<posted, stored, announced>>
        /\ \A c \in Backfills : c # b => Same(c)
    BY <1>6, <1>17 DEF EndsDialog, Over, platform, store
  <2>2. Now(b)
    BY <2>1 DEF Passed
  <2>3. \A m \in 1..posted : GroupOf[m] = reader[b].group => m <= reader[b].last
    BY <1>6, <1>17 DEF EndsDialog, Ahead
  <2>4. \A m \in 1..posted : GroupOf[m] = reader[b].group => m \in stored /\ (m \in OwnWords => m \in announced)
    BY <1>5, <1>17, <2>3 DEF EndsDialog, Passed
  <2>5. BackfillReplays'
    BY <1>17, <2>1, <2>4 DEF EndsDialog, ReplayInv, BackfillReplays
  <2> QED
    BY <1>1, <2>1, <2>2, <2>5 DEF ReplayInv
<1>18. ASSUME NEW b \in Backfills, NEW g \in Groups, NextDialog(b, g) PROVE ReplayInv'
  <2>1. /\ reader'[b].last = 0 /\ ingest'[b] = ingest[b] /\ UNCHANGED replayed /\ reader[b].group = None
        /\ \A c \in Backfills : c # b => Same(c)
    BY <1>6, <1>18 DEF NextDialog
  <2>2. ingest'[b] = NoTask /\ posted' \in Nat
    BY <1>5, <2>1, PostedGrows DEF Passed
  <2>3. Now(b)
    BY <2>1, <2>2 DEF Passed
  <2> QED
    BY <1>1, <1>3, <2>1, <2>3
<1>19. ASSUME NEW b \in Backfills, NEW m \in Messages, NextMessage(b, m) PROVE ReplayInv'
  <2>1. /\ reader'[b].last = m /\ reader'[b].group = reader[b].group /\ ingest[b] = NoTask
        /\ ingest'[b].msg = m /\ ingest'[b].at = "find" /\ reader[b].group # None
        /\ UNCHANGED <<posted, stored, announced, replayed>>
        /\ \A c \in Backfills : c # b => Same(c)
    BY <1>4, <1>6, <1>19 DEF NextMessage, platform, store, TypeOK, TasksType
  <2>2. ingest'[b] # NoTask
    BY <2>1 DEF NoTask
  <2>3. ASSUME NEW n \in 1..posted, GroupOf[n] = reader[b].group, n <= m PROVE n <= reader[b].last \/ n = m
    <3>1. n \in Ahead(b) => m <= n
      BY <1>19 DEF NextMessage
    <3>2. n \in Ahead(b) \/ n <= reader[b].last
      BY <1>6, <2>3 DEF Ahead
    <3>3. m \in Nat
      BY <1>6, <1>19 DEF NextMessage, Ahead
    <3> QED
      BY <1>6, <2>3, <3>1, <3>2, <3>3
  <2>4. Now(b)
    BY <1>5, <2>1, <2>2, <2>3 DEF Passed
  <2> QED
    BY <1>1, <1>3, <2>1, <2>4
<1>20. ASSUME NEW b \in Backfills, StartsBackfill(b) PROVE ReplayInv'
  <2>1. /\ reader'[b].group = reader[b].group /\ reader'[b].last = reader[b].last /\ UNCHANGED replayed
        /\ ingest'[b] = ingest[b] /\ reader[b].group = None
        /\ \A c \in Backfills : c # b => Same(c)
    BY <1>6, <1>20 DEF StartsBackfill, NoDialog
  <2>2. Now(b)
    BY <1>5, <2>1 DEF Passed
  <2> QED
    BY <1>1, <1>3, <2>1, <2>2
<1>21. CASE UNCHANGED <<posted, stored, announced, ingest, reader, replayed>>
  BY <1>1, <1>3, <1>21
<1> HIDE DEF Now, Same
<1> QED
  BY <1>9, <1>10, <1>11, <1>12, <1>13, <1>14, <1>15, <1>16, <1>17, <1>18, <1>19, <1>20, <1>21, TasksFrame
  DEF TaskStep, Backfill

\* Whatever live handlers, leaves and failures do to the same messages, a dialog that
\* a backfill has finished is stored and published.
THEOREM BackfillReplaysHolds == Spec => []BackfillReplays
<1>1. Init => ReplayInv
  BY DEF Init, NoTask, NoDialog, Tasks, ReplayInv, BackfillReplays, Passed
<1>2. TypeOK /\ ReplayInv /\ [Next]_vars => ReplayInv'
  <2>1. ReplayInv /\ UNCHANGED vars => ReplayInv'
    BY DEF vars, platform, store, tasks, ReplayInv, BackfillReplays, Passed
  <2> QED
    BY <2>1, ReplayInvStays
<1>3. ReplayInv => BackfillReplays
  BY DEF ReplayInv
<1> QED
  BY <1>1, <1>2, <1>3, TypeStarts, TypeStays, PTL DEF Spec

-----------------------------------------------------------------------------
(* The monitor set.  A group with an open membership that is not watched   *)
(* is still to be seeded, or about to be watched by the join or the        *)
(* message that opened it; one that is watched without a membership has    *)
(* its leave on the way.                                                   *)

Seeded == proc.at \in {"seed", "subscribed", "ready"}
Listens == proc.at \in {"subscribed", "ready"}
Confirmed(g) == \E m \in Messages : ingest[m].at = "watch" /\ GroupOf[m] = g
WatchedNext(g) == command.at = "watch" /\ command.group = g
LeaveAhead(g) == command = LeaveCommand(g) \/ \E i \in 1..Len(queue) : queue[i] = LeaveCommand(g)

ProcessStages ==
  /\ ~Seeded => proc.monitor = {} /\ proc.todo = {}
  /\ Listens => proc.todo = {}
  /\ ~Listens => queue = <<>> /\ command = NoCommand
  /\ proc.at # "ready" => \A m \in Messages : ingest[m] = NoTask
Held(g) == g \in astray \cup proc.monitor \cup proc.todo \/ WatchedNext(g) \/ Confirmed(g)
Watching == \A g \in Groups : Seeded /\ Open(g) => Held(g)
Kept(g) == g \in proc.monitor \cup proc.todo \/ WatchedNext(g)
Excused(g) == g \in astray \/ leaving[g] = "closed" \/ LeaveAhead(g)
Leaving == \A g \in Groups : Seeded /\ ~Open(g) /\ Kept(g) => Excused(g)
MonitorInv == ProcessStages /\ Watching /\ Leaving

\* A publish reaches those that listen, and keeps what was there.
LEMMA PublishAppends ==
  ASSUME TypeOK, NEW c \in Commands, Publish(c)
  PROVE  /\ ~Listens => queue' = queue
         /\ \A d : (\E i \in 1..Len(queue) : queue[i] = d) => \E i \in 1..Len(queue') : queue'[i] = d
         /\ Room => \E i \in 1..Len(queue') : queue'[i] = c
<1>1. queue \in Seq(Commands)
  BY DEF TypeOK, ProcessType
<1>2. CASE Room
  <2>1. queue' = Append(queue, c)
    BY <1>2 DEF Publish
  <2>2. Len(queue') = Len(queue) + 1 /\ Len(queue) \in Nat /\ queue'[Len(queue) + 1] = c
        /\ \A i \in 1..Len(queue) : queue'[i] = queue[i]
    BY <1>1, <2>1
  <2>3. \A i \in 1..Len(queue) : i \in 1..Len(queue')
    BY <2>2
  <2>4. Len(queue) + 1 \in 1..Len(queue')
    BY <2>2
  <2> QED
    BY <1>2, <2>2, <2>3, <2>4 DEF Room, Listens
<1>3. CASE ~Room
  BY <1>3 DEF Publish
<1> QED
  BY <1>2, <1>3

\* What the monitor set hangs on, and the steps that leave all of it alone.
watched == <<membership, leaving, proc, queue, command, ingest, astray>>

LEMMA MonitorFrame ==
  TypeOK /\ Next =>
    \/ \E g \in Groups : Closes(g) \/ Tells(g) \/ Parks(g) \/ LeaveStops(g) \/ SendsJoin(g)
    \/ SendsBackfill \/ Posts \/ Boot \/ Command \/ MessageStep \/ TaskStep
    \/ \E b \in Backfills, m \in Messages : NextMessage(b, m)
    \/ UNCHANGED watched
<1> SUFFICES ASSUME Next PROVE
    \/ \E g \in Groups : Closes(g) \/ Tells(g) \/ Parks(g) \/ LeaveStops(g) \/ SendsJoin(g)
    \/ SendsBackfill \/ Posts \/ Boot \/ Command \/ MessageStep \/ TaskStep
    \/ \E b \in Backfills, m \in Messages : NextMessage(b, m)
    \/ UNCHANGED watched
  OBVIOUS
<1>1. Operator => (\E g \in Groups : Closes(g) \/ Tells(g) \/ Parks(g) \/ LeaveStops(g)) \/ UNCHANGED watched
  BY DEF Operator, AsksToJoin, WritesConfig, ReadsConfig, rows, tasks, process, watched
<1>2. Supervisor => SendsBackfill \/ (\E g \in Groups : SendsJoin(g)) \/ UNCHANGED watched
  BY DEF Supervisor, Lists, Clears, DispatchStops, rows, tasks, process, watched
<1>3. Platform => Posts \/ UNCHANGED watched
  BY DEF Platform, LetsIn, rows, tasks, process, watched
<1>4. Message => MessageStep \/ TaskStep
  BY DEF Message, MessageStep, TaskStep
<1>5. Backfill => (\E b \in Backfills, m \in Messages : NextMessage(b, m)) \/ UNCHANGED watched
  BY DEF Backfill, EndsDialog, NextDialog, rows, process, watched
<1> QED
  BY <1>1, <1>2, <1>3, <1>4, <1>5 DEF Next

\* A command at hand or waiting is one that a subscription has brought.
LEMMA CommandFrame ==
  TypeOK /\ ProcessStages /\ Command =>
    Listens /\ proc'.at = proc.at /\ proc'.todo = proc.todo /\ UNCHANGED <<ingest, leaving>>
<1> SUFFICES ASSUME TypeOK, ProcessStages, Command
    PROVE  Listens /\ proc'.at = proc.at /\ proc'.todo = proc.todo /\ UNCHANGED <<ingest, leaving>>
  OBVIOUS
<1>1. proc \in [at : {"down", "boot", "seed", "subscribed", "ready"}, todo : SUBSET Groups, monitor : SUBSET Groups]
  BY DEF TypeOK, ProcessType
<1>2. Takes \/ Joins \/ Records \/ JoinUnwatched \/ StaysIn => queue # <<>> \/ command # NoCommand
  BY DEF Takes, Joins, Records, JoinUnwatched, StaysIn, NoCommand
<1>3. Watches \/ Departs \/ (\E o \in {"requested", "idle"} : JoinRefused(o)) => command # NoCommand
  BY DEF Watches, Departs, JoinRefused, NoCommand
<1>4. (\E b \in Backfills : StartsBackfill(b)) => command # NoCommand
  BY DEF StartsBackfill, NoCommand
<1>5. Listens
  BY <1>2, <1>3, <1>4 DEF Command, Probes, ProcessStages, Listens
<1>6. UNCHANGED proc \/ Watches \/ Departs
  BY DEF Command, Takes, Joins, Records, JoinUnwatched, StaysIn, JoinRefused, StartsBackfill, Probes, process
<1>7. proc'.at = proc.at /\ proc'.todo = proc.todo
  BY <1>1, <1>6 DEF Watches, Watch, Departs, Departed
<1>8. UNCHANGED <<ingest, leaving>>
  BY DEF Command, Takes, Joins, Records, Watches, JoinUnwatched, Departs, StaysIn, JoinRefused, StartsBackfill,
     Probes, tasks
<1> QED
  BY <1>5, <1>7, <1>8

\* One message or backfill at a time moves, and none becomes a confirmation.
LEMMA TaskFrame ==
  TypeOK /\ TaskStep =>
    /\ UNCHANGED <<membership, leaving, proc, queue, command>> /\ astray \subseteq astray'
    /\ \E t \in Tasks : /\ ingest[t] # NoTask /\ \A u \in Tasks : u # t => ingest'[u] = ingest[u]
                        /\ ingest[t].at = "watch" => GroupOf[ingest[t].msg] \in astray'
<1> SUFFICES ASSUME TypeOK, TaskStep
    PROVE  /\ UNCHANGED <<membership, leaving, proc, queue, command>> /\ astray \subseteq astray'
           /\ \E t \in Tasks : /\ ingest[t] # NoTask /\ \A u \in Tasks : u # t => ingest'[u] = ingest[u]
                               /\ ingest[t].at = "watch" => GroupOf[ingest[t].msg] \in astray'
  OBVIOUS
<1>1. PICK t \in Tasks : FindsAuthor(t) \/ KeepsAuthor(t) \/ Stores(t) \/ Announces(t) \/ Collides(t) \/ IngestFails(t)
  BY DEF TaskStep
<1>2. UNCHANGED <<membership, leaving, proc, queue, command>> /\ astray \subseteq astray'
  BY <1>1 DEF FindsAuthor, KeepsAuthor, Stores, Announces, Collides, IngestFails, rows, process
<1>3. ingest[t] # NoTask /\ (ingest[t].at = "watch" => GroupOf[ingest[t].msg] \in astray')
  BY <1>1 DEF FindsAuthor, KeepsAuthor, Stores, Announces, Collides, IngestFails, NoTask
<1>4. (\E place, fresh : Goes(t, place, fresh)) \/ Ends(t)
  BY <1>1 DEF FindsAuthor, KeepsAuthor, Stores, Announces, Collides, IngestFails, Raises, At
<1>5. \A u \in Tasks : u # t => ingest'[u] = ingest[u]
  BY <1>4, TaskMoves, TaskEnds
<1> QED
  BY <1>2, <1>3, <1>5

LEMMA ProcessStagesStays == TypeOK /\ ProcessStages /\ Next => ProcessStages'
<1> SUFFICES ASSUME TypeOK, ProcessStages, Next PROVE ProcessStages'
  OBVIOUS
<1>1. /\ proc \in [at : {"down", "boot", "seed", "subscribed", "ready"}, todo : SUBSET Groups, monitor : SUBSET Groups]
      /\ \A m \in Messages : m \in Tasks
      /\ \A b \in Backfills : b \notin Messages
      /\ DOMAIN ingest = Tasks
  BY IntakeConstants DEF TypeOK, ProcessType, TasksType, Tasks
<1>2. CASE UNCHANGED <<proc, command, ingest>> /\ (~Listens => UNCHANGED queue)
  BY <1>2 DEF ProcessStages, Seeded, Listens
<1>3. ASSUME NEW g \in Groups, Closes(g) \/ Tells(g) \/ Parks(g) \/ LeaveStops(g) \/ SendsJoin(g) PROVE ProcessStages'
  <2>1. LeaveCommand(g) \in Commands /\ JoinCommand(g) \in Commands
    BY DEF LeaveCommand, JoinCommand, Commands
  <2>2. UNCHANGED <<proc, command, ingest>> /\ (~Listens => UNCHANGED queue)
    BY <1>3, <2>1, PublishAppends DEF Closes, Tells, Parks, LeaveStops, SendsJoin, tasks, process
  <2> QED
    BY <1>2, <2>2
<1>4. CASE SendsBackfill
  <2>1. BackfillCommand \in Commands
    BY DEF Commands
  <2> QED
    BY <1>2, <1>4, <2>1, PublishAppends DEF SendsBackfill, tasks
<1>5. CASE Posts
  <2>1. UNCHANGED <<proc, command, queue>> /\ (proc.at # "ready" => UNCHANGED ingest)
    BY <1>5 DEF Posts, process
  <2> QED
    BY <2>1 DEF ProcessStages, Seeded, Listens
<1>6. CASE Boot
  <2>1. CASE Spawns
    BY <2>1 DEF Spawns, Down, tasks, ProcessStages, Seeded, Listens
  <2>2. CASE Seeds
    BY <1>1, <2>2 DEF Seeds, tasks, ProcessStages, Seeded, Listens
  <2>3. CASE Subscribes \/ Registers
    <3>1. /\ UNCHANGED <<queue, command, ingest>> /\ proc'.todo = proc.todo /\ proc'.monitor = proc.monitor
          /\ proc.at \in {"seed", "subscribed"} /\ proc'.at \in {"subscribed", "ready"}
          /\ proc'.at = "subscribed" => proc.at = "seed" /\ proc.todo = {}
          /\ proc'.at = "ready" => proc.at = "subscribed"
      BY <1>1, <2>3 DEF Subscribes, Registers, tasks
    <3> QED
      BY <3>1 DEF ProcessStages, Seeded, Listens
  <2>4. CASE Dies
    BY <1>1, <2>4 DEF Dies, Down, ProcessStages, Seeded, Listens
  <2>5. ASSUME NEW g \in Groups, SeedsOne(g) PROVE ProcessStages'
    BY <1>1, <2>5 DEF SeedsOne, tasks, ProcessStages, Seeded, Listens
  <2> QED
    BY <1>6, <2>1, <2>2, <2>3, <2>4, <2>5 DEF Boot
<1>7. CASE Command
  BY <1>7, CommandFrame DEF ProcessStages, Seeded, Listens
<1>8. CASE MessageStep
  <2>1. PICK m \in Messages : Confirms(m) \/ WatchesConfirmed(m) \/ Gates(m)
    BY <1>8 DEF MessageStep
  <2>2. ingest[m] # NoTask
    <3>1. ingest[m].at \in {"gate", "watch"}
      BY <2>1 DEF Confirms, WatchesConfirmed, Gates
    <3> QED
      BY <3>1 DEF NoTask
  <2>3. UNCHANGED <<queue, command>> /\ proc'.at = proc.at /\ proc'.todo = proc.todo
    <3>1. UNCHANGED <<queue, command>> /\ (UNCHANGED proc \/ Watch(GroupOf[m]))
      BY <2>1 DEF Confirms, WatchesConfirmed, Gates, process
    <3> QED
      BY <1>1, <3>1 DEF Watch
  <2> QED
    BY <2>2, <2>3 DEF ProcessStages, Seeded, Listens
<1>9. CASE TaskStep
  <2>1. /\ UNCHANGED <<proc, queue, command>>
        /\ \E t \in Tasks : ingest[t] # NoTask /\ \A u \in Tasks : u # t => ingest'[u] = ingest[u]
    BY <1>9, TaskFrame
  <2> QED
    BY <1>1, <2>1 DEF ProcessStages, Seeded, Listens
<1>10. ASSUME NEW b \in Backfills, NEW m \in Messages, NextMessage(b, m) PROVE ProcessStages'
  BY <1>1, <1>10 DEF NextMessage, process, ProcessStages, Seeded, Listens
<1>11. CASE UNCHANGED watched
  BY <1>2, <1>11 DEF watched
<1> QED
  BY <1>3, <1>4, <1>5, <1>6, <1>7, <1>8, <1>9, <1>10, <1>11, MonitorFrame

LEMMA WatchingStays == TypeOK /\ MonitorInv /\ Next => Watching'
<1> SUFFICES ASSUME TypeOK, MonitorInv, Next PROVE Watching'
  OBVIOUS
<1>1. /\ proc \in [at : {"down", "boot", "seed", "subscribed", "ready"}, todo : SUBSET Groups, monitor : SUBSET Groups]
      /\ membership \in [Groups -> {"none", "open", "closed"}]
      /\ \A m \in Messages : m \in Tasks /\ GroupOf[m] \in Groups
      /\ \A b \in Backfills : b \notin Messages
      /\ DOMAIN ingest = Tasks
  BY IntakeConstants DEF TypeOK, WorldType, ProcessType, TasksType, Tasks
<1>2. ASSUME Seeded' => Seeded, \A g \in Groups : Open(g)' => (Open(g) /\ ~Held(g)) \/ Held(g)'
      PROVE  Watching'
  BY <1>2 DEF MonitorInv, Watching
<1>3. ASSUME UNCHANGED <<proc, command, ingest>>, astray \subseteq astray', \A g \in Groups : Open(g)' => Open(g)
      PROVE  Watching'
  BY <1>2, <1>3 DEF Held, Seeded, WatchedNext, Confirmed
<1>4. ASSUME NEW g \in Groups, Closes(g) PROVE Watching'
  BY <1>1, <1>3, <1>4 DEF Closes, Open, tasks, process
<1>5. ASSUME NEW g \in Groups, Tells(g) \/ Parks(g) \/ LeaveStops(g) \/ SendsJoin(g) PROVE Watching'
  BY <1>3, <1>5 DEF Tells, Parks, LeaveStops, SendsJoin, Open, rows, tasks, process
<1>6. CASE SendsBackfill
  BY <1>3, <1>6 DEF SendsBackfill, Open, rows, tasks
<1>7. CASE Posts
  <2>1. UNCHANGED <<proc, command, membership, astray>>
    BY <1>7 DEF Posts, rows, process
  <2>2. \A m \in Messages : ingest[m].at = "watch" => m # posted + 1
    <3>1. \A m \in Messages : ingest[m].at = "watch" => m \in 1..posted
      BY <1>1 DEF TypeOK, TasksType, NoTask
    <3> QED
      BY <3>1, IntakeConstants DEF TypeOK, WorldType
  <2>3. \A m \in Messages : ingest[m].at = "watch" => ingest'[m].at = "watch"
    BY <1>1, <1>7, <2>2 DEF Posts
  <2> QED
    BY <1>2, <2>1, <2>3 DEF Seeded, Open, Held, WatchedNext, Confirmed
<1>8. CASE Boot
  <2>1. CASE Spawns
    BY <1>1, <2>1 DEF Spawns, Watching, Seeded
  <2>2. CASE Seeds
    <3>1. proc'.todo = {g \in Groups : Open(g)} /\ UNCHANGED membership
      BY <1>1, <2>2 DEF Seeds, rows
    <3> QED
      BY <3>1 DEF Watching, Held, Open
  <2>3. CASE Subscribes \/ Registers
    <3>1. /\ UNCHANGED <<command, ingest, membership, astray>> /\ Seeded
          /\ proc'.todo = proc.todo /\ proc'.monitor = proc.monitor
      BY <1>1, <2>3 DEF Subscribes, Registers, Seeded, rows, tasks
    <3> QED
      BY <1>2, <3>1 DEF Held, WatchedNext, Confirmed, Open
  <2>4. CASE Dies
    BY <2>4 DEF Dies, Down, Watching, Seeded
  <2>5. ASSUME NEW g \in Groups, SeedsOne(g) PROVE Watching'
    <3>1. /\ UNCHANGED <<command, ingest, membership>> /\ Seeded /\ astray \subseteq astray'
          /\ proc.monitor \subseteq proc'.monitor
          /\ proc.todo \subseteq proc'.todo \cup proc'.monitor \cup astray'
      BY <1>1, <2>5 DEF SeedsOne, Seeded, rows, tasks
    <3> QED
      BY <1>2, <3>1 DEF Held, WatchedNext, Confirmed, Open
  <2> QED
    BY <1>8, <2>1, <2>2, <2>3, <2>4, <2>5 DEF Boot
<1>9. CASE Command
  <2>1. Listens /\ Seeded /\ proc'.at = proc.at /\ proc'.todo = proc.todo /\ UNCHANGED ingest
    BY <1>9, CommandFrame DEF MonitorInv, Seeded, Listens
  <2>2. /\ command.kind \in {"leave", "backfill"} => command.at # "watch"
        /\ command.at \in {"record", "watch"} => command.group \in Groups
        /\ command.kind = "leave" => command.group \in Groups
    BY DEF TypeOK, ProcessType, Commands, BackfillCommand, NoCommand
  <2>3. ASSUME astray \subseteq astray', proc.monitor \subseteq proc'.monitor, UNCHANGED membership,
               command.at = "watch" => command.group \in astray' \cup proc'.monitor
        PROVE  Watching'
    BY <1>2, <2>1, <2>3 DEF Held, WatchedNext, Confirmed, Open
  <2>4. CASE Takes
    BY <2>3, <2>4 DEF Takes, NoCommand, rows
  <2>5. CASE Joins \/ StaysIn \/ (\E o \in {"requested", "idle"} : JoinRefused(o))
             \/ (\E b \in Backfills : StartsBackfill(b))
    BY <2>2, <2>3, <2>5 DEF Joins, StaysIn, JoinRefused, StartsBackfill, rows
  <2>6. CASE Watches
    <3>1. proc'.monitor = proc.monitor \cup {command.group} /\ UNCHANGED <<astray, membership>>
      BY <1>1, <2>6 DEF Watches, Watch, rows
    <3> QED
      BY <2>3, <3>1
  <2>7. CASE JoinUnwatched
    BY <2>3, <2>7 DEF JoinUnwatched, rows
  <2>8. CASE Records
    <3>1. /\ UNCHANGED <<proc, astray>> /\ command.at = "record"
          /\ UNCHANGED membership \/ (command'.at = "watch" /\ command'.group = command.group
                                      /\ \A g \in Groups : g # command.group => membership'[g] = membership[g])
      <4>1. command \in [kind : {"join"}, group : Groups, at : {"record", "watch"}]
        BY <2>8 DEF Records, TypeOK, ProcessType, Commands, BackfillCommand, NoCommand
      <4>2. DEFINE r == [command EXCEPT !.at = "watch"]
      <4>3. r.at = "watch" /\ r.group = command.group
        BY <4>1
      <4> HIDE DEF r
      <4> QED
        BY <1>1, <2>8, <4>3 DEF Records, OpensMembership, rows, r
    <3> QED
      BY <1>2, <2>1, <3>1 DEF Held, WatchedNext, Confirmed, Open
  <2>9. CASE Departs
    <3>1. /\ proc'.monitor = proc.monitor \ {command.group} /\ astray \subseteq astray' /\ UNCHANGED membership
          /\ Open(command.group) => command.group \in astray'
          /\ command.at # "watch"
      BY <1>1, <2>2, <2>9 DEF Departs, Departed, rows
    <3> QED
      BY <1>2, <2>1, <3>1 DEF Held, WatchedNext, Confirmed, Open
  <2>10. ASSUME NEW g \in Groups, Probes(g) PROVE Watching'
    <3>1. /\ astray' = astray \cup {g} /\ UNCHANGED <<proc, command>>
          /\ \A h \in Groups : h # g => membership'[h] = membership[h]
      BY <1>1, <2>10 DEF Probes, OpensMembership, process
    <3> QED
      BY <1>2, <2>1, <3>1 DEF Held, WatchedNext, Confirmed, Open
  <2> QED
    BY <1>9, <2>4, <2>5, <2>6, <2>7, <2>8, <2>9, <2>10 DEF Command
<1>10. CASE MessageStep
  <2>1. ASSUME NEW m \in Messages, Confirms(m) PROVE Watching'
    <3>1. /\ UNCHANGED <<proc, command, astray>> /\ ingest'[m].at = "watch"
          /\ \A n \in Messages : n # m => ingest'[n] = ingest[n]
          /\ \A h \in Groups : h # GroupOf[m] => membership'[h] = membership[h]
      <4>1. m \in Tasks /\ Goes(m, "watch", FALSE)
        BY <1>1, <2>1 DEF Confirms, At
      <4>2. ingest'[m].at = "watch" /\ \A n \in Messages : n # m => ingest'[n] = ingest[n]
        BY <1>1, <4>1, TaskMoves
      <4>3. UNCHANGED <<proc, command, astray>> /\ OpensMembership(GroupOf[m], FALSE)
        BY <2>1 DEF Confirms, process
      <4> QED
        BY <1>1, <4>2, <4>3 DEF OpensMembership
    <3>2. \A h \in Groups : (h = GroupOf[m] \/ Confirmed(h)) => Confirmed(h)'
      BY <1>1, <3>1 DEF Confirmed
    <3> QED
      BY <1>2, <3>1, <3>2 DEF Held, Seeded, WatchedNext, Open
  <2>2. ASSUME NEW m \in Messages, WatchesConfirmed(m) PROVE Watching'
    <3>1. /\ UNCHANGED <<command, membership>> /\ proc'.monitor = proc.monitor \cup {GroupOf[m]}
          /\ proc'.at = proc.at /\ proc'.todo = proc.todo /\ astray \subseteq astray'
          /\ \A n \in Messages : n # m => ingest'[n] = ingest[n]
      BY <1>1, <2>2, TaskMoves DEF WatchesConfirmed, Watch, At, rows
    <3>2. \A h \in Groups : Confirmed(h) => h = GroupOf[m] \/ Confirmed(h)'
      BY <1>1, <3>1 DEF Confirmed
    <3> QED
      BY <1>2, <3>1, <3>2 DEF Held, Seeded, WatchedNext, Open
  <2>3. ASSUME NEW m \in Messages, Gates(m) PROVE Watching'
    <3>1. UNCHANGED <<proc, command, membership, astray>> /\ ingest[m].at = "gate"
      BY <2>3 DEF Gates, rows, process
    <3>2. \A n \in Messages : n # m => ingest'[n] = ingest[n]
      BY <1>1, <2>3, TaskMoves, TaskEnds DEF Gates, At
    <3>3. \A h \in Groups : Confirmed(h) => Confirmed(h)'
      BY <3>1, <3>2 DEF Confirmed
    <3> QED
      BY <1>2, <3>1, <3>3 DEF Held, Seeded, WatchedNext, Open
  <2> QED
    BY <1>10, <2>1, <2>2, <2>3 DEF MessageStep
<1>11. CASE TaskStep
  <2>1. /\ UNCHANGED <<membership, proc, command>> /\ astray \subseteq astray'
        /\ \E t \in Tasks : /\ \A u \in Tasks : u # t => ingest'[u] = ingest[u]
                            /\ ingest[t].at = "watch" => GroupOf[ingest[t].msg] \in astray'
    BY <1>11, TaskFrame
  <2>2. \A m \in Messages : ingest[m].at = "watch" => ingest[m].msg = m
    BY DEF TypeOK, TasksType, NoTask
  <2>3. \A h \in Groups : Confirmed(h) => h \in astray' \/ Confirmed(h)'
    BY <1>1, <2>1, <2>2 DEF Confirmed
  <2> QED
    BY <1>2, <2>1, <2>3 DEF Held, Seeded, WatchedNext, Open
<1>12. ASSUME NEW b \in Backfills, NEW m \in Messages, NextMessage(b, m) PROVE Watching'
  <2>1. UNCHANGED <<proc, command, membership, astray>> /\ \A n \in Messages : ingest'[n] = ingest[n]
    BY <1>1, <1>12 DEF NextMessage, process, rows
  <2>2. \A h \in Groups : Confirmed(h) => Confirmed(h)'
    BY <2>1 DEF Confirmed
  <2> QED
    BY <1>2, <2>1, <2>2 DEF Held, Seeded, WatchedNext, Open
<1>13. CASE UNCHANGED watched
  BY <1>3, <1>13 DEF watched, Open
<1> QED
  BY <1>4, <1>5, <1>6, <1>7, <1>8, <1>9, <1>10, <1>11, <1>12, <1>13, MonitorFrame

LEMMA LeavingStays == TypeOK /\ MonitorInv /\ Next => Leaving'
<1> SUFFICES ASSUME TypeOK, MonitorInv, Next PROVE Leaving'
  OBVIOUS
<1>1. /\ proc \in [at : {"down", "boot", "seed", "subscribed", "ready"}, todo : SUBSET Groups, monitor : SUBSET Groups]
      /\ membership \in [Groups -> {"none", "open", "closed"}]
      /\ leaving \in [Groups -> {"no", "closed", "told"}]
      /\ queue \in Seq(Commands)
  BY DEF TypeOK, WorldType, ProcessType
<1>2. ASSUME Seeded' => Seeded,
             \A g \in Groups : ~Open(g)' /\ Kept(g)' => (~Open(g) /\ Kept(g) /\ ~Excused(g)) \/ Excused(g)'
      PROVE  Leaving'
  BY <1>2 DEF MonitorInv, Leaving
<1>3. \A g \in Groups : /\ LeaveCommand(g) \in Commands /\ JoinCommand(g) \in Commands
                        /\ LeaveCommand(g).group = g /\ LeaveCommand(g).kind = "leave" /\ LeaveCommand(g).at = "run"
  BY DEF LeaveCommand, JoinCommand, Commands
<1>4. BackfillCommand \in Commands
  BY DEF Commands
<1>5. \A c \in Commands : Publish(c) => \A g \in Groups : command' = command /\ LeaveAhead(g) => LeaveAhead(g)'
  BY PublishAppends DEF LeaveAhead
<1>6. ASSUME NEW g \in Groups, Closes(g) PROVE Leaving'
  <2>1. /\ UNCHANGED <<proc, command, queue, astray>>
        /\ \A h \in Groups : h # g => leaving'[h] = leaving[h] /\ membership'[h] = membership[h]
        /\ Open(g) => leaving'[g] = "closed"
        /\ leaving[g] = "no"
    BY <1>1, <1>6 DEF Closes, process
  <2> QED
    BY <1>2, <2>1 DEF Kept, Excused, Seeded, Open, WatchedNext, LeaveAhead
<1>7. ASSUME NEW g \in Groups, Tells(g) PROVE Leaving'
  <2>1. /\ UNCHANGED <<proc, command, membership>> /\ astray \subseteq astray'
        /\ \A h \in Groups : h # g => leaving'[h] = leaving[h]
        /\ Room \/ g \in astray'
        /\ Publish(LeaveCommand(g))
    BY <1>1, <1>7 DEF Tells, rows
  <2>2. Room => LeaveAhead(g)'
    BY <1>3, <1>7, PublishAppends DEF Tells, LeaveAhead
  <2>3. \A h \in Groups : LeaveAhead(h) => LeaveAhead(h)'
    BY <1>3, <1>5, <1>7 DEF Tells
  <2> QED
    BY <1>2, <2>1, <2>2, <2>3 DEF Kept, Excused, Seeded, Open, WatchedNext
<1>8. ASSUME NEW g \in Groups, Parks(g) \/ LeaveStops(g) PROVE Leaving'
  <2>1. /\ UNCHANGED <<proc, command, queue, membership>> /\ astray \subseteq astray'
        /\ \A h \in Groups : h # g => leaving'[h] = leaving[h]
        /\ leaving[g] = "closed" => g \in astray'
    BY <1>1, <1>8 DEF Parks, LeaveStops, rows, process
  <2> QED
    BY <1>2, <2>1 DEF Kept, Excused, Seeded, Open, WatchedNext, LeaveAhead
<1>9. CASE SendsBackfill \/ \E g \in Groups : SendsJoin(g)
  <2>1. UNCHANGED <<proc, command, membership, leaving, astray>>
    BY <1>9 DEF SendsBackfill, SendsJoin, rows
  <2>2. \E c \in Commands : Publish(c)
    BY <1>3, <1>4, <1>9 DEF SendsBackfill, SendsJoin
  <2>3. \A h \in Groups : LeaveAhead(h) => LeaveAhead(h)'
    BY <1>5, <2>1, <2>2
  <2> QED
    BY <1>2, <2>1, <2>3 DEF Kept, Excused, Seeded, Open, WatchedNext
<1>10. ASSUME UNCHANGED <<proc, command, queue, membership, leaving>>, astray \subseteq astray' PROVE Leaving'
  BY <1>2, <1>10 DEF Kept, Excused, Seeded, Open, WatchedNext, LeaveAhead
<1>11. CASE Boot
  <2>1. CASE Spawns
    BY <1>1, <2>1 DEF Spawns, Leaving, Seeded
  <2>2. CASE Seeds
    <3>1. /\ proc'.todo = {g \in Groups : Open(g)} /\ proc'.monitor = {} /\ UNCHANGED membership
          /\ command' = NoCommand
      BY <1>1, <2>2 DEF Seeds, rows, MonitorInv, ProcessStages, Seeded, Listens
    <3> QED
      BY <3>1 DEF Leaving, Kept, WatchedNext, NoCommand, Open
  <2>3. CASE Subscribes \/ Registers
    <3>1. /\ UNCHANGED <<command, queue, membership, leaving, astray>> /\ Seeded
          /\ proc'.todo = proc.todo /\ proc'.monitor = proc.monitor
      BY <1>1, <2>3 DEF Subscribes, Registers, Seeded, rows
    <3> QED
      BY <1>2, <3>1 DEF Kept, Excused, WatchedNext, LeaveAhead, Open
  <2>4. CASE Dies
    BY <2>4 DEF Dies, Down, Leaving, Seeded
  <2>5. ASSUME NEW g \in Groups, SeedsOne(g) PROVE Leaving'
    <3>1. /\ UNCHANGED <<command, queue, membership, leaving>> /\ Seeded /\ astray \subseteq astray'
          /\ proc'.todo \cup proc'.monitor \subseteq proc.todo \cup proc.monitor
      BY <1>1, <2>5 DEF SeedsOne, Seeded, rows
    <3> QED
      BY <1>2, <3>1 DEF Kept, Excused, WatchedNext, LeaveAhead, Open
  <2> QED
    BY <1>11, <2>1, <2>2, <2>3, <2>4, <2>5 DEF Boot
<1>12. CASE Command
  <2>1. /\ Listens /\ Seeded /\ proc'.at = proc.at /\ proc'.todo = proc.todo /\ proc.todo = {}
        /\ UNCHANGED leaving
    BY <1>12, CommandFrame DEF MonitorInv, ProcessStages, Seeded, Listens
  <2>2. /\ command.at \in {"record", "watch"} => command.group \in Groups /\ command.kind = "join"
        /\ command.kind = "leave" => command.group \in Groups
    BY DEF TypeOK, ProcessType, Commands, BackfillCommand, NoCommand
  <2>3. \A g \in Groups : command = LeaveCommand(g) => command.kind = "leave" /\ command.group = g
    BY <1>3
  <2>4. ASSUME UNCHANGED <<proc, membership, queue>>, astray \subseteq astray', command'.at = "watch" => command' = command,
               command.kind = "leave" => command.group \in astray' \/ command' = command
        PROVE  Leaving'
    <3>1. \A g \in Groups : Kept(g)' => Kept(g)
      BY <2>4 DEF Kept, WatchedNext
    <3>2. \A g \in Groups : Excused(g) => Excused(g)'
      BY <2>1, <2>3, <2>4 DEF Excused, LeaveAhead
    <3> QED
      BY <1>2, <2>1, <2>4, <3>1, <3>2 DEF Open
  <2>5. NoCommand.at # "watch" /\ NoCommand.kind # "leave"
    BY DEF NoCommand
  <2>6. CASE Takes
    <3>1. /\ UNCHANGED <<proc, membership, astray>> /\ command = NoCommand /\ queue # <<>>
          /\ command' = Head(queue) /\ queue' = Tail(queue)
      BY <2>6 DEF Takes, rows
    <3>2. command'.at = "run"
      <4>1. Head(queue) \in Commands
        BY <1>1, <3>1
      <4> QED
        BY <3>1, <4>1 DEF Commands, BackfillCommand
    <3>3. ASSUME NEW g \in Groups, LeaveAhead(g) PROVE LeaveAhead(g)'
      <4>1. PICK i \in 1..Len(queue) : queue[i] = LeaveCommand(g)
        BY <2>3, <2>5, <3>1, <3>3 DEF LeaveAhead
      <4>2. CASE i = 1
        BY <1>1, <3>1, <4>1, <4>2 DEF LeaveAhead, LeaveCommand
      <4>3. CASE i # 1
        <5>1. i - 1 \in 1..Len(queue') /\ queue'[i - 1] = LeaveCommand(g)
          BY <1>1, <3>1, <4>1, <4>3
        <5>2. queue'[i - 1] = LeaveCommand(g)'
          BY <5>1 DEF LeaveCommand
        <5> QED
          BY <5>1, <5>2 DEF LeaveAhead
      <4> QED
        BY <4>2, <4>3
    <3> QED
      BY <1>2, <2>1, <3>1, <3>2, <3>3 DEF Kept, Excused, WatchedNext, Open
  <2>7. CASE Joins
    <3>1. /\ UNCHANGED <<proc, membership, queue, astray>> /\ command.kind = "join"
          /\ command' = [command EXCEPT !.at = "record"]
      BY <2>7 DEF Joins, rows
    <3>2. command'.at = "record"
      <4>1. command \in [kind : {"join"}, group : Groups, at : {"run", "record", "watch"}]
        BY <3>1 DEF TypeOK, ProcessType, Commands, BackfillCommand, NoCommand
      <4> QED
        BY <3>1, <4>1
    <3> QED
      BY <2>4, <3>1, <3>2
  <2>8. CASE JoinUnwatched \/ StaysIn \/ (\E o \in {"requested", "idle"} : JoinRefused(o))
             \/ (\E b \in Backfills : StartsBackfill(b))
    <3>1. /\ UNCHANGED <<proc, membership, queue>> /\ astray \subseteq astray' /\ command' = NoCommand
          /\ command.kind = "leave" => command.group \in astray'
      BY <2>2, <2>8 DEF JoinUnwatched, StaysIn, JoinRefused, StartsBackfill, rows
    <3> QED
      BY <2>4, <2>5, <3>1
  <2>9. CASE Watches
    <3>1. /\ UNCHANGED <<astray, membership, queue>> /\ command' = NoCommand /\ command.at = "watch"
          /\ proc'.monitor = proc.monitor \cup {command.group}
      BY <1>1, <2>9 DEF Watches, Watch, rows
    <3>2. \A g \in Groups : Kept(g)' => Kept(g)
      BY <2>1, <2>5, <3>1 DEF Kept, WatchedNext
    <3>3. \A g \in Groups : Excused(g) => Excused(g)'
      BY <2>1, <2>2, <2>3, <3>1 DEF Excused, LeaveAhead, LeaveCommand
    <3> QED
      BY <1>2, <2>1, <3>1, <3>2, <3>3 DEF Open
  <2>10. CASE Records
    <3>1. /\ UNCHANGED <<proc, astray, queue>> /\ command.at = "record"
          /\ (UNCHANGED membership /\ command' = NoCommand)
             \/ (command'.group = command.group /\ membership'[command.group] = "open"
                 /\ \A g \in Groups : g # command.group => membership'[g] = membership[g])
      <4>1. command \in [kind : {"join"}, group : Groups, at : {"record", "watch"}]
        BY <2>10 DEF Records, TypeOK, ProcessType, Commands, BackfillCommand, NoCommand
      <4> DEFINE r == [command EXCEPT !.at = "watch"]
      <4>2. r.group = command.group /\ command.group \in Groups
        BY <4>1
      <4> HIDE DEF r
      <4> QED
        BY <1>1, <2>10, <4>2 DEF Records, OpensMembership, rows, r
    <3>2. ASSUME NEW g \in Groups, ~Open(g)' PROVE ~Open(g) /\ (Kept(g)' => Kept(g))
      BY <2>1, <2>5, <3>1, <3>2 DEF Kept, WatchedNext, Open
    <3>3. \A g \in Groups : Excused(g) => Excused(g)'
      BY <2>1, <2>2, <2>3, <3>1 DEF Excused, LeaveAhead, LeaveCommand
    <3> QED
      BY <1>2, <2>1, <3>2, <3>3
  <2>11. CASE Departs
    <3>1. /\ proc'.monitor = proc.monitor \ {command.group} /\ UNCHANGED <<membership, queue>>
          /\ astray \subseteq astray' /\ command' = NoCommand
      BY <1>1, <2>11 DEF Departs, Departed, rows
    <3>2. \A g \in Groups : Kept(g)' => Kept(g) /\ g # command.group
      BY <2>1, <2>5, <3>1 DEF Kept, WatchedNext
    <3>3. \A g \in Groups : g # command.group /\ Excused(g) => Excused(g)'
      BY <2>1, <2>3, <3>1 DEF Excused, LeaveAhead, LeaveCommand
    <3> QED
      BY <1>2, <2>1, <3>1, <3>2, <3>3 DEF Open
  <2>12. ASSUME NEW g \in Groups, Probes(g) PROVE Leaving'
    <3>1. /\ UNCHANGED <<proc, command, queue, leaving>> /\ astray' = astray \cup {g}
          /\ \A h \in Groups : h # g => membership'[h] = membership[h]
      BY <1>1, <2>12 DEF Probes, OpensMembership, process
    <3> QED
      BY <1>2, <2>1, <3>1 DEF Kept, Excused, WatchedNext, LeaveAhead, Open
  <2> QED
    BY <1>12, <2>6, <2>7, <2>8, <2>9, <2>10, <2>11, <2>12 DEF Command
<1>13. CASE MessageStep
  <2>1. ASSUME NEW m \in Messages, Confirms(m) PROVE Leaving'
    <3>1. GroupOf[m] \in Groups
      BY IntakeConstants
    <3>2. /\ UNCHANGED <<proc, command, queue, leaving, astray>>
          /\ \A h \in Groups : membership'[h] = membership[h] \/ membership'[h] = "open"
      BY <1>1, <2>1, <3>1 DEF Confirms, OpensMembership, process
    <3> QED
      BY <1>2, <3>2 DEF Kept, Excused, Seeded, WatchedNext, LeaveAhead, Open
  <2>2. ASSUME NEW m \in Messages, WatchesConfirmed(m) PROVE Leaving'
    <3>1. /\ UNCHANGED <<command, queue, leaving, membership>> /\ astray \subseteq astray'
          /\ Open(GroupOf[m]) \/ GroupOf[m] \in astray'
          /\ proc'.monitor = proc.monitor \cup {GroupOf[m]} /\ proc'.at = proc.at /\ proc'.todo = proc.todo
      BY <1>1, <2>2 DEF WatchesConfirmed, Watch, rows
    <3> QED
      BY <1>2, <3>1 DEF Kept, Excused, Seeded, WatchedNext, LeaveAhead, Open
  <2>3. ASSUME NEW m \in Messages, Gates(m) PROVE Leaving'
    BY <1>10, <2>3 DEF Gates, rows, process
  <2> QED
    BY <1>13, <2>1, <2>2, <2>3 DEF MessageStep
<1>14. CASE TaskStep
  BY <1>10, <1>14, TaskFrame
<1>15. CASE Posts \/ \E b \in Backfills, m \in Messages : NextMessage(b, m)
  BY <1>10, <1>15 DEF Posts, NextMessage, rows, process
<1>16. CASE UNCHANGED watched
  BY <1>10, <1>16 DEF watched
<1> QED
  BY <1>6, <1>7, <1>8, <1>9, <1>11, <1>12, <1>13, <1>14, <1>15, <1>16, MonitorFrame

\* Excuses apart, a process with nothing on its way watches the groups of its open
\* memberships, however joins, confirmations, leaves and restarts fall between.
THEOREM MonitorFollowsMembershipHolds == Spec => []MonitorFollowsMembership
<1>1. Init => MonitorInv
  BY DEF Init, Down, NoCommand, MonitorInv, ProcessStages, Watching, Leaving, Seeded, Listens, Tasks
<1>2. TypeOK /\ MonitorInv /\ [Next]_vars => MonitorInv'
  <2>1. MonitorInv /\ UNCHANGED vars => MonitorInv'
    <3> SUFFICES ASSUME MonitorInv, UNCHANGED vars PROVE MonitorInv'
      OBVIOUS
    <3>1. UNCHANGED watched
      BY DEF vars, rows, tasks, process, watched
    <3> QED
      BY <3>1 DEF watched, MonitorInv, ProcessStages, Watching, Leaving, Seeded, Listens, Held, Kept, Excused,
         Open, WatchedNext, Confirmed, LeaveAhead
  <2> QED
    BY <2>1, ProcessStagesStays, WatchingStays, LeavingStays DEF MonitorInv
<1>3. TypeOK /\ MonitorInv => MonitorFollowsMembership
  <2> SUFFICES ASSUME TypeOK, MonitorInv, NEW g \in Groups, Settled(g)
      PROVE  (g \in proc.monitor <=> Open(g)) \/ g \in astray
    BY DEF MonitorFollowsMembership
  <2>1. Seeded /\ Listens /\ proc.todo = {}
    BY DEF MonitorInv, ProcessStages, Settled, Seeded, Listens
  <2>2. ~WatchedNext(g) /\ ~Confirmed(g) /\ ~LeaveAhead(g) /\ leaving[g] = "no"
    BY DEF Settled, WatchedNext, Confirmed, LeaveAhead, LeaveCommand, NoCommand
  <2> QED
    BY <2>1, <2>2 DEF MonitorInv, Watching, Leaving, Held, Kept, Excused
<1> QED
  BY <1>1, <1>2, <1>3, TypeStarts, TypeStays, PTL DEF Spec

=============================================================================
