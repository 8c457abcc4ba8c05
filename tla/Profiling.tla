------------------------------ MODULE Profiling ------------------------------
(***************************************************************************)
(* From an actor's messages to the actor's profile.                        *)
(*                                                                         *)
(* The collector stores a message and publishes it, again when a backfill  *)
(* meets it again.  The sensor starts a task for each delivery: it reads   *)
(* the cursors of its primitives, computes each over the messages since    *)
(* its cursor, publishes every observation at once, and writes the rows    *)
(* and then the cursors at the end.  The engine starts a task for each     *)
(* observation: it looks for the row, a second time after a pause, reads   *)
(* the current profile and writes the next version.  The bus promises      *)
(* nothing, and every task can fail on its own.                            *)
(*                                                                         *)
(* One actor; primitives that have a slot and read the messages since a    *)
(* cursor (those that read the whole corpus make no use of theirs); how a  *)
(* value, a role or a body is computed is left out.                        *)
(***************************************************************************)
EXTENDS Naturals, Sequences

CONSTANTS
  Messages,    \* the actor's messages, numbered as their rows' ids are ordered
  SentAt,      \* the time the platform gives each message
  Flagged,     \* the messages that repeat a template flagged as copypasta
  PRIMITIVES,  \* the sensor's primitives, in order
  Dispatches,  \* bound: the deliveries of messages
  MaxFaults    \* bound: failures and crashes

ASSUME ProfilingConstants ==
  /\ Messages \subseteq Nat \ {0} /\ Flagged \subseteq Messages
  /\ SentAt \in [Messages -> Nat \ {0}]
  /\ PRIMITIVES \in Seq({PRIMITIVES[i] : i \in 1..Len(PRIMITIVES)})
  /\ MaxFaults \in Nat

VARIABLES
  stored,     \* messages in the store
  late,       \* history: those stored after one with a later time
  cursor,     \* corpus_cursor: last message processed, by primitive
  sensor,     \* the sensor's tasks
  observed,   \* the observations, in the order of observed_at
  persisted,  \* those whose row is written
  engine,     \* the engine's tasks: one for each observation
  profiles,   \* the versions of the profile, in the order they were written
  faults      \* failures and crashes so far

vars == <<stored, late, cursor, sensor, observed, persisted, engine, profiles, faults>>

-----------------------------------------------------------------------------
(* State. *)

Primitives == {PRIMITIVES[i] : i \in 1..Len(PRIMITIVES)}
NoMessage == 0   \* _NULL_UUID, at the epoch
NoRow == 0

Time(m) == IF m = NoMessage THEN 0 ELSE SentAt[m]

\* A task of the sensor.  since: the cursors it read; next: the primitive it is
\* at; done: its observations.
Idle == [at |-> "free", msg |-> NoMessage, since |-> [p \in Primitives |-> NoMessage],
         next |-> 1, done |-> {}]

\* A task of the engine.  row: the row it found; prev: the version it read.
Lost == [at |-> "gone", row |-> NoRow, prev |-> 0]

Init ==
  /\ stored = {} /\ late = {}
  /\ cursor = [p \in Primitives |-> NoMessage]
  /\ sensor = [d \in Dispatches |-> Idle]
  /\ observed = <<>> /\ persisted = {} /\ engine = <<>>
  /\ profiles = <<>>
  /\ faults = 0

\* The bus drops, a call raises, a process dies.
Fault == faults < MaxFaults /\ faults' = faults + 1

-----------------------------------------------------------------------------
(* The collector. *)

\* Mutant of Ingest: published before it is stored, which may then fail.
IngestPublishesFirst(m, d) ==
  /\ sensor[d] = Idle
  /\ late' = IF m \notin stored /\ \E n \in stored : SentAt[n] > SentAt[m]
             THEN late \cup {m} ELSE late
  /\ sensor' = [sensor EXCEPT ![d].at = "gate", ![d].msg = m]
  /\ \/ stored' = stored \cup {m} /\ UNCHANGED faults
     \/ Fault /\ UNCHANGED stored
  /\ UNCHANGED <<cursor, observed, persisted, engine, profiles>>

\* _ingest_msg: put_message, which a message that is stored already survives,
\* and publish in any case.
Ingest(m, d) ==
  /\ sensor[d] = Idle
  /\ stored' = stored \cup {m}
  /\ late' = IF m \notin stored /\ \E n \in stored : SentAt[n] > SentAt[m]
             THEN late \cup {m} ELSE late
  /\ \/ sensor' = [sensor EXCEPT ![d].at = "gate", ![d].msg = m] /\ UNCHANGED faults
     \/ Fault /\ UNCHANGED sensor
  /\ UNCHANGED <<cursor, observed, persisted, engine, profiles>>

-----------------------------------------------------------------------------
(* The sensor. *)

Ends(d) == sensor' = [sensor EXCEPT ![d] = [Idle EXCEPT !.at = "over"]]

\* _process, up to the copypasta gate.
Gate(d) ==
  /\ sensor[d].at = "gate"
  /\ IF sensor[d].msg \in Flagged THEN Ends(d) ELSE sensor' = [sensor EXCEPT ![d].at = "cursors"]
  /\ UNCHANGED <<stored, late, cursor, observed, persisted, engine, profiles, faults>>

\* get_cursors_bulk, once for all primitives.
ReadCursors(d) ==
  /\ sensor[d].at = "cursors"
  /\ sensor' = [sensor EXCEPT ![d].at = "compute", ![d].since = cursor]
  /\ UNCHANGED <<stored, late, cursor, observed, persisted, engine, profiles, faults>>

\* iter_corpus_since.
Window(since) == {m \in stored : SentAt[m] >= Time(since) /\ m # since}

\* The last message of a window, if there is one.
Newest(window) ==
  {m \in window :
     \A n \in window : SentAt[n] < SentAt[m] \/ (SentAt[n] = SentAt[m] /\ n <= m)}

\* A primitive that is not too short and does not raise is published at once, to
\* a task of the engine or to nobody; its row waits for the end of the loop.
Compute(d) ==
  /\ sensor[d].at = "compute" /\ sensor[d].next <= Len(PRIMITIVES)
  /\ LET p == PRIMITIVES[sensor[d].next]
         window == Window(sensor[d].since[p])
     IN \/ /\ sensor' = [sensor EXCEPT ![d].next = @ + 1]
           /\ UNCHANGED <<observed, engine, faults>>
        \/ /\ \E m \in Newest(window) :
                observed' = Append(observed, [primitive |-> p, ref |-> m, window |-> window])
           /\ sensor' = [sensor EXCEPT ![d].next = @ + 1, ![d].done = @ \cup {Len(observed) + 1}]
           /\ \/ engine' = Append(engine, [Lost EXCEPT !.at = "find"]) /\ UNCHANGED faults
              \/ engine' = Append(engine, Lost) /\ Fault
  /\ UNCHANGED <<stored, late, cursor, persisted, profiles>>

\* put_observations_bulk.
PutRows(d) ==
  /\ sensor[d].at = "compute" /\ sensor[d].next > Len(PRIMITIVES)
  /\ IF sensor[d].done = {} THEN Ends(d) ELSE sensor' = [sensor EXCEPT ![d].at = "advance"]
  /\ persisted' = persisted \cup sensor[d].done
  /\ UNCHANGED <<stored, late, cursor, observed, engine, profiles, faults>>

\* The cursors after task d: those of the primitives that gave an observation
\* move to the message of the delivery.
Moved(d) ==
  LET computed == {observed[i].primitive : i \in sensor[d].done}
  IN [p \in Primitives |-> IF p \in computed THEN sensor[d].msg ELSE cursor[p]]

\* set_cursors_bulk.
Advance(d) ==
  /\ sensor[d].at = "advance"
  /\ cursor' = Moved(d)
  /\ Ends(d)
  /\ UNCHANGED <<stored, late, observed, persisted, engine, profiles, faults>>

Working(d) == sensor[d].at \notin {"free", "over"}

\* Mutant of Raises: the cursors are moved in a finally clause.
RaisesFinally(d) ==
  /\ Working(d) /\ Fault /\ Ends(d)
  /\ cursor' = Moved(d)
  /\ UNCHANGED <<stored, late, observed, persisted, engine, profiles>>

\* A task ends with an exception.
Raises(d) ==
  /\ Working(d) /\ Fault /\ Ends(d)
  /\ UNCHANGED <<stored, late, cursor, observed, persisted, engine, profiles>>

\* The sensor's process dies with its tasks.
SensorCrash ==
  /\ \E d \in Dispatches : Working(d)
  /\ Fault
  /\ sensor' = [d \in Dispatches |-> IF Working(d) THEN [Idle EXCEPT !.at = "over"] ELSE sensor[d]]
  /\ UNCHANGED <<stored, late, cursor, observed, persisted, engine, profiles>>

-----------------------------------------------------------------------------
(* The engine. *)

\* observation_by_evidence_and_primitive: the newest row of that evidence.
RowsFor(i) ==
  {j \in persisted : observed[j].primitive = observed[i].primitive /\ observed[j].ref = observed[i].ref}

Latest(rows) == {j \in rows : \A k \in rows : k <= j}

\* Mutant of Find: the observation is used as it was announced.
FindAnyway(i) ==
  /\ engine[i].at \in {"find", "again"}
  /\ engine' = [engine EXCEPT ![i].at = "read", ![i].row = i]
  /\ UNCHANGED <<stored, late, cursor, sensor, observed, persisted, profiles, faults>>

\* The row is looked for twice, with a pause between.
Find(i) ==
  /\ engine[i].at \in {"find", "again"}
  /\ \/ \E j \in Latest(RowsFor(i)) :
          engine' = [engine EXCEPT ![i].at = "read", ![i].row = j]
     \/ /\ RowsFor(i) = {}
        /\ engine' = [engine EXCEPT ![i] =
             IF @.at = "find" THEN [@ EXCEPT !.at = "again"] ELSE Lost]
  /\ UNCHANGED <<stored, late, cursor, sensor, observed, persisted, profiles, faults>>

\* get_current_profile; the candidate is published before anything is written.
ReadProfile(i) ==
  /\ engine[i].at = "read"
  /\ engine' = [engine EXCEPT ![i].at = "write", ![i].prev = Len(profiles)]
  /\ UNCHANGED <<stored, late, cursor, sensor, observed, persisted, profiles, faults>>

Previous(i) ==
  IF engine[i].prev = 0 THEN [version |-> 0, slots |-> [p \in Primitives |-> NoRow]]
  ELSE profiles[engine[i].prev]

\* _build_next_profile: the version that was read, with one slot replaced.
NextProfile(i) ==
  [version |-> Previous(i).version + 1,
   slots |-> [Previous(i).slots EXCEPT ![observed[engine[i].row].primitive] = engine[i].row]]

\* _materially_differs: the first version always does.  Another row may hold the
\* value of the slot or none, and the role may change with the number of
\* observations alone.
WriteProfile(i) ==
  /\ engine[i].at = "write"
  /\ \/ profiles' = Append(profiles, NextProfile(i))
     \/ engine[i].prev # 0 /\ UNCHANGED profiles
  /\ engine' = [engine EXCEPT ![i] = Lost]
  /\ UNCHANGED <<stored, late, cursor, sensor, observed, persisted, faults>>

\* An observation that fails is skipped.
EngineFails(i) ==
  /\ engine[i] # Lost /\ Fault
  /\ engine' = [engine EXCEPT ![i] = Lost]
  /\ UNCHANGED <<stored, late, cursor, sensor, observed, persisted, profiles>>

-----------------------------------------------------------------------------

Next ==
  \/ \E m \in Messages, d \in Dispatches : Ingest(m, d)
  \/ \E d \in Dispatches :
       Gate(d) \/ ReadCursors(d) \/ Compute(d) \/ PutRows(d) \/ Advance(d) \/ Raises(d)
  \/ SensorCrash
  \/ \E i \in 1..Len(engine) : Find(i) \/ ReadProfile(i) \/ WriteProfile(i) \/ EngineFails(i)

Spec == Init /\ [][Next]_vars

-----------------------------------------------------------------------------
(* Properties. *)

Place(S) == S \cup {NoMessage}

\* A task, an observation, an update and a version, by what they may refer to:
\* messages S, n observations, v versions.
TaskOf(S, n) ==
  [at : {"free", "gate", "cursors", "compute", "advance", "over"}, msg : Place(S),
   since : [Primitives -> Place(S)], next : 1..(Len(PRIMITIVES) + 1), done : SUBSET (1..n)]
ObservationOf(S) == [primitive : Primitives, ref : S, window : SUBSET S]
UpdateOf(n, v) == [at : {"gone", "find", "again", "read", "write"}, row : 0..n, prev : 0..v]
VersionOf(n) == [version : Nat \ {0}, slots : [Primitives -> 0..n]]

StoreType ==
  /\ stored \subseteq Messages /\ late \subseteq stored
  /\ cursor \in [Primitives -> Place(stored)]
  /\ faults \in 0..MaxFaults
SensorType == sensor \in [Dispatches -> TaskOf(stored, Len(observed))]
ObservedType ==
  /\ observed \in Seq(ObservationOf(stored))
  /\ persisted \subseteq 1..Len(observed)
EngineType ==
  /\ engine \in Seq(UpdateOf(Len(observed), Len(profiles)))
  /\ Len(engine) = Len(observed)
ProfilesType == profiles \in Seq(VersionOf(Len(observed)))

\* Nothing refers to a message, a row or a version that does not exist: an
\* announcement is of a stored message, a slot of an observation that was made.
TypeOK == StoreType /\ SensorType /\ ObservedType /\ EngineType /\ ProfilesType

\* "Sensor uses corpus cursors for deduplication, not bus delivery": what a
\* cursor passes has been read.  A message behind the cursor of a primitive is in
\* the window of a row that is written, whichever tasks run at once, fail or die;
\* but for a message stored after a later one, which no delta reads.
PassedIsRead ==
  \A p \in Primitives : \A m \in stored \ late :
    m = cursor[p] \/ SentAt[m] < Time(cursor[p])
      => \E i \in persisted : observed[i].primitive = p /\ m \in observed[i].window

\* Every slot of every version can be traced to evidence: it names a written row
\* of its own primitive, though observations are announced before they are
\* written, and some never are.
SlotsHaveRows ==
  \A v \in 1..Len(profiles) : \A p \in Primitives :
    profiles[v].slots[p] # NoRow =>
      profiles[v].slots[p] \in persisted /\ observed[profiles[v].slots[p]].primitive = p

-----------------------------------------------------------------------------
(* What documents say and the model refutes; the README tells how.          *)

\* "Snapshot-per-update with monotonic version": each version that is written is
\* higher than those before it.
VersionsMonotonic ==
  \A v \in 1..Len(profiles), w \in 1..Len(profiles) :
    v < w => profiles[v].version < profiles[w].version

\* A message that repeats a flagged template "is skipped - it never pollutes an
\* actor's writing-style profile": no observation was computed over one.
TemplatesStayOut ==
  \A i \in persisted : observed[i].window \cap Flagged = {}
=============================================================================
