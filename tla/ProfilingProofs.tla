--------------------------- MODULE ProfilingProofs ---------------------------
(***************************************************************************)
(* Proofs about Profiling, for any messages, primitives, deliveries and    *)
(* failures.                                                               *)
(*                                                                         *)
(* A cursor is safe where everything behind it has been read, and stays so *)
(* as messages arrive: one that arrives behind it is late.  So a task may  *)
(* work from a cursor that others have moved since it read it.  What it    *)
(* computes covers everything behind its own message, which is where the   *)
(* cursor goes once the rows are written.                                  *)
(***************************************************************************)
EXTENDS Profiling, TLAPS

-----------------------------------------------------------------------------
(* The inductive invariant. *)

Passed(m, c) == m = c \/ SentAt[m] < Time(c)

\* A written row of the primitive was computed over the message.
Read(p, m) == \E i \in persisted : observed[i].primitive = p /\ m \in observed[i].window

\* A cursor of the primitive may stand at c.
Covered(p, c) == \A m \in stored \ late : Passed(m, c) => Read(p, m)

CursorsSafe == \A p \in Primitives : Covered(p, cursor[p])
SinceSafe == \A d \in Dispatches : \A p \in Primitives : Covered(p, sensor[d].since[p])

\* What a task has computed covers what its message will leave behind.
DoneSafe ==
  \A d \in Dispatches : \A i \in sensor[d].done : \A m \in stored \ late :
    Passed(m, sensor[d].msg) => m \in observed[i].window \/ Read(observed[i].primitive, m)

WrittenFirst == \A d \in Dispatches : sensor[d].at = "advance" => sensor[d].done \subseteq persisted

\* The engine works on written rows.
FoundRows ==
  \A i \in 1..Len(engine) :
    engine[i].at \in {"read", "write"} => engine[i].row \in persisted

ReadsSafe == CursorsSafe /\ SinceSafe /\ DoneSafe /\ WrittenFirst

-----------------------------------------------------------------------------
(* Types. *)

\* Whatever grows, what was of a type still is.
LEMMA TypesGrow ==
  ASSUME NEW S, NEW T, S \subseteq T, NEW n \in Nat, NEW m \in Nat, n <= m,
         NEW v \in Nat, NEW w \in Nat, v <= w
  PROVE  /\ TaskOf(S, n) \subseteq TaskOf(T, m)
         /\ ObservationOf(S) \subseteq ObservationOf(T)
         /\ UpdateOf(n, v) \subseteq UpdateOf(m, w)
         /\ VersionOf(n) \subseteq VersionOf(m)
<1>1. Place(S) \subseteq Place(T) /\ 1..n \subseteq 1..m /\ 0..n \subseteq 0..m /\ 0..v \subseteq 0..w
  BY DEF Place
<1>2. [Primitives -> Place(S)] \subseteq [Primitives -> Place(T)]
  BY <1>1
<1>3. [Primitives -> 0..n] \subseteq [Primitives -> 0..m]
  BY <1>1
<1>4. TaskOf(S, n) \subseteq TaskOf(T, m)
  BY <1>1, <1>2 DEF TaskOf
<1>5. ObservationOf(S) \subseteq ObservationOf(T)
  BY DEF ObservationOf
<1>6. UpdateOf(n, v) \subseteq UpdateOf(m, w)
  BY <1>1 DEF UpdateOf
<1>7. VersionOf(n) \subseteq VersionOf(m)
  BY <1>3 DEF VersionOf
<1> QED
  BY <1>4, <1>5, <1>6, <1>7

\* A step that writes no entry of its own, and lets the counts grow.
Grows ==
  /\ stored \subseteq stored' /\ Len(observed) \in Nat /\ Len(observed') \in Nat
  /\ Len(observed) <= Len(observed')
  /\ Len(profiles) \in Nat /\ Len(profiles') \in Nat /\ Len(profiles) <= Len(profiles')

LEMMA StillTyped ==
  ASSUME TypeOK, Grows
  PROVE  /\ sensor \in [Dispatches -> TaskOf(stored', Len(observed'))]
         /\ observed \in Seq(ObservationOf(stored'))
         /\ engine \in Seq(UpdateOf(Len(observed'), Len(profiles')))
         /\ profiles \in Seq(VersionOf(Len(observed')))
<1> DEFINE A == TaskOf(stored, Len(observed))            B == TaskOf(stored', Len(observed'))
           C == ObservationOf(stored)                    D == ObservationOf(stored')
           E == UpdateOf(Len(observed), Len(profiles))   F == UpdateOf(Len(observed'), Len(profiles'))
           G == VersionOf(Len(observed))                 H == VersionOf(Len(observed'))
<1>1. A \subseteq B /\ C \subseteq D /\ E \subseteq F /\ G \subseteq H
  BY TypesGrow DEF Grows
<1>2. /\ sensor \in [Dispatches -> A] /\ observed \in Seq(C)
      /\ engine \in Seq(E) /\ profiles \in Seq(G)
  BY DEF TypeOK, SensorType, ObservedType, EngineType, ProfilesType
<1> HIDE DEF A, B, C, D, E, F, G, H
<1>3. /\ sensor \in [Dispatches -> B] /\ observed \in Seq(D)
      /\ engine \in Seq(F) /\ profiles \in Seq(H)
  BY <1>1, <1>2
<1> QED
  BY <1>3 DEF B, D, F, H

LEMMA IdleTask ==
  ASSUME NEW S, NEW n \in Nat
  PROVE  Idle \in TaskOf(S, n) /\ [Idle EXCEPT !.at = "over"] \in TaskOf(S, n)
<1>1. [p \in Primitives |-> NoMessage] \in [Primitives -> Place(S)]
  BY DEF Place
<1>2. 1 \in 1..(Len(PRIMITIVES) + 1) /\ {} \in SUBSET (1..n) /\ NoMessage \in Place(S)
  BY ProfilingConstants DEF Place
<1> QED
  BY <1>1, <1>2 DEF Idle, TaskOf

LEMMA LostUpdate ==
  ASSUME NEW n \in Nat, NEW v \in Nat
  PROVE  Lost \in UpdateOf(n, v)
  BY DEF Lost, UpdateOf, NoRow

LEMMA TypeStarts == Init => TypeOK
<1> SUFFICES ASSUME Init PROVE TypeOK
  OBVIOUS
<1>1. StoreType
  BY ProfilingConstants DEF Init, StoreType, Place
<1>2. SensorType
  BY IdleTask DEF Init, SensorType
<1> QED
  BY <1>1, <1>2 DEF Init, TypeOK, ObservedType, EngineType, ProfilesType

LEMMA Counts == TypeOK => Len(observed) \in Nat /\ Len(profiles) \in Nat /\ Len(engine) \in Nat
  BY DEF TypeOK, ObservedType, EngineType, ProfilesType

\* The collector and the sensor.
LEMMA IngestTyped ==
  ASSUME TypeOK, NEW m \in Messages, NEW d \in Dispatches, Ingest(m, d) PROVE TypeOK'
<1>1. Grows
  BY Counts DEF Ingest, Grows
<1>2. StoreType'
  BY ProfilingConstants DEF Ingest, TypeOK, StoreType, Place, Fault
<1>3. SensorType'
  <2> DEFINE T == TaskOf(stored', Len(observed'))
  <2>1. sensor \in [Dispatches -> T] /\ m \in Place(stored')
    BY <1>1, StillTyped DEF Ingest, Place
  <2>2. [sensor[d] EXCEPT !.at = "gate", !.msg = m] \in T
    BY <2>1 DEF TaskOf
  <2> HIDE DEF T
  <2>3. sensor' \in [Dispatches -> T]
    BY <2>1, <2>2 DEF Ingest
  <2> QED
    BY <2>3 DEF SensorType, T
<1>4. ObservedType' /\ EngineType' /\ ProfilesType'
  BY <1>1, StillTyped DEF Ingest, TypeOK, ObservedType, EngineType, ProfilesType
<1> QED
  BY <1>2, <1>3, <1>4 DEF TypeOK

LEMMA TaskTyped ==
  ASSUME TypeOK, NEW d \in Dispatches,
         Gate(d) \/ ReadCursors(d) \/ PutRows(d) \/ Advance(d) \/ Raises(d) \/ SensorCrash
  PROVE  TypeOK'
<1>1. UNCHANGED <<stored, late, observed, engine, profiles>>
  BY DEF Gate, ReadCursors, PutRows, Advance, Raises, SensorCrash
<1>2. ObservedType'
  <2>1. persisted' = persisted \/ persisted' = persisted \cup sensor[d].done
    BY DEF Gate, ReadCursors, PutRows, Advance, Raises, SensorCrash
  <2>2. sensor[d].done \subseteq 1..Len(observed)
    BY DEF TypeOK, SensorType, TaskOf
  <2> QED
    BY <1>1, <2>1, <2>2 DEF TypeOK, ObservedType
<1>3. StoreType'
  <2>1. faults' \in 0..MaxFaults
    BY ProfilingConstants DEF Gate, ReadCursors, PutRows, Advance, Raises, SensorCrash, Fault, TypeOK, StoreType
  <2>2. cursor' = cursor \/ cursor' = Moved(d)
    BY DEF Gate, ReadCursors, PutRows, Advance, Raises, SensorCrash
  <2>3. sensor[d].msg \in Place(stored)
    BY DEF TypeOK, SensorType, TaskOf
  <2>4. cursor' \in [Primitives -> Place(stored)]
    BY <2>2, <2>3 DEF TypeOK, StoreType, Moved
  <2> QED
    BY <1>1, <2>1, <2>4 DEF TypeOK, StoreType
<1>4. SensorType'
  <2> DEFINE T == TaskOf(stored, Len(observed))
  <2>1. sensor \in [Dispatches -> T] /\ [Idle EXCEPT !.at = "over"] \in T /\ cursor \in [Primitives -> Place(stored)]
    BY Counts, IdleTask DEF TypeOK, SensorType, StoreType
  <2>2. /\ [sensor[d] EXCEPT !.at = "cursors"] \in T
        /\ [sensor[d] EXCEPT !.at = "advance"] \in T
        /\ [sensor[d] EXCEPT !.at = "compute", !.since = cursor] \in T
    BY <2>1 DEF TaskOf
  <2> HIDE DEF T
  <2>3. sensor' \in [Dispatches -> T]
    <3>1. CASE Gate(d)
      BY <2>1, <2>2, <3>1 DEF Gate, Ends
    <3>2. CASE ReadCursors(d)
      BY <2>1, <2>2, <3>2 DEF ReadCursors
    <3>3. CASE PutRows(d)
      BY <2>1, <2>2, <3>3 DEF PutRows, Ends
    <3>4. CASE Advance(d) \/ Raises(d)
      BY <2>1, <3>4 DEF Advance, Raises, Ends
    <3>5. CASE SensorCrash
      BY <2>1, <3>5 DEF SensorCrash
    <3> QED
      BY <3>1, <3>2, <3>3, <3>4, <3>5
  <2> QED
    BY <1>1, <2>3 DEF SensorType, T
<1> QED
  BY <1>1, <1>2, <1>3, <1>4 DEF TypeOK, EngineType, ProfilesType

LEMMA ComputeTyped ==
  ASSUME TypeOK, NEW d \in Dispatches, Compute(d) PROVE TypeOK'
<1> DEFINE p == PRIMITIVES[sensor[d].next]
           W == Window(sensor[d].since[p])
           n == Len(observed)
<1>1. UNCHANGED <<stored, late, cursor, persisted, profiles>> /\ n \in Nat
  BY Counts DEF Compute
<1>2. StoreType'
  BY <1>1, ProfilingConstants DEF Compute, TypeOK, StoreType, Fault
<1>3. p \in Primitives /\ W \subseteq stored /\ sensor[d].next + 1 \in 1..(Len(PRIMITIVES) + 1)
      /\ sensor[d] \in TaskOf(stored, n)
  <2>1. sensor[d] \in TaskOf(stored, n)
    BY DEF TypeOK, SensorType
  <2>2. sensor[d].next \in 1..Len(PRIMITIVES) /\ Len(PRIMITIVES) \in Nat
    BY <2>1, ProfilingConstants DEF Compute, TaskOf
  <2>3. W \subseteq stored
    BY DEF Window
  <2> QED
    BY <2>1, <2>2, <2>3 DEF Primitives
<1>4. CASE /\ sensor' = [sensor EXCEPT ![d].next = @ + 1]
           /\ UNCHANGED <<observed, engine, faults>>
  <2>1. [sensor[d] EXCEPT !.next = @ + 1] \in TaskOf(stored, n)
    BY <1>3 DEF TaskOf
  <2>2. SensorType'
    BY <1>1, <1>4, <2>1 DEF TypeOK, SensorType
  <2> QED
    BY <1>1, <1>2, <1>4, <2>2 DEF TypeOK, ObservedType, EngineType, ProfilesType
<1>5. CASE /\ \E m \in Newest(W) :
                observed' = Append(observed, [primitive |-> p, ref |-> m, window |-> W])
           /\ sensor' = [sensor EXCEPT ![d].next = @ + 1, ![d].done = @ \cup {n + 1}]
           /\ \/ engine' = Append(engine, [Lost EXCEPT !.at = "find"])
              \/ engine' = Append(engine, Lost)
  <2>1. PICK m \in Newest(W) :
          observed' = Append(observed, [primitive |-> p, ref |-> m, window |-> W])
    BY <1>5
  <2>2. [primitive |-> p, ref |-> m, window |-> W] \in ObservationOf(stored)
    BY <1>3 DEF ObservationOf, Newest
  <2>3. observed' \in Seq(ObservationOf(stored)) /\ Len(observed') = n + 1
    BY <2>1, <2>2 DEF TypeOK, ObservedType
  <2>4. Grows
    BY <1>1, <2>3, Counts DEF Grows
  <2>5. SensorType'
    <3> DEFINE T == TaskOf(stored', Len(observed'))
    <3>1. sensor \in [Dispatches -> T]
      BY <2>4, StillTyped
    <3>2. [sensor[d] EXCEPT !.next = @ + 1, !.done = @ \cup {n + 1}] \in T
      <4>1. sensor[d].done \cup {n + 1} \in SUBSET (1..Len(observed'))
        BY <1>1, <1>3, <2>3 DEF TaskOf
      <4>2. sensor[d] \in T
        BY <3>1
      <4> QED
        BY <1>3, <4>1, <4>2 DEF TaskOf
    <3> HIDE DEF T
    <3>3. sensor' \in [Dispatches -> T]
      BY <1>5, <3>1, <3>2
    <3> QED
      BY <3>3 DEF SensorType, T
  <2>6. EngineType'
    <3> DEFINE T == UpdateOf(Len(observed'), Len(profiles'))
    <3>1. engine \in Seq(T) /\ Lost \in T /\ [Lost EXCEPT !.at = "find"] \in T
      BY <2>4, StillTyped, LostUpdate DEF Grows, UpdateOf, Lost, NoRow
    <3> HIDE DEF T
    <3>2. engine' \in Seq(T) /\ Len(engine') = Len(engine) + 1
      <4>1. PICK u \in T : engine' = Append(engine, u)
        BY <1>5, <3>1
      <4> QED
        BY <3>1, <4>1
    <3> QED
      BY <2>3, <3>2 DEF TypeOK, EngineType, T
  <2>7. ObservedType'
    BY <1>1, <2>3 DEF TypeOK, ObservedType
  <2>8. ProfilesType'
    BY <1>1, <2>4, StillTyped DEF ProfilesType
  <2> QED
    BY <1>2, <2>5, <2>6, <2>7, <2>8 DEF TypeOK
<1> QED
  BY <1>4, <1>5 DEF Compute

\* The engine.
LEMMA EngineTyped ==
  ASSUME TypeOK, NEW i \in 1..Len(engine),
         Find(i) \/ ReadProfile(i) \/ WriteProfile(i) \/ EngineFails(i)
  PROVE  TypeOK'
<1> DEFINE n == Len(observed)
           v == Len(profiles)
           U == UpdateOf(n, v)
<1>1. UNCHANGED <<stored, late, cursor, sensor, observed, persisted>> /\ n \in Nat /\ v \in Nat
  BY Counts DEF Find, ReadProfile, WriteProfile, EngineFails
<1>2. StoreType'
  BY <1>1, ProfilingConstants DEF Find, ReadProfile, WriteProfile, EngineFails, TypeOK, StoreType, Fault
<1>3. SensorType' /\ ObservedType'
  BY <1>1 DEF TypeOK, SensorType, ObservedType
<1>4. engine \in Seq(U) /\ engine[i] \in U /\ Lost \in U /\ Len(engine) = n /\ profiles \in Seq(VersionOf(n))
  BY <1>1, LostUpdate DEF TypeOK, EngineType, ProfilesType
<1>5. CASE WriteProfile(i)
  <2>1. Previous(i).version \in Nat /\ Previous(i).slots \in [Primitives -> 0..n]
    <3>1. CASE engine[i].prev = 0
      BY <1>1, <3>1 DEF Previous, NoRow
    <3>2. CASE engine[i].prev # 0
      <4>1. engine[i].prev \in 1..v
        BY <1>1, <1>4, <3>2 DEF UpdateOf
      <4>2. profiles[engine[i].prev] \in VersionOf(n)
        BY <1>4, <4>1
      <4> QED
        BY <3>2, <4>2 DEF Previous, VersionOf
    <3> QED
      BY <3>1, <3>2
  <2>2. engine[i].row \in 0..n
    BY <1>4 DEF UpdateOf
  <2>3. NextProfile(i) \in VersionOf(n)
    <3>1. [Previous(i).slots EXCEPT ![observed[engine[i].row].primitive] = engine[i].row]
            \in [Primitives -> 0..n]
      BY <2>1, <2>2
    <3>2. Previous(i).version + 1 \in Nat \ {0}
      BY <2>1
    <3> QED
      BY <3>1, <3>2 DEF NextProfile, VersionOf
  <2>4. profiles' \in Seq(VersionOf(n)) /\ Len(profiles') >= v /\ Len(profiles') \in Nat
    <3>1. profiles' = profiles \/ profiles' = Append(profiles, NextProfile(i))
      BY <1>5 DEF WriteProfile
    <3> DEFINE V == VersionOf(n)
    <3>2. profiles \in Seq(V) /\ NextProfile(i) \in V
      BY <1>4, <2>3
    <3> HIDE DEF V
    <3>3. profiles' \in Seq(V) /\ Len(profiles') \in Nat /\ Len(profiles') >= Len(profiles)
      BY <3>1, <3>2
    <3> QED
      BY <3>3 DEF V
  <2>5. Grows
    BY <1>1, <2>4 DEF Grows
  <2>6. EngineType'
    <3> DEFINE T == UpdateOf(Len(observed'), Len(profiles'))
    <3>1. engine \in Seq(T) /\ Lost \in T
      BY <2>5, StillTyped, LostUpdate DEF Grows
    <3> HIDE DEF T
    <3>2. engine' \in Seq(T) /\ Len(engine') = Len(engine)
      BY <1>5, <3>1 DEF WriteProfile
    <3> QED
      BY <1>1, <1>4, <3>2 DEF EngineType, T
  <2> QED
    BY <1>1, <1>2, <1>3, <2>4, <2>6 DEF TypeOK, ProfilesType
<1>6. CASE Find(i) \/ ReadProfile(i) \/ EngineFails(i)
  <2>1. UNCHANGED profiles
    BY <1>6 DEF Find, ReadProfile, EngineFails
  <2>2. PICK u \in U : engine' = [engine EXCEPT ![i] = u]
    <3>1. ASSUME NEW j \in Latest(RowsFor(i)) PROVE [engine[i] EXCEPT !.at = "read", !.row = j] \in U
      <4>1. j \in 0..n
        BY <1>1 DEF Latest, RowsFor, TypeOK, ObservedType
      <4> QED
        BY <1>4, <4>1 DEF UpdateOf
    <3>2. [engine[i] EXCEPT !.at = "again"] \in U
      BY <1>4 DEF UpdateOf
    <3>3. [engine[i] EXCEPT !.at = "write", !.prev = v] \in U
      <4>1. v \in 0..v
        BY <1>1
      <4> HIDE DEF v, n
      <4> QED
        BY <1>4, <4>1 DEF UpdateOf
    <3> HIDE DEF U
    <3>4. CASE Find(i)
      <4>1. CASE \E j \in Latest(RowsFor(i)) : engine' = [engine EXCEPT ![i].at = "read", ![i].row = j]
        <5>1. PICK j \in Latest(RowsFor(i)) : engine' = [engine EXCEPT ![i].at = "read", ![i].row = j]
          BY <4>1
        <5>2. i \in DOMAIN engine
          OBVIOUS
        <5>3. engine' = [engine EXCEPT ![i] = [engine[i] EXCEPT !.at = "read", !.row = j]]
          BY <5>1, <5>2
        <5> QED
          BY <3>1, <5>3
      <4>2. CASE engine' = [engine EXCEPT ![i] = IF @.at = "find" THEN [@ EXCEPT !.at = "again"] ELSE Lost]
        BY <1>4, <3>2, <4>2
      <4> QED
        BY <3>4, <4>1, <4>2 DEF Find
    <3>5. CASE ReadProfile(i)
      BY <1>4, <3>3, <3>5 DEF ReadProfile
    <3>6. CASE EngineFails(i)
      BY <1>4, <3>6 DEF EngineFails
    <3> QED
      BY <1>6, <3>4, <3>5, <3>6
  <2> HIDE DEF U
  <2>3. engine' \in Seq(U) /\ Len(engine') = Len(engine)
    BY <1>4, <2>2
  <2> USE DEF U
  <2>4. EngineType' /\ ProfilesType'
    BY <1>1, <1>4, <2>1, <2>3 DEF EngineType, ProfilesType
  <2> QED
    BY <1>2, <1>3, <2>4 DEF TypeOK
<1> QED
  BY <1>5, <1>6

LEMMA TypeKept == TypeOK /\ [Next]_vars => TypeOK'
<1> SUFFICES ASSUME TypeOK, [Next]_vars PROVE TypeOK'
  OBVIOUS
<1>1. CASE UNCHANGED vars
  BY <1>1 DEF vars, TypeOK, StoreType, SensorType, ObservedType, EngineType, ProfilesType
<1>2. CASE SensorCrash
  <2>1. PICK d \in Dispatches : Working(d)
    BY <1>2 DEF SensorCrash
  <2> QED
    BY <1>2, TaskTyped
<1> QED
  BY <1>1, <1>2, IngestTyped, TaskTyped, ComputeTyped, EngineTyped DEF Next

\* TypeOK, for any messages, primitives, deliveries and failures.
THEOREM ProfilingTypeCorrect == Spec => []TypeOK
  BY TypeStarts, TypeKept, PTL DEF Spec

-----------------------------------------------------------------------------
(* What cursors pass has been read. *)

LEMMA ReadsStart == Init => ReadsSafe
  BY DEF Init, ReadsSafe, CursorsSafe, SinceSafe, DoneSafe, WrittenFirst, Covered, Idle

\* A message that is stored behind something stored is late.
LEMMA NewIsAhead ==
  ASSUME TypeOK, NEW m \in Messages, NEW d \in Dispatches, Ingest(m, d),
         NEW n \in stored' \ late', NEW c \in Place(stored), Passed(n, c)
  PROVE  n \in stored \ late
<1>1. CASE n \in stored
  BY <1>1 DEF Ingest, TypeOK, StoreType
<1>2. CASE n \notin stored
  <2>1. n = m /\ n \in Messages /\ n # c
    BY <1>2, ProfilingConstants DEF Ingest, Place, NoMessage
  <2>2. SentAt[n] < Time(c) /\ SentAt[n] \in Nat
    BY <2>1, ProfilingConstants DEF Passed
  <2>3. c \in stored /\ SentAt[n] < SentAt[c] /\ SentAt[c] \in Nat
    BY <2>2, ProfilingConstants DEF Place, Time, TypeOK, StoreType
  <2> QED
    BY <1>2, <2>1, <2>3 DEF Ingest
<1> QED
  BY <1>1, <1>2

LEMMA IngestReads ==
  ASSUME TypeOK, ReadsSafe, NEW m \in Messages, NEW d \in Dispatches, Ingest(m, d)
  PROVE  ReadsSafe'
<1>1. UNCHANGED <<cursor, observed, persisted>>
  BY DEF Ingest
<1>2. \A c \in Place(stored), p \in Primitives : Covered(p, c) => Covered(p, c)'
  BY <1>1, NewIsAhead DEF Covered, Read, Passed, Time
<1>3. \A e \in Dispatches : /\ sensor'[e].since = sensor[e].since /\ sensor'[e].done = sensor[e].done
                            /\ e # d => sensor'[e] = sensor[e]
  BY DEF Ingest, TypeOK, SensorType, TaskOf
<1>4. sensor[d].done = {} /\ sensor'[d].at # "advance"
  BY DEF Ingest, Idle, TypeOK, SensorType
<1>5. \A e \in Dispatches : /\ sensor[e].msg \in Place(stored)
                            /\ \A p \in Primitives : sensor[e].since[p] \in Place(stored)
  BY DEF TypeOK, SensorType, TaskOf
<1>6. CursorsSafe'
  BY <1>1, <1>2 DEF ReadsSafe, CursorsSafe, TypeOK, StoreType
<1>7. SinceSafe'
  BY <1>2, <1>3, <1>5 DEF ReadsSafe, SinceSafe
<1>8. DoneSafe'
  <2> SUFFICES ASSUME NEW e \in Dispatches, NEW i \in sensor'[e].done, NEW n \in stored' \ late',
                      Passed(n, sensor'[e].msg)
               PROVE  n \in observed'[i].window \/ Read(observed[i].primitive, n)'
    BY DEF DoneSafe, Passed, Time
  <2>1. e # d /\ i \in sensor[e].done /\ Passed(n, sensor[e].msg)
    BY <1>3, <1>4
  <2>2. n \in stored \ late
    BY <1>5, <2>1, NewIsAhead
  <2> QED
    BY <1>1, <2>1, <2>2 DEF ReadsSafe, DoneSafe, Read
<1>9. WrittenFirst'
  BY <1>1, <1>3, <1>4 DEF ReadsSafe, WrittenFirst
<1> QED
  BY <1>6, <1>7, <1>8, <1>9 DEF ReadsSafe

\* Where no message arrives and no written row is lost, what was covered stays so.
LEMMA StaysCovered ==
  ASSUME UNCHANGED <<stored, late>>, persisted \subseteq persisted',
         \A i \in persisted : observed'[i] = observed[i]
  PROVE  /\ \A p, m : Read(p, m) => Read(p, m)'
         /\ \A p \in Primitives : \A c : Covered(p, c) => Covered(p, c)'
  BY DEF Covered, Read, Passed, Time

\* Nothing is behind the cursor that has not moved yet.
LEMMA NothingPassed ==
  ASSUME TypeOK, NEW m \in stored PROVE ~ Passed(m, NoMessage)
<1>1. m # 0 /\ SentAt[m] \in Nat
  BY ProfilingConstants DEF TypeOK, StoreType
<1> QED
  BY <1>1 DEF Passed, Time, NoMessage

\* A task that goes on with what it has, or ends.
LEMMA GoesOn ==
  ASSUME TypeOK, ReadsSafe, UNCHANGED <<stored, late, cursor, observed>>, persisted \subseteq persisted',
         \A e \in Dispatches :
           /\ \/ sensor'[e].done = sensor[e].done /\ sensor'[e].msg = sensor[e].msg
              \/ sensor'[e].done = {}
           /\ sensor'[e].since \in {sensor[e].since, cursor, [p \in Primitives |-> NoMessage]}
           /\ sensor'[e].at = "advance" => sensor'[e].done \subseteq persisted'
  PROVE  ReadsSafe'
<1>1. /\ \A p, m : Read(p, m) => Read(p, m)'
      /\ \A p \in Primitives : \A c : Covered(p, c) => Covered(p, c)'
  BY StaysCovered
<1>2. CursorsSafe'
  BY <1>1 DEF ReadsSafe, CursorsSafe
<1>3. \A p \in Primitives : Covered(p, NoMessage)
  BY NothingPassed DEF Covered
<1>4. SinceSafe'
  <2> SUFFICES ASSUME NEW e \in Dispatches, NEW p \in Primitives, NEW n \in stored \ late,
                      Passed(n, sensor'[e].since[p])
               PROVE  Read(p, n)'
    BY DEF SinceSafe, Covered, Passed, Time
  <2>1. Covered(p, sensor'[e].since[p])
    BY <1>3 DEF ReadsSafe, CursorsSafe, SinceSafe
  <2> QED
    BY <1>1, <2>1 DEF Covered
<1>5. DoneSafe'
  <2> SUFFICES ASSUME NEW e \in Dispatches, NEW i \in sensor'[e].done, NEW n \in stored \ late,
                      Passed(n, sensor'[e].msg)
               PROVE  n \in observed[i].window \/ Read(observed[i].primitive, n)'
    BY DEF DoneSafe, Passed, Time
  <2>1. i \in sensor[e].done /\ Passed(n, sensor[e].msg)
    OBVIOUS
  <2> QED
    BY <1>1, <2>1 DEF ReadsSafe, DoneSafe
<1>6. WrittenFirst'
  BY DEF WrittenFirst
<1> QED
  BY <1>2, <1>4, <1>5, <1>6 DEF ReadsSafe

LEMMA Over ==
  LET over == [Idle EXCEPT !.at = "over"]
  IN over.done = {} /\ over.at = "over" /\ over.since = [p \in Primitives |-> NoMessage]
  BY DEF Idle

LEMMA TaskReads ==
  ASSUME TypeOK, ReadsSafe, NEW d \in Dispatches,
         Gate(d) \/ ReadCursors(d) \/ PutRows(d) \/ Raises(d) \/ SensorCrash
  PROVE  ReadsSafe'
<1>1. UNCHANGED <<stored, late, cursor, observed>> /\ persisted \subseteq persisted'
  BY DEF Gate, ReadCursors, PutRows, Raises, SensorCrash
<1>2. ASSUME NEW e \in Dispatches
      PROVE  /\ \/ sensor'[e].done = sensor[e].done /\ sensor'[e].msg = sensor[e].msg
                \/ sensor'[e].done = {}
             /\ sensor'[e].since \in {sensor[e].since, cursor, [p \in Primitives |-> NoMessage]}
             /\ sensor'[e].at = "advance" => sensor'[e].done \subseteq persisted'
  <2>1. sensor[e] \in TaskOf(stored, Len(observed)) /\ DOMAIN sensor = Dispatches
    BY DEF TypeOK, SensorType
  <2>2. sensor[e].at = "advance" => sensor[e].done \subseteq persisted'
    BY <1>1 DEF ReadsSafe, WrittenFirst
  <2> DEFINE over == [Idle EXCEPT !.at = "over"]
  <2>3. \/ sensor'[e] \in {sensor[e], over, [sensor[e] EXCEPT !.at = "cursors"],
                           [sensor[e] EXCEPT !.at = "compute", !.since = cursor]}
        \/ sensor'[e] = [sensor[e] EXCEPT !.at = "advance"] /\ sensor[e].done \subseteq persisted'
    <3>1. CASE Gate(d)
      BY <2>1, <3>1 DEF Gate, Ends
    <3>2. CASE ReadCursors(d)
      BY <2>1, <3>2 DEF ReadCursors
    <3>3. CASE PutRows(d)
      BY <2>1, <3>3 DEF PutRows, Ends
    <3>4. CASE Raises(d)
      BY <2>1, <3>4 DEF Raises, Ends
    <3>5. CASE SensorCrash
      BY <3>5 DEF SensorCrash
    <3> QED
      BY <3>1, <3>2, <3>3, <3>4, <3>5
  <2>4. over.done = {} /\ over.at = "over" /\ over.since = [p \in Primitives |-> NoMessage]
    BY Over
  <2> HIDE DEF over
  <2> QED
    BY <2>1, <2>2, <2>3, <2>4 DEF TaskOf
<1> QED
  BY <1>1, <1>2, GoesOn

\* The cursors move to a message of which all that is behind it has been read.
LEMMA AdvanceReads ==
  ASSUME TypeOK, ReadsSafe, NEW d \in Dispatches, Advance(d)
  PROVE  ReadsSafe'
<1>1. UNCHANGED <<stored, late, observed, persisted>> /\ cursor' = Moved(d)
  BY DEF Advance
<1>2. \A p \in Primitives : Covered(p, Moved(d)[p])
  <2> SUFFICES ASSUME NEW p \in Primitives PROVE Covered(p, Moved(d)[p])
    OBVIOUS
  <2>1. CASE \E i \in sensor[d].done : observed[i].primitive = p
    <3>1. PICK i \in sensor[d].done : observed[i].primitive = p
      BY <2>1
    <3>2. i \in persisted /\ Moved(d)[p] = sensor[d].msg
      BY <2>1, <3>1 DEF Advance, ReadsSafe, WrittenFirst, Moved
    <3> QED
      BY <3>1, <3>2 DEF ReadsSafe, DoneSafe, Covered, Read
  <2>2. CASE ~ \E i \in sensor[d].done : observed[i].primitive = p
    BY <2>2 DEF Moved, ReadsSafe, CursorsSafe
  <2> QED
    BY <2>1, <2>2
<1>3. CursorsSafe'
  BY <1>1, <1>2 DEF CursorsSafe, Covered, Read, Passed, Time
<1>4. \A e \in Dispatches :
        \/ sensor'[e] = sensor[e]
        \/ /\ sensor'[e].done = {} /\ sensor'[e].at = "over"
           /\ sensor'[e].since = [p \in Primitives |-> NoMessage]
  BY Over DEF Advance, Ends, TypeOK, SensorType
<1>5. \A p \in Primitives : Covered(p, NoMessage)
  BY NothingPassed DEF Covered
<1>6. SinceSafe'
  BY <1>1, <1>4, <1>5 DEF ReadsSafe, SinceSafe, Covered, Read, Passed, Time
<1>7. DoneSafe'
  BY <1>1, <1>4 DEF ReadsSafe, DoneSafe, Read, Passed, Time
<1>8. WrittenFirst'
  BY <1>1, <1>4 DEF ReadsSafe, WrittenFirst
<1> QED
  BY <1>3, <1>6, <1>7, <1>8 DEF ReadsSafe

\* A new observation covers what the cursor that was read does not.
LEMMA ComputeReads ==
  ASSUME TypeOK, ReadsSafe, NEW d \in Dispatches, Compute(d)
  PROVE  ReadsSafe'
<1> DEFINE p == PRIMITIVES[sensor[d].next]
           W == Window(sensor[d].since[p])
           n == Len(observed)
<1>1. UNCHANGED <<stored, late, cursor, persisted>> /\ n \in Nat
  BY Counts DEF Compute
<1>2. sensor \in [Dispatches -> TaskOf(stored, n)] /\ sensor[d].at = "compute" /\ persisted \subseteq 1..n
  BY DEF Compute, TypeOK, SensorType, ObservedType
<1>3. p \in Primitives
  <2>1. sensor[d].next \in 1..Len(PRIMITIVES)
    BY <1>2, ProfilingConstants DEF Compute, TaskOf
  <2> QED
    BY <2>1 DEF Primitives
<1>4. CASE /\ sensor' = [sensor EXCEPT ![d].next = @ + 1]
           /\ UNCHANGED observed
  <2>1. \A e \in Dispatches : /\ sensor'[e].done = sensor[e].done /\ sensor'[e].msg = sensor[e].msg
                              /\ sensor'[e].since = sensor[e].since /\ sensor'[e].at = sensor[e].at
    BY <1>2, <1>4 DEF TaskOf
  <2> QED
    BY <1>1, <1>4, <2>1, GoesOn DEF ReadsSafe, WrittenFirst
<1>5. CASE /\ \E m \in Newest(W) :
                observed' = Append(observed, [primitive |-> p, ref |-> m, window |-> W])
           /\ sensor' = [sensor EXCEPT ![d].next = @ + 1, ![d].done = @ \cup {n + 1}]
  <2>1. /\ \A i \in 1..n : observed'[i] = observed[i]
        /\ observed'[n + 1].primitive = p /\ observed'[n + 1].window = W
    BY <1>1, <1>5 DEF TypeOK, ObservedType
  <2>2. /\ \A q, m : Read(q, m) => Read(q, m)'
        /\ \A q \in Primitives : \A c : Covered(q, c) => Covered(q, c)'
    BY <1>1, <1>2, <2>1, StaysCovered
  <2>3. \A e \in Dispatches :
          /\ sensor'[e].msg = sensor[e].msg /\ sensor'[e].since = sensor[e].since
          /\ sensor'[e].at = sensor[e].at
          /\ sensor'[e].done \subseteq 1..(n + 1)
          /\ sensor'[e].done = sensor[e].done \/ (e = d /\ sensor'[e].done = sensor[e].done \cup {n + 1})
    <3> SUFFICES ASSUME NEW e \in Dispatches
                 PROVE  /\ sensor'[e].msg = sensor[e].msg /\ sensor'[e].since = sensor[e].since
                        /\ sensor'[e].at = sensor[e].at
                        /\ sensor'[e].done \subseteq 1..(n + 1)
                        /\ \/ sensor'[e].done = sensor[e].done
                           \/ e = d /\ sensor'[e].done = sensor[e].done \cup {n + 1}
      OBVIOUS
    <3>1. sensor[e] \in TaskOf(stored, n) /\ sensor[e].done \subseteq 1..n
      BY <1>2 DEF TaskOf
    <3> QED
      BY <1>1, <1>2, <1>5, <3>1 DEF TaskOf
  <2>4. CursorsSafe'
    BY <1>1, <2>2 DEF ReadsSafe, CursorsSafe
  <2>5. SinceSafe'
    BY <2>2, <2>3 DEF ReadsSafe, SinceSafe
  <2>6. DoneSafe'
    <3> DEFINE ReadNow(q, x) == \E j \in persisted : observed'[j].primitive = q /\ x \in observed'[j].window
    <3> SUFFICES ASSUME NEW e \in Dispatches, NEW i \in sensor'[e].done, NEW m \in stored \ late,
                        Passed(m, sensor'[e].msg)
                 PROVE  m \in observed'[i].window \/ ReadNow(observed'[i].primitive, m)
      BY <1>1 DEF DoneSafe, Passed, Time, Read
    <3>0. \A q : Read(q, m) => ReadNow(q, m)
      BY <1>1, <1>2, <2>1 DEF Read
    <3> HIDE DEF n, p, W, ReadNow
    <3>1. CASE i \in sensor[e].done
      <4>1. i \in 1..n
        <5>1. sensor[e] \in TaskOf(stored, n)
          BY <1>2
        <5> QED
          BY <3>1, <5>1 DEF TaskOf
      <4>2. observed'[i] = observed[i]
        BY <2>1, <4>1
      <4>3. m \in observed[i].window \/ Read(observed[i].primitive, m)
        BY <2>3, <3>1 DEF ReadsSafe, DoneSafe
      <4> QED
        BY <3>0, <4>2, <4>3
    <3>2. CASE i = n + 1
      <4>1. CASE Passed(m, sensor[d].since[p])
        <5>1. Read(p, m)
          BY <1>3, <4>1 DEF ReadsSafe, SinceSafe, Covered
        <5>2. observed'[i].primitive = p
          BY <2>1, <3>2
        <5> QED
          BY <3>0, <5>1, <5>2
      <4>2. CASE ~ Passed(m, sensor[d].since[p])
        <5>1. SentAt[m] \in Nat /\ Time(sensor[d].since[p]) \in Nat
          <6>1. sensor[d] \in TaskOf(stored, n)
            BY <1>2
          <6>2. sensor[d].since[p] \in Place(stored)
            BY <1>3, <6>1 DEF TaskOf
          <6> QED
            BY <6>2, ProfilingConstants DEF TypeOK, StoreType, Place, Time
        <5>2. m \in W
          BY <4>2, <5>1 DEF W, Window, Passed
        <5> QED
          BY <2>1, <3>2, <5>2
      <4> QED
        BY <4>1, <4>2
    <3> QED
      BY <2>3, <3>1, <3>2
  <2>7. WrittenFirst'
    BY <1>1, <1>2, <2>3 DEF ReadsSafe, WrittenFirst
  <2> QED
    BY <2>4, <2>5, <2>6, <2>7 DEF ReadsSafe
<1> QED
  BY <1>4, <1>5 DEF Compute

LEMMA ReadsKept == TypeOK /\ ReadsSafe /\ [Next]_vars => ReadsSafe'
<1> SUFFICES ASSUME TypeOK, ReadsSafe, [Next]_vars PROVE ReadsSafe'
  OBVIOUS
<1>1. CASE UNCHANGED <<stored, late, cursor, sensor, observed, persisted>>
  BY <1>1 DEF ReadsSafe, CursorsSafe, SinceSafe, DoneSafe, WrittenFirst, Covered, Read, Passed, Time
<1>2. CASE SensorCrash
  <2>1. PICK d \in Dispatches : Working(d)
    BY <1>2 DEF SensorCrash
  <2> QED
    BY <1>2, TaskReads
<1>3. ASSUME NEW i \in 1..Len(engine), Find(i) \/ ReadProfile(i) \/ WriteProfile(i) \/ EngineFails(i)
      PROVE  ReadsSafe'
  BY <1>1, <1>3 DEF Find, ReadProfile, WriteProfile, EngineFails
<1> QED
  BY <1>1, <1>2, <1>3, IngestReads, TaskReads, AdvanceReads, ComputeReads DEF Next, vars

\* PassedIsRead: a cursor never passes a message that has not been read, but for
\* one that is late.
THEOREM PassedIsReadHolds == Spec => []PassedIsRead
<1>1. Init => TypeOK /\ ReadsSafe
  BY TypeStarts, ReadsStart
<1>2. TypeOK /\ ReadsSafe /\ [Next]_vars => (TypeOK /\ ReadsSafe)'
  BY TypeKept, ReadsKept
<1>3. ReadsSafe => PassedIsRead
  BY DEF ReadsSafe, CursorsSafe, Covered, Passed, Read, PassedIsRead
<1> QED
  BY <1>1, <1>2, <1>3, PTL DEF Spec

-----------------------------------------------------------------------------
(* Slots have rows. *)

LEMMA SlotsStart == Init => FoundRows /\ SlotsHaveRows
  BY DEF Init, FoundRows, SlotsHaveRows

\* Rows stay, and say what they said.
LEMMA RowsStay ==
  ASSUME TypeOK, FoundRows, SlotsHaveRows, UNCHANGED profiles, persisted \subseteq persisted',
         \A i \in persisted : observed'[i] = observed[i],
         \A i \in 1..Len(engine') :
           engine'[i].at \in {"read", "write"} =>
             engine'[i].row \in persisted \/ (i \in 1..Len(engine) /\ engine'[i] = engine[i])
  PROVE  FoundRows' /\ SlotsHaveRows'
<1>1. FoundRows'
  BY DEF FoundRows
<1>2. SlotsHaveRows'
  BY DEF SlotsHaveRows
<1> QED
  BY <1>1, <1>2

LEMMA SlotsKept == TypeOK /\ FoundRows /\ SlotsHaveRows /\ [Next]_vars => (FoundRows /\ SlotsHaveRows)'
<1> SUFFICES ASSUME TypeOK, FoundRows, SlotsHaveRows, [Next]_vars PROVE (FoundRows /\ SlotsHaveRows)'
  OBVIOUS
<1> DEFINE n == Len(observed)
<1>1. n \in Nat /\ persisted \subseteq 1..n /\ observed \in Seq(ObservationOf(stored)) /\ Len(engine) = n
  BY Counts DEF TypeOK, ObservedType, EngineType
<1>2. CASE UNCHANGED <<observed, engine, profiles>> /\ persisted \subseteq persisted'
  BY <1>2, RowsStay
<1>3. ASSUME NEW d \in Dispatches, Compute(d) PROVE (FoundRows /\ SlotsHaveRows)'
  <2>1. UNCHANGED <<profiles, persisted>>
    BY <1>3 DEF Compute
  <2>2. /\ \/ UNCHANGED observed \/ \E o : observed' = Append(observed, o)
        /\ UNCHANGED engine \/ engine' = Append(engine, Lost) \/ engine' = Append(engine, [Lost EXCEPT !.at = "find"])
    BY <1>3 DEF Compute
  <2>3. \A i \in persisted : observed'[i] = observed[i]
    BY <1>1, <2>2
  <2>4. ASSUME NEW i \in 1..Len(engine'), engine'[i].at \in {"read", "write"}
        PROVE  i \in 1..Len(engine) /\ engine'[i] = engine[i]
    <3>1. engine \in Seq(UpdateOf(n, Len(profiles)))
      BY DEF TypeOK, EngineType
    <3>2. Lost.at = "gone" /\ [Lost EXCEPT !.at = "find"].at = "find"
      BY DEF Lost
    <3>3. CASE UNCHANGED engine
      BY <2>4, <3>3
    <3>4. CASE \E u : engine' = Append(engine, u) /\ u.at \notin {"read", "write"}
      <4> DEFINE U == UpdateOf(n, Len(profiles))
      <4>1. PICK u : engine' = Append(engine, u) /\ u.at \notin {"read", "write"}
        BY <3>4
      <4>2. engine \in Seq(U)
        BY <3>1
      <4> HIDE DEF U
      <4>3. Len(engine') = Len(engine) + 1 /\ engine'[Len(engine) + 1] = u
            /\ \A j \in 1..Len(engine) : engine'[j] = engine[j]
        BY <4>1, <4>2
      <4>4. i # Len(engine) + 1
        BY <2>4, <4>1, <4>3
      <4>5. Len(engine) \in Nat
        BY <4>2
      <4> QED
        BY <4>3, <4>4, <4>5
    <3> QED
      BY <2>2, <3>2, <3>3, <3>4
  <2> QED
    BY <2>1, <2>3, <2>4, RowsStay
<1>4. ASSUME NEW i \in 1..Len(engine), Find(i) \/ ReadProfile(i) \/ EngineFails(i)
      PROVE  (FoundRows /\ SlotsHaveRows)'
  <2>1. UNCHANGED <<profiles, persisted, observed>>
    BY <1>4 DEF Find, ReadProfile, EngineFails
  <2>2. engine \in Seq(UpdateOf(n, Len(profiles))) /\ engine[i] \in UpdateOf(n, Len(profiles))
    BY DEF TypeOK, EngineType
  <2>3. PICK u : engine' = [engine EXCEPT ![i] = u] /\ (u.at \in {"read", "write"} => u.row \in persisted)
    <3>1. CASE Find(i)
      <4>1. \A j \in Latest(RowsFor(i)) : j \in persisted
        BY DEF Latest, RowsFor
      <4> QED
        BY <2>2, <3>1, <4>1 DEF Find, UpdateOf, Lost
    <3>2. CASE ReadProfile(i)
      <4>1. engine[i].at = "read" /\ engine[i].row \in persisted
        BY <3>2 DEF ReadProfile, FoundRows
      <4>2. engine' = [engine EXCEPT ![i] = [engine[i] EXCEPT !.at = "write", !.prev = Len(profiles)]]
        BY <2>2, <3>2 DEF ReadProfile
      <4>3. [engine[i] EXCEPT !.at = "write", !.prev = Len(profiles)].row = engine[i].row
        BY <2>2 DEF UpdateOf
      <4> QED
        BY <4>1, <4>2, <4>3
    <3>3. CASE EngineFails(i)
      <4>1. engine' = [engine EXCEPT ![i] = Lost] /\ Lost.at = "gone"
        BY <3>3 DEF EngineFails, Lost
      <4> QED
        BY <4>1
    <3> QED
      BY <1>4, <3>1, <3>2, <3>3
  <2> QED
    BY <2>1, <2>2, <2>3, RowsStay
<1>5. ASSUME NEW i \in 1..Len(engine), WriteProfile(i) PROVE (FoundRows /\ SlotsHaveRows)'
  <2>1. UNCHANGED <<persisted, observed>>
    BY <1>5 DEF WriteProfile
  <2>2. engine \in Seq(UpdateOf(n, Len(profiles))) /\ engine[i] \in UpdateOf(n, Len(profiles))
        /\ profiles \in Seq(VersionOf(n)) /\ engine[i].row \in persisted
    BY <1>5 DEF TypeOK, EngineType, ProfilesType, WriteProfile, FoundRows
  <2>3. FoundRows'
    BY <1>5, <2>1, <2>2 DEF WriteProfile, FoundRows, Lost
  <2> DEFINE r == engine[i].row
             x == observed[r].primitive
  <2>4. x \in Primitives
    <3>1. r \in 1..Len(observed)
      BY <1>1, <2>2
    <3>2. observed[r] \in ObservationOf(stored)
      BY <1>1, <3>1
    <3> QED
      BY <3>2 DEF ObservationOf
  <2>5. \A q \in Primitives :
          Previous(i).slots[q] # NoRow =>
            Previous(i).slots[q] \in persisted /\ observed[Previous(i).slots[q]].primitive = q
    <3>1. CASE engine[i].prev = 0
      BY <3>1 DEF Previous
    <3>2. CASE engine[i].prev # 0
      <4>1. engine[i].prev \in 1..Len(profiles)
        BY <2>2, <3>2, Counts DEF UpdateOf
      <4> QED
        BY <3>2, <4>1 DEF Previous, SlotsHaveRows
    <3> QED
      BY <3>1, <3>2
  <2>6. DOMAIN Previous(i).slots = Primitives
    <3>1. CASE engine[i].prev = 0
      BY <3>1 DEF Previous
    <3>2. CASE engine[i].prev # 0
      <4>1. engine[i].prev \in 1..Len(profiles)
        BY <2>2, <3>2, Counts DEF UpdateOf
      <4>2. profiles[engine[i].prev] \in VersionOf(n)
        BY <2>2, <4>1
      <4> QED
        BY <3>2, <4>2 DEF Previous, VersionOf
    <3> QED
      BY <3>1, <3>2
  <2>7. \A q \in Primitives :
          NextProfile(i).slots[q] # NoRow =>
            NextProfile(i).slots[q] \in persisted /\ observed[NextProfile(i).slots[q]].primitive = q
    BY <2>2, <2>4, <2>5, <2>6 DEF NextProfile
  <2>8. profiles' = profiles \/ profiles' = Append(profiles, NextProfile(i))
    BY <1>5 DEF WriteProfile
  <2>9. \A v \in 1..Len(profiles') :
          (v \in 1..Len(profiles) /\ profiles'[v] = profiles[v]) \/ profiles'[v] = NextProfile(i)
    BY <2>2, <2>8
  <2>10. SlotsHaveRows'
    BY <2>1, <2>7, <2>9 DEF SlotsHaveRows
  <2> QED
    BY <2>3, <2>10
<1>6. ASSUME NEW d \in Dispatches, Gate(d) \/ ReadCursors(d) \/ PutRows(d) \/ Advance(d) \/ Raises(d)
      PROVE  (FoundRows /\ SlotsHaveRows)'
  BY <1>2, <1>6 DEF Gate, ReadCursors, PutRows, Advance, Raises
<1>7. ASSUME NEW m \in Messages, NEW d \in Dispatches, Ingest(m, d)
      PROVE  (FoundRows /\ SlotsHaveRows)'
  BY <1>2, <1>7 DEF Ingest
<1>8. CASE SensorCrash
  BY <1>2, <1>8 DEF SensorCrash
<1>9. CASE UNCHANGED vars
  BY <1>2, <1>9 DEF vars
<1> QED
  BY <1>3, <1>4, <1>5, <1>6, <1>7, <1>8, <1>9 DEF Next

\* SlotsHaveRows: whatever tasks race, fail or die, every slot of every version
\* names a written row of its primitive.
THEOREM SlotsHaveRowsHolds == Spec => []SlotsHaveRows
<1>1. Init => TypeOK /\ FoundRows /\ SlotsHaveRows
  BY TypeStarts, SlotsStart
<1>2. TypeOK /\ FoundRows /\ SlotsHaveRows /\ [Next]_vars => (TypeOK /\ FoundRows /\ SlotsHaveRows)'
  BY TypeKept, SlotsKept
<1> QED
  BY <1>1, <1>2, PTL DEF Spec
=============================================================================
