---------------------------- MODULE OperatorWrite ----------------------------
(***************************************************************************)
(* What an operator's POST does, and what a retry of it gets back.         *)
(*                                                                         *)
(* Two layers.  The Idempotency-Key middleware reserves a row for the key, *)
(* lets the request through, and keeps its 2xx response for whoever sends  *)
(* the key again; any other response frees the key.  Inside it,            *)
(* operator_write announces and records the audit row, writes what the     *)
(* operation persists, and publishes the event.  Each of these is a call   *)
(* of its own to the database or the bus, and requests run in several      *)
(* workers, so everything interleaves and everything can be the last thing *)
(* a worker does.                                                          *)
(*                                                                         *)
(* Time is one clock per key, which counts how often a row of that key has *)
(* outlived its seven days.  A request carries the time it was made and    *)
(* takes a row that was written before that time for an expired one.       *)
(*                                                                         *)
(* Requests without a key skip the middleware and are left out, as are the *)
(* checks ahead of the write (Rejects stands for any that fails), the      *)
(* retry on event_seq, and what a handler's parameters say beyond which    *)
(* request it is.                                                          *)
(***************************************************************************)
EXTENDS Naturals

CONSTANTS
  Attempts,        \* requests; a retry is a request of its own
  Keys,            \* Idempotency-Key values
  Bodies,          \* request hashes: method, path and body
  Writes,          \* what each request persists between audit and publish
  MaxLapses,       \* bound: rows of one key that expire over a behaviour
  MaxFaults,       \* bound: failed calls and worker deaths over a behaviour
  None             \* no request

ASSUME OperatorWriteConstants ==
  /\ Keys # {} /\ Bodies # {}
  /\ None \notin Attempts \cup Bodies
  /\ Writes \in [Bodies -> SUBSET {"state", "log"}]
  /\ MaxLapses \in Nat
  /\ MaxFaults \in Nat

VARIABLES
  record,      \* the idempotency_record table
  clock,       \* rows of a key that have expired so far
  attempt,     \* the requests
  done,        \* what each request has left behind, durable or on the bus
  stolen,      \* history: keys a reclaim has deleted another row of than it read
  faults       \* failed calls and worker deaths so far

vars == <<record, clock, attempt, done, stolen, faults>>

-----------------------------------------------------------------------------
(* State. *)

\* A row: the request it is for, the request whose response it stores (None
\* while bus_state is "pending"), and when it was written.
Row == [hash : Bodies, says : Attempts \cup {None}, lease : Nat]

NoRow == [hash |-> None, says |-> None, lease |-> 0]

Effects == {"announced", "audited", "state", "log", "sent"}

\* Where a request is.  From "handling" to "dropping" it has won its key.
Running == {"handling", "auditing", "persisting"}
Winning == Running \cup {"finalizing", "dropping"}
Losing  == {"inserting", "inspecting", "reclaiming"}
Places  == Winning \cup Losing \cup {"idle", "done", "cut"}

\* What the client is told: nothing yet, a refusal, an error, or a 202 with
\* the event of some request.
Unanswered == [kind |-> "none", event |-> None]
Conflict   == [kind |-> "conflict", event |-> None]
Error      == [kind |-> "error", event |-> None]
Accepted(a) == [kind |-> "accepted", event |-> a]
Answers == {Unanswered, Conflict, Error} \cup {Accepted(a) : a \in Attempts}

\* stamp: when the request was made.  lease: when the row was written that it
\* won, replays, or has found expired.
Attempt == [at : Places, key : Keys, body : Bodies, stamp : Nat, tries : 1..2,
            lease : Nat, answer : Answers]

Idle == [at |-> "idle", key |-> CHOOSE k \in Keys : TRUE,
         body |-> CHOOSE b \in Bodies : TRUE, stamp |-> 0, tries |-> 1,
         lease |-> 0, answer |-> Unanswered]

Final(r) == r.says # None

\* What request a has still to persist.
Remaining(a) == Writes[attempt[a].body] \ done[a]

RowOf(a) == record[attempt[a].key]

Init ==
  /\ record = [k \in Keys |-> NoRow]
  /\ clock = [k \in Keys |-> 0]
  /\ attempt = [a \in Attempts |-> Idle]
  /\ done = [a \in Attempts |-> {}]
  /\ stolen = {}
  /\ faults = 0

-----------------------------------------------------------------------------
(* Steps they have in common. *)

Fails == faults < MaxFaults /\ faults' = faults + 1

Goes(a, place) == attempt' = [attempt EXCEPT ![a].at = place]

Ends(a, answer) ==
  attempt' = [attempt EXCEPT ![a].at = "done", ![a].answer = answer]

\* The for loop around the insert: two attempts, then a conflict.
TriesAgain(a) ==
  IF attempt[a].tries < 2
  THEN attempt' = [attempt EXCEPT ![a].at = "inserting", ![a].tries = @ + 1]
  ELSE Ends(a, Conflict)

\* The response is not a 2xx, or there is none: the key will be freed.
Errs(a) ==
  /\ attempt' = [attempt EXCEPT ![a].at = "dropping", ![a].answer = Error]
  /\ UNCHANGED <<record, clock, done, stolen>>

Leaves(a, effect, place) ==
  /\ done' = [done EXCEPT ![a] = @ \cup {effect}]
  /\ Goes(a, place)
  /\ UNCHANGED <<record, clock, stolen, faults>>

-----------------------------------------------------------------------------
(* The middleware: winning the key. *)

Post(a, k, b) ==
  /\ attempt[a].at = "idle"
  /\ attempt' = [attempt EXCEPT ![a] =
       [at |-> "inserting", key |-> k, body |-> b, stamp |-> clock[k], tries |-> 1,
        lease |-> 0, answer |-> Unanswered]]
  /\ UNCHANGED <<record, clock, done, stolen, faults>>

\* Mutant of Reserves: the insert replaces a row that is there.
ReservesAnyway(a) ==
  /\ attempt[a].at = "inserting"
  /\ LET now == clock[attempt[a].key] IN
     /\ record' = [record EXCEPT ![attempt[a].key] =
                     [hash |-> attempt[a].body, says |-> None, lease |-> now]]
     /\ attempt' = [attempt EXCEPT ![a].at = "handling", ![a].lease = now]
  /\ UNCHANGED <<clock, done, stolen, faults>>

\* The insert goes through: the key is the primary key.
Reserves(a) ==
  /\ attempt[a].at = "inserting"
  /\ RowOf(a) = NoRow
  /\ LET now == clock[attempt[a].key] IN
     /\ record' = [record EXCEPT ![attempt[a].key] =
                     [hash |-> attempt[a].body, says |-> None, lease |-> now]]
     /\ attempt' = [attempt EXCEPT ![a].at = "handling", ![a].lease = now]
  /\ UNCHANGED <<clock, done, stolen, faults>>

\* IntegrityError: somebody's row is there.
Contends(a) ==
  /\ attempt[a].at = "inserting"
  /\ RowOf(a) # NoRow
  /\ Goes(a, "inspecting")
  /\ UNCHANGED <<record, clock, done, stolen, faults>>

\* The row has gone since.
Vanished(a) ==
  /\ attempt[a].at = "inspecting"
  /\ RowOf(a) = NoRow
  /\ TriesAgain(a)
  /\ UNCHANGED <<record, clock, done, stolen, faults>>

FindsExpired(a) ==
  /\ attempt[a].at = "inspecting"
  /\ RowOf(a) # NoRow
  /\ RowOf(a).lease < attempt[a].stamp
  /\ attempt' = [attempt EXCEPT ![a].at = "reclaiming", ![a].lease = RowOf(a).lease]
  /\ UNCHANGED <<record, clock, done, stolen, faults>>

\* The DELETE names the key, so it takes whatever row the key has by now.
Reclaims(a) ==
  /\ attempt[a].at = "reclaiming"
  /\ record' = [record EXCEPT ![attempt[a].key] = NoRow]
  /\ stolen' = IF RowOf(a) # NoRow /\ RowOf(a).lease # attempt[a].lease
               THEN stolen \cup {attempt[a].key} ELSE stolen
  /\ TriesAgain(a)
  /\ UNCHANGED <<clock, done, faults>>

\* 409: the key is for another request, or its request is still running.
Refuses(a) ==
  /\ attempt[a].at = "inspecting"
  /\ RowOf(a) # NoRow
  /\ RowOf(a).lease >= attempt[a].stamp
  /\ RowOf(a).hash # attempt[a].body \/ ~ Final(RowOf(a))
  /\ Ends(a, Conflict)
  /\ UNCHANGED <<record, clock, done, stolen, faults>>

\* Mutant of Replays: does not compare the hashes.
ReplaysToAnyone(a) ==
  /\ attempt[a].at = "inspecting"
  /\ RowOf(a) # NoRow
  /\ RowOf(a).lease >= attempt[a].stamp
  /\ Final(RowOf(a))
  /\ attempt' = [attempt EXCEPT ![a].at = "done",
                                ![a].answer = Accepted(RowOf(a).says),
                                ![a].lease = RowOf(a).lease]
  /\ UNCHANGED <<record, clock, done, stolen, faults>>

\* The stored response, without running the handler.
Replays(a) ==
  /\ attempt[a].at = "inspecting"
  /\ RowOf(a) # NoRow
  /\ RowOf(a).lease >= attempt[a].stamp
  /\ RowOf(a).hash = attempt[a].body /\ Final(RowOf(a))
  /\ attempt' = [attempt EXCEPT ![a].at = "done",
                                ![a].answer = Accepted(RowOf(a).says),
                                ![a].lease = RowOf(a).lease]
  /\ UNCHANGED <<record, clock, done, stolen, faults>>

-----------------------------------------------------------------------------
(* The handler: operator_write. *)

\* Mutant of Rejects: only the exception path frees the key.
RejectsAndKeeps(a) ==
  /\ attempt[a].at = "handling"
  /\ Ends(a, Error)
  /\ UNCHANGED <<record, clock, done, stolen, faults>>

\* 401, 403, 404, 422: refused before operator_write is reached.
Rejects(a) ==
  /\ attempt[a].at = "handling"
  /\ Errs(a)
  /\ UNCHANGED faults

\* AuditEmitter.emit publishes the audit event first ...
Announces(a) ==
  /\ attempt[a].at = "handling"
  /\ Leaves(a, "announced", "auditing")

\* ... and appends it to the audit chain second: the gate.
Audits(a) ==
  /\ attempt[a].at = "auditing"
  /\ Leaves(a, "audited", "persisting")

\* Mutant of AuditFails: the failure is logged and the write goes on.
AuditFailsOpen(a) ==
  /\ attempt[a].at \in {"handling", "auditing"}
  /\ Fails
  /\ Goes(a, "persisting")
  /\ UNCHANGED <<record, clock, done, stolen>>

\* Either of them raises: 503, or 500 when the bus client's error is no OSError.
AuditFails(a) ==
  /\ attempt[a].at \in {"handling", "auditing"}
  /\ Fails
  /\ Errs(a)

\* persist_event, first half: the identity rows, for the operations that have any.
WritesState(a) ==
  /\ attempt[a].at = "persisting"
  /\ "state" \in Remaining(a)
  /\ Leaves(a, "state", "persisting")

\* persist_event, second half: the event log row.
AppendsEvent(a) ==
  /\ attempt[a].at = "persisting"
  /\ Remaining(a) = {"log"}
  /\ Leaves(a, "log", "persisting")

PersistFails(a) ==
  /\ attempt[a].at = "persisting"
  /\ Remaining(a) # {}
  /\ Fails
  /\ Errs(a)

\* The 202, which the client gets before the row is finalized.
Accepts(a) ==
  /\ attempt[a].at = "persisting"
  /\ Remaining(a) = {}
  /\ attempt' = [attempt EXCEPT ![a].at = "finalizing", ![a].answer = Accepted(a)]
  /\ UNCHANGED <<record, clock, stolen>>

Publishes(a) ==
  /\ Accepts(a)
  /\ done' = [done EXCEPT ![a] = @ \cup {"sent"}]
  /\ UNCHANGED faults

\* OSError, ConnectionError, TimeoutError: logged, and the 202 goes out anyway.
PublishFails(a) ==
  /\ Accepts(a)
  /\ Fails
  /\ UNCHANGED done

\* Any other error of the bus client is not caught.
PublishRaises(a) ==
  /\ attempt[a].at = "persisting"
  /\ Remaining(a) = {}
  /\ Fails
  /\ Errs(a)

-----------------------------------------------------------------------------
(* The middleware: settling the key. *)

\* Mutant of Finalizes: frees the key as after an error.
FinalizesAndFrees(a) ==
  /\ attempt[a].at = "finalizing"
  /\ record' = [record EXCEPT ![attempt[a].key] = NoRow]
  /\ Goes(a, "done")
  /\ UNCHANGED <<clock, done, stolen, faults>>

\* By key: when the row was taken away, the response goes into its successor,
\* or nowhere.
Finalizes(a) ==
  /\ attempt[a].at = "finalizing"
  /\ record' = IF RowOf(a) = NoRow THEN record
               ELSE [record EXCEPT ![attempt[a].key].says = a]
  /\ Goes(a, "done")
  /\ UNCHANGED <<clock, done, stolen, faults>>

Drops(a) ==
  /\ attempt[a].at = "dropping"
  /\ record' = [record EXCEPT ![attempt[a].key] = NoRow]
  /\ Goes(a, "done")
  /\ UNCHANGED <<clock, done, stolen, faults>>

-----------------------------------------------------------------------------
(* Deaths and time. *)

\* The worker dies, or the call that was to settle the key fails: the request
\* goes no further, its row stays as it is.
CutShort(a) ==
  /\ attempt[a].at \in Winning \cup Losing
  /\ Fails
  /\ Goes(a, "cut")
  /\ UNCHANGED <<record, clock, done, stolen>>

\* Seven days pass over a row.  No request that won the key, or was about to
\* delete its row, is still at it by then.
Lapse(k) ==
  /\ record[k] # NoRow
  /\ clock[k] < MaxLapses
  /\ \A a \in Attempts :
       attempt[a].key = k => attempt[a].at \notin Winning \cup {"reclaiming"}
  /\ clock' = [clock EXCEPT ![k] = @ + 1]
  /\ UNCHANGED <<record, attempt, done, stolen, faults>>

-----------------------------------------------------------------------------
(* The specification. *)

Reserve(a) ==
  \/ Reserves(a) \/ Contends(a) \/ Vanished(a) \/ FindsExpired(a)
  \/ Reclaims(a) \/ Refuses(a) \/ Replays(a)

Handle(a) ==
  \/ Rejects(a) \/ Announces(a) \/ Audits(a) \/ WritesState(a)
  \/ AppendsEvent(a) \/ Publishes(a)

Settle(a) == Finalizes(a) \/ Drops(a)

Break(a) ==
  AuditFails(a) \/ PersistFails(a) \/ PublishFails(a) \/ PublishRaises(a) \/ CutShort(a)

Next ==
  \/ \E a \in Attempts :
       \/ \E k \in Keys, b \in Bodies : Post(a, k, b)
       \/ Reserve(a)
       \/ Handle(a)
       \/ Settle(a)
       \/ Break(a)
  \/ \E k \in Keys : Lapse(k)

Spec == Init /\ [][Next]_vars

\* A worker's event loop runs what can run.
LiveSpec == Spec /\ \A a \in Attempts : WF_vars(Reserve(a) \/ Handle(a) \/ Settle(a))

-----------------------------------------------------------------------------
(* Properties. *)

\* Types of the table and of the requests; two tries, no more.
TypeOK ==
  /\ record \in [Keys -> Row \cup {NoRow}]
  /\ clock \in [Keys -> Nat]
  /\ attempt \in [Attempts -> Attempt]
  /\ done \in [Attempts -> SUBSET Effects]
  /\ stolen \subseteq Keys
  /\ faults \in Nat

Accepts202(a) == attempt[a].answer.kind = "accepted"

\* The event a client was told of.
Told(a) == attempt[a].answer.event

\* Two requests with one key and one lease, which nobody's reclaim disturbed.
Peers(a, b) ==
  /\ a # b
  /\ attempt[a].key = attempt[b].key
  /\ attempt[a].lease = attempt[b].lease
  /\ attempt[a].key \notin stolen

\* However requests with one key race, fail or die, one of them at most has its
\* event on the bus before the key's row expires (reserve_idempotency_record).
OneEffectPerLease ==
  \A a, b \in Attempts :
    "sent" \in done[a] /\ "sent" \in done[b] => ~ Peers(a, b)

\* Every 202 a key gives out before its row expires is for one and the same event.
OneAnswerPerLease ==
  \A a, b \in Attempts :
    Accepts202(a) /\ Accepts202(b) /\ Peers(a, b) => Told(a) = Told(b)

\* A 202, first-hand or replayed, is for an event that is in the audit chain with
\* everything its operation persists, and that the client's own request asked for
\* (_handle_contended compares the hashes).
AcceptedIsDurable ==
  \A a \in Attempts : Accepts202(a) =>
    /\ "audited" \in done[Told(a)]
    /\ Writes[attempt[Told(a)].body] \subseteq done[Told(a)]
    /\ attempt[Told(a)].key = attempt[a].key
    /\ attempt[a].key \notin stolen => attempt[Told(a)].body = attempt[a].body

\* The order of operator_write, whatever fails on the way: nothing of an operation
\* is persisted before its audit row, nothing is published before all of it is.
GateOrder ==
  \A a \in Attempts :
    /\ done[a] \cap {"state", "log"} # {} => "audited" \in done[a]
    /\ "sent" \in done[a] =>
         {"audited"} \cup Writes[attempt[a].body] \subseteq done[a]

\* A pending row, which answers 409 to every retry, has a request that will settle
\* it, or had one that was cut short.
PendingHasHolder ==
  \A k \in Keys : record[k] # NoRow /\ ~ Final(record[k]) =>
    \E a \in Attempts : /\ attempt[a].key = k
                        /\ attempt[a].at \in Winning \cup {"cut"}

\* A stored response is never replaced, and is deleted only after it expired.
AnswerKept ==
  [][\A k \in Keys :
       /\ record[k] # NoRow
       /\ Final(record[k])
       /\ record'[k] # record[k]
       /\ k \notin stolen'
       => record'[k] = NoRow /\ record[k].lease < clock[k]]_vars

-----------------------------------------------------------------------------
(* What documents say and the model refutes; the README tells how.          *)

\* "two concurrent identical POSTs cannot both fire bus events": OneEffectPerLease
\* without its excuse (the reclaim of an expired row).
NeverBothFire ==
  \A a, b \in Attempts :
    /\ a # b
    /\ "sent" \in done[a] /\ "sent" \in done[b]
    /\ attempt[a].key = attempt[b].key
    => attempt[a].lease # attempt[b].lease

\* "Persist the audit row ... Failure: 503 to the client; no bus message is
\* published" (AuditEmitter.emit publishes before it appends).
AnnouncedIsAudited ==
  \A a \in Attempts :
    attempt[a].at = "done" /\ "announced" \in done[a] => "audited" \in done[a]

\* A decision that was accepted reaches the bus in the end, by "a retry walker" if
\* the publish failed (operator_write, step 3).
DecisionReachesBus ==
  \A a \in Attempts :
    (attempt[a].answer = Accepted(a)) ~> ("sent" \in done[a])
=============================================================================
