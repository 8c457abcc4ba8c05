------------------------- MODULE OperatorWriteProofs -------------------------
(***************************************************************************)
(* What holds of every operator's write, for any number of requests, keys, *)
(* operations, expiries and faults.                                        *)
(*                                                                         *)
(* The argument.  A request that won its key (Owns) is bound to the row    *)
(* it wrote, and so is a request that was answered 202 to the row that the *)
(* answer is in: while the key's lease lasts the row is there, and it says *)
(* what they were told (Bound).  So a second winner would find the row     *)
(* (Sole), and a second answer would be the first one's.  Only a reclaim   *)
(* that deletes a row it did not read breaks this, hence stolen.           *)
(***************************************************************************)
EXTENDS OperatorWrite, TLAPS

-----------------------------------------------------------------------------
(* The inductive invariant. *)

Durable(e) == {"audited"} \cup Writes[attempt[e].body] \subseteq done[e]

\* What a request has done and been told, by where it is.
Phase(a) ==
  /\ attempt[a].at \in Losing \cup {"idle", "handling"} =>
       done[a] = {} /\ attempt[a].answer = Unanswered
  /\ attempt[a].at = "auditing" =>
       done[a] = {"announced"} /\ attempt[a].answer = Unanswered
  /\ attempt[a].at = "persisting" =>
       "audited" \in done[a] /\ "sent" \notin done[a] /\ attempt[a].answer = Unanswered
  /\ attempt[a].at = "finalizing" => attempt[a].answer = Accepted(a)
  /\ attempt[a].at = "dropping" => attempt[a].answer = Error
  /\ attempt[a].at = "cut" /\ Accepts202(a) => attempt[a].answer = Accepted(a)
  /\ "sent" \in done[a] => attempt[a].answer = Accepted(a)

Phases == \A a \in Attempts : Phase(a)

\* Nothing is dated after the clock; who holds a key holds it now.
Clocks ==
  /\ \A k \in Keys : record[k].lease <= clock[k]
  /\ \A a \in Attempts :
       /\ attempt[a].stamp <= clock[attempt[a].key]
       /\ attempt[a].lease <= clock[attempt[a].key]
       /\ attempt[a].at \in Winning => attempt[a].lease = clock[attempt[a].key]
       /\ attempt[a].at = "reclaiming" => attempt[a].lease < attempt[a].stamp

\* A request that wrote its key's row and has not settled it.
Owns(a) ==
  \/ attempt[a].at \in Winning
  \/ attempt[a].at = "cut" /\ done[a] # {}

Settled(a) == attempt[a].at = "done" /\ Accepts202(a)

\* The row of its own lease is there, as long as that is the key's lease, and
\* is still pending or says what the request was told.
Bound(a) ==
  (Owns(a) \/ Settled(a)) /\ attempt[a].key \notin stolen =>
    LET r == record[attempt[a].key] IN
    /\ attempt[a].lease = clock[attempt[a].key] =>
         r # NoRow /\ r.lease = attempt[a].lease
    /\ r # NoRow /\ r.lease = attempt[a].lease =>
         /\ Owns(a) => r.says = None /\ r.hash = attempt[a].body
         /\ Settled(a) => r.says = Told(a)

Bounds == \A a \in Attempts : Bound(a)

Sole == \A a, b \in Attempts : Owns(a) /\ Owns(b) => ~ Peers(a, b)

\* A stored response is a durable decision on the row's own request.
StoredOK(k) ==
  record[k].says # None =>
    /\ Durable(record[k].says)
    /\ attempt[record[k].says].key = k
    /\ k \notin stolen => attempt[record[k].says].body = record[k].hash

Stored == \A k \in Keys : StoredOK(k)

Promises == OneAnswerPerLease /\ AcceptedIsDurable /\ GateOrder /\ PendingHasHolder

IInv == TypeOK /\ Phases /\ Clocks /\ Bounds /\ Sole /\ Stored /\ Promises

-----------------------------------------------------------------------------
(* Types of what the actions write. *)

LEMMA AttemptFields ==
  ASSUME NEW r \in Attempt
  PROVE  /\ r.at \in Places /\ r.key \in Keys /\ r.body \in Bodies
         /\ r.stamp \in Nat /\ r.tries \in 1..2 /\ r.lease \in Nat /\ r.answer \in Answers
         /\ \A p \in Places : [r EXCEPT !.at = p] \in Attempt
         /\ \A p \in Places, w \in Answers :
              [r EXCEPT !.at = p, !.answer = w] \in Attempt
         /\ \A p \in Places, n \in 1..2 :
              [r EXCEPT !.at = p, !.tries = n] \in Attempt
BY DEF Attempt

LEMMA AnswerKinds ==
  ASSUME NEW w \in Answers
  PROVE  /\ w.kind = "accepted" => w.event \in Attempts /\ w = Accepted(w.event)
         /\ w \in {Unanswered, Conflict, Error} => w.kind # "accepted"
         /\ \A e : Accepted(e).kind = "accepted" /\ Accepted(e).event = e
BY DEF Answers, Unanswered, Conflict, Error, Accepted

LEMMA RowFields ==
  ASSUME NEW r \in Row \cup {NoRow}
  PROVE  /\ r.lease \in Nat
         /\ r.says \in Attempts \cup {None}
         /\ r # NoRow => r \in Row /\ r.hash \in Bodies
         /\ r.says # None => r # NoRow
         /\ r \in Row => r # NoRow
BY OperatorWriteConstants DEF Row, NoRow

-----------------------------------------------------------------------------
(* A step of one request that leaves the table alone. *)

\* What such a step may do to request a: its place becomes r.at, its answer
\* r.answer, and D is what it has left behind.
Steps(a, r, D) ==
  /\ a \in Attempts /\ r \in Attempt
  /\ D \in SUBSET Effects /\ done[a] \subseteq D
  /\ r.key = attempt[a].key /\ r.body = attempt[a].body
  /\ r.stamp = attempt[a].stamp
  /\ \/ r.lease = attempt[a].lease /\ r.at # "reclaiming"
     \/ r.at = "reclaiming" /\ r.lease < r.stamp /\ r.answer = Unanswered
  /\ r.answer = attempt[a].answer \/ r.answer \in {Conflict, Error}
  /\ r.at \in Winning => attempt[a].at \in Winning
  /\ r.at = "cut" /\ D # {} => attempt[a].at \in Winning
  /\ attempt[a].at \in Winning \cup {"cut"} => r.at \in Winning \cup {"cut"}
  /\ r.at = "done" => r.answer.kind # "accepted"
  /\ D \cap {"state", "log"} # {} => "audited" \in D
  /\ "sent" \in D => "sent" \in done[a]
  /\ attempt' = [attempt EXCEPT ![a] = r]
  /\ done' = [done EXCEPT ![a] = D]
  /\ UNCHANGED <<record, clock, stolen>>
  /\ faults' \in Nat

LEMMA StepsKeepIInv ==
  ASSUME IInv, NEW a, NEW r, NEW D, Steps(a, r, D), Phase(a)'
  PROVE  IInv'
<1> USE DEF IInv, Promises
<1>1. TypeOK'
  BY DEF TypeOK, Steps
<1>2. /\ attempt'[a] = r /\ done'[a] = D
      /\ \A b \in Attempts \ {a} : attempt'[b] = attempt[b] /\ done'[b] = done[b]
      /\ \A b \in Attempts : /\ attempt'[b].key = attempt[b].key
                             /\ attempt'[b].body = attempt[b].body
                             /\ attempt'[b].lease = attempt[b].lease \/ attempt'[b].at = "reclaiming"
                             /\ attempt'[b].stamp = attempt[b].stamp
                             /\ done[b] \subseteq done'[b]
  BY DEF TypeOK, Steps
<1>3. \A b \in Attempts : (Accepts202(b))' => Accepts202(b) /\ Told(b)' = Told(b)
  BY <1>2, AnswerKinds DEF Steps, Accepts202, Told, Conflict, Error, Answers
<1>4. \A b \in Attempts : Owns(b)' => Owns(b)
  BY <1>2 DEF Steps, Owns
<1>5. \A b \in Attempts : Settled(b)' => Settled(b)
  BY <1>2, <1>3 DEF Steps, Settled, Accepts202
<1>lease. \A c \in Attempts : Owns(c)' \/ Accepts202(c)' => attempt'[c].lease = attempt[c].lease
  BY <1>2 DEF Steps, Owns, Accepts202, Unanswered, Winning, Running
<1>6. \A c, d \in Attempts :
        (Owns(c)' \/ Accepts202(c)') /\ (Owns(d)' \/ Accepts202(d)') =>
          (Peers(c, d)' => Peers(c, d))
  BY <1>2, <1>lease DEF Peers, Steps
<1>7. Phases'
  BY <1>2 DEF Phases, Phase, Accepts202
<1>8. Clocks'
  <2>1. /\ r.lease \in Nat /\ r.stamp \in Nat /\ clock[r.key] \in Nat
        /\ r.stamp <= clock[r.key]
        /\ r.at # "reclaiming" => r.lease <= clock[r.key]
    BY AttemptFields DEF Clocks, Steps, TypeOK
  <2>2. r.at = "reclaiming" => r.lease < r.stamp
    BY DEF Steps
  <2>3. r.lease <= clock[r.key]
    BY <2>1, <2>2
  <2> QED
    BY <1>2, <2>1, <2>2, <2>3 DEF Clocks, Steps, Winning, Running
<1>9. Bounds'
  <2> SUFFICES ASSUME NEW b \in Attempts PROVE Bound(b)'
    BY DEF Bounds
  <2>1. Bound(b)
    BY DEF Bounds
  <2>2. Settled(b)' => Told(b)' = Told(b)
    BY <1>3 DEF Settled
  <2> QED
    BY <2>1, <2>2, <1>2, <1>4, <1>5, <1>lease DEF Bound, Steps, Settled
<1>10. Sole'
  BY <1>4, <1>6 DEF Sole
<1>11. \A e \in Attempts : Durable(e) => Durable(e)'
  BY <1>2 DEF Durable
<1>12. Stored'
  <2> SUFFICES ASSUME NEW k \in Keys PROVE StoredOK(k)'
    BY DEF Stored
  <2>1. StoredOK(k)
    BY DEF Stored
  <2>2. record' = record /\ stolen' = stolen /\ record[k].says \in Attempts \cup {None}
    BY RowFields DEF Steps, TypeOK
  <2> QED
    BY <2>1, <2>2, <1>2, <1>11 DEF StoredOK
<1>13. OneAnswerPerLease'
  BY <1>3, <1>6 DEF OneAnswerPerLease
<1>14. AcceptedIsDurable'
  <2> SUFFICES ASSUME NEW b \in Attempts, Accepts202(b)'
               PROVE  /\ Durable(Told(b))'
                      /\ attempt'[Told(b)'].key = attempt'[b].key
                      /\ attempt'[b].key \notin stolen' =>
                           attempt'[Told(b)'].body = attempt'[b].body
    BY DEF AcceptedIsDurable, Durable
  <2>1. Accepts202(b) /\ Told(b)' = Told(b)
    BY <1>3
  <2>2. Told(b) \in Attempts
    BY <2>1, AnswerKinds, AttemptFields DEF TypeOK, Told, Accepts202
  <2>3. Durable(Told(b))
    BY <2>1 DEF AcceptedIsDurable, Durable
  <2> QED
    BY <2>1, <2>2, <2>3, <1>2, <1>11 DEF AcceptedIsDurable, Durable, Steps
<1>15. GateOrder'
  BY <1>2 DEF GateOrder, Steps
<1>16. PendingHasHolder'
  BY <1>2 DEF PendingHasHolder, Steps, Final
<1> QED
  BY <1>1, <1>7, <1>8, <1>9, <1>10, <1>12, <1>13, <1>14, <1>15, <1>16

LEMMA EndsKeepsIInv ==
  ASSUME IInv, NEW a \in Attempts, attempt[a].at = "inspecting",
         TriesAgain(a) \/ Ends(a, Conflict), UNCHANGED <<record, clock, done, stolen, faults>>
  PROVE  IInv'
<1> DEFINE again == [attempt[a] EXCEPT !.at = "inserting", !.tries = @ + 1]
           over  == [attempt[a] EXCEPT !.at = "done", !.answer = Conflict]
<1>1. attempt[a] \in Attempt /\ done[a] \in SUBSET Effects /\ Phase(a) /\ TypeOK
  BY DEF IInv, TypeOK, Phases
<1>2. done[a] = {} /\ attempt[a].answer = Unanswered
  BY <1>1 DEF Phase, Losing
<1>3. CASE attempt' = [attempt EXCEPT ![a] = again] /\ attempt[a].tries < 2
  <2>1. again \in Attempt
    <3>1. attempt[a].tries \in 1..2 /\ "inserting" \in Places
      BY <1>1, AttemptFields DEF Places, Losing
    <3>2. attempt[a].tries + 1 \in 1..2
      BY <3>1, <1>3
    <3> QED
      BY <1>1, <3>1, <3>2, AttemptFields
  <2>2. Steps(a, again, done[a])
    BY <1>1, <1>2, <1>3, <2>1 DEF Steps, TypeOK, Winning, Running
  <2>3. Phase(a)'
    BY <1>1, <1>2, <1>3, <2>1
    DEF Phase, TypeOK, Losing, Accepts202, Unanswered
  <2> QED
    BY <2>2, <2>3, StepsKeepIInv
<1>4. CASE attempt' = [attempt EXCEPT ![a] = over]
  <2>1. over \in Attempt
    BY <1>1 DEF Attempt, Places, Losing, Answers
  <2>2. Steps(a, over, done[a])
    BY <1>1, <1>2, <1>4, <2>1 DEF Steps, TypeOK, Winning, Running, Conflict
  <2>3. Phase(a)'
    BY <1>1, <1>2, <1>4, <2>1 DEF Phase, TypeOK, Losing
  <2> QED
    BY <2>2, <2>3, StepsKeepIInv
<1> QED
  BY <1>3, <1>4 DEF TriesAgain, Ends

\* A step that takes a request from one place to another, and no more.
LEMMA GoesKeepsIInv ==
  ASSUME IInv, NEW a \in Attempts, NEW p \in Places, Goes(a, p),
         UNCHANGED <<record, clock, done, stolen>>, faults' \in Nat,
         \/ attempt[a].at = "inserting" /\ p = "inspecting"
         \/ attempt[a].at \in Winning \cup Losing /\ p = "cut"
  PROVE  IInv'
<1> DEFINE r == [attempt[a] EXCEPT !.at = p]
<1>1. attempt[a] \in Attempt /\ done[a] \in SUBSET Effects /\ Phase(a) /\ TypeOK
  BY DEF IInv, TypeOK, Phases
<1>2. r \in Attempt
  BY <1>1 DEF Attempt
<1>3. attempt' = [attempt EXCEPT ![a] = r] /\ r.at = p /\ r.answer = attempt[a].answer
  BY <1>1 DEF Goes, Attempt
<1>4. attempt[a].at \in Losing => done[a] = {} /\ attempt[a].answer = Unanswered
  BY <1>1 DEF Phase
<1>5. GateOrder /\ TypeOK
  BY DEF IInv, Promises
<1>6. Steps(a, r, done[a])
  <2>1. p # "done" /\ p \notin Winning
    BY DEF Winning, Running
  <2> QED
    BY <1>1, <1>2, <1>3, <1>4, <1>5, <2>1 DEF Steps, TypeOK, GateOrder, Attempt, Losing, Winning, Running
<1>7. Phase(a)'
  BY <1>1, <1>2, <1>3, <1>4, AnswerKinds
  DEF Phase, TypeOK, Losing, Winning, Running, Accepts202, Unanswered, Error
<1> QED
  BY <1>6, <1>7, StepsKeepIInv

LEMMA FindsExpiredKeepsIInv ==
  ASSUME IInv, NEW a \in Attempts, FindsExpired(a)
  PROVE  IInv'
<1> DEFINE r == [attempt[a] EXCEPT !.at = "reclaiming", !.lease = RowOf(a).lease]
<1>1. /\ attempt[a] \in Attempt /\ attempt[a].at = "inspecting" /\ TypeOK
      /\ done[a] = {} /\ attempt[a].answer = Unanswered
  BY DEF IInv, TypeOK, Phases, Phase, FindsExpired, Losing
<1>2. RowOf(a).lease \in Nat
  BY <1>1, AttemptFields, RowFields DEF TypeOK, RowOf
<1>3. r \in Attempt
  BY <1>1, <1>2 DEF Attempt, Places, Losing
<1>4. attempt' = [attempt EXCEPT ![a] = r]
  BY DEF FindsExpired
<1>5. Steps(a, r, done[a])
  BY <1>1, <1>2, <1>3, <1>4 DEF Steps, FindsExpired, TypeOK, Attempt, Winning, Running
<1>6. Phase(a)'
  BY <1>1, <1>4 DEF Phase, FindsExpired, TypeOK, Attempt, Losing
<1> QED
  BY <1>5, <1>6, StepsKeepIInv

\* A step of the handler that leaves something behind and goes on.
LEMMA LeavesKeepsIInv ==
  ASSUME IInv, NEW a \in Attempts,
         NEW e \in Effects \ {"sent"}, NEW p \in {"auditing", "persisting"}, Leaves(a, e, p),
         \/ attempt[a].at = "handling" /\ p = "auditing" /\ e = "announced"
         \/ attempt[a].at = "auditing" /\ p = "persisting" /\ e = "audited"
         \/ attempt[a].at = "persisting" /\ p = "persisting"
  PROVE  IInv'
<1> DEFINE r == [attempt[a] EXCEPT !.at = p]
           D == done[a] \cup {e}
<1>1. attempt[a] \in Attempt /\ done[a] \in SUBSET Effects /\ Phase(a) /\ TypeOK
  BY DEF IInv, TypeOK, Phases
<1>2. r \in Attempt
  BY <1>1 DEF Attempt, Places, Winning, Running
<1>3. attempt' = [attempt EXCEPT ![a] = r] /\ r.at = p /\ r.answer = attempt[a].answer
  BY <1>1 DEF Goes, Leaves, Attempt
<1>4. D \in SUBSET Effects /\ done' = [done EXCEPT ![a] = D]
  BY <1>1 DEF Leaves, TypeOK
<1>5. attempt[a].answer = Unanswered /\ "sent" \notin D
  BY <1>1 DEF Phase, Losing
<1>6. D \cap {"state", "log"} # {} => "audited" \in D
  BY <1>1 DEF Phase, Losing
<1>7. Steps(a, r, D)
  BY <1>1, <1>2, <1>3, <1>4, <1>5, <1>6 DEF Steps, Leaves, TypeOK, Attempt, Winning, Running
<1>8. Phase(a)'
  BY <1>1, <1>2, <1>3, <1>4, <1>5 DEF Phase, TypeOK, Losing
<1> QED
  BY <1>7, <1>8, StepsKeepIInv

\* An error response, which frees the key next.
LEMMA ErrsKeepsIInv ==
  ASSUME IInv, NEW a \in Attempts, attempt[a].at \in Running, Errs(a), faults' \in Nat
  PROVE  IInv'
<1> DEFINE r == [attempt[a] EXCEPT !.at = "dropping", !.answer = Error]
<1>1. attempt[a] \in Attempt /\ done[a] \in SUBSET Effects /\ Phase(a) /\ TypeOK
  BY DEF IInv, TypeOK, Phases
<1>2. r \in Attempt
  BY <1>1 DEF Attempt, Places, Winning, Running, Answers
<1>3. attempt' = [attempt EXCEPT ![a] = r]
  BY <1>1 DEF Errs, TypeOK, Attempt
<1>4. "sent" \notin done[a]
  BY <1>1 DEF Phase, Running, Losing
<1>5. GateOrder
  BY DEF IInv, Promises
<1>6. Steps(a, r, done[a])
  BY <1>1, <1>2, <1>3, <1>4, <1>5 DEF Steps, Errs, GateOrder, TypeOK, Attempt, Winning, Running
<1>7. Phase(a)'
  BY <1>1, <1>2, <1>3, <1>4 DEF Phase, Errs, TypeOK, Attempt, Losing
<1> QED
  BY <1>6, <1>7, StepsKeepIInv

-----------------------------------------------------------------------------
(* Steps that begin a request, or touch the table. *)

\* Everybody's part of the invariant, ready to use.
LEMMA Parts ==
  ASSUME IInv
  PROVE  /\ TypeOK /\ OneAnswerPerLease /\ AcceptedIsDurable /\ GateOrder
         /\ PendingHasHolder /\ Sole
         /\ \A a \in Attempts : attempt[a] \in Attempt /\ Phase(a) /\ Bound(a)
         /\ \A k \in Keys : StoredOK(k) /\ record[k] \in Row \cup {NoRow}
         /\ \A a \in Attempts : Accepts202(a) =>
              /\ Told(a) \in Attempts
              /\ Durable(Told(a))
              /\ attempt[a].answer = Accepted(Told(a))
<1> USE DEF IInv, Promises
<1>1. TypeOK
  OBVIOUS
<1>2. \A a \in Attempts : attempt[a] \in Attempt /\ Phase(a) /\ Bound(a)
  BY DEF TypeOK, Phases, Bounds
<1>3. \A k \in Keys : StoredOK(k) /\ record[k] \in Row \cup {NoRow}
  BY DEF TypeOK, Stored
<1>4. \A a \in Attempts : Accepts202(a) => Durable(Told(a))
  BY DEF AcceptedIsDurable, Durable
<1>5. \A a \in Attempts : Accepts202(a) =>
        Told(a) \in Attempts /\ attempt[a].answer = Accepted(Told(a))
  BY <1>2, AttemptFields, AnswerKinds DEF Accepts202, Told
<1> QED
  BY <1>1, <1>2, <1>3, <1>4, <1>5

\* Where a request can be that was answered 202, and one that owns its key.
LEMMA AcceptedPlaces ==
  ASSUME IInv, NEW a \in Attempts, Accepts202(a)
  PROVE  /\ Settled(a) \/ Owns(a)
         /\ Owns(a) => Told(a) = a
<1>1. Phase(a) /\ attempt[a] \in Attempt /\ Durable(Told(a)) /\ Told(a) \in Attempts
  BY Parts
<1>2. attempt[a].at \in Places
  BY <1>1, AttemptFields
<1>3. attempt[a].answer.kind = "accepted"
  BY DEF Accepts202
<1>4. attempt[a].answer # Unanswered /\ attempt[a].answer # Error
  BY <1>3 DEF Unanswered, Error
<1>5. attempt[a].at \in {"finalizing", "cut", "done"}
  BY <1>1, <1>2, <1>4 DEF Phase, Places, Winning, Running, Losing
<1>6. attempt[a].at \in {"finalizing", "cut"} => Told(a) = a
  BY <1>1, <1>3 DEF Phase, Told, Accepted, Accepts202
<1>7. attempt[a].at \in {"finalizing", "cut"} => done[a] # {}
  BY <1>1, <1>6 DEF Durable
<1> QED
  BY <1>5, <1>6, <1>7 DEF Settled, Owns, Winning, Running

LEMMA PostKeepsIInv ==
  ASSUME IInv, NEW a \in Attempts, NEW k \in Keys, NEW b \in Bodies, Post(a, k, b)
  PROVE  IInv'
<1> DEFINE r == [at |-> "inserting", key |-> k, body |-> b, stamp |-> clock[k],
                 tries |-> 1, lease |-> 0, answer |-> Unanswered]
<1>1. attempt' = [attempt EXCEPT ![a] = r]
  BY DEF Post
<1>2. r \in Attempt
  BY Parts DEF Attempt, Places, Losing, Answers, TypeOK
<1>3. /\ attempt'[a] = r
      /\ \A c \in Attempts \ {a} : attempt'[c] = attempt[c]
      /\ UNCHANGED <<record, clock, done, stolen, faults>>
  BY <1>1, Parts DEF Post, TypeOK
<1>r. /\ attempt'[a].at = "inserting" /\ attempt'[a].key = k /\ attempt'[a].body = b
      /\ attempt'[a].stamp = clock[k] /\ attempt'[a].lease = 0
      /\ attempt'[a].answer = Unanswered
  BY <1>3
<1> HIDE DEF r
<1>4. done[a] = {} /\ attempt[a].at = "idle"
  BY Parts DEF Post, Phase
<1>5. TypeOK'
  BY <1>1, <1>2, <1>3, Parts DEF TypeOK
<1>6. ~ Owns(a)' /\ ~ Settled(a)' /\ ~ Accepts202(a)'
  BY <1>r, <1>3, <1>4 DEF Owns, Settled, Accepts202, Winning, Running, Unanswered
<1>7. \A c \in Attempts : c # a =>
        /\ Owns(c)' <=> Owns(c)
        /\ Settled(c)' <=> Settled(c)
        /\ Accepts202(c)' <=> Accepts202(c)
        /\ Told(c)' = Told(c)
        /\ \A d \in Attempts : d # a => (Peers(c, d)' <=> Peers(c, d))
  BY <1>3 DEF Owns, Settled, Accepts202, Told, Peers
<1>8. \A e \in Attempts : Durable(e) => e # a /\ Durable(e)'
  BY <1>3, <1>4 DEF Durable
<1>9. Phases'
  BY <1>r, <1>3, <1>4, Parts DEF Phases, Phase, Accepts202, Losing, Unanswered
<1>10. Clocks'
  BY <1>r, <1>3, Parts DEF IInv, Clocks, TypeOK, Winning, Running
<1>11. Bounds'
  BY <1>3, <1>6, <1>7, Parts DEF Bounds, Bound
<1>12. Sole'
  BY <1>6, <1>7, Parts DEF Sole
<1>13. Stored'
  <2> SUFFICES ASSUME NEW key \in Keys PROVE StoredOK(key)'
    BY DEF Stored
  <2>1. StoredOK(key) /\ record[key].says \in Attempts \cup {None}
    BY Parts, RowFields
  <2> QED
    BY <1>3, <1>8, <2>1 DEF StoredOK
<1>14. OneAnswerPerLease'
  BY <1>6, <1>7, Parts DEF OneAnswerPerLease
<1>15. AcceptedIsDurable'
  <2> SUFFICES ASSUME NEW c \in Attempts, Accepts202(c)'
               PROVE  /\ Durable(Told(c))'
                      /\ attempt'[Told(c)'].key = attempt'[c].key
                      /\ attempt'[c].key \notin stolen' =>
                           attempt'[Told(c)'].body = attempt'[c].body
    BY DEF AcceptedIsDurable, Durable
  <2>1. c # a /\ Accepts202(c) /\ Told(c)' = Told(c) /\ Told(c) \in Attempts
    BY <1>6, <1>7, Parts
  <2>2. Durable(Told(c)) /\ Told(c) # a
    BY <1>8, <2>1, Parts
  <2> QED
    BY <1>3, <1>8, <2>1, <2>2, Parts DEF AcceptedIsDurable
<1>16. GateOrder'
  BY <1>3, <1>4, Parts DEF GateOrder
<1>17. PendingHasHolder'
  BY <1>3, <1>4, Parts DEF PendingHasHolder, Winning, Running, Final
<1> QED
  BY <1>5, <1>9, <1>10, <1>11, <1>12, <1>13, <1>14, <1>15, <1>16, <1>17
  DEF IInv, Promises

\* While a request holds its key, no other 202 was given under its lease.
LEMMA HolderIsFirst ==
  ASSUME IInv, NEW a \in Attempts, attempt[a].at \in Winning,
         NEW b \in Attempts, Accepts202(b)
  PROVE  ~ Peers(a, b) /\ ~ Peers(b, a)
<1> SUFFICES ASSUME Peers(a, b) \/ Peers(b, a) PROVE FALSE
  OBVIOUS
<1>1. /\ a # b /\ attempt[b].key = attempt[a].key /\ attempt[b].lease = attempt[a].lease
      /\ attempt[a].key \notin stolen
  BY DEF Peers
<1>2. Owns(a) /\ attempt[a].lease = clock[attempt[a].key]
  BY DEF IInv, Clocks, Owns
<1>3. ~ Owns(b)
  BY <1>1, <1>2, Parts DEF Sole, Peers
<1>4. Settled(b) /\ Told(b) \in Attempts
  BY <1>3, AcceptedPlaces, Parts
<1>5. /\ RowOf(a) # NoRow /\ RowOf(a).lease = attempt[a].lease
      /\ RowOf(a).says = None
  BY <1>1, <1>2, Parts DEF Bound, RowOf
<1>6. RowOf(a).says = Told(b)
  BY <1>1, <1>4, <1>5, Parts DEF Bound, RowOf
<1> QED
  BY <1>4, <1>5, <1>6, OperatorWriteConstants

LEMMA AcceptsKeepsIInv ==
  ASSUME IInv, NEW a \in Attempts, Accepts(a),
         NEW D \in {done[a], done[a] \cup {"sent"}}, done' = [done EXCEPT ![a] = D],
         faults' \in Nat
  PROVE  IInv'
<1> DEFINE r == [attempt[a] EXCEPT !.at = "finalizing", !.answer = Accepted(a)]
<1>1. attempt' = [attempt EXCEPT ![a] = r] /\ UNCHANGED <<record, clock, stolen>>
  BY DEF Accepts
<1>2. attempt[a] \in Attempt /\ attempt[a].at = "persisting" /\ Phase(a)
  BY Parts DEF Accepts
<1>3. r \in Attempt
  BY <1>2, AttemptFields DEF Places, Winning, Answers
<1>4. /\ attempt'[a].at = "finalizing" /\ attempt'[a].answer = Accepted(a)
      /\ \A c \in Attempts \ {a} : attempt'[c] = attempt[c] /\ done'[c] = done[c]
      /\ \A c \in Attempts : /\ attempt'[c].key = attempt[c].key
                             /\ attempt'[c].body = attempt[c].body
                             /\ attempt'[c].lease = attempt[c].lease
                             /\ attempt'[c].stamp = attempt[c].stamp
                             /\ done[c] \subseteq done'[c]
      /\ done'[a] = D
  BY <1>1, <1>2, Parts DEF TypeOK, Attempt
<1> HIDE DEF r
<1>5. Durable(a) /\ "audited" \in done[a] /\ "sent" \notin done[a]
  BY <1>2 DEF Accepts, Remaining, Durable, Phase
<1>6. TypeOK'
  BY <1>1, <1>3, Parts DEF TypeOK, Effects
<1>7. Accepts202(a)' /\ Told(a)' = a /\ Owns(a) /\ Owns(a)' /\ ~ Settled(a)'
  BY <1>2, <1>4 DEF Accepted, Accepts202, Told, Owns, Settled, Winning, Running
<1>8. \A c \in Attempts \ {a} : /\ Accepts202(c)' <=> Accepts202(c)
                                /\ Told(c)' = Told(c)
                                /\ Owns(c)' <=> Owns(c)
                                /\ Settled(c)' <=> Settled(c)
  BY <1>4 DEF Accepts202, Told, Owns, Settled
<1>9. \A c, d \in Attempts : Peers(c, d)' <=> Peers(c, d)
  BY <1>1, <1>4 DEF Peers
<1>10. \A e \in Attempts : Durable(e) => Durable(e)'
  BY <1>4 DEF Durable
<1>11. Phases'
  BY <1>4, <1>5, Parts DEF Phases, Phase, Losing, Accepts202
<1>12. Clocks'
  BY <1>1, <1>2, <1>4 DEF IInv, Clocks, Winning, Running
<1>13. Bounds'
  BY <1>1, <1>4, <1>7, <1>8, Parts DEF Bounds, Bound
<1>14. Sole'
  BY <1>7, <1>8, <1>9, Parts DEF Sole
<1>15. Stored'
  <2> SUFFICES ASSUME NEW key \in Keys PROVE StoredOK(key)'
    BY DEF Stored
  <2>1. StoredOK(key) /\ record[key].says \in Attempts \cup {None}
    BY Parts, RowFields
  <2> QED
    BY <1>1, <1>4, <1>10, <2>1 DEF StoredOK
<1>16. OneAnswerPerLease'
  <2>1. attempt[a].at \in Winning
    BY <1>2 DEF Winning, Running
  <2>2. \A c \in Attempts \ {a} : Accepts202(c) => ~ Peers(a, c) /\ ~ Peers(c, a)
    BY <2>1, HolderIsFirst
  <2> QED
    BY <1>7, <1>8, <1>9, <2>2, Parts DEF OneAnswerPerLease
<1>17. AcceptedIsDurable'
  <2> SUFFICES ASSUME NEW c \in Attempts, Accepts202(c)'
               PROVE  /\ Durable(Told(c))'
                      /\ attempt'[Told(c)'].key = attempt'[c].key
                      /\ attempt'[c].key \notin stolen' =>
                           attempt'[Told(c)'].body = attempt'[c].body
    BY DEF AcceptedIsDurable, Durable
  <2>1. CASE c = a
    BY <1>5, <1>7, <1>10, <2>1
  <2>2. CASE c # a
    <3>1. Accepts202(c) /\ Told(c)' = Told(c) /\ Told(c) \in Attempts /\ Durable(Told(c))
      BY <1>8, <2>2, Parts
    <3> QED
      BY <1>1, <1>4, <1>10, <3>1, Parts DEF AcceptedIsDurable
  <2> QED
    BY <2>1, <2>2
<1>18. GateOrder'
  BY <1>4, <1>5, Parts DEF GateOrder, Durable
<1>19. PendingHasHolder'
  BY <1>1, <1>2, <1>4, Parts DEF PendingHasHolder, Winning, Running, Final
<1> QED
  BY <1>6, <1>11, <1>12, <1>13, <1>14, <1>15, <1>16, <1>17, <1>18, <1>19
  DEF IInv, Promises

LEMMA ReplaysKeepsIInv ==
  ASSUME IInv, NEW a \in Attempts, Replays(a)
  PROVE  IInv'
<1> DEFINE e == RowOf(a).says
           r == [attempt[a] EXCEPT !.at = "done", !.answer = Accepted(e),
                                   !.lease = RowOf(a).lease]
<1>1. attempt' = [attempt EXCEPT ![a] = r] /\ UNCHANGED <<record, clock, done, stolen, faults>>
  BY DEF Replays
<1>2. /\ attempt[a] \in Attempt /\ attempt[a].key \in Keys
      /\ attempt[a].at = "inspecting" /\ done[a] = {} /\ attempt[a].answer = Unanswered
  BY Parts, AttemptFields DEF Replays, Phase, Losing
<1>3. e \in Attempts /\ RowOf(a) \in Row /\ RowOf(a).lease \in Nat /\ StoredOK(attempt[a].key)
  BY <1>2, Parts, RowFields DEF Replays, RowOf, Final
<1>4. /\ Durable(e) /\ attempt[e].key = attempt[a].key
      /\ attempt[a].key \notin stolen => attempt[e].body = attempt[a].body
  BY <1>3, OperatorWriteConstants DEF Replays, StoredOK, RowOf
<1>5. r \in Attempt
  BY <1>2, <1>3 DEF Attempt, Places, Answers
<1>6. /\ attempt'[a].at = "done" /\ attempt'[a].answer = Accepted(e)
      /\ attempt'[a].lease = RowOf(a).lease
      /\ \A c \in Attempts \ {a} : attempt'[c] = attempt[c]
      /\ \A c \in Attempts : /\ attempt'[c].key = attempt[c].key
                             /\ attempt'[c].body = attempt[c].body
                             /\ attempt'[c].stamp = attempt[c].stamp
      /\ done' = done
  BY <1>1, <1>2, Parts DEF TypeOK, Attempt
<1> HIDE DEF r
<1>7. TypeOK'
  BY <1>1, <1>5, Parts DEF TypeOK
<1>8. Accepts202(a)' /\ Told(a)' = e /\ ~ Owns(a)' /\ Settled(a)' /\ ~ Accepts202(a)
  BY <1>2, <1>6 DEF Accepted, Accepts202, Told, Owns, Settled, Winning, Running, Unanswered
<1>9. \A c \in Attempts \ {a} : /\ Accepts202(c)' <=> Accepts202(c)
                                /\ Told(c)' = Told(c)
                                /\ Owns(c)' <=> Owns(c)
                                /\ Settled(c)' <=> Settled(c)
                                /\ \A d \in Attempts \ {a} : Peers(c, d)' <=> Peers(c, d)
  BY <1>1, <1>6 DEF Accepts202, Told, Owns, Settled, Peers
<1>10. \A c \in Attempts : Durable(c) => Durable(c)'
  BY <1>6 DEF Durable
<1>11. Phases'
  BY <1>2, <1>6, Parts DEF Phases, Phase, Losing, Accepts202
<1>12. Clocks'
  BY <1>1, <1>2, <1>6 DEF IInv, Clocks, Winning, Running, RowOf
<1>13. Bounds'
  <2>1. Bound(a)'
    BY <1>1, <1>2, <1>3, <1>6, <1>8, RowFields DEF Bound, RowOf
  <2>2. \A c \in Attempts \ {a} : Bound(c)'
    BY <1>1, <1>6, <1>9, Parts DEF Bound
  <2> QED
    BY <2>1, <2>2 DEF Bounds
<1>14. Sole'
  BY <1>8, <1>9, Parts DEF Sole
<1>15. Stored'
  <2> SUFFICES ASSUME NEW key \in Keys PROVE StoredOK(key)'
    BY DEF Stored
  <2>1. StoredOK(key) /\ record[key].says \in Attempts \cup {None}
    BY Parts, RowFields
  <2> QED
    BY <1>1, <1>6, <1>10, <2>1 DEF StoredOK
<1>16. OneAnswerPerLease'
  <2>1. \A c \in Attempts \ {a} :
          Accepts202(c) /\ (Peers(a, c)' \/ Peers(c, a)') => Told(c) = e
    <3> SUFFICES ASSUME NEW c \in Attempts \ {a}, Accepts202(c), Peers(a, c)' \/ Peers(c, a)'
                 PROVE  Told(c) = e
      OBVIOUS
    <3>1. /\ attempt[c].key = attempt[a].key /\ attempt[c].lease = RowOf(a).lease
          /\ attempt[c].key \notin stolen
      BY <1>1, <1>6 DEF Peers
    <3>2. RowOf(a) = record[attempt[c].key] /\ RowOf(a) # NoRow /\ e # None
      BY <1>3, <3>1, RowFields, OperatorWriteConstants DEF RowOf
    <3>3. Settled(c) \/ Owns(c)
      BY AcceptedPlaces
    <3> QED
      BY <3>1, <3>2, <3>3, Parts DEF Bound
  <2> QED
    BY <1>8, <1>9, <2>1, Parts DEF OneAnswerPerLease
<1>17. AcceptedIsDurable'
  <2> SUFFICES ASSUME NEW c \in Attempts, Accepts202(c)'
               PROVE  /\ Durable(Told(c))'
                      /\ attempt'[Told(c)'].key = attempt'[c].key
                      /\ attempt'[c].key \notin stolen' =>
                           attempt'[Told(c)'].body = attempt'[c].body
    BY DEF AcceptedIsDurable, Durable
  <2>1. CASE c = a
    BY <1>1, <1>3, <1>4, <1>6, <1>8, <1>10, <2>1
  <2>2. CASE c # a
    <3>1. Accepts202(c) /\ Told(c)' = Told(c) /\ Told(c) \in Attempts /\ Durable(Told(c))
      BY <1>9, <2>2, Parts
    <3> QED
      BY <1>1, <1>6, <1>10, <3>1, Parts DEF AcceptedIsDurable
  <2> QED
    BY <2>1, <2>2
<1>18. GateOrder'
  BY <1>6, Parts DEF GateOrder
<1>19. PendingHasHolder'
  BY <1>1, <1>2, <1>6, Parts DEF PendingHasHolder, Winning, Running, Final
<1> QED
  BY <1>7, <1>11, <1>12, <1>13, <1>14, <1>15, <1>16, <1>17, <1>18, <1>19
  DEF IInv, Promises

LEMMA ReservesKeepsIInv ==
  ASSUME IInv, NEW a \in Attempts, Reserves(a)
  PROVE  IInv'
<1> DEFINE k == attempt[a].key
           new == [hash |-> attempt[a].body, says |-> None, lease |-> clock[k]]
           r == [attempt[a] EXCEPT !.at = "handling", !.lease = clock[k]]
<1>1. /\ attempt' = [attempt EXCEPT ![a] = r] /\ record' = [record EXCEPT ![k] = new]
      /\ UNCHANGED <<clock, done, stolen, faults>>
  BY DEF Reserves
<1>2. /\ attempt[a] \in Attempt /\ k \in Keys /\ clock[k] \in Nat /\ attempt[a].at = "inserting"
      /\ done[a] = {} /\ attempt[a].answer = Unanswered /\ record[k] = NoRow
  BY Parts, AttemptFields DEF Reserves, Phase, Losing, RowOf, TypeOK
<1>3. r \in Attempt /\ new \in Row /\ new # NoRow /\ new.lease = clock[k] /\ new.says = None
      /\ new.hash = attempt[a].body
  BY <1>2, RowFields DEF Attempt, Places, Winning, Running, Row
<1>4. /\ attempt'[a].at = "handling" /\ attempt'[a].answer = Unanswered
      /\ attempt'[a].lease = clock[k]
      /\ \A c \in Attempts \ {a} : attempt'[c] = attempt[c]
      /\ \A c \in Attempts : /\ attempt'[c].key = attempt[c].key
                             /\ attempt'[c].body = attempt[c].body
                             /\ attempt'[c].stamp = attempt[c].stamp
      /\ record'[k] = new /\ \A l \in Keys \ {k} : record'[l] = record[l]
      /\ done' = done /\ clock' = clock /\ stolen' = stolen
  BY <1>1, <1>2, Parts DEF TypeOK, Attempt
<1>5. TypeOK'
  BY <1>1, <1>2, <1>3, Parts DEF TypeOK
<1> HIDE DEF r, new
<1>6. ~ Accepts202(a) /\ ~ Accepts202(a)' /\ Owns(a)' /\ ~ Settled(a)'
  BY <1>2, <1>4 DEF Accepts202, Owns, Settled, Winning, Running, Unanswered
<1>7. \A c \in Attempts \ {a} : /\ Accepts202(c)' <=> Accepts202(c)
                                /\ Told(c)' = Told(c)
                                /\ Owns(c)' <=> Owns(c)
                                /\ Settled(c)' <=> Settled(c)
                                /\ \A d \in Attempts \ {a} : Peers(c, d)' <=> Peers(c, d)
  BY <1>4 DEF Accepts202, Told, Owns, Settled, Peers
<1>8. \A c \in Attempts \ {a} :
        (Owns(c) \/ Settled(c)) /\ attempt[c].key = k /\ k \notin stolen =>
          attempt[c].lease # clock[k]
  BY <1>2, Parts DEF Bound
<1>9. Phases'
  BY <1>2, <1>4, Parts DEF Phases, Phase, Losing, Accepts202
<1>10. Clocks'
  BY <1>2, <1>3, <1>4, Parts DEF IInv, Clocks, Winning, Running, TypeOK
<1>11. Bounds'
  <2>1. Bound(a)'
    BY <1>3, <1>4, <1>6 DEF Bound
  <2>2. ASSUME NEW c \in Attempts \ {a} PROVE Bound(c)'
    <3>1. CASE attempt[c].key = k
      BY <1>3, <1>4, <1>7, <1>8, <3>1 DEF Bound
    <3>2. CASE attempt[c].key # k
      <4>1. record'[attempt[c].key] = record[attempt[c].key]
        BY <1>4, <3>2, Parts, AttemptFields
      <4> QED
        BY <1>4, <1>7, <4>1, Parts DEF Bound
    <3> QED
      BY <3>1, <3>2
  <2> QED
    BY <2>1, <2>2 DEF Bounds
<1>12. Sole'
  <2>1. \A c \in Attempts \ {a} : Owns(c) => ~ Peers(a, c)' /\ ~ Peers(c, a)'
    BY <1>4, <1>8 DEF Peers
  <2> QED
    BY <1>7, <2>1, Parts DEF Sole, Peers
<1>13. \A e \in Attempts : Durable(e) => Durable(e)'
  BY <1>4 DEF Durable
<1>14. Stored'
  <2> SUFFICES ASSUME NEW l \in Keys PROVE StoredOK(l)'
    BY DEF Stored
  <2>1. StoredOK(l) /\ record[l].says \in Attempts \cup {None}
    BY Parts, RowFields
  <2> QED
    BY <1>3, <1>4, <1>13, <2>1 DEF StoredOK
<1>15. OneAnswerPerLease'
  BY <1>6, <1>7, Parts DEF OneAnswerPerLease
<1>16. AcceptedIsDurable'
  <2> SUFFICES ASSUME NEW c \in Attempts, Accepts202(c)'
               PROVE  /\ Durable(Told(c))'
                      /\ attempt'[Told(c)'].key = attempt'[c].key
                      /\ attempt'[c].key \notin stolen' =>
                           attempt'[Told(c)'].body = attempt'[c].body
    BY DEF AcceptedIsDurable, Durable
  <2>1. Accepts202(c) /\ Told(c)' = Told(c) /\ Told(c) \in Attempts /\ Durable(Told(c))
    BY <1>6, <1>7, Parts
  <2> QED
    BY <1>4, <1>13, <2>1, Parts DEF AcceptedIsDurable
<1>17. GateOrder'
  BY <1>4, Parts DEF GateOrder
<1>18. PendingHasHolder'
  BY <1>2, <1>4, Parts DEF PendingHasHolder, Winning, Running, Final
<1> QED
  BY <1>5, <1>9, <1>10, <1>11, <1>12, <1>14, <1>15, <1>16, <1>17, <1>18
  DEF IInv, Promises

\* A step of request a that replaces or deletes its key's row, after which a
\* holds nothing.
RowStep(a, r, new) ==
  /\ a \in Attempts /\ r \in Attempt /\ new \in Row \cup {NoRow}
  /\ r.key = attempt[a].key /\ r.body = attempt[a].body
  /\ r.stamp = attempt[a].stamp /\ r.lease = attempt[a].lease
  /\ r.answer = attempt[a].answer \/ (~ Accepts202(a) /\ r.answer = Conflict)
  /\ r.at \in {"inserting", "done"}
  /\ new # NoRow => new.says # None
  /\ new.lease <= clock[attempt[a].key]
  /\ attempt' = [attempt EXCEPT ![a] = r]
  /\ record' = [record EXCEPT ![attempt[a].key] = new]
  /\ UNCHANGED <<clock, done, faults>>
  /\ stolen \subseteq stolen' /\ stolen' \subseteq Keys

LEMMA RowStepKeepsIInv ==
  ASSUME IInv, NEW a, NEW r, NEW new, RowStep(a, r, new),
         NEW k, k = attempt[a].key,
         Phase(a)', StoredOK(k)',
         \A c \in Attempts : attempt[c].key = k => Bound(c)'
  PROVE  IInv'
<1>1. a \in Attempts /\ k \in Keys /\ attempt[a] \in Attempt /\ clock[k] \in Nat
  BY Parts, AttemptFields DEF RowStep, TypeOK
<1>2. /\ attempt'[a] = r /\ done' = done /\ clock' = clock /\ stolen \subseteq stolen'
      /\ \A c \in Attempts \ {a} : attempt'[c] = attempt[c]
      /\ \A c \in Attempts : /\ attempt'[c].key = attempt[c].key
                             /\ attempt'[c].body = attempt[c].body
                             /\ attempt'[c].stamp = attempt[c].stamp
                             /\ attempt'[c].lease = attempt[c].lease
      /\ record'[k] = new /\ \A l \in Keys \ {k} : record'[l] = record[l]
  BY <1>1, Parts DEF TypeOK, RowStep
<1>3. TypeOK'
  BY <1>1, Parts DEF TypeOK, RowStep
<1>4. ~ Owns(a)'
  BY <1>2 DEF RowStep, Owns, Winning, Running
<1>5. \A c \in Attempts : Accepts202(c)' => Accepts202(c) /\ Told(c)' = Told(c)
  BY <1>2 DEF RowStep, Accepts202, Told, Conflict
<1>6. \A c \in Attempts \ {a} : (Owns(c)' <=> Owns(c)) /\ (Settled(c)' <=> Settled(c))
                                /\ Told(c)' = Told(c)
  BY <1>2 DEF Owns, Settled, Accepts202, Told
<1>7. \A c, d \in Attempts : Peers(c, d)' => Peers(c, d)
  BY <1>2 DEF Peers
<1>8. Phases'
  BY <1>2, Parts DEF Phases, Phase, Accepts202
<1>9. Clocks'
  <2>1. \A l \in Keys : record'[l].lease <= clock'[l]
    BY <1>2 DEF IInv, Clocks, RowStep
  <2> QED
    BY <1>2, <2>1 DEF IInv, Clocks, RowStep, Winning, Running
<1>10. Bounds'
  <2> SUFFICES ASSUME NEW c \in Attempts, attempt[c].key # k PROVE Bound(c)'
    BY DEF Bounds
  <2>1. c # a /\ record'[attempt[c].key] = record[attempt[c].key]
    BY <1>2, Parts, AttemptFields
  <2> QED
    BY <1>2, <1>6, <2>1, Parts DEF Bound
<1>11. Sole'
  BY <1>4, <1>6, <1>7, Parts DEF Sole
<1>12. \A e \in Attempts : Durable(e) => Durable(e)'
  BY <1>2 DEF Durable
<1>13. Stored'
  <2> SUFFICES ASSUME NEW l \in Keys \ {k} PROVE StoredOK(l)'
    BY DEF Stored
  <2>1. StoredOK(l) /\ record[l].says \in Attempts \cup {None}
    BY Parts, RowFields
  <2> QED
    BY <1>2, <1>12, <2>1 DEF StoredOK
<1>14. OneAnswerPerLease'
  BY <1>5, <1>7, Parts DEF OneAnswerPerLease
<1>15. AcceptedIsDurable'
  <2> SUFFICES ASSUME NEW c \in Attempts, Accepts202(c)'
               PROVE  /\ Durable(Told(c))'
                      /\ attempt'[Told(c)'].key = attempt'[c].key
                      /\ attempt'[c].key \notin stolen' =>
                           attempt'[Told(c)'].body = attempt'[c].body
    BY DEF AcceptedIsDurable, Durable
  <2>1. Accepts202(c) /\ Told(c)' = Told(c) /\ Told(c) \in Attempts /\ Durable(Told(c))
    BY <1>5, Parts
  <2> QED
    BY <1>2, <1>12, <2>1, Parts DEF AcceptedIsDurable
<1>16. GateOrder'
  BY <1>2, Parts DEF GateOrder
<1>17. PendingHasHolder'
  <2> SUFFICES ASSUME NEW l \in Keys, record'[l] # NoRow, ~ Final(record'[l])
               PROVE  \E c \in Attempts : /\ attempt'[c].key = l
                                          /\ attempt'[c].at \in Winning \cup {"cut"}
    BY DEF PendingHasHolder
  <2>1. l # k
    BY <1>2 DEF RowStep, Final
  <2>2. PICK c \in Attempts : attempt[c].key = l /\ attempt[c].at \in Winning \cup {"cut"}
    BY <1>2, <2>1, Parts DEF PendingHasHolder
  <2> QED
    BY <1>2, <2>1, <2>2
<1> QED
  BY <1>3, <1>8, <1>9, <1>10, <1>11, <1>13, <1>14, <1>15, <1>16, <1>17
  DEF IInv, Promises

\* With its key's row gone, nobody who has been told of the row needs it.
LEMMA DeletedRow ==
  ASSUME IInv, NEW k \in Keys, NEW a \in Attempts, attempt[a].key = k,
         NEW r, RowStep(a, r, NoRow),
         k \notin stolen' =>
           \A c \in Attempts : (Owns(c)' \/ Settled(c)') /\ attempt[c].key = k =>
             attempt[c].lease # clock[k]
  PROVE  StoredOK(k)' /\ \A c \in Attempts : attempt[c].key = k => Bound(c)'
<1>1. record'[k] = NoRow /\ clock' = clock
  BY Parts DEF RowStep, TypeOK
<1>2. \A c \in Attempts : attempt'[c].key = attempt[c].key /\ attempt'[c].lease = attempt[c].lease
  BY Parts DEF RowStep, TypeOK
<1>3. StoredOK(k)'
  BY <1>1 DEF StoredOK, NoRow
<1>4. \A c \in Attempts : attempt[c].key = k => Bound(c)'
  BY <1>1, <1>2 DEF Bound
<1> QED
  BY <1>3, <1>4

LEMMA DropsKeepsIInv ==
  ASSUME IInv, NEW a \in Attempts, Drops(a)
  PROVE  IInv'
<1> DEFINE r == [attempt[a] EXCEPT !.at = "done"]
<1>1. /\ attempt[a] \in Attempt /\ attempt[a].key \in Keys /\ attempt[a].at = "dropping"
      /\ attempt[a].answer = Error /\ "sent" \notin done[a]
      /\ clock[attempt[a].key] \in Nat
  <2>1. attempt[a] \in Attempt /\ attempt[a].key \in Keys /\ clock[attempt[a].key] \in Nat
    BY Parts, AttemptFields DEF TypeOK
  <2>2. attempt[a].at = "dropping" /\ attempt[a].answer = Error
    BY Parts DEF Drops, Phase
  <2>3. Error.kind = "error" /\ Accepted(a).kind = "accepted"
    BY DEF Error, Accepted
  <2>4. "sent" \notin done[a]
    BY <2>2, <2>3, Parts DEF Phase
  <2> QED
    BY <2>1, <2>2, <2>4
<1>2. r \in Attempt /\ r.at = "done" /\ r.answer = Error
  BY <1>1, AttemptFields DEF Places, Attempt
<1>3. RowStep(a, r, NoRow)
  BY <1>1, <1>2, Parts DEF RowStep, Drops, Goes, NoRow, Attempt, TypeOK
<1>4. /\ attempt'[a] = r /\ done' = done /\ stolen' = stolen
      /\ \A c \in Attempts \ {a} : attempt'[c] = attempt[c]
  BY <1>1, Parts DEF Drops, Goes, TypeOK
<1> HIDE DEF r
<1>5. ~ Settled(a)' /\ ~ Owns(a)'
  BY <1>2, <1>4 DEF Settled, Owns, Accepts202, Error, Winning, Running
<1>6. ASSUME attempt[a].key \notin stolen', NEW c \in Attempts, Owns(c)' \/ Settled(c)',
             attempt[c].key = attempt[a].key
      PROVE  attempt[c].lease # clock[attempt[a].key]
  <2>1. c # a /\ (Owns(c) \/ Settled(c))
    BY <1>4, <1>5, <1>6 DEF Owns, Settled, Accepts202
  <2>2. attempt[a].at \in Winning /\ Owns(a) /\ attempt[a].lease = clock[attempt[a].key]
    BY <1>1 DEF IInv, Clocks, Owns, Winning
  <2>3. ~ Peers(a, c)
    BY <2>1, <2>2, HolderIsFirst, Parts DEF Sole, Settled
  <2> QED
    BY <1>4, <1>6, <2>1, <2>2, <2>3 DEF Peers
<1>7. Phase(a)'
  BY <1>1, <1>2, <1>4 DEF Phase, Losing
<1> QED
  BY <1>1, <1>3, <1>5, <1>6, <1>7, DeletedRow, RowStepKeepsIInv

LEMMA ReclaimsKeepsIInv ==
  ASSUME IInv, NEW a \in Attempts, Reclaims(a)
  PROVE  IInv'
<1> DEFINE k == attempt[a].key
           again == [attempt[a] EXCEPT !.at = "inserting", !.tries = @ + 1]
           over  == [attempt[a] EXCEPT !.at = "done", !.answer = Conflict]
<1>1. /\ attempt[a] \in Attempt /\ k \in Keys /\ attempt[a].at = "reclaiming"
      /\ attempt[a].answer = Unanswered /\ done[a] = {} /\ done' = done
      /\ clock[k] \in Nat /\ clock' = clock
  BY Parts, AttemptFields DEF Reclaims, Phase, Losing, TypeOK
<1>2. ~ Accepts202(a)
  BY <1>1 DEF Accepts202, Unanswered
<1>3. /\ stolen \subseteq stolen' /\ stolen' \subseteq Keys
      /\ k \notin stolen' =>
           k \notin stolen /\ (record[k] = NoRow \/ record[k].lease = attempt[a].lease)
  BY <1>1, Parts DEF Reclaims, RowOf, TypeOK
<1>4. /\ attempt[a].lease < attempt[a].stamp /\ attempt[a].stamp <= clock[k]
      /\ attempt[a].stamp \in Nat /\ attempt[a].lease \in Nat
  BY <1>1, AttemptFields DEF IInv, Clocks
<1>5. ASSUME NEW r \in {again, over}, attempt' = [attempt EXCEPT ![a] = r], r \in Attempt
      PROVE  IInv'
  <2>1. /\ r.at \in {"inserting", "done"}
        /\ r.key = k /\ r.body = attempt[a].body
        /\ r.stamp = attempt[a].stamp /\ r.lease = attempt[a].lease
        /\ r.at = "inserting" => r.answer = Unanswered
        /\ r.at = "done" => r.answer = Conflict
    BY <1>1, <1>5 DEF Attempt
  <2>2. RowStep(a, r, NoRow)
    BY <1>1, <1>2, <1>3, <1>5, <2>1 DEF RowStep, Reclaims, NoRow
  <2>3. /\ attempt'[a] = r /\ \A c \in Attempts \ {a} : attempt'[c] = attempt[c]
    BY <1>5, Parts DEF TypeOK
  <2> HIDE DEF again, over
  <2>4. ~ Settled(a)' /\ ~ Owns(a)'
    BY <2>1, <2>3 DEF Settled, Owns, Accepts202, Conflict, Winning, Running
  <2>5. ASSUME k \notin stolen', NEW c \in Attempts, Owns(c)' \/ Settled(c)',
               attempt[c].key = k
        PROVE  attempt[c].lease # clock[k]
    <3>1. Owns(c) \/ Settled(c)
      BY <1>1, <2>3, <2>4, <2>5 DEF Owns, Settled, Accepts202
    <3>2. record[k] = NoRow \/ record[k].lease # clock[k]
      BY <1>1, <1>3, <1>4, <2>5, Parts, RowFields
    <3> QED
      BY <1>3, <2>5, <3>1, <3>2, Parts DEF Bound
  <2>6. Phase(a)'
    BY <1>1, <2>1, <2>3 DEF Phase, Losing
  <2> QED
    BY <1>1, <2>2, <2>5, <2>6, DeletedRow, RowStepKeepsIInv
<1>6. CASE attempt[a].tries < 2 /\ attempt' = [attempt EXCEPT ![a] = again]
  <2>1. attempt[a].tries \in 1..2 /\ "inserting" \in Places
    BY <1>1, AttemptFields DEF Places, Losing
  <2>2. attempt[a].tries + 1 \in 1..2
    BY <1>6, <2>1
  <2>3. again \in Attempt
    BY <1>1, <2>1, <2>2, AttemptFields
  <2> QED
    BY <1>5, <1>6, <2>3
<1>7. CASE attempt' = [attempt EXCEPT ![a] = over]
  <2>1. over \in Attempt
    BY <1>1, AttemptFields DEF Places, Answers
  <2> QED
    BY <1>5, <1>7, <2>1
<1> QED
  BY <1>6, <1>7 DEF Reclaims, TriesAgain, Ends

LEMMA FinalizesKeepsIInv ==
  ASSUME IInv, NEW a \in Attempts, Finalizes(a)
  PROVE  IInv'
<1> SUFFICES ASSUME NEW k, k = attempt[a].key PROVE IInv'
  OBVIOUS
<1> DEFINE new == IF record[k] = NoRow THEN NoRow ELSE [record[k] EXCEPT !.says = a]
           r == [attempt[a] EXCEPT !.at = "done"]
<1>1. /\ attempt[a] \in Attempt /\ k \in Keys /\ attempt[a].at = "finalizing"
      /\ attempt[a].answer = Accepted(a) /\ clock[k] \in Nat
      /\ record[k] \in Row \cup {NoRow} /\ a # None
  BY Parts, AttemptFields, OperatorWriteConstants DEF Finalizes, Phase, TypeOK
<1>2. /\ r \in Attempt /\ r.at = "done" /\ r.answer = Accepted(a)
      /\ r.key = k /\ r.body = attempt[a].body
      /\ r.stamp = attempt[a].stamp /\ r.lease = attempt[a].lease
  BY <1>1, AttemptFields DEF Places, Attempt
<1>3. /\ record[k] = NoRow => new = NoRow
      /\ record[k] # NoRow =>
           /\ new \in Row /\ new # NoRow /\ new.says = a
           /\ new.lease = record[k].lease /\ new.hash = record[k].hash
  <2>1. CASE record[k] # NoRow
    <3>1. record[k] \in Row
      BY <1>1, <2>1
    <3>2. [record[k] EXCEPT !.says = a] \in Row
      BY <3>1 DEF Row
    <3> QED
      BY <2>1, <3>1, <3>2, RowFields DEF Row
  <2> QED
    BY <2>1
<1>4. record' = [record EXCEPT ![k] = new] /\ attempt' = [attempt EXCEPT ![a] = r]
      /\ UNCHANGED <<clock, done, stolen, faults>>
  BY <1>1, Parts DEF Finalizes, RowOf, Goes, TypeOK, Attempt
<1> HIDE DEF new, r
<1>5. record[k].lease <= clock[k] /\ attempt[a].lease = clock[k] /\ Owns(a)
  BY <1>1 DEF IInv, Clocks, Winning, Owns
<1>6. RowStep(a, r, new)
  BY <1>1, <1>2, <1>3, <1>4, <1>5, Parts DEF RowStep, TypeOK, NoRow
<1>7. /\ attempt'[a] = r /\ \A c \in Attempts \ {a} : attempt'[c] = attempt[c]
      /\ \A c \in Attempts : attempt'[c].key = attempt[c].key /\ attempt'[c].body = attempt[c].body
                             /\ attempt'[c].lease = attempt[c].lease
      /\ record'[k] = new /\ clock' = clock /\ done' = done /\ stolen' = stolen
  BY <1>1, <1>2, <1>4, Parts DEF TypeOK
<1>8. Accepts202(a) /\ Told(a) = a /\ Settled(a)' /\ Told(a)' = a /\ ~ Owns(a)' /\ Durable(a)
  <2>1. Accepts202(a) /\ Told(a) = a
    BY <1>1 DEF Accepts202, Told, Accepted
  <2>2. Settled(a)' /\ Told(a)' = a /\ ~ Owns(a)'
    BY <1>2, <1>7 DEF Settled, Accepts202, Told, Accepted, Owns, Winning, Running
  <2> QED
    BY <2>1, <2>2, Parts
<1>9. Phase(a)'
  BY <1>1, <1>2, <1>7 DEF Phase, Losing, Accepts202
<1>10. k \notin stolen =>
         record[k] # NoRow /\ record[k].lease = clock[k] /\ record[k].hash = attempt[a].body
  BY <1>5, Parts DEF Bound
<1>11. StoredOK(k)'
  <2>1. new.says # None => new.says = a /\ record[k] # NoRow
    BY <1>3 DEF NoRow
  <2>2. Durable(a)'
    BY <1>7, <1>8 DEF Durable
  <2> QED
    BY <1>3, <1>7, <1>10, <2>1, <2>2 DEF StoredOK
<1>12. ASSUME NEW c \in Attempts, attempt[c].key = k PROVE Bound(c)'
  <2>1. CASE c = a
    BY <1>2, <1>3, <1>5, <1>7, <1>8, <1>10, <2>1 DEF Bound
  <2>2. CASE c # a
    <3> SUFFICES ASSUME Owns(c)' \/ Settled(c)', k \notin stolen, attempt[c].lease = clock[k]
                 PROVE  FALSE
      BY <1>3, <1>7, <1>10, <1>12, <2>2 DEF Bound
    <3>1. Owns(c) \/ Settled(c)
      BY <1>7, <2>2 DEF Owns, Settled, Accepts202
    <3>2. Peers(a, c)
      BY <1>5, <1>12, <2>2 DEF Peers
    <3>3. attempt[a].at \in Winning
      BY <1>1 DEF Winning
    <3> QED
      BY <1>5, <3>1, <3>2, <3>3, HolderIsFirst, Parts DEF Sole, Settled
  <2> QED
    BY <2>1, <2>2
<1> QED
  BY <1>6, <1>9, <1>11, <1>12, RowStepKeepsIInv

LEMMA LapseKeepsIInv ==
  ASSUME IInv, NEW k \in Keys, Lapse(k)
  PROVE  IInv'
<1>1. UNCHANGED <<record, attempt, done, stolen, faults>> /\ clock[k] \in Nat
      /\ clock' = [clock EXCEPT ![k] = clock[k] + 1]
      /\ \A a \in Attempts : attempt[a].key = k => attempt[a].at \notin Winning
  BY Parts DEF Lapse, TypeOK
<1>2. /\ clock' \in [Keys -> Nat] /\ clock'[k] = clock[k] + 1
      /\ \A l \in Keys \ {k} : clock'[l] = clock[l]
  BY <1>1, Parts DEF TypeOK
<1>3. TypeOK'
  BY <1>1, <1>2, Parts DEF TypeOK
<1>4. Clocks'
  <2>1. \A l \in Keys : record[l].lease \in Nat /\ clock[l] \in Nat /\ clock'[l] \in Nat
                        /\ clock[l] <= clock'[l]
    BY <1>1, <1>2, Parts, RowFields DEF TypeOK
  <2>2. \A a \in Attempts : attempt[a].stamp \in Nat /\ attempt[a].lease \in Nat
                            /\ attempt[a].key \in Keys
    BY Parts, AttemptFields
  <2> QED
    BY <1>1, <1>2, <2>1, <2>2 DEF IInv, Clocks
<1>5. Bounds'
  <2> SUFFICES ASSUME NEW a \in Attempts PROVE Bound(a)'
    BY DEF Bounds
  <2>1. attempt[a].lease \in Nat /\ attempt[a].lease <= clock[attempt[a].key]
        /\ attempt[a].key \in Keys
    BY Parts, AttemptFields DEF IInv, Clocks
  <2>2. attempt[a].lease = clock'[attempt[a].key] => attempt[a].lease = clock[attempt[a].key]
    BY <1>1, <1>2, <2>1
  <2> QED
    BY <1>1, <2>2, Parts DEF Bound, Owns, Settled, Accepts202, Told
<1>6. Phases' /\ Sole' /\ Stored'
  BY <1>1, SMTT(30) DEF IInv, Phases, Phase, Sole, Owns, Peers, Stored, StoredOK, Durable, Accepts202
<1>7. OneAnswerPerLease' /\ AcceptedIsDurable' /\ GateOrder' /\ PendingHasHolder'
  BY <1>1, Parts DEF OneAnswerPerLease, AcceptedIsDurable, GateOrder, PendingHasHolder,
                     Accepts202, Told, Peers, Final
<1> QED
  BY <1>3, <1>4, <1>5, <1>6, <1>7 DEF IInv, Promises

-----------------------------------------------------------------------------
(* The theorems. *)

LEMMA InitIInv == Init => IInv
<1> SUFFICES ASSUME Init PROVE IInv
  OBVIOUS
<1>1. Idle \in Attempt
  BY OperatorWriteConstants DEF Idle, Attempt, Places, Answers
<1>2. \A a \in Attempts : /\ attempt[a] = Idle /\ attempt[a].at = "idle"
                          /\ attempt[a].answer = Unanswered
                          /\ attempt[a].stamp = 0 /\ attempt[a].lease = 0 /\ done[a] = {}
                          /\ attempt[a].key \in Keys
  BY <1>1, AttemptFields DEF Init, Idle
<1>3. \A k \in Keys : record[k] = NoRow /\ clock[k] = 0
  BY DEF Init
<1>4. TypeOK
  BY <1>1 DEF Init, TypeOK
<1>5. \A a \in Attempts : ~ Accepts202(a) /\ ~ Owns(a) /\ ~ Settled(a)
  <2>1. Unanswered.kind # "accepted"
    BY DEF Unanswered
  <2> QED
    BY <1>2, <2>1 DEF Accepts202, Owns, Settled, Winning, Running
<1>6. Phases
  BY <1>2 DEF Phases, Phase, Losing
<1>7. Clocks
  BY <1>2, <1>3 DEF Clocks, NoRow, Winning, Running
<1>8. Bounds /\ Sole /\ Stored
  BY <1>3, <1>5 DEF Bounds, Bound, Sole, Stored, StoredOK, NoRow
<1>9. Promises
  BY <1>2, <1>3, <1>5
  DEF Promises, OneAnswerPerLease, AcceptedIsDurable, GateOrder, PendingHasHolder
<1> QED
  BY <1>4, <1>6, <1>7, <1>8, <1>9 DEF IInv

LEMMA RequestKeepsIInv ==
  ASSUME IInv, NEW a \in Attempts, Reserve(a) \/ Handle(a) \/ Settle(a) \/ Break(a)
  PROVE  IInv'
<1> TypeOK /\ Phase(a) /\ faults \in Nat /\ done[a] \in SUBSET Effects
  BY Parts DEF TypeOK
<1>1. CASE Reserve(a)
  <2>1. CASE Reserves(a)
    BY <2>1, ReservesKeepsIInv
  <2>2. CASE Contends(a)
    BY <2>2, GoesKeepsIInv DEF Contends, Places, Losing
  <2>3. CASE Vanished(a) \/ Refuses(a)
    BY <2>3, EndsKeepsIInv DEF Vanished, Refuses
  <2>4. CASE FindsExpired(a)
    BY <2>4, FindsExpiredKeepsIInv
  <2>5. CASE Reclaims(a)
    BY <2>5, ReclaimsKeepsIInv
  <2>6. CASE Replays(a)
    BY <2>6, ReplaysKeepsIInv
  <2> QED
    BY <1>1, <2>1, <2>2, <2>3, <2>4, <2>5, <2>6 DEF Reserve
<1>2. CASE Handle(a)
  <2>1. CASE Rejects(a)
    BY <2>1, ErrsKeepsIInv DEF Rejects, Running
  <2>2. CASE Announces(a)
    BY <2>2, LeavesKeepsIInv DEF Announces, Effects
  <2>3. CASE Audits(a)
    BY <2>3, LeavesKeepsIInv DEF Audits, Effects
  <2>4. CASE WritesState(a)
    BY <2>4, LeavesKeepsIInv DEF WritesState, Effects
  <2>5. CASE AppendsEvent(a)
    BY <2>5, LeavesKeepsIInv DEF AppendsEvent, Effects
  <2>6. CASE Publishes(a)
    BY <2>6, AcceptsKeepsIInv DEF Publishes
  <2> QED
    BY <1>2, <2>1, <2>2, <2>3, <2>4, <2>5, <2>6 DEF Handle
<1>3. CASE Settle(a)
  BY <1>3, FinalizesKeepsIInv, DropsKeepsIInv DEF Settle
<1>4. CASE Break(a)
  <2> faults' \in Nat
    BY <1>4 DEF Break, AuditFails, PersistFails, PublishFails, PublishRaises, CutShort, Fails
  <2>1. CASE AuditFails(a) \/ PersistFails(a) \/ PublishRaises(a)
    BY <2>1, ErrsKeepsIInv DEF AuditFails, PersistFails, PublishRaises, Running
  <2>2. CASE PublishFails(a)
    <3>1. done' = [done EXCEPT ![a] = done[a]] /\ Accepts(a)
      BY <2>2 DEF PublishFails, TypeOK
    <3> QED
      BY <3>1, AcceptsKeepsIInv
  <2>3. CASE CutShort(a)
    BY <2>3, GoesKeepsIInv DEF CutShort, Places
  <2> QED
    BY <1>4, <2>1, <2>2, <2>3 DEF Break
<1> QED
  BY <1>1, <1>2, <1>3, <1>4

\* IInv holds of every reachable state.
THEOREM OperatorInductive == Spec => []IInv
<1>1. Init => IInv
  BY InitIInv
<1>2. IInv /\ [Next]_vars => IInv'
  <2> SUFFICES ASSUME IInv, [Next]_vars PROVE IInv'
    OBVIOUS
  <2>1. CASE Next
    BY <2>1, PostKeepsIInv, RequestKeepsIInv, LapseKeepsIInv DEF Next
  <2>2. CASE UNCHANGED vars
    <3>1. TypeOK' /\ Phases' /\ Clocks' /\ Bounds' /\ Sole' /\ Stored'
      BY <2>2 DEF vars, IInv, TypeOK, Phases, Phase, Clocks, Bounds, Bound, Sole, Stored,
                  StoredOK, Durable, Owns, Settled, Accepts202, Told, Peers
    <3>2. Promises'
      BY <2>2 DEF vars, IInv, Promises, OneAnswerPerLease, AcceptedIsDurable, GateOrder,
                  PendingHasHolder, Accepts202, Told, Peers, Final
    <3> QED
      BY <3>1, <3>2 DEF IInv
  <2> QED
    BY <2>1, <2>2
<1> QED
  BY <1>1, <1>2, PTL DEF Spec

\* The table and the requests keep their types; the insert is tried twice at most.
THEOREM OperatorTypeCorrect == Spec => []TypeOK
<1>1. IInv => TypeOK
  BY DEF IInv
<1> QED
  BY <1>1, OperatorInductive, PTL

\* Every 202 that a key gives out under one lease is for one event.
THEOREM OneAnswerPerLeaseHolds == Spec => []OneAnswerPerLease
<1>1. IInv => OneAnswerPerLease
  BY DEF IInv, Promises
<1> QED
  BY <1>1, OperatorInductive, PTL

\* Under one lease a key puts one event on the bus at most: a request that sent one
\* was told of its own, and all are told of the same.
THEOREM OneEffectPerLeaseHolds == Spec => []OneEffectPerLease
<1>1. ASSUME IInv PROVE OneEffectPerLease
  <2> SUFFICES ASSUME NEW a \in Attempts, NEW b \in Attempts,
                      "sent" \in done[a], "sent" \in done[b], Peers(a, b)
               PROVE  FALSE
    BY DEF OneEffectPerLease
  <2>1. attempt[a].answer = Accepted(a) /\ attempt[b].answer = Accepted(b)
    BY <1>1, Parts DEF Phase
  <2>2. Accepts202(a) /\ Accepts202(b) /\ Told(a) = a /\ Told(b) = b
    BY <2>1 DEF Accepts202, Told, Accepted
  <2> QED
    BY <1>1, <2>2, Parts DEF OneAnswerPerLease, Peers
<1> QED
  BY <1>1, OperatorInductive, PTL

\* A 202 is for an event that is audited, persisted, and was asked for.
THEOREM AcceptedIsDurableHolds == Spec => []AcceptedIsDurable
<1>1. IInv => AcceptedIsDurable
  BY DEF IInv, Promises
<1> QED
  BY <1>1, OperatorInductive, PTL

\* Nothing before the audit row, nothing published before all is persisted.
THEOREM GateOrderHolds == Spec => []GateOrder
<1>1. IInv => GateOrder
  BY DEF IInv, Promises
<1> QED
  BY <1>1, OperatorInductive, PTL

\* A pending row has a request that will settle it, or had one that was cut short.
THEOREM PendingHasHolderHolds == Spec => []PendingHasHolder
<1>1. IInv => PendingHasHolder
  BY DEF IInv, Promises
<1> QED
  BY <1>1, OperatorInductive, PTL

\* A stored response is never replaced, and is deleted only after it expired: those
\* who could touch it hold the key, and who holds a key has a pending row.
THEOREM AnswerKeptHolds == Spec => AnswerKept
<1>1. ASSUME IInv, [Next]_vars, NEW k \in Keys
      PROVE  /\ record[k] # NoRow
             /\ Final(record[k])
             /\ record'[k] # record[k]
             /\ k \notin stolen'
             => record'[k] = NoRow /\ record[k].lease < clock[k]
  <2> SUFFICES ASSUME record[k] # NoRow, Final(record[k]), record'[k] # record[k],
                      k \notin stolen'
               PROVE  record'[k] = NoRow /\ record[k].lease < clock[k]
    OBVIOUS
  <2>1. PICK a \in Attempts :
          /\ attempt[a].key = k
          /\ Reserves(a) \/ Reclaims(a) \/ Finalizes(a) \/ Drops(a)
    <3>1. record' # record
      OBVIOUS
    <3>2. PICK a \in Attempts : Reserves(a) \/ Reclaims(a) \/ Finalizes(a) \/ Drops(a)
      BY <1>1, <3>1 DEF Next, vars, Post, Reserve, Contends, Vanished, FindsExpired, Refuses,
         Replays, Handle, Rejects, Errs, Announces, Leaves, Audits, WritesState, AppendsEvent,
         Publishes, Accepts, Settle, Break, AuditFails, PersistFails, PublishFails,
         PublishRaises, CutShort, Lapse
    <3>3. attempt[a].key = k
      BY <1>1, <3>2, Parts DEF Reserves, Reclaims, Finalizes, Drops, TypeOK
    <3> QED
      BY <3>2, <3>3
  <2>2. CASE Reserves(a)
    BY <2>1, <2>2 DEF Reserves, RowOf
  <2>3. CASE Reclaims(a)
    <3>1. record'[k] = NoRow /\ record[k].lease = attempt[a].lease
      BY <1>1, <2>1, <2>3, Parts DEF Reclaims, RowOf, TypeOK
    <3>2. /\ attempt[a].lease < attempt[a].stamp /\ attempt[a].stamp <= clock[k]
          /\ attempt[a].stamp \in Nat /\ attempt[a].lease \in Nat /\ clock[k] \in Nat
      BY <1>1, <2>1, <2>3, Parts, AttemptFields DEF IInv, Clocks, TypeOK, Reclaims
    <3> QED
      BY <3>1, <3>2
  <2>4. CASE Finalizes(a) \/ Drops(a)
    <3>1. attempt[a].at \in Winning /\ Owns(a) /\ stolen' = stolen
      BY <2>4 DEF Finalizes, Drops, Winning, Owns
    <3>2. attempt[a].lease = clock[k]
      BY <1>1, <2>1, <3>1 DEF IInv, Clocks
    <3>3. record[k].says = None
      BY <1>1, <2>1, <3>1, <3>2, Parts DEF Bound
    <3> QED
      BY <3>3 DEF Final
  <2> QED
    BY <2>1, <2>2, <2>3, <2>4
<1>2. IInv /\ [Next]_vars =>
        [\A k \in Keys :
           /\ record[k] # NoRow
           /\ Final(record[k])
           /\ record'[k] # record[k]
           /\ k \notin stolen'
           => record'[k] = NoRow /\ record[k].lease < clock[k]]_vars
  BY <1>1
<1> QED
  BY <1>2, OperatorInductive, PTL DEF Spec, AnswerKept
=============================================================================
