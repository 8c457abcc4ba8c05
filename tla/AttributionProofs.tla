-------------------------- MODULE AttributionProofs --------------------------
(***************************************************************************)
(* Proofs about Attribution, for any number of actors, verdicts, commands  *)
(* and handlers in flight.                                                 *)
(*                                                                         *)
(* Rows come first: an id, once it has a row, keeps it, so that a handler  *)
(* can rely on the row it was started for.  Personas come second: each has *)
(* a representative, and whatever a persona, a handler's stale view of it  *)
(* or an operator's command has named is connected to that.                *)
(* Verdicts come last: one that closes a linkage is on its way to the row  *)
(* or the row is closed (LandInv), and a confirmed pair has a handler on   *)
(* its way to the personas or shares one already (ShareInv).               *)
(***************************************************************************)
EXTENDS Attribution, FiniteSetTheorems, TLAPS

-----------------------------------------------------------------------------
(* Types, and what a handler carries at each place. *)

\* A persona has members and an id that was minted, and so has every home.
Lists == UNION {[S -> (SUBSET Actors) \ {{}}] : S \in SUBSET (Nat \ {0})}
Dossiers == {d \in [home : [Actors -> Nat], list : Lists, minted : Nat] :
               /\ Alive(d) \subseteq 1..d.minted
               /\ \A a \in Actors : d.home[a] \in Alive(d) \cup {0}}

TaskRecord == [kind : Kinds, no : Nat, at : Places, id : Nat, row : States, actor : SUBSET Actors,
               todo : SUBSET Actors, pair : SUBSET Actors, view : Dossiers]

TablesOK ==
  /\ profiles \in 0..MaxProfiles /\ hashed \subseteq Actors
  /\ linkage \in [Pairs -> [id : 0..Len(proposed), state : States]]
  /\ proposed \in Seq(Pairs) /\ results \subseteq 1..Len(proposed)
  /\ verdicts \in Seq(Verdicts) /\ commands \in Seq(Commands)
  /\ dossier \in Dossiers
  /\ overlap \in [rows : SUBSET Pairs, personas : BOOLEAN]

LinkOK(t) ==
  t.kind = "link" =>
    /\ t.at \in {"start", "query", "select", "write", "announce"}
    /\ \E a \in Actors : t.actor = {a} /\ a \notin t.todo
    /\ t.at \in {"write", "announce"} => t.pair \in Pairs
    /\ t.at = "write" /\ t.row = "proposed" => linkage[t.pair] # NoRow
    /\ t.at = "announce" => t.id \in 1..Len(proposed) /\ linkage[proposed[t.id]] # NoRow

VerifyOK(t) ==
  t.kind = "verify" =>
    /\ t.at \in {"start", "read", "write"}
    /\ t.no \in 1..Len(proposed) /\ linkage[proposed[t.no]] # NoRow
    /\ t.at \in {"read", "write"} => t.no \in results /\ HasRow(t.no)
    /\ t.at = "write" => t.row \notin Terminal

VerdictOK(t) ==
  t.kind = "verdict" =>
    /\ t.at \in {"start", "write", "persona", "commit"}
    /\ t.no \in 1..Len(verdicts)
    /\ t.at = "write" => t.row \notin Terminal
    /\ t.at \in {"persona", "commit"} => Verdict(t) = "confirmed" /\ t.pair = PairOf(t)

CommandOK(t) ==
  t.kind = "command" =>
    /\ t.at \in {"start", "persona", "commit"}
    /\ t.no \in 1..Len(commands)
    /\ t.at \in {"persona", "commit"} /\ ~Splits(t) => t.pair \in Pairs

TaskOK(t) == LinkOK(t) /\ VerifyOK(t) /\ VerdictOK(t) /\ CommandOK(t)

TasksOK == \A t \in tasks : t \in TaskRecord /\ TaskOK(t)

IInv == TablesOK /\ TasksOK

\* What a step leaves of what was there: every event, every row with its id.
Grown ==
  /\ \A i \in 1..Len(proposed) : i \in 1..Len(proposed') /\ proposed'[i] = proposed[i]
  /\ \A i \in 1..Len(verdicts) : i \in 1..Len(verdicts') /\ verdicts'[i] = verdicts[i]
  /\ \A i \in 1..Len(commands) : i \in 1..Len(commands') /\ commands'[i] = commands[i]
  /\ results \subseteq results'
  /\ \A p \in Pairs : linkage[p] # NoRow => linkage'[p] # NoRow /\ linkage'[p].id = linkage[p].id

StepOK == TablesOK' /\ Grown /\ \A u \in tasks' \ tasks : u \in TaskRecord /\ TaskOK(u)'

-----------------------------------------------------------------------------
(* Lemmas about the data. *)

LEMMA AppendOK ==
  ASSUME NEW S, NEW s \in Seq(S), NEW e \in S
  PROVE  /\ Append(s, e) \in Seq(S)
         /\ Len(s) \in Nat /\ Len(Append(s, e)) = Len(s) + 1
         /\ \A i \in 1..Len(s) : i \in 1..Len(Append(s, e)) /\ Append(s, e)[i] = s[i]
         /\ Append(s, e)[Len(s) + 1] = e
  OBVIOUS

LEMMA PairIsTwo ==
  ASSUME NEW p \in Pairs
  PROVE  \E x, y \in Actors : x # y /\ p = {x, y}
<1>1. p \subseteq Actors /\ IsFiniteSet(p) /\ Cardinality(p) = 2
  BY AttributionConstants, FS_Subset DEF Pairs
<1>2. p # {}
  BY <1>1, FS_EmptySet
<1>3. PICK x \in p : TRUE
  BY <1>2
<1>4. IsFiniteSet(p \ {x}) /\ Cardinality(p \ {x}) = 1
  BY <1>1, FS_RemoveElement
<1>5. p \ {x} # {}
  BY <1>4, FS_EmptySet
<1>6. PICK y : y \in p \ {x}
  BY <1>5
<1>7. Cardinality((p \ {x}) \ {y}) = 0 /\ IsFiniteSet((p \ {x}) \ {y})
  BY <1>4, <1>6, FS_RemoveElement
<1>8. (p \ {x}) \ {y} = {}
  BY <1>7, FS_EmptySet
<1>9. x \in Actors /\ y \in Actors /\ x # y /\ p = {x, y}
  BY <1>1, <1>3, <1>6, <1>8
<1> QED
  BY <1>9

LEMMA TwoIsPair ==
  ASSUME NEW x \in Actors, NEW y \in Actors, x # y
  PROVE  {x, y} \in Pairs
<1>1. IsFiniteSet({x}) /\ Cardinality({x}) = 1
  BY FS_Singleton
<1>2. IsFiniteSet({x} \cup {y}) /\ Cardinality({x} \cup {y}) = 2
  BY <1>1, FS_AddElement
<1>3. {x} \cup {y} = {x, y}
  OBVIOUS
<1> QED
  BY <1>2, <1>3 DEF Pairs

LEMMA ListIsTyped ==
  ASSUME NEW d \in Dossiers
  PROVE  /\ d.list \in [Alive(d) -> (SUBSET Actors) \ {{}}]
         /\ d.home \in [Actors -> Alive(d) \cup {0}]
         /\ d.minted \in Nat /\ Alive(d) \subseteq 1..d.minted /\ Alive(d) \in SUBSET Nat
         /\ d = [home |-> d.home, list |-> d.list, minted |-> d.minted]
<1>1. PICK S \in SUBSET (Nat \ {0}) : d.list \in [S -> (SUBSET Actors) \ {{}}]
  BY DEF Dossiers, Lists
<1>2. S = Alive(d)
  BY <1>1 DEF Alive
<1> QED
  BY <1>1, <1>2 DEF Dossiers

LEMMA TypedIsDossier ==
  ASSUME NEW A \in SUBSET Nat, NEW n \in Nat, A \subseteq 1..n,
         NEW home \in [Actors -> A \cup {0}], NEW list \in [A -> (SUBSET Actors) \ {{}}]
  PROVE  [home |-> home, list |-> list, minted |-> n] \in Dossiers
<1> DEFINE d == [home |-> home, list |-> list, minted |-> n]
<1>1. Alive(d) = A
  BY DEF Alive
<1>2. A \in SUBSET (Nat \ {0})
  OBVIOUS
<1>3. list \in Lists
  BY <1>2 DEF Lists
<1>4. home \in [Actors -> Nat]
  <2>1. A \cup {0} \subseteq Nat
    OBVIOUS
  <2> QED
    BY <2>1
<1>5. \A a \in Actors : home[a] \in A \cup {0}
  OBVIOUS
<1> QED
  BY <1>1, <1>3, <1>4, <1>5 DEF Dossiers

LEMMA EmptyIsDossier == EmptyDossier \in Dossiers
<1>1. [i \in {} |-> {}] \in [{} -> (SUBSET Actors) \ {{}}]
  OBVIOUS
<1>2. [a \in Actors |-> 0] \in [Actors -> {} \cup {0}]
  OBVIOUS
<1> QED
  BY <1>1, <1>2, TypedIsDossier DEF EmptyDossier

LEMMA NewTask ==
  ASSUME NEW kind \in Kinds, NEW no \in Nat
  PROVE  /\ Task(kind, no) \in TaskRecord
         /\ Task(kind, no).kind = kind /\ Task(kind, no).no = no /\ Task(kind, no).at = "start"
  BY EmptyIsDossier DEF Task, TaskRecord, Places, States

-----------------------------------------------------------------------------
(* Every handler carries what its place needs. *)

LEMMA StartsOK == Init => IInv
  BY EmptyIsDossier, AttributionConstants
     DEF Init, IInv, TablesOK, TasksOK, NoRow, States, Verdicts, Commands

LEMMA TaskKept ==
  ASSUME IInv, Grown, NEW t \in tasks
  PROVE  TaskOK(t)'
<1>1. TaskOK(t) /\ t \in TaskRecord
  BY DEF IInv, TasksOK
<1>2. \A i \in 1..Len(proposed) : proposed[i] \in Pairs
  BY DEF IInv, TablesOK
<1>3. LinkOK(t)'
  BY <1>1, <1>2 DEF Grown, TaskOK, LinkOK
<1>4. VerifyOK(t)'
  BY <1>1, <1>2 DEF Grown, TaskOK, VerifyOK, HasRow
<1>5. VerdictOK(t)'
  BY <1>1 DEF Grown, TaskOK, VerdictOK, Verdict, PairOf
<1>6. CommandOK(t)'
  BY <1>1 DEF Grown, TaskOK, CommandOK, Splits
<1> QED
  BY <1>3, <1>4, <1>5, <1>6 DEF TaskOK

LEMMA StepKeeps ==
  ASSUME IInv, StepOK
  PROVE  IInv'
  BY TaskKept DEF IInv, TasksOK, StepOK

LEMMA QuietMove ==
  ASSUME IInv, NEW t \in tasks, NEW u \in TaskRecord, TaskOK(u), tasks' \subseteq (tasks \ {t}) \cup {u},
         UNCHANGED <<profiles, hashed, linkage, proposed, results, verdicts, commands, dossier, overlap>>
  PROVE  StepOK
<1>1. TablesOK' /\ Grown
  BY DEF IInv, TablesOK, Grown
<1>2. TaskOK(u)'
  BY DEF TaskOK, LinkOK, VerifyOK, VerdictOK, CommandOK, HasRow, Verdict, PairOf, Splits
<1> QED
  BY <1>1, <1>2 DEF StepOK

LEMMA QuietEnd ==
  ASSUME IInv, NEW t \in tasks, End(t),
         UNCHANGED <<profiles, hashed, linkage, proposed, results, verdicts, commands, dossier, overlap>>
  PROVE  StepOK
  BY DEF End, StepOK, IInv, TablesOK, Grown

\* A task goes to another place with what it carries.
LEMMA AtTyped ==
  ASSUME NEW t \in TaskRecord, NEW place \in Places
  PROVE  /\ At(t, place) \in TaskRecord
         /\ At(t, place).at = place
         /\ At(t, place).kind = t.kind /\ At(t, place).no = t.no /\ At(t, place).id = t.id
         /\ At(t, place).row = t.row /\ At(t, place).actor = t.actor /\ At(t, place).todo = t.todo
         /\ At(t, place).pair = t.pair /\ At(t, place).view = t.view
  BY DEF At, TaskRecord

-----------------------------------------------------------------------------
(* The linker. *)

LEMMA ProfileStep ==
  ASSUME IInv, NEW a \in Actors, ProfileCurrent(a)
  PROVE  StepOK
<1>1. PICK n \in Nat : n = profiles'
  BY DEF ProfileCurrent, IInv, TablesOK
<1>2. TablesOK' /\ Grown
  BY <1>1, AttributionConstants DEF ProfileCurrent, IInv, TablesOK, Grown
<1> DEFINE u == [Task("link", n) EXCEPT !.actor = {a}]
<1>3. u \in TaskRecord /\ u.kind = "link" /\ u.at = "start" /\ u.actor = {a} /\ u.todo = {}
  BY <1>1, EmptyIsDossier DEF Task, TaskRecord, Kinds, Places, States
<1>4. tasks' = tasks \cup {u}
  BY <1>1 DEF ProfileCurrent, Start
<1> HIDE DEF u
<1>5. TaskOK(u)'
  BY <1>3 DEF TaskOK, LinkOK, VerifyOK, VerdictOK, CommandOK
<1> QED
  BY <1>2, <1>3, <1>4, <1>5 DEF StepOK

LEMMA UpsertStep ==
  ASSUME IInv, NEW t \in tasks, UpsertSimhash(t)
  PROVE  StepOK
<1>1. t \in TaskRecord /\ LinkOK(t) /\ t.kind = "link"
  BY DEF UpsertSimhash, IInv, TasksOK, TaskOK
<1>2. TablesOK' /\ Grown
  BY <1>1 DEF UpsertSimhash, IInv, TablesOK, Grown, TaskRecord
<1> DEFINE u == At(t, "query")
<1>3. u \in TaskRecord /\ u.kind = "link" /\ u.at = "query" /\ u.actor = t.actor /\ u.todo = t.todo
  BY <1>1, AtTyped DEF Places
<1>4. tasks' = (tasks \ {t}) \cup {u}
  BY DEF UpsertSimhash, Move
<1> HIDE DEF u
<1>5. TaskOK(u)'
  BY <1>1, <1>3 DEF TaskOK, LinkOK, VerifyOK, VerdictOK, CommandOK
<1> QED
  BY <1>2, <1>3, <1>4, <1>5 DEF StepOK

LEMMA NearestStep ==
  ASSUME IInv, NEW t \in tasks, NearestSimhashes(t)
  PROVE  StepOK
<1>1. t \in TaskRecord /\ LinkOK(t) /\ t.kind = "link"
  BY DEF NearestSimhashes, IInv, TasksOK, TaskOK
<1>2. PICK matches \in SUBSET (hashed \ t.actor) :
        IF matches = {} THEN End(t) ELSE Move(t, [At(t, "select") EXCEPT !.todo = matches])
  BY DEF NearestSimhashes
<1>3. matches \subseteq Actors /\ matches \cap t.actor = {}
  BY DEF IInv, TablesOK
<1> DEFINE u == [At(t, "select") EXCEPT !.todo = matches]
<1>4. u \in TaskRecord /\ u.kind = "link" /\ u.at = "select" /\ u.actor = t.actor /\ u.todo = matches
  BY <1>1, <1>3 DEF At, TaskRecord, Places
<1>5. tasks' \subseteq (tasks \ {t}) \cup {u}
  BY <1>2 DEF Move, End
<1> HIDE DEF u
<1>6. TaskOK(u)
  BY <1>1, <1>3, <1>4 DEF TaskOK, LinkOK, VerifyOK, VerdictOK, CommandOK
<1> QED
  BY <1>4, <1>5, <1>6, QuietMove DEF NearestSimhashes

LEMMA SelectStep ==
  ASSUME IInv, NEW t \in tasks, SelectProposed(t)
  PROVE  StepOK
<1>1. t \in TaskRecord /\ LinkOK(t) /\ t.kind = "link"
  BY DEF SelectProposed, IInv, TasksOK, TaskOK
<1>2. PICK b \in t.todo :
        Move(t, [At(t, "write") EXCEPT
                   !.todo = @ \ {b}, !.pair = t.actor \cup {b},
                   !.row = IF linkage[t.actor \cup {b}].state = "proposed" THEN "proposed" ELSE "absent"])
  BY DEF SelectProposed
<1>3. PICK a \in Actors : t.actor = {a} /\ a \notin t.todo
  BY <1>1 DEF LinkOK
<1>4. b \in Actors /\ a # b
  BY <1>1, <1>3 DEF TaskRecord
<1>5. t.actor \cup {b} \in Pairs
  <2>1. t.actor \cup {b} = {a, b}
    BY <1>3
  <2> QED
    BY <1>4, <2>1, TwoIsPair
<1> DEFINE r == IF linkage[t.actor \cup {b}].state = "proposed" THEN "proposed" ELSE "absent"
           u == [At(t, "write") EXCEPT !.todo = @ \ {b}, !.pair = t.actor \cup {b}, !.row = r]
<1>6. r \in States
  BY DEF States
<1>7. tasks' \subseteq (tasks \ {t}) \cup {u}
  BY <1>2 DEF Move
<1> HIDE DEF r
<1>8. /\ u \in TaskRecord /\ u.kind = "link" /\ u.at = "write" /\ u.actor = t.actor
      /\ u.todo = t.todo \ {b} /\ u.pair = t.actor \cup {b} /\ u.row = r
  BY <1>1, <1>4, <1>6 DEF At, TaskRecord, Places
<1> HIDE DEF u
<1>9. r = "proposed" => linkage[t.actor \cup {b}] # NoRow
  BY DEF r, NoRow
<1>10. TaskOK(u)
  BY <1>1, <1>3, <1>5, <1>8, <1>9 DEF TaskOK, LinkOK, VerifyOK, VerdictOK, CommandOK
<1> QED
  BY <1>7, <1>8, <1>10, QuietMove DEF SelectProposed

LEMMA InsertStep ==
  ASSUME IInv, NEW t \in tasks, InsertProposed(t)
  PROVE  StepOK
<1>1. t \in TaskRecord /\ LinkOK(t) /\ t.kind = "link" /\ t.pair \in Pairs
      /\ (t.row = "proposed" => linkage[t.pair] # NoRow)
  BY DEF InsertProposed, IInv, TasksOK, TaskOK, LinkOK
<1>2. proposed \in Seq(Pairs) /\ Len(proposed) \in Nat
      /\ linkage \in [Pairs -> [id : 0..Len(proposed), state : States]]
  BY DEF IInv, TablesOK
<1>3. PICK n \in Nat : n = Len(proposed) + 1
  BY <1>2
<1>4. /\ proposed' = Append(proposed, t.pair) /\ proposed' \in Seq(Pairs) /\ Len(proposed') = n
      /\ \A i \in 1..Len(proposed) : i \in 1..Len(proposed') /\ proposed'[i] = proposed[i]
      /\ proposed'[n] = t.pair
  BY <1>1, <1>2, <1>3, AppendOK DEF InsertProposed
<1>5. /\ linkage' \in [Pairs -> [id : 0..n, state : States]]
      /\ \A p \in Pairs : linkage[p] # NoRow => linkage'[p] # NoRow /\ linkage'[p].id = linkage[p].id
      /\ linkage'[t.pair] # NoRow
  <2>1. 0..Len(proposed) \subseteq 0..n
    BY <1>2, <1>3
  <2>2. CASE t.row = "proposed" /\ UNCHANGED linkage
    BY <1>1, <1>2, <2>1, <2>2 DEF NoRow
  <2>3. CASE linkage[t.pair] = NoRow /\ linkage' = [linkage EXCEPT ![t.pair] = [id |-> n, state |-> "proposed"]]
    BY <1>1, <1>2, <1>3, <2>1, <2>3 DEF NoRow, States
  <2> QED
    BY <1>3, <2>2, <2>3 DEF InsertProposed
<1>6. TablesOK' /\ Grown
  BY <1>2, <1>3, <1>4, <1>5 DEF InsertProposed, IInv, TablesOK, Grown
<1> DEFINE u == [At(t, "announce") EXCEPT !.id = n]
<1>7. u \in TaskRecord /\ u.kind = "link" /\ u.at = "announce" /\ u.id = n /\ u.pair = t.pair
      /\ u.actor = t.actor /\ u.todo = t.todo
  BY <1>1 DEF At, TaskRecord, Places
<1>8. tasks' = (tasks \ {t}) \cup {u}
  BY <1>3 DEF InsertProposed, Move
<1> HIDE DEF u
<1>9. TaskOK(u)'
  BY <1>1, <1>3, <1>4, <1>5, <1>7 DEF TaskOK, LinkOK, VerifyOK, VerdictOK, CommandOK
<1> QED
  BY <1>6, <1>7, <1>8, <1>9 DEF StepOK

LEMMA AnnounceStep ==
  ASSUME IInv, NEW t \in tasks, AnnounceProposed(t)
  PROVE  StepOK
<1>1. t \in TaskRecord /\ LinkOK(t) /\ t.kind = "link" /\ t.id \in 1..Len(proposed)
      /\ linkage[proposed[t.id]] # NoRow /\ t.id \in Nat
  BY DEF AnnounceProposed, IInv, TasksOK, TaskOK, LinkOK
<1>2. TablesOK' /\ Grown
  BY DEF AnnounceProposed, IInv, TablesOK, Grown
<1> DEFINE u == Task("verify", t.id)
           w == [Task("link", t.no) EXCEPT !.at = "select", !.actor = t.actor, !.todo = t.todo]
<1>3. u \in TaskRecord /\ u.kind = "verify" /\ u.no = t.id /\ u.at = "start"
  BY <1>1, NewTask DEF Kinds
<1>4. w \in TaskRecord /\ w.kind = "link" /\ w.at = "select" /\ w.actor = t.actor /\ w.todo = t.todo
  BY <1>1, EmptyIsDossier DEF Task, TaskRecord, Kinds, Places, States
<1>5. tasks' \subseteq (tasks \ {t}) \cup {u, w}
  BY DEF AnnounceProposed, AfterMatch
<1>6. UNCHANGED <<linkage, proposed>>
  BY DEF AnnounceProposed
<1> HIDE DEF u, w
<1>7. TaskOK(u)'
  BY <1>1, <1>3, <1>6 DEF TaskOK, LinkOK, VerifyOK, VerdictOK, CommandOK
<1>8. TaskOK(w)'
  BY <1>1, <1>4 DEF TaskOK, LinkOK, VerifyOK, VerdictOK, CommandOK
<1> QED
  BY <1>2, <1>3, <1>4, <1>5, <1>7, <1>8 DEF StepOK

LEMMA LinkStep ==
  ASSUME IInv, NEW t \in tasks, Link(t)
  PROVE  StepOK
<1>1. CASE InsertRefused(t)
  BY <1>1, QuietEnd DEF InsertRefused
<1> QED
  BY <1>1, UpsertStep, NearestStep, SelectStep, InsertStep, AnnounceStep DEF Link

-----------------------------------------------------------------------------
(* The verifier. *)

\* transition_linkage, its two halves.
LEMMA ReadRowStep ==
  ASSUME IInv, NEW t \in tasks, NEW p \in Pairs, NEW target, target \in Legal(linkage[p].state),
         t.kind \in {"verify", "verdict"}, t.at \in {"start", "read"},
         t.kind = "verify" => t.at = "read",
         ReadRow(t, p, target, FALSE),
         UNCHANGED <<profiles, hashed, linkage, proposed, results, verdicts, commands, dossier, overlap>>
  PROVE  StepOK
<1>1. t \in TaskRecord /\ TaskOK(t)
  BY DEF IInv, TasksOK
<1> DEFINE u == [At(t, "write") EXCEPT !.row = linkage[p].state]
<1>2. linkage[p].state \in States /\ linkage[p].state \notin Terminal
  BY DEF Legal, Terminal, IInv, TablesOK
<1>3. PICK r \in States : r = linkage[p].state
  BY <1>2
<1>4. Move(t, u)
  BY DEF ReadRow
<1> DEFINE v == [At(t, "write") EXCEPT !.row = r]
<1>5. tasks' \subseteq (tasks \ {t}) \cup {v}
  BY <1>3, <1>4 DEF Move
<1>6. v \in TaskRecord /\ v.kind = t.kind /\ v.at = "write" /\ v.no = t.no /\ v.row = r
  BY <1>1 DEF At, TaskRecord, Places
<1> HIDE DEF v
<1>7. TaskOK(v)
  BY <1>1, <1>2, <1>3, <1>6 DEF TaskOK, LinkOK, VerifyOK, VerdictOK, CommandOK, HasRow
<1> QED
  BY <1>5, <1>6, <1>7, QuietMove

LEMMA WriteRowTables ==
  ASSUME IInv, NEW t \in tasks, NEW p \in Pairs, NEW target \in {"suspected", "confirmed", "rejected"},
         WriteRow(t, p, target),
         UNCHANGED <<profiles, hashed, proposed, results, verdicts, commands, dossier>>
  PROVE  TablesOK' /\ Grown
<1>1. linkage \in [Pairs -> [id : 0..Len(proposed), state : States]]
      /\ overlap \in [rows : SUBSET Pairs, personas : BOOLEAN]
  BY DEF IInv, TablesOK
<1>2. linkage' \in [Pairs -> [id : 0..Len(proposed), state : States]]
      /\ linkage'[p].state = target /\ linkage'[p].id = linkage[p].id
      /\ \A q \in Pairs : q # p => linkage'[q] = linkage[q]
  BY <1>1 DEF WriteRow, States
<1>3. overlap' \in [rows : SUBSET Pairs, personas : BOOLEAN]
  <2>1. overlap.rows \in SUBSET Pairs /\ overlap.rows \cup {p} \in SUBSET Pairs
    BY <1>1
  <2> QED
    BY <1>1, <2>1 DEF WriteRow
<1>4. linkage'[p] # NoRow
  BY <1>2 DEF NoRow
<1>5. Grown
  BY <1>2, <1>4 DEF Grown
<1>6. TablesOK'
  BY <1>2, <1>3 DEF IInv, TablesOK
<1> QED
  BY <1>5, <1>6

LEMMA VerifyStep ==
  ASSUME IInv, NEW t \in tasks, Verify(t)
  PROVE  StepOK
<1>1. t \in TaskRecord /\ VerifyOK(t) /\ t.kind = "verify" /\ t.no \in 1..Len(proposed)
      /\ proposed[t.no] \in Pairs
  BY DEF Verify, RecordResult, VerifierReads, VerifierPromotes, IInv, TablesOK, TasksOK, TaskOK, VerifyOK
<1>2. CASE RecordResult(t)
  <2>1. TablesOK' /\ Grown
    BY <1>1, <1>2 DEF RecordResult, IInv, TablesOK, Grown
  <2> DEFINE u == At(t, "read")
  <2>2. u \in TaskRecord /\ u.kind = "verify" /\ u.at = "read" /\ u.no = t.no
    BY <1>1, AtTyped DEF Places
  <2>3. CASE HasRow(t.no) /\ results' = results \cup {t.no} /\ Move(t, u)
    <3>1. UNCHANGED <<linkage, proposed>>
      BY <1>2 DEF RecordResult
    <3>2. tasks' = (tasks \ {t}) \cup {u}
      BY <2>3 DEF Move
    <3> HIDE DEF u
    <3>3. TaskOK(u)'
      BY <1>1, <2>2, <2>3, <3>1 DEF TaskOK, LinkOK, VerifyOK, VerdictOK, CommandOK, HasRow
    <3> QED
      BY <2>1, <2>2, <3>2, <3>3 DEF StepOK
  <2>4. CASE End(t)
    BY <2>1, <2>4 DEF End, StepOK
  <2> QED
    BY <1>2, <2>3, <2>4 DEF RecordResult
<1>3. CASE VerifierReads(t)
  <2>1. CASE "suspected" \in Legal(linkage[proposed[t.no]].state)
    <3>1. ReadRow(t, proposed[t.no], "suspected", FALSE)
      BY <1>3, <2>1 DEF VerifierReads, ReadRow
    <3> QED
      BY <1>1, <1>3, <2>1, <3>1, ReadRowStep DEF VerifierReads
  <2>2. CASE "suspected" \notin Legal(linkage[proposed[t.no]].state)
    BY <1>3, <2>2, QuietEnd DEF VerifierReads, ReadRow
  <2> QED
    BY <2>1, <2>2
<1>4. CASE VerifierPromotes(t)
  <2>1. TablesOK' /\ Grown
    BY <1>1, <1>4, WriteRowTables DEF VerifierPromotes
  <2> QED
    BY <1>4, <2>1 DEF VerifierPromotes, End, StepOK
<1> QED
  BY <1>2, <1>3, <1>4 DEF Verify

-----------------------------------------------------------------------------
(* The dossiers a commit can leave. *)

IsCreated(e, pair, d) ==
  /\ \A a \in Actors : e.home[a] = IF a \in pair THEN e.minted ELSE d.home[a]
  /\ Alive(e) = Alive(d) \cup {e.minted}
  /\ \A k \in Alive(e) : e.list[k] = IF k = e.minted THEN pair ELSE d.list[k]

IsJoined(e, a, i, v, d) ==
  /\ i \in Alive(d) /\ d.home[a] = 0
  /\ Alive(e) = Alive(d)
  /\ \A b \in Actors : e.home[b] = IF b = a THEN i ELSE d.home[b]
  /\ \A k \in Alive(e) : e.list[k] =
       IF k # i THEN d.list[k] ELSE IF a \in v.list[i] THEN d.list[i] ELSE v.list[i] \cup {a}

IsAbsorbed(e, keep, drop, v, d) ==
  /\ {keep, drop} \subseteq Alive(d)
  /\ Alive(e) = Alive(d) \ {drop}
  /\ \A b \in Actors : e.home[b] = IF d.home[b] = drop THEN keep ELSE d.home[b]
  /\ \A k \in Alive(e) : e.list[k] = IF k = keep THEN v.list[keep] \cup v.list[drop] ELSE d.list[k]

IsSplit(e, v, d) ==
  /\ Alive(e) \subseteq Alive(d)
  /\ \A b \in Actors : e.home[b] = d.home[b] \/ e.home[b] = 0
  /\ \A k \in Alive(e) : e.list[k] = d.list[k] \/ (k \in Alive(v) /\ e.list[k] \subseteq v.list[k])

LEMMA CreatedOK ==
  ASSUME NEW pair \in Pairs, NEW d \in Dossiers, NEW e \in Created(pair, d)
  PROVE  e \in Dossiers /\ e.minted = d.minted + 1 /\ IsCreated(e, pair, d)
<1> DEFINE i == d.minted + 1
           home == [a \in Actors |-> IF a \in pair THEN i ELSE d.home[a]]
           list == [k \in Alive(d) \cup {i} |-> IF k = i THEN pair ELSE d.list[k]]
<1>1. /\ d.list \in [Alive(d) -> (SUBSET Actors) \ {{}}]
      /\ d.home \in [Actors -> Alive(d) \cup {0}]
      /\ d.minted \in Nat /\ Alive(d) \subseteq 1..d.minted /\ Alive(d) \in SUBSET Nat
  BY ListIsTyped
<1>2. e = [home |-> home, list |-> list, minted |-> i]
  BY DEF Created
<1>3. pair \in (SUBSET Actors) \ {{}}
  BY PairIsTwo DEF Pairs
<1>4. Alive(d) \cup {i} \subseteq 1..i /\ Alive(d) \cup {i} \in SUBSET Nat /\ i \in Nat
  BY <1>1
<1>5. home \in [Actors -> (Alive(d) \cup {i}) \cup {0}]
  BY <1>1
<1>6. list \in [Alive(d) \cup {i} -> (SUBSET Actors) \ {{}}]
  BY <1>1, <1>3
<1>7. e \in Dossiers
  <2> HIDE DEF home, list
  <2> QED
    BY <1>2, <1>4, <1>5, <1>6, TypedIsDossier
<1>8. Alive(e) = Alive(d) \cup {i} /\ e.minted = i /\ e.home = home /\ e.list = list
  BY <1>2 DEF Alive
<1> QED
  BY <1>7, <1>8 DEF IsCreated

LEMMA JoinedOK ==
  ASSUME NEW v \in Dossiers, NEW d \in Dossiers, NEW a \in Actors, NEW i \in Alive(v),
         NEW e \in Joined(a, i, v, d)
  PROVE  e \in Dossiers /\ e.minted = d.minted /\ IsJoined(e, a, i, v, d)
<1> DEFINE home == [d.home EXCEPT ![a] = i]
           list == [d.list EXCEPT ![i] = IF a \in v.list[i] THEN @ ELSE v.list[i] \cup {a}]
<1>1. /\ d.list \in [Alive(d) -> (SUBSET Actors) \ {{}}]
      /\ d.home \in [Actors -> Alive(d) \cup {0}]
      /\ d.minted \in Nat /\ Alive(d) \subseteq 1..d.minted /\ Alive(d) \in SUBSET Nat
      /\ d = [home |-> d.home, list |-> d.list, minted |-> d.minted]
  BY ListIsTyped
<1>2. v.list[i] \in (SUBSET Actors) \ {{}}
  BY ListIsTyped
<1>3. i \in Alive(d) /\ d.home[a] = 0
  BY DEF Joined
<1>4. e = [home |-> home, list |-> list, minted |-> d.minted]
  BY <1>1, <1>3 DEF Joined
<1>5. home \in [Actors -> Alive(d) \cup {0}]
  BY <1>1, <1>3
<1>6. list \in [Alive(d) -> (SUBSET Actors) \ {{}}]
  BY <1>1, <1>2
<1>7. e \in Dossiers
  <2> HIDE DEF home, list
  <2> QED
    BY <1>1, <1>4, <1>5, <1>6, TypedIsDossier
<1>8. Alive(e) = Alive(d) /\ e.minted = d.minted /\ e.home = home /\ e.list = list
  BY <1>1, <1>4 DEF Alive
<1> QED
  BY <1>1, <1>3, <1>7, <1>8 DEF IsJoined

LEMMA AbsorbedOK ==
  ASSUME NEW v \in Dossiers, NEW d \in Dossiers, NEW keep \in Alive(v), NEW drop \in Alive(v), keep # drop,
         NEW e \in Absorbed(keep, drop, v, d)
  PROVE  e \in Dossiers /\ e.minted = d.minted /\ IsAbsorbed(e, keep, drop, v, d)
<1> DEFINE A == Alive(d) \ {drop}
           home == [a \in Actors |-> IF d.home[a] = drop THEN keep ELSE d.home[a]]
           list == [k \in A |-> IF k = keep THEN v.list[keep] \cup v.list[drop] ELSE d.list[k]]
<1>1. /\ d.list \in [Alive(d) -> (SUBSET Actors) \ {{}}]
      /\ d.home \in [Actors -> Alive(d) \cup {0}]
      /\ d.minted \in Nat /\ Alive(d) \subseteq 1..d.minted /\ Alive(d) \in SUBSET Nat
      /\ d = [home |-> d.home, list |-> d.list, minted |-> d.minted]
  BY ListIsTyped
<1>2. v.list[keep] \cup v.list[drop] \in (SUBSET Actors) \ {{}}
  BY ListIsTyped
<1>3. {keep, drop} \subseteq Alive(d)
  BY DEF Absorbed
<1>4. e = [home |-> home, list |-> list, minted |-> d.minted]
  BY <1>1, <1>3 DEF Absorbed
<1>4a. A \in SUBSET Nat /\ A \subseteq 1..d.minted
  BY <1>1
<1>5. home \in [Actors -> A \cup {0}]
  BY <1>1, <1>3
<1>6. list \in [A -> (SUBSET Actors) \ {{}}]
  BY <1>1, <1>2
<1>7. e \in Dossiers
  <2> HIDE DEF home, list, A
  <2> QED
    BY <1>1, <1>4, <1>4a, <1>5, <1>6, TypedIsDossier
<1>8. Alive(e) = A /\ e.minted = d.minted /\ e.home = home /\ e.list = list
  BY <1>1, <1>4 DEF Alive
<1> QED
  BY <1>1, <1>3, <1>7, <1>8 DEF IsAbsorbed

LEMMA SplitOK ==
  ASSUME NEW v \in Dossiers, NEW d \in Dossiers, NEW a \in Actors, NEW e \in SplitActor(a, v, d)
  PROVE  e \in Dossiers /\ e.minted = d.minted /\ IsSplit(e, v, d)
<1> DEFINE i == v.home[a]
           rest == v.list[i] \ {a}
           away == [x \in Actors |-> IF x = a /\ d.home[a] = i THEN 0 ELSE d.home[x]]
<1>1. /\ d.list \in [Alive(d) -> (SUBSET Actors) \ {{}}]
      /\ d.home \in [Actors -> Alive(d) \cup {0}]
      /\ d.minted \in Nat /\ Alive(d) \subseteq 1..d.minted /\ Alive(d) \in SUBSET Nat
      /\ d = [home |-> d.home, list |-> d.list, minted |-> d.minted]
  BY ListIsTyped
<1>2. i # 0 => i \in Alive(v) /\ v.list[i] \in (SUBSET Actors) \ {{}}
  BY ListIsTyped
<1>3. CASE i = 0
  BY <1>3 DEF SplitActor, IsSplit
<1>4. CASE i # 0 /\ rest # {}
  <2> DEFINE list == [d.list EXCEPT ![i] = rest]
  <2>1. i \in Alive(d) /\ e = [home |-> away, list |-> list, minted |-> d.minted]
    BY <1>1, <1>4 DEF SplitActor
  <2>2. away \in [Actors -> Alive(d) \cup {0}]
    BY <1>1
  <2>3. list \in [Alive(d) -> (SUBSET Actors) \ {{}}]
    BY <1>1, <1>2, <1>4
  <2>4. e \in Dossiers
    <3> HIDE DEF away, list
    <3> QED
      BY <1>1, <2>1, <2>2, <2>3, TypedIsDossier
  <2>5. Alive(e) = Alive(d) /\ e.minted = d.minted /\ e.home = away /\ e.list = list
    BY <1>1, <2>1 DEF Alive
  <2> QED
    BY <1>1, <1>2, <1>4, <2>4, <2>5 DEF IsSplit
<1>5. CASE i # 0 /\ rest = {}
  <2> DEFINE A == Alive(d) \ {i}
             list == [k \in A |-> d.list[k]]
  <2>1. Members(d, i) \subseteq {a} /\ e = [home |-> away, list |-> list, minted |-> d.minted]
    BY <1>1, <1>5 DEF SplitActor
  <2>1a. A \in SUBSET Nat /\ A \subseteq 1..d.minted
    BY <1>1
  <2>2. away \in [Actors -> A \cup {0}]
    BY <1>1, <1>5, <2>1 DEF Members
  <2>3. list \in [A -> (SUBSET Actors) \ {{}}]
    BY <1>1
  <2>4. e \in Dossiers
    <3> HIDE DEF away, list, A
    <3> QED
      BY <1>1, <2>1, <2>1a, <2>2, <2>3, TypedIsDossier
  <2>5. Alive(e) = A /\ e.minted = d.minted /\ e.home = away /\ e.list = list
    BY <1>1, <2>1 DEF Alive
  <2> QED
    BY <1>1, <2>4, <2>5 DEF IsSplit
<1> QED
  BY <1>3, <1>4, <1>5

\* The four ways a merge can go, by the homes it has read.
LEMMA MergedCases ==
  ASSUME NEW pair \in Pairs, NEW v \in Dossiers, NEW d, NEW e \in MergedActors(pair, v, d)
  PROVE  \/ e \in Created(pair, d)
         \/ e = d
         \/ \E a, b \in pair : v.home[b] \in Alive(v) /\ e \in Joined(a, v.home[b], v, d)
         \/ \E a, b \in pair : /\ v.home[a] \in Alive(v) /\ v.home[b] \in Alive(v) /\ v.home[a] # v.home[b]
                              /\ e \in Absorbed(v.home[a], v.home[b], v, d)
<1> DEFINE homes == {v.home[a] : a \in pair} \ {0}
           alone == {a \in pair : v.home[a] = 0}
           keep == Oldest(homes)
<1>1. PICK x, y \in Actors : x # y /\ pair = {x, y}
  BY PairIsTwo
<1>2. v.home \in [Actors -> Alive(v) \cup {0}] /\ Alive(v) \subseteq Nat
  BY ListIsTyped
<1>3. homes \subseteq Alive(v) /\ homes \subseteq Nat
  BY <1>1, <1>2
<1>4. CASE homes = {}
  BY <1>4 DEF MergedActors
<1>5. CASE homes # {} /\ alone # {}
  <2>1. PICK a \in alone, i \in homes : e \in Joined(a, i, v, d)
    BY <1>5, SMTT(60) DEF MergedActors
  <2>2. PICK b \in pair : i = v.home[b]
    OBVIOUS
  <2> QED
    BY <1>3, <2>1, <2>2
<1>6. CASE homes # {} /\ alone = {} /\ Cardinality(homes) = 1
  BY <1>6 DEF MergedActors
<1>7. CASE homes # {} /\ alone = {} /\ Cardinality(homes) # 1
  <2>1. PICK drop \in homes \ {keep} : e \in Absorbed(keep, drop, v, d)
    BY <1>7, SMTT(60) DEF MergedActors
  <2>2. \E i \in homes : \A j \in homes : i <= j
    <3>1. v.home[x] \in Nat /\ v.home[y] \in Nat /\ v.home[x] # 0 /\ v.home[y] # 0
      <4>1. x \notin alone /\ y \notin alone
        BY <1>7
      <4> QED
        BY <1>1, <1>2, <4>1
    <3>2. v.home[x] \in homes /\ v.home[y] \in homes
      BY <1>1, <3>1
    <3>3. \A i \in homes : i = v.home[x] \/ i = v.home[y]
      BY <1>1
    <3> HIDE DEF homes
    <3>4. CASE v.home[x] <= v.home[y]
      BY <3>1, <3>2, <3>3, <3>4
    <3>5. CASE v.home[y] <= v.home[x]
      BY <3>1, <3>2, <3>3, <3>5
    <3> QED
      BY <3>1, <3>4, <3>5
  <2>3. keep \in homes
    BY <2>2 DEF Oldest
  <2>4. PICK a \in pair, b \in pair : keep = v.home[a] /\ drop = v.home[b]
    BY <2>3
  <2> QED
    BY <1>3, <2>1, <2>3, <2>4
<1> QED
  BY <1>4, <1>5, <1>6, <1>7

-----------------------------------------------------------------------------
(* Operators and the graph service. *)

LEMMA DecideStep ==
  ASSUME IInv, NEW p \in Pairs, NEW verdict \in {"suspected", "confirmed", "rejected"},
         DecideLinkage(p, verdict)
  PROVE  StepOK
<1> DEFINE e == [verdict |-> verdict, pair |-> p]
<1>1. e \in Verdicts /\ verdicts \in Seq(Verdicts)
  BY DEF Verdicts, IInv, TablesOK
<1>2. PICK n \in Nat : n = Len(verdicts) + 1
  BY <1>1, AppendOK
<1>3. verdicts' = Append(verdicts, e) /\ tasks' = tasks \cup {Task("verdict", n)}
  BY <1>2 DEF DecideLinkage, Start
<1> HIDE DEF e
<1>4. /\ verdicts' \in Seq(Verdicts) /\ n \in 1..Len(verdicts')
      /\ \A i \in 1..Len(verdicts) : i \in 1..Len(verdicts') /\ verdicts'[i] = verdicts[i]
  BY <1>1, <1>2, <1>3, AppendOK
<1>5. TablesOK' /\ Grown
  BY <1>4 DEF DecideLinkage, IInv, TablesOK, Grown
<1> DEFINE u == Task("verdict", n)
<1>6. u \in TaskRecord /\ u.kind = "verdict" /\ u.no = n /\ u.at = "start"
  BY NewTask DEF Kinds
<1> HIDE DEF u
<1>7. TaskOK(u)'
  BY <1>4, <1>6 DEF TaskOK, LinkOK, VerifyOK, VerdictOK, CommandOK
<1> QED
  BY <1>3, <1>5, <1>6, <1>7 DEF StepOK, u

LEMMA CommandStep ==
  ASSUME IInv, NEW op, NEW of, NEW actor, NEW vouches,
         [op |-> op, of |-> of, actor |-> actor, vouches |-> vouches] \in Commands,
         Command(op, of, actor, vouches)
  PROVE  StepOK
<1> DEFINE e == [op |-> op, of |-> of, actor |-> actor, vouches |-> vouches]
<1>1. e \in Commands /\ commands \in Seq(Commands)
  BY DEF IInv, TablesOK
<1>2. PICK n \in Nat : n = Len(commands) + 1
  BY <1>1, AppendOK
<1>3. commands' = Append(commands, e) /\ tasks' = tasks \cup {Task("command", n)}
  BY <1>2 DEF Command, Start
<1> HIDE DEF e
<1>4. /\ commands' \in Seq(Commands) /\ n \in 1..Len(commands')
      /\ \A i \in 1..Len(commands) : i \in 1..Len(commands') /\ commands'[i] = commands[i]
  BY <1>1, <1>2, <1>3, AppendOK
<1>5. TablesOK' /\ Grown
  BY <1>4 DEF Command, IInv, TablesOK, Grown
<1> DEFINE u == Task("command", n)
<1>6. u \in TaskRecord /\ u.kind = "command" /\ u.no = n /\ u.at = "start"
  BY NewTask DEF Kinds
<1> HIDE DEF u
<1>7. TaskOK(u)'
  BY <1>4, <1>6 DEF TaskOK, LinkOK, VerifyOK, VerdictOK, CommandOK
<1> QED
  BY <1>3, <1>5, <1>6, <1>7 DEF StepOK, u

LEMMA OperatorStep ==
  ASSUME IInv,
         \/ \E i, j \in Alive(dossier) : MergePersonas(i, j)
         \/ \E i \in Alive(dossier), a \in Actors : SplitPersona(i, a)
  PROVE  StepOK
<1>1. Alive(dossier) \subseteq Nat
  BY ListIsTyped DEF IInv, TablesOK
<1>2. ASSUME NEW i \in Alive(dossier), NEW j \in Alive(dossier), MergePersonas(i, j) PROVE StepOK
  <2> DEFINE vouches == {{a, b} : a \in dossier.list[i], b \in dossier.list[j]} \cap Pairs
  <2>1. vouches \in SUBSET Pairs
    OBVIOUS
  <2>2. Command("merge", {i, j}, {}, vouches)
    BY <1>2 DEF MergePersonas
  <2> HIDE DEF vouches
  <2>3. [op |-> "merge", of |-> {i, j}, actor |-> {}, vouches |-> vouches] \in Commands
    BY <1>1, <2>1 DEF Commands
  <2> QED
    BY <2>2, <2>3, CommandStep
<1>3. ASSUME NEW i \in Alive(dossier), NEW a \in Actors, SplitPersona(i, a) PROVE StepOK
  <2>1. [op |-> "split", of |-> {i}, actor |-> {a}, vouches |-> {}] \in Commands
    BY <1>1 DEF Commands
  <2> QED
    BY <1>3, <2>1, CommandStep DEF SplitPersona
<1> QED
  BY <1>2, <1>3

\* What a handler of a verdict has to apply.
LEMMA VerdictIsTyped ==
  ASSUME IInv, NEW t \in tasks, t.kind = "verdict"
  PROVE  /\ t \in TaskRecord /\ TaskOK(t) /\ t.no \in 1..Len(verdicts)
         /\ PairOf(t) \in Pairs /\ Verdict(t) \in {"suspected", "confirmed", "rejected"}
<1>1. t \in TaskRecord /\ TaskOK(t) /\ t.no \in 1..Len(verdicts) /\ verdicts \in Seq(Verdicts)
  BY DEF IInv, TablesOK, TasksOK, TaskOK, VerdictOK
<1>2. verdicts[t.no] \in Verdicts
  BY <1>1
<1> QED
  BY <1>1, <1>2 DEF Verdicts, PairOf, Verdict

\* Follows leaves the task, or nothing of it.
LEMMA FollowsOK ==
  ASSUME IInv, NEW t \in tasks, t.kind = "verdict", Follows(t)
  PROVE  \E u \in TaskRecord :
           /\ tasks' \subseteq (tasks \ {t}) \cup {u}
           /\ u.kind = "verdict" /\ u.no = t.no /\ u.view = t.view
           /\ (u = t \/ (u.at = "persona" /\ u.pair = PairOf(t) /\ Verdict(t) = "confirmed"))
<1>1. t \in TaskRecord /\ t.no \in 1..Len(verdicts) /\ PairOf(t) \in Pairs
  BY VerdictIsTyped
<1>2. CASE Verdict(t) # "confirmed"
  <2>1. tasks' \subseteq (tasks \ {t}) \cup {t}
    BY <1>2 DEF Follows, End
  <2> QED
    BY <1>1, <2>1
<1>3. CASE Verdict(t) = "confirmed"
  <2> DEFINE u == [At(t, "persona") EXCEPT !.pair = PairOf(t)]
  <2>1. PairOf(t) \in SUBSET Actors
    BY <1>1 DEF Pairs
  <2>2. u \in TaskRecord /\ u.kind = "verdict" /\ u.no = t.no /\ u.view = t.view
        /\ u.at = "persona" /\ u.pair = PairOf(t)
    BY <1>1, <2>1 DEF At, TaskRecord, Places
  <2>3. tasks' \subseteq (tasks \ {t}) \cup {u}
    BY <1>3 DEF Follows, Move
  <2> HIDE DEF u
  <2> QED
    BY <1>3, <2>2, <2>3
<1> QED
  BY <1>2, <1>3

LEMMA VerdictStep ==
  ASSUME IInv, NEW t \in tasks, GraphReads(t) \/ GraphApplies(t)
  PROVE  StepOK
<1>1. t \in TaskRecord /\ TaskOK(t) /\ t.kind = "verdict" /\ t.no \in 1..Len(verdicts)
      /\ PairOf(t) \in Pairs /\ Verdict(t) \in {"suspected", "confirmed", "rejected"}
  BY VerdictIsTyped DEF GraphReads, GraphApplies
<1>2. ASSUME Follows(t), UNCHANGED verdicts, TablesOK', Grown PROVE StepOK
  <2>1. PICK u \in TaskRecord :
           /\ tasks' \subseteq (tasks \ {t}) \cup {u}
           /\ u.kind = "verdict" /\ u.no = t.no /\ u.view = t.view
           /\ (u = t \/ (u.at = "persona" /\ u.pair = PairOf(t) /\ Verdict(t) = "confirmed"))
    BY <1>1, <1>2, FollowsOK
  <2>2. CASE u = t
    BY <1>2, <2>1, <2>2 DEF StepOK
  <2>3. CASE u.at = "persona" /\ u.pair = PairOf(t) /\ Verdict(t) = "confirmed"
    <3>1. TaskOK(u)'
      BY <1>1, <1>2, <2>1, <2>3 DEF TaskOK, LinkOK, VerifyOK, VerdictOK, CommandOK, Verdict, PairOf
    <3> QED
      BY <1>2, <2>1, <3>1 DEF StepOK
  <2> QED
    BY <2>1, <2>2, <2>3
<1>3. CASE GraphReads(t) /\ Verdict(t) \in Legal(linkage[PairOf(t)].state)
  <2>1. ReadRow(t, PairOf(t), Verdict(t), FALSE)
    BY <1>3 DEF GraphReads, ReadRow
  <2> QED
    BY <1>1, <1>3, <2>1, ReadRowStep DEF GraphReads
<1>4. CASE GraphReads(t) /\ Verdict(t) \notin Legal(linkage[PairOf(t)].state)
  <2>1. Follows(t) /\ UNCHANGED verdicts /\ TablesOK' /\ Grown
    BY <1>4 DEF GraphReads, ReadRow, IInv, TablesOK, Grown
  <2> QED
    BY <1>2, <2>1
<1>5. CASE GraphApplies(t)
  <2>1. TablesOK' /\ Grown
    BY <1>1, <1>5, WriteRowTables DEF GraphApplies
  <2> QED
    BY <1>2, <1>5, <2>1 DEF GraphApplies
<1> QED
  BY <1>3, <1>4, <1>5

LEMMA MembersStep ==
  ASSUME IInv, NEW t \in tasks, MergeMembers(t)
  PROVE  StepOK
<1>1. t \in TaskRecord /\ TaskOK(t) /\ t.kind = "command"
  BY DEF MergeMembers, IInv, TasksOK
<1>2. CASE End(t)
  BY <1>2, QuietEnd DEF MergeMembers
<1>3. ASSUME NEW pair \in Pairs, Move(t, [At(t, "persona") EXCEPT !.pair = pair]) PROVE StepOK
  <2> DEFINE u == [At(t, "persona") EXCEPT !.pair = pair]
  <2>1. u \in TaskRecord /\ u.kind = "command" /\ u.no = t.no /\ u.at = "persona" /\ u.pair = pair
    BY <1>1 DEF At, TaskRecord, Places, Pairs
  <2>2. tasks' \subseteq (tasks \ {t}) \cup {u}
    BY <1>3 DEF Move
  <2> HIDE DEF u
  <2>3. TaskOK(u)
    BY <1>1, <2>1 DEF TaskOK, LinkOK, VerifyOK, VerdictOK, CommandOK
  <2> QED
    BY <2>1, <2>2, <2>3, QuietMove DEF MergeMembers
<1> QED
  BY <1>2, <1>3 DEF MergeMembers

LEMMA ReadPersonasStep ==
  ASSUME IInv, NEW t \in tasks, ReadPersonas(t)
  PROVE  StepOK
<1>1. t \in TaskRecord /\ TaskOK(t) /\ dossier \in Dossiers
  BY DEF IInv, TablesOK, TasksOK
<1>2. PICK d \in Dossiers : d = dossier
  BY <1>1
<1> DEFINE u == [At(t, "commit") EXCEPT !.view = d]
<1>3. u \in TaskRecord /\ u.kind = t.kind /\ u.no = t.no /\ u.at = "commit" /\ u.pair = t.pair
  BY <1>1 DEF At, TaskRecord, Places
<1>4. tasks' \subseteq (tasks \ {t}) \cup {u}
  BY <1>2 DEF ReadPersonas, Move
<1> HIDE DEF u
<1>5. t.at = "persona" \/ (t.kind = "command" /\ Splits(t))
  BY DEF ReadPersonas, Splits
<1>6. TaskOK(u)
  BY <1>1, <1>3, <1>5 DEF TaskOK, LinkOK, VerifyOK, VerdictOK, CommandOK, Verdict, PairOf, Splits
<1> QED
  BY <1>3, <1>4, <1>6, QuietMove DEF ReadPersonas

LEMMA PairAtCommit ==
  ASSUME IInv, NEW t \in tasks, t.at = "commit", ~Splits(t)
  PROVE  t.pair \in Pairs
<1>1. t \in TaskRecord /\ TaskOK(t)
  BY DEF IInv, TasksOK
<1>2. CASE t.kind = "verdict"
  BY <1>1, <1>2, VerdictIsTyped DEF TaskOK, VerdictOK
<1>3. CASE t.kind = "command"
  BY <1>1, <1>3 DEF TaskOK, CommandOK
<1> QED
  BY <1>1, <1>2, <1>3 DEF TaskRecord, Kinds, TaskOK, LinkOK, VerifyOK

\* What a commit does to the personas: nothing, a split or a merge.
LEMMA CommitCases ==
  ASSUME IInv, NEW t \in tasks, CommitPersonas(t)
  PROVE  \/ dossier' = dossier
         \/ Splits(t) /\ \E a \in Actors : dossier' \in SplitActor(a, t.view, dossier)
         \/ ~Splits(t) /\ t.pair \in Pairs /\ dossier' \in MergedActors(t.pair, t.view, dossier)
<1>1. t \in TaskRecord /\ TaskOK(t) /\ t.at = "commit"
  BY DEF IInv, TasksOK, CommitPersonas
<1>2. CASE Splits(t)
  <2>1. commands[t.no] \in Commands
    <3>1. t.no \in 1..Len(commands) /\ commands \in Seq(Commands)
      BY <1>1, <1>2 DEF TaskOK, CommandOK, Splits, IInv, TablesOK
    <3> QED
      BY <3>1
  <2>2. commands[t.no].actor \subseteq Actors
    BY <2>1 DEF Commands
  <2> QED
    BY <1>2, <2>2 DEF CommitPersonas
<1>3. CASE ~Splits(t)
  <2>1. t.pair \in Pairs
    BY <1>1, <1>3, PairAtCommit
  <2> QED
    BY <1>3, <2>1 DEF CommitPersonas
<1> QED
  BY <1>2, <1>3

LEMMA MergedOK ==
  ASSUME NEW pair \in Pairs, NEW v \in Dossiers, NEW d \in Dossiers, NEW e \in MergedActors(pair, v, d)
  PROVE  e \in Dossiers /\ (e.minted = d.minted \/ e.minted = d.minted + 1)
<1>1. pair \subseteq Actors
  BY DEF Pairs
<1>2. CASE e \in Created(pair, d)
  BY <1>2, CreatedOK
<1>3. ASSUME NEW a \in Actors, NEW i \in Alive(v), NEW f \in Joined(a, i, v, d)
      PROVE  f \in Dossiers /\ f.minted = d.minted
  BY JoinedOK
<1>4. ASSUME NEW keep \in Alive(v), NEW drop \in Alive(v), keep # drop, NEW f \in Absorbed(keep, drop, v, d)
      PROVE  f \in Dossiers /\ f.minted = d.minted
  BY <1>4, AbsorbedOK
<1> QED
  BY <1>1, <1>2, <1>3, <1>4, MergedCases

LEMMA CommitStep ==
  ASSUME IInv, NEW t \in tasks, CommitPersonas(t)
  PROVE  StepOK
<1>1. dossier \in Dossiers /\ t.view \in Dossiers
  BY DEF IInv, TablesOK, TasksOK, TaskRecord
<1>2. dossier' \in Dossiers
  <2>1. PICK e : e = dossier'
    OBVIOUS
  <2>2. CASE \E a \in Actors : e \in SplitActor(a, t.view, dossier)
    BY <1>1, <2>1, <2>2, SplitOK
  <2>3. CASE t.pair \in Pairs /\ e \in MergedActors(t.pair, t.view, dossier)
    BY <1>1, <2>1, <2>3, MergedOK
  <2> QED
    BY <1>1, <2>1, <2>2, <2>3, CommitCases
<1>3. overlap' \in [rows : SUBSET Pairs, personas : BOOLEAN]
  BY DEF CommitPersonas, IInv, TablesOK
<1>4. TablesOK' /\ Grown
  BY <1>2, <1>3 DEF CommitPersonas, IInv, TablesOK, Grown
<1> QED
  BY <1>4 DEF CommitPersonas, End, StepOK

-----------------------------------------------------------------------------
(* Every step. *)

LEMMA NextStep ==
  ASSUME IInv, Next
  PROVE  StepOK
<1>1. ASSUME NEW t \in tasks, Apply(t) PROVE StepOK
  BY <1>1, VerdictStep, MembersStep, ReadPersonasStep, CommitStep DEF Apply
<1> QED
  BY <1>1, ProfileStep, DecideStep, OperatorStep, LinkStep, VerifyStep DEF Next

LEMMA IInvStep == IInv /\ [Next]_vars => IInv'
<1>1. ASSUME IInv, Next PROVE IInv'
  BY <1>1, NextStep, StepKeeps
<1>2. ASSUME IInv, UNCHANGED vars PROVE IInv'
  BY <1>2 DEF vars, IInv, TablesOK, TasksOK, TaskOK, LinkOK, VerifyOK, VerdictOK, CommandOK,
              HasRow, Verdict, PairOf, Splits
<1> QED
  BY <1>1, <1>2

LEMMA IInvHolds == Spec => []IInv
  BY StartsOK, IInvStep, PTL DEF Spec

\* Every table keeps its type, and every membership row references a persona
\* that exists, whatever order the handlers' reads and writes fall in.
THEOREM AttributionTypeCorrect == Spec => []TypeOK
<1>1. IInv => TypeOK
  <2>1. ASSUME IInv PROVE TypeOK
    <3>1. /\ dossier.home \in [Actors -> Alive(dossier) \cup {0}]
          /\ Alive(dossier) \subseteq 1..dossier.minted
          /\ dossier.list \in [Alive(dossier) -> SUBSET Actors]
      BY <2>1, ListIsTyped DEF IInv, TablesOK
    <3>2. \A t \in tasks : t.kind \in Kinds /\ t.at \in Places
      BY <2>1 DEF IInv, TasksOK, TaskRecord
    <3> QED
      BY <2>1, <3>1, <3>2 DEF IInv, TablesOK, TypeOK
  <2> QED
    BY <2>1
<1> QED
  BY <1>1, IInvHolds, PTL

-----------------------------------------------------------------------------
(* Rows. *)

\* What is announced has a row for as long as the handler runs: ids are minted
\* with their row, and no row goes.
THEOREM AnnouncedHasRowHolds == Spec => []AnnouncedHasRow
<1>1. IInv => AnnouncedHasRow
  BY DEF IInv, TasksOK, TaskOK, VerifyOK, AnnouncedHasRow
<1> QED
  BY <1>1, IInvHolds, PTL

LEMMA RowWriters ==
  ASSUME Next
  PROVE  UNCHANGED linkage \/ \E t \in tasks : InsertProposed(t) \/ VerifierPromotes(t) \/ GraphApplies(t)
<1>1. ASSUME NEW t \in tasks, Link(t)
      PROVE  UNCHANGED linkage \/ InsertProposed(t)
  BY <1>1 DEF Link, UpsertSimhash, NearestSimhashes, SelectProposed, InsertRefused, AnnounceProposed
<1>2. ASSUME NEW t \in tasks, Verify(t)
      PROVE  UNCHANGED linkage \/ VerifierPromotes(t)
  BY <1>2 DEF Verify, RecordResult, VerifierReads
<1>3. ASSUME NEW t \in tasks, Apply(t)
      PROVE  UNCHANGED linkage \/ GraphApplies(t)
  BY <1>3 DEF Apply, GraphReads, MergeMembers, ReadPersonas, CommitPersonas
<1>4. ASSUME NEW i, NEW j, MergePersonas(i, j)
      PROVE  UNCHANGED linkage
  BY <1>4 DEF MergePersonas, Command
<1>5. ASSUME NEW i, NEW a, SplitPersona(i, a)
      PROVE  UNCHANGED linkage
  BY <1>5 DEF SplitPersona, Command
<1>6. ASSUME NEW a, ProfileCurrent(a)
      PROVE  UNCHANGED linkage
  BY <1>6 DEF ProfileCurrent
<1>7. ASSUME NEW p, NEW verdict, DecideLinkage(p, verdict)
      PROVE  UNCHANGED linkage
  BY <1>7 DEF DecideLinkage
<1> QED
  BY <1>1, <1>2, <1>3, <1>4, <1>5, <1>6, <1>7 DEF Next

\* The linkage a proposal is about.
LEMMA ProposalIsTyped ==
  ASSUME IInv, NEW t \in tasks, t.kind = "verify"
  PROVE  t.no \in 1..Len(proposed) /\ proposed[t.no] \in Pairs /\ VerifyOK(t)
<1>1. VerifyOK(t) /\ proposed \in Seq(Pairs)
  BY DEF IInv, TablesOK, TasksOK, TaskOK
<1> QED
  BY <1>1 DEF VerifyOK

\* An insertion only fills an empty row.
LEMMA InsertedRows ==
  ASSUME IInv, NEW t \in tasks, InsertProposed(t), NEW p \in Pairs
  PROVE  linkage'[p] = linkage[p] \/ (linkage[p].state = "absent" /\ linkage'[p].state = "proposed")
<1>1. linkage \in [Pairs -> [id : 0..Len(proposed), state : States]]
  BY DEF IInv, TablesOK
<1> DEFINE row == [id |-> Len(proposed) + 1, state |-> "proposed"]
<1>2. row.state = "proposed"
  OBVIOUS
<1>3. UNCHANGED linkage \/ (linkage[t.pair] = NoRow /\ linkage' = [linkage EXCEPT ![t.pair] = row])
  BY DEF InsertProposed
<1> HIDE DEF row
<1>4. CASE p = t.pair
  BY <1>1, <1>2, <1>3, <1>4 DEF NoRow
<1>5. CASE p # t.pair
  BY <1>1, <1>3, <1>5
<1> QED
  BY <1>4, <1>5

Final == \A p \in Pairs : linkage[p].state \in Terminal /\ linkage'[p].state # linkage[p].state
                            => p \in overlap'.rows

LEMMA WriteRowIsFinal ==
  ASSUME IInv, NEW t \in tasks, NEW p \in Pairs, NEW target, t.row \notin Terminal,
         WriteRow(t, p, target)
  PROVE  Final
<1>1. linkage \in [Pairs -> [id : 0..Len(proposed), state : States]]
      /\ overlap \in [rows : SUBSET Pairs, personas : BOOLEAN]
  BY DEF IInv, TablesOK
<1>2. \A q \in Pairs : q # p => linkage'[q] = linkage[q]
  BY <1>1 DEF WriteRow
<1>3. overlap'.rows = IF linkage[p].state = t.row THEN overlap.rows ELSE overlap.rows \cup {p}
  BY <1>1 DEF WriteRow
<1> QED
  BY <1>2, <1>3 DEF Final

LEMMA StepIsFinal ==
  ASSUME IInv, Next
  PROVE  Final
<1>1. CASE UNCHANGED linkage
  BY <1>1 DEF Final
<1>2. ASSUME NEW t \in tasks, InsertProposed(t) PROVE Final
  BY <1>2, InsertedRows DEF Terminal, Final
<1>3. ASSUME NEW t \in tasks, VerifierPromotes(t) PROVE Final
  <2>1. t.row \notin Terminal /\ proposed[t.no] \in Pairs
    BY <1>3, ProposalIsTyped DEF VerifierPromotes, VerifyOK
  <2> QED
    BY <1>3, <2>1, WriteRowIsFinal DEF VerifierPromotes
<1>4. ASSUME NEW t \in tasks, GraphApplies(t) PROVE Final
  <2>1. t.row \notin Terminal /\ PairOf(t) \in Pairs
    BY <1>4, VerdictIsTyped DEF GraphApplies, TaskOK, VerdictOK
  <2> QED
    BY <1>4, <2>1, WriteRowIsFinal DEF GraphApplies
<1> QED
  BY <1>1, <1>2, <1>3, <1>4, RowWriters

\* transition_linkage never moves a row out of confirmed or rejected, except by
\* an UPDATE that lands on a row that moved after it was read.
THEOREM VerdictsAreFinalHolds == Spec => VerdictsAreFinal
<1>1. IInv /\ [Next]_vars => [Final]_vars
  BY StepIsFinal
<1>2. Spec => [][Final]_vars
  BY <1>1, IInvHolds, PTL DEF Spec
<1> QED
  BY <1>2 DEF Final, VerdictsAreFinal

LEMMA PromotedKept ==
  ASSUME IInv, PromotedHasResult, Grown,
         \A p \in Pairs : linkage'[p].state = "suspected" => linkage[p].state = "suspected"
  PROVE  PromotedHasResult'
<1>1. ASSUME NEW p \in Pairs, linkage'[p].state = "suspected"
      PROVE  linkage'[p].id \in results'
             \/ \E n \in 1..Len(verdicts') : verdicts'[n] = [verdict |-> "suspected", pair |-> p]
  <2>1. linkage[p].state = "suspected" /\ linkage'[p].id = linkage[p].id
    BY <1>1 DEF Grown, NoRow
  <2> QED
    BY <2>1 DEF Grown, PromotedHasResult
<1> QED
  BY <1>1 DEF PromotedHasResult

\* The row a handler has just promoted: its result or the verdict is there.
LEMMA PromotedByWrite ==
  ASSUME IInv, PromotedHasResult, Grown, NEW t \in tasks, NEW p \in Pairs,
         NEW target \in {"suspected", "confirmed", "rejected"}, WriteRow(t, p, target),
         UNCHANGED <<results, verdicts>>,
         target = "suspected" => linkage[p].id \in results
                                 \/ \E n \in 1..Len(verdicts) : verdicts[n] = [verdict |-> "suspected", pair |-> p]
  PROVE  PromotedHasResult'
<1>1. linkage \in [Pairs -> [id : 0..Len(proposed), state : States]]
  BY DEF IInv, TablesOK
<1>2. linkage'[p].state = target /\ linkage'[p].id = linkage[p].id
      /\ \A q \in Pairs : q # p => linkage'[q] = linkage[q]
  BY <1>1 DEF WriteRow
<1> QED
  BY <1>2 DEF PromotedHasResult

LEMMA PromotedStep ==
  ASSUME IInv, PromotedHasResult, Next
  PROVE  PromotedHasResult'
<1>1. Grown
  BY NextStep DEF StepOK
<1>2. CASE UNCHANGED linkage
  BY <1>1, <1>2, PromotedKept
<1>3. ASSUME NEW t \in tasks, InsertProposed(t) PROVE PromotedHasResult'
  <2>1. \A p \in Pairs : linkage'[p].state = "suspected" => linkage[p].state = "suspected"
    BY <1>3, InsertedRows
  <2> QED
    BY <1>1, <2>1, PromotedKept
<1>4. ASSUME NEW t \in tasks, VerifierPromotes(t) PROVE PromotedHasResult'
  <2>1. proposed[t.no] \in Pairs /\ linkage[proposed[t.no]].id \in results
    BY <1>4, ProposalIsTyped DEF VerifierPromotes, VerifyOK, HasRow
  <2> QED
    BY <1>1, <1>4, <2>1, PromotedByWrite DEF VerifierPromotes
<1>5. ASSUME NEW t \in tasks, GraphApplies(t) PROVE PromotedHasResult'
  <2>1. t.no \in 1..Len(verdicts) /\ PairOf(t) \in Pairs
        /\ Verdict(t) \in {"suspected", "confirmed", "rejected"}
    BY <1>5, VerdictIsTyped DEF GraphApplies
  <2>2. verdicts[t.no] = [verdict |-> Verdict(t), pair |-> PairOf(t)]
    <3>1. verdicts[t.no] \in Verdicts
      BY <2>1 DEF IInv, TablesOK
    <3> QED
      BY <3>1 DEF Verdicts, Verdict, PairOf
  <2> QED
    BY <1>1, <1>5, <2>1, <2>2, PromotedByWrite DEF GraphApplies
<1> QED
  BY <1>2, <1>3, <1>4, <1>5, RowWriters

\* A linkage becomes suspected only with its composite result on record, or on
\* an operator's word: the result is saved first, under the id the row keeps.
THEOREM PromotedHasResultHolds == Spec => []PromotedHasResult
<1>1. Init => PromotedHasResult
  BY DEF Init, NoRow, PromotedHasResult
<1>2. IInv /\ PromotedHasResult /\ [Next]_vars => PromotedHasResult'
  <2>1. ASSUME UNCHANGED vars, PromotedHasResult PROVE PromotedHasResult'
    BY <2>1 DEF vars, PromotedHasResult
  <2> QED
    BY <2>1, PromotedStep
<1> QED
  BY <1>1, <1>2, IInvHolds, PTL DEF Spec

-----------------------------------------------------------------------------
(* Who is connected to whom. *)

\* Connected, for whatever pairs are vouched for.
Linked(a, b, V) ==
  \A s \in SUBSET Actors : a \in s /\ (\A p \in V : p \cap s # {} => p \subseteq s) => b \in s

LEMMA LinkedRefl ==
  ASSUME NEW V, NEW a
  PROVE  Linked(a, a, V)
  BY DEF Linked

LEMMA LinkedSym ==
  ASSUME NEW V \in SUBSET Pairs, NEW a \in Actors, NEW b \in Actors, Linked(a, b, V)
  PROVE  Linked(b, a, V)
<1> SUFFICES ASSUME NEW s \in SUBSET Actors, b \in s, \A p \in V : p \cap s # {} => p \subseteq s, a \notin s
             PROVE  FALSE
  BY DEF Linked
<1> DEFINE rest == Actors \ s
<1>1. ASSUME NEW p \in V, p \cap rest # {}
      PROVE  p \subseteq rest
  <2>1. p \subseteq Actors
    BY DEF Pairs
  <2>2. p \cap s = {}
    BY <1>1
  <2> QED
    BY <2>1, <2>2
<1>2. rest \in SUBSET Actors /\ a \in rest
  OBVIOUS
<1>3. b \in rest
  <2> HIDE DEF rest
  <2> QED
    BY <1>1, <1>2 DEF Linked
<1> QED
  BY <1>3

LEMMA LinkedTrans ==
  ASSUME NEW V, NEW a, NEW b, NEW c, Linked(a, b, V), Linked(b, c, V)
  PROVE  Linked(a, c, V)
  BY DEF Linked

LEMMA LinkedPair ==
  ASSUME NEW V, NEW p \in V, NEW a \in p, NEW b \in p
  PROVE  Linked(a, b, V)
  BY DEF Linked

LEMMA LinkedMono ==
  ASSUME NEW V, NEW W, V \subseteq W, NEW a, NEW b, Linked(a, b, V)
  PROVE  Linked(a, b, W)
  BY DEF Linked

\* The actors a dossier names under a persona, on its list or by membership row.
Names(d, i) == {a \in Actors : d.home[a] = i \/ (i \in Alive(d) /\ a \in d.list[i])}

\* Whatever the dossiers in S name under one persona is connected.
Agree(S, V) ==
  \A d, e \in S : \A i \in Nat \ {0} : \A a \in Names(d, i), b \in Names(e, i) : Linked(a, b, V)

\* So is what they name under either of two personas.
Meet(S, i, j, V) ==
  \A d, e \in S : \A a \in Names(d, i), b \in Names(e, j) : Linked(a, b, V)

\* Whom f names under a persona is connected to somebody that S names there.
Grounded(f, S, i, V) == \A a \in Names(f, i) : \E s \in S : \E w \in Names(s, i) : Linked(a, w, V)

LEMMA NamesAreActors ==
  ASSUME NEW d, NEW i
  PROVE  Names(d, i) \subseteq Actors
  BY DEF Names

LEMMA NobodyInEmpty ==
  ASSUME NEW i \in Nat \ {0}
  PROVE  Names(EmptyDossier, i) = {}
  BY DEF Names, EmptyDossier, Alive

\* A dossier names under a persona it has minted.
LEMMA NamesAreMinted ==
  ASSUME NEW d \in Dossiers, NEW i \in Nat \ {0}, Names(d, i) # {}
  PROVE  i <= d.minted
  BY ListIsTyped DEF Names

LEMMA AgreeGrows ==
  ASSUME NEW S, NEW V \in SUBSET Pairs, NEW f, Agree(S, V),
         \A i \in Nat \ {0} : \/ Grounded(f, S, i, V)
                              \/ /\ \A s \in S : Names(s, i) = {}
                                 /\ \A a, b \in Names(f, i) : Linked(a, b, V)
  PROVE  Agree(S \cup {f}, V)
<1>1. ASSUME NEW i \in Nat \ {0}, NEW d \in S, NEW a \in Names(f, i), NEW b \in Names(d, i)
      PROVE  Linked(a, b, V) /\ Linked(b, a, V)
  <2>1. PICK s \in S : \E w \in Names(s, i) : Linked(a, w, V)
    BY DEF Grounded
  <2>2. PICK w \in Names(s, i) : Linked(a, w, V)
    BY <2>1
  <2>3. Linked(a, b, V)
    BY <2>2, LinkedTrans DEF Agree
  <2> QED
    BY <2>3, LinkedSym, NamesAreActors
<1>2. ASSUME NEW i \in Nat \ {0}, NEW a \in Names(f, i), NEW b \in Names(f, i)
      PROVE  Linked(a, b, V)
  <2>1. CASE Grounded(f, S, i, V)
    <3>1. PICK s \in S : \E w \in Names(s, i) : Linked(b, w, V)
      BY <2>1 DEF Grounded
    <3>1a. PICK w \in Names(s, i) : Linked(b, w, V)
      BY <3>1
    <3>2. Linked(w, b, V)
      BY <3>1a, LinkedSym, NamesAreActors
    <3>3. Linked(a, w, V)
      BY <1>1
    <3> QED
      BY <3>2, <3>3, LinkedTrans
  <2> QED
    BY <2>1
<1> QED
  BY <1>1, <1>2 DEF Agree

LEMMA MeetGrows ==
  ASSUME NEW S, NEW V \in SUBSET Pairs, NEW f, NEW i \in Nat \ {0}, NEW j \in Nat \ {0},
         Meet(S, i, j, V), Grounded(f, S, i, V), Grounded(f, S, j, V)
  PROVE  Meet(S \cup {f}, i, j, V)
<1> SUFFICES ASSUME NEW d \in S \cup {f}, NEW e \in S \cup {f}, NEW a \in Names(d, i), NEW b \in Names(e, j)
             PROVE  Linked(a, b, V)
  BY DEF Meet
<1>1. \E s \in S : \E w \in Names(s, i) : Linked(a, w, V)
  BY LinkedRefl DEF Grounded
<1>2. \E s \in S : \E w \in Names(s, j) : Linked(b, w, V)
  BY LinkedRefl DEF Grounded
<1>3. PICK s \in S : \E w \in Names(s, i) : Linked(a, w, V)
  BY <1>1
<1>3a. PICK w \in Names(s, i) : Linked(a, w, V)
  BY <1>3
<1>4. PICK r \in S : \E x \in Names(r, j) : Linked(b, x, V)
  BY <1>2
<1>4a. PICK x \in Names(r, j) : Linked(b, x, V)
  BY <1>4
<1>5. Linked(w, x, V)
  BY DEF Meet
<1>6. Linked(x, b, V)
  BY <1>4a, LinkedSym, NamesAreActors
<1> QED
  BY <1>3a, <1>5, <1>6, LinkedTrans

\* Whom a commit names under a persona it did not create was named there by what
\* it read or by what is there, or is connected to somebody who was.
LEMMA NamedGrounds ==
  ASSUME NEW f, NEW S, NEW i, NEW V, NEW d \in S, Names(f, i) \subseteq Names(d, i)
  PROVE  Grounded(f, S, i, V)
  BY LinkedRefl DEF Grounded

LEMMA CreatedGrounded ==
  ASSUME NEW V, NEW S, NEW d \in S, d \in Dossiers, NEW pair \in Pairs, NEW e \in Created(pair, d),
         NEW i \in Nat \ {0}, i <= d.minted
  PROVE  Grounded(e, S, i, V)
<1>1. IsCreated(e, pair, d) /\ e.minted = d.minted + 1 /\ d.minted \in Nat
  BY CreatedOK, ListIsTyped
<1>2. Names(e, i) \subseteq Names(d, i)
  BY <1>1 DEF IsCreated, Names
<1> QED
  BY <1>2, NamedGrounds

LEMMA JoinedGrounded ==
  ASSUME NEW V, NEW S, NEW v \in S, NEW d \in S, v \in Dossiers, d \in Dossiers,
         NEW a \in Actors, NEW b \in Actors, Linked(a, b, V), v.home[b] \in Alive(v),
         NEW e \in Joined(a, v.home[b], v, d), NEW i \in Nat \ {0}
  PROVE  Grounded(e, S, i, V)
<1>1. PICK k \in Alive(v) : k = v.home[b]
  OBVIOUS
<1>2. IsJoined(e, a, k, v, d)
  BY <1>1, JoinedOK
<1>3. CASE i # k
  <2>1. Names(e, i) \subseteq Names(d, i)
    BY <1>2, <1>3 DEF IsJoined, Names
  <2> QED
    BY <2>1, NamedGrounds
<1>4. CASE i = k
  <2>1. b \in Names(v, i)
    BY <1>1, <1>4 DEF Names
  <2>2. ASSUME NEW c \in Names(e, i)
        PROVE  c = a \/ c \in Names(v, i) \/ c \in Names(d, i)
    BY <1>2, <1>4 DEF IsJoined, Names
  <2>3. ASSUME NEW c \in Names(e, i)
        PROVE  \E s \in S : \E w \in Names(s, i) : Linked(c, w, V)
    BY <2>1, <2>2, LinkedRefl
  <2> QED
    BY <2>3 DEF Grounded
<1> QED
  BY <1>3, <1>4

LEMMA AbsorbedGrounded ==
  ASSUME NEW V \in SUBSET Pairs, NEW S, Agree(S, V), NEW v \in S, NEW d \in S, v \in Dossiers, d \in Dossiers,
         NEW a \in Actors, NEW b \in Actors, Linked(b, a, V),
         v.home[a] \in Alive(v), v.home[b] \in Alive(v), v.home[a] # v.home[b],
         NEW e \in Absorbed(v.home[a], v.home[b], v, d), NEW i \in Nat \ {0}
  PROVE  Grounded(e, S, i, V)
<1>1. PICK keep \in Alive(v), drop \in Alive(v) : keep = v.home[a] /\ drop = v.home[b]
  OBVIOUS
<1>2. IsAbsorbed(e, keep, drop, v, d) /\ keep # drop
  BY <1>1, AbsorbedOK
<1>3. a \in Names(v, keep) /\ b \in Names(v, drop) /\ drop \in Nat \ {0} /\ keep \in Nat \ {0}
  BY <1>1, ListIsTyped DEF Names
<1>4. CASE i # keep
  <2>1. Names(e, i) \subseteq Names(d, i)
    BY <1>2, <1>4 DEF IsAbsorbed, Names
  <2> QED
    BY <2>1, NamedGrounds
<1>5. CASE i = keep
  <2>1. ASSUME NEW c \in Names(e, i)
        PROVE  c \in Names(d, i) \/ c \in Names(v, i) \/ c \in Names(d, drop) \/ c \in Names(v, drop)
    BY <1>2, <1>5 DEF IsAbsorbed, Names
  <2>2. ASSUME NEW s \in S, NEW c \in Names(s, drop)
        PROVE  Linked(c, a, V)
    <3>1. Linked(c, b, V)
      BY <1>3 DEF Agree
    <3> QED
      BY <3>1, LinkedTrans
  <2>3. ASSUME NEW c \in Names(e, i)
        PROVE  \E s \in S : \E w \in Names(s, i) : Linked(c, w, V)
    <3>1. CASE c \in Names(d, i) \/ c \in Names(v, i)
      BY <3>1, LinkedRefl
    <3>2. CASE c \in Names(d, drop) \/ c \in Names(v, drop)
      <4>1. Linked(c, a, V)
        BY <2>2, <3>2
      <4> QED
        BY <1>3, <1>5, <4>1
    <3> QED
      BY <2>1, <3>1, <3>2
  <2> QED
    BY <2>3 DEF Grounded
<1> QED
  BY <1>4, <1>5

LEMMA SplitGrounded ==
  ASSUME NEW V, NEW S, NEW v \in S, NEW d \in S, v \in Dossiers, d \in Dossiers,
         NEW a \in Actors, NEW e \in SplitActor(a, v, d), NEW i \in Nat \ {0}
  PROVE  Grounded(e, S, i, V)
<1>1. IsSplit(e, v, d)
  BY SplitOK
<1>2. ASSUME NEW c \in Names(e, i)
      PROVE  c \in Names(d, i) \/ c \in Names(v, i)
  BY <1>1 DEF IsSplit, Names
<1> QED
  BY <1>2, LinkedRefl DEF Grounded

LEMMA MergedGrounded ==
  ASSUME NEW V \in SUBSET Pairs, NEW S, Agree(S, V), NEW v \in S, NEW d \in S, v \in Dossiers, d \in Dossiers,
         NEW pair \in Pairs, \A a, b \in pair : Linked(a, b, V), NEW e \in MergedActors(pair, v, d),
         NEW i \in Nat \ {0}, i <= d.minted
  PROVE  Grounded(e, S, i, V)
<1>1. pair \subseteq Actors
  BY DEF Pairs
<1>2. CASE e \in Created(pair, d)
  BY <1>2, CreatedGrounded
<1>3. CASE e = d
  BY <1>3, NamedGrounds
<1>4. ASSUME NEW a \in pair, NEW b \in pair, v.home[b] \in Alive(v), e \in Joined(a, v.home[b], v, d)
      PROVE  Grounded(e, S, i, V)
  BY <1>1, <1>4, JoinedGrounded
<1>5. ASSUME NEW a \in pair, NEW b \in pair, v.home[a] \in Alive(v), v.home[b] \in Alive(v),
             v.home[a] # v.home[b], e \in Absorbed(v.home[a], v.home[b], v, d)
      PROVE  Grounded(e, S, i, V)
  BY <1>1, <1>5, AbsorbedGrounded
<1> QED
  BY <1>2, <1>3, <1>4, <1>5, MergedCases

-----------------------------------------------------------------------------
(* Personas hold only who is vouched for. *)

\* The dossiers a handler can read from: the tables, and what was read of them.
Sources == {dossier} \cup {t.view : t \in tasks}

MergeOK(of, S, V, m) == \E i, j \in 1..m : i # j /\ of = {i, j} /\ Meet(S, i, j, V)

PairOK(t) ==
  t.at \in {"persona", "commit"} /\ ~Splits(t) => \A a, b \in t.pair : Linked(a, b, Vouched)

VouchInv ==
  /\ \A s \in Sources : s.minted <= dossier.minted
  /\ Agree(Sources, Vouched)
  /\ \A n \in 1..Len(commands) :
       commands[n].op = "merge" => MergeOK(commands[n].of, Sources, Vouched, dossier.minted)
  /\ \A t \in tasks : PairOK(t)

LEMMA VouchedOK ==
  ASSUME TablesOK
  PROVE  Vouched \in SUBSET Pairs
<1>1. verdicts \in Seq(Verdicts) /\ commands \in Seq(Commands)
  BY DEF TablesOK
<1>2. \A n \in 1..Len(verdicts) : verdicts[n].pair \in Pairs
  <2>1. ASSUME NEW n \in 1..Len(verdicts) PROVE verdicts[n] \in Verdicts
    BY <1>1
  <2> QED
    BY <2>1 DEF Verdicts
<1>3. \A n \in 1..Len(commands) : commands[n].vouches \subseteq Pairs
  <2>1. ASSUME NEW n \in 1..Len(commands) PROVE commands[n] \in Commands
    BY <1>1
  <2> QED
    BY <2>1 DEF Commands
<1> QED
  BY <1>2, <1>3 DEF Vouched

LEMMA VouchedNext ==
  ASSUME TablesOK'
  PROVE  Vouched' \in SUBSET Pairs
<1>1. verdicts' \in Seq(Verdicts) /\ commands' \in Seq(Commands)
  BY DEF TablesOK
<1>2. \A n \in 1..Len(verdicts') : verdicts'[n].pair \in Pairs
  <2>1. ASSUME NEW n \in 1..Len(verdicts') PROVE verdicts'[n] \in Verdicts
    BY <1>1
  <2> QED
    BY <2>1 DEF Verdicts
<1>3. \A n \in 1..Len(commands') : commands'[n].vouches \subseteq Pairs
  <2>1. ASSUME NEW n \in 1..Len(commands') PROVE commands'[n] \in Commands
    BY <1>1
  <2> QED
    BY <2>1 DEF Commands
<1> QED
  BY <1>2, <1>3 DEF Vouched

LEMMA VouchedGrows ==
  ASSUME Grown
  PROVE  Vouched \subseteq Vouched'
<1>1. ASSUME NEW p, \E n \in 1..Len(verdicts) : verdicts[n].verdict = "confirmed" /\ verdicts[n].pair = p
      PROVE  p \in Vouched'
  BY <1>1 DEF Grown, Vouched
<1>2. ASSUME NEW p, \E n \in 1..Len(commands) : p \in commands[n].vouches
      PROVE  p \in Vouched'
  BY <1>2 DEF Grown, Vouched
<1> QED
  BY <1>1, <1>2 DEF Vouched

LEMMA AgreeShift ==
  ASSUME NEW S, NEW T, NEW V, NEW W, Agree(S, V), V \subseteq W, T \subseteq S \cup {EmptyDossier}
  PROVE  Agree(T, W)
  BY NobodyInEmpty, LinkedMono DEF Agree

LEMMA MeetShift ==
  ASSUME NEW S, NEW T, NEW V, NEW W, NEW i \in Nat \ {0}, NEW j \in Nat \ {0},
         Meet(S, i, j, V), V \subseteq W, T \subseteq S \cup {EmptyDossier}
  PROVE  Meet(T, i, j, W)
  BY NobodyInEmpty, LinkedMono DEF Meet

LEMMA PairKept ==
  ASSUME IInv, Grown, NEW t \in tasks, PairOK(t)
  PROVE  PairOK(t)'
<1>1. TaskOK(t) /\ t \in TaskRecord
  BY DEF IInv, TasksOK
<1>2. Splits(t)' = Splits(t)
  BY <1>1 DEF Splits, Grown, TaskOK, CommandOK
<1>3. PICK V : V = Vouched
  OBVIOUS
<1>4. PICK W : W = Vouched'
  OBVIOUS
<1>5. ASSUME t.at \in {"persona", "commit"}, ~Splits(t), NEW a \in t.pair, NEW b \in t.pair
      PROVE  Linked(a, b, W)
  <2>1. Linked(a, b, V)
    BY <1>3, <1>5 DEF PairOK
  <2> QED
    BY <1>3, <1>4, <2>1, VouchedGrows, LinkedMono
<1> QED
  BY <1>2, <1>4, <1>5 DEF PairOK

\* The handlers a step leaves in place of others.
HandlersOK ==
  \A u \in tasks' \ tasks :
    /\ u.view \in Sources \cup {EmptyDossier}
    /\ u.at \in {"persona", "commit"} => UNCHANGED <<verdicts, commands>> /\ PairOK(u)

LEMMA LinkHandlers ==
  ASSUME IInv, NEW t \in tasks, Link(t)
  PROVE  HandlersOK
<1>1. t \in TaskRecord /\ t.view \in Sources
  BY DEF IInv, TasksOK, Sources
<1>2. ASSUME NEW u \in tasks' \ tasks
      PROVE  u.view \in {t.view, EmptyDossier} /\ u.at \notin {"persona", "commit"}
  <2>1. CASE UpsertSimhash(t)
    <3>1. u = At(t, "query")
      BY <1>2, <2>1 DEF UpsertSimhash, Move
    <3> QED
      BY <1>1, <3>1, AtTyped DEF Places
  <2>2. CASE NearestSimhashes(t)
    <3>1. \E matches : u = [At(t, "select") EXCEPT !.todo = matches]
      BY <1>2, <2>2 DEF NearestSimhashes, Move, End
    <3> QED
      BY <1>1, <3>1 DEF At, TaskRecord
  <2>3. CASE SelectProposed(t)
    <3>1. \E b, r : u = [At(t, "write") EXCEPT !.todo = @ \ {b}, !.pair = t.actor \cup {b}, !.row = r]
      BY <1>2, <2>3 DEF SelectProposed, Move
    <3> QED
      BY <1>1, <3>1 DEF At, TaskRecord
  <2>4. CASE InsertProposed(t)
    <3>1. \E id : u = [At(t, "announce") EXCEPT !.id = id]
      BY <1>2, <2>4 DEF InsertProposed, Move
    <3> QED
      BY <1>1, <3>1 DEF At, TaskRecord
  <2>5. CASE InsertRefused(t)
    BY <1>2, <2>5 DEF InsertRefused, End
  <2>6. CASE AnnounceProposed(t)
    <3>1. \/ u = [Task("link", t.no) EXCEPT !.at = "select", !.actor = t.actor, !.todo = t.todo]
          \/ u = Task("verify", t.id)
      BY <1>2, <2>6 DEF AnnounceProposed, AfterMatch
    <3>2. t.no \in Nat /\ t.id \in Nat /\ t.actor \in SUBSET Actors /\ t.todo \in SUBSET Actors
      BY <1>1 DEF TaskRecord
    <3>3. CASE u = Task("verify", t.id)
      BY <3>3 DEF Task
    <3>4. CASE u = [Task("link", t.no) EXCEPT !.at = "select", !.actor = t.actor, !.todo = t.todo]
      BY <3>4 DEF Task
    <3> QED
      BY <3>1, <3>3, <3>4
  <2> QED
    BY <2>1, <2>2, <2>3, <2>4, <2>5, <2>6 DEF Link
<1> QED
  BY <1>1, <1>2 DEF HandlersOK

LEMMA VerifyHandlers ==
  ASSUME IInv, NEW t \in tasks, Verify(t)
  PROVE  HandlersOK
<1>1. t \in TaskRecord /\ t.view \in Sources
  BY DEF IInv, TasksOK, Sources
<1>2. ASSUME NEW u \in tasks' \ tasks
      PROVE  u.view = t.view /\ u.at \notin {"persona", "commit"}
  <2>1. CASE RecordResult(t)
    BY <1>1, <1>2, <2>1 DEF RecordResult, Move, End, At, TaskRecord
  <2>2. CASE VerifierReads(t)
    <3>1. PICK row : u = [At(t, "write") EXCEPT !.row = row]
      BY <1>2, <2>2 DEF VerifierReads, ReadRow, Move, End
    <3> QED
      BY <1>1, <3>1 DEF At, TaskRecord
  <2>3. CASE VerifierPromotes(t)
    BY <1>2, <2>3 DEF VerifierPromotes, End
  <2> QED
    BY <2>1, <2>2, <2>3 DEF Verify
<1> QED
  BY <1>1, <1>2 DEF HandlersOK

\* A verdict goes on to the personas only when it is a confirmation.
LEMMA VerdictHandlers ==
  ASSUME IInv, NEW t \in tasks, GraphReads(t) \/ GraphApplies(t)
  PROVE  HandlersOK
<1>1. t \in TaskRecord /\ t.view \in Sources /\ t.kind = "verdict" /\ t.no \in 1..Len(verdicts)
  BY VerdictIsTyped DEF GraphReads, GraphApplies, Sources
<1>2. CASE Follows(t)
  <2>1. PICK u \in TaskRecord :
          /\ tasks' \subseteq (tasks \ {t}) \cup {u}
          /\ u.kind = "verdict" /\ u.no = t.no /\ u.view = t.view
          /\ (u = t \/ (u.at = "persona" /\ u.pair = PairOf(t) /\ Verdict(t) = "confirmed"))
    BY <1>1, <1>2, FollowsOK
  <2>2. CASE u = t
    BY <2>1, <2>2 DEF HandlersOK
  <2>3. CASE u.pair = PairOf(t) /\ Verdict(t) = "confirmed"
    <3>1. PairOf(t) \in Vouched
      BY <1>1, <2>3 DEF Vouched, PairOf, Verdict
    <3>2. PairOK(u)
      BY <2>3, <3>1, LinkedPair DEF PairOK
    <3>3. UNCHANGED <<verdicts, commands>>
      BY DEF GraphReads, GraphApplies
    <3> QED
      BY <1>1, <2>1, <3>2, <3>3 DEF HandlersOK
  <2> QED
    BY <2>1, <2>2, <2>3
<1>3. CASE GraphReads(t) /\ ~Follows(t)
  <2>1. Move(t, [At(t, "write") EXCEPT !.row = linkage[PairOf(t)].state])
    BY <1>3 DEF GraphReads, ReadRow
  <2>2. ASSUME NEW u \in tasks' \ tasks
        PROVE  u.view = t.view /\ u.at = "write"
    BY <1>1, <2>1, <2>2 DEF Move, At, TaskRecord
  <2> QED
    BY <1>1, <2>2 DEF HandlersOK
<1> QED
  BY <1>2, <1>3 DEF GraphApplies

\* The pair a merge takes is one actor of each persona, and the two agree.
LEMMA MembersHandlers ==
  ASSUME IInv, VouchInv, NEW t \in tasks, MergeMembers(t)
  PROVE  HandlersOK
<1>1. t \in TaskRecord /\ t.view \in Sources /\ t.no \in 1..Len(commands) /\ commands[t.no].op = "merge"
  BY DEF MergeMembers, IInv, TasksOK, TaskOK, CommandOK, Sources
<1>2. CASE End(t)
  BY <1>2 DEF End, HandlersOK
<1>3. ASSUME NEW pair \in Pairs, \A i \in commands[t.no].of : pair \cap Members(dossier, i) # {},
             Move(t, [At(t, "persona") EXCEPT !.pair = pair])
      PROVE  HandlersOK
  <2> DEFINE u == [At(t, "persona") EXCEPT !.pair = pair]
  <2>1. u.view = t.view /\ u.pair = pair
    BY <1>1 DEF At, TaskRecord
  <2>2. tasks' = (tasks \ {t}) \cup {u}
    BY <1>3 DEF Move
  <2> HIDE DEF u
  <2>3. dossier \in Sources /\ Vouched \in SUBSET Pairs /\ dossier \in Dossiers
    BY VouchedOK DEF Sources, IInv, TablesOK
  <2>4. PICK i \in 1..dossier.minted, j \in 1..dossier.minted :
          i # j /\ commands[t.no].of = {i, j} /\ Meet(Sources, i, j, Vouched)
    BY <1>1 DEF VouchInv, MergeOK
  <2>5. PICK x \in pair : x \in Members(dossier, i)
    BY <1>3, <2>4
  <2>6. PICK y \in pair : y \in Members(dossier, j)
    BY <1>3, <2>4
  <2>7. x # y /\ x \in Names(dossier, i) /\ y \in Names(dossier, j)
    BY <2>4, <2>5, <2>6 DEF Members, Names
  <2>8. Linked(x, y, Vouched) /\ Linked(y, x, Vouched)
    <3>1. Linked(x, y, Vouched)
      BY <2>3, <2>4, <2>7 DEF Meet
    <3>2. x \in Actors /\ y \in Actors
      BY <2>7, NamesAreActors
    <3> QED
      BY <2>3, <3>1, <3>2, LinkedSym
  <2>9. pair = {x, y}
    <3>1. PICK r \in Actors, q \in Actors : pair = {r, q}
      BY PairIsTwo
    <3> QED
      BY <2>5, <2>6, <2>7, <3>1
  <2>10. PairOK(u)
    BY <2>1, <2>8, <2>9, LinkedRefl DEF PairOK
  <2> QED
    BY <1>1, <2>1, <2>2, <2>10 DEF HandlersOK, MergeMembers
<1> QED
  BY <1>2, <1>3 DEF MergeMembers

LEMMA ReadHandlers ==
  ASSUME IInv, VouchInv, NEW t \in tasks, ReadPersonas(t)
  PROVE  HandlersOK
<1>1. t \in TaskRecord /\ PairOK(t) /\ dossier \in Sources
  BY DEF IInv, TasksOK, VouchInv, Sources
<1>2. PICK d : d = dossier
  OBVIOUS
<1> DEFINE u == [At(t, "commit") EXCEPT !.view = d]
<1>3. u.view = d /\ u.kind = t.kind /\ u.no = t.no /\ u.pair = t.pair
  BY <1>1 DEF At, TaskRecord
<1>4. tasks' = (tasks \ {t}) \cup {u}
  BY <1>2 DEF ReadPersonas, Move
<1> HIDE DEF u
<1>5. Splits(u) = Splits(t) /\ (t.at = "persona" \/ Splits(t))
  BY <1>3 DEF Splits, ReadPersonas
<1>6. PairOK(u)
  BY <1>1, <1>3, <1>5 DEF PairOK
<1> QED
  BY <1>1, <1>2, <1>3, <1>4, <1>6 DEF HandlersOK, ReadPersonas

\* A step that leaves the personas alone, and adds no merge that does not agree.
LEMMA QuietVouch ==
  ASSUME IInv, VouchInv, StepOK, HandlersOK, UNCHANGED dossier,
         \A n \in 1..Len(commands') :
           \/ n \in 1..Len(commands)
           \/ commands'[n].op = "merge" => MergeOK(commands'[n].of, Sources, Vouched', dossier.minted)
  PROVE  VouchInv'
<1>1. PICK S : S = Sources
  OBVIOUS
<1>2. PICK T : T = Sources'
  OBVIOUS
<1>3. PICK V : V = Vouched
  OBVIOUS
<1>4. PICK W : W = Vouched'
  OBVIOUS
<1>5. Grown /\ TablesOK'
  BY DEF StepOK
<1>6. V \subseteq W
  BY <1>3, <1>4, <1>5, VouchedGrows
<1>7. T \subseteq S \cup {EmptyDossier}
  BY <1>1, <1>2 DEF HandlersOK, Sources
<1>8. \A s \in T : s.minted <= dossier.minted
  <2>1. dossier.minted \in Nat /\ EmptyDossier.minted = 0
    BY ListIsTyped DEF IInv, TablesOK, EmptyDossier
  <2> QED
    BY <1>1, <1>7, <2>1 DEF VouchInv
<1>9. Agree(T, W)
  BY <1>1, <1>3, <1>6, <1>7, AgreeShift DEF VouchInv
<1>10. ASSUME NEW of, MergeOK(of, S, V, dossier.minted) \/ MergeOK(of, S, W, dossier.minted)
       PROVE  MergeOK(of, T, W, dossier.minted)
  <2>1. PICK i \in 1..dossier.minted, j \in 1..dossier.minted :
          i # j /\ of = {i, j} /\ (Meet(S, i, j, V) \/ Meet(S, i, j, W))
    BY <1>10 DEF MergeOK
  <2>2. i \in Nat \ {0} /\ j \in Nat \ {0}
    BY ListIsTyped DEF IInv, TablesOK
  <2>3. Meet(T, i, j, W)
    BY <1>6, <1>7, <2>1, <2>2, MeetShift
  <2> QED
    BY <2>1, <2>3 DEF MergeOK
<1>11. ASSUME NEW n \in 1..Len(commands'), commands'[n].op = "merge"
       PROVE  MergeOK(commands'[n].of, T, W, dossier.minted)
  <2>1. CASE n \in 1..Len(commands)
    <3>1. commands'[n] = commands[n]
      BY <1>5, <2>1 DEF Grown
    <3> QED
      BY <1>1, <1>3, <1>10, <1>11, <2>1, <3>1 DEF VouchInv
  <2>2. CASE n \notin 1..Len(commands)
    BY <1>1, <1>4, <1>10, <1>11, <2>2
  <2> QED
    BY <2>1, <2>2
<1>12. ASSUME NEW u \in tasks'
       PROVE  PairOK(u)'
  <2>1. CASE u \in tasks
    BY <1>5, <2>1, PairKept DEF VouchInv
  <2>2. CASE u \notin tasks /\ u.at \notin {"persona", "commit"}
    BY <2>2 DEF PairOK
  <2>3. CASE u \notin tasks /\ u.at \in {"persona", "commit"}
    <3>1. UNCHANGED <<verdicts, commands>> /\ PairOK(u)
      BY <1>12, <2>3 DEF HandlersOK
    <3> QED
      BY <3>1 DEF PairOK, Splits, Vouched
  <2> QED
    BY <2>1, <2>2, <2>3
<1> QED
  BY <1>2, <1>4, <1>8, <1>9, <1>11, <1>12 DEF VouchInv

\* An operator's merge vouches for the pairs between the two lists, and either
\* list names somebody.
LEMMA MergeCommandVouches ==
  ASSUME IInv, VouchInv, NEW i \in Alive(dossier), NEW j \in Alive(dossier), i # j, NEW W \in SUBSET Pairs,
         Vouched \subseteq W, \A a \in dossier.list[i], b \in dossier.list[j] : a # b => {a, b} \in W
  PROVE  MergeOK({i, j}, Sources, W, dossier.minted)
<1>1. /\ i \in 1..dossier.minted /\ j \in 1..dossier.minted
      /\ i \in Nat \ {0} /\ j \in Nat \ {0}
      /\ dossier.list[i] \in (SUBSET Actors) \ {{}} /\ dossier.list[j] \in (SUBSET Actors) \ {{}}
  BY ListIsTyped DEF IInv, TablesOK
<1>2. PICK x \in Actors : x \in dossier.list[i] /\ x \in Names(dossier, i)
  BY <1>1 DEF Names
<1>3. PICK y \in Actors : y \in dossier.list[j] /\ y \in Names(dossier, j)
  BY <1>1 DEF Names
<1>4. Linked(x, y, W)
  <2>1. CASE x = y
    BY <2>1, LinkedRefl
  <2>2. CASE x # y
    <3>1. {x, y} \in W
      BY <1>2, <1>3, <2>2
    <3> QED
      BY <3>1, LinkedPair
  <2> QED
    BY <2>1, <2>2
<1>5. dossier \in Sources
  BY DEF Sources
<1>6. Agree(Sources, W)
  BY AgreeShift DEF VouchInv
<1>7. ASSUME NEW d \in Sources, NEW e \in Sources, NEW a \in Names(d, i), NEW b \in Names(e, j)
      PROVE  Linked(a, b, W)
  <2>1. Linked(a, x, W) /\ Linked(y, b, W)
    BY <1>1, <1>2, <1>3, <1>5, <1>6 DEF Agree
  <2> QED
    BY <1>4, <2>1, LinkedTrans
<1> QED
  BY <1>1, <1>7 DEF MergeOK, Meet

LEMMA OperatorVouch ==
  ASSUME IInv, VouchInv,
         \/ \E i, j \in Alive(dossier) : MergePersonas(i, j)
         \/ \E i \in Alive(dossier), a \in Actors : SplitPersona(i, a)
  PROVE  VouchInv'
<1>1. StepOK
  BY OperatorStep
<1>2. ASSUME NEW op, NEW of, NEW actor, NEW vouches, Command(op, of, actor, vouches),
             op = "merge" => MergeOK(of, Sources, Vouched', dossier.minted)
      PROVE  VouchInv'
  <2> DEFINE e == [op |-> op, of |-> of, actor |-> actor, vouches |-> vouches]
  <2>1. /\ commands' = Append(commands, e) /\ e.op = op /\ e.of = of
        /\ tasks' = tasks \cup {Task("command", Len(commands) + 1)} /\ UNCHANGED dossier
    BY <1>2 DEF Command, Start
  <2> HIDE DEF e
  <2>2. \A n \in 1..Len(commands') : n \in 1..Len(commands) \/ commands'[n] = e
    BY <2>1 DEF IInv, TablesOK
  <2>3. HandlersOK
    <3>1. \A n : Task("command", n).at = "start" /\ Task("command", n).view = EmptyDossier
      BY DEF Task
    <3> QED
      BY <2>1, <3>1 DEF HandlersOK
  <2> QED
    BY <1>1, <1>2, <2>1, <2>2, <2>3, QuietVouch
<1>3. ASSUME NEW i \in Alive(dossier), NEW j \in Alive(dossier), MergePersonas(i, j)
      PROVE  VouchInv'
  <2> DEFINE vouches == {{a, b} : a \in dossier.list[i], b \in dossier.list[j]} \cap Pairs
  <2>1. Command("merge", {i, j}, {}, vouches) /\ i # j
    BY <1>3 DEF MergePersonas
  <2>2. Vouched \subseteq Vouched' /\ Vouched' \in SUBSET Pairs
    <3>1. Vouched \subseteq Vouched'
      BY <1>1, VouchedGrows DEF StepOK
    <3>2. Vouched' \in SUBSET Pairs
      BY <1>1, VouchedNext DEF StepOK
    <3> QED
      BY <3>1, <3>2
  <2>3. vouches \subseteq Vouched'
    <3> HIDE DEF vouches
    <3> DEFINE e == [op |-> "merge", of |-> {i, j}, actor |-> {}, vouches |-> vouches]
    <3>1. commands' = Append(commands, e) /\ e.vouches = vouches /\ commands \in Seq(Commands)
      BY <2>1 DEF Command, IInv, TablesOK
    <3> HIDE DEF e
    <3>2. PICK n \in 1..Len(commands') : commands'[n] = e
      BY <3>1
    <3> QED
      BY <3>1, <3>2 DEF Vouched
  <2>4. MergeOK({i, j}, Sources, Vouched', dossier.minted)
    <3>1. PICK W \in SUBSET Pairs : W = Vouched'
      BY <2>2
    <3>2. ASSUME NEW a \in dossier.list[i], NEW b \in dossier.list[j], a # b
          PROVE  {a, b} \in W
      <4>1. a \in Actors /\ b \in Actors
        BY ListIsTyped DEF IInv, TablesOK
      <4>2. {a, b} \in vouches
        BY <3>2, <4>1, TwoIsPair
      <4> QED
        BY <2>3, <3>1, <4>2
    <3>3. Vouched \subseteq W
      BY <2>2, <3>1
    <3> HIDE DEF vouches
    <3>4. MergeOK({i, j}, Sources, W, dossier.minted)
      BY <2>1, <3>2, <3>3, MergeCommandVouches
    <3> QED
      BY <3>1, <3>4
  <2> HIDE DEF vouches
  <2> QED
    BY <1>2, <2>1, <2>4
<1>4. ASSUME NEW i \in Alive(dossier), NEW a \in Actors, SplitPersona(i, a)
      PROVE  VouchInv'
  BY <1>2, <1>4 DEF SplitPersona
<1> QED
  BY <1>3, <1>4

\* Under an id that was not minted, a merge names nobody but its pair.
LEMMA MergedFresh ==
  ASSUME NEW v \in Dossiers, NEW d \in Dossiers, NEW pair \in Pairs, NEW e \in MergedActors(pair, v, d),
         NEW i \in Nat \ {0}, i > d.minted
  PROVE  Names(e, i) \subseteq pair
<1>1. pair \subseteq Actors /\ d.minted \in Nat
  BY ListIsTyped DEF Pairs
<1>2. CASE e \in Dossiers /\ e.minted = d.minted
  BY <1>1, <1>2, NamesAreMinted
<1>3. CASE e \in Created(pair, d)
  <2>1. IsCreated(e, pair, d)
    BY <1>3, CreatedOK
  <2>2. \A a \in Actors : d.home[a] # i
    BY <1>1, ListIsTyped
  <2>3. i \notin Alive(d)
    BY <1>1, ListIsTyped
  <2> QED
    BY <2>1, <2>2, <2>3 DEF IsCreated, Names
<1>4. ASSUME NEW a \in Actors, NEW k \in Alive(v), e \in Joined(a, k, v, d)
      PROVE  e \in Dossiers /\ e.minted = d.minted
  BY <1>4, JoinedOK
<1>5. ASSUME NEW keep \in Alive(v), NEW drop \in Alive(v), keep # drop, e \in Absorbed(keep, drop, v, d)
      PROVE  e \in Dossiers /\ e.minted = d.minted
  BY <1>5, AbsorbedOK
<1> QED
  BY <1>1, <1>2, <1>3, <1>4, <1>5, MergedCases

LEMMA CommitVouch ==
  ASSUME IInv, VouchInv, NEW t \in tasks, CommitPersonas(t)
  PROVE  VouchInv'
<1>1. PICK S : S = Sources
  OBVIOUS
<1>2. PICK V \in SUBSET Pairs : V = Vouched /\ V = Vouched'
  <2>1. Vouched \in SUBSET Pairs
    BY VouchedOK DEF IInv
  <2>2. verdicts' = verdicts /\ commands' = commands
    BY DEF CommitPersonas
  <2>3. Vouched' = Vouched
    BY <2>2 DEF Vouched
  <2> QED
    BY <2>1, <2>3
<1>3. PICK d \in Dossiers : d = dossier
  BY DEF IInv, TablesOK
<1>4. PICK v \in Dossiers : v = t.view
  BY DEF IInv, TasksOK, TaskRecord
<1>5. PICK f \in Dossiers : f = dossier'
  BY CommitStep DEF StepOK, TablesOK
<1>6. PICK T : T = Sources'
  OBVIOUS
<1>7. d \in S /\ v \in S /\ S \subseteq Dossiers /\ T \subseteq S \cup {f} /\ Agree(S, V)
      /\ \A s \in S : s.minted <= d.minted
  BY <1>1, <1>2, <1>3, <1>4, <1>5, <1>6
     DEF Sources, VouchInv, IInv, TablesOK, TasksOK, TaskRecord, CommitPersonas, End
<1>8. d.minted \in Nat /\ f.minted \in Nat
  BY ListIsTyped
<1>9. \/ f = d
      \/ \E a \in Actors : f \in SplitActor(a, v, d)
      \/ t.pair \in Pairs /\ f \in MergedActors(t.pair, v, d) /\ \A a, b \in t.pair : Linked(a, b, V)
  BY <1>2, <1>3, <1>4, <1>5, CommitCases DEF VouchInv, PairOK, CommitPersonas
<1>10. d.minted <= f.minted
  BY <1>8, <1>9, SplitOK, MergedOK
<1>11. ASSUME NEW i \in Nat \ {0}, i <= d.minted
       PROVE  Grounded(f, S, i, V)
  <2>1. CASE f = d
    BY <1>7, <2>1, NamedGrounds
  <2>2. ASSUME NEW a \in Actors, f \in SplitActor(a, v, d) PROVE Grounded(f, S, i, V)
    BY <1>7, <2>2, SplitGrounded
  <2>3. CASE t.pair \in Pairs /\ f \in MergedActors(t.pair, v, d) /\ \A a, b \in t.pair : Linked(a, b, V)
    BY <1>7, <1>11, <2>3, MergedGrounded
  <2> QED
    BY <1>9, <2>1, <2>2, <2>3
<1>12. ASSUME NEW i \in Nat \ {0}, i > d.minted
       PROVE  (\A s \in S : Names(s, i) = {}) /\ \A a, b \in Names(f, i) : Linked(a, b, V)
  <2>1. ASSUME NEW s \in S PROVE Names(s, i) = {}
    <3>1. s \in Dossiers /\ s.minted \in Nat /\ s.minted <= d.minted
      BY <1>7, ListIsTyped
    <3> QED
      BY <1>8, <1>12, <3>1, NamesAreMinted
  <2>2. CASE f = d
    BY <1>7, <2>1, <2>2
  <2>3. ASSUME NEW a \in Actors, f \in SplitActor(a, v, d) PROVE Names(f, i) = {}
    <3>1. f.minted = d.minted
      BY <2>3, SplitOK
    <3> QED
      BY <1>8, <1>12, <3>1, NamesAreMinted
  <2>4. CASE t.pair \in Pairs /\ f \in MergedActors(t.pair, v, d) /\ \A a, b \in t.pair : Linked(a, b, V)
    BY <1>12, <2>4, MergedFresh, <2>1
  <2> QED
    BY <1>9, <2>1, <2>2, <2>3, <2>4
<1>13. Agree(T, V)
  <2>1. \A i \in Nat \ {0} : i <= d.minted \/ i > d.minted
    BY <1>8
  <2>2. Agree(S \cup {f}, V)
    BY <1>7, <1>11, <1>12, <2>1, AgreeGrows
  <2> QED
    BY <1>7, <2>2, AgreeShift
<1>14. \A s \in T : s.minted <= f.minted
  <2>1. \A s \in S : s.minted \in Nat
    BY <1>7, ListIsTyped
  <2> QED
    BY <1>7, <1>8, <1>10, <2>1
<1>15. ASSUME NEW of, MergeOK(of, S, V, d.minted)
       PROVE  MergeOK(of, T, V, f.minted)
  <2>1. PICK i \in 1..d.minted, j \in 1..d.minted : i # j /\ of = {i, j} /\ Meet(S, i, j, V)
    BY <1>15 DEF MergeOK
  <2>2. i \in Nat \ {0} /\ j \in Nat \ {0} /\ i <= d.minted /\ j <= d.minted
    BY <1>8
  <2>3. Grounded(f, S, i, V) /\ Grounded(f, S, j, V)
    BY <1>11, <2>2
  <2>4. Meet(S \cup {f}, i, j, V)
    BY <2>1, <2>2, <2>3, MeetGrows
  <2>5. Meet(T, i, j, V)
    BY <1>7, <2>2, <2>4, MeetShift
  <2>6. i \in 1..f.minted /\ j \in 1..f.minted
    BY <1>8, <1>10, <2>2
  <2> QED
    BY <2>1, <2>5, <2>6 DEF MergeOK
<1>16. \A n \in 1..Len(commands') :
         commands'[n].op = "merge" => MergeOK(commands'[n].of, T, V, f.minted)
  BY <1>1, <1>2, <1>3, <1>15 DEF VouchInv, CommitPersonas
<1>17. ASSUME NEW u \in tasks'
       PROVE  PairOK(u)'
  <2>1. Grown /\ u \in tasks
    BY CommitStep DEF CommitPersonas, End, StepOK
  <2> QED
    BY <2>1, PairKept DEF VouchInv
<1> QED
  BY <1>2, <1>5, <1>6, <1>13, <1>14, <1>16, <1>17 DEF VouchInv

LEMMA NewHandlerVouch ==
  ASSUME IInv, VouchInv, Next,
         \/ \E a \in Actors : ProfileCurrent(a)
         \/ \E p \in Pairs, verdict \in {"suspected", "confirmed", "rejected"} : DecideLinkage(p, verdict)
  PROVE  VouchInv'
<1>1. StepOK
  BY NextStep
<1>2. UNCHANGED <<dossier, commands>>
  BY DEF ProfileCurrent, DecideLinkage
<1>3. ASSUME NEW u \in tasks' \ tasks
      PROVE  u.at = "start" /\ u.view = EmptyDossier
  <2>1. ASSUME NEW a \in Actors, ProfileCurrent(a)
        PROVE  u.at = "start" /\ u.view = EmptyDossier
    <3>1. PICK n : u = [Task("link", n) EXCEPT !.actor = {a}]
      BY <1>3, <2>1 DEF ProfileCurrent, Start
    <3> QED
      BY <3>1 DEF Task
  <2>2. ASSUME NEW p, NEW verdict, DecideLinkage(p, verdict)
        PROVE  \E n : u = Task("verdict", n)
    BY <1>3, <2>2 DEF DecideLinkage, Start
  <2> QED
    BY <2>1, <2>2 DEF Task
<1>4. HandlersOK
  BY <1>3 DEF HandlersOK
<1> QED
  BY <1>1, <1>2, <1>4, QuietVouch

LEMMA VouchStep ==
  ASSUME IInv, VouchInv, Next
  PROVE  VouchInv'
<1>1. StepOK
  BY NextStep
<1>2. ASSUME HandlersOK, UNCHANGED <<dossier, commands>> PROVE VouchInv'
  BY <1>1, <1>2, QuietVouch
<1>3. ASSUME NEW t \in tasks, Link(t) PROVE VouchInv'
  <2>1. UNCHANGED <<dossier, commands>>
    BY <1>3 DEF Link, UpsertSimhash, NearestSimhashes, SelectProposed, InsertProposed, InsertRefused, AnnounceProposed
  <2> QED
    BY <1>2, <1>3, <2>1, LinkHandlers
<1>4. ASSUME NEW t \in tasks, Verify(t) PROVE VouchInv'
  <2>1. UNCHANGED <<dossier, commands>>
    BY <1>4 DEF Verify, RecordResult, VerifierReads, VerifierPromotes
  <2> QED
    BY <1>2, <1>4, <2>1, VerifyHandlers
<1>5. ASSUME NEW t \in tasks, GraphReads(t) \/ GraphApplies(t) PROVE VouchInv'
  <2>1. UNCHANGED <<dossier, commands>>
    BY <1>5 DEF GraphReads, GraphApplies
  <2> QED
    BY <1>2, <1>5, <2>1, VerdictHandlers
<1>6. ASSUME NEW t \in tasks, MergeMembers(t) \/ ReadPersonas(t) PROVE VouchInv'
  <2>1. UNCHANGED <<dossier, commands>>
    BY <1>6 DEF MergeMembers, ReadPersonas
  <2> QED
    BY <1>2, <1>6, <2>1, MembersHandlers, ReadHandlers
<1> QED
  BY <1>3, <1>4, <1>5, <1>6, CommitVouch, OperatorVouch, NewHandlerVouch DEF Next, Apply

LEMMA VouchStarts == Init => VouchInv
<1> SUFFICES ASSUME Init PROVE VouchInv
  OBVIOUS
<1>1. Sources = {EmptyDossier} /\ tasks = {} /\ dossier.minted = 0 /\ EmptyDossier.minted = 0
  BY DEF Init, Sources, EmptyDossier
<1>2. Agree(Sources, Vouched)
  BY <1>1, NobodyInEmpty DEF Agree
<1>3. Len(commands) = 0
  BY DEF Init
<1> QED
  BY <1>1, <1>2, <1>3 DEF VouchInv

\* However linkages were confirmed, and merges, splits and the handlers of both
\* fell between, two actors share a persona only when confirmations and
\* operators' merges connect them.
THEOREM PersonasAreVouchedHolds == Spec => []PersonasAreVouched
<1>1. IInv /\ VouchInv /\ [Next]_vars => VouchInv'
  <2>1. ASSUME UNCHANGED vars, VouchInv PROVE VouchInv'
    BY <2>1 DEF vars, VouchInv, Sources, PairOK, Splits, Vouched
  <2> QED
    BY <2>1, VouchStep
<1>2. IInv /\ VouchInv => PersonasAreVouched
  <2>1. ASSUME IInv, VouchInv, NEW a \in Actors, NEW b \in Actors,
               dossier.home[a] = dossier.home[b], dossier.home[a] # 0
        PROVE  Connected(a, b)
    <3>1. dossier.home[a] \in Nat \ {0} /\ dossier \in Sources
      BY <2>1, ListIsTyped DEF IInv, TablesOK, Sources
    <3>2. a \in Names(dossier, dossier.home[a]) /\ b \in Names(dossier, dossier.home[a])
      BY <2>1 DEF Names
    <3>3. Linked(a, b, Vouched)
      BY <2>1, <3>1, <3>2 DEF VouchInv, Agree
    <3> QED
      BY <3>3 DEF Linked, Connected
  <2> QED
    BY <2>1 DEF PersonasAreVouched
<1> QED
  BY <1>1, <1>2, VouchStarts, IInvHolds, PTL DEF Spec

-----------------------------------------------------------------------------
(* Lists and rows. *)

Matches(d) == \A i \in Alive(d) : d.list[i] = Members(d, i)

\* A commit of what is still there keeps them the same.
LEMMA CreatedMatches ==
  ASSUME NEW pair \in Pairs, NEW d \in Dossiers, Matches(d), NEW e \in Created(pair, d)
  PROVE  Matches(e)
<1>1. IsCreated(e, pair, d) /\ e.minted = d.minted + 1 /\ pair \subseteq Actors
  BY CreatedOK DEF Pairs
<1>2. d.minted \in Nat /\ e.minted \notin Alive(d) /\ \A a \in Actors : d.home[a] # e.minted
  BY <1>1, ListIsTyped
<1>3. \A a \in pair : d.home[a] = 0
  BY DEF Created
<1>4. ASSUME NEW k \in Alive(e)
      PROVE  e.list[k] = Members(e, k)
  <2>1. CASE k = e.minted
    BY <1>1, <1>2, <2>1 DEF IsCreated, Members
  <2>2. CASE k \in Alive(d)
    <3>1. k # 0 /\ k # e.minted /\ e.list[k] = Members(d, k)
      BY <1>1, <1>2, <2>2, ListIsTyped DEF IsCreated, Matches
    <3> QED
      BY <1>1, <1>3, <3>1 DEF IsCreated, Members
  <2> QED
    BY <1>1, <2>1, <2>2 DEF IsCreated
<1> QED
  BY <1>4 DEF Matches

LEMMA JoinedMatches ==
  ASSUME NEW d \in Dossiers, Matches(d), NEW a \in Actors, NEW i \in Alive(d), NEW e \in Joined(a, i, d, d)
  PROVE  Matches(e)
<1>1. IsJoined(e, a, i, d, d)
  BY JoinedOK
<1>2. i # 0
  BY ListIsTyped
<1>3. a \notin d.list[i] /\ d.home[a] = 0
  BY <1>1, <1>2 DEF IsJoined, Matches, Members
<1>4. ASSUME NEW k \in Alive(e)
      PROVE  e.list[k] = Members(e, k)
  <2>1. k \in Alive(d) /\ k # 0 /\ d.list[k] = Members(d, k)
    BY <1>1, ListIsTyped DEF IsJoined, Matches
  <2> QED
    BY <1>1, <1>3, <2>1 DEF IsJoined, Members
<1> QED
  BY <1>4 DEF Matches

LEMMA AbsorbedMatches ==
  ASSUME NEW d \in Dossiers, Matches(d), NEW keep \in Alive(d), NEW drop \in Alive(d), keep # drop,
         NEW e \in Absorbed(keep, drop, d, d)
  PROVE  Matches(e)
<1>1. IsAbsorbed(e, keep, drop, d, d)
  BY AbsorbedOK
<1>2. d.list[keep] = Members(d, keep) /\ d.list[drop] = Members(d, drop)
  BY DEF Matches
<1>3. ASSUME NEW k \in Alive(e)
      PROVE  e.list[k] = Members(e, k)
  <2>1. k \in Alive(d) /\ k # drop /\ d.list[k] = Members(d, k)
    BY <1>1 DEF IsAbsorbed, Matches
  <2> QED
    BY <1>1, <1>2, <2>1 DEF IsAbsorbed, Members
<1> QED
  BY <1>3 DEF Matches

LEMMA SplitMatches ==
  ASSUME NEW d \in Dossiers, Matches(d), NEW a \in Actors, NEW e \in SplitActor(a, d, d)
  PROVE  Matches(e)
<1> DEFINE i == d.home[a]
           rest == d.list[i] \ {a}
           away == [x \in Actors |-> IF x = a /\ d.home[a] = i THEN 0 ELSE d.home[x]]
<1>1. /\ d.list \in [Alive(d) -> (SUBSET Actors) \ {{}}] /\ i \in Alive(d) \cup {0}
      /\ d = [home |-> d.home, list |-> d.list, minted |-> d.minted]
      /\ d.home \in [Actors -> Alive(d) \cup {0}] /\ Alive(d) \subseteq 1..d.minted
  BY ListIsTyped
<1>2. \A x \in Actors : away[x] = IF x = a THEN 0 ELSE d.home[x]
  OBVIOUS
<1>3. CASE i = 0
  BY <1>3 DEF SplitActor
<1>4. ASSUME i # 0, NEW k \in Alive(d), k # i
      PROVE  d.list[k] = {x \in Actors : away[x] = k}
  <2>1. k # 0 /\ d.list[k] = Members(d, k)
    BY <1>1 DEF Matches
  <2> QED
    BY <1>4, <2>1 DEF Members
<1>5. CASE i # 0 /\ rest # {}
  <2>1. e = [home |-> away, list |-> [d.list EXCEPT ![i] = rest], minted |-> d.minted]
    BY <1>1, <1>5 DEF SplitActor
  <2>2. rest = {x \in Actors : away[x] = i}
    BY <1>1, <1>5 DEF Matches, Members
  <2>3. Alive(e) = Alive(d) /\ e.home = away /\ e.list = [d.list EXCEPT ![i] = rest]
    BY <1>1, <2>1 DEF Alive
  <2>4. ASSUME NEW k \in Alive(e) PROVE e.list[k] = {x \in Actors : away[x] = k}
    <3> HIDE DEF away, rest, i
    <3>1. e.list[k] = IF k = i THEN rest ELSE d.list[k]
      BY <1>1, <2>3
    <3> QED
      BY <1>4, <1>5, <2>2, <2>3, <3>1
  <2> QED
    BY <2>3, <2>4 DEF Matches, Members
<1>6. CASE i # 0 /\ rest = {}
  <2>1. e = [home |-> away, list |-> [k \in Alive(d) \ {i} |-> d.list[k]], minted |-> d.minted]
    BY <1>1, <1>6 DEF SplitActor
  <2>2. Alive(e) = Alive(d) \ {i} /\ e.home = away /\ e.list = [k \in Alive(d) \ {i} |-> d.list[k]]
    BY <2>1 DEF Alive
  <2>3. ASSUME NEW k \in Alive(e) PROVE e.list[k] = {x \in Actors : away[x] = k}
    <3> HIDE DEF away, rest, i
    <3> QED
      BY <1>4, <1>6, <2>2
  <2> QED
    BY <2>2, <2>3 DEF Matches, Members
<1> QED
  BY <1>3, <1>5, <1>6

LEMMA CommitMatches ==
  ASSUME IInv, NEW t \in tasks, CommitPersonas(t), overlap.personas \/ Matches(dossier)
  PROVE  overlap'.personas \/ Matches(dossier)'
<1>1. overlap'.personas = (overlap.personas \/ t.view # dossier)
  BY DEF CommitPersonas, IInv, TablesOK
<1>2. PICK d \in Dossiers : d = dossier
  BY DEF IInv, TablesOK
<1>3. PICK e : e = dossier'
  OBVIOUS
<1>4. ASSUME t.view = dossier, Matches(d)
      PROVE  Matches(e)
  <2>1. CASE e = d
    BY <1>4, <2>1
  <2>2. ASSUME NEW a \in Actors, e \in SplitActor(a, d, d) PROVE Matches(e)
    BY <1>4, <2>2, SplitMatches
  <2>3. CASE t.pair \in Pairs /\ e \in MergedActors(t.pair, d, d)
    <3>1. t.pair \subseteq Actors
      BY <2>3 DEF Pairs
    <3>2. CASE e \in Created(t.pair, d)
      BY <1>4, <2>3, <3>2, CreatedMatches
    <3>3. ASSUME NEW a \in Actors, NEW i \in Alive(d), e \in Joined(a, i, d, d) PROVE Matches(e)
      BY <1>4, <3>3, JoinedMatches
    <3>4. ASSUME NEW keep \in Alive(d), NEW drop \in Alive(d), keep # drop, e \in Absorbed(keep, drop, d, d)
          PROVE  Matches(e)
      BY <1>4, <3>4, AbsorbedMatches
    <3> QED
      BY <2>1, <2>3, <3>1, <3>2, <3>3, <3>4, MergedCases
  <2> QED
    BY <1>2, <1>3, <1>4, <2>1, <2>2, <2>3, CommitCases
<1> QED
  BY <1>1, <1>2, <1>3, <1>4 DEF Matches, Members, Alive

\* A persona's list and its membership rows name the same actors until two
\* handlers that write personas overlap.
THEOREM ListsMatchRowsHolds == Spec => []ListsMatchRows
<1> DEFINE MatchInv == overlap.personas \/ Matches(dossier)
<1>1. Init => MatchInv
  BY DEF Init, EmptyDossier, Matches, Alive
<1>2. ASSUME IInv, MatchInv, Next PROVE MatchInv'
  <2>1. CASE UNCHANGED <<dossier, overlap>>
    BY <1>2, <2>1 DEF Matches, Members, Alive
  <2>2. ASSUME NEW t \in tasks, CommitPersonas(t) PROVE MatchInv'
    BY <1>2, <2>2, CommitMatches
  <2>3. ASSUME UNCHANGED dossier, overlap'.personas = overlap.personas PROVE MatchInv'
    BY <1>2, <2>3 DEF Matches, Members, Alive
  <2>4. ASSUME NEW t \in tasks, VerifierPromotes(t) \/ GraphApplies(t) PROVE MatchInv'
    <3>1. overlap'.personas = overlap.personas /\ UNCHANGED dossier
      BY <1>2, <2>4 DEF VerifierPromotes, GraphApplies, WriteRow, IInv, TablesOK
    <3> QED
      BY <2>3, <3>1
  <2>5. ASSUME NEW t \in tasks, Link(t) PROVE UNCHANGED <<dossier, overlap>>
    BY <2>5 DEF Link, UpsertSimhash, NearestSimhashes, SelectProposed, InsertProposed, InsertRefused, AnnounceProposed
  <2>6. ASSUME NEW t \in tasks, RecordResult(t) \/ VerifierReads(t) PROVE UNCHANGED <<dossier, overlap>>
    BY <2>6 DEF RecordResult, VerifierReads
  <2>7. ASSUME NEW t \in tasks, GraphReads(t) \/ MergeMembers(t) \/ ReadPersonas(t) PROVE UNCHANGED <<dossier, overlap>>
    BY <2>7 DEF GraphReads, MergeMembers, ReadPersonas
  <2>8. ASSUME NEW i, NEW j, MergePersonas(i, j) \/ SplitPersona(i, j) PROVE UNCHANGED <<dossier, overlap>>
    BY <2>8 DEF MergePersonas, SplitPersona, Command
  <2>9. ASSUME NEW i, NEW j, ProfileCurrent(i) \/ DecideLinkage(i, j) PROVE UNCHANGED <<dossier, overlap>>
    BY <2>9 DEF ProfileCurrent, DecideLinkage
  <2> HIDE DEF MatchInv
  <2> QED
    BY <1>2, <2>1, <2>2, <2>4, <2>5, <2>6, <2>7, <2>8, <2>9 DEF Next, Verify, Apply
<1>3. ASSUME MatchInv, UNCHANGED vars PROVE MatchInv'
  BY <1>3 DEF vars, Matches, Members, Alive
<1>4. IInv /\ MatchInv => ListsMatchRows
  <2>1. ASSUME IInv PROVE \A i \in Alive(dossier) : dossier.list[i] # {}
    BY <2>1, ListIsTyped DEF IInv, TablesOK
  <2> QED
    BY <2>1 DEF Matches, ListsMatchRows
<1> HIDE DEF MatchInv
<1> QED
  BY <1>1, <1>2, <1>3, <1>4, IInvHolds, PTL DEF Spec

-----------------------------------------------------------------------------
(* Where a verdict has got to. *)

\* The verdict is still on its way to the row.
Landing(n) == \E t \in tasks : t.kind = "verdict" /\ t.no = n /\ t.at \in {"start", "write"}

ClosedBy(p) == \E n \in 1..Len(verdicts) : verdicts[n].pair = p /\ verdicts[n].verdict = linkage[p].state

\* A row is closed by a verdict on it, and a verdict that closes is on its way,
\* has found or left the row closed, or was overwritten.
LandInv ==
  /\ \A p \in Pairs : /\ linkage[p].state = "absent" => linkage[p] = NoRow
                      /\ linkage[p].state \in Terminal => ClosedBy(p)
  /\ \A n \in 1..Len(verdicts) :
       /\ linkage[verdicts[n].pair] # NoRow
       /\ verdicts[n].verdict \in Terminal =>
            \/ Landing(n) \/ verdicts[n].pair \in overlap.rows
            \/ linkage[verdicts[n].pair].state \in Terminal

Shared(p, d) == \E a \in p : d.home[a] # 0 /\ \A b \in p : d.home[b] = d.home[a]

\* The confirmation is still on its way to the personas.
Merging(p) == \E t \in tasks : t.kind = "verdict" /\ t.at \in {"persona", "commit"} /\ t.pair = p

SomeSplit == \E n \in 1..Len(commands) : commands[n].op = "split"

ShareInv ==
  \/ overlap.personas \/ SomeSplit
  \/ \A p \in Pairs : linkage[p].state = "confirmed" => Shared(p, dossier) \/ Merging(p)

LEMMA LandStarts == Init => LandInv /\ ShareInv
  BY DEF Init, LandInv, ShareInv, NoRow, Terminal

\* What a step may do to the rows and to the verdicts on their way to them.
LEMMA LandKept ==
  ASSUME IInv, LandInv, Grown, Final, UNCHANGED verdicts, overlap.rows \subseteq overlap'.rows,
         \A p \in Pairs : \/ linkage'[p] = linkage[p]
                          \/ linkage'[p].state # "absent" /\ (linkage'[p].state \in Terminal => ClosedBy(p)'),
         \A n \in 1..Len(verdicts) :
           verdicts[n].verdict \in Terminal /\ Landing(n) =>
             Landing(n)' \/ linkage'[verdicts[n].pair].state \in Terminal
  PROVE  LandInv'
<1>1. ASSUME NEW p \in Pairs
      PROVE  /\ linkage'[p].state = "absent" => linkage'[p] = NoRow
             /\ linkage'[p].state \in Terminal => ClosedBy(p)'
  <2>1. CASE linkage'[p] = linkage[p]
    BY <2>1 DEF LandInv, ClosedBy
  <2>2. CASE linkage'[p] # linkage[p]
    BY <2>2
  <2> QED
    BY <2>1, <2>2
<1>2. ASSUME NEW n \in 1..Len(verdicts)
      PROVE  /\ linkage'[verdicts[n].pair] # NoRow
             /\ verdicts[n].verdict \in Terminal =>
                  \/ Landing(n)' \/ verdicts[n].pair \in overlap'.rows
                  \/ linkage'[verdicts[n].pair].state \in Terminal
  <2>1. verdicts[n].pair \in Pairs
    <3>1. verdicts[n] \in Verdicts
      BY DEF IInv, TablesOK
    <3> QED
      BY <3>1 DEF Verdicts
  <2>2. linkage'[verdicts[n].pair] # NoRow
    BY <2>1 DEF LandInv, Grown
  <2> QED
    BY <2>1, <2>2 DEF LandInv, Final
<1> QED
  BY <1>1, <1>2 DEF LandInv

\* A task that is not taking a verdict to a row.
LEMMA LandingKept ==
  ASSUME NEW t, tasks \ {t} \subseteq tasks', ~(t.kind = "verdict" /\ t.at \in {"start", "write"}),
         NEW n, Landing(n)
  PROVE  Landing(n)'
  BY DEF Landing

LEMMA LandQuiet ==
  ASSUME IInv, LandInv, StepOK, Final, UNCHANGED <<verdicts, linkage, overlap>>,
         \A n \in 1..Len(verdicts) : Landing(n) => Landing(n)'
  PROVE  LandInv'
  BY LandKept DEF StepOK

LEMMA LandLink ==
  ASSUME IInv, LandInv, StepOK, Final, NEW t \in tasks, Link(t)
  PROVE  LandInv'
<1>1. UNCHANGED <<verdicts, overlap>> /\ t.kind = "link" /\ tasks \ {t} \subseteq tasks'
  BY DEF Link, UpsertSimhash, NearestSimhashes, SelectProposed, InsertProposed, InsertRefused,
         AnnounceProposed, Move, End
<1>2. \A n : Landing(n) => Landing(n)'
  BY <1>1, LandingKept
<1>3. \A p \in Pairs : linkage'[p] = linkage[p] \/ linkage'[p].state = "proposed"
  <2>1. UNCHANGED linkage \/ InsertProposed(t)
    BY DEF Link, UpsertSimhash, NearestSimhashes, SelectProposed, InsertRefused, AnnounceProposed
  <2> QED
    BY <2>1, InsertedRows
<1>4. Grown
  BY DEF StepOK
<1> QED
  BY <1>1, <1>2, <1>3, <1>4, LandKept DEF Terminal

LEMMA LandVerify ==
  ASSUME IInv, LandInv, StepOK, Final, NEW t \in tasks, Verify(t)
  PROVE  LandInv'
<1>1. /\ UNCHANGED verdicts /\ t.kind = "verify" /\ tasks \ {t} \subseteq tasks'
      /\ UNCHANGED <<linkage, overlap>> \/ WriteRow(t, proposed[t.no], "suspected")
  BY DEF Verify, RecordResult, VerifierReads, VerifierPromotes, ReadRow, Move, End
<1>2. \A n : Landing(n) => Landing(n)'
  BY <1>1, LandingKept
<1>3. /\ linkage \in [Pairs -> [id : 0..Len(proposed), state : States]]
      /\ overlap \in [rows : SUBSET Pairs, personas : BOOLEAN] /\ proposed[t.no] \in Pairs
  BY <1>1, ProposalIsTyped DEF IInv, TablesOK
<1>4. /\ \A p \in Pairs : linkage'[p] = linkage[p] \/ linkage'[p].state = "suspected"
      /\ overlap.rows \subseteq overlap'.rows
  BY <1>1, <1>3 DEF WriteRow
<1>5. Grown
  BY DEF StepOK
<1> QED
  BY <1>1, <1>2, <1>4, <1>5, LandKept DEF Terminal

LEMMA LandVerdict ==
  ASSUME IInv, LandInv, StepOK, Final, NEW t \in tasks, GraphReads(t) \/ GraphApplies(t)
  PROVE  LandInv'
<1>1. /\ t.kind = "verdict" /\ t.no \in 1..Len(verdicts) /\ PairOf(t) \in Pairs /\ t \in TaskRecord
      /\ Verdict(t) \in {"suspected", "confirmed", "rejected"}
  BY VerdictIsTyped DEF GraphReads, GraphApplies
<1>2. /\ UNCHANGED verdicts /\ tasks \ {t} \subseteq tasks'
  BY DEF GraphReads, GraphApplies, ReadRow, Follows, Move, End
<1>3. /\ linkage \in [Pairs -> [id : 0..Len(proposed), state : States]]
      /\ overlap \in [rows : SUBSET Pairs, personas : BOOLEAN]
  BY DEF IInv, TablesOK
<1>4. Grown
  BY DEF StepOK
<1>5. \A n : Landing(n) /\ n # t.no => Landing(n)'
  BY <1>2 DEF Landing
<1>6. CASE GraphReads(t)
  <2>1. UNCHANGED <<linkage, overlap>>
    BY <1>6 DEF GraphReads
  <2>2. Verdict(t) \in Terminal => Landing(t.no)' \/ linkage[PairOf(t)].state \in Terminal
    <3>1. CASE Verdict(t) \in Legal(linkage[PairOf(t)].state)
      <4> DEFINE u == [At(t, "write") EXCEPT !.row = linkage[PairOf(t)].state]
      <4>1. u \in tasks'
        BY <1>6, <3>1 DEF GraphReads, ReadRow, Move
      <4>2. u.kind = "verdict" /\ u.no = t.no /\ u.at = "write"
        BY <1>1 DEF At, TaskRecord
      <4> HIDE DEF u
      <4> QED
        BY <4>1, <4>2 DEF Landing
    <3>2. CASE Verdict(t) \notin Legal(linkage[PairOf(t)].state)
      <4>1. linkage[PairOf(t)].state # "absent"
        BY <1>1 DEF LandInv, PairOf
      <4>2. linkage[PairOf(t)].state \in States
        BY <1>1, <1>3
      <4> QED
        BY <3>2, <4>1, <4>2 DEF States, Terminal, Legal
    <3> QED
      BY <3>1, <3>2
  <2> QED
    BY <1>2, <1>4, <1>5, <2>1, <2>2, LandKept DEF Verdict, PairOf
<1>7. CASE GraphApplies(t)
  <2>1. WriteRow(t, PairOf(t), Verdict(t))
    BY <1>7 DEF GraphApplies
  <2>2. /\ linkage'[PairOf(t)].state = Verdict(t)
        /\ \A p \in Pairs : p # PairOf(t) => linkage'[p] = linkage[p]
        /\ overlap.rows \subseteq overlap'.rows
    BY <1>1, <1>3, <2>1 DEF WriteRow
  <2>3. ASSUME NEW p \in Pairs, p = PairOf(t) PROVE ClosedBy(p)'
    BY <1>1, <1>2, <2>2, <2>3 DEF ClosedBy, PairOf, Verdict
  <2>4. \A n \in 1..Len(verdicts) : verdicts[n].verdict \in Terminal /\ Landing(n) =>
           Landing(n)' \/ linkage'[verdicts[n].pair].state \in Terminal
    BY <1>5, <2>2 DEF Verdict, PairOf
  <2>5. \A p \in Pairs : \/ linkage'[p] = linkage[p]
                         \/ linkage'[p].state # "absent" /\ (linkage'[p].state \in Terminal => ClosedBy(p)')
    BY <1>1, <2>2, <2>3
  <2> QED
    BY <1>2, <1>4, <2>2, <2>4, <2>5, LandKept
<1> QED
  BY <1>6, <1>7

LEMMA LandPersonas ==
  ASSUME IInv, LandInv, StepOK, Final, NEW t \in tasks,
         MergeMembers(t) \/ ReadPersonas(t) \/ CommitPersonas(t)
  PROVE  LandInv'
<1>1. /\ UNCHANGED <<verdicts, linkage>> /\ tasks \ {t} \subseteq tasks'
      /\ ~(t.kind = "verdict" /\ t.at \in {"start", "write"})
  BY DEF MergeMembers, ReadPersonas, CommitPersonas, Move, End
<1>2. overlap'.rows = overlap.rows
  BY DEF MergeMembers, ReadPersonas, CommitPersonas, IInv, TablesOK
<1>3. \A n : Landing(n) => Landing(n)'
  BY <1>1, LandingKept
<1>4. Grown
  BY DEF StepOK
<1> QED
  BY <1>1, <1>2, <1>3, <1>4, LandKept

LEMMA LandDecides ==
  ASSUME IInv, LandInv, StepOK, NEW p \in Pairs, NEW verdict \in {"suspected", "confirmed", "rejected"},
         DecideLinkage(p, verdict)
  PROVE  LandInv'
<1> DEFINE new == [verdict |-> verdict, pair |-> p]
<1>0. PICK m : m = Len(verdicts) + 1
  OBVIOUS
<1>1. /\ verdicts' = Append(verdicts, new) /\ UNCHANGED <<linkage, overlap>> /\ linkage[p] # NoRow
      /\ tasks' = tasks \cup {Task("verdict", m)}
  BY <1>0 DEF DecideLinkage, Start
<1>2. new \in Verdicts /\ verdicts \in Seq(Verdicts)
  BY DEF Verdicts, IInv, TablesOK
<1>3. /\ Len(verdicts') = m /\ verdicts'[m] = new /\ m \in Nat
      /\ \A n \in 1..Len(verdicts) : n \in 1..Len(verdicts') /\ verdicts'[n] = verdicts[n]
  BY <1>0, <1>1, <1>2, AppendOK
<1>4. Landing(m)'
  BY <1>1, <1>3, NewTask DEF Landing, Kinds
<1>5. \A n \in 1..Len(verdicts) : Landing(n) => Landing(n)'
  BY <1>1 DEF Landing
<1>6. ASSUME NEW q \in Pairs, linkage[q].state \in Terminal PROVE ClosedBy(q)'
  BY <1>1, <1>3, <1>6 DEF LandInv, ClosedBy
<1>7. ASSUME NEW n \in 1..Len(verdicts')
      PROVE  /\ linkage'[verdicts'[n].pair] # NoRow
             /\ verdicts'[n].verdict \in Terminal =>
                  \/ Landing(n)' \/ verdicts'[n].pair \in overlap'.rows
                  \/ linkage'[verdicts'[n].pair].state \in Terminal
  <2>1. CASE n = m
    BY <1>1, <1>3, <1>4, <2>1
  <2>2. CASE n # m
    <3>1. n \in 1..Len(verdicts) /\ verdicts'[n] = verdicts[n]
      BY <1>0, <1>2, <1>3, <2>2
    <3> QED
      BY <1>1, <1>5, <3>1 DEF LandInv
  <2> QED
    BY <2>1, <2>2
<1> QED
  BY <1>1, <1>6, <1>7 DEF LandInv

LEMMA LandStep ==
  ASSUME IInv, LandInv, Next
  PROVE  LandInv'
<1>1. StepOK /\ Final
  BY NextStep, StepIsFinal
<1>2. ASSUME NEW i, NEW j, MergePersonas(i, j) \/ SplitPersona(i, j)
      PROVE  UNCHANGED <<verdicts, linkage, overlap>> /\ tasks \subseteq tasks'
  BY <1>2 DEF MergePersonas, SplitPersona, Command, Start
<1>3. ASSUME NEW a, ProfileCurrent(a)
      PROVE  UNCHANGED <<verdicts, linkage, overlap>> /\ tasks \subseteq tasks'
  BY <1>3 DEF ProfileCurrent, Start
<1>4. ASSUME UNCHANGED <<verdicts, linkage, overlap>>, tasks \subseteq tasks' PROVE LandInv'
  BY <1>1, <1>4, LandQuiet DEF Landing
<1>5. ASSUME NEW t \in tasks, Apply(t) PROVE LandInv'
  BY <1>1, <1>5, LandVerdict, LandPersonas DEF Apply
<1> QED
  BY <1>1, <1>2, <1>3, <1>4, <1>5, LandLink, LandVerify, LandDecides DEF Next

-----------------------------------------------------------------------------
(* Where a confirmed pair has got to. *)

\* The homes a merge has read, for the two actors it has them of.
LEMMA TwoHomes ==
  ASSUME NEW i \in Nat, NEW j \in Nat, i # j
  PROVE  Cardinality({i, j}) = 2 /\ Oldest({i, j}) \in {i, j}
<1>1. IsFiniteSet({i}) /\ Cardinality({i}) = 1
  BY FS_Singleton
<1>2. Cardinality({i} \cup {j}) = 2
  BY <1>1, FS_AddElement
<1>3. {i} \cup {j} = {i, j}
  OBVIOUS
<1>4. \E k \in {i, j} : \A l \in {i, j} : k <= l
  OBVIOUS
<1>5. Oldest({i, j}) \in {i, j}
  BY <1>4 DEF Oldest
<1> QED
  BY <1>2, <1>3, <1>5

\* A merge of what is still there succeeds, and its pair shares a persona.
LEMMA MergeShares ==
  ASSUME NEW d \in Dossiers, NEW pair \in Pairs
  PROVE  MergedActors(pair, d, d) # {} /\ \A e \in MergedActors(pair, d, d) : Shared(pair, e)
<1> DEFINE homes == {d.home[a] : a \in pair} \ {0}
           alone == {a \in pair : d.home[a] = 0}
<1>1. PICK x, y \in Actors : x # y /\ pair = {x, y}
  BY PairIsTwo
<1>2. /\ d.home \in [Actors -> Alive(d) \cup {0}] /\ Alive(d) \subseteq Nat /\ 0 \notin Alive(d)
      /\ d.minted \in Nat
  BY ListIsTyped
<1>3. homes \subseteq Alive(d) /\ \A i \in homes : \E a \in pair : d.home[a] = i
  BY <1>1, <1>2
<1>4. CASE homes = {}
  <2>1. MergedActors(pair, d, d) = Created(pair, d)
    BY <1>4 DEF MergedActors
  <2>2. \A a \in pair : d.home[a] = 0
    BY <1>4
  <2>3. Created(pair, d) # {}
    BY <2>2 DEF Created
  <2>4. ASSUME NEW e \in Created(pair, d) PROVE Shared(pair, e)
    <3>1. e.minted = d.minted + 1 /\ IsCreated(e, pair, d)
      BY CreatedOK
    <3>2. \A a \in pair : e.home[a] = e.minted
      BY <1>1, <3>1 DEF IsCreated
    <3> QED
      BY <1>1, <1>2, <3>1, <3>2 DEF Shared
  <2> QED
    BY <2>1, <2>3, <2>4
<1>5. CASE homes # {} /\ alone # {}
  <2>1. MergedActors(pair, d, d) = UNION {Joined(a, i, d, d) : a \in alone, i \in homes}
    BY <1>5 DEF MergedActors
  <2>2. ASSUME NEW a \in alone, NEW i \in homes
        PROVE  Joined(a, i, d, d) # {} /\ \A e \in Joined(a, i, d, d) : Shared(pair, e)
    <3>1. a \in Actors /\ a \in pair /\ d.home[a] = 0 /\ i \in Alive(d) /\ i # 0
      BY <1>1, <1>3
    <3>2. Joined(a, i, d, d) # {}
      BY <3>1 DEF Joined
    <3>3. PICK b \in pair : d.home[b] = i
      BY <1>3
    <3>4. pair = {a, b} /\ a # b /\ b \in Actors
      BY <1>1, <3>1, <3>3
    <3>5. ASSUME NEW e \in Joined(a, i, d, d) PROVE Shared(pair, e)
      <4>1. IsJoined(e, a, i, d, d)
        BY <3>1, JoinedOK
      <4>2. e.home[a] = i /\ e.home[b] = i
        BY <3>1, <3>3, <3>4, <4>1 DEF IsJoined
      <4> QED
        BY <3>1, <3>4, <4>2 DEF Shared
    <3> QED
      BY <3>2, <3>5
  <2> HIDE DEF homes, alone
  <2> QED
    BY <1>5, <2>1, <2>2
<1>6. CASE alone = {}
  <2>1. PICK i \in Nat, j \in Nat : /\ i = d.home[x] /\ j = d.home[y]
                                   /\ i \in Alive(d) /\ j \in Alive(d) /\ i # 0 /\ j # 0
    <3>1. x \notin alone /\ y \notin alone
      BY <1>6
    <3> QED
      BY <1>1, <1>2, <3>1
  <2>2. homes = {i, j}
    BY <1>1, <2>1
  <2>3. CASE i = j
    <3>1. homes = {i}
      BY <2>2, <2>3
    <3>2. homes # {} /\ Cardinality(homes) = 1
      BY <3>1, FS_Singleton
    <3>3. MergedActors(pair, d, d) = {d}
      BY <1>6, <3>2 DEF MergedActors
    <3>4. Shared(pair, d)
      BY <1>1, <2>1, <2>3 DEF Shared
    <3> QED
      BY <3>3, <3>4
  <2>4. CASE i # j
    <3>1. Cardinality(homes) = 2 /\ Oldest(homes) \in {i, j}
      BY <2>2, <2>4, TwoHomes
    <3>2. PICK keep : keep = Oldest(homes)
      OBVIOUS
    <3>3. homes # {} /\ Cardinality(homes) # 1
      BY <2>2, <3>1
    <3>4. MergedActors(pair, d, d) = UNION {Absorbed(keep, drop, d, d) : drop \in homes \ {keep}}
      <4>1. MergedActors(pair, d, d) =
              IF homes = {} THEN Created(pair, d)
              ELSE IF alone # {} THEN UNION {Joined(a, g, d, d) : a \in alone, g \in homes}
              ELSE IF Cardinality(homes) = 1 THEN {d}
              ELSE UNION {Absorbed(Oldest(homes), drop, d, d) : drop \in homes \ {Oldest(homes)}}
        BY DEF MergedActors
      <4> HIDE DEF homes, alone
      <4> QED
        BY <1>6, <3>2, <3>3, <4>1
    <3> HIDE DEF homes
    <3>5. ASSUME NEW drop \in homes \ {keep}
          PROVE  Absorbed(keep, drop, d, d) # {} /\ \A e \in Absorbed(keep, drop, d, d) : Shared(pair, e)
      <4>1. keep \in Alive(d) /\ drop \in Alive(d) /\ keep # drop /\ keep # 0
        BY <2>1, <2>2, <3>1, <3>2
      <4>2. Absorbed(keep, drop, d, d) # {}
        BY <4>1 DEF Absorbed
      <4>3. \A a \in pair : a \in Actors /\ (d.home[a] = keep \/ d.home[a] = drop)
        BY <1>1, <2>1, <2>2, <3>1, <3>2
      <4>4. ASSUME NEW e \in Absorbed(keep, drop, d, d) PROVE Shared(pair, e)
        <5>1. IsAbsorbed(e, keep, drop, d, d)
          BY <4>1, AbsorbedOK
        <5>2. \A a \in pair : e.home[a] = keep
          BY <4>3, <5>1 DEF IsAbsorbed
        <5> QED
          BY <1>1, <4>1, <5>2 DEF Shared
      <4> QED
        BY <4>2, <4>4
    <3>6. homes \ {keep} # {}
      BY <2>2, <2>4, <3>1, <3>2
    <3> QED
      BY <3>4, <3>5, <3>6
  <2> QED
    BY <2>3, <2>4
<1> QED
  BY <1>4, <1>5, <1>6

\* It parts no pair that shares one.
LEMMA MergeParts ==
  ASSUME NEW d \in Dossiers, NEW pair \in Pairs, NEW e \in MergedActors(pair, d, d),
         NEW p \in Pairs, Shared(p, d)
  PROVE  Shared(p, e)
<1>1. PICK h : h # 0 /\ \A a \in p : a \in Actors /\ d.home[a] = h
  BY DEF Shared, Pairs
<1>2. pair \subseteq Actors /\ 0 \notin Alive(d)
  BY ListIsTyped DEF Pairs
<1>3. PICK b \in p : TRUE
  BY DEF Shared
<1>4. ASSUME NEW g, g # 0, \A a \in p : e.home[a] = g PROVE Shared(p, e)
  BY <1>3, <1>4 DEF Shared
<1>5. CASE e \in Created(pair, d)
  <2>1. IsCreated(e, pair, d) /\ \A a \in pair : d.home[a] = 0
    BY <1>5, CreatedOK DEF Created
  <2>2. \A a \in p : e.home[a] = h
    BY <1>1, <2>1 DEF IsCreated
  <2> QED
    BY <1>1, <1>4, <2>2
<1>6. ASSUME NEW a \in Actors, NEW i \in Alive(d), e \in Joined(a, i, d, d) PROVE Shared(p, e)
  <2>1. IsJoined(e, a, i, d, d)
    BY <1>6, JoinedOK
  <2>2. \A c \in p : e.home[c] = h
    BY <1>1, <2>1 DEF IsJoined
  <2> QED
    BY <1>1, <1>4, <2>2
<1>7. ASSUME NEW keep \in Alive(d), NEW drop \in Alive(d), keep # drop, e \in Absorbed(keep, drop, d, d)
      PROVE  Shared(p, e)
  <2>1. IsAbsorbed(e, keep, drop, d, d) /\ keep # 0
    BY <1>2, <1>7, AbsorbedOK
  <2>2. \A c \in p : e.home[c] = IF h = drop THEN keep ELSE h
    BY <1>1, <2>1 DEF IsAbsorbed
  <2> QED
    BY <1>1, <1>4, <2>1, <2>2
<1> QED
  BY <1>2, <1>5, <1>6, <1>7, MergedCases

\* What a step may do that leaves the personas alone.
LEMMA ShareKept ==
  ASSUME IInv, ShareInv, Grown, UNCHANGED dossier, overlap'.personas = overlap.personas,
         \A p \in Pairs : linkage'[p].state = "confirmed" => linkage[p].state = "confirmed" \/ Merging(p)',
         \A p \in Pairs : Merging(p) => Merging(p)'
  PROVE  ShareInv'
<1>1. SomeSplit => SomeSplit'
  BY DEF SomeSplit, Grown
<1>2. \A p \in Pairs : Shared(p, dossier) => Shared(p, dossier)'
  BY DEF Shared
<1> QED
  BY <1>1, <1>2 DEF ShareInv

\* A task that is not taking a confirmation to the personas.
LEMMA MergingKept ==
  ASSUME NEW t, tasks \ {t} \subseteq tasks', ~(t.kind = "verdict" /\ t.at \in {"persona", "commit"}),
         NEW p, Merging(p)
  PROVE  Merging(p)'
  BY DEF Merging

LEMMA ShareLink ==
  ASSUME IInv, ShareInv, StepOK, NEW t \in tasks, Link(t)
  PROVE  ShareInv'
<1>1. UNCHANGED <<dossier, overlap>> /\ t.kind = "link" /\ tasks \ {t} \subseteq tasks'
  BY DEF Link, UpsertSimhash, NearestSimhashes, SelectProposed, InsertProposed, InsertRefused,
         AnnounceProposed, Move, End
<1>2. \A p \in Pairs : linkage'[p] = linkage[p] \/ linkage'[p].state = "proposed"
  <2>1. UNCHANGED linkage \/ InsertProposed(t)
    BY DEF Link, UpsertSimhash, NearestSimhashes, SelectProposed, InsertRefused, AnnounceProposed
  <2> QED
    BY <2>1, InsertedRows
<1>3. \A p \in Pairs : Merging(p) => Merging(p)'
  BY <1>1, MergingKept
<1> QED
  BY <1>1, <1>2, <1>3, ShareKept DEF StepOK

LEMMA ShareVerify ==
  ASSUME IInv, ShareInv, StepOK, NEW t \in tasks, Verify(t)
  PROVE  ShareInv'
<1>1. /\ UNCHANGED dossier /\ t.kind = "verify" /\ tasks \ {t} \subseteq tasks'
      /\ UNCHANGED <<linkage, overlap>> \/ WriteRow(t, proposed[t.no], "suspected")
  BY DEF Verify, RecordResult, VerifierReads, VerifierPromotes, ReadRow, Move, End
<1>2. /\ linkage \in [Pairs -> [id : 0..Len(proposed), state : States]]
      /\ overlap \in [rows : SUBSET Pairs, personas : BOOLEAN] /\ proposed[t.no] \in Pairs
  BY <1>1, ProposalIsTyped DEF IInv, TablesOK
<1>3. /\ \A p \in Pairs : linkage'[p] = linkage[p] \/ linkage'[p].state = "suspected"
      /\ overlap'.personas = overlap.personas
  BY <1>1, <1>2 DEF WriteRow
<1>4. \A p \in Pairs : Merging(p) => Merging(p)'
  BY <1>1, MergingKept
<1> QED
  BY <1>1, <1>3, <1>4, ShareKept DEF StepOK

\* A confirmation is applied by the handler that goes on to the personas.
LEMMA ShareVerdict ==
  ASSUME IInv, ShareInv, StepOK, NEW t \in tasks, GraphReads(t) \/ GraphApplies(t)
  PROVE  ShareInv'
<1>1. /\ t.kind = "verdict" /\ t.at \in {"start", "write"} /\ PairOf(t) \in Pairs /\ t \in TaskRecord
      /\ UNCHANGED dossier /\ tasks \ {t} \subseteq tasks'
  BY VerdictIsTyped DEF GraphReads, GraphApplies, ReadRow, Follows, Move, End
<1>2. /\ linkage \in [Pairs -> [id : 0..Len(proposed), state : States]]
      /\ overlap \in [rows : SUBSET Pairs, personas : BOOLEAN]
  BY DEF IInv, TablesOK
<1>3. \A p \in Pairs : Merging(p) => Merging(p)'
  BY <1>1, MergingKept
<1>4. CASE GraphReads(t)
  <2>1. UNCHANGED <<linkage, overlap>>
    BY <1>4 DEF GraphReads
  <2> QED
    BY <1>1, <1>3, <2>1, ShareKept DEF StepOK
<1>5. CASE GraphApplies(t)
  <2>1. WriteRow(t, PairOf(t), Verdict(t)) /\ Follows(t)
    BY <1>5 DEF GraphApplies
  <2>2. /\ linkage'[PairOf(t)].state = Verdict(t)
        /\ \A p \in Pairs : p # PairOf(t) => linkage'[p] = linkage[p]
        /\ overlap'.personas = overlap.personas
    BY <1>1, <1>2, <2>1 DEF WriteRow
  <2>3. ASSUME NEW p \in Pairs, p = PairOf(t), Verdict(t) = "confirmed" PROVE Merging(p)'
    <3> DEFINE u == [At(t, "persona") EXCEPT !.pair = p]
    <3>1. u \in tasks'
      BY <2>1, <2>3 DEF Follows, Move
    <3>2. u.kind = "verdict" /\ u.at = "persona" /\ u.pair = p
      BY <1>1 DEF At, TaskRecord
    <3> HIDE DEF u
    <3> QED
      BY <3>1, <3>2 DEF Merging
  <2> QED
    BY <1>1, <1>3, <2>2, <2>3, ShareKept DEF StepOK
<1> QED
  BY <1>4, <1>5

LEMMA ShareRead ==
  ASSUME IInv, ShareInv, StepOK, NEW t \in tasks, MergeMembers(t) \/ ReadPersonas(t)
  PROVE  ShareInv'
<1>1. UNCHANGED <<linkage, dossier, overlap>> /\ tasks \ {t} \subseteq tasks'
  BY DEF MergeMembers, ReadPersonas, Move, End
<1>2. ASSUME NEW p \in Pairs, Merging(p) PROVE Merging(p)'
  <2>1. CASE ~(t.kind = "verdict" /\ t.at \in {"persona", "commit"} /\ t.pair = p)
    BY <1>1, <1>2, <2>1 DEF Merging
  <2>2. CASE t.kind = "verdict" /\ t.at \in {"persona", "commit"} /\ t.pair = p
    <3>1. t \in TaskRecord /\ ReadPersonas(t)
      BY <2>2 DEF MergeMembers, IInv, TasksOK
    <3> DEFINE u == [At(t, "commit") EXCEPT !.view = dossier]
    <3>2. u \in tasks'
      BY <3>1 DEF ReadPersonas, Move
    <3>3. u.kind = "verdict" /\ u.at = "commit" /\ u.pair = p
      BY <2>2, <3>1 DEF At, TaskRecord
    <3> HIDE DEF u
    <3> QED
      BY <3>2, <3>3 DEF Merging
  <2> QED
    BY <2>1, <2>2
<1> QED
  BY <1>1, <1>2, ShareKept DEF StepOK

\* A merge that commits what it has read leaves its pair, and every pair that
\* shared a persona before, in one.
LEMMA ShareCommit ==
  ASSUME IInv, ShareInv, StepOK, NEW t \in tasks, CommitPersonas(t)
  PROVE  ShareInv'
<1>1. /\ overlap'.personas = (overlap.personas \/ t.view # dossier)
      /\ UNCHANGED <<linkage, commands>> /\ tasks' = tasks \ {t} /\ t.at = "commit"
  BY DEF CommitPersonas, End, IInv, TablesOK
<1>2. PICK d \in Dossiers : d = dossier
  BY DEF IInv, TablesOK
<1>3. PICK e : e = dossier'
  OBVIOUS
<1>4. CASE overlap'.personas
  BY <1>4 DEF ShareInv
<1>5. CASE SomeSplit
  BY <1>1, <1>5 DEF ShareInv, SomeSplit
<1>6. CASE Splits(t)
  <2>1. t.no \in 1..Len(commands)
    BY <1>6 DEF Splits, IInv, TasksOK, TaskOK, CommandOK
  <2> QED
    BY <1>5, <1>6, <2>1 DEF Splits, SomeSplit
<1>7. CASE ~overlap'.personas /\ ~SomeSplit /\ ~Splits(t)
  <2>1. t.pair \in Pairs /\ t.view = dossier
    BY <1>1, <1>7, PairAtCommit
  <2>2. PICK q \in Pairs : q = t.pair
    BY <2>1
  <2>3. MergedActors(q, d, d) # {} /\ \A f \in MergedActors(q, d, d) : Shared(q, f)
    BY MergeShares
  <2>4. e \in MergedActors(q, d, d)
    BY <1>2, <1>3, <1>7, <2>1, <2>2, <2>3 DEF CommitPersonas
  <2>5. ASSUME NEW p \in Pairs, linkage[p].state = "confirmed" PROVE Shared(p, e) \/ Merging(p)'
    <3>1. CASE Shared(p, d)
      BY <2>4, <3>1, MergeParts
    <3>2. CASE Merging(p)
      <4>1. PICK u \in tasks : u.kind = "verdict" /\ u.at \in {"persona", "commit"} /\ u.pair = p
        BY <3>2 DEF Merging
      <4>2. CASE u = t
        BY <2>2, <2>3, <2>4, <4>1, <4>2
      <4>3. CASE u # t
        BY <1>1, <4>1, <4>3 DEF Merging
      <4> QED
        BY <4>2, <4>3
    <3> QED
      BY <1>1, <1>2, <1>7, <2>5, <3>1, <3>2 DEF ShareInv
  <2>6. \A p \in Pairs : Shared(p, e) => Shared(p, dossier)'
    BY <1>3 DEF Shared
  <2> QED
    BY <1>1, <2>5, <2>6 DEF ShareInv
<1> QED
  BY <1>4, <1>5, <1>6, <1>7

LEMMA ShareStep ==
  ASSUME IInv, ShareInv, Next
  PROVE  ShareInv'
<1>1. StepOK
  BY NextStep
<1>2. ASSUME NEW i, NEW j, MergePersonas(i, j) \/ SplitPersona(i, j)
      PROVE  UNCHANGED <<linkage, dossier, overlap>> /\ tasks \subseteq tasks'
  BY <1>2 DEF MergePersonas, SplitPersona, Command, Start
<1>3. ASSUME NEW i, NEW j, ProfileCurrent(i) \/ DecideLinkage(i, j)
      PROVE  UNCHANGED <<linkage, dossier, overlap>> /\ tasks \subseteq tasks'
  BY <1>3 DEF ProfileCurrent, DecideLinkage, Start
<1>4. ASSUME UNCHANGED <<linkage, dossier, overlap>>, tasks \subseteq tasks' PROVE ShareInv'
  <2>1. \A p \in Pairs : Merging(p) => Merging(p)'
    BY <1>4 DEF Merging
  <2> QED
    BY <1>1, <1>4, <2>1, ShareKept DEF StepOK
<1>5. ASSUME NEW t \in tasks, Apply(t) PROVE ShareInv'
  BY <1>1, <1>5, ShareVerdict, ShareRead, ShareCommit DEF Apply
<1> QED
  BY <1>1, <1>2, <1>3, <1>4, <1>5, ShareLink, ShareVerify DEF Next

\* When every handler is done, a linkage an operator closed is in the state of a
\* verdict on it and a confirmed pair shares a persona: nothing is dropped on
\* the way, except where handlers overlapped or an operator split an actor out.
THEOREM VerdictsLandHolds == Spec => []VerdictsLand
<1>1. LandInv /\ ShareInv /\ UNCHANGED vars => (LandInv /\ ShareInv)'
  BY DEF vars, LandInv, ShareInv, Landing, ClosedBy, Shared, Merging, SomeSplit
<1>2. IInv /\ LandInv /\ ShareInv => VerdictsLand
  <2>1. SUFFICES ASSUME IInv, LandInv, ShareInv, tasks = {}, NEW p \in Pairs
        PROVE  LET closing == {verdicts[n].verdict : n \in {m \in 1..Len(verdicts) : verdicts[m].pair = p}}
                               \cap Terminal
               IN /\ closing # {} => linkage[p].state \in closing \/ p \in overlap.rows
                  /\ linkage[p].state = "confirmed" =>
                       \/ overlap.personas
                       \/ \E n \in 1..Len(commands) : commands[n].op = "split"
                       \/ \E a \in p : dossier.home[a] # 0 /\ p \subseteq Members(dossier, dossier.home[a])
    BY DEF VerdictsLand
  <2> DEFINE closing == {verdicts[n].verdict : n \in {m \in 1..Len(verdicts) : verdicts[m].pair = p}}
                        \cap Terminal
  <2>2. (\A n : ~Landing(n)) /\ ~Merging(p)
    BY <2>1 DEF Landing, Merging
  <2>3. closing # {} => linkage[p].state \in closing \/ p \in overlap.rows
    <3>1. linkage[p].state \in Terminal => linkage[p].state \in closing
      BY <2>1 DEF LandInv, ClosedBy
    <3>2. ASSUME NEW n \in 1..Len(verdicts), verdicts[n].pair = p, verdicts[n].verdict \in Terminal
          PROVE  p \in overlap.rows \/ linkage[p].state \in Terminal
      BY <2>1, <2>2, <3>2 DEF LandInv
    <3> QED
      BY <3>1, <3>2
  <2>4. Shared(p, dossier) => \E a \in p : dossier.home[a] # 0 /\ p \subseteq Members(dossier, dossier.home[a])
    BY DEF Shared, Members, Pairs
  <2>5. linkage[p].state = "confirmed" => overlap.personas \/ SomeSplit \/ Shared(p, dossier)
    BY <2>1, <2>2 DEF ShareInv
  <2> QED
    BY <2>3, <2>4, <2>5 DEF SomeSplit
<1> QED
  BY <1>1, <1>2, LandStarts, LandStep, ShareStep, IInvHolds, PTL DEF Spec
=============================================================================
