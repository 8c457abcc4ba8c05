---------------------------- MODULE Attribution ----------------------------
(***************************************************************************)
(* From a profile to a persona: the linker proposes linkages, the verifier *)
(* and the operators judge them, and the graph service applies the verdict *)
(* to the linkage row and keeps the personas, which operators also merge   *)
(* and split.                                                              *)
(*                                                                         *)
(* The services share the database and a bus without redelivery.  Each     *)
(* message starts a task of its own in the service that hears it, so       *)
(* handlers interleave with each other and with those of the other         *)
(* services at every call to the database.  A row or a persona is read in  *)
(* one call and written in a later one.                                    *)
(*                                                                         *)
(* One comparator is modelled: rows are unique per pair and comparator,    *)
(* and comparators do not meet again until the personas.  Scores are a     *)
(* choice.  Left out: the projection of all this into graph nodes and      *)
(* edges, the audit rows, and what operator_write does around an           *)
(* operator's event (OperatorWrite).                                       *)
(***************************************************************************)
EXTENDS Naturals, FiniteSets, Sequences

CONSTANTS
  Actors,
  Known,           \* actors whose simhash an earlier run has stored
  MaxProfiles,     \* bound: profile.current events
  MaxVerdicts,     \* bound: operators' decisions on linkages
  MaxCommands,     \* bound: operators' persona merges and splits
  MaxTasks         \* bound: handlers in flight when something new comes in

ASSUME AttributionConstants ==
  /\ IsFiniteSet(Actors) /\ Known \subseteq Actors
  /\ MaxProfiles \in Nat /\ MaxVerdicts \in Nat /\ MaxCommands \in Nat /\ MaxTasks \in Nat

VARIABLES
  profiles,    \* profile.current events so far
  hashed,      \* vector_signature: actors whose simhash is stored
  linkage,     \* the linkage table, by pair of actors
  proposed,    \* history: the pair each linkage id was minted for
  results,     \* linkage_verifier_result: ids, and whether they were promoted
  verdicts,    \* history: operators' linkage events, in order
  commands,    \* history: operators' persona commands, in order
  dossier,     \* the persona and persona_membership tables
  tasks,       \* handlers in flight, in the linker, the verifier and the graph
  overlap      \* history: what was written over another task's write

vars == <<profiles, hashed, linkage, proposed, results, verdicts, commands,
          dossier, tasks, overlap>>

-----------------------------------------------------------------------------
(* State. *)

Pairs == {p \in SUBSET Actors : Cardinality(p) = 2}

\* SUPERSEDED is legal from PROPOSED; nothing in the code asks for it.
States == {"absent", "proposed", "suspected", "confirmed", "rejected"}
Terminal == {"confirmed", "rejected"}

\* Mutant of Legal: an operator may still confirm what was rejected.
LegalAgain(from) == CASE from \in {"proposed", "rejected"} -> {"suspected", "confirmed", "rejected"}
                      [] from = "suspected"               -> {"confirmed", "rejected"}
                      [] OTHER                            -> {}

Legal(from) == CASE from = "proposed"  -> {"suspected", "confirmed", "rejected"}
                 [] from = "suspected" -> {"confirmed", "rejected"}
                 [] OTHER              -> {}

\* Linkage and persona ids are numbers in the order they are minted, 0 is none.
NoRow == [id |-> 0, state |-> "absent"]

Verdicts == [verdict : {"suspected", "confirmed", "rejected"}, pair : Pairs]

\* The pairs of actors an operator's merge vouches for are those on the two
\* lists as the operator saw them; a split names one actor.
Commands == [op : {"merge"}, of : SUBSET Nat, actor : SUBSET Actors, vouches : SUBSET Pairs]
            \cup [op : {"split"}, of : SUBSET Nat, actor : SUBSET Actors, vouches : {{}}]

\* home: the persona of each actor's membership row.  list: member_actor_ids of
\* the personas there are.
EmptyDossier == [home |-> [a \in Actors |-> 0], list |-> [i \in {} |-> {}], minted |-> 0]
Alive(d) == DOMAIN d.list

\* A handler.  no: the profile, proposal, verdict or command it is for.
\* id: the linkage id it has minted.  row: what it has read of its linkage.
\* actor: whose profile it compares.  todo: the matches left.  pair: the two actors at hand.  view: what it has
\* read of the personas.
Task(kind, no) == [kind |-> kind, no |-> no, at |-> "start", id |-> 0, row |-> "absent",
                   actor |-> {}, todo |-> {}, pair |-> {}, view |-> EmptyDossier]
At(t, place) == [t EXCEPT !.at = place]

Start(new) == tasks' = tasks \cup {new}
Move(t, u) == tasks' = (tasks \ {t}) \cup {u}
End(t)     == tasks' = tasks \ {t}

HasRoom == Cardinality(tasks) < MaxTasks

Places == {"start", "query", "select", "write", "announce", "score", "read",
           "persona", "members", "commit"}
Kinds == {"link", "verify", "verdict", "command"}

Init ==
  /\ profiles = 0 /\ hashed = Known
  /\ linkage = [p \in Pairs |-> NoRow] /\ proposed = <<>> /\ results = {}
  /\ verdicts = <<>> /\ commands = <<>>
  /\ dossier = EmptyDossier
  /\ tasks = {}
  /\ overlap = [rows |-> {}, personas |-> FALSE]

-----------------------------------------------------------------------------
(* The linker: a task per profile.current. *)

ProfileCurrent(a) ==
  /\ profiles < MaxProfiles /\ HasRoom
  /\ profiles' = profiles + 1
  /\ Start([Task("link", profiles') EXCEPT !.actor = {a}])
  /\ UNCHANGED <<hashed, linkage, proposed, results, verdicts, commands, dossier, overlap>>

UpsertSimhash(t) ==
  /\ t.kind = "link" /\ t.at = "start"
  /\ hashed' = hashed \cup t.actor
  /\ Move(t, At(t, "query"))
  /\ UNCHANGED <<profiles, linkage, proposed, results, verdicts, commands, dossier, overlap>>

\* Which of the stored signatures lie within the threshold is a choice.
NearestSimhashes(t) ==
  /\ t.kind = "link" /\ t.at = "query"
  /\ \E matches \in SUBSET (hashed \ t.actor) :
       IF matches = {} THEN End(t) ELSE Move(t, [At(t, "select") EXCEPT !.todo = matches])
  /\ UNCHANGED <<profiles, hashed, linkage, proposed, results, verdicts, commands, dossier, overlap>>

\* Mutant of SelectProposed: the proposal is published before it is persisted.
SelectAnnounced(t) ==
  /\ t.kind = "link" /\ t.at = "select"
  /\ \E b \in t.todo :
       LET p == t.actor \cup {b}
           u == [At(t, "write") EXCEPT !.todo = @ \ {b}, !.pair = p]
       IN /\ tasks' = (tasks \ {t}) \cup {u, Task("verify", Len(proposed) + 1)}
          /\ proposed' = Append(proposed, p)
  /\ UNCHANGED <<profiles, hashed, linkage, results, verdicts, commands, dossier, overlap>>

\* insert_proposed_linkage looks for a row that is still proposed.  Matches come
\* nearest first, and how near each is is a choice.
SelectProposed(t) ==
  /\ t.kind = "link" /\ t.at = "select"
  /\ \E b \in t.todo :
       LET p == t.actor \cup {b}
       IN Move(t, [At(t, "write") EXCEPT
                     !.todo = @ \ {b}, !.pair = p,
                     !.row = IF linkage[p].state = "proposed" THEN "proposed" ELSE "absent"])
  /\ UNCHANGED <<profiles, hashed, linkage, proposed, results, verdicts, commands, dossier, overlap>>

\* The id is minted for the announcement.  A row that is found keeps its own, a
\* row that is not is inserted; the unique constraint refuses a second row for
\* the pair, and the exception ends this comparator with its other matches.
InsertProposed(t) ==
  LET p  == t.pair
      id == Len(proposed) + 1
  IN /\ t.kind = "link" /\ t.at = "write"
     /\ \/ /\ t.row = "proposed"
           /\ UNCHANGED linkage
        \/ /\ t.row = "absent" /\ linkage[p] = NoRow
           /\ linkage' = [linkage EXCEPT ![p] = [id |-> id, state |-> "proposed"]]
     /\ proposed' = Append(proposed, p)
     /\ Move(t, [At(t, "announce") EXCEPT !.id = id])
     /\ UNCHANGED <<profiles, hashed, results, verdicts, commands, dossier, overlap>>

InsertRefused(t) ==
  /\ t.kind = "link" /\ t.at = "write"
  /\ t.row = "absent" /\ linkage[t.pair] # NoRow
  /\ End(t)
  /\ UNCHANGED <<profiles, hashed, linkage, proposed, results, verdicts, commands, dossier, overlap>>

\* What follows a match: the next one, or the end of the task.
AfterMatch(t) ==
  IF t.todo = {} THEN {} ELSE {[Task("link", t.no) EXCEPT !.at = "select", !.actor = t.actor, !.todo = t.todo]}

\* publish, in the verifier a task.
AnnounceProposed(t) ==
  /\ t.kind = "link" /\ t.at = "announce"
  /\ tasks' = (tasks \ {t}) \cup AfterMatch(t) \cup {Task("verify", t.id)}
  /\ UNCHANGED <<profiles, hashed, linkage, proposed, results, verdicts, commands, dossier, overlap>>

-----------------------------------------------------------------------------
(* The verifier: a task per proposal. *)

HasRow(id) == linkage[proposed[id]].id = id

\* A composite score is kept with the linkage it is of: the foreign key refuses
\* an id that has no row, and the exception ends the task.  Below the floor, or
\* with nothing to score, the task ends.
RecordResult(t) ==
  /\ t.kind = "verify" /\ t.at = "start"
  /\ \/ HasRow(t.no) /\ results' = results \cup {t.no} /\ Move(t, At(t, "read"))
     \/ End(t) /\ UNCHANGED results
  /\ UNCHANGED <<profiles, hashed, linkage, proposed, verdicts, commands, dossier, overlap>>

\* transition_linkage reads the row and refuses what is not legal from there.
ReadRow(t, p, target, refused) ==
  IF target \in Legal(linkage[p].state)
    THEN Move(t, [At(t, "write") EXCEPT !.row = linkage[p].state])
    ELSE refused

\* Its UPDATE is by id, whatever the state is by now.
WriteRow(t, p, target) ==
  /\ linkage' = [linkage EXCEPT ![p].state = target]
  /\ overlap' = [overlap EXCEPT !.rows = IF linkage[p].state = t.row THEN @ ELSE @ \cup {p}]

VerifierReads(t) ==
  /\ t.kind = "verify" /\ t.at = "read"
  /\ ReadRow(t, proposed[t.no], "suspected", End(t))
  /\ UNCHANGED <<profiles, hashed, linkage, proposed, results, verdicts, commands, dossier, overlap>>

\* The graph hears of the promotion too, and finds the row already suspected.
VerifierPromotes(t) ==
  /\ t.kind = "verify" /\ t.at = "write"
  /\ WriteRow(t, proposed[t.no], "suspected")
  /\ End(t)
  /\ UNCHANGED <<profiles, hashed, proposed, results, verdicts, commands, dossier>>

-----------------------------------------------------------------------------
(* Operators: the API looks only at whether the resource is there, and      *)
(* publishes an event for the graph to apply.                               *)

DecideLinkage(p, verdict) ==
  /\ Len(verdicts) < MaxVerdicts /\ HasRoom
  /\ linkage[p] # NoRow
  /\ verdicts' = Append(verdicts, [verdict |-> verdict, pair |-> p])
  /\ Start(Task("verdict", Len(verdicts) + 1))
  /\ UNCHANGED <<profiles, hashed, linkage, proposed, results, commands, dossier, overlap>>

Command(op, of, actor, vouches) ==
  /\ Len(commands) < MaxCommands /\ HasRoom
  /\ commands' = Append(commands, [op |-> op, of |-> of, actor |-> actor, vouches |-> vouches])
  /\ Start(Task("command", Len(commands) + 1))
  /\ UNCHANGED <<profiles, hashed, linkage, proposed, results, verdicts, dossier, overlap>>

MergePersonas(i, j) ==
  /\ i # j
  /\ Command("merge", {i, j}, {}, {{a, b} : a \in dossier.list[i], b \in dossier.list[j]} \cap Pairs)

SplitPersona(i, a) ==
  /\ a \in dossier.list[i]
  /\ Command("split", {i}, {a}, {})

-----------------------------------------------------------------------------
(* The graph service: a task per verdict and per command. *)

Verdict(t) == verdicts[t.no].verdict
PairOf(t)  == verdicts[t.no].pair

\* Mutants of Follows: any verdict goes on to the personas, or none.
FollowsAlways(t) == Move(t, [At(t, "persona") EXCEPT !.pair = PairOf(t)])
FollowsNever(t)  == End(t)

\* What follows the state change: a confirmation goes on to the personas, even
\* when its state change was refused.
Follows(t) == IF Verdict(t) = "confirmed"
                THEN Move(t, [At(t, "persona") EXCEPT !.pair = PairOf(t)])
                ELSE End(t)

GraphReads(t) ==
  /\ t.kind = "verdict" /\ t.at = "start"
  /\ ReadRow(t, PairOf(t), Verdict(t), Follows(t))
  /\ UNCHANGED <<profiles, hashed, linkage, proposed, results, verdicts, commands, dossier, overlap>>

GraphApplies(t) ==
  /\ t.kind = "verdict" /\ t.at = "write"
  /\ WriteRow(t, PairOf(t), Verdict(t))
  /\ Follows(t)
  /\ UNCHANGED <<profiles, hashed, proposed, results, verdicts, commands, dossier>>

Members(d, i) == {a \in Actors : d.home[a] = i}

\* A merge takes an actor of each persona; with no member in one it stops.
MergeMembers(t) ==
  /\ t.kind = "command" /\ t.at = "start" /\ commands[t.no].op = "merge"
  /\ IF \E i \in commands[t.no].of : Members(dossier, i) = {}
       THEN End(t)
       ELSE \E pair \in Pairs :
              /\ \A i \in commands[t.no].of : pair \cap Members(dossier, i) # {}
              /\ Move(t, [At(t, "persona") EXCEPT !.pair = pair])
  /\ UNCHANGED <<profiles, hashed, linkage, proposed, results, verdicts, commands, dossier, overlap>>

ReadPersonas(t) ==
  /\ \/ t.at = "persona"
     \/ t.kind = "command" /\ t.at = "start" /\ commands[t.no].op = "split"
  /\ Move(t, [At(t, "commit") EXCEPT !.view = dossier])
  /\ UNCHANGED <<profiles, hashed, linkage, proposed, results, verdicts, commands, dossier, overlap>>

\* The dossiers a commit can leave: one, or none when a constraint refuses it.
\* v is what was read, d what is there.  A membership is unique by actor and
\* references a persona; a persona that is gone cannot be updated.
Created(pair, d) ==
  {[home   |-> [a \in Actors |-> IF a \in pair THEN i ELSE d.home[a]],
    list   |-> [k \in Alive(d) \cup {i} |-> IF k = i THEN pair ELSE d.list[k]],
    minted |-> i] :
      i \in IF \A a \in pair : d.home[a] = 0 THEN {d.minted + 1} ELSE {}}

\* Mutant of Joined: the membership row without the list.
JoinedUnlisted(a, i, v, d) ==
  IF i \in Alive(d) /\ d.home[a] = 0 THEN {[d EXCEPT !.home[a] = i]} ELSE {}

Joined(a, i, v, d) ==
  IF i \in Alive(d) /\ d.home[a] = 0
    THEN {[d EXCEPT !.home[a] = i,
                    !.list[i] = IF a \in v.list[i] THEN @ ELSE v.list[i] \cup {a}]}
    ELSE {}

\* Mutant of Absorbed: the memberships of the persona that goes stay with it.
AbsorbedRowless(keep, drop, v, d) ==
  IF {keep, drop} \subseteq Alive(d)
    THEN {[d EXCEPT !.list = [k \in Alive(d) \ {drop} |->
                                IF k = keep THEN v.list[keep] \cup v.list[drop] ELSE @[k]]]}
    ELSE {}

Absorbed(keep, drop, v, d) ==
  IF {keep, drop} \subseteq Alive(d)
    THEN {[d EXCEPT !.home = [a \in Actors |-> IF @[a] = drop THEN keep ELSE @[a]],
                    !.list = [k \in Alive(d) \ {drop} |->
                                IF k = keep THEN v.list[keep] \cup v.list[drop] ELSE @[k]]]}
    ELSE {}

Oldest(personas) == CHOOSE i \in personas : \A j \in personas : i <= j

\* merge_actors_into_persona: the first persona of two, the older of two
\* personas, or the one there is.
MergedActors(pair, v, d) ==
  LET homes == {v.home[a] : a \in pair} \ {0}
      alone == {a \in pair : v.home[a] = 0}
  IN IF homes = {} THEN Created(pair, d)
     ELSE IF alone # {} THEN UNION {Joined(a, i, v, d) : a \in alone, i \in homes}
     ELSE IF Cardinality(homes) = 1 THEN {d}
     ELSE UNION {Absorbed(Oldest(homes), drop, v, d) : drop \in homes \ {Oldest(homes)}}

\* split_actor_from_persona: out of whichever persona the actor is in by now,
\* with the persona when the list is empty after it.
SplitActor(a, v, d) ==
  LET i    == v.home[a]
      rest == v.list[i] \ {a}
      away == [x \in Actors |-> IF x = a /\ d.home[a] = i THEN 0 ELSE d.home[x]]
  IN IF i = 0 THEN {d}
     ELSE IF rest # {}
       THEN IF i \in Alive(d) THEN {[d EXCEPT !.home = away, !.list[i] = rest]} ELSE {}
     ELSE IF Members(d, i) \subseteq {a}
       THEN {[d EXCEPT !.home = away, !.list = [k \in Alive(d) \ {i} |-> @[k]]]}
     ELSE {}

Splits(t) == t.kind = "command" /\ commands[t.no].op = "split"

CommitPersonas(t) ==
  /\ t.at = "commit"
  /\ LET after == IF Splits(t) THEN UNION {SplitActor(a, t.view, dossier) : a \in commands[t.no].actor}
                               ELSE MergedActors(t.pair, t.view, dossier)
     IN dossier' \in IF after = {} THEN {dossier} ELSE after
  /\ overlap' = [overlap EXCEPT !.personas = @ \/ t.view # dossier]
  /\ End(t)
  /\ UNCHANGED <<profiles, hashed, linkage, proposed, results, verdicts, commands>>

-----------------------------------------------------------------------------
Link(t) == \/ UpsertSimhash(t) \/ NearestSimhashes(t) \/ SelectProposed(t)
           \/ InsertProposed(t) \/ InsertRefused(t) \/ AnnounceProposed(t)

Verify(t) == RecordResult(t) \/ VerifierReads(t) \/ VerifierPromotes(t)

Apply(t) == \/ GraphReads(t) \/ GraphApplies(t)
            \/ MergeMembers(t) \/ ReadPersonas(t) \/ CommitPersonas(t)

Next ==
  \/ \E a \in Actors : ProfileCurrent(a)
  \/ \E p \in Pairs, verdict \in {"suspected", "confirmed", "rejected"} : DecideLinkage(p, verdict)
  \/ \E i, j \in Alive(dossier) : MergePersonas(i, j)
  \/ \E i \in Alive(dossier), a \in Actors : SplitPersona(i, a)
  \/ \E t \in tasks : Link(t) \/ Verify(t) \/ Apply(t)

Spec == Init /\ [][Next]_vars

-----------------------------------------------------------------------------
(* Properties. *)

\* The tables keep their constraints: a membership references a persona.
TypeOK ==
  /\ profiles \in 0..MaxProfiles /\ hashed \subseteq Actors
  /\ linkage \in [Pairs -> [id : 0..Len(proposed), state : States]]
  /\ proposed \in Seq(Pairs) /\ results \subseteq 1..Len(proposed)
  /\ verdicts \in Seq(Verdicts) /\ commands \in Seq(Commands)
  /\ dossier.home \in [Actors -> Alive(dossier) \cup {0}]
  /\ Alive(dossier) \subseteq 1..dossier.minted
  /\ dossier.list \in [Alive(dossier) -> SUBSET Actors]
  /\ \A t \in tasks : t.kind \in Kinds /\ t.at \in Places
  /\ overlap \in [rows : SUBSET Pairs, personas : BOOLEAN]

\* A verdict is final (_LEGAL_TRANSITIONS): a confirmed or rejected row changes
\* only where an UPDATE by id landed on a row that had moved since it was read.
VerdictsAreFinal ==
  [][\A p \in Pairs : linkage[p].state \in Terminal /\ linkage'[p].state # linkage[p].state
       => p \in overlap'.rows]_vars

\* Two actors share a persona only through confirmed linkages and operators'
\* merges: those they were named in connect them, however merges, splits and
\* stale commands fell between.
Vouched == {verdicts[n].pair : n \in {m \in 1..Len(verdicts) : verdicts[m].verdict = "confirmed"}}
           \cup UNION {commands[n].vouches : n \in 1..Len(commands)}

Connected(a, b) ==
  \A s \in SUBSET Actors :
    a \in s /\ (\A p \in Vouched : p \cap s # {} => p \subseteq s) => b \in s

PersonasAreVouched ==
  \A a, b \in Actors : dossier.home[a] = dossier.home[b] /\ dossier.home[a] # 0 => Connected(a, b)

\* member_actor_ids and the membership rows say the same, unless two handlers
\* that write personas overlapped.
ListsMatchRows ==
  overlap.personas \/ \A i \in Alive(dossier) :
    dossier.list[i] = Members(dossier, i) /\ dossier.list[i] # {}

\* What is announced can be looked up: a proposal reaches the verifier only when
\* its pair has a row, and a row the verifier alone has promoted has a result.
AnnouncedHasRow == \A t \in tasks : t.kind = "verify" => linkage[proposed[t.no]] # NoRow

PromotedHasResult ==
  \A p \in Pairs : linkage[p].state = "suspected"
    => linkage[p].id \in results \/ \E n \in 1..Len(verdicts) : verdicts[n] = [verdict |-> "suspected", pair |-> p]

\* When every handler is done, a linkage an operator closed has the state of one
\* of the verdicts on it, and a pair that is confirmed shares a persona, unless
\* handlers overlapped or an operator split an actor out.
VerdictsLand ==
  tasks = {} => \A p \in Pairs :
    LET closing == {verdicts[n].verdict : n \in {m \in 1..Len(verdicts) : verdicts[m].pair = p}} \cap Terminal
    IN /\ closing # {} => linkage[p].state \in closing \/ p \in overlap.rows
       /\ linkage[p].state = "confirmed" =>
            \/ overlap.personas
            \/ \E n \in 1..Len(commands) : commands[n].op = "split"
            \/ \E a \in p : dossier.home[a] # 0 /\ p \subseteq Members(dossier, dossier.home[a])

\* "Built from confirmed Linkage rows" (MODELS.md): actors that no operator has
\* merged share a persona only through linkages that are confirmed.
RejectedNeverMerges ==
  commands = <<>> /\ overlap.rows = {} /\ overlap.personas = FALSE =>
    \A a, b \in Actors : dossier.home[a] = dossier.home[b] /\ dossier.home[a] # 0 =>
      \A s \in SUBSET Actors :
        a \in s /\ (\A p \in Pairs : linkage[p].state = "confirmed" /\ p \cap s # {} => p \subseteq s)
          => b \in s
=============================================================================
