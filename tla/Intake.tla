------------------------------- MODULE Intake -------------------------------
(***************************************************************************)
(* What a Telegram collector takes in.                                     *)
(*                                                                         *)
(* The account sees every group it is in; the collector takes messages of  *)
(* its monitor set only, which it keeps in memory: seeded from the open    *)
(* memberships at boot, extended by joins, reduced by leave commands.  It  *)
(* takes messages as they arrive, a task for each, and again in backfills, *)
(* which the supervisor sends it when the config of its row asks for one.  *)
(*                                                                         *)
(* One collector.  How a join comes about, by one of three coroutines and  *)
(* against other decisions, is GroupJoin's; here each opens its membership *)
(* in one step.  Left out: attachments, tracing, the titles and rows of    *)
(* groups, monitor_groups of the legacy identity file, and messages        *)
(* without text, which are skipped.                                        *)
(***************************************************************************)
EXTENDS Naturals, Sequences, FiniteSets

CONSTANTS
  Groups,
  Invites,       \* those joined through an invite link
  Count,         \* messages: they are 1 to Count, in the order they are written
  GroupOf,
  AuthorOf,
  OwnWords,      \* messages that are no forward and have an individual author
  Backfills,     \* bound: backfills that run at once
  Patches,       \* bound: PATCH requests on the collector
  PendingLimit,  \* messages a subscription holds for its handler
  MaxEvents,     \* bound: decisions to join a group, failures and crashes
  None

Messages == 1..Count
Tasks == Messages \cup Backfills   \* a task for each live message, and backfills
Authors == {AuthorOf[m] : m \in Messages}

ASSUME IntakeConstants ==
  /\ Count \in Nat /\ PendingLimit \in Nat /\ MaxEvents \in Nat
  /\ Invites \subseteq Groups /\ GroupOf \in [Messages -> Groups]
  /\ Backfills \cap Messages = {} /\ None \notin Groups \cup Patches

VARIABLES
  posted,      \* how many messages have been written on the platform
  account,     \* the groups the account is in
  candidate,   \* group_candidate.state: idle stands for all that can be joined
  membership,  \* collector_group_membership of the collector
  byLink,      \* groups whose row is named joinchat:<hash>
  leaving,     \* groups_leave requests: how far they are
  authors,     \* rows of actor
  stored,      \* rows of message
  announced,   \* messages published to the sensors
  proc,        \* the process: where, memberships to seed from, _monitor_raw_ids
  queue,       \* its command subscription
  command,     \* _on_command: the command at hand
  ingest,      \* _ingest_msg, by task
  reader,      \* _run_backfill: dialogs left, the one at hand, the last message
  config,      \* collector.config: whose it is, and _backfill_pending
  patch,       \* PATCH requests
  sup,         \* dispatch_backfills
  promised,    \* history: the config operators were told they have
  torn,        \* history: a config was written that was read before another
  astray,      \* history: groups whose monitoring an excuse has touched
  replayed,    \* history: messages of dialogs that backfills have finished
  count        \* joins and faults so far

platform == <<posted, account>>
rows == <<candidate, membership, byLink>>
store == <<authors, stored, announced>>
tasks == <<ingest, reader, replayed>>
process == <<proc, queue, command>>
settings == <<config, patch, sup, promised, torn>>
vars == <<platform, rows, leaving, store, tasks, process, settings, astray, count>>

-----------------------------------------------------------------------------
(* State. *)

NoTask == [at |-> "none", msg |-> 0, fresh |-> FALSE]
NoDialog == [left |-> {}, group |-> None, last |-> 0]
NoCommand == [kind |-> "none", group |-> None, at |-> "run"]
Down == [at |-> "down", todo |-> {}, monitor |-> {}]
Empty == [user |-> None, backfill |-> FALSE]
PatchAt(place) == [at |-> place, asks |-> "none", read |-> Empty, after |-> {}]
NoDispatch == [at |-> "idle", read |-> Empty, after |-> {}]

Init ==
  /\ posted = 0 /\ account = {}
  /\ candidate = [g \in Groups |-> "idle"]
  /\ membership = [g \in Groups |-> "none"] /\ byLink = {}
  /\ leaving = [g \in Groups |-> "no"]
  /\ authors = {} /\ stored = {} /\ announced = {}
  /\ proc = Down /\ queue = <<>> /\ command = NoCommand
  /\ ingest = [t \in Tasks |-> NoTask]
  /\ reader = [b \in Backfills |-> NoDialog]
  /\ config = Empty /\ patch = [p \in Patches |-> PatchAt("new")] /\ sup = NoDispatch
  /\ promised = [user |-> None, backfill |-> "no"]
  /\ torn = FALSE /\ astray = {} /\ replayed = {}
  /\ count = [joins |-> 0, faults |-> 0]

More == count.joins + count.faults < MaxEvents
Fault == More /\ count' = [count EXCEPT !.faults = @ + 1]

Open(g) == membership[g] = "open"
Watch(g) == proc' = [proc EXCEPT !.monitor = @ \cup {g}]

\* Core NATS: to a live subscription with room, or to nobody.
Room == proc.at \in {"subscribed", "ready"} /\ Len(queue) < PendingLimit
Publish(c) == queue' = IF Room THEN Append(queue, c) ELSE queue
JoinCommand(g) == [kind |-> "join", group |-> g, at |-> "run"]
LeaveCommand(g) == [kind |-> "leave", group |-> g, at |-> "run"]
BackfillCommand == [kind |-> "backfill", group |-> None, at |-> "run"]

-----------------------------------------------------------------------------
(* Operators and the supervisor: memberships. *)

\* groups_join, up to APPROVED, and the supervisor's hand-over to JOINING.
AsksToJoin(g) ==
  /\ candidate[g] = "idle" /\ leaving[g] = "no" /\ More
  /\ count' = [count EXCEPT !.joins = @ + 1]
  /\ candidate' = [candidate EXCEPT ![g] = "joining"]
  /\ UNCHANGED <<platform, membership, byLink, leaving, store, tasks, process, settings, astray>>

\* dispatch_approved: on every tick, to a child that lives.
SendsJoin(g) ==
  /\ candidate[g] = "joining" /\ proc.at # "down"
  /\ Publish(JoinCommand(g))
  /\ UNCHANGED <<platform, rows, leaving, store, tasks, proc, command, settings, astray, count>>

\* groups_leave: it closes the membership, ...
Closes(g) ==
  /\ candidate[g] = "joined" /\ leaving[g] = "no"
  /\ leaving' = [leaving EXCEPT ![g] = IF Open(g) THEN "closed" ELSE "told"]
  /\ membership' = [membership EXCEPT ![g] = "closed"]
  /\ UNCHANGED <<platform, candidate, byLink, store, tasks, process, settings, astray, count>>

\* ... tells the collector, ...
Tells(g) ==
  /\ leaving[g] = "closed"
  /\ leaving' = [leaving EXCEPT ![g] = "told"]
  /\ Publish(LeaveCommand(g))
  /\ astray' = IF Room THEN astray ELSE astray \cup {g}
  /\ UNCHANGED <<platform, rows, store, tasks, proc, command, settings, count>>

\* ... and parks the candidate.
Parks(g) ==
  /\ leaving[g] = "told"
  /\ leaving' = [leaving EXCEPT ![g] = "no"]
  /\ candidate' = [candidate EXCEPT ![g] = "idle"]
  /\ UNCHANGED <<platform, membership, byLink, store, tasks, process, settings, astray, count>>

\* The request dies half way.
LeaveStops(g) ==
  /\ leaving[g] # "no" /\ Fault
  /\ leaving' = [leaving EXCEPT ![g] = "no"]
  /\ astray' = IF leaving[g] = "closed" THEN astray \cup {g} ELSE astray
  /\ UNCHANGED <<platform, rows, store, tasks, process, settings>>

-----------------------------------------------------------------------------
(* Operators and the supervisor: the config of the row. *)

\* PATCHes that have been written.
Written == {p \in Patches : patch[p].at = "done"}

\* collectors_update reads the row, ...
ReadsConfig(p, asks) ==
  /\ patch[p].at = "new"
  /\ patch' = [patch EXCEPT ![p] = [at |-> "read", asks |-> asks, read |-> config, after |-> Written]]
  /\ UNCHANGED <<platform, rows, leaving, store, tasks, process, config, sup, promised, torn, astray, count>>

\* The config it writes: the body's, or else the row's it read, and the flag if a
\* backfill is asked for.
Patched(p) ==
  [user |-> IF patch[p].asks = "backfill" THEN patch[p].read.user ELSE p,
   backfill |-> patch[p].asks # "config"]

\* ... and writes the whole config.
WritesConfig(p) ==
  /\ patch[p].at = "read"
  /\ patch' = [patch EXCEPT ![p] = PatchAt("done")]
  /\ config' = Patched(p)
  /\ promised' = [user |-> IF patch[p].asks = "backfill" THEN promised.user ELSE p,
                  backfill |-> IF patch[p].asks # "config" THEN "owed"
                               ELSE IF promised.backfill = "owed" THEN "lost" ELSE promised.backfill]
  /\ torn' = (torn \/ (patch[p].asks = "backfill" /\ patch[p].after # Written))
  /\ UNCHANGED <<platform, rows, leaving, store, tasks, process, sup, astray, count>>

\* dispatch_backfills lists a row with the flag whose child lives, ...
Lists ==
  /\ sup.at = "idle" /\ config.backfill /\ proc.at # "down"
  /\ sup' = [at |-> "send", read |-> config, after |-> Written]
  /\ UNCHANGED <<platform, rows, leaving, store, tasks, process, config, patch, promised, torn, astray, count>>

\* ... sends the command, ...
SendsBackfill ==
  /\ sup.at = "send"
  /\ sup' = [sup EXCEPT !.at = "clear"]
  /\ Publish(BackfillCommand)
  /\ promised' = IF promised.backfill = "owed"
                 THEN [promised EXCEPT !.backfill = IF Room THEN "no" ELSE "lost"]
                 ELSE promised
  /\ UNCHANGED <<platform, rows, leaving, store, tasks, proc, command, config, patch, torn, astray, count>>

\* Mutant of Cleared: what is written back is the flag alone.
ClearedAlone == Empty

Cleared == [sup.read EXCEPT !.backfill = FALSE]

\* ... and writes the config it had listed back without the flag.
Clears ==
  /\ sup.at = "clear"
  /\ sup' = NoDispatch
  /\ config' = Cleared
  /\ torn' = (torn \/ sup.after # Written)
  /\ UNCHANGED <<platform, rows, leaving, store, tasks, process, patch, promised, astray, count>>

\* The supervisor dies between the two.
DispatchStops ==
  /\ sup.at # "idle" /\ Fault
  /\ sup' = NoDispatch
  /\ UNCHANGED <<platform, rows, leaving, store, tasks, process, config, patch, promised, torn, astray>>

-----------------------------------------------------------------------------
(* The platform. *)

\* Someone writes a message; Telethon starts a handler for it where the account
\* is in the group and a handler is registered.
Posts ==
  /\ posted < Count
  /\ posted' = posted + 1
  /\ ingest' = IF proc.at = "ready" /\ GroupOf[posted + 1] \in account
               THEN [ingest EXCEPT ![posted + 1] = [at |-> "gate", msg |-> posted + 1, fresh |-> FALSE]]
               ELSE ingest
  /\ UNCHANGED <<account, rows, leaving, store, reader, replayed, process, settings, astray, count>>

\* An administrator lets the account in.
LetsIn(g) ==
  /\ candidate[g] = "requested" /\ g \notin account
  /\ account' = account \cup {g}
  /\ UNCHANGED <<posted, rows, leaving, store, tasks, process, settings, astray, count>>

-----------------------------------------------------------------------------
(* The process: on_subscribe, up to its first message. *)

Spawns ==
  /\ proc = Down
  /\ proc' = [proc EXCEPT !.at = "boot"]
  /\ UNCHANGED <<platform, rows, leaving, store, tasks, queue, command, settings, astray, count>>

\* list_active_memberships.
Seeds ==
  /\ proc.at = "boot"
  /\ proc' = [proc EXCEPT !.at = "seed", !.todo = {g \in Groups : Open(g)}]
  /\ astray' = {}
  /\ UNCHANGED <<platform, rows, leaving, store, tasks, queue, command, settings, count>>

\* A row named by its link is neither a number nor a name get_entity resolves.
Resolves(g) == g \notin byLink

\* One membership: the group is watched, or a warning is logged.
SeedsOne(g) ==
  /\ proc.at = "seed" /\ g \in proc.todo
  /\ \/ /\ Resolves(g)
        /\ proc' = [at |-> "seed", todo |-> proc.todo \ {g}, monitor |-> proc.monitor \cup {g}]
        /\ UNCHANGED <<astray, count>>
     \/ /\ IF Resolves(g) THEN Fault ELSE UNCHANGED count
        /\ proc' = [proc EXCEPT !.todo = @ \ {g}]
        /\ astray' = astray \cup {g}
  /\ UNCHANGED <<platform, rows, leaving, store, tasks, queue, command, settings>>

Subscribes ==
  /\ proc.at = "seed" /\ proc.todo = {}
  /\ proc' = [proc EXCEPT !.at = "subscribed"]
  /\ UNCHANGED <<platform, rows, leaving, store, tasks, queue, command, settings, astray, count>>

\* The handler for messages comes last.
Registers ==
  /\ proc.at = "subscribed"
  /\ proc' = [proc EXCEPT !.at = "ready"]
  /\ UNCHANGED <<platform, rows, leaving, store, tasks, queue, command, settings, astray, count>>

\* The process stops or dies, with all it held in memory.
Dies ==
  /\ proc.at # "down" /\ Fault
  /\ proc' = Down /\ queue' = <<>> /\ command' = NoCommand
  /\ ingest' = [t \in Tasks |-> NoTask]
  /\ reader' = [b \in Backfills |-> NoDialog]
  /\ UNCHANGED <<platform, rows, leaving, store, replayed, settings, astray>>

-----------------------------------------------------------------------------
(* The process: joins, leaves and backfills, one command at a time. *)

Takes ==
  /\ command = NoCommand /\ queue # <<>>
  /\ command' = Head(queue) /\ queue' = Tail(queue)
  /\ UNCHANGED <<platform, rows, leaving, store, tasks, proc, settings, astray, count>>

\* The writeback of a join, _open_joined_membership: who claims the candidate
\* opens the membership, of a row that has the link for a name or not.
OpensMembership(g, link) ==
  /\ candidate' = [candidate EXCEPT ![g] = "joined"]
  /\ membership' = [membership EXCEPT ![g] = "open"]
  /\ byLink' = IF link THEN byLink \cup {g} ELSE byLink \ {g}

\* _handle_join: the account is in, ...
Joins ==
  /\ command.kind = "join" /\ command.at = "run"
  /\ account' = account \cup {command.group}
  /\ command' = [command EXCEPT !.at = "record"]
  /\ UNCHANGED <<posted, rows, leaving, store, tasks, proc, queue, settings, astray, count>>

\* ... or has to wait for an approval, or is turned away.
JoinRefused(outcome) ==
  /\ command.kind = "join" /\ command.at = "run"
  /\ outcome = "requested" => command.group \notin account
  /\ candidate' = IF candidate[command.group] = "joining"
                  THEN [candidate EXCEPT ![command.group] = outcome] ELSE candidate
  /\ command' = NoCommand
  /\ UNCHANGED <<platform, membership, byLink, leaving, store, tasks, proc, queue, settings, astray, count>>

\* finalize_joined: a candidate that is not JOINING any more is left alone.
Records ==
  /\ command.at = "record"
  /\ IF candidate[command.group] = "joining"
     THEN /\ OpensMembership(command.group, command.group \in Invites)
          /\ command' = [command EXCEPT !.at = "watch"]
     ELSE command' = NoCommand /\ UNCHANGED rows
  /\ UNCHANGED <<platform, leaving, store, tasks, proc, queue, settings, astray, count>>

\* The audit event of the join is out, and the group is watched, ...
Watches ==
  /\ command.at = "watch"
  /\ Watch(command.group)
  /\ command' = NoCommand
  /\ UNCHANGED <<platform, rows, leaving, store, tasks, queue, settings, astray, count>>

\* ... or it fails, and the exception skips the rest.
JoinUnwatched ==
  /\ command.at = "watch" /\ Fault
  /\ astray' = astray \cup {command.group}
  /\ command' = NoCommand
  /\ UNCHANGED <<platform, rows, leaving, store, tasks, proc, queue, settings>>

\* Mutant of Departed: the group that was left is still watched.
DepartedWatching(g) == proc

Departed(g) == [proc EXCEPT !.monitor = @ \ {g}]

\* _handle_leave: the account leaves and the group is watched no more, although it
\* may have been joined again since, ...
Departs ==
  /\ command.kind = "leave" /\ Resolves(command.group)
  /\ account' = account \ {command.group}
  /\ proc' = Departed(command.group)
  /\ astray' = IF Open(command.group) THEN astray \cup {command.group} ELSE astray
  /\ command' = NoCommand
  /\ UNCHANGED <<posted, rows, leaving, store, tasks, queue, settings, count>>

\* ... or an exception is logged instead.
StaysIn ==
  /\ command.kind = "leave"
  /\ IF Resolves(command.group) THEN Fault ELSE UNCHANGED count
  /\ astray' = astray \cup {command.group}
  /\ command' = NoCommand
  /\ UNCHANGED <<platform, rows, leaving, store, tasks, proc, queue, settings>>

\* A backfill is a task of its own, over the dialogs of the account; it ends at
\* once where nothing is monitored.
StartsBackfill(b) ==
  /\ command.kind = "backfill" /\ reader[b] = NoDialog
  /\ reader' = IF proc.monitor = {} THEN reader ELSE [reader EXCEPT ![b].left = account]
  /\ command' = NoCommand
  /\ UNCHANGED <<platform, rows, leaving, store, ingest, replayed, proc, queue, settings, astray, count>>

\* The probe, where the collector is given a tick interval, finds that an approval
\* has landed.  It resolves the group, and does not add it to the monitor set.
Probes(g) ==
  /\ proc.at = "ready" /\ candidate[g] = "requested" /\ g \in account
  /\ OpensMembership(g, FALSE)
  /\ astray' = astray \cup {g}
  /\ UNCHANGED <<platform, leaving, store, tasks, process, settings, count>>

-----------------------------------------------------------------------------
(* The process: messages. *)

Goes(t, place, fresh) == ingest' = [ingest EXCEPT ![t] = [at |-> place, msg |-> @.msg, fresh |-> fresh]]
At(t, place) == Goes(t, place, FALSE)
Ends(t) == ingest' = [ingest EXCEPT ![t] = NoTask]

\* _maybe_confirm_requested: the message shows that an approval has landed, ...
Confirms(m) ==
  /\ ingest[m].at = "gate"
  /\ candidate[GroupOf[m]] = "requested" /\ GroupOf[m] \notin Invites
  /\ OpensMembership(GroupOf[m], FALSE)
  /\ At(m, "watch")
  /\ UNCHANGED <<platform, leaving, store, reader, replayed, process, settings, astray, count>>

\* ... and once that is audited the group is watched, although it may have been
\* left meanwhile.
WatchesConfirmed(m) ==
  /\ ingest[m].at = "watch"
  /\ Watch(GroupOf[m])
  /\ astray' = IF Open(GroupOf[m]) THEN astray ELSE astray \cup {GroupOf[m]}
  /\ At(m, "find")
  /\ UNCHANGED <<platform, rows, leaving, store, reader, replayed, queue, command, settings, count>>

\* Mutant of Admits: an account that is in a group takes its messages.
AdmitsVisible(m) == GroupOf[m] \in account

\* The fail-closed gate.
Admits(m) == GroupOf[m] \in proc.monitor

Gates(m) ==
  /\ ingest[m].at = "gate"
  /\ IF Admits(m) THEN At(m, "find") ELSE Ends(m)
  /\ UNCHANGED <<platform, rows, leaving, store, reader, replayed, process, settings, astray, count>>

\* upsert_actor: a select, ...
FindsAuthor(t) ==
  /\ ingest[t].at = "find"
  /\ Goes(t, "author", AuthorOf[ingest[t].msg] \notin authors)
  /\ UNCHANGED <<platform, rows, leaving, store, reader, replayed, process, settings, astray, count>>

\* ... and an insert or an update.
KeepsAuthor(t) ==
  /\ ingest[t].at = "author"
  /\ ingest[t].fresh => AuthorOf[ingest[t].msg] \notin authors
  /\ authors' = authors \cup {AuthorOf[ingest[t].msg]}
  /\ At(t, "store")
  /\ UNCHANGED <<platform, rows, leaving, stored, announced, reader, replayed, process, settings, astray, count>>

\* Mutant of Stores: a duplicate ends the task.
StoresNew(t) ==
  /\ ingest[t].at = "store"
  /\ stored' = stored \cup {ingest[t].msg}
  /\ IF ingest[t].msg \in stored THEN Ends(t) ELSE At(t, "announce")
  /\ UNCHANGED <<platform, rows, leaving, authors, announced, reader, replayed, process, settings, astray, count>>

\* put_message: a duplicate makes no difference.
Stores(t) ==
  /\ ingest[t].at = "store"
  /\ stored' = stored \cup {ingest[t].msg}
  /\ At(t, "announce")
  /\ UNCHANGED <<platform, rows, leaving, authors, announced, reader, replayed, process, settings, astray, count>>

\* Mutant of Announces: forwards go to the sensors too.
AnnouncesAll(t) ==
  /\ ingest[t].at = "announce"
  /\ announced' = announced \cup {ingest[t].msg}
  /\ Ends(t)
  /\ UNCHANGED <<platform, rows, leaving, authors, stored, reader, replayed, process, settings, astray, count>>

\* The stylometric gate: words that are the author's own are published.
Announces(t) ==
  /\ ingest[t].at = "announce"
  /\ announced' = announced \cup ({ingest[t].msg} \cap OwnWords)
  /\ Ends(t)
  /\ UNCHANGED <<platform, rows, leaving, authors, stored, reader, replayed, process, settings, astray, count>>

Over(b) == [left |-> reader[b].left, group |-> None, last |-> 0]

\* An exception ends a live message's task, and the dialog of a backfill.
Raises(t) ==
  /\ Ends(t)
  /\ reader' = IF t \in Backfills THEN [reader EXCEPT ![t] = Over(t)] ELSE reader

\* Another task has inserted the author since the select: IntegrityError.
Collides(t) ==
  /\ ingest[t].at = "author"
  /\ ingest[t].fresh /\ AuthorOf[ingest[t].msg] \in authors
  /\ Raises(t)
  /\ UNCHANGED <<platform, rows, leaving, store, replayed, process, settings, astray, count>>

\* Storage, the bus or the audit log fails.
IngestFails(t) ==
  /\ ingest[t].at # "none" /\ Fault
  /\ Raises(t)
  /\ astray' = IF ingest[t].at = "watch" THEN astray \cup {GroupOf[ingest[t].msg]} ELSE astray
  /\ UNCHANGED <<platform, rows, leaving, store, replayed, process, settings>>

-----------------------------------------------------------------------------
(* The process: backfills. *)

\* A dialog that is monitored is read from its first message.
NextDialog(b, g) ==
  /\ reader[b].group = None /\ g \in reader[b].left
  /\ reader' = [reader EXCEPT ![b] = [left |-> @.left \ {g}, last |-> 0,
                                     group |-> IF g \in proc.monitor THEN g ELSE None]]
  /\ UNCHANGED <<platform, rows, leaving, store, ingest, replayed, process, settings, astray, count>>

Ahead(b) == {m \in 1..posted : GroupOf[m] = reader[b].group /\ m > reader[b].last}

\* iter_messages(reverse=True): oldest first.
NextMessage(b, m) ==
  /\ reader[b].group # None /\ ingest[b] = NoTask
  /\ m \in Ahead(b) /\ \A n \in Ahead(b) : m <= n
  /\ reader' = [reader EXCEPT ![b].last = m]
  /\ ingest' = [ingest EXCEPT ![b] = [at |-> "find", msg |-> m, fresh |-> FALSE]]
  /\ UNCHANGED <<platform, rows, leaving, store, replayed, process, settings, astray, count>>

\* The dialog is done.
EndsDialog(b) ==
  /\ reader[b].group # None /\ ingest[b] = NoTask /\ Ahead(b) = {}
  /\ reader' = [reader EXCEPT ![b] = Over(b)]
  /\ replayed' = replayed \cup {m \in 1..posted : GroupOf[m] = reader[b].group}
  /\ UNCHANGED <<platform, rows, leaving, store, ingest, process, settings, astray, count>>

-----------------------------------------------------------------------------
(* Specification. *)

Operator ==
  \/ \E g \in Groups : AsksToJoin(g) \/ Closes(g) \/ Tells(g) \/ Parks(g) \/ LeaveStops(g)
  \/ \E p \in Patches : WritesConfig(p) \/ \E asks \in {"config", "backfill", "both"} : ReadsConfig(p, asks)

Supervisor == Lists \/ SendsBackfill \/ Clears \/ DispatchStops \/ \E g \in Groups : SendsJoin(g)

Platform == Posts \/ \E g \in Groups : LetsIn(g)

Boot == Spawns \/ Seeds \/ Subscribes \/ Registers \/ Dies \/ \E g \in Groups : SeedsOne(g)

Command ==
  \/ Takes \/ Joins \/ Records \/ Watches \/ JoinUnwatched \/ Departs \/ StaysIn
  \/ \E outcome \in {"requested", "idle"} : JoinRefused(outcome)
  \/ \E b \in Backfills : StartsBackfill(b)
  \/ \E g \in Groups : Probes(g)

Message ==
  \/ \E m \in Messages : Confirms(m) \/ WatchesConfirmed(m) \/ Gates(m)
  \/ \E t \in Tasks : FindsAuthor(t) \/ KeepsAuthor(t) \/ Stores(t) \/ Announces(t) \/ Collides(t) \/ IngestFails(t)

Backfill ==
  \E b \in Backfills :
    EndsDialog(b) \/ (\E g \in Groups : NextDialog(b, g)) \/ \E m \in Messages : NextMessage(b, m)

Next == Operator \/ Supervisor \/ Platform \/ Boot \/ Command \/ Message \/ Backfill

Spec == Init /\ [][Next]_vars

-----------------------------------------------------------------------------
(* Properties. *)

Owners == Patches \cup {None}
Configs == [user : Owners, backfill : BOOLEAN]
Commands == [kind : {"join", "leave"}, group : Groups, at : {"run"}] \cup {BackfillCommand}
Places == {"gate", "watch", "find", "author", "store", "announce"}

WorldType ==
  /\ posted \in 0..Count /\ account \subseteq Groups
  /\ candidate \in [Groups -> {"idle", "joining", "requested", "joined"}]
  /\ membership \in [Groups -> {"none", "open", "closed"}] /\ byLink \subseteq Groups
  /\ leaving \in [Groups -> {"no", "closed", "told"}]
  /\ authors \subseteq Authors /\ stored \subseteq 1..posted /\ announced \subseteq OwnWords
  /\ astray \subseteq Groups /\ replayed \subseteq 1..posted
  /\ count \in [joins : 0..MaxEvents, faults : 0..MaxEvents]
ProcessType ==
  /\ proc \in [at : {"down", "boot", "seed", "subscribed", "ready"}, todo : SUBSET Groups, monitor : SUBSET Groups]
  /\ queue \in Seq(Commands)
  /\ command \in Commands \cup {NoCommand} \cup [kind : {"join"}, group : Groups, at : {"record", "watch"}]
TasksType ==
  /\ ingest \in [Tasks -> {NoTask} \cup [at : Places, msg : 1..posted, fresh : BOOLEAN]]
  /\ \A m \in Messages : ingest[m] # NoTask => ingest[m].msg = m
  /\ reader \in [Backfills -> [left : SUBSET Groups, group : Groups \cup {None}, last : 0..posted]]
ConfigType ==
  /\ config \in Configs /\ torn \in BOOLEAN
  /\ patch \in [Patches -> [at : {"new", "read", "done"}, asks : {"none", "config", "backfill", "both"},
                            read : Configs, after : SUBSET Patches]]
  /\ sup \in [at : {"idle", "send", "clear"}, read : Configs, after : SUBSET Patches]
  /\ promised \in [user : Owners, backfill : {"no", "owed", "lost"}]

\* Stored and read back are only messages that were written, published only those
\* that are their author's own; a live message's task is at that message.
TypeOK == WorldType /\ ProcessType /\ TasksType /\ ConfigType

\* "Fail-closed": of all the groups an account sees, messages are kept only from
\* those of which the collector has, or had, a membership; however joins, leaves,
\* restarts and backfills fall between.
OnlyJoinedIsStored == \A m \in stored : membership[GroupOf[m]] # "none"

\* The monitor set in memory follows the memberships in the database: when the
\* collector has nothing to do, it watches the groups of its open memberships and
\* no other, but for those whose leave command was lost or raised, whose row has
\* no name to resolve, whose join was not audited, that were left while they were
\* being confirmed, or joined again before an older leave command was handled, and
\* those the probe confirmed.
Settled(g) ==
  /\ proc.at = "ready" /\ queue = <<>> /\ command = NoCommand
  /\ leaving[g] = "no" /\ \A m \in Messages : ingest[m].at # "watch"

MonitorFollowsMembership ==
  \A g \in Groups : Settled(g) => (g \in proc.monitor <=> Open(g)) \/ g \in astray

\* "Backfill re-publishes already-stored messages": a dialog that a backfill has
\* finished is in the store, and its authors' own words are with the sensors,
\* whatever live handlers did to the same messages before or meanwhile.
BackfillReplays == replayed \subseteq stored /\ replayed \cap OwnWords \subseteq announced

\* An operator's config stays, and a backfill that was asked for stays asked for
\* until its command was sent or the config replaced, unless a config was written
\* back that was read before a PATCH.
ConfigKept ==
  torn \/ /\ config.user = promised.user
          /\ promised.backfill = "owed" => config.backfill

-----------------------------------------------------------------------------
(* What documents say and the model refutes; the README tells how.          *)

\* A freshly approved group "is added on confirmation" to the monitor set: when
\* nothing failed, the group of every open membership is watched.
MemberIsMonitored == count.faults = 0 => \A g \in Groups : Settled(g) /\ Open(g) => g \in proc.monitor

\* A child that lives is "subscribed to its command channel", so that no backfill
\* that was asked for is sent to nobody.
BackfillNotLost == promised.backfill # "lost"
=============================================================================
