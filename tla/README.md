# EYENET, modelled in TLA+

EYENET collects public conversations on monitored platforms, attributes
messages to actors by style, and lets analysts review what it proposes.  Its
own core logic is coordination: several processes that share one database and
one NATS bus, with nothing else to keep them in step.  These modules model
that logic, TLC checks it on small instances, and TLAPS proves what matters
most of it for every instance.

All paths below are under `src/`.

## 1. The system

```
  operators ──HTTP──> API ──rows──> database <──rows── supervisor ──spawns──> collectors
                       │               ^                   │                    │  ^
                       └──events──> NATS bus <──commands───┘     observations───┘  │
                                       │                                           │
             engine, linker, verifier, graph, anchor, SSE streams          the platform
```

### Inventory

For each component: the state it keeps, what it does, how it meets the others,
what is hard about it, what makes it correct, and where it is modelled.

**Candidate state machine** (`eyenet/storage/sqlmodel_repo/candidates.py`).
State: one row per discovered group with a state out of nine, the collector
assigned, the group row that resulted.  Operations: `transition_candidate`
(read, test against `_ALLOWED`, update by id), `claim_candidate_transition` (one
conditional UPDATE), mentions, scores.  Met by API handlers, the supervisor and
every collector.  Hard: the first operation is not atomic, the second is.
Correct when: only legal edges, `JOINED` only after a join was asked for.
Module `GroupJoin`.

**Group memberships** (`.../memberships.py`).  State: a row per collector, group
and stay, active while `left_at` is null, with no unique index.  Operations:
`open_membership` (look, then insert), `close_membership`.  Correct when: one
active row per stay, none lost.  Module `GroupJoin`.

**Groups and candidates API** (`eyenet/api/v1/groups`, `eyenet/api/v1/candidates`).
Stateless handlers that walk one or several edges, each in its own transaction;
a leave closes membership rows one by one and parks the candidate last.  Hard: a
handler stops half way.  Module `GroupJoin`.

**Telegram collector, joining** (`eyenet/collectors/telegram/real.py`,
`_join.py`).  State: `_requested_match_forms` in memory, a subscription with a
bounded buffer, coroutines of one event loop: the command handler, the message
handler and the periodic probe.  All three may settle one join.  Hard: they
interleave with each other, a command is sent twice or lost, the process dies
between the claim and the membership.  Module `GroupJoin`.

**Collector supervisor** (`eyenet/services/collector_supervisor.py`).  State:
`_procs` (handles) and `_cooling_until` (deadlines), in memory.  A tick reads the
collector table once and reconciles every row, then dispatches approved
candidates and requested backfills.  Hard: the snapshot is stale while it is
used, a handle is dropped before its process is gone, an exception ends the
process and with it every collector.  Dispatch in `GroupJoin`, reconciliation
and the scout lease in `Fleet`, `dispatch_backfills` in `Intake`.

**Collector process lifecycle** (`eyenet/service/runner.py`,
`eyenet/collectors/base/skeleton.py`).  Claim the account, log in, subscribe,
install the signal handlers, serve, release the account.  Hard: SIGTERM before
the handlers are installed, a panic during the shutdown.  Module `Fleet`.

**Identity pool** (`eyenet/identity_pool/db.py`, `.../identities.py`,
`eyenet/api/v1/identities`).  State: one row per account, AVAILABLE, IN_USE,
FROZEN, BURNED.  Everyone overwrites it.  Correct when: an account has one
session, a withdrawn account stays out.  Module `Fleet`.

**Collectors API** (`eyenet/api/v1/collectors`).  Start and stop record an intent;
delete checks `observed_state` and deletes in another transaction; PATCH writes
the whole configuration it read.  Modules `Fleet` and, for PATCH, `Intake`.

**Message bus** (`eyenet/bus`).  Core NATS: at most once, to live subscriptions
with room.  Modelled where it is used.

**Idempotency middleware** (`eyenet/api/middleware/idempotency.py`).  State: a row
per key: pending or finalised, with an expiry.  Reserve, run the handler,
finalise or delete, by key alone.  Hard: two retries that reclaim one expired row,
a crash in the middle.  Correct when: a retry replays, and never repeats, what was
done.  Module `OperatorWrite`.

**Operator writes** (`eyenet/api/v1/_writes.py`, `eyenet/telemetry/audit.py`).
Audit event, audit row, what the operation persists, domain event, one after the
other.  Hard: one of them fails.  Correct when: nothing happens without its audit
row, and nothing is promised that is not durable.  Module `OperatorWrite`.

**Event streams** (`eyenet/api/streaming`).  State: a bounded queue per
connection, the ids replayed.  Subscribe, replay from the tables, then go live
without the duplicates; overflow ends the connection.  Hard: rows and messages
come out of the order of their ids, a queue fills during a replay.  Correct
when: what is delivered is delivered once, and a client that resumes from its
last id misses nothing that the writers' order did not hide.  Modules
`EventStream` and, for what it promises, `EventFeed`.

**Telegram collector, intake** (`eyenet/collectors/telegram/real.py`).  State:
the monitor set `_monitor_raw_ids` in memory, rows of authors and messages, a
task per message and per backfill.  Hard: the set follows rows that others
write; a live message and a backfill handle one message at once; the process
restarts.  Correct when: nothing is stored of a group that was never joined, the
set follows the memberships, a backfill that ended has stored and published what
it read.  Module `Intake`.

**Forum collector** (`eyenet/collectors/forum/real.py`, `_thread_key.py`).
State: a cursor per category, aliases from a thread's tid to its key, requests of
operators, one coroutine that takes hours for a sweep.  Hard: the board moves
while it is read, pages fail or come empty, the process dies between a post and
the row that says so.  Correct when: the cursor passes no thread unread, a post
is published once under one key, a reply is posted once, every request gets an
answer.  Module `ForumCrawl`.

**Sensors** (`eyenet/sensor`).  A task per delivery computes primitives over
the messages since their cursors, announces each observation, writes rows and
cursors at the end.  **Attribution engine** (`eyenet/engine`).  A task per
observation reads the current profile, changes one slot and writes all of it
back.  Hard: deliveries overlap, an observation is announced before its row is
there.  Correct when: a cursor passes nothing unread, a slot names a row that
exists.  Module `Profiling`.

**Linker, verifier** (`eyenet/linker`, `eyenet/verifier`, `.../linkages.py`).
Propose a linkage between actors; a verifier or an operator decides it.
**Personas and graph** (`eyenet/graph/graph.py`, `.../personas.py`).  Apply the
verdicts, merge and split the sets of actors.  Hard: rows are read in one call
and written in another by handlers that overlap; verdicts contradict each other.
Correct when: a verdict is final, what is announced has a row, and actors share
a persona only through confirmed linkages and operators' merges.  Module
`Attribution`.

**Audit chain, file-access journal** (`.../audit.py`, `.../file_access.py`,
`eyenet/api/v1/attachments`, `eyenet/api/v1/auth/_signing_key_registration.py`).
Two hash chains appended by several processes, acknowledgment nonces and
registration challenges spent once.  Correct when: no chain forks, a nonce is
spent by exactly one row, no evidence leaves without one.  Module
`AccessJournal`.

**Sessions, MFA, tokens, QR login** (`eyenet/api/auth`, `.../auth.py`).  Refresh
rotation, a denylist behind a cache per process, a driver task per QR login.
Not modelled; see section 6.

Cases, clearance, incidents, relations, documents, classifier, calibration,
Matrix rooms, the web client, deployment and scripts are not modelled either, for
the reasons in section 6.

## 2. The modules

| module | models | run by |
|---|---|---|
| `GroupJoin` | from a discovered group to a membership | `MCGroupJoin` |
| `Fleet` | supervisor, processes, accounts | `MCFleet` |
| `OperatorWrite` | a POST with an Idempotency-Key, and its retries | `MCOperatorWrite` |
| `Intake` | what a Telegram collector takes in, and its configuration | `MCIntake` |
| `ForumCrawl` | how a forum collector reads a board | `MCForumCrawl` |
| `Profiling` | from an actor's messages to its profile | `MCProfiling` |
| `Attribution` | from a profile to a persona | `MCAttribution` |
| `EventStream` | a client that follows an event stream | `MCEventStream` |
| `EventFeed` | what an event stream promises, abstractly | within `MCEventStream` |
| `AccessJournal` | the two hash chains and what appends to them | `MCAccessJournal` |
| one `...Proofs` for each of these; `CollectorProofs` for `Fleet` and `ForumCrawl`, `EventStreamProofs` for `EventFeed` too | their theorems | TLAPS |

### GroupJoin

| variable | in the code |
|---|---|
| `state`, `assigned`, `result` | columns of `group_candidate` |
| `mentioned` | `group_candidate_mention` has a row for it: the discovery lineage |
| `active` | rows of `collector_group_membership` with `left_at` null, counted |
| `platform` | what Telegram says of an account and a group |
| `life`, `queue`, `forms` | a process, its NATS subscription, `_requested_match_forms` |
| `work` | where its three coroutines are, with their locals |
| `sup` | the supervisor's tick: the lists it read, the item at hand |
| `req` | API requests in flight, with the edges left to walk |
| `orphaned`, `overruled` | history, for the properties only |

The grain is the code's.  `transition_candidate` is a read and a write by id
(`RequestReads`/`RequestWrites`, `SupervisorReads`/`SupervisorWrites`,
`CommandReads`/`CommandWrites`); `claim_candidate_transition` is one step
(`Claim`, `Undo`); `open_membership` is `LooksForDuplicate` and `Inserts`;
`dispatch_approved` is `Snapshot`, `Dispatch`, the transition, `Publish`.  A
command reaches a subscription that is up and has room, and is lost otherwise
(`Delivered`).  A ValueError inside the supervisor's tick ends the supervisor, as
`run_service` has it, and its children with it.

Left out: audit rows and logs; scores, eligibility and who is leased as a scout
(`DispatchDiscovered` allows any answer); the walk of a forum category, which
opens its own membership and joins nothing; the order in which a leave closes
rows (any order is allowed); creation of rows.

### Fleet

| variable | in the code |
|---|---|
| `present`, `desired`, `observed` | `collector` rows |
| `deleting` | DELETE requests between their check and their delete |
| `identity` | `identity.state`; one identity per collector, the column is unique |
| `proc` | operating system processes: whose, where, asked to stop |
| `tracked`, `cooling` | `_procs`, `_cooling_until` |
| `sup` | the tick: the snapshot's rows left, the row at hand |

One action per branch of `_reconcile_one` (`Crashed`, `Stops`, `Heartbeat`,
`Cools`, `SpawnReads`, then `ClearsClaim` and `Spawns`).  `Settles` is what the
branches have in common: `_set_observed` writes when the state is new, or always
where the code passes an error or a heartbeat, and raises when the row is gone.
A process claims in two steps (`ClaimReads`, `ClaimWrites`), is `Ready` once
its signal handlers are on, and leaves through `Disconnects`, `Releases`,
`Exits`.  `OnSigterm` says what a signal does at each stage.

Left out: how long a cooldown lasts (any time: `restart_count` and its exponent
only set that); audit rows and error text; COOLING as an identity's state, which
nothing in the repository sets; a panic that arrives while the process is still
subscribing is taken as missed; Matrix and forum specifics, as they share the
runner and the pool (the forum collector does not release its claim, which for
`Fleet` is the end of a process that died).

### OperatorWrite

| variable | in the code |
|---|---|
| `record` | `idempotency_record`: hash, stored response (by whose it is), when written |
| `clock` | time, as the number of rows of a key that have expired |
| `attempt` | requests: the locals of the middleware and of the handler |
| `done` | what each request left behind: announced, audited, state, log, sent |
| `stolen` | history: keys of which a reclaim deleted another row than it had read |
| `faults` | bound |

`reserve_idempotency_record` is an insert (`Reserves`, `Contends`), a read of the
row that was in the way (`Vanished`, `FindsExpired`, or `_handle_contended` with
`Refuses` and `Replays`), and a delete by key (`Reclaims`), twice at most.
`operator_write` is `Announces` and `Audits` (the two halves of `AuditEmitter.emit`),
`WritesState` and `AppendsEvent` (what the operation's `_persist` does, given by the
constant `Writes`), and `Publishes`.  Each can fail in the ways the code tells apart:
503 or 500 and the key is freed (`AuditFails`, `PersistFails`, `PublishRaises`), or 202
all the same (`PublishFails`).  `CutShort` is a worker that dies anywhere.

A request stamps itself when it arrives and calls a row expired that is older than
seven days by that stamp; so it does here, with a clock that a `Lapse` moves.  A
request takes seconds, so a lapse waits for those that hold the key or are about to
delete its row; it does not wait for those that have still to insert or read,
whose stamp is then old.

Left out: requests without a key, which pass the middleware; the checks before the
write, one `Rejects` for all; the retry on `event_seq`, one step;
`purge_expired_idempotency`, which nothing calls.

### Intake

| variable | in the code |
|---|---|
| `posted`, `account` | the platform: messages written, groups the account is in |
| `candidate`, `membership`, `byLink` | `group_candidate.state`, `collector_group_membership`, groups whose row is named `joinchat:<hash>` |
| `leaving` | `groups_leave` requests |
| `authors`, `stored`, `announced` | rows of `actor` and `message`; messages published to the sensors |
| `proc`, `queue`, `command` | the boot with what it seeds from and `_monitor_raw_ids`; the subscription; `_on_command` |
| `ingest`, `reader` | `_ingest_msg` by task, `_run_backfill` |
| `config`, `patch`, `sup` | `collector.config`, PATCH requests, `dispatch_backfills` |
| `promised`, `torn`, `astray`, `replayed` | history, for the properties only |

The boot lists memberships, resolves them one by one and subscribes before it
registers (`Spawns`, `SeedsOne`, `Subscribes`, `Registers`).  A message passes the
gate, or confirms a request on its way (`Admits`, `Confirms`), finds or
inserts its author, is stored and published (`FindsAuthor`, `KeepsAuthor`,
`Stores`, `Announces`); two tasks over one new author or message collide as the
unique indexes have it (`Collides`).  A join's settlement opens the membership, is
recorded and only then watched (`OpensMembership`, `Records`, `Watches`).  PATCH and
`dispatch_backfills` read the whole configuration in one call and write it in
another.

A join is one step; `GroupJoin` is its detail.  Left out: attachments; titles and
rows of groups; the scan of visible groups; `monitor_groups` of the legacy
identity file and the backfill it starts; messages without text.  As in the
code, a group that was joined through an invite has a row no later boot can
resolve, so it is not watched after a restart and cannot be left by command.

### ForumCrawl

| variable | in the code |
|---|---|
| `rank`, `home`, `length`, `moved` | the board: threads by last post (1 is the latest), where they are, how long, which were moved |
| `unlocked`, `posted` | what this account replied to and how often |
| `monitored`, `cursor` | open memberships, `forum_crawl_cursor` |
| `alias`, `link` | `forum_thread_alias`, `forum_thread_link` |
| `stored`, `gated`, `sent` | rows of `message`, those that hold a gate's placeholder, those published |
| `request` | `forum_reply_request`, `forum_backfill_request` |
| `crawler` | the process: the one coroutine and its locals |
| `history` | for the properties: what the board or a failure cost |

The collector is one coroutine: a tick carries out replies, then backfills, then
sweeps the categories (`TakesReplies`, `TakesBackfills`, `Sweeps`).  A category's first
page is read each time (`Opens`), older ones once from the cursor, a page
per turn (`TurnsTo`, `SavesCursor`).  A thread's key is bound to its address or its
tid (`Bound`, `PollsNameless`); its posts are stored, then published (`Stores`,
`PublishesPost`).  The links of a page are a set, read in any order: the code reads
them from the top, and nothing rests on that.  What interleaves is the board: a post lifts a thread, threads are
opened and moved (`NewPost`, `NewThread`, `Relocates`).  What fails: a request gets
no answer, a page comes back without content (the code looks at no status), the
database is locked, the process dies.  Each path handles these differently, and
so does the model: a thread that fails is skipped, a category is left, or the
process ends.

Left out: actors and titles; posts without own words, which are not published;
pinned threads; `_max_category_pages`, 0 unless set; the boot canary and the
discovery of categories; what the parser makes of a page.  Two comments are less
than the code does: a category left for a locked database waits for the
interval, not for the next tick (`real.py:430-431`), since the time of the sweep is
set before it starts; and a thread skipped on an old page is not polled again by the
next sweep (`real.py:456-458`), since the cursor moves past it.

### Profiling

| variable | in the code |
|---|---|
| `stored`, `late` | rows of `message`; history: those stored after one of a later time |
| `cursor` | `corpus_cursor`, by primitive |
| `sensor` | the sensor's tasks, one per delivery |
| `observed`, `persisted` | observations by `observed_at`; those whose row is written |
| `engine`, `profiles` | the engine's tasks, one per observation; the versions of the profile |
| `faults` | bound |

`Gate`, `ReadCursors`, `Compute` (once per primitive: it announces), `PutRows`, `Advance`
are `_process` and `_run_primitives` of the stylometric sensor; `Find`, twice, `ReadProfile`, `WriteProfile` the
engine's handler.  The window of a computation is by time, then id, as
`corpus.py` orders it; a cursor moves to the message of the delivery, wherever it was.  `Raises`,
`EngineFails`, `SensorCrash` may strike any task.

Left out: recipes, slot values and roles; the primitives themselves; those that
read the whole corpus, whose cursor nobody reads; label and engagement events,
which are only logged.  One actor.

### Attribution

| variable | in the code |
|---|---|
| `profiles`, `hashed` | `profile.current` events, `vector_signature` |
| `linkage`, `results` | `linkage` by pair, `linkage_verifier_result` |
| `dossier` | `persona` and `persona_membership`: `home` by row, `list` for `member_actor_ids`, `minted` ids |
| `tasks` | handlers in flight in linker, verifier and graph, with what they read |
| `proposed`, `verdicts`, `commands`, `overlap` | history |

The bus hands each message to a task of its own, so that a handler is one action
per call to the database: the linker's `UpsertSimhash`, `NearestSimhashes`,
`SelectProposed`, `InsertProposed` (with `InsertRefused` on the unique index),
`AnnounceProposed`; the verifier's `RecordResult`, `VerifierReads`, `VerifierPromotes`; the
graph's `GraphReads`, `GraphApplies`, `MergeMembers`, `ReadPersonas`, `CommitPersonas`.
`transition_linkage` is `ReadRow` and `WriteRow`.

Left out: the projection into graph nodes and edges; audit rows; feedback pairs;
all comparators but one (rows of different comparators do not meet before the
personas).  Which profiles match and what a verifier says is a choice.

### EventStream and EventFeed

| variable | in the code |
|---|---|
| `made`, `log`, `settled` | ids made; rows of the event logs; events published or never to be |
| `conn` | a connection: phase, subjects, queue and overflow, cursor, tables left, page, `seen` |
| `conn.from`, `.sent`, `.stored`, `.arrived`, `excused` | history |
| `client`, `drops` | the last id the client knows, what it got; bound |

A connection subscribes (`Connect`, `Subscribe`, `Subscribed`), reads a page of each
table and merges them (`ReadTable`, `MergePage`), sends them (`SendReplayed`), goes on
until a page is short, then sends from the queue what it has not seen (`SendLive`,
`SendLiveSeen`, `SendLiveAgain`).  An overflow ends it (`CloseOverflown`), as a token
that expires or a broken connection does (`Drop`).  Rows and messages of an event
are two steps of its writer in either order, and a publish may be lost.

`EventFeed` is what a reader of the stream may rely on: events happen, a stream is
opened, carries each event that has happened at most once, and is closed.
`FeedPromise` is that `EventStream` implements it, with `happened` the events on
record or on the bus, `up` an open connection and `delivered` what was sent on it.
Left out: heartbeats, bodies, the token beyond its expiry.

### AccessJournal

| variable | in the code |
|---|---|
| `backend` | which repository class: SQLite or Postgres |
| `ack`, `challenge`, `keys` | `file_access_acknowledgment`, `signing_key_challenge`, the history of the user's keys |
| `journal`, `audit` | the two chains by `seq`; a hash is the position of its row |
| `h` | the requests |
| `held`, `writing` | `_audit_write_lock` of each process; `BEGIN IMMEDIATE` or the advisory lock of each chain |
| `bodies`, `requests`, `faults` | history and bounds |

Three kinds of request share one path: check or spend a token (`VerifySignature`,
`SpendChallenge` and `RecordKey`), take the lock of the process and of the database
(`TakeLock`, `Begin`), read the head and insert (`ReadHead`, `Insert`), then answer
(`Send`).  The nonce of a fetch is spent in the transaction of its row.  A failure
rolls back (`Fail`) or strikes after the commit (`FailCommitted`); `Crash` ends all
requests of a process.

Left out: anchors and the NDJSON mirror; power loss (audit.db runs in WAL with
`synchronous=NORMAL`); what is refused before audit.db is reached; the freshness
window of a signature; the listings; more than one user.

### How they meet

`GroupJoin` has a collector that is down, booting or ready and goes down at any
time; `Fleet` says when that happens.  `GroupJoin`'s dispatch to a scout allows
any process or none; `Fleet` shows it is none (`ScoutListens`).  `Intake` takes a join
in one step, which is the settlement of `GroupJoin`.  What `Intake` announces and
`ForumCrawl` publishes are the deliveries of `Profiling`; a version of a profile is
the `ProfileCurrent` of `Attribution`.  `OperatorWrite` says whether an operator's
event happens; what it does to an account is `Fleet`'s operator step, to a linkage
or a persona `Attribution`'s verdicts and commands, and on a stream `EventStream`'s
`Make`, `Store` and `Publish`.  The chain `OperatorWrite` appends its audit row to is
`AccessJournal`'s.

These are seams, not compositions: each module lets its neighbours do what the seam
allows, within its bounds, and no module instantiates two of them.

## 3. The runs

| run | question | answer |
|---|---|---|
| `group_join` | One candidate, two requests, the tick, three coroutines, one fault: is `JOINED` backed by exactly one membership, reached by the compare-and-swap alone, and does an operator's join get an answer? | yes |
| `group_join_approved` | An invite link on a collector without ticks, no request, no fault: is an approved request noticed? | no |
| `fleet` | Two collectors, two processes, three commands, one fault: one serving child, STOPPED means asked, what should run runs, what should stop stops? | yes |
| `fleet_thaw` | Does a withdrawn account stay withdrawn when its process shuts down? | no |
| `operator_write` | Four requests, two bodies, one key, one expiry, one fault: one event and one answer per lease, durable before promised, no key stuck without a holder? | yes |
| `intake` | Joins, leaves, a restart, a backfill, a PATCH and two messages: is nothing kept of a group that was never joined, does the monitor set follow the memberships, is what a backfill finished stored and published, is a configuration lost only where two writers overlap? | yes |
| `forum_crawl` | Two threads and one to come, one event on the board, one request, two faults: does the cursor pass nothing unread, does a post go out once under one key, a reply once, is done there, is every request answered? | yes |
| `profiling` | Three messages, two of one second, delivered at once, one fault: does a cursor pass only what was read, has every slot its row? | yes |
| `attribution` | Three actors, two profiles, two verdicts, two persona commands in any overlap: do personas hold only actors that operators connected, are verdicts final, do they land, has what is announced a row? | yes |
| `attribution_rejected` | Do actors share a persona only through linkages that are confirmed? | no |
| `event_stream` | Four events, a queue of one, pages of one row, two drops: does a connection implement `EventFeed`, leave no gap, and does a client that reconnects get everything it can? | yes |
| `access_journal` | Three requests over two processes on both databases, one fault: do both chains verify, is every nonce spent with its row and every key by its challenge, is there a row for every body sent? | yes |

### Where the code and its text disagree

`group_join_approved`: `tick()` "catches approvals that produced no observed message
and is the ONLY path that can confirm invite-link candidates" (`real.py:522-525`);
no message matches an invite's hash, so these are "PROBE-ONLY"
(`development/PHASE-1.md:17`).  The command line starts every Telegram collector with
`tick=0.0` (`cli/main.py:320`), for which `run_service` never calls `tick()`
(`runner.py:53-60`), and the probe has no other caller.  An invite import that has to
wait for an administrator stays REQUESTED after the approval, with the account in the
group and no membership.  With `TickInterval = 1` and weak fairness of `ProbeConfirms`,
which is what `run_service` does with an interval, the property holds.

`fleet_thaw`: the panic handler freezes every account and then shuts down, which
releases its own as AVAILABLE (`real.py:989`), while the kill switch "rotates pool
state to frozen" (`PLAN.md:226`).

`attribution_rejected`: `_apply_linkage_state` takes every refused transition for a
redelivery and lets the confirmation's consequences follow (`graph.py:138`), while
"persona aggregation triggers ONLY on transition into CONFIRMED"
(`contracts/enums.py:80`).  A linkage that is rejected, then confirmed by a second
operator, stays rejected and merges its actors.  `PersonasAreVouched` is what holds:
an operator's confirmation or merge is behind every shared persona.

The modules state more promises of the text that the code does not keep.  No run
is kept for these; each is refuted by a cfg of its module's MC module with that
one property (a PROPERTY for `OnlyLegalEdges` and `DecisionReachesBus`, an
INVARIANT for the others), the constants of the module's run
and whatever the last column says.

| property | the text | the code | run with |
|---|---|---|---|
| `OnlyLegalEdges` (`GroupJoin`) | "every illegal edge raises ValueError before touching the database" (`candidates.py:6-7`) | two decisions that read one state both write (`candidates.py:454`) | `Spec` |
| `OneSessionPerAccount` (`Fleet`) | "prevents two logged-in sessions on the same account" (`models/collector.py:79-80`) | stop, start: the handle is dropped with SIGTERM (`collector_supervisor.py:327`) and the next tick clears the claim of a process still disconnecting | `Spec`, one collector |
| `ScoutListens` (`Fleet`) | the command goes out "so the collector process running that identity receives it" (`collector_supervisor.py:502-503`) | a scout that can be leased is AVAILABLE, so no process runs it (`collector_supervisor.py:428`) | `Spec` |
| `NeverBothFire` (`OperatorWrite`) | "two concurrent identical POSTs cannot both fire bus events" (`idempotency.py:5-6`) | one reclaim's delete takes the other's fresh row (`idempotency.py:99`) | `Spec` |
| `DecisionReachesBus` (`OperatorWrite`) | "a retry walker catches up" (`_writes.py:13-15`) | there is none; a failed publish is final (`_writes.py:85`) | `LiveSpec` |
| `AnnouncedIsAudited` (`OperatorWrite`) | "no bus message is published" when the append fails (`development/API_PLAN.md:1328`) | `emit` publishes first (`telemetry/audit.py:92`) | `Spec` |
| `MemberIsMonitored` (`Intake`) | a freshly approved group is added on confirmation (`real.py:639-643`) | a request the probe confirms, where it runs, never enters the set (`real.py:586`) | `Spec` |
| `BackfillNotLost` (`Intake`) | a child that lives is subscribed (`collector_supervisor.py:360-362`) | it is subscribed at the end of its boot; the flag is cleared all the same | `Spec` |
| `ArchiveCompiled` (`ForumCrawl`) | the cursor latches once the archive is compiled (`forum_crawl_cursor.py:10-12`) | a thread opened during the walk pushes another past the last page it counted (`forum/real.py:545`); no fault is needed | `CrawlSpec`, `MaxFailures = 0` |
| `BackfilledInFull` (`ForumCrawl`) | the collector fetches all pages of the thread (`api_backfill_group.py:5-6`) | a thread's key is used as its tid; where it is none, the error page is stored as read and the request is done (`forum/real.py:722`) | `CrawlSpec`, `MaxFailures = 0`, two posts in "slug" |
| `TemplatesStayOut` (`Profiling`) | a template "never pollutes" a profile (`stylometric.py:51-52`) | the gate skips the delivery; the message is in the next one's window (`corpus.py:48`) | `Spec` |
| `VersionsMonotonic` (`Profiling`) | "snapshot-per-update with monotonic version" (`PLAN.md:875`) | two tasks read one version and write the same next (`engine.py:150-172`) | `Spec` |
| `NoGap` (`EventStream`) | a short page means the log is exhausted (`replay.py:64-66`, `sse.py:265`) | the control topic filters after the limit (`replay.py:73`) | `Spec`, `Kind <- Identities`, `Count = 3`, `Topics = {"eyenet.control"}`, `MaxDrops = 0` |

### Excuses

Where the code gives up on something by design or has no remedy, the property that
holds is the promise with the case named, kept in a history variable that no
action reads: `orphaned` and `overruled` (`GroupJoin`), `stolen` (`OperatorWrite`),
`overlap` (`Attribution`), `excused` (`EventStream`), `late` (`Profiling`), `torn` and `astray`
(`Intake`), the fields of `history` (`ForumCrawl`).  Each is set in the one step that
causes the case.  The refuted properties above show that such a case is needed;
the passing run, and where there is one the theorem, that it is the only one.

### Bounds, and why they are enough

*One candidate, one collector* in `GroupJoin`: every race is on one row; a
second candidate shares nothing but the order of a tick's list.  The theorems
cover any number.  *Two requests*: a lost update needs two writers, and the
tick and the coroutines add four.  *One fault*: each recovery is from one
crash or one failed write.  *A buffer of one*: the second command is the one
that is dropped.  *Three commands* in `Fleet` make stop, start and a freeze, or
a start and a stop of both collectors; *two processes* are an old child and a
new one, or one of each collector; a spawn waits for a number nobody uses.
Ticks, coroutine steps and platform events are not bounded.  *No tick
interval* (`TickInterval = 0`) is what the Telegram collector is started with, and
`group_join_approved` has it.  `group_join` has `TickInterval = 1`: its steps are those
of 0 and the probe's and the refresh's besides, to which no fairness is given, so
that its behaviours include the program's, and what it shows, liveness too, holds
whether or not a tick ever comes.  *Four requests* in
`OperatorWrite`: one whose row expires, two that race to reclaim it, one that is
given what they left; *two bodies*, one with an event row and one that changes an
identity too, also make a key reused for another request; *one lapse*, because a
lease is compared with the stamp only; *one key*, because keys share nothing.

`Intake`: *a public and an invited group*, which the boot treats differently;
*two messages of one author*, so that their tasks collide on the author's row,
one message with words of its own and one without; *one backfill* and live tasks
over the same messages; *one PATCH*, which overlaps the supervisor's rewrite;
*two events* among joins, failures and crashes: a join and what goes wrong with it.
`ForumCrawl`: *pages of one thread* and *sweeps one page deep*, so that every thread is a
page boundary and posts are left to requests; *one event on the board* at any
point of any read; *two faults*, the second in the recovery from the first;
*"old"*, of two posts and with a number in its address, *"slug"* without one, *"new"*
opened later.  `Profiling`: *two messages in one second*, which the order by time
alone would not tell apart, *three deliveries* for them, one over a template; *one
primitive*, since primitives share only the list they are computed in.
`Attribution`: *three actors* make a chain of two linkages and a persona that is
merged and split; *two verdicts* contradict; *two handlers* besides those they start
overlap.  `EventStream`: *four events* of which one passes on the bus alone and two
share a log, *a queue of one* overflows at once, *pages of one row* are always full.
`AccessJournal`: *two handlers in one process and one in another*, for the lock of a
process and that of the database; *two tokens of each sort*, *three requests*.

`CHECK_DEADLOCK FALSE`: once its bounded inputs are used up and everything is
stopped, nothing has to happen.

Symmetry is used with invariants and with a property of single steps
(`VerdictsAreFinal`), never with liveness or a refinement.

### Fairness

Weak fairness, of single actors: the supervisor's step (`run_service` ticks it
for ever, systemd's `Restart=on-failure` brings it back), each coroutine's or
process's next step (asyncio and the operating system run what can run; Telethon
calls return or raise), the clock for each cooldown.
In `GroupJoin` the boot, the commands and the settlement of their joins are one
actor (`CommandTask`), as they follow one another, and the probe owes nothing, not
even its first step: `run_service` calls `tick()` only when it is given an interval.
In `OperatorWrite`, each request's next step: a worker's event loop runs it.  In
`EventStream`, the server's and the client's next step on a connection: the loop
runs, and a browser's event source reconnects; a broken connection is a bounded
fault.  In `ForumCrawl`, the collector's next step: its event loop runs, and the
supervisor starts a process that died.  Requests, operators, faults, mentions,
leases, arriving messages, boards and the platform's administrators owe nothing,
so no property waits for them.

## 4. What is proved

All from the constants' assumptions (`JoinConstants`, `FleetConstants`,
`OperatorWriteConstants`, `IntakeConstants`, `ForumConstants`, `ProfilingConstants`,
`AttributionConstants`, `EventStreamConstants`, `JournalConstants`), which give types, the
relations between the sets of an instance, and nothing else.

**`GroupJoinProofs`**.  `TypeCorrect`: `Spec => []TypeOK`.  Not inductive as it
stands: what a coroutine writes into `result` is a group because of where its row
came from.  `IInv` adds what each actor carries at each place: `Carries` for a
coroutine, `Asks` for a request, whose plan is one of five (`Plans`).
`JoinedOnlyByClaimHolds` follows: no plan, no checked edge and no undone claim is
`JOINED`, so `Claim` is what is left, and `Carries` says from which states it
claims.  `JoinedHasMembershipHolds` goes through the actions that could take the
evidence away: a membership closed leaves a request that is `Leaving`, a settlement
that ends leaves a membership or a state that is not `JOINED`, a crash leaves the
candidate `orphaned`.  `OneMembershipPerJoinHolds` needs a strengthening of its own,
`Alone`: one coroutine settles a candidate that nobody overruled, the state is
`JOINED` while it does, and at an insert the row it is for is still free.  The
last two also need `RowsApart`: no two candidates share a group row.  The
hypothesis is in the theorem because nothing in the code enforces it, and with a
shared row one candidate's leave takes down another's evidence.

**`CollectorProofs`**, for `Fleet`: `FleetTypeCorrect`, `OneServingChildHolds`,
`StoppedMeansAskedHolds`.  Both properties rest on what the supervisor's handles
are worth, which `IInv` says (`ChildrenOK`): a child nobody asked to stop is the
one its collector's handle is on (`ServingOK`); a handle is on a process of its
collector, and that row says RUNNING (`HandlesOK`); a spawn is under way only
where there is no handle (`SupOK`).  One serving child follows because there is
one handle, STOPPED means asked because a row with a handle says RUNNING.

For `ForumCrawl`, every invariant of its run.  `BaseInv` says what the coroutine holds
at each of its places; the types and `PublishedOnceHolds` are part of it, and the
others build on it.  `KeyInv`: a row, and a thread being read, has the key its
alias has, or a page did not show the tid (`OneKeyPerThreadHolds`).  `ReplyInv`: the
request of a reply that was posted is at hand until it is recorded
(`RepliedOnceHolds`).  `DoneInv`: the pages read so far for a request are stored, and a
thread read again has no gated row behind its first page (`DoneIsReadHolds`).
`PassedIsStoredHolds` is the long one.  `CursorInv` is the property for the page the
cursor names and for an archive called complete; `WalkInv` says of a walk under way
that threads on pages behind it were read, and that those of its page were read or
are at hand.  The board may move at any step: `Shifts` says that a thread that comes
to an earlier page, or to another category, is in `history.risen`, so no page behind
the walk gains a thread that was neither read nor excused.

**`OperatorWriteProofs`**.  One theorem per property of the passing run, and for
`GateOrder` and `AnswerKept`, which are proved only.  The
invariant says what each place in a request's life has behind it (`Phases`: a
request about to persist has been audited, one that was accepted has everything),
that no lease is of the future (`Clocks`), that a stored response is a durable
decision on its row's request (`Stored`), and then, of every key that is not `stolen`:
a request that won it, or was told a 202, finds the row of its lease there, pending
or saying what it was told (`Bound`), and no lease has two winners (`Sole`).  The
properties follow or are carried along (`Promises`).  Steps that leave
the table alone are one lemma (`StepsKeepIInv`), steps that put in or take out a row
another (`RowStepKeepsIInv`).

**`IntakeProofs`**.  Four invariants that need nothing of one another but the types.
`ConfigInv` for `ConfigKept`: a configuration in hand is the row's, or another was
written since it was read (`ReadersBehind`, `ReadersFresh`).  `GateInv` for
`OnlyJoinedIsStored`: what is watched, read or stored was joined once, and rows stay.
`ReplayInv` for `BackfillReplays`: what a backfill has passed is stored and, where it
may be, published.  `MonitorInv` for `MonitorFollowsMembership`, the long one: a group
that is watched without a membership, or has one and is not watched, has something
on its way that will settle it (a boot that has yet to seed it, a command in the
queue or at hand, a leave half way), or is excused.

**`ProfilingProofs`**.  A cursor is safe where everything behind it has been read
(`Covered`), and stays safe as messages arrive, since one that arrives behind it is
`late`.  So a task may work from a cursor that others have moved: what it has
computed (`DoneSafe`) covers everything behind its message.  `PassedIsReadHolds` and
`SlotsHaveRowsHolds` follow with the types, whose theorem is
`ProfilingTypeCorrect`.

**`AttributionProofs`**.  Rows first: an id that has a row keeps it (`Grown`), so every
handler can rely on the row it was started for (`LinkOK`, `VerifyOK`, `VerdictOK`,
`CommandOK`).  `AnnouncedHasRowHolds`, `PromotedHasResultHolds` and `VerdictsAreFinalHolds` are
from these.  Personas second: `VouchInv` gives each persona a representative and says
that whatever the rows, the lists, a handler's stale view or an operator's command
name under one persona is connected to it.  The strengthening over
`PersonasAreVouched` is needed because a stale view is committed later as rows.
`ListsMatchRowsHolds` follows views from their read to their commit (`Matches`).
`VerdictsLandHolds` follows verdicts: one that closes a linkage is on its way to the
row or the row is closed (`LandInv`), and a confirmed pair has a handler on its way to
the personas or shares one (`ShareInv`), with the excuses of the property.

**`EventStreamProofs`**.  `ImplementsFeed`: `Spec => FeedPromise`, initial state to
initial state and every step to a step of `EventFeed` or a stutter.  That nothing is
delivered twice rests on three facts of `IInv`: a replay goes upwards, so
everything sent is below the rest of the page and the cursor; the queue holds an
event once; and what is in the queue and was sent is in `seen`.
`NothingAfterOverflowHolds` is from the same invariant, and `StreamTypeCorrect` with the
domains of the rest.  `NoGapHolds` needs a second one, `CoverOK`: what came in over the
bus was sent or is queued, and what the logs held and replay has not sent is on the
page, or behind a page that is full.  Its hypothesis `EveryRowKept` says that replay
keeps every row of the tables it reads.  Every topic of the code meets it but the
control topic for a reader of identities, which filters after the limit: there the
property is false, as the trace of section 3 shows.

**`AccessJournalProofs`**.  `LockInv`: who appends holds the lock of its process and of its
chain, and who holds one is appending, which is `LocksReturnedHolds`.  So the head a
handler has read is the head its row follows, and the nonce it found unspent is
unspent (`RowInv`): `ChainsVerifyHolds`.  `NonceNamed` and a lemma on the cardinality of the
rows that name a nonce give `NonceSpentByOneRowHolds`.  `EvidenceFirstHolds` counts the
handlers that have a row and are yet to send, with the bodies sent, against the rows
(`BodyInv`); `KeyPerChallengeHolds` the registrations that have spent a challenge and
are yet to record, with the keys, against the challenges (`KeyInv`).

`Inductive`, `FleetInductive`, `OperatorInductive` and `StreamInvariant` are the three facts
of an argument in one: initially, by every action, and what they imply.

The type invariants of `GroupJoin`, `Fleet`, `OperatorWrite`, `Intake`, `Profiling`, `Attribution`
and `AccessJournal`, and `LocksReturned`, `GateOrder`, `AnswerKept` and `PromotedHasResult`, are
theorems that no run repeats.

So every invariant and action property of the passing runs is a theorem, `NoGap`
under its hypothesis, and the two of `GroupJoin` that need `RowsApart` under theirs.
Only model-checked are the liveness properties `OperatorJoinSettles`,
`StartsEventually`, `StopsEventually`, `EventuallyDelivered` and `RequestsAnswered` (fairness and ENABLED are beyond the prover), and what is refuted,
by a trace.  No module uses a RECURSIVE operator, and induction over data, which the
prover cannot do, is needed once: a nonempty family of subsets of a finite set has a least
one (`LeastSet`), which is cited from the library's well-founded relations.

## 5. What is open

In this order.

1. Composition: `Fleet` implements the collector's life of `GroupJoin` and `Intake`
   under a refinement mapping; `GroupJoin`'s settlement implements `Intake`'s join; an
   abstract key that takes effect at most once, which `OperatorWrite` implements
   as long as no row is stolen.
2. Sessions: refresh rotation against two tabs, the denylist against the cache of
   each process.  QR login: the driver task against the expiry and the requests that cancel it.
3. Anchors over `AccessJournal`'s chains, and power loss under WAL.
4. A request for a public group, where messages keep arriving: does it join?  For that
   `Subscribed` has to become two steps, as the boot subscribes before it refreshes the
   forms (`real.py:268-280`).
5. Matrix rooms, whose intake is a third shape beside `Intake` and `ForumCrawl`.

## 6. Not modelled

| part | why |
|---|---|
| Sessions, MFA, tokens; QR login | stateful and worth a module; the order above puts them after what every message passes through |
| Matrix rooms | the joins and the process are `GroupJoin`'s and `Fleet`'s shape; its sync loop is the client library's |
| Clearance, cases, reclassification | handlers that change the rows of one case at a time; a candidate for a later module, after sessions |
| Incidents, relations, documents | one row at a time, one request at a time |
| Classifier, calibration, text primitives, comparators | numerical: what they compute is a choice in `Profiling` and `Attribution`, and there is no state to explore |
| Anchors, NDJSON mirror | periodic copies of the chain's head |
| Graph projection | nodes and edges the graph service writes beside the tables of `Attribution`, which it does not read back to decide anything |
| Forum parsers, XenForo, thread titles | text in, rows out |
| `purge_expired_idempotency`, COOLING, SUPERSEDED | nothing in `src/` calls or sets them |
| CLI, configuration | beyond the tick interval and panic, arguments |
| Web client, containers, unit files, corpus and map scripts | no coordination; the supervisor's unit file is what the restarts rest on |

The modules stand for the coordination core.  The rest of the tree is
mostly single-row handlers, schemas, parsers, tests, scripts and the web client, of
which a state machine would say nothing that the code does not say on its face.
