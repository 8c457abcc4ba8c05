-------------------------------- MODULE Fleet --------------------------------
(***************************************************************************)
(* The supervisor and the collector processes it runs.                     *)
(*                                                                         *)
(* An operator says in the collector table what should run.  Every tick    *)
(* the supervisor reads the table once and goes through that snapshot:     *)
(* it reaps children that exited, terminates those that should stop, and   *)
(* spawns those that should run, after a cooldown when the last one        *)
(* crashed.  A child claims its account (the identity row) while it boots  *)
(* and releases it while it shuts down, so a child that was terminated and *)
(* one that was spawned after it can both be at work on one account.       *)
(*                                                                         *)
(* What the supervisor knows of its children (_procs, _cooling_until) is   *)
(* in memory.  A child lives and dies with the supervisor's control group. *)
(*                                                                         *)
(* A collector has one identity and an identity one collector (the column  *)
(* is unique), so identities are named by their collectors.  Heartbeats,   *)
(* error breadcrumbs and audit rows are left out; restart_count only sets  *)
(* how long a cooldown lasts, and a cooldown lasts any time here.          *)
(***************************************************************************)
EXTENDS Naturals, FiniteSets

CONSTANTS
  Collectors,      \* collector rows, and the identities they are bound to
  Pids,            \* operating system processes
  MaxCommands,     \* bound: what operators do over a behaviour (a discovery
                   \* candidate they approve counts as its scout is leased)
  MaxFaults,       \* bound: crashes and refused spawns over a behaviour
  None             \* no process, no collector

ASSUME FleetConstants ==
  /\ None \notin Pids
  /\ None \notin Collectors
  /\ MaxCommands \in Nat
  /\ MaxFaults \in Nat

VARIABLES
  present,     \* collectors whose row has not been deleted
  desired,     \* collector.desired_state (DISABLED is treated as STOPPED)
  observed,    \* collector.observed_state
  deleting,    \* DELETE requests past their check of observed_state
  identity,    \* identity.state
  proc,        \* the processes
  tracked,     \* _procs: the supervisor's handle on a collector's child
  cooling,     \* _cooling_until: collectors with a deadline still to come
  sup,         \* the supervisor's tick
  commands,    \* operator commands so far
  faults       \* crashes and refused spawns so far

rows   == <<present, desired, deleting>>
memory == <<tracked, cooling>>
bounds == <<commands, faults>>
vars == <<present, desired, observed, deleting, identity, proc, tracked, cooling,
          sup, commands, faults>>

-----------------------------------------------------------------------------
(* States. *)

\* A process: importing and connecting to the bus; about to set IN_USE after the
\* claim's check; logging in and subscribing; serving, with its signal handlers
\* on; about to freeze the pool; disconnecting; about to release its account;
\* leaving run_service; gone.
Stages == {"free", "boot", "claiming", "connecting", "ready",
           "panicked", "leaving", "releasing", "stopping", "exited"}

NoProcess == [of |-> None, at |-> "free", asked |-> FALSE]
Moved(q, stage) == [of |-> q.of, at |-> stage, asked |-> q.asked]
Live == Stages \ {"free", "exited"}

\* The platform sees a session of the account.
LoggedIn == {"connecting", "ready", "panicked", "leaving"}

LiveOf(c) == {p \in Pids : proc[p].of = c /\ proc[p].at \in Live}

\* Children that nobody has asked to stop.
Serving(c) == {p \in LiveOf(c) : ~proc[p].asked}

\* An account that an operator, a panic or a ban took out of rotation.
Withdrawn(c) == identity[c] \in {"FROZEN", "BURNED"}

Idle == [at |-> "idle", todo |-> {}, item |-> None]

Init ==
  /\ present = Collectors
  /\ desired = [c \in Collectors |-> "STOPPED"]
  /\ observed = [c \in Collectors |-> "STOPPED"]
  /\ deleting = {}
  /\ identity = [c \in Collectors |-> "AVAILABLE"]
  /\ proc = [p \in Pids |-> NoProcess]
  /\ tracked = [c \in Collectors |-> None]
  /\ cooling = {}
  /\ sup = Idle
  /\ commands = 0
  /\ faults = 0

Commanded == commands < MaxCommands /\ commands' = commands + 1
Faulty    == faults < MaxFaults /\ faults' = faults + 1

-----------------------------------------------------------------------------
(* Operators. *)

\* collectors_start and collectors_stop set the intent and return.
SetDesired(c, intent) ==
  /\ c \in present
  /\ desired[c] # intent
  /\ Commanded
  /\ desired' = [desired EXCEPT ![c] = intent]
  /\ UNCHANGED <<present, observed, deleting, identity, proc, memory, sup, faults>>

\* collectors_delete refuses unless the row it reads is STOPPED ...
DeleteReads(c) ==
  /\ c \in present \ deleting
  /\ observed[c] = "STOPPED"
  /\ Commanded
  /\ deleting' = deleting \cup {c}
  /\ UNCHANGED <<present, desired, observed, identity, proc, memory, sup, faults>>

\* ... and deletes in a transaction of its own.
DeleteWrites(c) ==
  /\ c \in deleting
  /\ present' = present \ {c}
  /\ deleting' = deleting \ {c}
  /\ UNCHANGED <<desired, observed, identity, proc, memory, sup, bounds>>

\* identities_claim, _release, _freeze and _burn overwrite whatever is there.
ActOnIdentity(c, new_state) ==
  /\ identity[c] # new_state
  /\ Commanded
  /\ identity' = [identity EXCEPT ![c] = new_state]
  /\ UNCHANGED <<rows, observed, proc, memory, sup, faults>>

FreezeAllIdentities ==
  identity' = [c \in Collectors |-> IF identity[c] = "BURNED" THEN "BURNED" ELSE "FROZEN"]

\* identities_freeze_all: the table, and nothing that runs.
FreezeAll ==
  /\ Commanded
  /\ FreezeAllIdentities
  /\ UNCHANGED <<rows, observed, proc, memory, sup, faults>>

\* `eyenet panic` publishes once; whoever is subscribed hears it.
Panic ==
  /\ Commanded
  /\ proc' = [p \in Pids |-> IF proc[p].at = "ready"
                             THEN Moved(proc[p], "panicked")
                             ELSE proc[p]]
  /\ UNCHANGED <<rows, observed, identity, memory, sup, faults>>

Operator ==
  \/ \E c \in Collectors, intent \in {"RUNNING", "STOPPED"} : SetDesired(c, intent)
  \/ \E c \in Collectors : DeleteReads(c) \/ DeleteWrites(c)
  \/ \E c \in Collectors, s \in {"AVAILABLE", "IN_USE", "FROZEN", "BURNED"} : ActOnIdentity(c, s)
  \/ FreezeAll
  \/ Panic

-----------------------------------------------------------------------------
(* A collector process. *)

GoesTo(p, stage) == proc' = [proc EXCEPT ![p] = Moved(proc[p], stage)]

\* DbIdentityPool.claim reads the row; any state but AVAILABLE ends the process.
ClaimReads(p) ==
  /\ proc[p].at = "boot"
  /\ GoesTo(p, IF identity[proc[p].of] = "AVAILABLE" THEN "claiming" ELSE "exited")
  /\ UNCHANGED <<rows, observed, identity, memory, sup, bounds>>

\* ... and sets IN_USE by id.
ClaimWrites(p) ==
  /\ proc[p].at = "claiming"
  /\ identity' = [identity EXCEPT ![proc[p].of] = "IN_USE"]
  /\ GoesTo(p, "connecting")
  /\ UNCHANGED <<rows, observed, memory, sup, bounds>>

Ready(p) ==
  /\ proc[p].at = "connecting"
  /\ GoesTo(p, "ready")
  /\ UNCHANGED <<rows, observed, identity, memory, sup, bounds>>

\* The panic handler freezes every account, then shuts its own process down.
Freezes(p) ==
  /\ proc[p].at = "panicked"
  /\ FreezeAllIdentities
  /\ GoesTo(p, "leaving")
  /\ UNCHANGED <<rows, observed, memory, sup, bounds>>

\* The platform bans the account during a join: burn_identity, and the process
\* goes on.
Banned(p) ==
  /\ proc[p].at = "ready"
  /\ Faulty
  /\ identity' = [identity EXCEPT ![proc[p].of] = "BURNED"]
  /\ UNCHANGED <<rows, observed, proc, memory, sup, commands>>

Disconnects(p) ==
  /\ proc[p].at = "leaving"
  /\ GoesTo(p, "releasing")
  /\ UNCHANGED <<rows, observed, identity, memory, sup, bounds>>

\* shutdown releases the account as AVAILABLE, whatever state it is in by now.
Releases(p) ==
  /\ proc[p].at = "releasing"
  /\ identity' = [identity EXCEPT ![proc[p].of] = "AVAILABLE"]
  /\ GoesTo(p, "stopping")
  /\ UNCHANGED <<rows, observed, memory, sup, bounds>>

Exits(p) ==
  /\ proc[p].at = "stopping"
  /\ GoesTo(p, "exited")
  /\ UNCHANGED <<rows, observed, identity, memory, sup, bounds>>

\* An unhandled exception, a failed login, the OOM killer: no shutdown.
Dies(p) ==
  /\ proc[p].at \in Live
  /\ Faulty
  /\ GoesTo(p, "exited")
  /\ UNCHANGED <<rows, observed, identity, memory, sup, commands>>

ProcessStep(p) ==
  \/ ClaimReads(p) \/ ClaimWrites(p) \/ Ready(p) \/ Freezes(p)
  \/ Disconnects(p) \/ Releases(p) \/ Exits(p)

-----------------------------------------------------------------------------
(* The supervisor: reconcile_collectors. *)

Ticks(at, todo, item) == sup' = [at |-> at, todo |-> todo, item |-> item]

\* Mutant of Snapshot: lists the collectors that should run.
SnapshotRunning ==
  /\ sup.at = "idle"
  /\ Ticks("reconcile", {[of |-> c, desired |-> "RUNNING"] : c \in {d \in present : desired[d] = "RUNNING"}},
           None)
  /\ UNCHANGED <<rows, observed, identity, proc, memory, bounds>>

\* list_collectors: one read for the whole pass.
Snapshot ==
  /\ sup.at = "idle"
  /\ Ticks("reconcile", {[of |-> c, desired |-> desired[c]] : c \in present}, None)
  /\ UNCHANGED <<rows, observed, identity, proc, memory, bounds>>

\* A handle whose process has, or has not, a return code.
HasExited(c) == tracked[c] # None /\ proc[tracked[c]].at = "exited"
Alive(c)     == tracked[c] # None /\ proc[tracked[c]].at # "exited"

\* Mutant of Down: the handles outlive the supervisor.
DownRemembers(ps) ==
  /\ Ticks("down", {}, None)
  /\ cooling' = {}
  /\ proc' = [p \in Pids |-> IF ps[p].at \in Live THEN Moved(ps[p], "exited") ELSE ps[p]]
  /\ UNCHANGED tracked

\* Everything the supervisor runs goes with it, and so does what it remembers.
Down(ps) ==
  /\ Ticks("down", {}, None)
  /\ tracked' = [c \in Collectors |-> None]
  /\ cooling' = {}
  /\ proc' = [p \in Pids |-> IF ps[p].at \in Live THEN Moved(ps[p], "exited") ELSE ps[p]]

\* The pass is done with row i: the handle becomes h, the deadlines d, the
\* processes ps, and observed_state s.  The write happens when it must or when s
\* is new; on a row deleted since the snapshot it raises ValueError, which ends
\* the tick, the run loop and the supervisor.
Settles(i, s, must, h, d, ps) ==
  IF i.of \notin present /\ (must \/ observed[i.of] # s)
  THEN Down(ps) /\ UNCHANGED observed
  ELSE /\ observed' = [observed EXCEPT ![i.of] = s]
       /\ tracked' = [tracked EXCEPT ![i.of] = h]
       /\ cooling' = d
       /\ proc' = ps
       /\ Ticks("reconcile", sup.todo \ {i}, None)

\* SIGTERM.  Before run_service has installed its handlers it kills; after, it
\* starts a shutdown, unless one is on its way.
OnSigterm(stage) ==
  IF stage \in {"boot", "claiming", "connecting"} THEN "exited"
  ELSE IF stage = "ready" THEN "leaving" ELSE stage

Terminated(p) ==
  [proc EXCEPT ![p] = [of |-> proc[p].of, at |-> OnSigterm(proc[p].at), asked |-> TRUE]]

Child(c) == [of |-> c, at |-> "boot", asked |-> FALSE]

\* A child exited, with whatever code, and the operator wants it running.
Crashed(i) ==
  /\ HasExited(i.of)
  /\ i.desired = "RUNNING"
  /\ Settles(i, "CRASHED", TRUE, None, cooling \cup {i.of}, proc)

\* Mutant of Stops: drops the handle and sends no signal.
StopsSilently(i) ==
  /\ i.desired = "STOPPED"
  /\ Settles(i, "STOPPED", FALSE, None, cooling \ {i.of}, proc)

\* The operator wants it stopped: the handle is dropped as the signal is sent.
Stops(i) ==
  /\ i.desired = "STOPPED"
  /\ Settles(i, "STOPPED", FALSE, None, cooling \ {i.of},
             IF Alive(i.of) THEN Terminated(tracked[i.of]) ELSE proc)

Heartbeat(i) ==
  /\ i.desired = "RUNNING"
  /\ Alive(i.of)
  /\ Settles(i, "RUNNING", TRUE, tracked[i.of], cooling, proc)

Cools(i) ==
  /\ i.desired = "RUNNING"
  /\ tracked[i.of] = None
  /\ i.of \in cooling
  /\ Settles(i, "COOLING", FALSE, None, cooling, proc)

\* Mutant of SpawnReads: takes no claim for stale.
SpawnReadsNothing(i) ==
  /\ i.desired = "RUNNING"
  /\ tracked[i.of] = None
  /\ i.of \notin cooling
  /\ Ticks("exec", sup.todo, i)
  /\ UNCHANGED <<observed, proc, memory>>

\* _spawn reads the identity.
SpawnReads(i) ==
  /\ i.desired = "RUNNING"
  /\ tracked[i.of] = None
  /\ i.of \notin cooling
  /\ Ticks(IF identity[i.of] = "IN_USE" THEN "clear" ELSE "exec", sup.todo, i)
  /\ UNCHANGED <<observed, proc, memory>>

Reconcile ==
  /\ sup.at = "reconcile"
  /\ \E i \in sup.todo : Crashed(i) \/ Stops(i) \/ Heartbeat(i) \/ Cools(i) \/ SpawnReads(i)
  /\ UNCHANGED <<rows, identity, bounds>>

\* An IN_USE it has read is taken for a stale claim.
ClearsClaim ==
  /\ sup.at = "clear"
  /\ identity' = [identity EXCEPT ![sup.item.of] = "AVAILABLE"]
  /\ Ticks("exec", sup.todo, sup.item)
  /\ UNCHANGED <<rows, observed, proc, memory, bounds>>

\* A process number nobody needs any more.
Unused == {p \in Pids : /\ proc[p].at \in {"free", "exited"}
                        /\ \A c \in Collectors : tracked[c] # p}

\* Mutant of Spawns: keeps no handle on the child.
SpawnsAndForgets ==
  /\ sup.at = "exec"
  /\ \E p \in Unused :
       Settles(sup.item, "RUNNING", FALSE, None, cooling,
               [proc EXCEPT ![p] = Child(sup.item.of)])
  /\ UNCHANGED <<rows, identity, bounds>>

Spawns ==
  /\ sup.at = "exec"
  /\ \E p \in Unused :
       Settles(sup.item, "RUNNING", FALSE, p, cooling,
               [proc EXCEPT ![p] = Child(sup.item.of)])
  /\ UNCHANGED <<rows, identity, bounds>>

\* The system refuses the process.
SpawnFails ==
  /\ sup.at = "exec"
  /\ Faulty
  /\ Settles(sup.item, "CRASHED", TRUE, None, cooling \cup {sup.item.of}, proc)
  /\ UNCHANGED <<rows, identity, commands>>

\* The rows are done; the rest of the tick follows.
PassEnds ==
  /\ sup.at = "reconcile"
  /\ sup.todo = {}
  /\ Ticks("dispatch", {}, None)
  /\ UNCHANGED <<rows, observed, identity, proc, memory, bounds>>

\* dispatch_approved leases an AVAILABLE scout for a discovery candidate ...
LeasesScout(c) ==
  /\ sup.at = "dispatch"
  /\ identity[c] = "AVAILABLE"
  /\ Commanded
  /\ identity' = [identity EXCEPT ![c] = "IN_USE"]
  /\ Ticks("publish", {}, c)
  /\ UNCHANGED <<rows, observed, proc, memory, faults>>

\* ... and publishes the join on that scout's command channel.
Publishes ==
  /\ sup.at = "publish"
  /\ Ticks("dispatch", {}, None)
  /\ UNCHANGED <<rows, observed, identity, proc, memory, bounds>>

TickEnds ==
  /\ sup.at = "dispatch"
  /\ sup' = Idle
  /\ UNCHANGED <<rows, observed, identity, proc, memory, bounds>>

\* systemd starts it again once the control group is empty.
Restarts ==
  /\ sup.at = "down"
  /\ sup' = Idle
  /\ UNCHANGED <<rows, observed, identity, proc, memory, bounds>>

SupervisorStep ==
  \/ Snapshot \/ Reconcile \/ ClearsClaim \/ Spawns \/ PassEnds
  \/ Publishes \/ TickEnds \/ Restarts

SupervisorCrashes ==
  /\ sup.at # "down"
  /\ Faulty
  /\ Down(proc)
  /\ UNCHANGED <<rows, observed, identity, commands>>

\* The clock passes a deadline.
CooldownElapses(c) ==
  /\ c \in cooling
  /\ cooling' = cooling \ {c}
  /\ UNCHANGED <<rows, observed, identity, proc, tracked, sup, bounds>>

-----------------------------------------------------------------------------
(* Specification. *)

Next ==
  \/ Operator
  \/ \E p \in Pids : ProcessStep(p) \/ Banned(p) \/ Dies(p)
  \/ SupervisorStep \/ SpawnFails \/ SupervisorCrashes
  \/ \E c \in Collectors : LeasesScout(c) \/ CooldownElapses(c)

Spec == Init /\ [][Next]_vars

\* The supervisor's loop ticks, a process that can go on does, and clocks run.
\* Operators, faults and leases owe nothing.
Fairness ==
  /\ WF_vars(SupervisorStep)
  /\ \A p \in Pids : WF_vars(ProcessStep(p))
  /\ \A c \in Collectors : WF_vars(CooldownElapses(c))

LiveSpec == Spec /\ Fairness

-----------------------------------------------------------------------------
(* Properties. *)

SnapshotRow == [of : Collectors, desired : {"RUNNING", "STOPPED"}]

\* The values of the variables; the supervisor's handles are on processes of
\* the collector they are filed under, and a supervisor that is down has none.
TypeOK ==
  /\ present \subseteq Collectors
  /\ desired \in [Collectors -> {"RUNNING", "STOPPED"}]
  /\ observed \in [Collectors -> {"STOPPED", "RUNNING", "COOLING", "CRASHED"}]
  /\ deleting \subseteq present
  /\ identity \in [Collectors -> {"AVAILABLE", "IN_USE", "FROZEN", "BURNED"}]
  /\ proc \in [Pids -> [of : Collectors \cup {None}, at : Stages, asked : BOOLEAN]]
  /\ tracked \in [Collectors -> Pids \cup {None}]
  /\ cooling \subseteq Collectors
  /\ sup.at \in {"idle", "reconcile", "clear", "exec", "dispatch", "publish", "down"}
  /\ sup.todo \subseteq SnapshotRow
  /\ sup.item \in SnapshotRow \cup Collectors \cup {None}
  /\ commands \in 0 .. MaxCommands
  /\ faults \in 0 .. MaxFaults
  /\ \A c \in Collectors : tracked[c] # None => proc[tracked[c]].of = c /\ sup.at # "down"

\* A collector has at most one child that has not been asked to stop, whatever
\* the supervisor forgot, reaped or restarted (the single handle of _procs).
OneServingChild ==
  \A c \in Collectors : \A p, q \in Serving(c) : p = q

\* observed_state STOPPED, which lets an operator delete the row, means that no
\* child is left that was not told to stop.
StoppedMeansAsked ==
  \A c \in present : observed[c] = "STOPPED" => Serving(c) = {}

\* A collector that should run, and whose account is not withdrawn, gets a child
\* that serves: neither a crash, a claim its last child left behind nor a lease
\* keeps it down for good.
StartsEventually ==
  \A c \in Collectors :
    (c \in present /\ desired[c] = "RUNNING" /\ ~Withdrawn(c))
      ~> \/ \E p \in Pids : proc[p].of = c /\ proc[p].at = "ready"
         \/ c \notin present \/ desired[c] = "STOPPED" \/ Withdrawn(c)

\* A collector that should not run ends up with no process, one the supervisor
\* has no handle on any more included.
StopsEventually ==
  \A c \in Collectors :
    (c \in present /\ desired[c] = "STOPPED")
      ~> (LiveOf(c) = {} \/ c \notin present \/ desired[c] = "RUNNING")

-----------------------------------------------------------------------------
(* What documents say and the model refutes; the README tells how.          *)

\* A process that shuts down leaves a withdrawn account withdrawn
\* (PLAN.md: panic "rotates pool state to frozen"; burn_identity: "the identity
\* never re-enters rotation").
WithdrawnStaysWithdrawn ==
  [][\A c \in Collectors :
       Withdrawn(c) /\ UNCHANGED <<commands, sup>> => identity'[c] # "AVAILABLE"]_vars

\* No account is ever logged in twice (API_PLAN.md, identity leasing).
OneSessionPerAccount ==
  \A c \in Collectors : Cardinality({p \in Pids : proc[p].of = c /\ proc[p].at \in LoggedIn}) <= 1

\* A join published for a leased scout reaches the process that runs
\* that identity (_publish_join_command).
ScoutListens ==
  sup.at = "publish" => \E p \in Pids : proc[p].of = sup.item /\ proc[p].at = "ready"
=============================================================================
