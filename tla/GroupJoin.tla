------------------------------ MODULE GroupJoin ------------------------------
(***************************************************************************)
(* How a discovered group becomes a monitored one.                         *)
(*                                                                         *)
(* Four kinds of actor share the candidate table with nothing but the      *)
(* table to coordinate them: API requests (operators and the scorer), the  *)
(* supervisor's tick, and up to three coroutines of each collector process *)
(* (the command handler, the message handler and the periodic probe).      *)
(*                                                                         *)
(* The grain of atomicity is the one of the code.  transition_candidate    *)
(* reads a row, tests it against _ALLOWED and updates it by id: a read and *)
(* a blind write, two steps here.  claim_candidate_transition is one       *)
(* conditional UPDATE: one step.  open_membership is a SELECT followed by  *)
(* an INSERT with no unique index behind it: two steps.                    *)
(*                                                                         *)
(* Audit rows and log lines are left out.  So is a forum category, which   *)
(* nobody joins: groups_join opens its membership itself.                  *)
(***************************************************************************)
EXTENDS Naturals, Sequences, FiniteSets

CONSTANTS
  Candidates,      \* candidate rows
  Collectors,      \* collector rows, each with a process of its own
  Groups,          \* group rows
  Requests,        \* API requests that may be in flight together
  Invites,         \* candidates whose platform_groupid is "joinchat:<hash>"
  NamedRow,        \* the group row keyed by a candidate's own platform_groupid
  RealRow,         \* the group row keyed by the id the platform resolves it to
  TickInterval,    \* what run_service is given for a collector; 0 is no tick at all,
                   \* which is what the command passes for Telegram (cli/main.py:320)
  PendingLimit,    \* commands a subscription buffers before it drops
  MaxRequests,     \* bound: API requests over a behaviour
  MaxFaults,       \* bound: crashes and database errors over a behaviour
  None             \* no collector, no group

ASSUME JoinConstants ==
  /\ Invites \subseteq Candidates
  /\ NamedRow \in [Candidates -> Groups]
  /\ RealRow \in [Candidates -> Groups]
  /\ TickInterval \in Nat
  /\ PendingLimit \in Nat
  /\ MaxRequests \in Nat
  /\ MaxFaults \in Nat
  /\ None \notin Collectors
  /\ None \notin Groups

VARIABLES
  state,       \* group_candidate.state
  assigned,    \* group_candidate.assigned_collector_id
  result,      \* group_candidate.resulting_group_id
  mentioned,   \* the candidate has a mention row (discovery lineage)
  active,      \* memberships with left_at IS NULL, per collector and group
  platform,    \* what the platform says of each account and group
  life,        \* collector processes
  queue,       \* each process's command subscription
  forms,       \* each process's _requested_match_forms
  work,        \* each process's coroutines
  sup,         \* the supervisor's tick
  req,         \* API requests in flight
  requests,    \* API requests so far
  faults,      \* crashes and database errors so far
  orphaned,    \* history: candidates a crash or a half-failed leave left without
               \* the membership their state speaks of
  overruled    \* history: candidates written blindly while a claim was settling

table   == <<state, assigned, result>>
process == <<life, queue, forms, work>>
history == <<orphaned, overruled>>
bounds  == <<requests, faults, history>>
vars == <<state, assigned, result, mentioned, active, platform,
          life, queue, forms, work, sup, req, requests, faults, orphaned, overruled>>

-----------------------------------------------------------------------------
(* The candidate state machine. *)

CandidateState ==
  {"DISCOVERED", "QUEUED", "APPROVED", "JOINING", "JOINED", "REQUESTED",
   "FAILED", "REJECTED", "PARKED"}

Allowed ==
  [s \in CandidateState |->
     CASE s = "DISCOVERED" -> {"QUEUED", "REJECTED"}
       [] s = "QUEUED"     -> {"APPROVED", "REJECTED"}
       [] s = "APPROVED"   -> {"JOINING", "REJECTED"}
       [] s = "JOINING"    -> {"JOINED", "FAILED", "REQUESTED"}
       [] s = "JOINED"     -> {"PARKED"}
       [] s = "REQUESTED"  -> {"JOINED", "FAILED", "PARKED"}
       [] s = "FAILED"     -> {"PARKED", "QUEUED"}
       [] s = "REJECTED"   -> {"PARKED"}
       [] s = "PARKED"     -> {"APPROVED"}]

MayBecome(c, to) == to \in Allowed[state[c]]

-----------------------------------------------------------------------------
(* Local state of the actors. *)

Coroutines == {"command", "message", "probe"}

\* Where a coroutine of a collector is: waiting for the platform's answer to a
\* join; about to write a transition it has checked; about to claim JOINED;
\* about to look for a duplicate, to insert, or to undo its claim.
Places == {"idle", "asked", "check", "write", "claim", "open", "insert", "undo"}

\* The claim has been won and neither its membership is open nor is it undone.
Settling == {"open", "insert", "undo"}

NoWork == [at |-> "idle", cand |-> None, edge |-> "JOINED", row |-> None]
NoItem == [cand |-> None, from |-> "APPROVED", to |-> None]

\* A request that walks a candidate along the edges of plan.
Walk(at, c, plan, k) == [at |-> at, cand |-> c, plan |-> plan, collector |-> k,
                         row |-> None, left |-> {}, closed |-> FALSE]
NoRequest == Walk("idle", None, << >>, None)

JoinCommand(c)  == [kind |-> "join", of |-> c]
LeaveCommand(g) == [kind |-> "leave", of |-> g]
Commands == {JoinCommand(c) : c \in Candidates} \cup {LeaveCommand(g) : g \in Groups}

\* The move of one coroutine.
Moves(k, w, me) == work' = [work EXCEPT ![k][w] = me]

\* It goes to another place, with what it carries.
GoesTo(k, w, place) == Moves(k, w, [at |-> place, cand |-> work[k][w].cand,
                                    edge |-> work[k][w].edge, row |-> work[k][w].row])

IsSettling(k, w, c) == work[k][w].at \in Settling /\ work[k][w].cand = c

\* The history of blind writes that land inside a settlement.
Overrule(c) ==
  overruled \cup {d \in {c} : \E k \in Collectors, w \in Coroutines : IsSettling(k, w, d)}

\* bus.publish on a command channel: core NATS, so a command reaches a process
\* that has subscribed and has room, and is gone otherwise.
Delivered(q, k, cmd) ==
  IF life[k] = "ready" /\ Len(q[k]) < PendingLimit
  THEN [q EXCEPT ![k] = Append(@, cmd)]
  ELSE q

\* The forms an arriving message can match: an invite's hash never shows.
RequestedForms(k) ==
  {c \in Candidates \ Invites : state[c] = "REQUESTED" /\ assigned[c] = k}

\* Nothing runs yet.  The table is new, or holds what the scorer or an operator
\* decided before the last restart.
Init ==
  /\ state \in [Candidates -> {"DISCOVERED", "APPROVED"}]
  /\ assigned \in [Candidates -> Collectors \cup {None}]
  /\ \A c \in Candidates : (assigned[c] # None) = (state[c] = "APPROVED")
  /\ result = [c \in Candidates |-> None]
  /\ mentioned \in [Candidates -> BOOLEAN]
  /\ active = [k \in Collectors |-> [g \in Groups |-> 0]]
  /\ platform = [k \in Collectors |-> [g \in Groups |-> "out"]]
  /\ life = [k \in Collectors |-> "down"]
  /\ queue = [k \in Collectors |-> << >>]
  /\ forms = [k \in Collectors |-> {}]
  /\ work = [k \in Collectors |-> [w \in Coroutines |-> NoWork]]
  /\ sup = [at |-> "idle", todo |-> {}, item |-> NoItem]
  /\ req = [r \in Requests |-> NoRequest]
  /\ requests = 0
  /\ faults = 0
  /\ orphaned = {}
  /\ overruled = {}

-----------------------------------------------------------------------------
(* API requests: approve, reject, park and retry, the scorer's auto-queue,   *)
(* and the two that walk several edges, groups_join and groups_leave.        *)

\* One decision.  The read of transition_candidate happens here: a 409 changes
\* nothing, and otherwise the write is still to come.
Decide(r, c, to, k) ==
  /\ req[r].at = "idle"
  /\ requests < MaxRequests
  /\ to \in {"QUEUED", "APPROVED", "REJECTED", "PARKED"}
  /\ (to = "APPROVED") = (k # None)
  /\ MayBecome(c, to)
  /\ req' = [req EXCEPT ![r] = Walk("write", c, <<to>>, k)]
  /\ requests' = requests + 1
  /\ UNCHANGED <<table, mentioned, active, platform, process, sup, faults, history>>

JoinableFrom == {"DISCOVERED", "QUEUED", "PARKED"}

\* groups_join reads the row once and walks it to APPROVED.
StartJoin(r, c, k) ==
  /\ req[r].at = "idle"
  /\ requests < MaxRequests
  /\ state[c] \in JoinableFrom
  /\ req' = [req EXCEPT ![r] =
               Walk("check", c, IF state[c] = "DISCOVERED" THEN <<"QUEUED", "APPROVED">>
                                                           ELSE <<"APPROVED">>, k)]
  /\ requests' = requests + 1
  /\ UNCHANGED <<table, mentioned, active, platform, process, sup, faults, history>>

\* groups_leave reads the row, then lists the group's active memberships.
StartLeave(r, c) ==
  /\ req[r].at = "idle"
  /\ requests < MaxRequests
  /\ state[c] = "JOINED"
  /\ result[c] # None
  /\ req' = [req EXCEPT ![r] =
               [at |-> "close", cand |-> c, plan |-> <<"PARKED">>, collector |-> None,
                row |-> result[c], closed |-> FALSE,
                left |-> {k \in Collectors : active[k][result[c]] > 0}]]
  /\ requests' = requests + 1
  /\ UNCHANGED <<table, mentioned, active, platform, process, sup, faults, history>>

\* One more row of the list is closed.
Closed(r, k) == [at |-> "close", cand |-> req[r].cand, plan |-> req[r].plan,
                 collector |-> None, row |-> req[r].row,
                 left |-> req[r].left \ {k}, closed |-> TRUE]

\* Mutant of CloseOne: takes a row off without asking whether it is there.
CloseOneBlindly(r, k) ==
  LET g == req[r].row IN
  /\ req[r].at = "close"
  /\ k \in req[r].left
  /\ active' = [active EXCEPT ![k][g] = @ - 1]
  /\ queue' = Delivered(queue, k, LeaveCommand(g))
  /\ req' = [req EXCEPT ![r] = Closed(r, k)]
  /\ UNCHANGED <<table, mentioned, platform, life, forms, work, sup, bounds>>

\* close_membership raises when the row it looks for is gone, or is not alone;
\* the request then fails, and the rows it has closed so far stay closed.  (The
\* code goes through the rows by joined_at; any order is allowed here.)
CloseOne(r, k) ==
  LET g == req[r].row IN
  /\ req[r].at = "close"
  /\ k \in req[r].left
  /\ IF active[k][g] = 1
     THEN /\ active' = [active EXCEPT ![k][g] = @ - 1]
          /\ queue' = Delivered(queue, k, LeaveCommand(g))
          /\ req' = [req EXCEPT ![r] = Closed(r, k)]
          /\ UNCHANGED orphaned
     ELSE /\ req' = [req EXCEPT ![r] = NoRequest]
          /\ orphaned' = orphaned \cup {c \in {req[r].cand} : req[r].closed}
          /\ UNCHANGED <<active, queue>>
  /\ UNCHANGED <<table, mentioned, platform, life, forms, work, sup,
                 requests, faults, overruled>>

\* The decision of a request has passed its check; the write is to come.
Writing(q) == [at |-> "write", cand |-> q.cand, plan |-> q.plan, collector |-> q.collector,
               row |-> q.row, left |-> q.left, closed |-> q.closed]

\* The read of the next transition of a walk.
RequestReads(r) ==
  /\ \/ req[r].at = "check"
     \/ req[r].at = "close" /\ req[r].left = {}
  /\ req' = [req EXCEPT ![r] = IF MayBecome(req[r].cand, Head(req[r].plan))
                               THEN Writing(req[r])
                               ELSE NoRequest]
  /\ UNCHANGED <<table, mentioned, active, platform, process, sup, bounds>>

\* The write of a transition: by id, whatever the row holds by now.
RequestWrites(r) ==
  /\ req[r].at = "write"
  /\ state' = [state EXCEPT ![req[r].cand] = Head(req[r].plan)]
  /\ assigned' = IF Head(req[r].plan) = "APPROVED"
                 THEN [assigned EXCEPT ![req[r].cand] = req[r].collector]
                 ELSE assigned
  /\ req' = [req EXCEPT ![r] = IF Len(req[r].plan) = 1
                               THEN NoRequest
                               ELSE Walk("check", req[r].cand, Tail(req[r].plan), req[r].collector)]
  /\ overruled' = Overrule(req[r].cand)
  /\ UNCHANGED <<result, mentioned, active, platform, process, sup,
                 requests, faults, orphaned>>

\* A message somewhere names the group: record_candidate_mention.
Mention(c) ==
  /\ ~mentioned[c]
  /\ mentioned' = [mentioned EXCEPT ![c] = TRUE]
  /\ UNCHANGED <<table, active, platform, process, sup, req, bounds>>

-----------------------------------------------------------------------------
(* The supervisor: dispatch_approved. *)

\* The tick goes on at another place, with what is left to do and the item at hand.
Ticks(at, todo, i) == sup' = [at |-> at, todo |-> todo, item |-> i]

\* Both lists are read before anything is dispatched.
Snapshot ==
  /\ sup.at = "idle"
  /\ Ticks("scan",
           {[cand |-> c, from |-> state[c], to |-> assigned[c]] :
              c \in {d \in Candidates : state[d] \in {"APPROVED", "JOINING"}}},
           NoItem)
  /\ UNCHANGED <<table, mentioned, active, platform, process, req, bounds>>

\* The approved list goes first.
DispatchFirst ==
  {i \in sup.todo : i.from = "APPROVED" \/ \A j \in sup.todo : j.from = "JOINING"}

Skip(i) == Ticks("scan", sup.todo \ {i}, NoItem)

\* Mutant of DispatchOperator: dispatches once, and never again.
DispatchOperatorOnce(i) ==
  /\ ~mentioned[i.cand]
  /\ IF i.to = None \/ life[i.to] = "down" \/ i.from = "JOINING"
     THEN Skip(i)
     ELSE Ticks("check", sup.todo \ {i}, i)

\* An operator's candidate goes to the collector chosen, if it is alive; one
\* that was JOINING already is published again.
DispatchOperator(i) ==
  /\ ~mentioned[i.cand]
  /\ IF i.to = None \/ life[i.to] = "down"
     THEN Skip(i)
     ELSE Ticks(IF i.from = "APPROVED" THEN "check" ELSE "publish", sup.todo \ {i}, i)

\* A discovered candidate goes, once, to whatever process runs the scout that
\* lease_scout picks: any process, or none.  The eligibility gate may say no.
DispatchDiscovered(i) ==
  /\ mentioned[i.cand]
  /\ \/ Skip(i)
     \/ /\ i.from = "APPROVED"
        /\ i.to # None
        /\ \E k \in Collectors \cup {None} :
             Ticks("check", sup.todo \ {i}, [cand |-> i.cand, from |-> i.from, to |-> k])

Dispatch ==
  /\ sup.at = "scan"
  /\ \E i \in DispatchFirst : DispatchOperator(i) \/ DispatchDiscovered(i)
  /\ UNCHANGED <<table, mentioned, active, platform, process, req, bounds>>

\* transition_candidate reads.  A ValueError here ends the tick, the run loop
\* and the process.
SupervisorReads ==
  /\ sup.at = "check"
  /\ IF MayBecome(sup.item.cand, "JOINING")
     THEN Ticks("write", sup.todo, sup.item)
     ELSE Ticks("down", {}, NoItem)
  /\ UNCHANGED <<table, mentioned, active, platform, process, req, bounds>>

SupervisorWrites ==
  /\ sup.at = "write"
  /\ state' = [state EXCEPT ![sup.item.cand] = "JOINING"]
  /\ Ticks("publish", sup.todo, sup.item)
  /\ overruled' = Overrule(sup.item.cand)
  /\ UNCHANGED <<assigned, result, mentioned, active, platform, process, req,
                 requests, faults, orphaned>>

Publish ==
  /\ sup.at = "publish"
  /\ queue' = IF sup.item.to = None THEN queue
              ELSE Delivered(queue, sup.item.to, JoinCommand(sup.item.cand))
  /\ Ticks("scan", sup.todo, NoItem)
  /\ UNCHANGED <<table, mentioned, active, platform, life, forms, work, req, bounds>>

TickEnds ==
  /\ sup.at = "scan"
  /\ sup.todo = {}
  /\ Ticks("idle", {}, NoItem)
  /\ UNCHANGED <<table, mentioned, active, platform, process, req, bounds>>

SupervisorCrashes ==
  /\ sup.at \in {"check", "write", "publish"}
  /\ faults < MaxFaults
  /\ Ticks("down", {}, NoItem)
  /\ faults' = faults + 1
  /\ UNCHANGED <<table, mentioned, active, platform, process, req, requests, history>>

SupervisorRestarts ==
  /\ sup.at = "down"
  /\ Ticks("idle", {}, NoItem)
  /\ UNCHANGED <<table, mentioned, active, platform, process, req, bounds>>

-----------------------------------------------------------------------------
(* A collector process: its life. *)

Spawned(k) ==
  /\ life[k] = "down"
  /\ life' = [life EXCEPT ![k] = "booting"]
  /\ UNCHANGED <<table, mentioned, active, platform, queue, forms, work, sup, req, bounds>>

\* The end of on_subscribe: subscribed, with the forms of its requests loaded.
Subscribed(k) ==
  /\ life[k] = "booting"
  /\ life' = [life EXCEPT ![k] = "ready"]
  /\ forms' = [forms EXCEPT ![k] = RequestedForms(k)]
  /\ UNCHANGED <<table, mentioned, active, platform, queue, work, sup, req, bounds>>

\* Everything in memory is lost, in whatever place each coroutine was.
CollectorCrashes(k) ==
  /\ life[k] # "down"
  /\ faults < MaxFaults
  /\ life' = [life EXCEPT ![k] = "down"]
  /\ queue' = [queue EXCEPT ![k] = << >>]
  /\ forms' = [forms EXCEPT ![k] = {}]
  /\ work' = [work EXCEPT ![k] = [w \in Coroutines |-> NoWork]]
  /\ faults' = faults + 1
  /\ orphaned' = orphaned \cup {c \in Candidates : state[c] = "JOINED"
                                  /\ \E w \in Coroutines : IsSettling(k, w, c)}
  /\ UNCHANGED <<table, mentioned, active, platform, sup, req, requests, overruled>>

-----------------------------------------------------------------------------
(* A collector process: the command handler, one command at a time.          *)

HandleJoin(k) ==
  /\ life[k] = "ready"
  /\ work[k]["command"].at = "idle"
  /\ queue[k] # << >>
  /\ Head(queue[k]).kind = "join"
  /\ queue' = [queue EXCEPT ![k] = Tail(@)]
  /\ Moves(k, "command", [at |-> "asked", cand |-> Head(queue[k]).of,
                          edge |-> "JOINED", row |-> None])
  /\ UNCHANGED <<table, mentioned, active, platform, life, forms, sup, req, bounds>>

\* The join call succeeds.  Importing an invite one is already a member by is
\* an error; joining a public channel twice is not.
JoinAccepted(k) ==
  LET c == work[k]["command"].cand IN
  /\ work[k]["command"].at = "asked"
  /\ c \in Invites => platform[k][RealRow[c]] # "in"
  /\ platform' = [platform EXCEPT ![k][RealRow[c]] = "in"]
  /\ Moves(k, "command", [at |-> "claim", cand |-> c, edge |-> "JOINING",
                          row |-> NamedRow[c]])
  /\ UNCHANGED <<table, mentioned, active, life, queue, forms, sup, req, bounds>>

\* InviteRequestSentError: an administrator of the group has to approve.
JoinPending(k) ==
  LET c == work[k]["command"].cand IN
  /\ work[k]["command"].at = "asked"
  /\ platform[k][RealRow[c]] # "in"
  /\ platform' = [platform EXCEPT ![k][RealRow[c]] = "pending"]
  /\ Moves(k, "command", [at |-> "check", cand |-> work[k]["command"].cand,
                          edge |-> "REQUESTED", row |-> None])
  /\ UNCHANGED <<table, mentioned, active, life, queue, forms, sup, req, bounds>>

\* Any other error, a dead artifact or a ban: the candidate fails.
JoinRefused(k) ==
  /\ work[k]["command"].at = "asked"
  /\ Moves(k, "command", [at |-> "check", cand |-> work[k]["command"].cand,
                          edge |-> "FAILED", row |-> None])
  /\ UNCHANGED <<table, mentioned, active, platform, life, queue, forms, sup, req, bounds>>

\* transition_candidate reads; _on_command swallows its ValueError.
CommandReads(k) ==
  LET w == work[k]["command"] IN
  /\ w.at = "check"
  /\ IF MayBecome(w.cand, w.edge)
     THEN GoesTo(k, "command", "write")
     ELSE Moves(k, "command", NoWork)
  /\ UNCHANGED <<table, mentioned, active, platform, life, queue, forms, sup, req, bounds>>

CommandWrites(k) ==
  LET w == work[k]["command"] IN
  /\ w.at = "write"
  /\ state' = [state EXCEPT ![w.cand] = w.edge]
  /\ forms' = IF w.edge = "REQUESTED" /\ w.cand \notin Invites
              THEN [forms EXCEPT ![k] = @ \cup {w.cand}]
              ELSE forms
  /\ Moves(k, "command", NoWork)
  /\ overruled' = Overrule(w.cand)
  /\ UNCHANGED <<assigned, result, mentioned, active, platform, life, queue, sup, req,
                 requests, faults, orphaned>>

\* Best effort: the dialog may be gone, or not be found.
HandleLeave(k) ==
  /\ life[k] = "ready"
  /\ work[k]["command"].at = "idle"
  /\ queue[k] # << >>
  /\ Head(queue[k]).kind = "leave"
  /\ queue' = [queue EXCEPT ![k] = Tail(@)]
  /\ \/ platform' = [platform EXCEPT ![k][Head(queue[k]).of] = "out"]
     \/ UNCHANGED platform
  /\ UNCHANGED <<table, mentioned, active, life, forms, work, sup, req, bounds>>

-----------------------------------------------------------------------------
(* A collector process: the two detectors of an approved request.            *)

\* A message arrives from a group that was asked for.
MessageArrives(k, c) ==
  /\ life[k] = "ready"
  /\ work[k]["message"].at = "idle"
  /\ platform[k][RealRow[c]] = "in"
  /\ c \in forms[k]
  /\ state[c] = "REQUESTED"
  /\ assigned[c] = k
  /\ Moves(k, "message", [at |-> "claim", cand |-> c, edge |-> "REQUESTED",
                          row |-> NamedRow[c]])
  /\ UNCHANGED <<table, mentioned, active, platform, life, queue, forms, sup, req, bounds>>

\* run_service calls tick only when it was given an interval.
RefreshForms(k) ==
  /\ TickInterval > 0
  /\ life[k] = "ready"
  /\ work[k]["probe"].at = "idle"
  /\ forms' = [forms EXCEPT ![k] = RequestedForms(k)]
  /\ UNCHANGED <<table, mentioned, active, platform, life, queue, work, sup, req, bounds>>

\* The sweep asks the platform about one request.  An invite is resolved to the
\* row of the real group.
ProbeConfirms(k, c) ==
  /\ TickInterval > 0
  /\ life[k] = "ready"
  /\ work[k]["probe"].at = "idle"
  /\ state[c] = "REQUESTED"
  /\ assigned[c] = k
  /\ platform[k][RealRow[c]] = "in"
  /\ Moves(k, "probe", [at |-> "claim", cand |-> c, edge |-> "REQUESTED",
                        row |-> IF c \in Invites THEN RealRow[c] ELSE NamedRow[c]])
  /\ UNCHANGED <<table, mentioned, active, platform, life, queue, forms, sup, req, bounds>>

-----------------------------------------------------------------------------
(* A collector process: _open_joined_membership, which all three share.      *)

\* Mutant of Claim: an UPDATE without the WHERE state = :from.
ClaimBlindly(k, w) ==
  LET me == work[k][w] IN
  /\ me.at = "claim"
  /\ state' = [state EXCEPT ![me.cand] = "JOINED"]
  /\ result' = [result EXCEPT ![me.cand] = me.row]
  /\ GoesTo(k, w, "open")
  /\ UNCHANGED <<assigned, mentioned, active, platform, life, queue, forms, sup, req, bounds>>

\* claim_candidate_transition: the winner goes on to open the membership.
Claim(k, w) ==
  LET me == work[k][w] IN
  /\ me.at = "claim"
  /\ IF state[me.cand] = me.edge
     THEN /\ state' = [state EXCEPT ![me.cand] = "JOINED"]
          /\ result' = [result EXCEPT ![me.cand] = me.row]
          /\ GoesTo(k, w, "open")
     ELSE /\ Moves(k, w, NoWork)
          /\ UNCHANGED <<state, result>>
  /\ UNCHANGED <<assigned, mentioned, active, platform, life, queue, forms, sup, req, bounds>>

\* Mutant of LooksForDuplicate: trusts the claim and never looks.
NeverLooks(k, w) ==
  /\ work[k][w].at = "open"
  /\ GoesTo(k, w, "insert")
  /\ UNCHANGED <<table, mentioned, active, platform, life, queue, forms, sup, req, bounds>>

\* open_membership looks for an active row.  It is the running collector's row:
\* both detectors only confirm requests assigned to it.
LooksForDuplicate(k, w) ==
  /\ work[k][w].at = "open"
  /\ GoesTo(k, w, IF active[k][work[k][w].row] = 0 THEN "insert" ELSE "undo")
  /\ UNCHANGED <<table, mentioned, active, platform, life, queue, forms, sup, req, bounds>>

Confirmed(k, w) ==
  IF w = "command" THEN forms ELSE [forms EXCEPT ![k] = @ \ {work[k][w].cand}]

Inserts(k, w) ==
  /\ work[k][w].at = "insert"
  /\ active' = [active EXCEPT ![k][work[k][w].row] = @ + 1]
  /\ forms' = Confirmed(k, w)
  /\ Moves(k, w, NoWork)
  /\ UNCHANGED <<table, mentioned, platform, life, queue, sup, req, bounds>>

\* "database is locked", an integrity error: open_membership raises.
OpenFails(k, w) ==
  /\ work[k][w].at \in {"open", "insert"}
  /\ faults < MaxFaults
  /\ GoesTo(k, w, "undo")
  /\ faults' = faults + 1
  /\ UNCHANGED <<table, mentioned, active, platform, life, queue, forms, sup, req, requests, history>>

\* Mutant of Undo: re-raises without the compensation.
UndoNothing(k, w) ==
  /\ work[k][w].at = "undo"
  /\ Moves(k, w, NoWork)
  /\ UNCHANGED <<table, mentioned, active, platform, life, queue, forms, sup, req, bounds>>

\* The compensation, a conditional UPDATE again; resulting_group_id stays.
Undo(k, w) ==
  LET me == work[k][w] IN
  /\ me.at = "undo"
  /\ state' = IF state[me.cand] = "JOINED"
              THEN [state EXCEPT ![me.cand] = me.edge]
              ELSE state
  /\ Moves(k, w, NoWork)
  /\ UNCHANGED <<assigned, result, mentioned, active, platform, life, queue, forms,
                 sup, req, bounds>>

-----------------------------------------------------------------------------
(* The platform. *)

AdminApproves(k, g) ==
  /\ platform[k][g] = "pending"
  /\ platform' = [platform EXCEPT ![k][g] = "in"]
  /\ UNCHANGED <<table, mentioned, active, process, sup, req, bounds>>

AdminExpels(k, g) ==
  /\ platform[k][g] # "out"
  /\ platform' = [platform EXCEPT ![k][g] = "out"]
  /\ UNCHANGED <<table, mentioned, active, process, sup, req, bounds>>

-----------------------------------------------------------------------------
Request(r) ==
  \/ \E c \in Candidates, to \in CandidateState, k \in Collectors \cup {None} :
       Decide(r, c, to, k)
  \/ \E c \in Candidates, k \in Collectors : StartJoin(r, c, k)
  \/ \E c \in Candidates : StartLeave(r, c)
  \/ \E k \in Collectors : CloseOne(r, k)
  \/ RequestReads(r)
  \/ RequestWrites(r)

Tick ==
  \/ Snapshot \/ Dispatch \/ SupervisorReads \/ SupervisorWrites
  \/ Publish \/ TickEnds \/ SupervisorRestarts

Boot(k) == Spawned(k) \/ Subscribed(k)

Command(k) ==
  \/ HandleJoin(k) \/ JoinAccepted(k) \/ JoinPending(k) \/ JoinRefused(k)
  \/ CommandReads(k) \/ CommandWrites(k) \/ HandleLeave(k)

Settle(k, w) == Claim(k, w) \/ LooksForDuplicate(k, w) \/ Inserts(k, w) \/ Undo(k, w)

Detect(k, c) == MessageArrives(k, c) \/ ProbeConfirms(k, c)

Fault ==
  \/ SupervisorCrashes
  \/ \E k \in Collectors : CollectorCrashes(k) \/ \E w \in Coroutines : OpenFails(k, w)

Platform == \E k \in Collectors, g \in Groups : AdminApproves(k, g) \/ AdminExpels(k, g)

Next ==
  \/ \E r \in Requests : Request(r)
  \/ \E c \in Candidates : Mention(c)
  \/ Tick
  \/ \E k \in Collectors :
       \/ Boot(k) \/ Command(k) \/ RefreshForms(k)
       \/ \E w \in Coroutines : Settle(k, w)
       \/ \E c \in Candidates : Detect(k, c)
  \/ Fault
  \/ Platform

Spec == Init /\ [][Next]_vars

\* What a process does one after the other: it boots, takes a command, settles the
\* join it made.  The other two coroutines settle beside it.
CommandTask(k) == Boot(k) \/ Command(k) \/ Settle(k, "command")

\* What can take a step takes one: the event loop runs its coroutines, the
\* unit files restart what dies, and a join call returns.  Requests, mentions,
\* faults, messages and the platform's administrators owe nothing.  Nor does the
\* probe: run_service calls tick only when it is given an interval, and the command
\* gives the Telegram collector none.
Fairness ==
  /\ WF_vars(Tick)
  /\ \A k \in Collectors :
       /\ WF_vars(CommandTask(k))
       /\ \A w \in Coroutines \ {"command"} : WF_vars(Settle(k, w))

LiveSpec == Spec /\ Fairness
-----------------------------------------------------------------------------
(* What must hold. *)

Work == [at : Places, cand : Candidates \cup {None},
         edge : CandidateState, row : Groups \cup {None}]
Item == [cand : Candidates \cup {None}, from : CandidateState,
         to : Collectors \cup {None}]
Supervisor == [at : {"idle", "scan", "check", "write", "publish", "down"},
               todo : SUBSET Item, item : Item]
ApiRequest == [at : {"idle", "close", "check", "write"},
               cand : Candidates \cup {None}, plan : Seq(CandidateState),
               collector : Collectors \cup {None}, row : Groups \cup {None},
               left : SUBSET Collectors, closed : BOOLEAN]

\* Every variable keeps the shape the schema and the handlers give it.
TypeOK ==
  /\ state \in [Candidates -> CandidateState]
  /\ assigned \in [Candidates -> Collectors \cup {None}]
  /\ result \in [Candidates -> Groups \cup {None}]
  /\ mentioned \in [Candidates -> BOOLEAN]
  /\ active \in [Collectors -> [Groups -> Nat]]
  /\ platform \in [Collectors -> [Groups -> {"out", "pending", "in"}]]
  /\ life \in [Collectors -> {"down", "booting", "ready"}]
  /\ queue \in [Collectors -> Seq(Commands)]
  /\ forms \in [Collectors -> SUBSET Candidates]
  /\ work \in [Collectors -> [Coroutines -> Work]]
  /\ sup \in Supervisor
  /\ req \in [Requests -> ApiRequest]
  /\ requests \in Nat
  /\ faults \in Nat
  /\ orphaned \subseteq Candidates
  /\ overruled \subseteq Candidates

SettlingNow(c) == \E k \in Collectors, w \in Coroutines : IsSettling(k, w, c)

\* The rows a candidate's join can open its membership in.
RowsOf(c) == {NamedRow[c], RealRow[c]}

\* A leave request has closed a membership of the candidate and is not finished.
Leaving(c) == \E r \in Requests : req[r].closed /\ req[r].cand = c

Member(c) == \E k \in Collectors, g \in RowsOf(c) : active[k][g] > 0

\* JOINED is never a claim without evidence: the row that says which collector
\* is in the group exists, or its opener is about to write or undo it, or a
\* leave request is taking it down, or the opener's process died in between.
JoinedHasMembership ==
  \A c \in Candidates : state[c] = "JOINED" =>
    \/ Member(c) \/ SettlingNow(c) \/ Leaving(c) \/ c \in orphaned

\* However often a join command is published again, and whichever of the message
\* handler, the probe and the command handler see a join first, one approval
\* opens one membership, unless someone overruled the candidate while it settled.
OneMembershipPerJoin ==
  \A c \in Candidates \ overruled :
    /\ \A k, l \in Collectors, v, w \in Coroutines :
         IsSettling(k, v, c) /\ IsSettling(l, w, c) => k = l /\ v = w
    /\ \A k \in Collectors, g \in RowsOf(c) : active[k][g] <= 1

\* JOINED is entered by the compare-and-swap alone, so only from the two states
\* that say a join was asked for, whatever blind writes race it.
JoinedOnlyByClaim ==
  [][\A c \in Candidates :
       state'[c] = "JOINED" /\ state[c] # "JOINED" => state[c] \in {"JOINING", "REQUESTED"}]_vars

\* Violated.  The guard of transition_candidate as its module describes it: no
\* step of the system takes an illegal edge.  (A claim that is undone is not an edge.)
OnlyLegalEdges ==
  [][\A c \in Candidates :
       \/ state'[c] = state[c]
       \/ state'[c] \in Allowed[state[c]]
       \/ SettlingNow(c) /\ state[c] = "JOINED"]_vars

\* An operator's join is asked again until the collector has an answer, over
\* crashes and dropped commands.
OperatorJoinSettles ==
  \A c \in Candidates :
    state[c] = "JOINING" /\ ~mentioned[c] /\ assigned[c] # None
      /\ active[assigned[c]][NamedRow[c]] = 0
    ~> state[c] # "JOINING" \/ mentioned[c]

\* Violated.  What tick says it is there for: a request the platform's administrator
\* approved is noticed though no message shows it, as none ever does for an invite
\* link.  The Telegram collector runs without ticks, so nothing asks the platform.
ApprovedRequestJoins ==
  \A c \in Candidates, k \in Collectors :
    /\ state[c] = "REQUESTED"
    /\ assigned[c] = k
    /\ platform[k][RealRow[c]] = "in"
    /\ \A g \in RowsOf(c) : active[k][g] = 0
    ~> \/ state[c] # "REQUESTED"
       \/ platform[k][RealRow[c]] # "in"
=============================================================================
