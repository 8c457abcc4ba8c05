--------------------------- MODULE GroupJoinProofs ---------------------------
(***************************************************************************)
(* Proofs about GroupJoin, for any number of candidates, collectors,       *)
(* requests, faults and ticks.                                             *)
(*                                                                         *)
(* TypeOK is not inductive alone: that a row written to result is a group  *)
(* rests on what a coroutine carries while it settles, and so on.  IInv    *)
(* adds what each actor carries at each place, one part per variable or    *)
(* group of variables, and is inductive.  The two membership theorems add  *)
(* their own strengthenings to it.                                         *)
(***************************************************************************)
EXTENDS GroupJoin, TLAPS

-----------------------------------------------------------------------------
(* The inductive invariant. *)

\* A coroutine that was asked has a candidate; what it will write with a
\* checked transition is a failure or a request; what it will claim was asked
\* for, and the membership it will open is in a row of the candidate.
Carries(me) ==
  /\ me.at # "idle" => me.cand \in Candidates
  /\ me.at \in {"check", "write"} => me.edge \in {"FAILED", "REQUESTED"}
  /\ me.at \in {"claim", "open", "insert", "undo"} =>
       /\ me.edge \in {"JOINING", "REQUESTED"}
       /\ me.row \in RowsOf(me.cand)

Plans == {<<"QUEUED">>, <<"APPROVED">>, <<"REJECTED">>, <<"PARKED">>, <<"QUEUED", "APPROVED">>}

\* A request in flight has a candidate and decisions to take; one that closes
\* memberships closes them in a row of the candidate, to park it next.
Asks(q) ==
  /\ q.at # "idle" => q.cand \in Candidates /\ q.plan \in Plans
  /\ q.at = "close" => q.row \in RowsOf(q.cand)
  /\ q.at = "close" \/ q.closed => q.plan = <<"PARKED">>
  /\ q.closed => q.at # "idle"

StateOK == state \in [Candidates -> CandidateState]
AssignedOK == assigned \in [Candidates -> Collectors \cup {None}]
ResultOK ==
  /\ result \in [Candidates -> Groups \cup {None}]
  /\ \A c \in Candidates : result[c] \in RowsOf(c) \cup {None}
ActiveOK == active \in [Collectors -> [Groups -> Nat]]
WorldOK ==
  /\ mentioned \in [Candidates -> BOOLEAN]
  /\ platform \in [Collectors -> [Groups -> {"out", "pending", "in"}]]
  /\ life \in [Collectors -> {"down", "booting", "ready"}]
QueueOK == queue \in [Collectors -> Seq(Commands)]
FormsOK == forms \in [Collectors -> SUBSET Candidates]
WorkOK ==
  /\ work \in [Collectors -> [Coroutines -> Work]]
  /\ \A k \in Collectors, w \in Coroutines : Carries(work[k][w])
SupOK ==
  /\ sup \in Supervisor
  /\ \A i \in sup.todo : i.cand \in Candidates
  /\ sup.at \in {"check", "write", "publish"} => sup.item.cand \in Candidates
ReqOK ==
  /\ req \in [Requests -> ApiRequest]
  /\ \A r \in Requests : Asks(req[r])
BoundsOK == requests \in Nat /\ faults \in Nat
HistoryOK == orphaned \subseteq Candidates /\ overruled \subseteq Candidates

IInv == /\ StateOK /\ AssignedOK /\ ResultOK /\ ActiveOK /\ WorldOK /\ QueueOK
        /\ FormsOK /\ WorkOK /\ SupOK /\ ReqOK /\ BoundsOK /\ HistoryOK

-----------------------------------------------------------------------------
(* Facts about the operators. *)

\* Every candidate's rows are groups.
LEMMA RowsAreGroups == ASSUME NEW c \in Candidates PROVE RowsOf(c) \subseteq Groups
  BY JoinConstants DEF RowsOf

\* The table of edges, as transition_candidate consults it.
LEMMA EdgesOfJoined == "JOINED" \in CandidateState /\ Allowed["JOINED"] = {"PARKED"}
  BY DEF Allowed, CandidateState

\* A plan has a first decision, none is JOINED, and what is left is a plan.
LEMMA PlanSteps ==
  ASSUME NEW p \in Plans
  PROVE  /\ p \in Seq(CandidateState)
         /\ Head(p) \in {"QUEUED", "APPROVED", "REJECTED", "PARKED"}
         /\ Len(p) # 1 => Tail(p) \in Plans /\ p # <<"PARKED">>
         /\ p = <<"PARKED">> => Len(p) = 1 /\ Head(p) = "PARKED"
  <1>1. CASE p = <<"QUEUED", "APPROVED">>
    <2>1. p \in Seq(CandidateState)
      BY <1>1 DEF CandidateState
    <2>2. Head(p) = "QUEUED" /\ Tail(p) = <<"APPROVED">> /\ Len(p) = 2
      BY <1>1
    <2> QED BY <2>1, <2>2, <1>1 DEF Plans
  <1>2. ASSUME NEW d \in {"QUEUED", "APPROVED", "REJECTED", "PARKED"}, p = <<d>>
        PROVE  /\ p \in Seq(CandidateState)
               /\ Head(p) = d
               /\ Len(p) = 1
               /\ p = <<"PARKED">> => d = "PARKED"
    BY <1>2 DEF CandidateState
  <1>3. CASE p # <<"QUEUED", "APPROVED">>
    <2>1. PICK d \in {"QUEUED", "APPROVED", "REJECTED", "PARKED"} : p = <<d>>
      BY <1>3 DEF Plans
    <2> QED BY <1>2, <2>1
  <1> QED BY <1>1, <1>3

\* A command that says join names a candidate; one that says leave, a group.
LEMMA CommandOf ==
  ASSUME NEW m \in Commands
  PROVE  /\ m.kind = "join" => m.of \in Candidates
         /\ m.kind = "leave" => m.of \in Groups
  BY DEF Commands, JoinCommand, LeaveCommand

\* Publishing keeps the queues well typed.
LEMMA DeliveredType ==
  ASSUME NEW q \in [Collectors -> Seq(Commands)], NEW k \in Collectors, NEW m \in Commands
  PROVE  Delivered(q, k, m) \in [Collectors -> Seq(Commands)]
  BY DEF Delivered

-----------------------------------------------------------------------------
(* The next-state relation, by the variable it changes. *)

\* The steps that move a coroutine.
LEMMA WorkSteps ==
  ASSUME Next
  PROVE  \/ UNCHANGED work
         \/ \E k \in Collectors :
              \/ CollectorCrashes(k) \/ HandleJoin(k) \/ JoinAccepted(k) \/ JoinPending(k)
              \/ JoinRefused(k) \/ CommandReads(k) \/ CommandWrites(k)
         \/ \E k \in Collectors, c \in Candidates : MessageArrives(k, c) \/ ProbeConfirms(k, c)
         \/ \E k \in Collectors, w \in Coroutines :
              \/ Claim(k, w) \/ LooksForDuplicate(k, w) \/ Inserts(k, w)
              \/ OpenFails(k, w) \/ Undo(k, w)
  BY DEF Next, Request, Tick, Boot, Command, Settle, Detect, Fault, Platform,
         Decide, StartJoin, StartLeave, CloseOne, RequestReads, RequestWrites, Mention,
         Snapshot, Dispatch, SupervisorReads, SupervisorWrites, Publish, TickEnds,
         SupervisorRestarts, SupervisorCrashes, Spawned, Subscribed, HandleLeave,
         RefreshForms, AdminApproves, AdminExpels, process

\* A coroutine's move keeps WorkOK when what it carries on is right.
LEMMA MovesOK ==
  ASSUME WorkOK, NEW k \in Collectors, NEW w \in Coroutines, NEW me \in Work,
         Carries(me), Moves(k, w, me)
  PROVE  WorkOK'
  BY DEF WorkOK, Moves, Carries, RowsOf

\* Going to another place keeps it when what is carried is right there.
LEMMA GoesToOK ==
  ASSUME WorkOK, NEW k \in Collectors, NEW w \in Coroutines, NEW p \in Places,
         GoesTo(k, w, p),
         p # "idle" => work[k][w].cand \in Candidates,
         p \in {"check", "write"} => work[k][w].edge \in {"FAILED", "REQUESTED"},
         p \in {"claim", "open", "insert", "undo"} =>
           /\ work[k][w].edge \in {"JOINING", "REQUESTED"}
           /\ work[k][w].row \in RowsOf(work[k][w].cand)
  PROVE  WorkOK'
  <1> DEFINE me == [at |-> p, cand |-> work[k][w].cand,
                    edge |-> work[k][w].edge, row |-> work[k][w].row]
  <1>1. me \in Work /\ Carries(me)
    BY DEF WorkOK, Work, Carries
  <1>2. Moves(k, w, me)
    BY DEF GoesTo
  <1> HIDE DEF me
  <1> QED BY <1>1, <1>2, MovesOK

\* Falling idle always does.
LEMMA FallsIdle == NoWork \in Work /\ Carries(NoWork)
  BY DEF NoWork, Work, Carries, Places, CandidateState

\* Whatever the step, every coroutine keeps a well-formed local state.
LEMMA WorkStep ==
  ASSUME IInv, Next
  PROVE  WorkOK'
  <1> USE DEF IInv
  <1>1. ASSUME NEW k \in Collectors, CollectorCrashes(k) PROVE WorkOK'
    BY <1>1, FallsIdle DEF WorkOK, CollectorCrashes, Carries, RowsOf
  <1>2. ASSUME NEW k \in Collectors, HandleJoin(k) PROVE WorkOK'
    <2> DEFINE me == [at |-> "asked", cand |-> Head(queue[k]).of,
                      edge |-> "JOINED", row |-> None]
    <2>1. Head(queue[k]) \in Commands
      BY <1>2 DEF HandleJoin, QueueOK
    <2>2. me \in Work /\ Carries(me)
      BY <1>2, <2>1, CommandOf DEF HandleJoin, Work, Carries, Places, CandidateState
    <2>3. Moves(k, "command", me)
      BY <1>2 DEF HandleJoin
    <2> HIDE DEF me
    <2> QED BY <2>2, <2>3, MovesOK DEF Coroutines
  <1>3. ASSUME NEW k \in Collectors, JoinAccepted(k) PROVE WorkOK'
    <2> DEFINE me == [at |-> "claim", cand |-> work[k]["command"].cand, edge |-> "JOINING",
                      row |-> NamedRow[work[k]["command"].cand]]
    <2>1. work[k]["command"].cand \in Candidates
      BY <1>3 DEF JoinAccepted, WorkOK, Carries, Coroutines
    <2>2. me \in Work /\ Carries(me)
      BY <2>1, JoinConstants DEF Work, Carries, Places, CandidateState, RowsOf
    <2>3. Moves(k, "command", me)
      BY <1>3 DEF JoinAccepted
    <2> HIDE DEF me
    <2> QED BY <2>2, <2>3, MovesOK DEF Coroutines
  <1>4. ASSUME NEW k \in Collectors, JoinPending(k) \/ JoinRefused(k) PROVE WorkOK'
    <2>1. PICK e \in {"REQUESTED", "FAILED"} :
            Moves(k, "command", [at |-> "check", cand |-> work[k]["command"].cand,
                                 edge |-> e, row |-> None])
      BY <1>4 DEF JoinPending, JoinRefused
    <2> DEFINE me == [at |-> "check", cand |-> work[k]["command"].cand,
                      edge |-> e, row |-> None]
    <2>2. work[k]["command"].cand \in Candidates
      BY <1>4 DEF JoinPending, JoinRefused, WorkOK, Carries, Coroutines
    <2>3. me \in Work /\ Carries(me)
      BY <2>2 DEF Work, Carries, Places, CandidateState
    <2> HIDE DEF me
    <2> QED BY <2>1, <2>3, MovesOK DEF Coroutines, me
  <1>5. ASSUME NEW k \in Collectors, CommandReads(k) PROVE WorkOK'
    <2>1. CASE GoesTo(k, "command", "write")
      BY <1>5, <2>1, GoesToOK DEF CommandReads, WorkOK, Carries, Coroutines, Places
    <2>2. CASE Moves(k, "command", NoWork)
      BY <2>2, FallsIdle, MovesOK DEF Coroutines
    <2> QED BY <1>5, <2>1, <2>2 DEF CommandReads
  <1>6. ASSUME NEW k \in Collectors, CommandWrites(k) PROVE WorkOK'
    BY <1>6, FallsIdle, MovesOK DEF CommandWrites, Coroutines
  <1>7. ASSUME NEW k \in Collectors, NEW c \in Candidates,
               MessageArrives(k, c) \/ ProbeConfirms(k, c)
        PROVE  WorkOK'
    <2>1. PICK w \in Coroutines, g \in RowsOf(c) :
            Moves(k, w, [at |-> "claim", cand |-> c, edge |-> "REQUESTED", row |-> g])
      BY <1>7 DEF MessageArrives, ProbeConfirms, RowsOf, Coroutines
    <2> DEFINE me == [at |-> "claim", cand |-> c, edge |-> "REQUESTED", row |-> g]
    <2>2. me \in Work /\ Carries(me)
      BY RowsAreGroups DEF Work, Carries, Places, CandidateState
    <2> HIDE DEF me
    <2> QED BY <2>1, <2>2, MovesOK DEF me
  <1>8. ASSUME NEW k \in Collectors, NEW w \in Coroutines,
               Claim(k, w) \/ LooksForDuplicate(k, w) \/ Inserts(k, w)
                 \/ OpenFails(k, w) \/ Undo(k, w)
        PROVE  WorkOK'
    <2>1. CASE Moves(k, w, NoWork)
      BY <2>1, FallsIdle, MovesOK
    <2>2. ASSUME NEW p \in Settling, GoesTo(k, w, p), work[k][w].at \in {"claim", "open", "insert"}
          PROVE  WorkOK'
      BY <2>2, GoesToOK DEF WorkOK, Carries, Settling, Places
    <2>3. CASE Claim(k, w)
      BY <2>1, <2>2, <2>3 DEF Claim, Settling
    <2>4. CASE LooksForDuplicate(k, w)
      BY <2>2, <2>4 DEF LooksForDuplicate, Settling
    <2>5. CASE OpenFails(k, w)
      BY <2>2, <2>5 DEF OpenFails, Settling
    <2> QED BY <1>8, <2>1, <2>3, <2>4, <2>5 DEF Inserts, Undo
  <1>9. CASE UNCHANGED work
    BY <1>9 DEF WorkOK, Carries
  <1> QED BY <1>1, <1>2, <1>3, <1>4, <1>5, <1>6, <1>7, <1>8, <1>9, WorkSteps

\* The steps that move a request.
LEMMA ReqSteps ==
  ASSUME Next
  PROVE  \/ UNCHANGED req
         \/ \E r \in Requests :
              \/ \E c \in Candidates, to \in CandidateState, k \in Collectors \cup {None} :
                   Decide(r, c, to, k)
              \/ \E c \in Candidates, k \in Collectors : StartJoin(r, c, k)
              \/ \E c \in Candidates : StartLeave(r, c)
              \/ \E k \in Collectors : CloseOne(r, k)
              \/ RequestReads(r)
              \/ RequestWrites(r)
  BY ZenonT(60) DEF Next, Request, Tick, Boot, Command, Settle, Detect, Fault, Platform, Mention,
         Snapshot, Dispatch, SupervisorReads, SupervisorWrites, Publish, TickEnds,
         SupervisorRestarts, SupervisorCrashes, Spawned, Subscribed, CollectorCrashes,
         HandleJoin, JoinAccepted, JoinPending, JoinRefused, CommandReads, CommandWrites,
         HandleLeave, RefreshForms, MessageArrives, ProbeConfirms, Claim,
         LooksForDuplicate, Inserts, OpenFails, Undo, AdminApproves, AdminExpels

\* A request's move keeps ReqOK when what it goes on to ask is right.
LEMMA AsksOK ==
  ASSUME ReqOK, NEW r \in Requests, NEW q \in ApiRequest, Asks(q),
         req' = [req EXCEPT ![r] = q]
  PROVE  ReqOK'
  BY DEF ReqOK, Asks, RowsOf

\* A walk is a proper request.
LEMMA WalkOK ==
  ASSUME NEW at \in {"check", "write"}, NEW c \in Candidates, NEW p \in Plans,
         NEW k \in Collectors \cup {None}
  PROVE  Walk(at, c, p, k) \in ApiRequest /\ Asks(Walk(at, c, p, k))
  BY PlanSteps DEF Walk, ApiRequest, Asks

\* So is the end of one.
LEMMA NoRequestOK == NoRequest \in ApiRequest /\ Asks(NoRequest)
  <1>1. << >> \in Seq(CandidateState)
    OBVIOUS
  <1> QED BY <1>1 DEF NoRequest, Walk, ApiRequest, Asks

\* Whatever the step, every API request in flight keeps a well-formed plan.
LEMMA ReqStep ==
  ASSUME IInv, Next
  PROVE  ReqOK'
  <1> USE DEF IInv
  <1>1. ASSUME NEW r \in Requests, NEW c \in Candidates, NEW to \in CandidateState,
               NEW k \in Collectors \cup {None}, Decide(r, c, to, k)
        PROVE  ReqOK'
    <2>1. <<to>> \in Plans
      BY <1>1 DEF Decide, Plans
    <2>2. req' = [req EXCEPT ![r] = Walk("write", c, <<to>>, k)]
      BY <1>1 DEF Decide
    <2> QED BY <2>1, <2>2, WalkOK, AsksOK
  <1>2. ASSUME NEW r \in Requests, NEW c \in Candidates, NEW k \in Collectors,
               StartJoin(r, c, k)
        PROVE  ReqOK'
    <2>1. PICK p \in Plans : req' = [req EXCEPT ![r] = Walk("check", c, p, k)]
      BY <1>2 DEF StartJoin, Plans
    <2> QED BY <2>1, WalkOK, AsksOK
  <1>3. ASSUME NEW r \in Requests, NEW c \in Candidates, StartLeave(r, c) PROVE ReqOK'
    <2> DEFINE q == [at |-> "close", cand |-> c, plan |-> <<"PARKED">>, collector |-> None,
                     row |-> result[c], closed |-> FALSE,
                     left |-> {k \in Collectors : active[k][result[c]] > 0}]
    <2>1. result[c] \in RowsOf(c) /\ result[c] \in Groups
      BY <1>3, RowsAreGroups DEF StartLeave, ResultOK
    <2>2. q \in ApiRequest /\ Asks(q)
      BY <2>1, PlanSteps DEF ApiRequest, Asks, Plans
    <2>3. req' = [req EXCEPT ![r] = q]
      BY <1>3 DEF StartLeave
    <2> HIDE DEF q
    <2> QED BY <2>2, <2>3, AsksOK
  <1>4. ASSUME NEW r \in Requests, NEW k \in Collectors, CloseOne(r, k) PROVE ReqOK'
    <2>1. req[r] \in ApiRequest /\ Asks(req[r]) /\ req[r].at = "close"
      BY <1>4 DEF CloseOne, ReqOK
    <2>2. Closed(r, k) \in ApiRequest /\ Asks(Closed(r, k))
      BY <2>1 DEF Closed, ApiRequest, Asks
    <2> QED BY <1>4, <2>2, NoRequestOK, AsksOK DEF CloseOne
  <1>5. ASSUME NEW r \in Requests, RequestReads(r) PROVE ReqOK'
    <2>1. req[r] \in ApiRequest /\ Asks(req[r]) /\ req[r].at # "idle"
      BY <1>5 DEF RequestReads, ReqOK
    <2>2. Writing(req[r]) \in ApiRequest /\ Asks(Writing(req[r]))
      BY <2>1 DEF Writing, ApiRequest, Asks
    <2> QED BY <1>5, <2>2, NoRequestOK, AsksOK DEF RequestReads
  <1>6. ASSUME NEW r \in Requests, RequestWrites(r) PROVE ReqOK'
    <2>1. req[r] \in ApiRequest /\ req[r].cand \in Candidates /\ req[r].plan \in Plans
          /\ req[r].collector \in Collectors \cup {None}
      BY <1>6 DEF RequestWrites, ReqOK, Asks, ApiRequest
    <2>2. CASE Len(req[r].plan) = 1
      BY <1>6, <2>2, NoRequestOK, AsksOK DEF RequestWrites
    <2>3. CASE Len(req[r].plan) # 1
      <3>1. Tail(req[r].plan) \in Plans
        BY <2>1, <2>3, PlanSteps
      <3>2. req' = [req EXCEPT ![r] =
                      Walk("check", req[r].cand, Tail(req[r].plan), req[r].collector)]
        BY <1>6, <2>3 DEF RequestWrites
      <3> QED BY <2>1, <3>1, <3>2, WalkOK, AsksOK
    <2> QED BY <2>2, <2>3
  <1>7. CASE UNCHANGED req
    BY <1>7 DEF ReqOK, Asks
  <1> QED BY <1>1, <1>2, <1>3, <1>4, <1>5, <1>6, <1>7, ReqSteps

\* The steps of the supervisor; nobody else moves its tick.
LEMMA SupSteps ==
  ASSUME Next
  PROVE  \/ UNCHANGED sup
         \/ Snapshot \/ Dispatch \/ SupervisorReads \/ SupervisorWrites
         \/ Publish \/ TickEnds \/ SupervisorRestarts \/ SupervisorCrashes
  <1>1. ASSUME NEW r \in Requests, Request(r) PROVE UNCHANGED sup
    BY <1>1 DEF Request, Decide, StartJoin, StartLeave, CloseOne, RequestReads, RequestWrites
  <1>2. ASSUME NEW k \in Collectors, Boot(k) \/ Command(k) \/ RefreshForms(k)
        PROVE  UNCHANGED sup
    BY <1>2 DEF Boot, Command, Spawned, Subscribed, RefreshForms, HandleJoin, JoinAccepted,
                JoinPending, JoinRefused, CommandReads, CommandWrites, HandleLeave
  <1>3. ASSUME NEW k \in Collectors, NEW w \in Coroutines, Settle(k, w)
        PROVE  UNCHANGED sup
    BY <1>3 DEF Settle, Claim, LooksForDuplicate, Inserts, Undo
  <1>4. ASSUME NEW k \in Collectors, NEW c \in Candidates, Detect(k, c)
        PROVE  UNCHANGED sup
    BY <1>4 DEF Detect, MessageArrives, ProbeConfirms
  <1>5. CASE Fault
    BY <1>5 DEF Fault, CollectorCrashes, OpenFails
  <1>6. CASE Platform \/ \E c \in Candidates : Mention(c)
    BY <1>6 DEF Platform, AdminApproves, AdminExpels, Mention
  <1> QED BY <1>1, <1>2, <1>3, <1>4, <1>5, <1>6 DEF Next, Tick

\* Whatever the step, the supervisor's tick keeps well-formed items.
LEMMA SupStep ==
  ASSUME IInv, Next
  PROVE  SupOK'
  <1> USE DEF IInv, SupOK
  <1>1. NoItem \in Item
    BY DEF NoItem, Item, CandidateState
  <1>2. CASE Snapshot
    <2>1. \A c \in Candidates : [cand |-> c, from |-> state[c], to |-> assigned[c]] \in Item
      BY DEF Item, StateOK, AssignedOK
    <2> QED BY <1>1, <1>2, <2>1 DEF Snapshot, Supervisor, Ticks
  <1>3. CASE Dispatch
    <2>1. PICK i \in sup.todo : DispatchOperator(i) \/ DispatchDiscovered(i)
      BY <1>3 DEF Dispatch, DispatchFirst
    <2>2. i \in Item /\ i.cand \in Candidates /\ sup.todo \ {i} \in SUBSET Item
      BY <2>1 DEF Supervisor
    <2>3. CASE Skip(i)
      BY <1>1, <2>2, <2>3 DEF Skip, Supervisor, Ticks
    <2>4. ASSUME NEW j \in Item, j.cand \in Candidates, NEW at \in {"check", "publish"},
                 Ticks(at, sup.todo \ {i}, j)
          PROVE  SupOK'
      BY <2>2, <2>4 DEF Supervisor, Ticks
    <2>5. CASE DispatchOperator(i)
      BY <2>2, <2>3, <2>4, <2>5 DEF DispatchOperator
    <2>6. CASE DispatchDiscovered(i)
      <3>1. \A k \in Collectors \cup {None} : [cand |-> i.cand, from |-> i.from, to |-> k] \in Item
        BY <2>2 DEF Item
      <3> QED BY <2>2, <2>3, <2>4, <2>6, <3>1 DEF DispatchDiscovered
    <2> QED BY <2>1, <2>5, <2>6
  <1>4. CASE SupervisorReads \/ SupervisorWrites
    BY <1>1, <1>4 DEF SupervisorReads, SupervisorWrites, Supervisor, Ticks
  <1>5. CASE Publish \/ TickEnds \/ SupervisorRestarts \/ SupervisorCrashes
    BY <1>1, <1>5 DEF Publish, TickEnds, SupervisorRestarts, SupervisorCrashes, Supervisor, Ticks
  <1>6. CASE UNCHANGED sup
    BY <1>6
  <1> QED BY <1>2, <1>3, <1>4, <1>5, <1>6, SupSteps

\* The steps that write a candidate's row.
LEMMA TableSteps ==
  ASSUME Next
  PROVE  \/ UNCHANGED table
         \/ \E r \in Requests : RequestWrites(r)
         \/ SupervisorWrites
         \/ \E k \in Collectors : CommandWrites(k)
         \/ \E k \in Collectors, w \in Coroutines : Claim(k, w) \/ Undo(k, w)
  BY ZenonT(60) DEF Next, Request, Tick, Boot, Command, Settle, Detect, Fault, Platform, Mention,
         Decide, StartJoin, StartLeave, CloseOne, RequestReads,
         Snapshot, Dispatch, SupervisorReads, Publish, TickEnds,
         SupervisorRestarts, SupervisorCrashes, Spawned, Subscribed, CollectorCrashes,
         HandleJoin, JoinAccepted, JoinPending, JoinRefused, CommandReads,
         HandleLeave, RefreshForms, MessageArrives, ProbeConfirms,
         LooksForDuplicate, Inserts, OpenFails, AdminApproves, AdminExpels

\* What each of them writes, and where.
LEMMA Writes ==
  ASSUME IInv, Next
  PROVE  \/ UNCHANGED table
         \/ /\ UNCHANGED result
            /\ assigned' \in [Candidates -> Collectors \cup {None}]
            /\ \E c \in Candidates, s \in CandidateState \ {"JOINED"} :
                 state' = [state EXCEPT ![c] = s]
         \/ /\ UNCHANGED assigned
            /\ \E c \in Candidates : \E g \in RowsOf(c) :
                 /\ state[c] \in {"JOINING", "REQUESTED"}
                 /\ state' = [state EXCEPT ![c] = "JOINED"]
                 /\ result' = [result EXCEPT ![c] = g]
  <1> USE DEF IInv, table
  <1>1. ASSUME NEW r \in Requests, RequestWrites(r)
        PROVE  /\ UNCHANGED result
               /\ assigned' \in [Candidates -> Collectors \cup {None}]
               /\ \E c \in Candidates, s \in CandidateState \ {"JOINED"} :
                    state' = [state EXCEPT ![c] = s]
    <2>1. /\ req[r].cand \in Candidates /\ req[r].plan \in Plans
          /\ req[r].collector \in Collectors \cup {None}
      BY <1>1 DEF RequestWrites, ReqOK, Asks, ApiRequest
    <2>2. Head(req[r].plan) \in CandidateState \ {"JOINED"}
      BY <2>1, PlanSteps DEF CandidateState
    <2> QED BY <1>1, <2>1, <2>2 DEF RequestWrites, AssignedOK
  <1>2. CASE SupervisorWrites
    BY <1>2 DEF SupervisorWrites, SupOK, AssignedOK, CandidateState
  <1>3. ASSUME NEW k \in Collectors, CommandWrites(k)
        PROVE  /\ UNCHANGED <<assigned, result>>
               /\ \E c \in Candidates, s \in CandidateState \ {"JOINED"} :
                    state' = [state EXCEPT ![c] = s]
    BY <1>3 DEF CommandWrites, WorkOK, Carries, Coroutines, CandidateState
  <1>4. ASSUME NEW k \in Collectors, NEW w \in Coroutines, Claim(k, w)
        PROVE  \/ UNCHANGED table
               \/ /\ UNCHANGED assigned
                  /\ \E c \in Candidates : \E g \in RowsOf(c) :
                       /\ state[c] \in {"JOINING", "REQUESTED"}
                       /\ state' = [state EXCEPT ![c] = "JOINED"]
                       /\ result' = [result EXCEPT ![c] = g]
    BY <1>4 DEF Claim, WorkOK, Carries
  <1>5. ASSUME NEW k \in Collectors, NEW w \in Coroutines, Undo(k, w)
        PROVE  \/ UNCHANGED table
               \/ /\ UNCHANGED <<assigned, result>>
                  /\ \E c \in Candidates, s \in CandidateState \ {"JOINED"} :
                       state' = [state EXCEPT ![c] = s]
    BY <1>5 DEF Undo, WorkOK, Carries, CandidateState
  <1> QED BY <1>1, <1>2, <1>3, <1>4, <1>5, TableSteps DEF AssignedOK

\* Whatever the step, the columns of the candidate table keep their types.
LEMMA TableStep ==
  ASSUME IInv, Next
  PROVE  StateOK' /\ AssignedOK' /\ ResultOK'
  <1> USE DEF IInv
  <1>1. CASE UNCHANGED table
    BY <1>1 DEF table, StateOK, AssignedOK, ResultOK, RowsOf
  <1>2. CASE /\ UNCHANGED result
             /\ assigned' \in [Candidates -> Collectors \cup {None}]
             /\ \E c \in Candidates, s \in CandidateState \ {"JOINED"} :
                  state' = [state EXCEPT ![c] = s]
    BY <1>2 DEF StateOK, AssignedOK, ResultOK, RowsOf
  <1>3. ASSUME NEW c \in Candidates, NEW g \in RowsOf(c), UNCHANGED assigned,
               state' = [state EXCEPT ![c] = "JOINED"],
               result' = [result EXCEPT ![c] = g]
        PROVE  StateOK' /\ AssignedOK' /\ ResultOK'
    <2>1. StateOK' /\ AssignedOK'
      BY <1>3, EdgesOfJoined DEF StateOK, AssignedOK
    <2>2. ResultOK'
      BY <1>3, RowsAreGroups DEF ResultOK, RowsOf
    <2> QED BY <2>1, <2>2
  <1> QED BY <1>1, <1>2, <1>3, Writes

\* Membership rows come and go one at a time.
LEMMA ActiveSteps ==
  ASSUME Next
  PROVE  \/ UNCHANGED active
         \/ \E r \in Requests, k \in Collectors : CloseOne(r, k)
         \/ \E k \in Collectors, w \in Coroutines : Inserts(k, w)
  BY ZenonT(60) DEF Next, Request, Tick, Boot, Command, Settle, Detect, Fault, Platform, Mention,
         Decide, StartJoin, StartLeave, RequestReads, RequestWrites,
         Snapshot, Dispatch, SupervisorReads, SupervisorWrites, Publish, TickEnds,
         SupervisorRestarts, SupervisorCrashes, Spawned, Subscribed, CollectorCrashes,
         HandleJoin, JoinAccepted, JoinPending, JoinRefused, CommandReads, CommandWrites,
         HandleLeave, RefreshForms, MessageArrives, ProbeConfirms, Claim,
         LooksForDuplicate, OpenFails, Undo, AdminApproves, AdminExpels

\* Whatever the step, the count of active memberships never goes below zero:
\* close_membership takes off only a row it has found.
LEMMA ActiveStep ==
  ASSUME IInv, Next
  PROVE  ActiveOK'
  <1> USE DEF IInv, ActiveOK
  <1>1. ASSUME NEW r \in Requests, NEW k \in Collectors, CloseOne(r, k) PROVE ActiveOK'
    <2>1. req[r].row \in Groups
      BY <1>1, RowsAreGroups DEF CloseOne, ReqOK, Asks
    <2>2. CASE active[k][req[r].row] = 1
      <3>1. active' = [active EXCEPT ![k][req[r].row] = @ - 1]
        BY <1>1, <2>2 DEF CloseOne
      <3>2. active[k][req[r].row] - 1 \in Nat
        BY <2>2
      <3> QED BY <2>1, <3>1, <3>2
    <2> QED BY <1>1, <2>2 DEF CloseOne
  <1>2. ASSUME NEW k \in Collectors, NEW w \in Coroutines, Inserts(k, w) PROVE ActiveOK'
    <2>1. work[k][w].row \in Groups
      BY <1>2, RowsAreGroups DEF Inserts, WorkOK, Carries
    <2> QED BY <1>2, <2>1 DEF Inserts
  <1> QED BY <1>1, <1>2, ActiveSteps

\* An answer of the platform is one of three.
LEMMA PlatformOK ==
  ASSUME NEW k \in Collectors, NEW g \in Groups, NEW v \in {"out", "pending", "in"},
         platform \in [Collectors -> [Groups -> {"out", "pending", "in"}]],
         platform' = [platform EXCEPT ![k][g] = v]
  PROVE  platform' \in [Collectors -> [Groups -> {"out", "pending", "in"}]]
  OBVIOUS

\* What is left: the world outside, and the processes' memory.
LEMMA OtherSteps ==
  ASSUME IInv, Next
  PROVE  WorldOK' /\ QueueOK' /\ FormsOK' /\ BoundsOK' /\ HistoryOK'
  <1> USE DEF IInv, WorldOK, QueueOK, FormsOK, BoundsOK, HistoryOK
  <1>1. ASSUME NEW r \in Requests, Request(r)
        PROVE  WorldOK' /\ QueueOK' /\ FormsOK' /\ BoundsOK' /\ HistoryOK'
    <2>1. ASSUME NEW k \in Collectors, CloseOne(r, k)
          PROVE  WorldOK' /\ QueueOK' /\ FormsOK' /\ BoundsOK' /\ HistoryOK'
      <3>1. LeaveCommand(req[r].row) \in Commands
        BY <2>1, RowsAreGroups DEF CloseOne, ReqOK, Asks, Commands
      <3>2. req[r].cand \in Candidates
        BY <2>1 DEF CloseOne, ReqOK, Asks
      <3>3. queue' \in [Collectors -> Seq(Commands)]
        BY <2>1, <3>1, DeliveredType DEF CloseOne
      <3>4. orphaned' \subseteq Candidates
        BY <2>1, <3>2 DEF CloseOne
      <3> QED BY <2>1, <3>3, <3>4 DEF CloseOne
    <2>2. CASE RequestWrites(r)
      BY <2>2 DEF RequestWrites, Overrule, ReqOK, Asks, process
    <2>3. ASSUME NEW c \in Candidates, NEW to \in CandidateState,
                 NEW k \in Collectors \cup {None},
                 Decide(r, c, to, k) \/ StartJoin(r, c, k) \/ StartLeave(r, c)
          PROVE  WorldOK' /\ QueueOK' /\ FormsOK' /\ BoundsOK' /\ HistoryOK'
      BY <2>3 DEF Decide, StartJoin, StartLeave, process, history
    <2>4. CASE RequestReads(r)
      BY <2>4 DEF RequestReads, process, bounds, history
    <2>5. CandidateState # {}
      BY DEF CandidateState
    <2> QED BY <1>1, <2>1, <2>2, <2>3, <2>4, <2>5 DEF Request
  <1>2. CASE Tick
    <2>1. CASE Publish
      <3>1. JoinCommand(sup.item.cand) \in Commands
        BY <2>1 DEF Publish, SupOK, Commands
      <3>2. sup.item.to \in Collectors \cup {None}
        BY DEF SupOK, Supervisor, Item
      <3> QED BY <2>1, <3>1, <3>2, DeliveredType DEF Publish, bounds, history
    <2>2. CASE SupervisorWrites
      BY <2>2 DEF SupervisorWrites, Overrule, SupOK, process
    <2> QED BY <1>2, <2>1, <2>2
            DEF Tick, Snapshot, Dispatch, SupervisorReads, TickEnds, SupervisorRestarts,
                process, bounds, history
  <1>3. ASSUME NEW k \in Collectors, Boot(k) \/ RefreshForms(k)
        PROVE  WorldOK' /\ QueueOK' /\ FormsOK' /\ BoundsOK' /\ HistoryOK'
    BY <1>3 DEF Boot, Spawned, Subscribed, RefreshForms, RequestedForms, bounds, history
  <1>4. ASSUME NEW k \in Collectors, Command(k)
        PROVE  WorldOK' /\ QueueOK' /\ FormsOK' /\ BoundsOK' /\ HistoryOK'
    <2>1. CASE HandleJoin(k)
      BY <2>1 DEF HandleJoin, bounds, history
    <2>2. CASE JoinAccepted(k) \/ JoinPending(k)
      <3>1. RealRow[work[k]["command"].cand] \in Groups
        BY <2>2, JoinConstants DEF JoinAccepted, JoinPending, WorkOK, Carries, Coroutines
      <3>2. platform' \in [Collectors -> [Groups -> {"out", "pending", "in"}]]
        BY <2>2, <3>1, PlatformOK DEF JoinAccepted, JoinPending
      <3> QED BY <2>2, <3>2 DEF JoinAccepted, JoinPending, bounds, history
    <2>3. CASE JoinRefused(k) \/ CommandReads(k)
      BY <2>3 DEF JoinRefused, CommandReads, bounds, history
    <2>4. CASE CommandWrites(k)
      <3>1. work[k]["command"].cand \in Candidates
        BY <2>4 DEF CommandWrites, WorkOK, Carries, Coroutines
      <3> QED BY <2>4, <3>1 DEF CommandWrites, Overrule
    <2>5. CASE HandleLeave(k)
      <3>1. Head(queue[k]) \in Commands
        BY <2>5 DEF HandleLeave
      <3>2. Head(queue[k]).of \in Groups
        BY <2>5, <3>1, CommandOf DEF HandleLeave
      <3>3. platform' \in [Collectors -> [Groups -> {"out", "pending", "in"}]]
        BY <2>5, <3>2, PlatformOK DEF HandleLeave
      <3>4. queue' \in [Collectors -> Seq(Commands)]
        BY <2>5 DEF HandleLeave
      <3> QED BY <2>5, <3>3, <3>4 DEF HandleLeave, bounds, history
    <2> QED BY <1>4, <2>1, <2>2, <2>3, <2>4, <2>5 DEF Command
  <1>5. ASSUME NEW k \in Collectors, NEW w \in Coroutines, Settle(k, w)
        PROVE  WorldOK' /\ QueueOK' /\ FormsOK' /\ BoundsOK' /\ HistoryOK'
    BY <1>5 DEF Settle, Claim, LooksForDuplicate, Inserts, Confirmed, Undo, bounds, history
  <1>6. ASSUME NEW k \in Collectors, NEW c \in Candidates, Detect(k, c)
        PROVE  WorldOK' /\ QueueOK' /\ FormsOK' /\ BoundsOK' /\ HistoryOK'
    BY <1>6 DEF Detect, MessageArrives, ProbeConfirms, bounds, history
  <1>7. CASE Fault
    <2>1. CASE SupervisorCrashes
      BY <2>1 DEF SupervisorCrashes, process, history
    <2>2. ASSUME NEW k \in Collectors, CollectorCrashes(k)
          PROVE  WorldOK' /\ QueueOK' /\ FormsOK' /\ BoundsOK' /\ HistoryOK'
      BY <2>2 DEF CollectorCrashes
    <2>3. ASSUME NEW k \in Collectors, NEW w \in Coroutines, OpenFails(k, w)
          PROVE  WorldOK' /\ QueueOK' /\ FormsOK' /\ BoundsOK' /\ HistoryOK'
      BY <2>3 DEF OpenFails, history
    <2> QED BY <1>7, <2>1, <2>2, <2>3 DEF Fault
  <1>8. ASSUME NEW k \in Collectors, NEW g \in Groups, AdminApproves(k, g) \/ AdminExpels(k, g)
        PROVE  WorldOK' /\ QueueOK' /\ FormsOK' /\ BoundsOK' /\ HistoryOK'
    <2>1. platform' \in [Collectors -> [Groups -> {"out", "pending", "in"}]]
      BY <1>8, PlatformOK DEF AdminApproves, AdminExpels
    <2> QED BY <1>8, <2>1 DEF AdminApproves, AdminExpels, process, bounds, history
  <1>9. ASSUME NEW c \in Candidates, Mention(c)
        PROVE  WorldOK' /\ QueueOK' /\ FormsOK' /\ BoundsOK' /\ HistoryOK'
    BY <1>9 DEF Mention, process, bounds, history
  <1> QED BY <1>1, <1>2, <1>3, <1>4, <1>5, <1>6, <1>7, <1>8, <1>9 DEF Next, Platform

-----------------------------------------------------------------------------
(* Type correctness. *)

\* The initial states satisfy the invariant.
LEMMA InitIInv ==
  ASSUME Init
  PROVE  IInv
  <1> USE DEF Init
  <1>1. StateOK /\ AssignedOK /\ ResultOK /\ ActiveOK /\ WorldOK /\ FormsOK /\ BoundsOK /\ HistoryOK
    BY DEF StateOK, AssignedOK, ResultOK, ActiveOK, WorldOK, FormsOK, BoundsOK, HistoryOK,
           CandidateState
  <1>2. QueueOK
    <2>1. << >> \in Seq(Commands)
      OBVIOUS
    <2> QED BY <2>1 DEF QueueOK
  <1>3. WorkOK
    BY FallsIdle DEF WorkOK
  <1>4. SupOK
    BY DEF SupOK, Supervisor, Item, NoItem, CandidateState
  <1>5. ReqOK
    BY NoRequestOK DEF ReqOK
  <1> QED BY <1>1, <1>2, <1>3, <1>4, <1>5 DEF IInv

\* A step that changes nothing keeps the invariant.
LEMMA StutterIInv ==
  ASSUME IInv, UNCHANGED vars
  PROVE  IInv'
  <1> USE DEF IInv, vars
  <1>1. StateOK' /\ AssignedOK' /\ ResultOK' /\ ActiveOK' /\ WorldOK' /\ QueueOK' /\ FormsOK'
        /\ BoundsOK' /\ HistoryOK'
    BY DEF StateOK, AssignedOK, ResultOK, ActiveOK, WorldOK, QueueOK, FormsOK, BoundsOK,
           HistoryOK, RowsOf
  <1>2. WorkOK' /\ SupOK' /\ ReqOK'
    BY DEF WorkOK, SupOK, ReqOK, Carries, Asks, RowsOf
  <1> QED BY <1>1, <1>2

\* What each actor carries is right at every step of the system.
THEOREM Inductive == Spec => []IInv
  <1>1. ASSUME IInv, [Next]_vars PROVE IInv'
    <2>1. CASE Next
      BY <1>1, <2>1, WorkStep, ReqStep, SupStep, TableStep, ActiveStep, OtherSteps DEF IInv
    <2>2. CASE UNCHANGED vars
      BY <1>1, <2>2, StutterIInv
    <2> QED BY <1>1, <2>1, <2>2
  <1> QED BY InitIInv, <1>1, PTL DEF Spec

\* No handler, in any interleaving, writes a value of the wrong kind: a group
\* that is no group, a state outside the enumeration, a negative number of rows.
THEOREM TypeCorrect == Spec => []TypeOK
  <1>1. IInv => TypeOK
    BY DEF IInv, TypeOK, StateOK, AssignedOK, ResultOK, ActiveOK, WorldOK, QueueOK, FormsOK,
           WorkOK, SupOK, ReqOK, BoundsOK, HistoryOK
  <1> QED BY Inductive, <1>1, PTL

-----------------------------------------------------------------------------
(* The way into JOINED. *)

\* JOINED is entered from JOINING or REQUESTED only, whatever blind writes race
\* the claim: transition_candidate's callers never ask for it, and the claim is
\* conditional.
THEOREM JoinedOnlyByClaimHolds == Spec => JoinedOnlyByClaim
  <1> DEFINE Enters == \A c \in Candidates :
               state'[c] = "JOINED" /\ state[c] # "JOINED" => state[c] \in {"JOINING", "REQUESTED"}
  <1>1. ASSUME IInv, [Next]_vars PROVE Enters
    <2>1. CASE UNCHANGED table \/ UNCHANGED vars
      BY <2>1 DEF table, vars
    <2>2. ASSUME NEW c \in Candidates, NEW s \in CandidateState \ {"JOINED"},
                 state' = [state EXCEPT ![c] = s]
          PROVE  Enters
      BY <1>1, <2>2 DEF IInv, StateOK
    <2>3. ASSUME NEW c \in Candidates, state[c] \in {"JOINING", "REQUESTED"},
                 state' = [state EXCEPT ![c] = "JOINED"]
          PROVE  Enters
      BY <1>1, <2>3 DEF IInv, StateOK
    <2> QED BY <1>1, <2>1, <2>2, <2>3, Writes
  <1>2. ASSUME IInv, [Next]_vars PROVE [Enters]_vars
    BY <1>1, <1>2
  <1> QED BY Inductive, <1>2, PTL DEF Spec, JoinedOnlyByClaim

-----------------------------------------------------------------------------
(* The evidence behind JOINED. *)

\* Two candidates never share a group row.  They do when an invite link and a
\* public name are discovered apart and lead to the same group: leaving by one
\* then takes the other's membership too.
RowsApart == \A c, d \in Candidates : c # d => RowsOf(c) \cap RowsOf(d) = {}

\* A move from outside a settlement to outside one settles nothing.
LEMMA SettlingKept ==
  ASSUME WorkOK, NEW k \in Collectors, NEW w \in Coroutines, NEW me, Moves(k, w, me),
         work[k][w].at \notin Settling, me.at \notin Settling
  PROVE  \A l \in Collectors, v \in Coroutines, c \in Candidates :
           IsSettling(l, v, c)' <=> IsSettling(l, v, c)
  BY DEF WorkOK, Moves, IsSettling

\* A move within one settlement settles what it did.
LEMMA SettlingGoesOn ==
  ASSUME WorkOK, NEW k \in Collectors, NEW w \in Coroutines, NEW p \in Settling,
         GoesTo(k, w, p), work[k][w].at \in Settling
  PROVE  \A l \in Collectors, v \in Coroutines, c \in Candidates :
           IsSettling(l, v, c)' <=> IsSettling(l, v, c)
  BY DEF WorkOK, GoesTo, Moves, IsSettling

\* The moves of the coroutines, as far as settlements can tell.
LEMMA Settlements ==
  ASSUME IInv, Next
  PROVE  \/ \A l \in Collectors, v \in Coroutines, c \in Candidates :
              IsSettling(l, v, c)' <=> IsSettling(l, v, c)
         \/ \E k \in Collectors : CollectorCrashes(k)
         \/ \E k \in Collectors, w \in Coroutines :
              /\ work[k][w].at = "claim"
              /\ state[work[k][w].cand] = work[k][w].edge
              /\ Claim(k, w) /\ GoesTo(k, w, "open")
         \/ \E k \in Collectors, w \in Coroutines : Inserts(k, w) \/ Undo(k, w)
  <1> USE DEF IInv
  <1> DEFINE Same == \A l \in Collectors, v \in Coroutines, c \in Candidates :
                       IsSettling(l, v, c)' <=> IsSettling(l, v, c)
  <1>1. ASSUME NEW k \in Collectors,
               HandleJoin(k) \/ JoinAccepted(k) \/ JoinPending(k) \/ JoinRefused(k)
                 \/ CommandReads(k) \/ CommandWrites(k)
        PROVE  Same
    <2>1. work[k]["command"].at \in {"idle", "asked", "check", "write"}
      BY <1>1 DEF HandleJoin, JoinAccepted, JoinPending, JoinRefused, CommandReads, CommandWrites
    <2>2. PICK me : /\ Moves(k, "command", me)
                    /\ me.at \in {"idle", "asked", "check", "write", "claim"}
      BY <1>1 DEF HandleJoin, JoinAccepted, JoinPending, JoinRefused, CommandReads,
                  CommandWrites, GoesTo, NoWork
    <2> QED BY <2>1, <2>2, SettlingKept DEF Settling, Coroutines
  <1>2. ASSUME NEW k \in Collectors, NEW c \in Candidates,
               MessageArrives(k, c) \/ ProbeConfirms(k, c)
        PROVE  Same
    <2>1. PICK w \in Coroutines :
            work[k][w].at = "idle" /\ \E me : Moves(k, w, me) /\ me.at = "claim"
      BY <1>2 DEF MessageArrives, ProbeConfirms, Coroutines
    <2>2. PICK me : Moves(k, w, me) /\ me.at = "claim"
      BY <2>1
    <2> QED BY <2>1, <2>2, SettlingKept DEF Settling
  <1>3. ASSUME NEW k \in Collectors, NEW w \in Coroutines,
               LooksForDuplicate(k, w) \/ OpenFails(k, w)
        PROVE  Same
    <2>1. PICK p \in Settling : GoesTo(k, w, p) /\ work[k][w].at \in Settling
      BY <1>3 DEF LooksForDuplicate, OpenFails, Settling
    <2> QED BY <2>1, SettlingGoesOn
  <1>4. ASSUME NEW k \in Collectors, NEW w \in Coroutines, Claim(k, w)
        PROVE  \/ Same
               \/ /\ work[k][w].at = "claim"
                  /\ state[work[k][w].cand] = work[k][w].edge
                  /\ Claim(k, w) /\ GoesTo(k, w, "open")
    <2>1. CASE state[work[k][w].cand] = work[k][w].edge
      BY <1>4, <2>1 DEF Claim
    <2>2. CASE state[work[k][w].cand] # work[k][w].edge
      <3>1. Moves(k, w, NoWork) /\ work[k][w].at = "claim"
        BY <1>4, <2>2 DEF Claim
      <3> QED BY <3>1, SettlingKept DEF NoWork, Settling
    <2> QED BY <2>1, <2>2
  <1>5. CASE UNCHANGED work
    BY <1>5 DEF IsSettling
  <1> HIDE DEF Same
  <1> QED BY <1>1, <1>2, <1>3, <1>4, <1>5, WorkSteps DEF Same

\* A candidate becomes JOINED by winning a claim, and then its coroutine settles.
LEMMA Wins ==
  ASSUME IInv, Next, NEW c \in Candidates, state'[c] = "JOINED", state[c] # "JOINED"
  PROVE  SettlingNow(c)'
  <1> USE DEF IInv
  <1>1. PICK k \in Collectors, w \in Coroutines : Claim(k, w)
    <2>1. ASSUME NEW r \in Requests, RequestWrites(r) PROVE FALSE
      <3>1. Head(req[r].plan) # "JOINED"
        BY <2>1, PlanSteps DEF RequestWrites, ReqOK, Asks
      <3> QED BY <2>1, <3>1 DEF RequestWrites, StateOK
    <2>2. CASE SupervisorWrites
      BY <2>2 DEF SupervisorWrites, StateOK
    <2>3. ASSUME NEW k \in Collectors, CommandWrites(k) PROVE FALSE
      BY <2>3 DEF CommandWrites, StateOK, WorkOK, Carries, Coroutines
    <2>4. ASSUME NEW k \in Collectors, NEW w \in Coroutines, Undo(k, w) PROVE FALSE
      BY <2>4 DEF Undo, StateOK, WorkOK, Carries
    <2>5. CASE UNCHANGED table
      BY <2>5 DEF table
    <2> QED BY <2>1, <2>2, <2>3, <2>4, <2>5, TableSteps
  <1>2. state[work[k][w].cand] = work[k][w].edge /\ work[k][w].cand = c /\ GoesTo(k, w, "open")
    BY <1>1 DEF Claim, StateOK
  <1>3. IsSettling(k, w, c)'
    BY <1>2 DEF GoesTo, Moves, IsSettling, Settling, WorkOK
  <1> QED BY <1>3 DEF SettlingNow

\* What is recorded as orphaned stays recorded.
LEMMA OrphanedGrows ==
  ASSUME Next
  PROVE  orphaned \subseteq orphaned'
  <1>1. ASSUME NEW r \in Requests, Request(r) PROVE orphaned \subseteq orphaned'
    BY <1>1 DEF Request, Decide, StartJoin, StartLeave, CloseOne, RequestReads, RequestWrites,
                bounds, history
  <1>2. CASE Tick \/ SupervisorCrashes
    BY <1>2 DEF Tick, Snapshot, Dispatch, SupervisorReads, SupervisorWrites, Publish, TickEnds,
                SupervisorRestarts, SupervisorCrashes, bounds, history
  <1>3. ASSUME NEW k \in Collectors,
               Boot(k) \/ Command(k) \/ RefreshForms(k) \/ CollectorCrashes(k)
        PROVE  orphaned \subseteq orphaned'
    BY <1>3 DEF Boot, Command, Spawned, Subscribed, RefreshForms, HandleJoin, JoinAccepted,
                JoinPending, JoinRefused, CommandReads, CommandWrites, HandleLeave,
                CollectorCrashes, bounds, history
  <1>4. ASSUME NEW k \in Collectors, NEW w \in Coroutines, Settle(k, w) \/ OpenFails(k, w)
        PROVE  orphaned \subseteq orphaned'
    BY <1>4 DEF Settle, Claim, LooksForDuplicate, Inserts, Undo, OpenFails, bounds, history
  <1>5. ASSUME NEW k \in Collectors, NEW c \in Candidates, Detect(k, c)
        PROVE  orphaned \subseteq orphaned'
    BY <1>5 DEF Detect, MessageArrives, ProbeConfirms, bounds, history
  <1>6. CASE Platform \/ \E c \in Candidates : Mention(c)
    BY <1>6 DEF Platform, AdminApproves, AdminExpels, Mention, bounds, history
  <1> QED BY <1>1, <1>2, <1>3, <1>4, <1>5, <1>6 DEF Next, Fault

Evidence(c) == Member(c) \/ SettlingNow(c) \/ Leaving(c) \/ c \in orphaned

\* A leave that has begun goes on, parks the candidate, or is recorded as orphaned.
LEMMA LeavingGoesOn ==
  ASSUME IInv, Next, NEW c \in Candidates, state[c] = "JOINED", state'[c] = "JOINED", Leaving(c)
  PROVE  Evidence(c)'
  <1> USE DEF IInv, Evidence
  <1>1. PICK r \in Requests : req[r].closed /\ req[r].cand = c
    BY DEF Leaving
  <1>2. req[r].at # "idle" /\ req[r].plan = <<"PARKED">> /\ req[r] \in ApiRequest
    BY <1>1 DEF ReqOK, Asks
  <1>3. Head(req[r].plan) = "PARKED" /\ Len(req[r].plan) = 1
    BY <1>2, PlanSteps DEF Plans
  <1>4. CASE req'[r] = req[r]
    BY <1>1, <1>4 DEF Leaving
  <1>5. ASSUME NEW k \in Collectors, CloseOne(r, k) PROVE Evidence(c)'
    <2>1. CASE active[k][req[r].row] = 1
      <3>1. req'[r] = Closed(r, k)
        BY <1>5, <2>1 DEF CloseOne, ReqOK
      <3> QED BY <1>1, <3>1 DEF Closed, Leaving
    <2>2. CASE active[k][req[r].row] # 1
      BY <1>1, <1>5, <2>2 DEF CloseOne
    <2> QED BY <2>1, <2>2
  <1>6. CASE RequestReads(r)
    <2>1. MayBecome(req[r].cand, Head(req[r].plan))
      BY <1>1, <1>3, EdgesOfJoined DEF MayBecome
    <2>2. req'[r] = Writing(req[r])
      BY <1>6, <2>1 DEF RequestReads, ReqOK
    <2> QED BY <1>1, <2>2 DEF Writing, Leaving
  <1>7. CASE RequestWrites(r)
    BY <1>1, <1>3, <1>7 DEF RequestWrites, StateOK
  <1>8. ASSUME NEW q \in Requests, q # r,
               \/ \E d \in Candidates, to \in CandidateState, k \in Collectors \cup {None} :
                    Decide(q, d, to, k)
               \/ \E d \in Candidates, k \in Collectors : StartJoin(q, d, k)
               \/ \E d \in Candidates : StartLeave(q, d)
               \/ \E k \in Collectors : CloseOne(q, k)
               \/ RequestReads(q) \/ RequestWrites(q)
        PROVE  req'[r] = req[r]
    BY <1>8 DEF Decide, StartJoin, StartLeave, CloseOne, RequestReads, RequestWrites, ReqOK
  <1>9. ASSUME NEW d \in Candidates, NEW to \in CandidateState, NEW k \in Collectors \cup {None},
               Decide(r, d, to, k) \/ StartJoin(r, d, k) \/ StartLeave(r, d)
        PROVE  FALSE
    BY <1>2, <1>9 DEF Decide, StartJoin, StartLeave
  <1>10. CandidateState # {}
    BY DEF CandidateState
  <1> HIDE DEF Evidence
  <1> QED BY <1>4, <1>5, <1>6, <1>7, <1>8, <1>9, <1>10, ReqSteps

\* A membership goes only by a leave of its own candidate.
LEMMA MemberGoesOn ==
  ASSUME RowsApart, IInv, Next, NEW c \in Candidates, Member(c)
  PROVE  Evidence(c)'
  <1> USE DEF IInv, ActiveOK
  <1>1. PICK k \in Collectors, g \in RowsOf(c) : active[k][g] > 0
    BY DEF Member
  <1>2. g \in Groups
    BY RowsAreGroups
  <1>3. CASE active'[k][g] > 0
    BY <1>3 DEF Member, Evidence, RowsOf
  <1>4. ASSUME NEW r \in Requests, NEW l \in Collectors, CloseOne(r, l) PROVE Evidence(c)'
    <2>1. req[r].cand \in Candidates /\ req[r].row \in RowsOf(req[r].cand)
      BY <1>4 DEF CloseOne, ReqOK, Asks
    <2>2. CASE active[l][req[r].row] = 1 /\ l = k /\ req[r].row = g
      <3>1. req[r].cand = c
        BY <2>1, <2>2 DEF RowsApart
      <3>2. req'[r] = Closed(r, l)
        BY <1>4, <2>2 DEF CloseOne, ReqOK
      <3> QED BY <3>1, <3>2 DEF Closed, Leaving, Evidence
    <2>3. CASE ~(active[l][req[r].row] = 1 /\ l = k /\ req[r].row = g)
      <3>1. active'[k][g] = active[k][g]
        BY <1>2, <1>4, <2>3 DEF CloseOne
      <3> QED BY <1>1, <1>3, <3>1
    <2> QED BY <2>2, <2>3
  <1>5. ASSUME NEW l \in Collectors, NEW w \in Coroutines, Inserts(l, w) PROVE active'[k][g] > 0
    BY <1>1, <1>2, <1>5 DEF Inserts
  <1> QED BY <1>1, <1>3, <1>4, <1>5, ActiveSteps

\* A settlement opens a membership, takes JOINED back, or dies with its process.
LEMMA SettlementGoesOn ==
  ASSUME IInv, Next, NEW c \in Candidates, state[c] = "JOINED", state'[c] = "JOINED",
         SettlingNow(c)
  PROVE  Evidence(c)'
  <1> USE DEF IInv
  <1>1. PICK k \in Collectors, w \in Coroutines : IsSettling(k, w, c)
    BY DEF SettlingNow
  <1>2. CASE IsSettling(k, w, c)'
    BY <1>2 DEF SettlingNow, Evidence
  <1>3. ASSUME NEW l \in Collectors, CollectorCrashes(l) PROVE Evidence(c)'
    <2>1. CASE l = k
      BY <1>1, <1>3, <2>1 DEF CollectorCrashes, Evidence
    <2>2. CASE l # k
      BY <1>1, <1>2, <1>3, <2>2 DEF CollectorCrashes, IsSettling, WorkOK
    <2> QED BY <2>1, <2>2
  <1>4. ASSUME NEW l \in Collectors, NEW v \in Coroutines, work[l][v].at = "claim",
               GoesTo(l, v, "open")
        PROVE  IsSettling(k, w, c)'
    BY <1>1, <1>4 DEF GoesTo, Moves, IsSettling, Settling, WorkOK
  <1>5. ASSUME NEW l \in Collectors, NEW v \in Coroutines, Inserts(l, v) PROVE Evidence(c)'
    <2>1. CASE l = k /\ v = w
      <3>1. work[k][w].cand = c /\ work[k][w].row \in RowsOf(c) /\ work[k][w].row \in Groups
        BY <1>1, RowsAreGroups DEF IsSettling, Settling, WorkOK, Carries
      <3>2. active'[k][work[k][w].row] > 0
        BY <1>5, <2>1, <3>1 DEF Inserts, ActiveOK
      <3> QED BY <3>1, <3>2 DEF Member, Evidence, RowsOf
    <2>2. CASE ~(l = k /\ v = w)
      BY <1>1, <1>2, <1>5, <2>2 DEF Inserts, Moves, IsSettling, WorkOK
    <2> QED BY <2>1, <2>2
  <1>6. ASSUME NEW l \in Collectors, NEW v \in Coroutines, Undo(l, v) PROVE IsSettling(k, w, c)'
    <2>1. CASE l = k /\ v = w
      BY <1>1, <1>6, <2>1 DEF Undo, IsSettling, StateOK, WorkOK, Carries
    <2>2. CASE ~(l = k /\ v = w)
      BY <1>1, <1>6, <2>2 DEF Undo, Moves, IsSettling, WorkOK
    <2> QED BY <2>1, <2>2
  <1> QED BY <1>1, <1>2, <1>3, <1>4, <1>5, <1>6, Settlements

\* However requests, ticks, commands, detectors and crashes interleave, JOINED
\* has its membership, or its coroutine is about to open one or to take JOINED
\* back, or a leave is taking it down, or a crash in between was recorded.
THEOREM JoinedHasMembershipHolds ==
  ASSUME RowsApart
  PROVE  Spec => []JoinedHasMembership
  <1>1. ASSUME Init PROVE JoinedHasMembership
    BY <1>1 DEF Init, JoinedHasMembership
  <1>2. ASSUME IInv, JoinedHasMembership, [Next]_vars PROVE JoinedHasMembership'
    <2>1. CASE Next
      <3> SUFFICES ASSUME NEW c \in Candidates, state'[c] = "JOINED" PROVE Evidence(c)'
        BY DEF JoinedHasMembership, Evidence
      <3>1. CASE state[c] # "JOINED"
        BY <1>2, <2>1, <3>1, Wins DEF Evidence
      <3>2. CASE state[c] = "JOINED"
        <4>1. CASE c \in orphaned
          BY <2>1, <4>1, OrphanedGrows DEF Evidence
        <4>2. CASE Leaving(c)
          BY <1>2, <2>1, <3>2, <4>2, LeavingGoesOn
        <4>3. CASE Member(c)
          BY <1>2, <2>1, <4>3, MemberGoesOn
        <4>4. CASE SettlingNow(c)
          BY <1>2, <2>1, <3>2, <4>4, SettlementGoesOn
        <4> QED BY <1>2, <3>2, <4>1, <4>2, <4>3, <4>4 DEF JoinedHasMembership
      <3> QED BY <3>1, <3>2
    <2>2. CASE UNCHANGED vars
      BY <1>2, <2>2 DEF vars, JoinedHasMembership, Member, SettlingNow, IsSettling, Leaving, RowsOf
    <2> QED BY <1>2, <2>1, <2>2
  <1> QED BY <1>1, <1>2, Inductive, PTL DEF Spec

-----------------------------------------------------------------------------
(* One membership for one approval. *)

\* While nobody overrules the candidate, at most one coroutine settles it, it is
\* JOINED while one does, and the row about to be inserted is not there.
Alone(c) ==
  /\ \A k, l \in Collectors, v, w \in Coroutines :
       IsSettling(k, v, c) /\ IsSettling(l, w, c) => k = l /\ v = w
  /\ SettlingNow(c) => state[c] = "JOINED"
  /\ \A k \in Collectors, w \in Coroutines :
       work[k][w].at = "insert" /\ work[k][w].cand = c => active[k][work[k][w].row] = 0
  /\ \A k \in Collectors, g \in RowsOf(c) : active[k][g] <= 1

\* History only grows: a candidate once overruled stays so.
LEMMA OverruledGrows ==
  ASSUME Next
  PROVE  overruled \subseteq overruled'
  <1>1. ASSUME NEW r \in Requests, Request(r) PROVE overruled \subseteq overruled'
    BY <1>1 DEF Request, Decide, StartJoin, StartLeave, CloseOne, RequestReads, RequestWrites,
                Overrule, bounds, history
  <1>2. CASE Tick \/ SupervisorCrashes
    BY <1>2 DEF Tick, Snapshot, Dispatch, SupervisorReads, SupervisorWrites, Publish, TickEnds,
                SupervisorRestarts, SupervisorCrashes, Overrule, bounds, history
  <1>3. ASSUME NEW k \in Collectors,
               Boot(k) \/ Command(k) \/ RefreshForms(k) \/ CollectorCrashes(k)
        PROVE  overruled \subseteq overruled'
    BY <1>3 DEF Boot, Command, Spawned, Subscribed, RefreshForms, HandleJoin, JoinAccepted,
                JoinPending, JoinRefused, CommandReads, CommandWrites, HandleLeave,
                CollectorCrashes, Overrule, bounds, history
  <1>4. ASSUME NEW k \in Collectors, NEW w \in Coroutines, Settle(k, w) \/ OpenFails(k, w)
        PROVE  overruled \subseteq overruled'
    BY <1>4 DEF Settle, Claim, LooksForDuplicate, Inserts, Undo, OpenFails, bounds, history
  <1>5. ASSUME NEW k \in Collectors, NEW c \in Candidates, Detect(k, c)
        PROVE  overruled \subseteq overruled'
    BY <1>5 DEF Detect, MessageArrives, ProbeConfirms, bounds, history
  <1>6. CASE Platform \/ \E c \in Candidates : Mention(c)
    BY <1>6 DEF Platform, AdminApproves, AdminExpels, Mention, bounds, history
  <1> QED BY <1>1, <1>2, <1>3, <1>4, <1>5, <1>6 DEF Next, Fault

\* Where a settlement comes from.
LEMMA SettlementBegins ==
  ASSUME IInv, Next, NEW c \in Candidates, NEW k \in Collectors, NEW w \in Coroutines,
         IsSettling(k, w, c)'
  PROVE  \/ IsSettling(k, w, c)
         \/ state[c] # "JOINED" /\ Claim(k, w) /\ GoesTo(k, w, "open")
  <1> USE DEF IInv
  <1>1. ASSUME NEW l \in Collectors, CollectorCrashes(l) PROVE IsSettling(k, w, c)
    BY <1>1 DEF CollectorCrashes, IsSettling, WorkOK, NoWork, Settling
  <1>2. ASSUME NEW l \in Collectors, NEW v \in Coroutines,
               work[l][v].at = "claim", state[work[l][v].cand] = work[l][v].edge,
               Claim(l, v), GoesTo(l, v, "open")
        PROVE  IsSettling(k, w, c) \/ (state[c] # "JOINED" /\ l = k /\ v = w)
    BY <1>2 DEF GoesTo, Moves, IsSettling, WorkOK, Carries
  <1>3. ASSUME NEW l \in Collectors, NEW v \in Coroutines, Inserts(l, v) \/ Undo(l, v)
        PROVE  IsSettling(k, w, c)
    BY <1>3 DEF Inserts, Undo, Moves, NoWork, IsSettling, Settling, WorkOK
  <1> QED BY <1>1, <1>2, <1>3, Settlements

\* Only the coroutine that settles, or a blind write that overrules it, takes a
\* candidate out of JOINED while it is settled.
LEMMA SettledStaysJoined ==
  ASSUME IInv, Next, NEW c \in Candidates, c \notin overruled', state[c] = "JOINED",
         NEW k \in Collectors, NEW w \in Coroutines, IsSettling(k, w, c), ~Undo(k, w),
         Alone(c)
  PROVE  state'[c] = "JOINED"
  <1> USE DEF IInv
  <1>1. ASSUME NEW d \in Candidates, overruled' = Overrule(d), NEW s,
               state' = [state EXCEPT ![d] = s]
        PROVE  state'[c] = "JOINED"
    BY <1>1 DEF Overrule, StateOK
  <1>2. ASSUME NEW r \in Requests, RequestWrites(r) PROVE state'[c] = "JOINED"
    BY <1>1, <1>2 DEF RequestWrites, ReqOK, Asks
  <1>3. CASE SupervisorWrites
    BY <1>1, <1>3 DEF SupervisorWrites, SupOK
  <1>4. ASSUME NEW l \in Collectors, CommandWrites(l) PROVE state'[c] = "JOINED"
    BY <1>1, <1>4 DEF CommandWrites, WorkOK, Carries, Coroutines
  <1>5. ASSUME NEW l \in Collectors, NEW v \in Coroutines, Claim(l, v)
        PROVE  state'[c] = "JOINED"
    BY <1>5 DEF Claim, StateOK
  <1>6. ASSUME NEW l \in Collectors, NEW v \in Coroutines, Undo(l, v)
        PROVE  state'[c] = "JOINED"
    <2>1. work[l][v].cand # c
      <3>1. work[l][v].at \in Settling
        BY <1>6 DEF Undo, Settling
      <3>2. CASE work[l][v].cand = c
        BY <1>6, <3>1, <3>2 DEF IsSettling, Alone
      <3> QED BY <3>2
    <2> QED BY <1>6, <2>1 DEF Undo, StateOK
  <1> QED BY <1>2, <1>3, <1>4, <1>5, <1>6, TableSteps DEF table

\* The row a coroutine is about to insert.
LEMMA RowStaysFree ==
  ASSUME RowsApart, IInv, Next, NEW c \in Candidates, Alone(c),
         NEW k \in Collectors, NEW w \in Coroutines,
         work'[k][w].at = "insert", work'[k][w].cand = c
  PROVE  active'[k][work'[k][w].row] = 0
  <1> USE DEF IInv
  <1>1. CASE LooksForDuplicate(k, w)
    BY <1>1 DEF LooksForDuplicate, GoesTo, Moves, WorkOK
  <1>2. CASE work'[k][w] = work[k][w]
    <2>1. /\ active[k][work[k][w].row] = 0
          /\ work[k][w].row \in RowsOf(c) /\ work[k][w].row \in Groups
      BY <1>2, RowsAreGroups DEF Alone, WorkOK, Carries
    <2>2. ASSUME NEW r \in Requests, NEW l \in Collectors, CloseOne(r, l)
          PROVE  active'[k][work[k][w].row] = 0
      BY <2>1, <2>2 DEF CloseOne, ActiveOK
    <2>3. ASSUME NEW l \in Collectors, NEW v \in Coroutines, Inserts(l, v)
          PROVE  active'[k][work[k][w].row] = 0
      <3>1. CASE l = k /\ work[l][v].row = work[k][w].row
        <4>1. work[l][v].cand \in Candidates /\ work[l][v].row \in RowsOf(work[l][v].cand)
          BY <2>3 DEF Inserts, WorkOK, Carries
        <4>2. work[l][v].cand = c
          BY <2>1, <3>1, <4>1 DEF RowsApart
        <4>3. v = w
          BY <1>2, <2>3, <3>1, <4>2 DEF Inserts, IsSettling, Settling, Alone
        <4>4. work'[k][w] = NoWork
          BY <2>3, <3>1, <4>3 DEF Inserts, Moves, WorkOK
        <4> QED BY <4>4 DEF NoWork
      <3>2. CASE ~(l = k /\ work[l][v].row = work[k][w].row)
        BY <2>1, <2>3, <3>2 DEF Inserts, ActiveOK
      <3> QED BY <3>1, <3>2
    <2> QED BY <1>2, <2>1, <2>2, <2>3, ActiveSteps
  <1>3. ASSUME NEW l \in Collectors, NEW v \in Coroutines, NEW me,
               Moves(l, v, me), me.at # "insert"
        PROVE  work'[k][w] = work[k][w]
    BY <1>3 DEF Moves, WorkOK
  <1>4. ASSUME NEW l \in Collectors,
               HandleJoin(l) \/ JoinAccepted(l) \/ JoinPending(l) \/ JoinRefused(l)
                 \/ CommandReads(l) \/ CommandWrites(l)
        PROVE  work'[k][w] = work[k][w]
    BY <1>3, <1>4 DEF HandleJoin, JoinAccepted, JoinPending, JoinRefused, CommandReads,
                      CommandWrites, GoesTo, NoWork, Coroutines
  <1>5. ASSUME NEW l \in Collectors, NEW d \in Candidates,
               MessageArrives(l, d) \/ ProbeConfirms(l, d)
        PROVE  work'[k][w] = work[k][w]
    BY <1>3, <1>5 DEF MessageArrives, ProbeConfirms, Coroutines
  <1>6. ASSUME NEW l \in Collectors, NEW v \in Coroutines,
               Claim(l, v) \/ Inserts(l, v) \/ OpenFails(l, v) \/ Undo(l, v)
        PROVE  work'[k][w] = work[k][w]
    BY <1>3, <1>6 DEF Claim, Inserts, OpenFails, Undo, GoesTo, NoWork
  <1>7. ASSUME NEW l \in Collectors, NEW v \in Coroutines, LooksForDuplicate(l, v),
               ~(l = k /\ v = w)
        PROVE  work'[k][w] = work[k][w]
    BY <1>7 DEF LooksForDuplicate, GoesTo, Moves, WorkOK
  <1>8. ASSUME NEW l \in Collectors, CollectorCrashes(l) PROVE work'[k][w] = work[k][w]
    BY <1>8 DEF CollectorCrashes, NoWork, WorkOK
  <1> QED BY <1>1, <1>2, <1>4, <1>5, <1>6, <1>7, <1>8, WorkSteps

\* A row is inserted only where there is none.
LEMMA AtMostOne ==
  ASSUME RowsApart, IInv, Next, NEW c \in Candidates, Alone(c),
         NEW k \in Collectors, NEW g \in RowsOf(c)
  PROVE  active'[k][g] <= 1
  <1> USE DEF IInv, ActiveOK
  <1>1. active[k][g] <= 1 /\ g \in Groups
    BY RowsAreGroups DEF Alone
  <1>2. ASSUME NEW r \in Requests, NEW l \in Collectors, CloseOne(r, l)
        PROVE  active'[k][g] <= 1
    BY <1>1, <1>2 DEF CloseOne
  <1>3. ASSUME NEW l \in Collectors, NEW v \in Coroutines, Inserts(l, v)
        PROVE  active'[k][g] <= 1
    <2>1. work[l][v].cand \in Candidates /\ work[l][v].row \in RowsOf(work[l][v].cand)
      BY <1>3 DEF Inserts, WorkOK, Carries
    <2>2. CASE l = k /\ work[l][v].row = g
      <3>1. work[l][v].cand = c
        BY <2>1, <2>2 DEF RowsApart
      <3>2. active[k][g] = 0
        BY <1>3, <2>2, <3>1 DEF Inserts, Alone
      <3> QED BY <1>1, <1>3, <2>2, <3>2 DEF Inserts
    <2>3. CASE ~(l = k /\ work[l][v].row = g)
      BY <1>1, <1>3, <2>3 DEF Inserts
    <2> QED BY <2>2, <2>3
  <1> QED BY <1>1, <1>2, <1>3, ActiveSteps

\* However often a command is published again and whichever coroutine sees a join
\* first, one approval opens one membership, unless a blind write overruled the
\* candidate while it settled.
THEOREM OneMembershipPerJoinHolds ==
  ASSUME RowsApart
  PROVE  Spec => []OneMembershipPerJoin
  <1> DEFINE AllAlone == \A c \in Candidates \ overruled : Alone(c)
  <1>1. ASSUME Init PROVE AllAlone
    BY <1>1, RowsAreGroups
       DEF Init, Alone, IsSettling, SettlingNow, NoWork, Settling
  <1>2. ASSUME IInv, AllAlone, [Next]_vars PROVE AllAlone'
    <2>1. CASE Next
      <3> SUFFICES ASSUME NEW c \in Candidates, c \notin overruled' PROVE Alone(c)'
        OBVIOUS
      <3>1. Alone(c)
        BY <1>2, <2>1, OverruledGrows
      <3>2. ASSUME NEW k \in Collectors, NEW l \in Collectors,
                   NEW v \in Coroutines, NEW w \in Coroutines,
                   IsSettling(k, v, c)', IsSettling(l, w, c)'
            PROVE  k = l /\ v = w
        <4>1. CASE IsSettling(k, v, c) /\ IsSettling(l, w, c)
          BY <3>1, <4>1 DEF Alone
        <4>2. CASE state[c] = "JOINED"
          BY <1>2, <2>1, <3>2, <4>1, <4>2, SettlementBegins
        <4>3. CASE state[c] # "JOINED"
          <5>1. GoesTo(k, v, "open") /\ GoesTo(l, w, "open") /\ Claim(k, v) /\ Claim(l, w)
            BY <1>2, <2>1, <3>1, <3>2, <4>3, SettlementBegins DEF Alone, SettlingNow
          <5>2. work[k][v].at = "claim" /\ work[l][w].at = "claim"
            BY <5>1 DEF Claim
          <5> QED BY <1>2, <5>1, <5>2 DEF GoesTo, Moves, IInv, WorkOK
        <4> QED BY <4>2, <4>3
      <3>3. ASSUME SettlingNow(c)' PROVE state'[c] = "JOINED"
        <4>1. PICK k \in Collectors, w \in Coroutines : IsSettling(k, w, c)'
          BY <3>3 DEF SettlingNow
        <4>2. CASE IsSettling(k, w, c)
          <5>1. ~Undo(k, w)
            BY <1>2, <4>1 DEF Undo, Moves, NoWork, IsSettling, Settling, IInv, WorkOK
          <5>2. state[c] = "JOINED"
            BY <3>1, <4>2 DEF Alone, SettlingNow
          <5> QED BY <1>2, <2>1, <3>1, <4>2, <5>1, <5>2, SettledStaysJoined
        <4>3. CASE Claim(k, w) /\ GoesTo(k, w, "open")
          <5>1. work[k][w].cand = c
            BY <1>2, <4>1, <4>3 DEF GoesTo, Moves, IsSettling, IInv, WorkOK
          <5>2. state[c] = work[k][w].edge
            BY <1>2, <4>1, <4>3, <5>1
               DEF Claim, Moves, NoWork, IsSettling, Settling, IInv, WorkOK
          <5> QED BY <1>2, <4>3, <5>1, <5>2 DEF Claim, IInv, StateOK
        <4> QED BY <1>2, <2>1, <4>1, <4>2, <4>3, SettlementBegins
      <3>4. \A k \in Collectors, w \in Coroutines :
              work'[k][w].at = "insert" /\ work'[k][w].cand = c
                => active'[k][work'[k][w].row] = 0
        BY <1>2, <2>1, <3>1, RowStaysFree
      <3>5. \A k \in Collectors, g \in RowsOf(c) : active'[k][g] <= 1
        BY <1>2, <2>1, <3>1, AtMostOne
      <3> QED BY <3>2, <3>3, <3>4, <3>5 DEF Alone, RowsOf
    <2>2. CASE UNCHANGED vars
      BY <1>2, <2>2 DEF vars, Alone, SettlingNow, IsSettling, RowsOf
    <2> QED BY <1>2, <2>1, <2>2
  <1>3. AllAlone => OneMembershipPerJoin
    BY DEF Alone, OneMembershipPerJoin
  <1> QED BY <1>1, <1>2, <1>3, Inductive, PTL DEF Spec
==============================================================================
