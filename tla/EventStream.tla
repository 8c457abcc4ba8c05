---------------------------- MODULE EventStream ----------------------------
(***************************************************************************)
(* One client following a server-sent event stream across reconnects.      *)
(*                                                                         *)
(* A connection subscribes to the bus first, then replays the event logs   *)
(* after the id the client last saw, page by page, then passes on what     *)
(* came in over the bus, leaving out what it has replayed.  Events carry   *)
(* ids that grow as they are made; writers store and publish them in       *)
(* steps of their own, so either can happen out of order, and a publish    *)
(* can fail.  The queue between bus and client is bounded: an event that   *)
(* does not fit is dropped, and the connection closes.                     *)
(*                                                                         *)
(* Left out: heartbeats, the bodies of frames, and the token beyond that   *)
(* it can expire.                                                          *)
(***************************************************************************)
EXTENDS Naturals, FiniteSets, Sequences

CONSTANTS
  Count,       \* bound: events, numbered by id
  Kind,        \* what each event is about
  Topics,      \* the topics the stream is opened for
  HWM,         \* room in the queue
  REPLAY_PAGE, \* rows of one page
  MaxDrops     \* bound: connections that expire or break

Events == 1..Count

\* What an event is about.  The durable kinds have a log; the rest is on the bus
\* only and carries no id.
Durable == {"linkage", "persona", "released", "claimed"}
Passing == {"proposed", "panic", "freeze_all"}

ASSUME EventStreamConstants ==
  /\ Count \in Nat /\ HWM \in Nat \ {0} /\ REPLAY_PAGE \in Nat \ {0} /\ MaxDrops \in Nat
  /\ Kind \in [Events -> Durable \cup Passing]
  /\ Topics \subseteq {"attribution.linkage", "attribution.persona", "eyenet.control"}

VARIABLES
  made,      \* ids made so far
  log,       \* the event logs: events stored
  settled,   \* events published, or never to be
  conn,      \* the connection
  client,    \* what the client knows
  drops,     \* connections that expired or broke so far
  excused    \* history: events no client is promised, see below

vars == <<made, log, settled, conn, client, drops, excused>>

-----------------------------------------------------------------------------
(* State. *)

\* Subscriptions of a topic, each the kinds its pattern matches, and the table
\* its replay reads with the rows of it that it keeps.
Patterns(topic) == CASE topic = "attribution.linkage" -> {{"linkage", "proposed"}}
                     [] topic = "attribution.persona" -> {{"persona"}}
                     [] topic = "eyenet.control"      -> {{"panic"}, {"freeze_all"}, {"released"}}

Table(topic) == CASE topic = "attribution.linkage" -> {"linkage"}
                  [] topic = "attribution.persona" -> {"persona"}
                  [] topic = "eyenet.control"      -> {"released", "claimed"}

Kept == Durable \ {"claimed"}

TOPIC_SUBJECTS == UNION {Patterns(topic) : topic \in Topics}

\* The events a stream for these topics is for.
Ours == {e \in Events : \E p \in TOPIC_SUBJECTS : Kind[e] \in p}

\* phase: "subscribing", "reading" a page, "sending" it, then in turns at the
\* "top" of the live loop and at its "get".  subs: subscriptions made.  wanted:
\* topics whose table the page has not read.  cursor: the replay's position.
\* seen: replayed so far.  The rest is history: sent is how often the client
\* was given what, stored what the logs held when replay began, arrived what came in
\* before the queue overflowed.
Phases == {"closed", "subscribing", "reading", "sending", "top", "get"}

Closed == [phase |-> "closed", subs |-> {}, queue |-> <<>>, overflow |-> FALSE,
           resumes |-> FALSE, cursor |-> 0, wanted |-> <<>>, page |-> {}, full |-> FALSE,
           seen |-> {}, from |-> 0, sent |-> [e \in Events |-> 0], stored |-> {}, arrived |-> {}]

Open == conn.phase # "closed"

\* What the client was given on this connection.
Given == {e \in Events : conn.sent[e] > 0}

\* The tables a page reads, in this order.
Only(topic) == IF topic \in Topics THEN <<topic>> ELSE <<>>
Order == Only("attribution.linkage") \o Only("attribution.persona") \o Only("eyenet.control")

Smallest(n, S) == {e \in S : Cardinality({f \in S : f < e}) < n}

Init ==
  /\ made = 0 /\ log = {} /\ settled = {}
  /\ conn = Closed
  /\ client \in [knows : BOOLEAN, last : {0}, got : {{}}]
  /\ drops = 0 /\ excused = {}

-----------------------------------------------------------------------------
(* Writers: make an id, store the event, publish it. *)

Make ==
  /\ made < Count
  /\ made' = made + 1
  /\ UNCHANGED <<log, settled, conn, client, drops, excused>>

\* An event is overtaken when a later one is stored before it is settled, and
\* torn when it is stored after a page has read its table and before the page
\* has read all.
Torn(e) == conn.phase = "reading" /\ \A i \in DOMAIN conn.wanted : Kind[e] \notin Table(conn.wanted[i])

Store(e) ==
  /\ e \in 1..made \ log /\ Kind[e] \in Durable
  /\ log' = log \cup {e}
  /\ excused' = excused \cup {f \in 1..made \ settled : f < e}
                        \cup IF Torn(e) \/ \E f \in log : f > e THEN {e} ELSE {}
  /\ UNCHANGED <<made, settled, conn, client, drops>>

\* put_nowait, or the overflow that ends the connection.
Heard(e) ==
  IF \E p \in conn.subs : Kind[e] \in p
    THEN conn' = IF Len(conn.queue) < HWM
                   THEN [conn EXCEPT !.queue = Append(@, e),
                                     !.arrived = IF conn.overflow THEN @ ELSE @ \cup {e}]
                   ELSE [conn EXCEPT !.overflow = TRUE]
    ELSE UNCHANGED conn

Unsettled(e) == e \in 1..made \ settled /\ (Kind[e] \in Durable => e \in log)

Publish(e) ==
  /\ Unsettled(e)
  /\ settled' = settled \cup {e}
  /\ Heard(e)
  /\ UNCHANGED <<made, log, client, drops, excused>>

\* The publish fails, the writer dies before it, or the bus loses the message.
PublishLost(e) ==
  /\ Unsettled(e)
  /\ settled' = settled \cup {e}
  /\ excused' = excused \cup {e}
  /\ UNCHANGED <<made, log, conn, client, drops>>

-----------------------------------------------------------------------------
(* The connection. *)

\* The client sends the id it last saw, when it has seen one.
Connect ==
  /\ ~Open
  /\ conn' = [Closed EXCEPT !.phase = "subscribing", !.resumes = client.knows,
                            !.cursor = client.last, !.from = client.last]
  /\ UNCHANGED <<made, log, settled, client, drops, excused>>

Subscribe ==
  /\ conn.phase = "subscribing"
  /\ \E p \in TOPIC_SUBJECTS \ conn.subs : conn' = [conn EXCEPT !.subs = @ \cup {p}]
  /\ UNCHANGED <<made, log, settled, client, drops, excused>>

\* Without an id there is nothing to resume from: what is stored by now is past.
Subscribed ==
  /\ conn.phase = "subscribing" /\ conn.subs = TOPIC_SUBJECTS
  /\ IF conn.resumes
       THEN /\ conn' = [conn EXCEPT !.phase = "reading", !.wanted = Order, !.stored = log]
            /\ UNCHANGED excused
       ELSE /\ conn' = [conn EXCEPT !.phase = "top"]
            /\ excused' = excused \cup log
  /\ UNCHANGED <<made, log, settled, client, drops>>

\* One table: the rows after the cursor up to the limit, then the filter.
ReadTable ==
  /\ conn.phase = "reading" /\ conn.wanted # <<>>
  /\ LET rows == {e \in log : Kind[e] \in Table(Head(conn.wanted)) /\ e > conn.cursor}
     IN conn' = [conn EXCEPT !.wanted = Tail(@),
                             !.page = @ \cup {e \in Smallest(REPLAY_PAGE, rows) : Kind[e] \in Kept}]
  /\ UNCHANGED <<made, log, settled, client, drops, excused>>

\* Mutant of MergePage: only more rows than a page make another page.
MergePageShort ==
  /\ conn.phase = "reading" /\ conn.wanted = <<>>
  /\ LET page == Smallest(REPLAY_PAGE, conn.page)
     IN conn' = [conn EXCEPT !.phase = IF page = {} THEN "top" ELSE "sending",
                             !.page = page, !.full = Cardinality(page) > REPLAY_PAGE]
  /\ UNCHANGED <<made, log, settled, client, drops, excused>>

\* The tables merged and cut to one page.  A short page is the last.
MergePage ==
  /\ conn.phase = "reading" /\ conn.wanted = <<>>
  /\ LET page == Smallest(REPLAY_PAGE, conn.page)
     IN conn' = [conn EXCEPT !.phase = IF page = {} THEN "top" ELSE "sending",
                             !.page = page, !.full = Cardinality(page) = REPLAY_PAGE]
  /\ UNCHANGED <<made, log, settled, client, drops, excused>>

Receive(e, named) ==
  client' = [knows |-> client.knows \/ named,
             last  |-> IF named THEN e ELSE client.last,
             got   |-> client.got \cup {e}]

SendReplayed ==
  /\ conn.phase = "sending"
  /\ \E e \in Smallest(1, conn.page) :
       LET rest == conn.page \ {e}
       IN /\ Receive(e, TRUE)
          /\ conn' = [conn EXCEPT !.page = rest, !.seen = @ \cup {e}, !.sent[e] = @ + 1,
                                  !.cursor = IF rest = {} THEN e ELSE @,
                                  !.wanted = IF rest = {} /\ conn.full THEN Order ELSE <<>>,
                                  !.phase  = IF rest # {} THEN "sending"
                                             ELSE IF conn.full THEN "reading" ELSE "top"]
  /\ UNCHANGED <<made, log, settled, drops, excused>>

\* Mutant of PassChecks: overflow does not end the connection.
PassAnyway ==
  /\ conn.phase = "top"
  /\ conn' = [conn EXCEPT !.phase = "get"]
  /\ UNCHANGED <<made, log, settled, client, drops, excused>>

\* The top of the live loop: the checks that can end the connection.
PassChecks ==
  /\ conn.phase = "top" /\ ~conn.overflow
  /\ conn' = [conn EXCEPT !.phase = "get"]
  /\ UNCHANGED <<made, log, settled, client, drops, excused>>

\* Mutant of CloseOverflown: the flag is cleared and the stream goes on.
ClearOverflow ==
  /\ conn.phase = "top" /\ conn.overflow
  /\ conn' = [conn EXCEPT !.overflow = FALSE]
  /\ UNCHANGED <<made, log, settled, client, drops, excused>>

CloseOverflown ==
  /\ conn.phase = "top" /\ conn.overflow
  /\ conn' = Closed
  /\ UNCHANGED <<made, log, settled, client, drops, excused>>

\* Mutants of SendLive: what was replayed is sent again, and what has no id is
\* remembered as replayed.
SendLiveAgain ==
  /\ conn.phase = "get" /\ conn.queue # <<>>
  /\ LET e == Head(conn.queue)
     IN /\ conn' = [conn EXCEPT !.phase = "top", !.queue = Tail(@), !.sent[e] = @ + 1]
        /\ Receive(e, Kind[e] \in Durable)
  /\ UNCHANGED <<made, log, settled, drops, excused>>

SendLiveSeen ==
  /\ conn.phase = "get" /\ conn.queue # <<>>
  /\ LET e == Head(conn.queue)
     IN /\ conn' = [conn EXCEPT !.phase = "top", !.queue = Tail(@), !.seen = @ \cup {e}, !.sent[e] = @ + 1]
        /\ Receive(e, Kind[e] \in Durable)
  /\ UNCHANGED <<made, log, settled, drops, excused>>

SendLive ==
  /\ conn.phase = "get" /\ conn.queue # <<>>
  /\ LET e == Head(conn.queue)
         rest == [conn EXCEPT !.phase = "top", !.queue = Tail(@)]
     IN IF e \in conn.seen
          THEN conn' = rest /\ UNCHANGED client
          ELSE /\ conn' = [rest EXCEPT !.sent[e] = @ + 1]
               /\ Receive(e, Kind[e] \in Durable)
  /\ UNCHANGED <<made, log, settled, drops, excused>>

\* Nothing for HEARTBEAT_SECONDS: back to the checks.
Heartbeat ==
  /\ conn.phase = "get" /\ conn.queue = <<>>
  /\ conn' = [conn EXCEPT !.phase = "top"]
  /\ UNCHANGED <<made, log, settled, client, drops, excused>>

\* The token expires at the top of the loop, the network or either end fails
\* anywhere.
Drop ==
  /\ Open /\ drops < MaxDrops
  /\ drops' = drops + 1
  /\ conn' = Closed
  /\ UNCHANGED <<made, log, settled, client, excused>>

Serve == \/ Connect \/ Subscribe \/ Subscribed \/ ReadTable \/ MergePage \/ SendReplayed
         \/ PassChecks \/ CloseOverflown \/ SendLive \/ Heartbeat

Next ==
  \/ Make \/ \E e \in Events : Store(e) \/ Publish(e) \/ PublishLost(e)
  \/ Serve \/ Drop

\* The client reconnects and the server keeps running.
Spec == Init /\ [][Next]_vars /\ WF_vars(Serve)

-----------------------------------------------------------------------------
(* Properties. *)

TypeOK ==
  /\ made \in 0..Count /\ log \subseteq 1..made /\ settled \subseteq 1..made
  /\ conn \in [phase : Phases, subs : SUBSET TOPIC_SUBJECTS, queue : Seq(Events), overflow : BOOLEAN,
               resumes : BOOLEAN, cursor : 0..Count, wanted : Seq(Topics), page : SUBSET log,
               full : BOOLEAN, seen : SUBSET log, from : 0..Count, sent : [Events -> Nat],
               stored : SUBSET log, arrived : SUBSET settled]
  /\ client \in [knows : BOOLEAN, last : 0..Count, got : SUBSET Ours]
  /\ drops \in 0..MaxDrops /\ excused \subseteq Events

\* "Exact-once across the boundary": a connection implements the feed, that is,
\* whatever of replay and bus carries an event, it is delivered once at most.
Feed == INSTANCE EventFeed WITH happened <- log \cup settled, up <- Open, delivered <- conn.sent

FeedPromise == Feed!Spec

\* "Gap-free reconnect": when the connection waits for more, the client has all
\* the logs held after its id, and all that came in over the bus.
Waiting == conn.phase = "get" /\ conn.queue = <<>> /\ ~conn.overflow

NoGap ==
  Waiting => /\ conn.resumes => {e \in conn.stored \cap Ours : e > conn.from} \subseteq Given
             /\ conn.arrived \subseteq Given

\* Once the queue has overflown the connection ends before anything that came in
\* after the lost event is sent: the client resumes from an id before the gap.
NothingAfterOverflow == Given \subseteq conn.seen \cup conn.arrived

\* A client that reconnects gets every event in the end, unless a later one was stored
\* before it was published, its publish was lost, a page read its table too early,
\* or the client knew no id yet.
EventuallyDelivered ==
  \A e \in Events : e \in log \cap Ours \cap settled ~> e \in client.got \cup excused
=============================================================================
