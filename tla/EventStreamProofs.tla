------------------------- MODULE EventStreamProofs -------------------------
(***************************************************************************)
(* Proof that a connection of EventStream implements the feed of           *)
(* EventFeed, for any number of events, any queue and any page.            *)
(*                                                                         *)
(* An event can reach the client twice over: from the log and from the     *)
(* bus.  That it does not rests on three facts.  Replay goes upwards:      *)
(* everything sent is below everything a page still holds, and everything  *)
(* a new page can hold is above the cursor.  The queue holds no event      *)
(* twice, since an event is published once.  And what is in the queue and  *)
(* was sent already is in seen, where the live loop looks.  IInv states    *)
(* them with the types they need.                                          *)
(*                                                                         *)
(* That nothing is left out is CoverOK: what arrived was sent or is in the *)
(* queue, and what the logs held and replay has not sent is on the page,   *)
(* or behind a page that is full.  A page is what a query with a limit     *)
(* gives, the first rows of a table; that there are such rows is the       *)
(* least-set principle (LeastSet), and that what they leave out is behind  *)
(* all of them needs replay to keep every row it reads (EveryRowKept).     *)
(***************************************************************************)
EXTENDS EventStream, FiniteSetTheorems, WellFoundedInduction, TLAPS

-----------------------------------------------------------------------------
(* The inductive invariant. *)

Conn == [phase : Phases, subs : SUBSET TOPIC_SUBJECTS, queue : Seq(Events), overflow : BOOLEAN,
         resumes : BOOLEAN, cursor : 0..Count, wanted : Seq(Topics), page : SUBSET Events,
         full : BOOLEAN, seen : SUBSET Events, from : 0..Count, sent : [Events -> Nat],
         stored : SUBSET Events, arrived : SUBSET Events]

TypesOK ==
  /\ made \in 0..Count /\ log \subseteq Events /\ settled \subseteq Events
  /\ conn \in Conn
  /\ client \in [knows : BOOLEAN, last : 0..Count, got : SUBSET Events]

QueueIn(c, done) ==
  /\ \A i \in 1..Len(c.queue) :
       c.queue[i] \in done /\ (c.sent[c.queue[i]] # 0 => c.queue[i] \in c.seen)
  /\ \A i, j \in 1..Len(c.queue) : c.queue[i] = c.queue[j] => i = j
QueueOK == QueueIn(conn, settled)

SentIn(c, l, done) ==
  /\ c.seen \subseteq l /\ c.page \subseteq l
  /\ \A e \in Events : c.sent[e] # 0 => e \in c.seen \/ e \in done
SentOK == SentIn(conn, log, settled)

ReplayIn(c) ==
  /\ c.phase \in {"subscribing", "reading", "sending"} => \A e \in Events : c.sent[e] # 0 => e \in c.seen
  /\ c.phase = "subscribing" => c.seen = {} /\ c.page = {}
  /\ c.phase = "reading" => (\A s \in c.seen : s <= c.cursor) /\ (\A p \in c.page : p > c.cursor)
  /\ c.phase = "sending" => \A s \in c.seen, p \in c.page : s < p
ReplayOK == ReplayIn(conn)

IInv == TypesOK /\ QueueOK /\ SentOK /\ ReplayOK

\* The step that the feed takes when the stream takes one.
FeedStep == [Feed!Next]_(Feed!feed)

-----------------------------------------------------------------------------
(* Lemmas. *)

\* Replay takes the rows of a page in order: the one it sends is below the rest.
LEMMA SmallestIsBelow ==
  ASSUME NEW S \in SUBSET Events, NEW e \in Smallest(1, S)
  PROVE  e \in S /\ \A f \in S : f >= e
<1>1. e \in S /\ Cardinality({f \in S : f < e}) < 1
  BY DEF Smallest
<1>2. IsFiniteSet(Events)
  BY EventStreamConstants, FS_Interval DEF Events
<1>3. IsFiniteSet({f \in S : f < e})
  BY <1>2, FS_Subset
<1>4. Cardinality({f \in S : f < e}) \in Nat
  BY <1>3, FS_CardinalityType
<1>5. {f \in S : f < e} = {}
  BY <1>1, <1>3, <1>4, FS_EmptySet
<1> QED
  BY <1>1, <1>5, EventStreamConstants DEF Events

\* The order in which a page reads its tables is a list of topics.
LEMMA OrderType == Order \in Seq(Topics)
  BY DEF Order, Only

-----------------------------------------------------------------------------
(* The invariant holds at the start. *)

LEMMA Starts == Init => IInv /\ Feed!Init
<1> SUFFICES ASSUME Init PROVE IInv /\ Feed!Init
  OBVIOUS
<1>1. TypesOK
  BY EventStreamConstants DEF Init, TypesOK, Conn, Closed, Phases, Events
<1>2. QueueOK /\ SentOK /\ ReplayOK
  BY DEF Init, QueueOK, QueueIn, SentOK, SentIn, ReplayOK, ReplayIn, Closed
<1>3. Feed!Init
  BY DEF Init, Feed!Init, Feed!Nothing, Open, Closed
<1> QED
  BY <1>1, <1>2, <1>3 DEF IInv

-----------------------------------------------------------------------------
(* Every step keeps it and is a step of the feed. *)

LEMMA WritersStep ==
  ASSUME IInv, NEW e \in Events, Store(e) \/ Publish(e) \/ PublishLost(e)
  PROVE  IInv' /\ FeedStep
<1> USE DEF IInv
<1>2. CASE Store(e)
  <2>1. TypesOK' /\ QueueOK' /\ SentOK' /\ ReplayOK'
    BY <1>2 DEF Store, TypesOK, QueueOK, SentOK, SentIn, ReplayOK
  <2>2. Feed!Happen
    BY <1>2 DEF Store, Feed!Happen, Open
  <2> QED
    BY <2>1, <2>2 DEF FeedStep, Feed!Next
<1>3. CASE Publish(e)
  <2>1. e \notin settled /\ settled' = settled \cup {e} /\ UNCHANGED <<made, log, client>> /\ Heard(e)
    BY <1>3 DEF Publish, Unsettled
  <2>2. CASE conn' = conn
    <3>1. TypesOK' /\ QueueOK' /\ SentOK' /\ ReplayOK'
      BY <2>1, <2>2 DEF TypesOK, QueueOK, QueueIn, SentOK, SentIn, ReplayOK
    <3>2. Feed!Happen
      BY <2>1, <2>2 DEF Feed!Happen, Open
    <3> QED
      BY <3>1, <3>2 DEF FeedStep, Feed!Next
  <2>3. CASE conn' = [conn EXCEPT !.overflow = TRUE]
    <3>1. TypesOK'
      BY <2>1, <2>3 DEF TypesOK, Conn
    <3>2. /\ conn'.queue = conn.queue /\ conn'.sent = conn.sent /\ conn'.seen = conn.seen
          /\ conn'.page = conn.page /\ conn'.phase = conn.phase /\ conn'.cursor = conn.cursor
      BY <2>3 DEF TypesOK, Conn
    <3>3. QueueOK' /\ SentOK' /\ ReplayOK'
      BY <2>1, <3>2 DEF QueueOK, QueueIn, SentOK, SentIn, ReplayOK, ReplayIn
    <3>4. Feed!Happen
      BY <2>1, <3>2 DEF Feed!Happen, Open
    <3> QED
      BY <3>1, <3>3, <3>4 DEF FeedStep, Feed!Next
  <2>4. CASE conn' = [conn EXCEPT !.queue = Append(@, e),
                                  !.arrived = IF conn.overflow THEN @ ELSE @ \cup {e}]
    <3>1. TypesOK'
      <4>1. Append(conn.queue, e) \in Seq(Events)
        BY DEF TypesOK, Conn
      <4>2. (IF conn.overflow THEN conn.arrived ELSE conn.arrived \cup {e}) \in SUBSET Events
        BY DEF TypesOK, Conn
      <4>3. conn' \in Conn
        BY <2>4, <4>1, <4>2 DEF TypesOK, Conn
      <4> QED
        BY <2>1, <4>3 DEF TypesOK
    <3>2. /\ conn'.queue = Append(conn.queue, e) /\ conn'.sent = conn.sent /\ conn'.seen = conn.seen
          /\ conn'.page = conn.page /\ conn'.phase = conn.phase /\ conn'.cursor = conn.cursor
      BY <2>4 DEF TypesOK, Conn
    <3>3. conn.queue \in Seq(Events)
      BY DEF TypesOK, Conn
    <3>4. /\ Len(conn'.queue) = Len(conn.queue) + 1 /\ conn'.queue[Len(conn.queue) + 1] = e
          /\ \A i \in 1..Len(conn.queue) : conn'.queue[i] = conn.queue[i]
          /\ Len(conn.queue) \in Nat
      BY <3>2, <3>3
    <3>5. conn.sent[e] # 0 => e \in conn.seen
      BY <2>1 DEF SentOK, SentIn
    <3>6. \A i \in 1..Len(conn'.queue) :
            conn'.queue[i] \in settled' /\ (conn'.sent[conn'.queue[i]] # 0 => conn'.queue[i] \in conn'.seen)
      BY <2>1, <3>2, <3>4, <3>5 DEF QueueOK, QueueIn
    <3>7. \A i, j \in 1..Len(conn'.queue) : conn'.queue[i] = conn'.queue[j] => i = j
      BY <2>1, <3>2, <3>4 DEF QueueOK, QueueIn
    <3>8. QueueOK' /\ SentOK' /\ ReplayOK'
      BY <2>1, <3>2, <3>6, <3>7 DEF QueueOK, QueueIn, SentOK, SentIn, ReplayOK, ReplayIn
    <3>9. Feed!Happen
      BY <2>1, <3>2 DEF Feed!Happen, Open
    <3> QED
      BY <3>1, <3>8, <3>9 DEF FeedStep, Feed!Next
  <2> QED
    BY <2>1, <2>2, <2>3, <2>4 DEF Heard
<1>4. CASE PublishLost(e)
  <2>1. TypesOK' /\ QueueOK' /\ SentOK' /\ ReplayOK'
    BY <1>4 DEF PublishLost, TypesOK, QueueOK, QueueIn, SentOK, SentIn, ReplayOK
  <2>2. Feed!Happen
    BY <1>4 DEF PublishLost, Feed!Happen, Open
  <2> QED
    BY <2>1, <2>2 DEF FeedStep, Feed!Next
<1> QED
  BY <1>2, <1>3, <1>4

\* Opening the stream and closing it.
LEMMA OpensAndCloses ==
  ASSUME IInv, Connect \/ CloseOverflown \/ Drop
  PROVE  IInv' /\ FeedStep
<1> USE DEF IInv
<1>1. CASE Connect
  <2>1. TypesOK' /\ QueueOK' /\ SentOK' /\ ReplayOK'
    <3>1. conn' \in Conn
      <4>1. client.knows \in BOOLEAN /\ client.last \in 0..Count
        BY DEF TypesOK
      <4>2. Closed \in Conn
        BY EventStreamConstants DEF Conn, Closed, Phases, Events
      <4> QED
        BY <1>1, <4>1, <4>2 DEF Connect, Conn, Phases
    <3>2. /\ conn'.queue = <<>> /\ conn'.sent = [e \in Events |-> 0] /\ conn'.seen = {}
          /\ conn'.page = {} /\ conn'.phase = "subscribing"
      BY <1>1 DEF Connect, Closed
    <3>3. UNCHANGED <<made, log, settled, client>>
      BY <1>1 DEF Connect
    <3> QED
      BY <3>1, <3>2, <3>3 DEF TypesOK, QueueOK, QueueIn, SentOK, SentIn, ReplayOK, ReplayIn
  <2>2. Feed!Open
    BY <1>1 DEF Connect, Feed!Open, Feed!Nothing, Open, Closed
  <2> QED
    BY <2>1, <2>2 DEF FeedStep, Feed!Next
<1>2. CASE CloseOverflown \/ Drop
  <2>1. conn' = Closed /\ Open /\ UNCHANGED <<made, log, settled, client>>
    BY <1>2 DEF CloseOverflown, Drop, Open
  <2>2. TypesOK'
    BY <2>1, EventStreamConstants DEF TypesOK, Conn, Closed, Phases, Events
  <2>3. QueueOK' /\ SentOK' /\ ReplayOK'
    BY <2>1 DEF Closed, QueueOK, QueueIn, SentOK, SentIn, ReplayOK, ReplayIn
  <2>4. Feed!Close
    BY <2>1 DEF Feed!Close, Feed!Nothing, Open, Closed
  <2> QED
    BY <2>2, <2>3, <2>4 DEF FeedStep, Feed!Next
<1> QED
  BY <1>1, <1>2

\* Subscribing, reading a page and waiting give the client nothing.
LEMMA Prepares ==
  ASSUME IInv, Subscribe \/ Subscribed \/ ReadTable \/ MergePage \/ PassChecks \/ Heartbeat
  PROVE  IInv' /\ FeedStep
<1> USE DEF IInv
<1>1. /\ UNCHANGED <<made, log, settled, client>>
      /\ conn'.queue = conn.queue /\ conn'.sent = conn.sent /\ conn'.seen = conn.seen
      /\ conn'.cursor = conn.cursor
      /\ Open /\ Open'
  <2>1. CASE Subscribe \/ Subscribed
    BY <2>1 DEF Subscribe, Subscribed, Open, TypesOK, Conn
  <2>2. CASE ReadTable
    BY <2>2 DEF ReadTable, Open, TypesOK, Conn
  <2>3. CASE MergePage
    BY <2>3 DEF MergePage, Open, TypesOK, Conn
  <2>4. CASE PassChecks \/ Heartbeat
    BY <2>4 DEF PassChecks, Heartbeat, Open, TypesOK, Conn
  <2> QED
    BY <2>1, <2>2, <2>3, <2>4
<1>2. FeedStep
  BY <1>1 DEF FeedStep, Feed!feed
<1>3. QueueOK'
  BY <1>1 DEF QueueOK, QueueIn
<1>4. CASE Subscribe
  <2> PICK p \in TOPIC_SUBJECTS \ conn.subs : conn' = [conn EXCEPT !.subs = @ \cup {p}]
    BY <1>4 DEF Subscribe
  <2>1. conn' \in Conn /\ conn'.page = conn.page /\ conn'.phase = conn.phase
    <3>1. conn.subs \cup {p} \in SUBSET TOPIC_SUBJECTS
      BY DEF TypesOK, Conn
    <3> QED
      BY <3>1 DEF TypesOK, Conn
  <2> QED
    BY <1>1, <1>2, <1>3, <2>1 DEF TypesOK, SentOK, SentIn, ReplayOK, ReplayIn
<1>5. CASE Subscribed
  <2>1. conn' \in Conn
    <3>1. log \in SUBSET Events /\ Order \in Seq(Topics)
      BY OrderType DEF TypesOK
    <3>2. \/ conn' = [conn EXCEPT !.phase = "reading", !.wanted = Order, !.stored = log]
          \/ conn' = [conn EXCEPT !.phase = "top"]
      BY <1>5 DEF Subscribed
    <3>3. CASE conn' = [conn EXCEPT !.phase = "reading", !.wanted = Order, !.stored = log]
      BY <3>1, <3>3 DEF TypesOK, Conn, Phases
    <3>4. CASE conn' = [conn EXCEPT !.phase = "top"]
      BY <3>4 DEF TypesOK, Conn, Phases
    <3> QED
      BY <3>2, <3>3, <3>4
  <2>2. conn.phase = "subscribing" /\ conn'.page = conn.page /\ conn'.phase \in {"reading", "top"}
    BY <1>5 DEF Subscribed, TypesOK, Conn
  <2> QED
    BY <1>1, <1>2, <1>3, <2>1, <2>2 DEF TypesOK, SentOK, SentIn, ReplayOK, ReplayIn
<1>6. CASE ReadTable
  <2> DEFINE rows == {e \in log : Kind[e] \in Table(Head(conn.wanted)) /\ e > conn.cursor}
             new  == {e \in Smallest(REPLAY_PAGE, rows) : Kind[e] \in Kept}
  <2>1. conn' = [conn EXCEPT !.wanted = Tail(@), !.page = @ \cup new]
    BY <1>6 DEF ReadTable
  <2>2. conn.phase = "reading" /\ conn.wanted # <<>>
    BY <1>6 DEF ReadTable
  <2>3. new \subseteq log /\ \A p \in new : p > conn.cursor
    BY DEF Smallest
  <2> HIDE DEF new, rows
  <2>4. conn' \in Conn
    <3>1. Tail(conn.wanted) \in Seq(Topics)
      BY <2>2 DEF TypesOK, Conn
    <3>2. conn.page \cup new \in SUBSET Events
      BY <2>3 DEF TypesOK, Conn
    <3> QED
      BY <2>1, <3>1, <3>2 DEF TypesOK, Conn
  <2>5. conn'.page = conn.page \cup new /\ conn'.phase = conn.phase
    BY <2>1 DEF TypesOK, Conn
  <2> QED
    BY <1>1, <1>2, <1>3, <2>2, <2>3, <2>4, <2>5 DEF TypesOK, SentOK, SentIn, ReplayOK, ReplayIn
<1>7. CASE MergePage
  <2> DEFINE merged == Smallest(REPLAY_PAGE, conn.page)
  <2>1. merged \subseteq conn.page
    BY DEF Smallest
  <2>2. /\ conn.phase = "reading"
        /\ conn' = [conn EXCEPT !.phase = IF merged = {} THEN "top" ELSE "sending",
                                !.page = merged, !.full = Cardinality(merged) = REPLAY_PAGE]
    BY <1>7 DEF MergePage
  <2> HIDE DEF merged
  <2>3. conn' \in Conn
    BY <2>1, <2>2 DEF TypesOK, Conn, Phases
  <2>4. conn'.page = merged /\ conn'.phase \in {"top", "sending"}
    BY <2>2 DEF TypesOK, Conn
  <2>5. \A s \in conn.seen, p \in merged : s < p
    BY <2>1, <2>2, EventStreamConstants DEF ReplayOK, ReplayIn, TypesOK, Conn, Events
  <2> QED
    BY <1>1, <1>2, <1>3, <2>1, <2>2, <2>3, <2>4, <2>5 DEF TypesOK, SentOK, SentIn, ReplayOK, ReplayIn
<1>8. CASE PassChecks \/ Heartbeat
  <2>1. conn' \in Conn /\ conn'.page = conn.page /\ conn'.phase \in {"top", "get"}
    BY <1>8 DEF PassChecks, Heartbeat, TypesOK, Conn, Phases
  <2> QED
    BY <1>1, <1>2, <1>3, <2>1 DEF TypesOK, SentOK, SentIn, ReplayOK, ReplayIn
<1> QED
  BY <1>4, <1>5, <1>6, <1>7, <1>8

\* What the client is given has happened, and was not given to it before.
LEMMA DeliversFresh ==
  ASSUME NEW e \in log \cup settled, IInv, Open, Open',
         UNCHANGED <<log, settled>>, conn.sent[e] = 0,
         conn'.sent = [conn.sent EXCEPT ![e] = @ + 1]
  PROVE  FeedStep
<1>1. conn'.sent = [conn.sent EXCEPT ![e] = 1]
  OBVIOUS
<1>2. Feed!Deliver
  BY <1>1 DEF Feed!Deliver
<1> QED
  BY <1>2 DEF FeedStep, Feed!Next

\* Replay goes upwards, so that the row it sends is one it has not sent.
LEMMA ReplaysOnce ==
  ASSUME IInv, SendReplayed
  PROVE  IInv' /\ FeedStep
<1> USE DEF IInv
<1>1. PICK e \in Smallest(1, conn.page) :
        LET rest == conn.page \ {e}
        IN /\ Receive(e, TRUE)
           /\ conn' = [conn EXCEPT !.page = rest, !.seen = @ \cup {e}, !.sent[e] = @ + 1,
                                   !.cursor = IF rest = {} THEN e ELSE @,
                                   !.wanted = IF rest = {} /\ conn.full THEN Order ELSE <<>>,
                                   !.phase  = IF rest # {} THEN "sending"
                                              ELSE IF conn.full THEN "reading" ELSE "top"]
  BY DEF SendReplayed
<1> DEFINE rest == conn.page \ {e}
<1>2. conn.phase = "sending" /\ UNCHANGED <<made, log, settled>>
  BY DEF SendReplayed
<1>3. conn.page \subseteq Events /\ conn.page \subseteq log
  BY DEF TypesOK, Conn, SentOK, SentIn
<1>4. e \in conn.page /\ \A f \in conn.page : f >= e
  BY <1>3, SmallestIsBelow
<1>5. e \in Events /\ e \in log /\ e \in 0..Count /\ Events \subseteq Nat
  BY <1>3, <1>4, EventStreamConstants DEF Events
<1>6. \A s \in conn.seen : s < e
  BY <1>2, <1>4 DEF ReplayOK, ReplayIn
<1>7. conn.sent[e] = 0
  <2>1. e \notin conn.seen
    BY <1>5, <1>6
  <2> QED
    BY <1>2, <1>5, <2>1 DEF ReplayOK, ReplayIn
<1>8. /\ conn'.page = rest /\ conn'.seen = conn.seen \cup {e}
      /\ conn'.sent = [conn.sent EXCEPT ![e] = @ + 1]
      /\ conn'.queue = conn.queue
      /\ conn'.cursor = IF rest = {} THEN e ELSE conn.cursor
      /\ conn'.phase = IF rest # {} THEN "sending" ELSE IF conn.full THEN "reading" ELSE "top"
  BY <1>1 DEF TypesOK, Conn
<1>9. TypesOK'
  <2>1. conn' \in Conn
    <3>1. [conn.sent EXCEPT ![e] = @ + 1] \in [Events -> Nat]
      BY <1>5 DEF TypesOK, Conn
    <3>2. (IF rest = {} /\ conn.full THEN Order ELSE <<>>) \in Seq(Topics)
      BY OrderType
    <3>3. conn.seen \cup {e} \in SUBSET Events /\ rest \in SUBSET Events
      BY <1>3, <1>5 DEF TypesOK, Conn
    <3>4. (IF rest = {} THEN e ELSE conn.cursor) \in 0..Count
      BY <1>5 DEF TypesOK, Conn
    <3>5. (IF rest # {} THEN "sending" ELSE IF conn.full THEN "reading" ELSE "top") \in Phases
      BY DEF Phases
    <3>6. conn \in Conn
      BY DEF TypesOK
    <3> HIDE DEF rest
    <3> QED
      BY <1>1, <3>1, <3>2, <3>3, <3>4, <3>5, <3>6 DEF Conn, rest
  <2>2. client' \in [knows : BOOLEAN, last : 0..Count, got : SUBSET Events]
    BY <1>1, <1>5 DEF Receive, TypesOK
  <2> QED
    BY <1>2, <2>1, <2>2 DEF TypesOK
<1>10. \A f \in Events : conn'.sent[f] # 0 => f \in conn'.seen
  BY <1>2, <1>5, <1>8 DEF ReplayOK, ReplayIn, TypesOK, Conn
<1>11. QueueOK'
  BY <1>2, <1>8, <1>10 DEF QueueOK, QueueIn, TypesOK, Conn
<1>12. SentOK'
  BY <1>2, <1>3, <1>5, <1>8, <1>10 DEF SentOK, SentIn
<1>13. ReplayOK'
  <2>1. \A s \in conn'.seen, p \in conn'.page : s < p
    <3> SUFFICES ASSUME NEW s \in conn.seen \cup {e}, NEW p \in rest PROVE s < p
      BY <1>8
    <3>1. p \in conn.page /\ p # e /\ p \in Nat /\ e \in Nat /\ p >= e
      BY <1>3, <1>4, <1>5
    <3>2. s \in conn.seen => s < p
      BY <1>2, <3>1 DEF ReplayOK, ReplayIn
    <3> QED
      BY <3>1, <3>2
  <2>2. ASSUME conn'.phase = "reading" PROVE (\A s \in conn'.seen : s <= conn'.cursor) /\ conn'.page = {}
    <3>1. rest = {} /\ conn'.cursor = e
      BY <1>8, <2>2
    <3>2. e \in Nat /\ conn.seen \subseteq Nat
      BY <1>5 DEF TypesOK, Conn
    <3> QED
      BY <1>6, <1>8, <3>1, <3>2
  <2>3. conn'.phase # "subscribing"
    BY <1>8
  <2> QED
    BY <1>10, <2>1, <2>2, <2>3 DEF ReplayOK, ReplayIn
<1>14. FeedStep
  <2>1. Open /\ Open'
    BY <1>2, <1>8 DEF Open
  <2> QED
    BY <1>2, <1>5, <1>7, <1>8, <2>1, DeliversFresh
<1> QED
  BY <1>9, <1>11, <1>12, <1>13, <1>14

\* The live loop passes on the head of the queue unless replay did.
LEMMA PassesOnOnce ==
  ASSUME IInv, SendLive
  PROVE  IInv' /\ FeedStep
<1> USE DEF IInv
<1> DEFINE e == Head(conn.queue)
<1>1. /\ conn.phase = "get" /\ conn.queue # <<>>
      /\ UNCHANGED <<made, log, settled>>
  BY DEF SendLive
<1>2. conn.queue \in Seq(Events) /\ conn \in Conn
  BY DEF TypesOK, Conn
<1>3. /\ e = conn.queue[1] /\ e \in Events /\ 1 \in 1..Len(conn.queue)
      /\ Tail(conn.queue) \in Seq(Events)
      /\ Len(Tail(conn.queue)) = Len(conn.queue) - 1 /\ Len(conn.queue) \in Nat
      /\ \A i \in 1..Len(Tail(conn.queue)) : Tail(conn.queue)[i] = conn.queue[i + 1]
  BY <1>1, <1>2
<1>4. e \in settled /\ (conn.sent[e] # 0 => e \in conn.seen)
  BY <1>3 DEF QueueOK, QueueIn
<1>5. \A i \in 1..Len(Tail(conn.queue)) :
        /\ i + 1 \in 1..Len(conn.queue)
        /\ Tail(conn.queue)[i] # e
        /\ Tail(conn.queue)[i] \in settled
        /\ conn.sent[Tail(conn.queue)[i]] # 0 => Tail(conn.queue)[i] \in conn.seen
  <2> SUFFICES ASSUME NEW i \in 1..Len(Tail(conn.queue))
               PROVE  /\ i + 1 \in 1..Len(conn.queue)
                      /\ conn.queue[i + 1] # e
                      /\ conn.queue[i + 1] \in settled
                      /\ conn.sent[conn.queue[i + 1]] # 0 => conn.queue[i + 1] \in conn.seen
    BY <1>3
  <2>1. i \in Nat /\ i + 1 \in 1..Len(conn.queue) /\ i + 1 # 1
    BY <1>3
  <2> QED
    BY <1>3, <2>1 DEF QueueOK, QueueIn
<1>6. \A i, j \in 1..Len(Tail(conn.queue)) : Tail(conn.queue)[i] = Tail(conn.queue)[j] => i = j
  BY <1>3, <1>5 DEF QueueOK, QueueIn
<1> HIDE DEF e
<1>7. CASE e \in conn.seen
  <2>1. /\ conn' = [conn EXCEPT !.phase = "top", !.queue = Tail(@)]
        /\ UNCHANGED client
    BY <1>7 DEF SendLive, e
  <2>2. /\ conn'.queue = Tail(conn.queue) /\ conn'.sent = conn.sent /\ conn'.seen = conn.seen
        /\ conn'.page = conn.page /\ conn'.phase = "top"
    BY <1>2, <2>1 DEF Conn
  <2>3. TypesOK'
    BY <1>1, <1>2, <1>3, <2>1 DEF TypesOK, Conn, Phases
  <2>4. QueueOK' /\ SentOK' /\ ReplayOK'
    BY <1>1, <1>5, <1>6, <2>2 DEF QueueOK, QueueIn, SentOK, SentIn, ReplayOK, ReplayIn
  <2>5. FeedStep
    BY <1>1, <2>2 DEF FeedStep, Feed!feed, Open
  <2> QED
    BY <2>3, <2>4, <2>5
<1>8. CASE e \notin conn.seen
  <2>1. /\ conn' = [conn EXCEPT !.phase = "top", !.queue = Tail(@), !.sent[e] = @ + 1]
        /\ Receive(e, Kind[e] \in Durable)
    BY <1>8 DEF SendLive, e
  <2>2. /\ conn'.queue = Tail(conn.queue) /\ conn'.sent = [conn.sent EXCEPT ![e] = @ + 1]
        /\ conn'.seen = conn.seen /\ conn'.page = conn.page /\ conn'.phase = "top"
    BY <1>2, <2>1 DEF Conn
  <2>3. conn.sent \in [Events -> Nat] /\ conn.sent[e] = 0
    BY <1>2, <1>3, <1>4, <1>8 DEF Conn
  <2>4. TypesOK'
    <3>1. [conn.sent EXCEPT ![e] = @ + 1] \in [Events -> Nat]
      BY <1>3, <2>3
    <3>2. conn' \in Conn
      BY <1>2, <1>3, <2>1, <3>1 DEF Conn, Phases
    <3>3. e \in 0..Count
      BY <1>3, EventStreamConstants DEF Events
    <3>4. client' \in [knows : BOOLEAN, last : 0..Count, got : SUBSET Events]
      BY <1>3, <2>1, <3>3 DEF Receive, TypesOK, Durable
    <3> QED
      BY <1>1, <3>2, <3>4 DEF TypesOK
  <2>5. QueueOK'
    BY <1>1, <1>3, <1>5, <1>6, <2>2, <2>3 DEF QueueOK, QueueIn
  <2>6. SentOK'
    BY <1>1, <1>4, <2>2, <2>3 DEF SentOK, SentIn
  <2>7. ReplayOK'
    BY <2>2 DEF ReplayOK, ReplayIn
  <2>8. FeedStep
    BY <1>1, <1>4, <2>2, <2>3, DeliversFresh DEF Open
  <2> QED
    BY <2>4, <2>5, <2>6, <2>7, <2>8
<1> QED
  BY <1>7, <1>8

LEMMA StepKeeps == IInv /\ [Next]_vars => IInv' /\ FeedStep
<1> SUFFICES ASSUME IInv, [Next]_vars PROVE IInv' /\ FeedStep
  OBVIOUS
<1>1. ASSUME NEW e \in Events, Store(e) \/ Publish(e) \/ PublishLost(e)
      PROVE  IInv' /\ FeedStep
  BY <1>1, WritersStep
<1>2. CASE Make
  <2>1. TypesOK' /\ QueueOK' /\ SentOK' /\ ReplayOK'
    BY <1>2, EventStreamConstants DEF IInv, Make, TypesOK, QueueOK, SentOK, ReplayOK
  <2>2. FeedStep
    BY <1>2 DEF Make, FeedStep, Feed!feed, Open
  <2> QED
    BY <2>1, <2>2 DEF IInv
<1>3. CASE Serve \/ Drop
  BY <1>3, OpensAndCloses, Prepares, ReplaysOnce, PassesOnOnce DEF Serve
<1>4. CASE UNCHANGED vars
  BY <1>4 DEF vars, IInv, TypesOK, QueueOK, SentOK, ReplayOK, FeedStep, Feed!feed, Open
<1> QED
  BY <1>1, <1>2, <1>3, <1>4 DEF Next

-----------------------------------------------------------------------------
(* The end of an overflown connection. *)

\* Before the queue overflows it holds what arrived.  When it overflows during
\* get, get may still pass on the head, which arrived before.
OverflowIn(c) ==
  /\ \A e \in Events : c.sent[e] # 0 => e \in c.seen \cup c.arrived
  /\ ~c.overflow => \A i \in 1..Len(c.queue) : c.queue[i] \in c.arrived
  /\ c.overflow /\ c.phase = "get" => Len(c.queue) > 0 /\ c.queue[1] \in c.arrived
OverflowOK == OverflowIn(conn)

LEMMA OverflowHeard ==
  ASSUME TypesOK, OverflowOK, NEW e \in Events, Heard(e)
  PROVE  OverflowOK'
<1>1. conn \in Conn /\ conn.queue \in Seq(Events) /\ HWM \in Nat \ {0} /\ Len(conn.queue) \in Nat
  BY EventStreamConstants DEF TypesOK, Conn
<1>2. CASE conn' = conn
  BY <1>2 DEF OverflowOK, OverflowIn
<1>3. CASE Len(conn.queue) >= HWM /\ conn' = [conn EXCEPT !.overflow = TRUE]
  <2>1. /\ conn'.queue = conn.queue /\ conn'.sent = conn.sent /\ conn'.seen = conn.seen
        /\ conn'.arrived = conn.arrived /\ conn'.phase = conn.phase
    BY <1>1, <1>3 DEF Conn
  <2>2. Len(conn.queue) > 0 /\ 1 \in 1..Len(conn.queue) /\ conn.overflow \in BOOLEAN
    BY <1>1, <1>3 DEF Conn
  <2>3. conn'.overflow = TRUE
    BY <1>1, <1>3 DEF Conn
  <2> QED
    BY <2>1, <2>2, <2>3 DEF OverflowOK, OverflowIn
<1>4. CASE conn' = [conn EXCEPT !.queue = Append(@, e),
                                !.arrived = IF conn.overflow THEN @ ELSE @ \cup {e}]
  <2>1. /\ conn'.queue = Append(conn.queue, e) /\ conn'.sent = conn.sent /\ conn'.seen = conn.seen
        /\ conn'.arrived = (IF conn.overflow THEN conn.arrived ELSE conn.arrived \cup {e})
        /\ conn'.phase = conn.phase /\ conn'.overflow = conn.overflow
    BY <1>1, <1>4 DEF Conn
  <2>2. /\ Len(conn'.queue) = Len(conn.queue) + 1 /\ conn'.queue[Len(conn.queue) + 1] = e
        /\ \A i \in 1..Len(conn.queue) : conn'.queue[i] = conn.queue[i]
    BY <1>1, <2>1
  <2>3. ~conn'.overflow => \A i \in 1..Len(conn'.queue) : conn'.queue[i] \in conn'.arrived
    BY <1>1, <2>1, <2>2 DEF OverflowOK, OverflowIn
  <2>4. ASSUME conn'.overflow, conn'.phase = "get"
        PROVE  Len(conn'.queue) > 0 /\ conn'.queue[1] \in conn'.arrived
    <3>1. Len(conn.queue) > 0 /\ conn.queue[1] \in conn.arrived
      BY <2>1, <2>4 DEF OverflowOK, OverflowIn
    <3>2. 1 \in 1..Len(conn.queue)
      BY <1>1, <3>1
    <3> QED
      BY <1>1, <2>1, <2>2, <3>1, <3>2
  <2>5. \A f \in Events : conn'.sent[f] # 0 => f \in conn'.seen \cup conn'.arrived
    BY <2>1 DEF OverflowOK, OverflowIn
  <2> QED
    BY <2>3, <2>4, <2>5 DEF OverflowOK, OverflowIn
<1> QED
  BY <1>1, <1>2, <1>3, <1>4 DEF Heard

LEMMA OverflowStep == IInv /\ OverflowOK /\ [Next]_vars => OverflowOK'
<1> SUFFICES ASSUME IInv, OverflowOK, [Next]_vars PROVE OverflowOK'
  OBVIOUS
<1>1. TypesOK /\ conn \in Conn
  BY DEF IInv, TypesOK
<1>2. ASSUME NEW e \in Events, Store(e) \/ Publish(e) \/ PublishLost(e)
      PROVE  OverflowOK'
  BY <1>1, <1>2, OverflowHeard DEF Store, Publish, PublishLost, OverflowOK
<1>3. CASE Make \/ UNCHANGED vars
  BY <1>3 DEF Make, vars, OverflowOK
<1>4. CASE Connect \/ CloseOverflown \/ Drop
  <2>1. /\ conn'.sent = Closed.sent /\ conn'.queue = Closed.queue
        /\ conn'.overflow = Closed.overflow
    <3>1. CASE Connect
      BY <3>1 DEF Connect, Closed
    <3>2. CASE CloseOverflown \/ Drop
      BY <3>2 DEF CloseOverflown, Drop
    <3> QED
      BY <1>4, <3>1, <3>2
  <2> QED
    BY <2>1 DEF OverflowOK, OverflowIn, Closed
<1>5. CASE Subscribe \/ Subscribed \/ ReadTable \/ MergePage \/ PassChecks \/ Heartbeat
  <2>1. /\ conn'.queue = conn.queue /\ conn'.sent = conn.sent /\ conn'.seen = conn.seen
        /\ conn'.arrived = conn.arrived /\ conn'.overflow = conn.overflow
        /\ conn'.phase = "get" => ~conn.overflow
    <3>1. CASE Subscribe \/ Subscribed
      BY <1>1, <3>1 DEF Subscribe, Subscribed, Conn
    <3>2. CASE ReadTable
      BY <1>1, <3>2 DEF ReadTable, Conn
    <3>3. CASE MergePage
      BY <1>1, <3>3 DEF MergePage, Conn
    <3>4. CASE PassChecks \/ Heartbeat
      BY <1>1, <3>4 DEF PassChecks, Heartbeat, Conn
    <3> QED
      BY <1>5, <3>1, <3>2, <3>3, <3>4
  <2> QED
    BY <2>1 DEF OverflowOK, OverflowIn
<1>6. CASE SendReplayed
  <2>1. PICK e \in Smallest(1, conn.page) :
          /\ conn'.seen = conn.seen \cup {e} /\ conn'.sent = [conn.sent EXCEPT ![e] = @ + 1]
          /\ conn'.queue = conn.queue /\ conn'.arrived = conn.arrived
          /\ conn'.overflow = conn.overflow /\ conn'.phase # "get"
    BY <1>1, <1>6 DEF SendReplayed, Conn
  <2>2. conn.sent \in [Events -> Nat]
    BY <1>1 DEF Conn
  <2> QED
    BY <2>1, <2>2 DEF OverflowOK, OverflowIn
<1>7. CASE SendLive
  <2> DEFINE e == Head(conn.queue)
  <2>1. /\ conn.phase = "get" /\ conn.queue # <<>> /\ conn.queue \in Seq(Events)
        /\ conn.sent \in [Events -> Nat]
    BY <1>1, <1>7 DEF SendLive, Conn
  <2>2. /\ conn'.queue = Tail(conn.queue) /\ conn'.arrived = conn.arrived
        /\ conn'.overflow = conn.overflow /\ conn'.phase = "top" /\ conn'.seen = conn.seen
        /\ conn'.sent \in {conn.sent, [conn.sent EXCEPT ![e] = @ + 1]}
    <3>1. CASE e \in conn.seen
      <4>1. conn' = [conn EXCEPT !.phase = "top", !.queue = Tail(@)]
        BY <1>7, <3>1 DEF SendLive
      <4> QED
        BY <1>1, <2>1, <4>1 DEF Conn
    <3>2. CASE e \notin conn.seen
      <4>1. conn' = [conn EXCEPT !.phase = "top", !.queue = Tail(@), !.sent[e] = @ + 1]
        BY <1>7, <3>2 DEF SendLive
      <4> QED
        BY <1>1, <2>1, <4>1 DEF Conn
    <3> QED
      BY <3>1, <3>2
  <2>3. /\ e = conn.queue[1] /\ e \in Events /\ 1 \in 1..Len(conn.queue)
        /\ Len(Tail(conn.queue)) = Len(conn.queue) - 1 /\ Len(conn.queue) \in Nat
        /\ \A i \in 1..Len(Tail(conn.queue)) : Tail(conn.queue)[i] = conn.queue[i + 1]
    BY <2>1
  <2>4. e \in conn.arrived
    BY <1>1, <2>1, <2>3 DEF OverflowOK, OverflowIn, Conn
  <2>5. ~conn'.overflow => \A i \in 1..Len(conn'.queue) : conn'.queue[i] \in conn'.arrived
    BY <2>2, <2>3 DEF OverflowOK, OverflowIn
  <2> HIDE DEF e
  <2>6. \A f \in Events : conn'.sent[f] # 0 => f \in conn'.seen \cup conn'.arrived
    BY <2>1, <2>2, <2>3, <2>4 DEF OverflowOK, OverflowIn
  <2> QED
    BY <2>2, <2>5, <2>6 DEF OverflowOK, OverflowIn
<1> QED
  BY <1>2, <1>3, <1>4, <1>5, <1>6, <1>7 DEF Next, Serve

-----------------------------------------------------------------------------
(* What the logs and the queue hold, and what replay has covered. *)

\* The bounds of TypeOK that IInv does without.
HeldIn(c, l, done) ==
  /\ c.stored \subseteq l /\ c.page \subseteq Ours /\ c.arrived \subseteq done
  /\ \A i \in 1..Len(c.queue) : c.queue[i] \in Ours
HeldOK ==
  /\ log \subseteq 1..made /\ settled \subseteq 1..made
  /\ \A e \in log : Kind[e] \in Durable
  /\ HeldIn(conn, log, settled) /\ client.got \subseteq Ours
  /\ drops \in 0..MaxDrops /\ excused \subseteq Events

\* What is left to replay of the logs as they were when it began.
Left(c) == {e \in c.stored \cap Ours : e > c.from} \ c.seen

\* A page in the making has reached e: it holds e, or it is full below e.
Reached(e, page) == e \in page \/ Cardinality({p \in page : p < e}) >= REPLAY_PAGE

\* While a page is read, what is left is above the cursor, and what is left of
\* the tables it has read is reached.  While it is sent, what is left is on it,
\* or another page follows and it is above this one.  Then nothing is left.
CoverIn(c) ==
  /\ \A e \in c.seen : c.sent[e] # 0
  /\ \A e \in c.arrived : c.sent[e] # 0 \/ \E i \in 1..Len(c.queue) : c.queue[i] = e
  /\ c.phase = "subscribing" => c.cursor = c.from
  /\ c.resumes =>
       /\ c.phase = "reading" =>
            \A e \in Left(c) :
              /\ e > c.cursor
              /\ (\A i \in 1..Len(c.wanted) : Kind[e] \notin Table(c.wanted[i])) => Reached(e, c.page)
       /\ c.phase = "sending" =>
            \A e \in Left(c) : e \in c.page \/ (c.full /\ \A p \in c.page : p < e)
       /\ c.phase \in {"top", "get"} => Left(c) = {}
CoverOK == CoverIn(conn)

\* No topic's table holds rows that replay leaves out, that is, the stream is
\* not eyenet.control with identities claimed: such rows fill a page and make
\* it the last.
EveryRowKept ==
  \A topic \in Topics, e \in Events : Kind[e] \in Table(topic) => Kind[e] \in Kept

\* A nonempty family of subsets of a finite set has a least one.
LEMMA LeastSet ==
  ASSUME NEW S, NEW F, IsFiniteSet(S), F # {}, \A T \in F : T \subseteq S
  PROVE  \E T \in F : \A U \in F : U \subseteq T => U = T
<1>1. IsWellFoundedOn(StrictSubsetOrdering(S), SUBSET S)
  BY FS_StrictSubsetOrderingWellFounded, FS_FiniteSubsetsOfFinite
<1>2. \E T \in F : \A U \in F : ~ (<<U, T>> \in StrictSubsetOrdering(S))
  BY <1>1, WFMin
<1> QED
  BY <1>2 DEF StrictSubsetOrdering

LEMMA FiniteEvents ==
  ASSUME NEW S \in SUBSET Events
  PROVE  IsFiniteSet(S) /\ Cardinality(S) \in Nat /\ S \subseteq Nat
<1>1. IsFiniteSet(Events) /\ Events \subseteq Nat
  BY EventStreamConstants, FS_Interval DEF Events
<1> QED
  BY <1>1, FS_Subset, FS_CardinalityType

\* Events have a last one.
LEMMA LastEvent ==
  ASSUME NEW S \in SUBSET Events, S # {}
  PROVE  \E m \in S : \A e \in S : e <= m
<1> DEFINE From(x) == {y \in S : y >= x}
           F == {T \in SUBSET S : \E x \in S : T = From(x)}
<1>0. (\A T \in F : T \subseteq S) /\ F # {} /\ IsFiniteSet(S)
  BY FiniteEvents
<1>1. PICK T \in F : \A U \in F : U \subseteq T => U = T
  <2> HIDE DEF F
  <2> QED
    BY <1>0, LeastSet
<1>2. PICK m \in S : T = From(m)
  BY <1>1
<1>3. ASSUME NEW e \in S PROVE e <= m
  <2>1. e \in Nat /\ m \in Nat /\ S \subseteq Nat
    BY FiniteEvents
  <2>2. SUFFICES ASSUME e > m PROVE FALSE
    BY <2>1
  <2>3. From(e) \subseteq From(m)
    <3> SUFFICES ASSUME NEW y \in S, y >= e PROVE y >= m
      OBVIOUS
    <3> QED
      BY <2>1, <2>2
  <2>4. From(e) = From(m)
    <3>1. From(e) \in F
      OBVIOUS
    <3> HIDE DEF F, From
    <3> QED
      BY <1>1, <1>2, <2>3, <3>1
  <2>5. m \in From(m) /\ m \notin From(e)
    BY <2>1, <2>2
  <2> QED
    BY <2>4, <2>5
<1> QED
  BY <1>3

\* When n rows are below e, the page of the n smallest is full and below e.
LEMMA PageFills ==
  ASSUME NEW S \in SUBSET Events, NEW n \in Nat, NEW e \in Nat,
         Cardinality({f \in S : f < e}) >= n
  PROVE  Cardinality(Smallest(n, S)) = n /\ \A f \in Smallest(n, S) : f < e
<1> DEFINE Low == {f \in S : f < e}
           F == {T \in SUBSET Low : Cardinality(T) >= n /\ \A t \in T, s \in S : s < t => s \in T}
<1>1. S \subseteq Nat /\ IsFiniteSet(Low) /\ Low \subseteq S
  BY FiniteEvents
<1>2. Low \in F
  BY <1>1
<1>3. PICK T \in F : \A U \in F : U \subseteq T => U = T
  <2>1. (\A T \in F : T \subseteq Low) /\ F # {}
    BY <1>2
  <2> HIDE DEF F, Low
  <2> QED
    BY <1>1, <2>1, LeastSet
<1>4. /\ T \subseteq Low /\ T \subseteq S /\ T \in SUBSET Events /\ Cardinality(T) >= n
      /\ \A t \in T, s \in S : s < t => s \in T
  BY <1>3
<1>5. IsFiniteSet(T) /\ Cardinality(T) \in Nat
  BY <1>4, FiniteEvents
<1>6. Cardinality(T) = n
  <2> SUFFICES ASSUME Cardinality(T) > n PROVE FALSE
    BY <1>4, <1>5
  <2>1. T # {}
    BY <1>5, FS_EmptySet
  <2>2. PICK m \in T : \A t \in T : t <= m
    BY <1>4, <2>1, LastEvent
  <2>3. Cardinality(T \ {m}) = Cardinality(T) - 1
    BY <1>5, FS_RemoveElement
  <2>4. ASSUME NEW t \in T \ {m}, NEW s \in S, s < t PROVE s \in T \ {m}
    <3>1. t <= m /\ s \in Nat /\ t \in Nat /\ m \in Nat /\ s \in T
      BY <1>1, <1>4, <2>2, <2>4
    <3> QED
      BY <2>4, <3>1
  <2>5. T \ {m} \in F
    BY <1>4, <1>5, <2>3, <2>4
  <2> HIDE DEF F
  <2> QED
    BY <1>3, <2>5
<1>7. ASSUME NEW t \in T PROVE t \in Smallest(n, S)
  <2>1. {f \in S : f < t} \subseteq T \ {t}
    <3> SUFFICES ASSUME NEW f \in S, f < t PROVE f \in T /\ f # t
      OBVIOUS
    <3>1. f \in Nat /\ t \in Nat
      BY <1>1, <1>4
    <3> HIDE DEF F, Low
    <3> QED
      BY <1>4, <3>1
  <2>2. IsFiniteSet(T \ {t}) /\ Cardinality(T \ {t}) = n - 1
    BY <1>5, <1>6, FS_RemoveElement
  <2>3. Cardinality({f \in S : f < t}) <= n - 1 /\ Cardinality({f \in S : f < t}) \in Nat
    BY <2>1, <2>2, FS_Subset, FiniteEvents
  <2> QED
    BY <1>4, <2>3 DEF Smallest
<1>8. ASSUME NEW s \in S, s \notin T PROVE s \notin Smallest(n, S)
  <2>1. T \subseteq {f \in S : f < s}
    <3> SUFFICES ASSUME NEW t \in T PROVE t < s
      BY <1>4
    <3>1. t # s /\ ~(s < t) /\ t \in Nat /\ s \in Nat
      BY <1>1, <1>4, <1>8
    <3> QED
      BY <3>1
  <2>2. IsFiniteSet({f \in S : f < s}) /\ Cardinality({f \in S : f < s}) \in Nat
    BY FiniteEvents
  <2>3. n <= Cardinality({f \in S : f < s})
    BY <1>6, <2>1, <2>2, FS_Subset
  <2> QED
    BY <2>2, <2>3 DEF Smallest
<1>9. Smallest(n, S) = T
  BY <1>4, <1>7, <1>8 DEF Smallest
<1> QED
  BY <1>4, <1>6, <1>9

\* Replay and stream agree: the rows replay keeps are the stream's, and the
\* tables of a page hold all of the stream's that are stored.
LEMMA KeptIsOurs ==
  ASSUME NEW e \in Events, NEW topic \in Topics, Kind[e] \in Table(topic), Kind[e] \in Kept
  PROVE  e \in Ours
<1>1. topic \in {"attribution.linkage", "attribution.persona", "eyenet.control"}
  BY EventStreamConstants
<1>2. \E p \in Patterns(topic) : Kind[e] \in p
  BY <1>1 DEF Table, Patterns, Kept
<1> QED
  BY <1>2 DEF Ours, TOPIC_SUBJECTS

LEMMA OursIsRead ==
  ASSUME NEW e \in Ours, Kind[e] \in Durable
  PROVE  \E i \in 1..Len(Order) : Kind[e] \in Table(Order[i])
<1>1. PICK topic \in Topics : \E p \in Patterns(topic) : Kind[e] \in p
  BY DEF Ours, TOPIC_SUBJECTS
<1>2. topic \in {"attribution.linkage", "attribution.persona", "eyenet.control"}
  BY EventStreamConstants
<1>3. Kind[e] \in Table(topic)
  BY <1>1, <1>2 DEF Table, Patterns, Durable
<1>4. \E i \in 1..Len(Order) : Order[i] = topic
  <2>1. CASE topic = "attribution.linkage"
    <3>1. Order[1] = topic /\ 1 \in 1..Len(Order)
      BY <2>1 DEF Order, Only
    <3> QED
      BY <3>1
  <2>2. CASE topic = "attribution.persona"
    <3> DEFINE n == Len(Only("attribution.linkage")) + 1
    <3>1. Order[n] = topic /\ n \in 1..Len(Order)
      BY <2>2 DEF Order, Only
    <3> QED
      BY <3>1
  <2>3. CASE topic = "eyenet.control"
    <3>1. Order[Len(Order)] = topic /\ Len(Order) \in 1..Len(Order)
      BY <2>3 DEF Order, Only
    <3> QED
      BY <3>1
  <2> QED
    BY <1>2, <2>1, <2>2, <2>3
<1> QED
  BY <1>3, <1>4

LEMMA HeldStart == Init => HeldOK
<1> SUFFICES ASSUME Init PROVE HeldOK
  OBVIOUS
<1> QED
  BY EventStreamConstants DEF Init, HeldOK, HeldIn, Closed

LEMMA HeldWriters ==
  ASSUME TypesOK, HeldOK, NEW e \in Events, Store(e) \/ Publish(e) \/ PublishLost(e)
  PROVE  HeldOK'
<1>1. CASE Store(e)
  <2>1. excused' \subseteq Events
    <3>1. 1..made \subseteq Events
      BY EventStreamConstants DEF TypesOK, Events
    <3>2. excused' \subseteq excused \cup 1..made \cup {e}
      BY <1>1 DEF Store
    <3> QED
      BY <3>1, <3>2 DEF HeldOK
  <2> QED
    BY <1>1, <2>1 DEF Store, HeldOK, HeldIn
<1>2. CASE PublishLost(e)
  BY <1>2 DEF PublishLost, Unsettled, HeldOK, HeldIn
<1>3. CASE Publish(e)
  <2>1. settled' = settled \cup {e} /\ e \in 1..made /\ UNCHANGED <<made, log, client, drops, excused>> /\ Heard(e)
    BY <1>3 DEF Publish, Unsettled
  <2>2. HeldIn(conn', log, settled')
    <3>1. CASE conn' = conn \/ conn' = [conn EXCEPT !.overflow = TRUE]
      <4>1. /\ conn'.stored = conn.stored /\ conn'.page = conn.page /\ conn'.arrived = conn.arrived
            /\ conn'.queue = conn.queue
        BY <3>1 DEF TypesOK, Conn
      <4> QED
        BY <2>1, <4>1 DEF HeldOK, HeldIn
    <3>2. CASE /\ \E p \in conn.subs : Kind[e] \in p
               /\ conn' = [conn EXCEPT !.queue = Append(@, e),
                                       !.arrived = IF conn.overflow THEN @ ELSE @ \cup {e}]
      <4>1. e \in Ours
        BY <3>2 DEF TypesOK, Conn, Ours
      <4>2. conn.queue \in Seq(Events)
        BY DEF TypesOK, Conn
      <4>3. /\ conn'.stored = conn.stored /\ conn'.page = conn.page
            /\ conn'.arrived \subseteq conn.arrived \cup {e}
            /\ conn'.queue = Append(conn.queue, e)
        BY <3>2 DEF TypesOK, Conn
      <4>4. \A i \in 1..Len(conn'.queue) : conn'.queue[i] \in Ours
        BY <4>1, <4>2, <4>3 DEF HeldOK, HeldIn
      <4> QED
        BY <2>1, <4>3, <4>4 DEF HeldOK, HeldIn
    <3> QED
      BY <2>1, <3>1, <3>2 DEF Heard
  <2> QED
    BY <2>1, <2>2 DEF HeldOK
<1> QED
  BY <1>1, <1>2, <1>3

LEMMA HeldServe ==
  ASSUME TypesOK, HeldOK, Serve \/ Drop
  PROVE  HeldOK'
<1>1. /\ UNCHANGED <<made, log, settled>> /\ excused' \subseteq excused \cup log
      /\ drops' \in 0..MaxDrops
  <2>1. CASE Drop
    BY <2>1, EventStreamConstants DEF Drop, HeldOK
  <2>2. CASE Subscribed
    BY <2>2 DEF Subscribed, HeldOK
  <2>3. CASE Serve /\ ~Subscribed
    BY <2>3
       DEF Serve, Connect, Subscribe, ReadTable, MergePage, SendReplayed, PassChecks,
           CloseOverflown, SendLive, Heartbeat, HeldOK
  <2> QED
    BY <2>1, <2>2, <2>3
<1>2. SUFFICES HeldIn(conn', log, settled) /\ client'.got \subseteq Ours
  BY <1>1 DEF HeldOK, TypesOK
<1>3. CASE Connect \/ CloseOverflown \/ Drop
  <2>1. /\ conn'.stored = {} /\ conn'.page = {} /\ conn'.arrived = {} /\ conn'.queue = <<>>
        /\ client' = client
    <3>1. CASE Connect
      BY <3>1 DEF Connect, Closed
    <3>2. CASE CloseOverflown \/ Drop
      BY <3>2 DEF CloseOverflown, Drop, Closed
    <3> QED
      BY <1>3, <3>1, <3>2
  <2> QED
    BY <2>1 DEF HeldOK, HeldIn
<1>4. CASE Subscribe \/ Subscribed \/ PassChecks \/ Heartbeat
  <2>1. /\ conn'.page = conn.page /\ conn'.arrived = conn.arrived /\ conn'.queue = conn.queue
        /\ conn'.stored \in {conn.stored, log} /\ client' = client
    BY <1>4 DEF Subscribe, Subscribed, PassChecks, Heartbeat, TypesOK, Conn
  <2> QED
    BY <2>1 DEF HeldOK, HeldIn
<1>5. CASE ReadTable
  <2> DEFINE rows == {e \in log : Kind[e] \in Table(Head(conn.wanted)) /\ e > conn.cursor}
             new  == {e \in Smallest(REPLAY_PAGE, rows) : Kind[e] \in Kept}
  <2>1. /\ conn' = [conn EXCEPT !.wanted = Tail(@), !.page = @ \cup new]
        /\ conn.wanted # <<>> /\ client' = client
    BY <1>5 DEF ReadTable
  <2>2. Head(conn.wanted) \in Topics
    BY <2>1 DEF TypesOK, Conn
  <2>3. new \subseteq Ours
    <3> SUFFICES ASSUME NEW e \in new PROVE e \in Ours
      OBVIOUS
    <3>1. e \in log /\ e \in Events /\ Kind[e] \in Table(Head(conn.wanted)) /\ Kind[e] \in Kept
      BY DEF Smallest, TypesOK
    <3> QED
      BY <2>2, <3>1, KeptIsOurs
  <2> HIDE DEF new
  <2>4. /\ conn'.page = conn.page \cup new /\ conn'.arrived = conn.arrived
        /\ conn'.queue = conn.queue /\ conn'.stored = conn.stored
    BY <2>1 DEF TypesOK, Conn
  <2> QED
    BY <2>1, <2>3, <2>4 DEF HeldOK, HeldIn
<1>6. CASE MergePage
  <2>1. /\ conn'.page \subseteq conn.page /\ conn'.arrived = conn.arrived
        /\ conn'.queue = conn.queue /\ conn'.stored = conn.stored /\ client' = client
    <3>1. PICK page \in SUBSET conn.page, full \in BOOLEAN, phase \in {"top", "sending"} :
            conn' = [conn EXCEPT !.phase = phase, !.page = page, !.full = full]
      BY <1>6 DEF MergePage, Smallest
    <3>2. conn \in Conn /\ client' = client
      BY <1>6 DEF MergePage, TypesOK
    <3> QED
      BY <3>1, <3>2 DEF Conn
  <2> QED
    BY <2>1 DEF HeldOK, HeldIn
<1>7. CASE SendReplayed
  <2>1. PICK e \in Smallest(1, conn.page) :
          /\ Receive(e, TRUE)
          /\ conn'.page = conn.page \ {e} /\ conn'.arrived = conn.arrived
          /\ conn'.queue = conn.queue /\ conn'.stored = conn.stored
    <3>1. conn \in Conn
      BY DEF TypesOK
    <3>2. PICK e \in Smallest(1, conn.page) :
            LET rest == conn.page \ {e}
            IN /\ Receive(e, TRUE)
               /\ conn' = [conn EXCEPT !.page = rest, !.seen = @ \cup {e}, !.sent[e] = @ + 1,
                                       !.cursor = IF rest = {} THEN e ELSE @,
                                       !.wanted = IF rest = {} /\ conn.full THEN Order ELSE <<>>,
                                       !.phase  = IF rest # {} THEN "sending"
                                                  ELSE IF conn.full THEN "reading" ELSE "top"]
      BY <1>7 DEF SendReplayed
    <3> QED
      BY <3>1, <3>2 DEF Conn
  <2>2. e \in Ours
    BY DEF Smallest, HeldOK, HeldIn
  <2> QED
    BY <2>1, <2>2 DEF HeldOK, HeldIn, Receive
<1>8. CASE SendLive
  <2> DEFINE e == Head(conn.queue)
  <2>1. /\ conn.queue # <<>> /\ conn.queue \in Seq(Events)
        /\ conn'.page = conn.page /\ conn'.arrived = conn.arrived
        /\ conn'.queue = Tail(conn.queue) /\ conn'.stored = conn.stored
        /\ client' = client \/ Receive(e, Kind[e] \in Durable)
    <3>1. conn \in Conn /\ conn.queue # <<>> /\ conn.queue \in Seq(Events)
      BY <1>8 DEF SendLive, TypesOK, Conn
    <3>2. CASE e \in conn.seen
      <4>1. conn' = [conn EXCEPT !.phase = "top", !.queue = Tail(@)] /\ client' = client
        BY <1>8, <3>2 DEF SendLive
      <4> QED
        BY <3>1, <4>1 DEF Conn
    <3>3. CASE e \notin conn.seen
      <4>1. /\ conn' = [conn EXCEPT !.phase = "top", !.queue = Tail(@), !.sent[e] = @ + 1]
            /\ Receive(e, Kind[e] \in Durable)
        BY <1>8, <3>3 DEF SendLive
      <4> QED
        BY <3>1, <4>1 DEF Conn
    <3> QED
      BY <3>2, <3>3
  <2>2. /\ e = conn.queue[1] /\ 1 \in 1..Len(conn.queue)
        /\ \A i \in 1..Len(Tail(conn.queue)) :
             i + 1 \in 1..Len(conn.queue) /\ Tail(conn.queue)[i] = conn.queue[i + 1]
    BY <2>1
  <2>3. e \in Ours /\ \A i \in 1..Len(conn'.queue) : conn'.queue[i] \in Ours
    BY <2>1, <2>2 DEF HeldOK, HeldIn
  <2> HIDE DEF e
  <2> QED
    BY <2>1, <2>3 DEF HeldOK, HeldIn, Receive
<1> QED
  BY <1>3, <1>4, <1>5, <1>6, <1>7, <1>8 DEF Serve

LEMMA HeldKept == TypesOK /\ HeldOK /\ [Next]_vars => HeldOK'
<1> SUFFICES ASSUME TypesOK, HeldOK, [Next]_vars PROVE HeldOK'
  OBVIOUS
<1>1. CASE UNCHANGED vars
  BY <1>1 DEF vars, HeldOK, HeldIn
<1>2. CASE Make
  BY <1>2, EventStreamConstants DEF Make, TypesOK, HeldOK, HeldIn
<1> QED
  BY <1>1, <1>2, HeldWriters, HeldServe DEF Next

LEMMA CoverStart == Init => CoverOK
  BY DEF Init, CoverOK, CoverIn, Closed

\* What a page has reached stays reached when it grows.
LEMMA ReachedGrows ==
  ASSUME NEW P \in SUBSET Events, NEW Q \in SUBSET Events, P \subseteq Q, NEW e, Reached(e, P)
  PROVE  Reached(e, Q)
<1>1. /\ IsFiniteSet({p \in Q : p < e}) /\ Cardinality({p \in Q : p < e}) \in Nat
      /\ Cardinality({p \in P : p < e}) \in Nat
  BY FiniteEvents
<1>2. {p \in P : p < e} \subseteq {p \in Q : p < e}
  OBVIOUS
<1>3. Cardinality({p \in P : p < e}) <= Cardinality({p \in Q : p < e})
  BY <1>1, <1>2, FS_Subset
<1> QED
  BY <1>1, <1>3, EventStreamConstants DEF Reached

\* The first rows of a table reach each of its rows, or are a full page below it.
LEMMA FirstRowsReach ==
  ASSUME NEW rows \in SUBSET Events, NEW e \in rows
  PROVE  Reached(e, Smallest(REPLAY_PAGE, rows))
<1> DEFINE first == Smallest(REPLAY_PAGE, rows)
<1>1. e \in Nat /\ REPLAY_PAGE \in Nat /\ Cardinality({f \in rows : f < e}) \in Nat
  BY FiniteEvents, EventStreamConstants
<1>2. CASE Cardinality({f \in rows : f < e}) < REPLAY_PAGE
  BY <1>2 DEF Smallest, Reached
<1>3. CASE Cardinality({f \in rows : f < e}) >= REPLAY_PAGE
  <2>1. Cardinality(first) = REPLAY_PAGE /\ \A f \in first : f < e
    BY <1>1, <1>3, PageFills
  <2>2. {p \in first : p < e} = first
    BY <2>1
  <2> QED
    BY <1>1, <2>1, <2>2 DEF Reached
<1> QED
  BY <1>1, <1>2, <1>3

\* Cut to one page, what was reached is on it, or the page is full and below.
LEMMA CutReaches ==
  ASSUME NEW P \in SUBSET Events, NEW e \in Events, Reached(e, P)
  PROVE  LET page == Smallest(REPLAY_PAGE, P)
         IN e \in page \/ (page # {} /\ Cardinality(page) = REPLAY_PAGE /\ \A p \in page : p < e)
<1> DEFINE page == Smallest(REPLAY_PAGE, P)
<1>1. e \in Nat /\ REPLAY_PAGE \in Nat \ {0} /\ Cardinality({f \in P : f < e}) \in Nat
  BY FiniteEvents, EventStreamConstants
<1>2. CASE Cardinality({f \in P : f < e}) < REPLAY_PAGE
  <2>1. e \in P
    BY <1>1, <1>2 DEF Reached
  <2> QED
    BY <1>2, <2>1 DEF Smallest
<1>3. CASE Cardinality({f \in P : f < e}) >= REPLAY_PAGE
  <2>1. Cardinality(page) = REPLAY_PAGE /\ \A p \in page : p < e
    BY <1>1, <1>3, PageFills
  <2>2. page # {}
    BY <1>1, <2>1, FS_EmptySet
  <2> QED
    BY <2>1, <2>2
<1> QED
  BY <1>1, <1>2, <1>3

LEMMA CoverWriters ==
  ASSUME TypesOK, CoverOK, NEW e \in Events, Store(e) \/ Publish(e) \/ PublishLost(e)
  PROVE  CoverOK'
<1>1. conn' = conn \/ Heard(e)
  BY DEF Store, Publish, PublishLost
<1>2. CASE conn' = conn
  BY <1>2 DEF CoverOK
<1>3. CASE conn' = [conn EXCEPT !.overflow = TRUE]
  <2>1. /\ conn'.seen = conn.seen /\ conn'.sent = conn.sent /\ conn'.queue = conn.queue
        /\ conn'.arrived = conn.arrived /\ conn'.phase = conn.phase /\ conn'.cursor = conn.cursor
        /\ conn'.from = conn.from /\ conn'.resumes = conn.resumes /\ conn'.wanted = conn.wanted
        /\ conn'.page = conn.page /\ conn'.full = conn.full /\ Left(conn') = Left(conn)
    BY <1>3 DEF TypesOK, Conn, Left
  <2> QED
    BY <2>1 DEF CoverOK, CoverIn
<1>4. CASE conn' = [conn EXCEPT !.queue = Append(@, e),
                                !.arrived = IF conn.overflow THEN @ ELSE @ \cup {e}]
  <2>1. /\ conn'.seen = conn.seen /\ conn'.sent = conn.sent /\ conn'.queue = Append(conn.queue, e)
        /\ conn'.arrived \subseteq conn.arrived \cup {e} /\ conn'.phase = conn.phase
        /\ conn'.cursor = conn.cursor /\ conn'.from = conn.from /\ conn'.resumes = conn.resumes
        /\ conn'.wanted = conn.wanted /\ conn'.page = conn.page /\ conn'.full = conn.full
        /\ Left(conn') = Left(conn)
    BY <1>4 DEF TypesOK, Conn, Left
  <2>2. conn.queue \in Seq(Events)
    BY DEF TypesOK, Conn
  <2>3. /\ Len(conn'.queue) \in 1..Len(conn'.queue) /\ conn'.queue[Len(conn'.queue)] = e
        /\ \A i \in 1..Len(conn.queue) : i \in 1..Len(conn'.queue) /\ conn'.queue[i] = conn.queue[i]
    BY <2>1, <2>2
  <2>4. \A f \in conn'.arrived : conn'.sent[f] # 0 \/ \E i \in 1..Len(conn'.queue) : conn'.queue[i] = f
    BY <2>1, <2>3 DEF CoverOK, CoverIn
  <2> QED
    BY <2>1, <2>4 DEF CoverOK, CoverIn
<1> QED
  BY <1>1, <1>2, <1>3, <1>4 DEF Heard

LEMMA CoverPrepares ==
  ASSUME IInv, HeldOK, CoverOK, Connect \/ Subscribe \/ Subscribed \/ CloseOverflown \/ Drop
  PROVE  CoverOK'
<1>1. CASE Connect
  <2>1. /\ conn'.seen = {} /\ conn'.arrived = {} /\ conn'.phase = "subscribing"
        /\ conn'.cursor = conn'.from
    BY <1>1 DEF Connect, Closed
  <2> QED
    BY <2>1 DEF CoverOK, CoverIn
<1>2. CASE CloseOverflown \/ Drop
  <2>1. conn' = Closed
    BY <1>2 DEF CloseOverflown, Drop
  <2> QED
    BY <2>1 DEF CoverOK, CoverIn, Closed
<1>3. CASE Subscribe
  <2>1. /\ conn'.seen = conn.seen /\ conn'.sent = conn.sent /\ conn'.queue = conn.queue
        /\ conn'.arrived = conn.arrived /\ conn'.phase = "subscribing" /\ conn.phase = "subscribing"
        /\ conn'.cursor = conn.cursor /\ conn'.from = conn.from
    BY <1>3 DEF Subscribe, IInv, TypesOK, Conn
  <2> QED
    BY <2>1 DEF CoverOK, CoverIn
<1>4. CASE Subscribed
  <2>1. /\ conn'.seen = conn.seen /\ conn'.sent = conn.sent /\ conn'.queue = conn.queue
        /\ conn'.arrived = conn.arrived /\ conn.phase = "subscribing"
        /\ conn'.cursor = conn.cursor /\ conn'.from = conn.from /\ conn'.resumes = conn.resumes
        /\ IF conn.resumes
             THEN conn'.phase = "reading" /\ conn'.wanted = Order /\ conn'.stored = log
             ELSE conn'.phase = "top"
    <3>1. conn \in Conn /\ conn.phase = "subscribing"
      BY <1>4 DEF Subscribed, IInv, TypesOK
    <3>2. IF conn.resumes
            THEN conn' = [conn EXCEPT !.phase = "reading", !.wanted = Order, !.stored = log]
            ELSE conn' = [conn EXCEPT !.phase = "top"]
      BY <1>4 DEF Subscribed
    <3> QED
      BY <3>1, <3>2 DEF Conn
  <2>2. ASSUME conn.resumes, NEW e \in Left(conn')
        PROVE  e > conn'.cursor /\ \E i \in 1..Len(conn'.wanted) : Kind[e] \in Table(conn'.wanted[i])
    <3>1. e \in log /\ e \in Ours /\ e > conn'.from
      BY <2>1, <2>2 DEF Left
    <3> QED
      BY <2>1, <2>2, <3>1, OursIsRead DEF CoverOK, CoverIn, HeldOK
  <2> QED
    BY <2>1, <2>2 DEF CoverOK, CoverIn
<1> QED
  BY <1>1, <1>2, <1>3, <1>4

LEMMA CoverReads ==
  ASSUME EveryRowKept, IInv, HeldOK, CoverOK, ReadTable
  PROVE  CoverOK'
<1> DEFINE rows == {e \in log : Kind[e] \in Table(Head(conn.wanted)) /\ e > conn.cursor}
           new  == {e \in Smallest(REPLAY_PAGE, rows) : Kind[e] \in Kept}
<1>1. /\ conn' = [conn EXCEPT !.wanted = Tail(@), !.page = @ \cup new]
      /\ conn.phase = "reading" /\ conn.wanted # <<>>
  BY DEF ReadTable
<1>2. conn.wanted \in Seq(Topics) /\ conn.page \in SUBSET Events /\ log \in SUBSET Events
  BY DEF IInv, TypesOK, Conn
<1>3. Head(conn.wanted) = conn.wanted[1] /\ Head(conn.wanted) \in Topics /\ Len(conn.wanted) \in Nat
      /\ Len(Tail(conn.wanted)) = Len(conn.wanted) - 1
      /\ \A i \in 1..Len(Tail(conn.wanted)) : Tail(conn.wanted)[i] = conn.wanted[i + 1]
  BY <1>1, <1>2
<1>4. rows \in SUBSET Events
  BY <1>2
<1>5. new = Smallest(REPLAY_PAGE, rows)
  BY <1>3, <1>4 DEF Smallest, EveryRowKept
<1>6. new \in SUBSET Events /\ \A e \in rows : Reached(e, new)
  <2> HIDE DEF new, rows
  <2> QED
    BY <1>4, <1>5, FirstRowsReach DEF Smallest
<1>7. ASSUME conn.resumes, NEW e \in Left(conn),
             \A i \in 1..Len(Tail(conn.wanted)) : Kind[e] \notin Table(Tail(conn.wanted)[i])
      PROVE  Reached(e, conn.page \cup new)
  <2>1. e \in log /\ e > conn.cursor
    BY <1>1, <1>7 DEF Left, HeldOK, HeldIn, CoverOK, CoverIn
  <2>2. CASE Kind[e] \in Table(Head(conn.wanted))
    <3>1. e \in rows
      BY <2>1, <2>2
    <3> HIDE DEF new, rows
    <3> QED
      BY <1>2, <1>6, <3>1, ReachedGrows
  <2>3. CASE Kind[e] \notin Table(Head(conn.wanted))
    <3>1. \A i \in 1..Len(conn.wanted) : Kind[e] \notin Table(conn.wanted[i])
      <4> SUFFICES ASSUME NEW i \in 1..Len(conn.wanted) PROVE Kind[e] \notin Table(conn.wanted[i])
        OBVIOUS
      <4>1. CASE i = 1
        BY <1>3, <2>3, <4>1
      <4>2. CASE i # 1
        <5>1. i - 1 \in 1..Len(Tail(conn.wanted)) /\ i = (i - 1) + 1
          BY <1>3, <4>2
        <5> QED
          BY <1>3, <1>7, <5>1
      <4> QED
        BY <4>1, <4>2
    <3>2. Reached(e, conn.page)
      BY <1>1, <1>7, <3>1 DEF CoverOK, CoverIn
    <3> HIDE DEF new, rows
    <3> QED
      BY <1>2, <1>6, <3>2, ReachedGrows
  <2> QED
    BY <2>2, <2>3
<1> HIDE DEF new, rows
<1>8. /\ conn'.seen = conn.seen /\ conn'.sent = conn.sent /\ conn'.queue = conn.queue
      /\ conn'.arrived = conn.arrived /\ conn'.phase = conn.phase /\ conn'.cursor = conn.cursor
      /\ conn'.resumes = conn.resumes /\ conn'.wanted = Tail(conn.wanted)
      /\ conn'.page = conn.page \cup new /\ Left(conn') = Left(conn)
  BY <1>1 DEF IInv, TypesOK, Conn, Left
<1>9. /\ \A e \in conn.seen : conn.sent[e] # 0
      /\ \A e \in conn.arrived : conn.sent[e] # 0 \/ \E i \in 1..Len(conn.queue) : conn.queue[i] = e
      /\ conn.resumes => \A e \in Left(conn) : e > conn.cursor
  BY <1>1 DEF CoverOK, CoverIn
<1>10. ASSUME conn'.resumes, NEW e \in Left(conn')
       PROVE  /\ e > conn'.cursor
              /\ (\A i \in 1..Len(conn'.wanted) : Kind[e] \notin Table(conn'.wanted[i]))
                   => Reached(e, conn'.page)
  BY <1>7, <1>8, <1>9, <1>10
<1>11. /\ \A e \in conn'.seen : conn'.sent[e] # 0
       /\ \A e \in conn'.arrived : conn'.sent[e] # 0 \/ \E i \in 1..Len(conn'.queue) : conn'.queue[i] = e
       /\ conn'.phase = "reading"
  BY <1>1, <1>8, <1>9
<1> QED
  BY <1>10, <1>11 DEF CoverOK, CoverIn

LEMMA CoverMerges ==
  ASSUME IInv, HeldOK, CoverOK, MergePage
  PROVE  CoverOK'
<1> DEFINE merged == Smallest(REPLAY_PAGE, conn.page)
<1>1. /\ conn.phase = "reading" /\ conn.wanted = <<>>
      /\ conn' = [conn EXCEPT !.phase = IF merged = {} THEN "top" ELSE "sending",
                              !.page = merged, !.full = Cardinality(merged) = REPLAY_PAGE]
  BY DEF MergePage
<1>2. ASSUME conn.resumes, NEW e \in Left(conn)
      PROVE  e \in merged \/ (merged # {} /\ Cardinality(merged) = REPLAY_PAGE /\ \A p \in merged : p < e)
  <2>1. Reached(e, conn.page)
    BY <1>1, <1>2 DEF CoverOK, CoverIn
  <2>2. e \in Events /\ conn.page \in SUBSET Events
    BY <1>2 DEF Left, IInv, TypesOK, Conn
  <2> QED
    BY <2>1, <2>2, CutReaches
<1> HIDE DEF merged
<1>3. /\ conn'.seen = conn.seen /\ conn'.sent = conn.sent /\ conn'.queue = conn.queue
      /\ conn'.arrived = conn.arrived /\ conn'.phase = IF merged = {} THEN "top" ELSE "sending"
      /\ conn'.resumes = conn.resumes /\ conn'.page = merged
      /\ (Cardinality(merged) = REPLAY_PAGE => conn'.full) /\ Left(conn') = Left(conn)
  BY <1>1 DEF IInv, TypesOK, Conn, Left
<1>4. /\ \A e \in conn.seen : conn.sent[e] # 0
      /\ \A e \in conn.arrived : conn.sent[e] # 0 \/ \E i \in 1..Len(conn.queue) : conn.queue[i] = e
  BY DEF CoverOK, CoverIn
<1>5. ASSUME conn'.resumes, NEW e \in Left(conn')
      PROVE  merged # {} /\ (e \in conn'.page \/ (conn'.full /\ \A p \in conn'.page : p < e))
  BY <1>2, <1>3, <1>5
<1>6. /\ \A e \in conn'.seen : conn'.sent[e] # 0
      /\ \A e \in conn'.arrived : conn'.sent[e] # 0 \/ \E i \in 1..Len(conn'.queue) : conn'.queue[i] = e
  BY <1>3, <1>4
<1>7. CASE merged = {}
  <2>1. conn'.phase = "top" /\ (conn'.resumes => Left(conn') = {})
    BY <1>3, <1>5, <1>7
  <2> QED
    BY <1>6, <2>1 DEF CoverOK, CoverIn
<1>8. CASE merged # {}
  <2>1. conn'.phase = "sending"
    BY <1>3, <1>8
  <2> QED
    BY <1>5, <1>6, <2>1 DEF CoverOK, CoverIn
<1> QED
  BY <1>7, <1>8

LEMMA CoverReplays ==
  ASSUME IInv, HeldOK, CoverOK, SendReplayed
  PROVE  CoverOK'
<1>1. PICK e \in Smallest(1, conn.page) :
        LET rest == conn.page \ {e}
        IN /\ Receive(e, TRUE)
           /\ conn' = [conn EXCEPT !.page = rest, !.seen = @ \cup {e}, !.sent[e] = @ + 1,
                                   !.cursor = IF rest = {} THEN e ELSE @,
                                   !.wanted = IF rest = {} /\ conn.full THEN Order ELSE <<>>,
                                   !.phase  = IF rest # {} THEN "sending"
                                              ELSE IF conn.full THEN "reading" ELSE "top"]
  BY DEF SendReplayed
<1> DEFINE rest == conn.page \ {e}
<1>2. /\ conn.phase = "sending" /\ e \in conn.page /\ conn.page \in SUBSET Events
      /\ conn.sent \in [Events -> Nat] /\ conn.seen \in SUBSET Events /\ conn.arrived \in SUBSET Events
  BY DEF SendReplayed, Smallest, IInv, TypesOK, Conn
<1>3. /\ conn'.seen = conn.seen \cup {e} /\ conn'.sent = [conn.sent EXCEPT ![e] = @ + 1]
      /\ conn'.queue = conn.queue /\ conn'.arrived = conn.arrived /\ conn'.page = rest
      /\ conn'.cursor = (IF rest = {} THEN e ELSE conn.cursor)
      /\ conn'.wanted = (IF rest = {} /\ conn.full THEN Order ELSE <<>>)
      /\ conn'.phase = (IF rest # {} THEN "sending" ELSE IF conn.full THEN "reading" ELSE "top")
      /\ conn'.resumes = conn.resumes /\ conn'.full = conn.full
      /\ Left(conn') \subseteq Left(conn) \ {e}
  BY <1>1 DEF IInv, TypesOK, Conn, Left
<1>4. \A f \in Events : conn.sent[f] # 0 => conn'.sent[f] # 0
  BY <1>2, <1>3
<1>5. conn'.sent[e] # 0
  BY <1>2, <1>3
<1>6. ASSUME conn.resumes, NEW f \in Left(conn')
      PROVE  f \in rest \/ (conn.full /\ f > e /\ \A p \in rest : p < f)
  <2>1. f # e /\ f \in Left(conn)
    BY <1>3
  <2>2. f \in Nat /\ e \in Nat
    BY <1>2, FiniteEvents DEF Left, Ours
  <2> QED
    BY <1>2, <1>6, <2>1, <2>2 DEF CoverOK, CoverIn
<1>7. ASSUME conn.resumes, NEW f \in Left(conn')
      PROVE  \E i \in 1..Len(Order) : Kind[f] \in Table(Order[i])
  <2>1. f \in Ours /\ f \in log
    BY <1>3 DEF Left, HeldOK, HeldIn
  <2> QED
    BY <2>1, OursIsRead DEF HeldOK
<1>8. /\ \A f \in conn'.seen : conn'.sent[f] # 0
      /\ \A f \in conn'.arrived : conn'.sent[f] # 0 \/ \E i \in 1..Len(conn'.queue) : conn'.queue[i] = f
  BY <1>2, <1>3, <1>4, <1>5 DEF CoverOK, CoverIn
<1> HIDE DEF rest
<1>9. CASE rest # {}
  BY <1>3, <1>6, <1>8, <1>9 DEF CoverOK, CoverIn
<1>10. CASE rest = {}
  BY <1>3, <1>6, <1>7, <1>8, <1>10 DEF CoverOK, CoverIn
<1> QED
  BY <1>9, <1>10

LEMMA CoverPasses ==
  ASSUME TypesOK, CoverOK, PassChecks \/ SendLive \/ Heartbeat
  PROVE  CoverOK'
<1> DEFINE e == Head(conn.queue)
<1>1. /\ conn'.seen = conn.seen /\ conn'.arrived = conn.arrived
      /\ conn.phase \in {"top", "get"} /\ conn'.phase \in {"top", "get"}
      /\ conn'.resumes = conn.resumes /\ Left(conn') = Left(conn)
  <2>1. conn \in Conn
    BY DEF TypesOK
  <2>2. CASE PassChecks \/ Heartbeat
    BY <2>1, <2>2 DEF PassChecks, Heartbeat, Conn, Left
  <2>3. CASE SendLive
    <3>1. conn.phase = "get"
      BY <2>3 DEF SendLive
    <3>2. CASE e \in conn.seen
      <4>1. conn' = [conn EXCEPT !.phase = "top", !.queue = Tail(@)]
        BY <2>3, <3>2 DEF SendLive
      <4> QED
        BY <2>1, <3>1, <4>1 DEF Conn, Left
    <3>3. CASE e \notin conn.seen
      <4>1. conn' = [conn EXCEPT !.phase = "top", !.queue = Tail(@), !.sent[e] = @ + 1]
        BY <2>3, <3>3 DEF SendLive
      <4> QED
        BY <2>1, <3>1, <4>1 DEF Conn, Left
    <3> QED
      BY <3>2, <3>3
  <2> QED
    BY <2>2, <2>3
<1>2. CASE PassChecks \/ Heartbeat
  <2>1. conn'.sent = conn.sent /\ conn'.queue = conn.queue
    BY <1>2 DEF PassChecks, Heartbeat, TypesOK, Conn
  <2> QED
    BY <1>1, <2>1 DEF CoverOK, CoverIn
<1>3. CASE SendLive
  <2>1. /\ conn.queue # <<>> /\ conn.queue \in Seq(Events) /\ conn'.queue = Tail(conn.queue)
        /\ conn.sent \in [Events -> Nat] /\ conn.arrived \in SUBSET Events /\ conn.seen \in SUBSET Events
        /\ \/ e \in conn.seen /\ conn'.sent = conn.sent
           \/ conn'.sent = [conn.sent EXCEPT ![e] = @ + 1]
    BY <1>3 DEF SendLive, TypesOK, Conn
  <2>2. /\ e = conn.queue[1] /\ e \in Events /\ Len(conn.queue) \in Nat
        /\ Len(Tail(conn.queue)) = Len(conn.queue) - 1
        /\ \A i \in 1..Len(Tail(conn.queue)) : Tail(conn.queue)[i] = conn.queue[i + 1]
    BY <2>1
  <2> HIDE DEF e
  <2>3. conn'.sent[e] # 0 /\ \A f \in Events : conn.sent[f] # 0 => conn'.sent[f] # 0
    BY <2>1, <2>2 DEF CoverOK, CoverIn
  <2>4. ASSUME NEW f \in conn.arrived
        PROVE  conn'.sent[f] # 0 \/ \E i \in 1..Len(conn'.queue) : conn'.queue[i] = f
    <3>1. CASE conn.sent[f] # 0
      BY <2>1, <2>3, <3>1
    <3>2. CASE conn.sent[f] = 0
      <4>1. PICK i \in 1..Len(conn.queue) : conn.queue[i] = f
        BY <3>2 DEF CoverOK, CoverIn
      <4>2. CASE i = 1
        BY <2>2, <2>3, <4>1, <4>2
      <4>3. CASE i # 1
        <5>1. i - 1 \in 1..Len(Tail(conn.queue)) /\ i = (i - 1) + 1
          BY <2>2, <4>3
        <5> QED
          BY <2>1, <2>2, <4>1, <5>1
      <4> QED
        BY <4>2, <4>3
    <3> QED
      BY <3>1, <3>2
  <2>5. \A f \in conn'.seen : conn'.sent[f] # 0
    BY <1>1, <2>1, <2>3 DEF CoverOK, CoverIn
  <2> QED
    BY <1>1, <2>4, <2>5 DEF CoverOK, CoverIn
<1> QED
  BY <1>2, <1>3

LEMMA CoverKept == EveryRowKept /\ IInv /\ HeldOK /\ CoverOK /\ [Next]_vars => CoverOK'
<1> SUFFICES ASSUME EveryRowKept, IInv, HeldOK, CoverOK, [Next]_vars PROVE CoverOK'
  OBVIOUS
<1>1. CASE Make \/ UNCHANGED vars
  BY <1>1 DEF Make, vars, CoverOK
<1>2. TypesOK
  BY DEF IInv
<1> QED
  BY <1>1, <1>2, CoverWriters, CoverPrepares, CoverReads, CoverMerges, CoverReplays, CoverPasses
     DEF Next, Serve

-----------------------------------------------------------------------------
(* Theorems. *)

\* What the bus may still hand over was not sent, or replay sent it and the live
\* loop knows (the queue of subscribe_sse, its drop_event_ids).
THEOREM StreamInvariant == Spec => []IInv
<1>1. Init => IInv
  BY Starts
<1>2. IInv /\ [Next]_vars => IInv'
  BY StepKeeps
<1> QED
  BY <1>1, <1>2, PTL DEF Spec

\* Every connection implements the feed: an event is delivered once at most,
\* whether replay or the bus brought it first (_event_stream).
THEOREM ImplementsFeed == Spec => FeedPromise
<1>1. Init => Feed!Init
  BY Starts
<1>2. IInv /\ [Next]_vars => FeedStep
  BY StepKeeps
<1> QED
  BY <1>1, <1>2, StreamInvariant, PTL DEF Spec, FeedPromise, Feed!Spec, FeedStep

\* A connection whose queue overflowed passes on nothing that came in after the
\* event it lost (the overflow check of _event_stream).
THEOREM NothingAfterOverflowHolds == Spec => []NothingAfterOverflow
<1>1. Init => OverflowOK
  BY DEF Init, Closed, OverflowOK, OverflowIn
<1>2. IInv /\ OverflowOK /\ [Next]_vars => OverflowOK'
  BY OverflowStep
<1>3. IInv /\ OverflowOK => NothingAfterOverflow
  BY DEF IInv, TypesOK, Conn, OverflowOK, OverflowIn, NothingAfterOverflow, Given
<1> QED
  BY <1>1, <1>2, <1>3, StreamInvariant, PTL DEF Spec

\* TypeOK: a connection and its client stay within their domains; pages and what
\* was replayed are rows on record, what arrived was published (_event_stream).
THEOREM StreamTypeCorrect == Spec => []TypeOK
<1>1. IInv /\ HeldOK => TypeOK
  BY DEF IInv, TypesOK, Conn, SentOK, SentIn, HeldOK, HeldIn, TypeOK
<1>2. IInv /\ HeldOK /\ [Next]_vars => HeldOK'
  BY HeldKept DEF IInv
<1> QED
  BY <1>1, <1>2, HeldStart, StreamInvariant, PTL DEF Spec

\* NoGap: a client that resumes is given every event of its own that the logs
\* held when replay began, and all that came in since, whatever is stored and
\* published meanwhile and however the pages fall (_event_stream, the replay of
\* event_log), when replay keeps every row of the tables it pages through.
THEOREM NoGapHolds == EveryRowKept => (Spec => []NoGap)
<1> SUFFICES ASSUME EveryRowKept PROVE Spec => []NoGap
  OBVIOUS
<1>1. IInv /\ CoverOK => NoGap
  <2> SUFFICES ASSUME IInv, CoverOK, Waiting PROVE NoGap
    BY DEF NoGap
  <2>1. conn.queue = <<>> /\ conn.phase = "get"
    BY DEF Waiting
  <2>2. \A e \in Events : conn.sent[e] # 0 => e \in Given
    BY DEF Given, IInv, TypesOK, Conn
  <2>3. \A e \in conn.arrived : conn.sent[e] # 0
    BY <2>1 DEF CoverOK, CoverIn
  <2>4. conn.seen \subseteq Given /\ conn.arrived \subseteq Given
    BY <2>2, <2>3 DEF CoverOK, CoverIn, IInv, TypesOK, Conn
  <2>5. conn.resumes => {e \in conn.stored \cap Ours : e > conn.from} \subseteq conn.seen
    BY <2>1 DEF CoverOK, CoverIn, Left
  <2> QED
    BY <2>4, <2>5 DEF NoGap
<1>2. IInv /\ HeldOK /\ CoverOK /\ [Next]_vars => HeldOK' /\ CoverOK'
  BY HeldKept, CoverKept DEF IInv
<1> QED
  BY <1>1, <1>2, HeldStart, CoverStart, StreamInvariant, PTL DEF Spec

=============================================================================
