----------------------------- MODULE EventFeed -----------------------------
(***************************************************************************)
(* What an event stream promises whoever opens it: it carries events that  *)
(* have happened, and each of them at most once while it is open.          *)
(***************************************************************************)
EXTENDS Naturals

CONSTANT Events

VARIABLES
  happened,    \* events on record or on the bus
  up,          \* whether the stream is open
  delivered    \* how often it has carried what since it was opened

feed == <<happened, up, delivered>>

Nothing == [e \in Events |-> 0]

Init == happened = {} /\ up = FALSE /\ delivered = Nothing

Happen == \E e \in Events : happened' = happened \cup {e} /\ UNCHANGED <<up, delivered>>

Open == ~up /\ up' = TRUE /\ delivered' = Nothing /\ UNCHANGED happened

Deliver == \E e \in happened :
             /\ up /\ delivered[e] = 0
             /\ delivered' = [delivered EXCEPT ![e] = 1]
             /\ UNCHANGED <<happened, up>>

Close == up /\ up' = FALSE /\ delivered' = Nothing /\ UNCHANGED happened

Next == Happen \/ Open \/ Deliver \/ Close

Spec == Init /\ [][Next]_feed
=============================================================================
