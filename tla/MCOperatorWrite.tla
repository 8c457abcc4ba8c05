---------------------------- MODULE MCOperatorWrite ----------------------------
(* Instances of OperatorWrite for TLC. *)
EXTENDS OperatorWrite, TLC

CONSTANTS confirm, burn, panic

\* A linkage decision appends an event, an identity action changes the identity
\* too, a panic persists nothing.
Operations == (confirm :> {"log"}) @@ (burn :> {"state", "log"}) @@ (panic :> {})
Persisted == [b \in Bodies |-> Operations[b]]

\* Requests are interchangeable.
AttemptSymmetry == Permutations(Attempts)
=============================================================================
