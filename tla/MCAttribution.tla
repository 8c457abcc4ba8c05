---------------------------- MODULE MCAttribution ----------------------------
(* Instances of Attribution for TLC. *)
EXTENDS Attribution, TLC

\* Actors are interchangeable.
ActorSymmetry == Permutations(Actors)
=============================================================================
