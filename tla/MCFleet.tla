------------------------------- MODULE MCFleet -------------------------------
(* Instances of Fleet for TLC. *)
EXTENDS Fleet, TLC

\* Process numbers are interchangeable.
PidSymmetry == Permutations(Pids)
=============================================================================
