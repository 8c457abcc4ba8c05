------------------------------ MODULE MCIntake ------------------------------
(* Instances of Intake for TLC. *)
EXTENDS Intake, TLC

\* A message in a public group and one in a group behind a link, by one author.
Where == (1 :> "pub") @@ (2 :> "link")
Who == (1 :> "u") @@ (2 :> "u")
=============================================================================
