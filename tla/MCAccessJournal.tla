--------------------------- MODULE MCAccessJournal ---------------------------
(* Instances of AccessJournal for TLC. *)
EXTENDS AccessJournal, TLC

CONSTANTS a, b, c, p, q

\* Two requests of one process and one of another.
Split == a :> p @@ b :> p @@ c :> q

\* Interchangeable: the two of one process, nonces, challenges, keys.
Interchange ==
  {d @@ e @@ f @@ g : d \in Permutations({a, b}), e \in Permutations(Nonces),
                      f \in Permutations(Challenges), g \in Permutations(Keys)}
=============================================================================
