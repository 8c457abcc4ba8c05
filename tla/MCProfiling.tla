----------------------------- MODULE MCProfiling -----------------------------
(* Instances of Profiling for TLC. *)
EXTENDS Profiling, TLC

\* The second and the third message were sent in the same second.
Times == (1 :> 1) @@ (2 :> 2) @@ (3 :> 2)

One == <<"simhash">>

\* Deliveries are interchangeable.
DeliverySymmetry == Permutations(Dispatches)
=============================================================================
