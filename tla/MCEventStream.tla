---------------------------- MODULE MCEventStream ----------------------------
(* Instances of EventStream for TLC. *)
EXTENDS EventStream

\* Decisions on linkages and personas, with a proposal between them.
Attributions == <<"linkage", "persona", "proposed", "linkage">>

\* Identities released, claimed by a process, and released again.
Identities == <<"claimed", "released", "released">>
=============================================================================
