----------------------------- MODULE MCGroupJoin -----------------------------
(* Instances of GroupJoin for TLC. *)
EXTENDS GroupJoin

CONSTANTS c1, g1, gInvite

\* A candidate known by its public name: one group row.
PublicRow == [c \in Candidates |-> g1]

\* A candidate known by an invite link: a row named after the link, and the row
\* of the group the platform resolves it to.
InviteRow == [c \in Candidates |-> gInvite]
=============================================================================
