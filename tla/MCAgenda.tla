------------------------------ MODULE MCAgenda ------------------------------
(* Instances of Agenda for TLC.                                            *)
EXTENDS Agenda

CONSTANTS r1, h1, h2, u1, u2, team, club

\* u1 founds both groups; the second one has no hierarchy.
MCCreator == [g \in Group |-> u1]
MCSlots == {<<0, 2>>, <<1, 3>>}
=============================================================================
