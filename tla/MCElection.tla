----------------------------- MODULE MCElection -----------------------------
(* Instances of Election for TLC.                                          *)
EXTENDS Election, TLC

CONSTANT AliasOf    \* the replica the one alias identifier of a run points to

\* Identifiers that are replicas resolve to themselves.
MCHost == [id \in Id |-> IF id \in Node THEN id ELSE AliasOf]

\* The replicas that campaign are interchangeable, and so are the others.
Replicas == Permutations(Campaigners) \cup Permutations(Node \ Campaigners)
=============================================================================
