--------------------------- MODULE MCReplication ---------------------------
(* Instances of Replication for TLC.                                       *)
EXTENDS Replication, TLC

\* Followers are interchangeable, and so are the request handlers.
Replicas == Permutations(Follower) \cup Permutations(Proposer)
=============================================================================
