---------------------------- MODULE MCMembership ----------------------------
\* A replica h2, a seed h1 whose NODE_ID is its address, and a third host h3
\* known by its id.  The replica has its ADVERTISE_ADDR, seed2, in
\* the seed list, and the name service lists it under docker2.
EXTENDS Membership

CONSTANTS h1, h2, h3, seed1, n2, seed2, docker2, n3

MCHostOf == [i \in Id |-> CASE i = seed1 -> h1
                            [] i \in {n2, seed2, docker2} -> h2
                            [] OTHER -> h3]

MCOwn == [h \in Host |-> CASE h = h1 -> seed1 [] h = h2 -> n2 [] OTHER -> n3]
=============================================================================
