------------------------------ MODULE MCApply ------------------------------
(* Instances of Apply for TLC: two goroutines, the loop of the replica and *)
(* one request handler. Apply needs no further definitions.                *)
EXTENDS Apply
=============================================================================
