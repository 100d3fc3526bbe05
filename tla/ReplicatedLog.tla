--------------------------- MODULE ReplicatedLog ---------------------------
(***************************************************************************)
(* What replication promises the state machines: one sequence of commands  *)
(* that only grows, of which every replica has executed a prefix.  A       *)
(* replica that restarts begins again.                                     *)
(***************************************************************************)
EXTENDS Naturals, Sequences

CONSTANTS Replica, Command

VARIABLES
    chosen,     \* the committed commands, in order
    applied     \* applied[r]: the commands r has executed since it started, each
                \* with its position

vars == <<chosen, applied>>

Init == chosen = <<>> /\ applied = [r \in Replica |-> {}]

\* Further commands are committed, each once.
Choose ==
    /\ chosen' \in Seq(Command)
    /\ Len(chosen) < Len(chosen') /\ chosen = SubSeq(chosen', 1, Len(chosen))
    /\ \A i, j \in DOMAIN chosen' : chosen'[i] = chosen'[j] => i = j
    /\ UNCHANGED applied

\* A replica executes the next committed commands, up to the k-th.
Execute(r, k) ==
    /\ applied' = [applied EXCEPT ![r] = {<<i, chosen[i]>> : i \in 1..k}]
    /\ applied[r] \subseteq applied'[r]
    /\ UNCHANGED chosen

Restart(r) ==
    /\ applied' = [applied EXCEPT ![r] = {}]
    /\ UNCHANGED chosen

Next ==
    \/ Choose
    \/ \E r \in Replica : Restart(r) \/ \E k \in 1..Len(chosen) : Execute(r, k)

Spec == Init /\ [][Next]_vars
=============================================================================
