----------------------------- MODULE MCAccounts -----------------------------
(* Two replicas; three names and three emails to register and change to.   *)
EXTENDS Accounts, TLC

CONSTANTS r1, r2, h1, h2, ana, bob, eve, e1, e2, e3, i1, i2, i3

Hash == ana :> i1 @@ bob :> i2 @@ eve :> i3

\* Permuting the names together with their identifiers, the emails, the replicas or
\* the handlers gives an equivalent state.
Renamed(p) == [x \in Name \cup Id |-> IF x \in Name THEN p[x] ELSE Hash[p[CHOOSE n \in Name : Hash[n] = x]]]
Symmetry ==
    {Renamed(p) : p \in Permutations(Name)}
    \cup Permutations(Replica) \cup Permutations(Handler) \cup Permutations(Email)

\* What no property and no later step depends on any more is left out of the states
\* that TLC compares.  How many commands were committed matters only to those who wait
\* for one (Waiting), known only until a proposal is refused, raced only while a
\* registration is on its way or may still come.  After the last request, a handler
\* that waits for another command than a registration is as good as idle: if a
\* registration is on its way as well, the two have raced.
Waiting(s) ==
    IF "idx" \notin DOMAIN s \/ s.idx = 0 THEN s ELSE [s EXCEPT !.idx = 1 + committed - @]
Registers(h) == op[h].pc \in {"checked", "wait"} /\ op[h].cmd.op = "create"
Handling(h) ==
    IF requests = MaxRequests /\ op[h].pc = "wait" /\ ~Registers(h) THEN Idle ELSE Waiting(op[h])

View ==
    <<leader, users, queue, failed, audit, since, requests, locals, elections, now, refused,
      [h \in Handler |-> Handling(h)], [r \in Replica |-> Waiting(scan[r])],
      IF refused THEN {} ELSE known,
      raced \/ (requests = MaxRequests /\ \A h \in Handler : ~Registers(h))>>
=============================================================================
