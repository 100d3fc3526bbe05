---------------------------- MODULE MCReconciler ----------------------------
\* A group with a second member, an appointment of the group, the member's
\* invitation and answer, a personal appointment and the notifications.
EXTENDS Reconciler

CONSTANTS r1, r2, team, owner, guest, meeting, invited, yes, said, dentist, noted

AllItems == {team, owner, guest, meeting, invited, yes, said, dentist, noted}

MCKind == [i \in AllItems |->
    CASE i = team -> "group"
      [] i \in {owner, guest} -> "member"
      [] i = meeting -> "groupappt"
      [] i = invited -> "invite"
      [] i = yes -> "answer"
      [] i = dentist -> "appt"
      [] OTHER -> "note"]

MCNeeds == [i \in AllItems |->
    CASE i \in {owner, guest, meeting} -> {team}
      [] i \in {invited, yes} -> {meeting}
      [] OTHER -> {}]

MCMember == [i \in AllItems |->
    CASE i = team -> owner [] i \in {invited, yes} -> guest [] OTHER -> NoItem]

MCNote == [i \in AllItems |->
    CASE i = yes -> said [] i = dentist -> noted [] OTHER -> NoItem]

MeetingHeld == <<team, guest, meeting>>

\* What no property and no later step depends on any more is left out of the states
\* that TLC compares.  The log is only read again after a restart.  A latest stamp
\* matters while an event may still be stamped before it.  Only SeenIsKnown reads
\* missed.  In the end nothing can happen but the clock.
Log == IF faults < MaxFaults \/ behind # {} THEN log ELSE <<>>
Last(r) ==
    {<<f, db[r].last[f]>> : f \in {k \in Feed : faults < MaxFaults \/ db[r].last[k] > now}}
Missed(r) == {i \in missed[r] : Kind[i] \in {"appt", "note"}}
Ended ==
    /\ requests = MaxRequests /\ rounds = MaxRounds /\ faults = MaxFaults /\ behind = {}
    /\ \A r \in Replica, g \in Goroutine : scan[r][g] = Idle

View ==
    IF Ended THEN <<db, stuck, since, seen, missed>>
    ELSE <<leader, Log, [r \in Replica |-> <<db[r].rows, db[r].gone, db[r].events, Last(r), Missed(r)>>],
           behind, stuck, since, scan, seen, now, requests, faults, rounds>>
=============================================================================
