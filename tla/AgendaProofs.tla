---------------------------- MODULE AgendaProofs ----------------------------
(***************************************************************************)
(* Proofs about Agenda, for any number of replicas, handlers, users,       *)
(* groups, times and commands.                                             *)
(*                                                                         *)
(* The first part is about one replica's tables: what each command of the  *)
(* log, executed as a whole, interrupted or repeated, makes of consistent  *)
(* tables (ApplyEffect, InterruptedEffect, RepeatLemma, FatalReasons).     *)
(* BaseInv carries this to the queues and the handlers.  The second part   *)
(* is about the executions in which no request was checked while another   *)
(* write was on its way: RaceInv says that every replica is on the way to  *)
(* the personal appointments against which the leader checks requests.     *)
(***************************************************************************)
EXTENDS Agenda, TLAPS

-----------------------------------------------------------------------------
(* One replica's tables.                                                   *)

\* What the handlers put into the log: personal appointments have no group,
\* the others and those people are invited to have one.
Sound(c) ==
    /\ c \in Command
    /\ c.op = "create_personal" => c.appt.group = NoGroup
    /\ c.op \in {"create_group_appt", "invitation"} => c.appt.group \in Group

\* Participants of an appointment that is there; those of a group's appointment
\* are members and were notified.
Involved(d, a, u) ==
    /\ a \in d.appts
    /\ a.group = NoGroup => d.status[a][u] = "accepted"
    /\ a.group # NoGroup => <<a.group, u>> \in d.members /\ Invite(a, u) \in d.notes

\* Tables in which the participants are in step with the other rows.
Consistent(d) ==
    /\ d \in Tables
    /\ d.deleted \subseteq d.appts
    /\ \A a \in Appt, u \in User : d.status[a][u] # "none" => Involved(d, a, u)

\* The fields of an appointment.
LEMMA ApptFields ==
  ASSUME NEW a \in Appt
  PROVE  a.owner \in User /\ a.group \in Group \cup {NoGroup} /\ a.slot \in Slot
  BY DEF Appt

\* The tables and columns of a replica.
LEMMA TableFields ==
  ASSUME NEW d \in Tables
  PROVE  /\ d.groups \subseteq Group /\ d.renamed \subseteq Group
         /\ d.members \subseteq Group \X User /\ d.rank \in [Group -> [User -> Ranks]]
         /\ d.appts \subseteq Appt /\ d.deleted \subseteq Appt /\ d.slot \in [Appt -> Slot]
         /\ d.status \in [Appt -> [User -> Status \cup {"none"}]]
         /\ d.notes \subseteq Note
  BY DEF Tables

\* INSERT INTO appointments.
LEMMA InsertApptIs ==
  ASSUME NEW d \in Tables, NEW a \in Appt, NEW e, e = InsertAppt(d, a)
  PROVE  /\ e \in Tables
         /\ e.groups = d.groups /\ e.renamed = d.renamed
         /\ e.members = d.members /\ e.rank = d.rank
         /\ e.appts = d.appts \cup {a} /\ e.deleted = d.deleted
         /\ \A b \in Appt : e.slot[b] = IF b = a THEN a.slot ELSE d.slot[b]
         /\ e.status = d.status /\ e.notes = d.notes
  BY ApptFields, TableFields DEF InsertAppt, Tables

WithStatus(d, a, u, st) == [d EXCEPT !.status[a][u] = st]

\* INSERT INTO participants, or UPDATE of the status.
LEMMA WithStatusIs ==
  ASSUME NEW d \in Tables, NEW a \in Appt, NEW u \in User, NEW st \in Status,
         NEW e, e = WithStatus(d, a, u, st)
  PROVE  /\ e \in Tables
         /\ e.groups = d.groups /\ e.renamed = d.renamed
         /\ e.members = d.members /\ e.rank = d.rank
         /\ e.appts = d.appts /\ e.deleted = d.deleted /\ e.slot = d.slot /\ e.notes = d.notes
         /\ \A b \in Appt, v \in User :
              e.status[b][v] = IF b = a /\ v = u THEN st ELSE d.status[b][v]
  BY TableFields DEF Tables, WithStatus

\* The fields of an outcome.
LEMMA OutcomeFields ==
  ASSUME NEW d
  PROVE  /\ Ok(d).d = d /\ Ok(d).err = "none"
         /\ Ignorable(d).d = d /\ Ignorable(d).err = "ignorable"
         /\ Fatal(d).d = d /\ Fatal(d).err = "fatal"
  BY DEF Ok, Ignorable, Fatal

\* What FindAppointmentBySignature returns.
LEMMA MatchingFields ==
  ASSUME NEW d \in Tables, NEW a \in Appt, NEW b \in Matching(d, a)
  PROVE  /\ b \in Appt /\ b \in d.appts /\ b \notin d.deleted
         /\ b.owner = a.owner /\ b.group = a.group /\ d.slot[b] = a.slot
  BY TableFields DEF Matching, Live

\* CreatePersonal: the three outcomes.
LEMMA CreatePersonalIs ==
  ASSUME NEW d \in Tables, NEW a \in Appt, NEW o, o = CreatePersonal(d, a)
  PROVE  /\ o.err \in {"none", "ignorable"}
         /\ \/ o.d = d /\ (Matching(d, a) # {} \/ a \in d.appts)
            \/ \E b \in Matching(d, a) :
                 o.err = "none" /\ o.d = WithStatus(d, b, a.owner, "accepted")
            \/ /\ Matching(d, a) = {} /\ a \notin d.appts /\ o.err = "none"
               /\ o.d = WithStatus(InsertAppt(d, a), a, a.owner, "accepted")
<1> DEFINE b == CHOOSE b \in Matching(d, a) : TRUE
<1>1. CASE Matching(d, a) # {}
  <2>1. b \in Matching(d, a)
    BY <1>1
  <2>2. o = IF d.status[b][a.owner] # "none" THEN Ok(d)
            ELSE Ok(WithStatus(d, b, a.owner, "accepted"))
    BY <1>1 DEF CreatePersonal, WithStatus
  <2> HIDE DEF b
  <2>3. CASE d.status[b][a.owner] # "none"
    BY <1>1, <2>2, <2>3, OutcomeFields
  <2>4. CASE d.status[b][a.owner] = "none"
    <3> DEFINE e == WithStatus(d, b, a.owner, "accepted")
    <3>1. o = Ok(e)
      BY <2>2, <2>4
    <3>2. o.d = e /\ o.err = "none"
      BY <3>1, OutcomeFields
    <3> QED
      BY <2>1, <3>2
  <2> QED
    BY <2>3, <2>4
<1>2. CASE Matching(d, a) = {} /\ a \in d.appts
  <2>1. o = Ignorable(d)
    BY <1>2 DEF CreatePersonal, WithStatus
  <2> QED
    BY <1>2, <2>1, OutcomeFields
<1>3. CASE Matching(d, a) = {} /\ a \notin d.appts
  <2> DEFINE e == WithStatus(InsertAppt(d, a), a, a.owner, "accepted")
  <2>1. o = Ok(e)
    BY <1>3 DEF CreatePersonal, WithStatus
  <2>2. o.d = e /\ o.err = "none"
    BY <2>1, OutcomeFields
  <2> QED
    BY <1>3, <2>2
<1> QED
  BY <1>1, <1>2, <1>3

-----------------------------------------------------------------------------
(* What the statements of the other commands write.                        *)

\* CreateGroupAppointment.
WithInvitations(d, a) ==
    [InsertAppt(d, a) EXCEPT
        !.status[a] = [u \in User |-> IF u \in Members(d, a.group)
                                      THEN InvitationStatus(d, a, u) ELSE @[u]],
        !.notes = @ \cup {Invite(a, u) : u \in Members(d, a.group)}]

\* RemoveGroupMember.
WithoutMember(d, g, u) ==
    [d EXCEPT !.members = @ \ {<<g, u>>}, !.rank[g][u] = 0,
              !.status = [a \in Appt |-> IF a.group = g THEN [@[a] EXCEPT ![u] = "none"]
                                         ELSE @[a]]]

\* AddNotification.
WithNote(d, n) == [d EXCEPT !.notes = @ \cup {n}]

WithSlot(d, a, s) == [d EXCEPT !.slot[a] = s]
WithDeleted(d, a) == [d EXCEPT !.deleted = @ \cup ({a} \cap d.appts)]
WithRank(d, g, u, r) == [d EXCEPT !.rank[g][u] = r]
WithName(d, g) == [d EXCEPT !.renamed = @ \cup {g}]

\* The notification of an invitation is a row of the notifications table.
LEMMA InviteIsNote ==
  ASSUME NEW a \in Appt, NEW u \in User
  PROVE  /\ Invite(a, u) \in Note /\ Invite(a, u).type = "invite"
         /\ Invite(a, u).appt = a /\ Invite(a, u).user = u
  BY ApptFields DEF Invite, Note

\* Members start with an open invitation.
LEMMA InvitationStatusIs ==
  ASSUME NEW d, NEW a, NEW u
  PROVE  InvitationStatus(d, a, u) \in {"pending", "auto"}
  BY DEF InvitationStatus

\* The transaction of Storage.CreateGroupAppointment.
LEMMA WithInvitationsIs ==
  ASSUME NEW d \in Tables, NEW a \in Appt, NEW e, e = WithInvitations(d, a)
  PROVE  /\ e \in Tables
         /\ e.groups = d.groups /\ e.renamed = d.renamed
         /\ e.members = d.members /\ e.rank = d.rank
         /\ e.appts = d.appts \cup {a} /\ e.deleted = d.deleted
         /\ \A b \in Appt : e.slot[b] = IF b = a THEN a.slot ELSE d.slot[b]
         /\ \A b \in Appt, u \in User :
              e.status[b][u] = IF b = a /\ u \in Members(d, a.group)
                               THEN InvitationStatus(d, a, u) ELSE d.status[b][u]
         /\ e.notes = d.notes \cup {Invite(a, u) : u \in Members(d, a.group)}
<1> DEFINE f == InsertAppt(d, a)
           M == Members(d, a.group)
           st == [u \in User |-> IF u \in M THEN InvitationStatus(d, a, u) ELSE f.status[a][u]]
           ns == {Invite(a, u) : u \in M}
<1>1. /\ f \in Tables
      /\ f.groups = d.groups /\ f.renamed = d.renamed
      /\ f.members = d.members /\ f.rank = d.rank
      /\ f.appts = d.appts \cup {a} /\ f.deleted = d.deleted
      /\ \A b \in Appt : f.slot[b] = IF b = a THEN a.slot ELSE d.slot[b]
      /\ f.status = d.status /\ f.notes = d.notes
  BY InsertApptIs
<1>2. e = [f EXCEPT !.status[a] = st, !.notes = f.notes \cup ns]
  BY DEF WithInvitations
<1>3. f.status \in [Appt -> [User -> Status \cup {"none"}]]
  BY <1>1, TableFields
<1>4. st \in [User -> Status \cup {"none"}]
  <2>1. \A u \in User : InvitationStatus(d, a, u) \in Status
    BY InvitationStatusIs DEF Status
  <2>2. \A u \in User : f.status[a][u] \in Status \cup {"none"}
    BY <1>3
  <2> QED
    BY <2>1, <2>2
<1>5. ns \subseteq Note
  BY InviteIsNote DEF Members
<1>6. \A u \in User : st[u] = IF u \in M THEN InvitationStatus(d, a, u) ELSE d.status[a][u]
  BY <1>1
<1> HIDE DEF f, st, ns
<1>7. /\ e.groups = f.groups /\ e.renamed = f.renamed
      /\ e.members = f.members /\ e.rank = f.rank
      /\ e.appts = f.appts /\ e.deleted = f.deleted /\ e.slot = f.slot
      /\ e.status = [f.status EXCEPT ![a] = st] /\ e.notes = f.notes \cup ns
  BY <1>1, <1>2 DEF Tables
<1>8. e \in Tables
  <2>1. [f.status EXCEPT ![a] = st] \in [Appt -> [User -> Status \cup {"none"}]]
    BY <1>3, <1>4
  <2>2. f.notes \cup ns \subseteq Note
    BY <1>1, <1>5, TableFields
  <2>3. e = [f EXCEPT !.status = [f.status EXCEPT ![a] = st], !.notes = f.notes \cup ns]
    BY <1>1, <1>2 DEF Tables
  <2> QED
    BY <1>1, <2>1, <2>2, <2>3 DEF Tables
<1>9. \A b \in Appt, u \in User :
         e.status[b][u] = IF b = a /\ u \in M THEN InvitationStatus(d, a, u) ELSE d.status[b][u]
  BY <1>1, <1>3, <1>6, <1>7
<1>10. e.notes = d.notes \cup {Invite(a, u) : u \in M}
  BY <1>1, <1>7 DEF ns
<1> QED
  BY <1>1, <1>7, <1>8, <1>9, <1>10

\* The statements of RemoveGroupMember.
LEMMA WithoutMemberIs ==
  ASSUME NEW d \in Tables, NEW g \in Group, NEW u \in User, NEW e, e = WithoutMember(d, g, u)
  PROVE  /\ e \in Tables
         /\ e.groups = d.groups /\ e.renamed = d.renamed
         /\ e.members = d.members \ {<<g, u>>}
         /\ e.appts = d.appts /\ e.deleted = d.deleted /\ e.slot = d.slot /\ e.notes = d.notes
         /\ \A b \in Appt, v \in User :
              e.status[b][v] = IF b.group = g /\ v = u THEN "none" ELSE d.status[b][v]
<1> DEFINE st == [a \in Appt |-> IF a.group = g THEN [d.status[a] EXCEPT ![u] = "none"]
                                 ELSE d.status[a]]
           rk == [d.rank EXCEPT ![g][u] = 0]
<1>1. /\ d.members \subseteq Group \X User /\ d.rank \in [Group -> [User -> Ranks]]
      /\ d.status \in [Appt -> [User -> Status \cup {"none"}]]
  BY TableFields
<1>2. e = [d EXCEPT !.members = d.members \ {<<g, u>>}, !.rank = rk, !.status = st]
  BY DEF WithoutMember, Tables
<1>3. rk \in [Group -> [User -> Ranks]]
  BY <1>1 DEF Ranks
<1>4. st \in [Appt -> [User -> Status \cup {"none"}]]
  BY <1>1
<1>5. \A b \in Appt, v \in User :
         st[b][v] = IF b.group = g /\ v = u THEN "none" ELSE d.status[b][v]
  BY <1>1
<1>6. d.members \ {<<g, u>>} \subseteq Group \X User
  BY <1>1
<1> HIDE DEF st, rk
<1>7. e \in Tables
  BY <1>2, <1>3, <1>4, <1>6 DEF Tables
<1>8. /\ e.groups = d.groups /\ e.renamed = d.renamed
      /\ e.members = d.members \ {<<g, u>>} /\ e.status = st
      /\ e.appts = d.appts /\ e.deleted = d.deleted /\ e.slot = d.slot /\ e.notes = d.notes
  BY <1>2 DEF Tables
<1> QED
  BY <1>5, <1>7, <1>8

\* INSERT INTO notifications.
LEMMA WithNoteIs ==
  ASSUME NEW d \in Tables, NEW n \in Note, NEW e, e = WithNote(d, n)
  PROVE  /\ e \in Tables
         /\ e.groups = d.groups /\ e.renamed = d.renamed
         /\ e.members = d.members /\ e.rank = d.rank
         /\ e.appts = d.appts /\ e.deleted = d.deleted /\ e.slot = d.slot
         /\ e.status = d.status /\ e.notes = d.notes \cup {n}
  BY TableFields DEF Tables, WithNote

\* UPDATE of the times of an appointment.
LEMMA WithSlotIs ==
  ASSUME NEW d \in Tables, NEW a \in Appt, NEW s \in Slot, NEW e, e = WithSlot(d, a, s)
  PROVE  /\ e \in Tables
         /\ e.groups = d.groups /\ e.renamed = d.renamed
         /\ e.members = d.members /\ e.rank = d.rank
         /\ e.appts = d.appts /\ e.deleted = d.deleted
         /\ \A b \in Appt : e.slot[b] = IF b = a THEN s ELSE d.slot[b]
         /\ e.status = d.status /\ e.notes = d.notes
  BY TableFields DEF Tables, WithSlot

\* UPDATE of deleted, in a row that is there.
LEMMA WithDeletedIs ==
  ASSUME NEW d \in Tables, NEW a \in Appt, NEW e, e = WithDeleted(d, a)
  PROVE  /\ e \in Tables
         /\ e.groups = d.groups /\ e.renamed = d.renamed
         /\ e.members = d.members /\ e.rank = d.rank
         /\ e.appts = d.appts /\ e.deleted = d.deleted \cup ({a} \cap d.appts)
         /\ e.slot = d.slot /\ e.status = d.status /\ e.notes = d.notes
  BY TableFields DEF Tables, WithDeleted

\* UPDATE of a rank.
LEMMA WithRankIs ==
  ASSUME NEW d \in Tables, NEW g \in Group, NEW u \in User, NEW r \in Ranks,
         NEW e, e = WithRank(d, g, u, r)
  PROVE  /\ e \in Tables
         /\ e.groups = d.groups /\ e.renamed = d.renamed /\ e.members = d.members
         /\ \A x \in Group, v \in User :
              e.rank[x][v] = IF x = g /\ v = u THEN r ELSE d.rank[x][v]
         /\ e.appts = d.appts /\ e.deleted = d.deleted /\ e.slot = d.slot
         /\ e.status = d.status /\ e.notes = d.notes
  BY TableFields DEF Tables, WithRank

\* UPDATE of a group.
LEMMA WithNameIs ==
  ASSUME NEW d \in Tables, NEW g \in Group, NEW e, e = WithName(d, g)
  PROVE  /\ e \in Tables
         /\ e.groups = d.groups /\ e.renamed = d.renamed \cup {g}
         /\ e.members = d.members /\ e.rank = d.rank
         /\ e.appts = d.appts /\ e.deleted = d.deleted /\ e.slot = d.slot
         /\ e.status = d.status /\ e.notes = d.notes
  BY TableFields DEF Tables, WithName

\* INSERT OR REPLACE INTO group_members.
LEMMA InsertMemberIs ==
  ASSUME NEW d \in Tables, NEW g \in Group, NEW u \in User, NEW r \in Ranks,
         NEW e, e = InsertMember(d, g, u, r)
  PROVE  /\ e \in Tables
         /\ e.groups = d.groups /\ e.renamed = d.renamed
         /\ e.members = d.members \cup {<<g, u>>}
         /\ \A x \in Group, v \in User :
              e.rank[x][v] = IF x = g /\ v = u THEN r ELSE d.rank[x][v]
         /\ e.appts = d.appts /\ e.deleted = d.deleted /\ e.slot = d.slot
         /\ e.status = d.status /\ e.notes = d.notes
<1>1. d.members \cup {<<g, u>>} \subseteq Group \X User
  BY TableFields
<1>2. [d.rank EXCEPT ![g][u] = r] \in [Group -> [User -> Ranks]]
  BY TableFields
<1>3. e = [d EXCEPT !.members = d.members \cup {<<g, u>>},
                    !.rank = [d.rank EXCEPT ![g][u] = r]]
  BY DEF InsertMember, Tables
<1>4. \A x \in Group, v \in User :
         [d.rank EXCEPT ![g][u] = r][x][v] = IF x = g /\ v = u THEN r ELSE d.rank[x][v]
  BY TableFields
<1>5. e \in Tables
  BY <1>1, <1>2, <1>3, ZenonT(60) DEF Tables
<1>6. e.rank = [d.rank EXCEPT ![g][u] = r]
  BY <1>3 DEF Tables
<1>7. /\ e.groups = d.groups /\ e.renamed = d.renamed
      /\ e.members = d.members \cup {<<g, u>>}
      /\ e.appts = d.appts /\ e.deleted = d.deleted /\ e.slot = d.slot
      /\ e.status = d.status /\ e.notes = d.notes
  BY <1>3 DEF Tables
<1> QED
  BY <1>4, <1>5, <1>6, <1>7

\* INSERT INTO groups.
LEMMA InsertGroupIs ==
  ASSUME NEW d \in Tables, NEW g \in Group, NEW e, e = InsertGroup(d, g)
  PROVE  /\ e \in Tables
         /\ e.groups = d.groups \cup {g} /\ e.renamed = d.renamed
         /\ e.members = d.members /\ e.rank = d.rank
         /\ e.appts = d.appts /\ e.deleted = d.deleted /\ e.slot = d.slot
         /\ e.status = d.status /\ e.notes = d.notes
  BY TableFields DEF Tables, InsertGroup

\* DeleteGroup with what it cascades to.
LEMMA WithoutGroupIs ==
  ASSUME NEW d \in Tables, NEW g \in Group, NEW e, e = WithoutGroup(d, g)
  PROVE  /\ e \in Tables
         /\ e.groups = d.groups \ {g}
         /\ e.members = {m \in d.members : m[1] # g}
         /\ \A b \in Appt : b \in e.appts <=> b \in d.appts /\ b.group # g
         /\ \A b \in Appt : b \in e.deleted <=> b \in d.deleted /\ ~(b \in d.appts /\ b.group = g)
         /\ e.notes = d.notes
         /\ \A b \in Appt : b.group # g => e.slot[b] = d.slot[b]
         /\ \A b \in Appt, v \in User :
              e.status[b][v] = IF b \in d.appts /\ b.group = g THEN "none" ELSE d.status[b][v]
<1> DEFINE gone == {a \in d.appts : a.group = g}
           st == [a \in Appt |-> IF a \in gone THEN [u \in User |-> "none"] ELSE d.status[a]]
           sl == [a \in Appt |-> IF a \in gone THEN a.slot ELSE d.slot[a]]
           rk == [d.rank EXCEPT ![g] = [u \in User |-> 0]]
<1>1. /\ d.rank \in [Group -> [User -> Ranks]] /\ d.slot \in [Appt -> Slot]
      /\ d.status \in [Appt -> [User -> Status \cup {"none"}]] /\ d.appts \subseteq Appt
  BY TableFields
<1>2. e = [d EXCEPT !.groups = d.groups \ {g}, !.renamed = d.renamed \ {g},
                    !.members = {m \in d.members : m[1] # g}, !.rank = rk,
                    !.appts = d.appts \ gone, !.deleted = d.deleted \ gone,
                    !.slot = sl, !.status = st]
  BY DEF WithoutGroup, Tables
<1>3. rk \in [Group -> [User -> Ranks]]
  BY <1>1 DEF Ranks
<1>4. st \in [Appt -> [User -> Status \cup {"none"}]] /\ sl \in [Appt -> Slot]
  BY <1>1, ApptFields
<1>5. \A b \in Appt, v \in User :
         st[b][v] = IF b \in d.appts /\ b.group = g THEN "none" ELSE d.status[b][v]
  BY <1>1
<1>6. \A b \in Appt : b.group # g => sl[b] = d.slot[b]
  BY <1>1
<1>7. \A b : b \in gone <=> b \in d.appts /\ b.group = g
  OBVIOUS
<1> HIDE DEF gone, st, sl, rk
<1>8. /\ e.groups = d.groups \ {g} /\ e.renamed = d.renamed \ {g}
      /\ e.members = {m \in d.members : m[1] # g} /\ e.rank = rk
      /\ e.appts = d.appts \ gone /\ e.deleted = d.deleted \ gone
      /\ e.slot = sl /\ e.status = st /\ e.notes = d.notes
  BY <1>2 DEF Tables
<1>9. e \in Tables
  <2>1. /\ d.groups \ {g} \subseteq Group /\ d.renamed \ {g} \subseteq Group
        /\ {m \in d.members : m[1] # g} \subseteq Group \X User
        /\ d.appts \ gone \subseteq Appt /\ d.deleted \ gone \subseteq Appt
    BY TableFields
  <2> DEFINE f == [d EXCEPT !.groups = d.groups \ {g}, !.renamed = d.renamed \ {g},
                           !.members = {m \in d.members : m[1] # g}, !.rank = rk]
  <2>2. f \in Tables
    BY <1>3, <2>1 DEF Tables
  <2>3. e = [f EXCEPT !.appts = d.appts \ gone, !.deleted = d.deleted \ gone,
                      !.slot = sl, !.status = st]
    BY <1>2 DEF Tables
  <2> HIDE DEF f
  <2> QED
    BY <1>4, <2>1, <2>2, <2>3, ZenonT(60) DEF Tables
<1> QED
  BY <1>1, <1>5, <1>6, <1>7, <1>8, <1>9

-----------------------------------------------------------------------------
(* What a command may do to the tables, executed as a whole or in part.    *)

Answers == {"accepted", "declined"}
Open == {"pending", "auto"}

Effect(d, c, e) ==
    /\ Consistent(e)
    /\ d.notes \subseteq e.notes
    /\ \A n \in e.notes :
         \/ n \in d.notes
         \/ n.type \notin Answers
         \/ c.op = "invitation" /\ n.appt = c.appt /\ n.by = c.user
    /\ \A a \in Appt, u \in User :
         Invite(a, u) \in d.notes /\ d.status[a][u] \notin Open => e.status[a][u] \notin Open
    /\ c.op = "invitation" => e.status[c.appt][c.user] \in {c.status, "none"} \/ e = d

\* AnswersReachOwner and OwnerAttends for one replica.
Reported(d) ==
    \A a \in Live(d), u \in User :
        a.group # NoGroup /\ d.status[a][u] \in Answers =>
            \E n \in d.notes : n.type = d.status[a][u] /\ n.appt = a /\ n.by = u

Attended(d) ==
    \A a \in d.appts : a.group = NoGroup => d.status[a][a.owner] = "accepted"

\* Commands that touch neither participants nor notifications.
Quiet(d, e) ==
    /\ e \in Tables
    /\ e.appts = d.appts /\ e.status = d.status /\ e.notes = d.notes
    /\ d.deleted \subseteq e.deleted /\ e.deleted \subseteq e.appts
    /\ d.members \subseteq e.members

\* Such a command keeps the participants and their notifications in step.
LEMMA QuietEffect ==
  ASSUME NEW d, Consistent(d), NEW e, Quiet(d, e), NEW c, c.op # "invitation"
  PROVE  Effect(d, c, e) /\ (Reported(d) => Reported(e)) /\ (Attended(d) => Attended(e))
<1>1. Consistent(e)
  BY DEF Consistent, Involved, Quiet
<1>2. Effect(d, c, e)
  BY <1>1 DEF Effect, Quiet
<1>3. Reported(d) => Reported(e)
  BY DEF Reported, Quiet, Live
<1>4. Attended(d) => Attended(e)
  BY DEF Attended, Quiet
<1> QED
  BY <1>2, <1>3, <1>4

\* A command that changes nothing.
LEMMA SameEffect ==
  ASSUME NEW d, Consistent(d), NEW c
  PROVE  Effect(d, c, d)
  BY DEF Effect

\* CreatePersonal gives the new appointment its owner and nobody else.
LEMMA CreatePersonalEffect ==
  ASSUME NEW d, Consistent(d), NEW c, c.op # "invitation",
         NEW a \in Appt, a.group = NoGroup, NEW o, o = CreatePersonal(d, a)
  PROVE  Effect(d, c, o.d) /\ (Reported(d) => Reported(o.d)) /\ (Attended(d) => Attended(o.d))
<1> DEFINE e == o.d
<1>1. d \in Tables /\ a.owner \in User /\ "accepted" \in Status
  BY ApptFields DEF Consistent, Status
<1>2. CASE e = d
  BY <1>2, SameEffect
<1>3. CASE \E b \in Matching(d, a) : e = WithStatus(d, b, a.owner, "accepted")
  <2> PICK b \in Matching(d, a) : e = WithStatus(d, b, a.owner, "accepted")
    BY <1>3
  <2>1. /\ b \in Appt /\ b \in d.appts /\ b.group = NoGroup /\ b.owner = a.owner
    BY <1>1, MatchingFields
  <2>2. /\ e \in Tables /\ e.members = d.members /\ e.appts = d.appts /\ e.deleted = d.deleted
        /\ e.notes = d.notes
        /\ \A x \in Appt, v \in User :
              e.status[x][v] = IF x = b /\ v = a.owner THEN "accepted" ELSE d.status[x][v]
    BY <1>1, <2>1, WithStatusIs
  <2>3. d.appts \subseteq Appt /\ d.deleted \subseteq Appt
    BY <1>1, TableFields
  <2> HIDE DEF e
  <2>4. Consistent(e)
    BY <2>1, <2>2 DEF Consistent, Involved
  <2>5. Effect(d, c, e)
    BY <2>2, <2>4 DEF Effect, Open
  <2>6. Reported(d) => Reported(e)
    BY <2>1, <2>2, <2>3 DEF Reported, Live
  <2>7. Attended(d) => Attended(e)
    BY <1>1, <2>1, <2>2, <2>3, ApptFields DEF Attended
  <2> QED
    BY <2>5, <2>6, <2>7 DEF e
<1>4. CASE /\ a \notin d.appts
           /\ e = WithStatus(InsertAppt(d, a), a, a.owner, "accepted")
  <2> DEFINE f == InsertAppt(d, a)
  <2>1. /\ f \in Tables /\ f.members = d.members /\ f.appts = d.appts \cup {a}
        /\ f.deleted = d.deleted /\ f.status = d.status /\ f.notes = d.notes
    BY <1>1, InsertApptIs
  <2>2. e = WithStatus(f, a, a.owner, "accepted")
    BY <1>4
  <2> HIDE DEF f, e
  <2>3. /\ e \in Tables /\ e.members = f.members /\ e.appts = f.appts /\ e.deleted = f.deleted
        /\ e.notes = f.notes
        /\ \A x \in Appt, v \in User :
              e.status[x][v] = IF x = a /\ v = a.owner THEN "accepted" ELSE f.status[x][v]
    BY <1>1, <2>1, <2>2, WithStatusIs
  <2>4. d.appts \subseteq Appt /\ d.deleted \subseteq Appt
    BY <1>1, TableFields
  <2>5. Consistent(e)
    BY <2>1, <2>3 DEF Consistent, Involved
  <2>6. Effect(d, c, e)
    BY <2>1, <2>3, <2>5 DEF Effect, Open
  <2>7. Reported(d) => Reported(e)
    BY <2>1, <2>3, <2>4 DEF Reported, Live
  <2>8. Attended(d) => Attended(e)
    BY <1>1, <2>1, <2>3, <2>4, ApptFields DEF Attended
  <2> QED
    BY <2>6, <2>7, <2>8 DEF e
<1> QED
  BY <1>1, <1>2, <1>3, <1>4, CreatePersonalIs

\* The outcomes of CreateGroupAppointment.
LEMMA CreateGroupAppointmentIs ==
  ASSUME NEW d, NEW a, NEW o, o = CreateGroupAppointment(d, a)
  PROVE  \/ o.d = d /\ o.err # "fatal" /\ (Matching(d, a) # {} \/ a \in d.appts)
         \/ /\ o.d = d /\ o.err = "ignorable" /\ Matching(d, a) = {}
            /\ \E u \in Members(d, a.group) : Invite(a, u) \in d.notes
         \/ /\ o.d = d /\ o.err = "fatal"
            /\ a.group \notin d.groups \/ a.owner \notin Members(d, a.group)
         \/ /\ a \notin d.appts /\ Matching(d, a) = {}
            /\ \A u \in Members(d, a.group) : Invite(a, u) \notin d.notes
            /\ o.d = WithInvitations(d, a) /\ o.err = "none"
<1> DEFINE M == Members(d, a.group)
           outsider == a.group \notin Flat /\ M # {} /\ a.owner \notin M
<1>1. CASE Matching(d, a) # {}
  <2>1. o = Ok(d)
    BY <1>1 DEF CreateGroupAppointment
  <2> QED
    BY <1>1, <2>1, OutcomeFields
<1>2. CASE Matching(d, a) = {} /\ a \in d.appts
  <2>1. o = Ignorable(d)
    BY <1>2 DEF CreateGroupAppointment
  <2> QED
    BY <1>2, <2>1, OutcomeFields
<1>3. CASE Matching(d, a) = {} /\ a \notin d.appts /\ (a.group \notin d.groups \/ outsider)
  <2>1. o = Fatal(d)
    BY <1>3 DEF CreateGroupAppointment
  <2> QED
    BY <1>3, <2>1, OutcomeFields
<1>4. CASE /\ Matching(d, a) = {} /\ a \notin d.appts /\ ~(a.group \notin d.groups \/ outsider)
           /\ \E u \in M : Invite(a, u) \in d.notes
  <2>1. o = Ignorable(d)
    BY <1>4 DEF CreateGroupAppointment
  <2> QED
    BY <1>4, <2>1, OutcomeFields
<1>5. CASE /\ Matching(d, a) = {} /\ a \notin d.appts /\ ~(a.group \notin d.groups \/ outsider)
           /\ ~\E u \in M : Invite(a, u) \in d.notes
  <2> DEFINE e == WithInvitations(d, a)
  <2>1. o = Ok(e)
    BY <1>5 DEF CreateGroupAppointment, WithInvitations
  <2>2. o.d = e /\ o.err = "none"
    BY <2>1, OutcomeFields
  <2> QED
    BY <1>5, <2>2
<1> QED
  BY <1>1, <1>2, <1>3, <1>4, <1>5

\* CreateGroupAppointment invites members only, tells each of them, and reopens
\* no invitation.
LEMMA CreateGroupAppointmentEffect ==
  ASSUME NEW d, Consistent(d), NEW c, c.op # "invitation",
         NEW a \in Appt, a.group \in Group, NEW o, o = CreateGroupAppointment(d, a)
  PROVE  Effect(d, c, o.d) /\ (Reported(d) => Reported(o.d)) /\ (Attended(d) => Attended(o.d))
<1> DEFINE e == o.d
<1>1. d \in Tables
  BY DEF Consistent
<1>2. CASE e = d
  BY <1>2, SameEffect
<1>3. CASE /\ a \notin d.appts /\ e = WithInvitations(d, a)
           /\ \A u \in Members(d, a.group) : Invite(a, u) \notin d.notes
  <2> DEFINE M == Members(d, a.group)
  <2>1. /\ e \in Tables /\ e.members = d.members
        /\ e.appts = d.appts \cup {a} /\ e.deleted = d.deleted
        /\ \A b \in Appt, u \in User :
              e.status[b][u] = IF b = a /\ u \in M THEN InvitationStatus(d, a, u)
                               ELSE d.status[b][u]
        /\ e.notes = d.notes \cup {Invite(a, u) : u \in M}
    BY <1>1, <1>3, WithInvitationsIs
  <2>2. \A u \in User : InvitationStatus(d, a, u) \in {"pending", "auto"}
    BY InvitationStatusIs
  <2>3. a.group # NoGroup /\ \A u \in M : u \in User /\ <<a.group, u>> \in d.members
    BY AgendaAssumption DEF Members
  <2>4. \A u \in M : Invite(a, u).type = "invite"
    BY <2>3, InviteIsNote
  <2>5. d.appts \subseteq Appt /\ d.deleted \subseteq Appt
    BY <1>1, TableFields
  <2> HIDE DEF e, M
  <2>6. Consistent(e)
    BY <2>1, <2>2, <2>3, <2>5 DEF Consistent, Involved
  <2>7. \A b \in Appt, u \in User :
          Invite(b, u) \in d.notes /\ d.status[b][u] \notin Open => e.status[b][u] \notin Open
    BY <1>3, <2>1, <2>2 DEF M
  <2>8. Effect(d, c, e)
    BY <2>1, <2>4, <2>6, <2>7 DEF Effect, Answers
  <2>9. Reported(d) => Reported(e)
    <3> SUFFICES ASSUME Reported(d), NEW b \in Live(e), NEW u \in User,
                        b.group # NoGroup, e.status[b][u] \in Answers
                 PROVE  \E n \in e.notes : n.type = e.status[b][u] /\ n.appt = b /\ n.by = u
      BY DEF Reported
    <3>1. b \in Appt /\ e.status[b][u] = d.status[b][u]
      BY <2>1, <2>2, <2>5 DEF Live, Answers
    <3>2. b \in Live(d)
      BY <1>3, <2>1, <3>1 DEF Live, Consistent, Involved, Answers
    <3> QED
      BY <2>1, <3>1, <3>2 DEF Reported
  <2>10. Attended(d) => Attended(e)
    BY <2>1, <2>3, <2>5, ApptFields DEF Attended
  <2> QED
    BY <2>8, <2>9, <2>10 DEF e
<1> QED
  BY <1>2, <1>3, CreateGroupAppointmentIs

\* RemoveGroupMember takes the invitations along.
LEMMA RemoveMemberEffect ==
  ASSUME NEW d, Consistent(d), NEW c, c.op # "invitation",
         NEW g \in Group, NEW u \in User, NEW o, o = RemoveGroupMember(d, g, u)
  PROVE  /\ Effect(d, c, o.d) /\ (Reported(d) => Reported(o.d)) /\ (Attended(d) => Attended(o.d))
         /\ o.err = "none"
<1> DEFINE e == o.d
<1>1. d \in Tables
  BY DEF Consistent
<1>2. CASE <<g, u>> \notin d.members
  <2>1. o = Ok(d)
    BY <1>2 DEF RemoveGroupMember
  <2> QED
    BY <2>1, SameEffect, OutcomeFields
<1>3. CASE <<g, u>> \in d.members
  <2> DEFINE f == WithoutMember(d, g, u)
  <2>1. o = Ok(f)
    BY <1>3 DEF RemoveGroupMember, WithoutMember
  <2>2. e = f /\ o.err = "none"
    BY <2>1, OutcomeFields
  <2>3. /\ e \in Tables /\ e.members = d.members \ {<<g, u>>}
        /\ e.appts = d.appts /\ e.deleted = d.deleted /\ e.notes = d.notes
        /\ \A b \in Appt, v \in User :
              e.status[b][v] = IF b.group = g /\ v = u THEN "none" ELSE d.status[b][v]
    BY <1>1, <2>2, WithoutMemberIs
  <2>4. d.appts \subseteq Appt /\ d.deleted \subseteq Appt /\ g # NoGroup
    BY <1>1, TableFields, AgendaAssumption
  <2> HIDE DEF e, f
  <2>5. Consistent(e)
    BY <2>3, <2>4 DEF Consistent, Involved
  <2>6. Effect(d, c, e)
    BY <2>3, <2>5 DEF Effect, Open
  <2>7. Reported(d) => Reported(e)
    BY <2>3, <2>4 DEF Reported, Live, Answers
  <2>8. Attended(d) => Attended(e)
    BY <2>3, <2>4, ApptFields DEF Attended
  <2> QED
    BY <2>2, <2>6, <2>7, <2>8 DEF e
<1> QED
  BY <1>2, <1>3

\* SetStatus writes to existing participants only.
LEMMA SetStatusIs ==
  ASSUME NEW d \in Tables, NEW a \in Appt, NEW u \in User, NEW st \in Answers,
         NEW e, e = SetStatus(d, a, u, st)
  PROVE  /\ e \in Tables
         /\ e.groups = d.groups /\ e.renamed = d.renamed
         /\ e.members = d.members /\ e.rank = d.rank
         /\ e.appts = d.appts /\ e.deleted = d.deleted /\ e.slot = d.slot /\ e.notes = d.notes
         /\ \A b \in Appt, v \in User :
              e.status[b][v] = IF b = a /\ v = u /\ d.status[a][u] # "none"
                               THEN st ELSE d.status[b][v]
         /\ d.status[a][u] = "none" => e = d
<1>1. st \in Status
  BY DEF Answers, Status
<1>2. CASE d.status[a][u] = "none"
  <2>1. e = d
    BY <1>2 DEF SetStatus
  <2> QED
    BY <1>2, <2>1
<1>3. CASE d.status[a][u] # "none"
  <2>1. e = WithStatus(d, a, u, st)
    BY <1>3 DEF SetStatus, WithStatus
  <2> QED
    BY <1>1, <1>3, <2>1, WithStatusIs
<1> QED
  BY <1>2, <1>3

\* The report of an answer is a row of the notifications table.
LEMMA AnswerIsNote ==
  ASSUME NEW d \in Tables, NEW a \in Appt, NEW u \in User, NEW st \in Answers
  PROVE  /\ Answer(d, a, u, st) \in Note
         /\ Answer(d, a, u, st).type = st /\ Answer(d, a, u, st).appt = a
         /\ Answer(d, a, u, st).by = u
  BY TableFields, ApptFields DEF Answer, Note, Answers

\* The outcomes of AnswerInvitation.
LEMMA AnswerInvitationIs ==
  ASSUME NEW d, NEW a, NEW u, NEW st, NEW o, o = AnswerInvitation(d, a, u, st),
         NEW e, e = SetStatus(d, a, u, st)
  PROVE  \/ d.status[a][u] = st /\ o.d = d /\ o.err = "none"
         \/ d.status[a][u] # st /\ a \notin Live(d) /\ o.d = e /\ o.err = "none"
         \/ /\ d.status[a][u] # st /\ a \in Live(d) /\ Answer(d, a, u, st) \in d.notes
            /\ o.d = e /\ o.err = "fatal"
         \/ /\ d.status[a][u] # st /\ a \in Live(d) /\ Answer(d, a, u, st) \notin d.notes
            /\ o.d = WithNote(e, Answer(d, a, u, st)) /\ o.err = "none"
<1>1. CASE d.status[a][u] = st
  <2>1. o = Ok(d)
    BY <1>1 DEF AnswerInvitation
  <2> QED
    BY <1>1, <2>1, OutcomeFields
<1>2. CASE d.status[a][u] # st /\ a \notin Live(d)
  <2>1. o = Ok(e)
    BY <1>2 DEF AnswerInvitation
  <2> QED
    BY <1>2, <2>1, OutcomeFields
<1>3. CASE d.status[a][u] # st /\ a \in Live(d) /\ Answer(d, a, u, st) \in d.notes
  <2>1. o = Fatal(e)
    BY <1>3 DEF AnswerInvitation
  <2> QED
    BY <1>3, <2>1, OutcomeFields
<1>4. CASE d.status[a][u] # st /\ a \in Live(d) /\ Answer(d, a, u, st) \notin d.notes
  <2> DEFINE f == WithNote(e, Answer(d, a, u, st))
  <2>1. o = Ok(f)
    BY <1>4 DEF AnswerInvitation, WithNote
  <2>2. o.d = f /\ o.err = "none"
    BY <2>1, OutcomeFields
  <2> QED
    BY <1>4, <2>2
<1> QED
  BY <1>1, <1>2, <1>3, <1>4

\* UpdateParticipantStatus alone: what an interrupted answer leaves.
LEMMA SetStatusEffect ==
  ASSUME NEW d, Consistent(d), NEW c, c.op = "invitation",
         c.appt \in Appt, c.appt.group \in Group, c.user \in User, c.status \in Answers,
         NEW e, e = SetStatus(d, c.appt, c.user, c.status)
  PROVE  Effect(d, c, e) /\ (Attended(d) => Attended(e))
<1>1. d \in Tables
  BY DEF Consistent
<1>2. /\ e \in Tables /\ e.members = d.members
      /\ e.appts = d.appts /\ e.deleted = d.deleted /\ e.notes = d.notes
      /\ \A b \in Appt, v \in User :
            e.status[b][v] = IF b = c.appt /\ v = c.user /\ d.status[c.appt][c.user] # "none"
                             THEN c.status ELSE d.status[b][v]
  BY <1>1, SetStatusIs
<1>3. c.appt.group # NoGroup /\ c.status \notin Open /\ c.status # "none"
  BY AgendaAssumption DEF Answers, Open
<1>4. d.appts \subseteq Appt
  BY <1>1, TableFields
<1>5. Consistent(e)
  BY <1>2, <1>3 DEF Consistent, Involved
<1>6. Effect(d, c, e)
  BY <1>2, <1>3, <1>5 DEF Effect
<1>7. Attended(d) => Attended(e)
  BY <1>2, <1>3, <1>4, ApptFields DEF Attended
<1> QED
  BY <1>6, <1>7

\* An answer reaches the owner, or fails.
LEMMA AnswerEffect ==
  ASSUME NEW d, Consistent(d), NEW c, c.op = "invitation",
         c.appt \in Appt, c.appt.group \in Group, c.user \in User, c.status \in Answers,
         NEW o, o = AnswerInvitation(d, c.appt, c.user, c.status)
  PROVE  /\ Effect(d, c, o.d) /\ (Reported(d) => Reported(o.d)) /\ (Attended(d) => Attended(o.d))
         /\ o.d.status[c.appt][c.user] \in {c.status, "none"}
<1> DEFINE e == SetStatus(d, c.appt, c.user, c.status)
           n == Answer(d, c.appt, c.user, c.status)
           f == WithNote(e, n)
<1>1. d \in Tables /\ d.appts \subseteq Appt
  BY TableFields DEF Consistent
<1>2. /\ e \in Tables /\ e.members = d.members
      /\ e.appts = d.appts /\ e.deleted = d.deleted /\ e.notes = d.notes
      /\ \A b \in Appt, v \in User :
            e.status[b][v] = IF b = c.appt /\ v = c.user /\ d.status[c.appt][c.user] # "none"
                             THEN c.status ELSE d.status[b][v]
  BY <1>1, SetStatusIs
<1>3. Effect(d, c, e) /\ (Attended(d) => Attended(e)) /\ Consistent(e)
  BY SetStatusEffect DEF Effect
<1>4. n \in Note /\ n.type = c.status /\ n.appt = c.appt /\ n.by = c.user
  BY <1>1, AnswerIsNote
<1> HIDE DEF e, n
<1>5. CASE d.status[c.appt][c.user] = c.status /\ o.d = d
  BY <1>5, SameEffect
<1>6. CASE c.appt \notin Live(d) /\ o.d = e
  <2>1. Reported(d) => Reported(e)
    BY <1>1, <1>2, <1>6 DEF Reported, Live
  <2>2. e.status[c.appt][c.user] \in {c.status, "none"}
    BY <1>2
  <2> QED
    BY <1>3, <1>6, <2>1, <2>2
<1>7. CASE n \in d.notes /\ o.d = e
  <2>1. Reported(d) => Reported(e)
    BY <1>1, <1>2, <1>4, <1>7 DEF Reported, Live
  <2>2. e.status[c.appt][c.user] \in {c.status, "none"}
    BY <1>2
  <2> QED
    BY <1>3, <1>7, <2>1, <2>2
<1>8. CASE o.d = f
  <2>1. /\ f \in Tables /\ f.members = e.members /\ f.appts = e.appts /\ f.deleted = e.deleted
        /\ f.status = e.status /\ f.notes = e.notes \cup {n}
    BY <1>2, <1>4, WithNoteIs
  <2> HIDE DEF f
  <2>2. Consistent(f)
    BY <1>3, <2>1 DEF Consistent, Involved
  <2>3. f.status[c.appt][c.user] \in {c.status, "none"}
    BY <1>2, <2>1
  <2>4. Effect(d, c, f)
    BY <1>2, <1>3, <1>4, <2>1, <2>2, <2>3 DEF Effect
  <2>5. Reported(d) => Reported(f)
    BY <1>1, <1>2, <1>4, <2>1 DEF Reported, Live
  <2>6. Attended(e) => Attended(f)
    BY <2>1 DEF Attended
  <2> QED
    BY <1>3, <1>8, <2>3, <2>4, <2>5, <2>6
<1> QED
  BY <1>5, <1>6, <1>7, <1>8, AnswerInvitationIs DEF e, n

\* What the entries of the log carry.
LEMMA CommandFields ==
  ASSUME NEW c \in Command
  PROVE  /\ c.op \in {"create_personal", "create_group_appt", "delete", "update", "group_create",
                      "group_update", "member_add", "member_update", "member_remove",
                      "invitation"}
         /\ c.op \in {"create_personal", "create_group_appt", "delete", "update", "invitation"}
              => c.appt \in Appt
         /\ c.op = "update" => c.slot \in Slot
         /\ c.op \in {"group_create", "group_update", "member_add", "member_update",
                      "member_remove"} => c.group \in Group
         /\ c.op \in {"member_add", "member_update", "member_remove", "invitation"}
              => c.user \in User
         /\ c.op \in {"member_add", "member_update"} => c.rank \in Ranks
         /\ c.op = "invitation" => c.status \in Answers
  BY DEF Command, ApptCommand, GroupCommand, InvitationCommand, Answers

\* NewRaftApplier, by command.
LEMMA ApplyIs ==
  ASSUME NEW d, NEW c
  PROVE  /\ c.op = "create_personal" => Apply(d, c) = CreatePersonal(d, c.appt)
         /\ c.op = "create_group_appt" => Apply(d, c) = CreateGroupAppointment(d, c.appt)
         /\ c.op = "update" => Apply(d, c) = UpdateAppointment(d, c.appt, c.slot)
         /\ c.op = "delete" => Apply(d, c) = DeleteAppointment(d, c.appt)
         /\ c.op = "group_create" => Apply(d, c) = CreateGroup(d, c.group)
         /\ c.op = "group_update" => Apply(d, c) = UpdateGroup(d, c.group)
         /\ c.op = "member_add" => Apply(d, c) = AddGroupMember(d, c.group, c.user, c.rank)
         /\ c.op = "member_update" => Apply(d, c) = UpdateGroupMember(d, c.group, c.user, c.rank)
         /\ c.op = "member_remove" => Apply(d, c) = RemoveGroupMember(d, c.group, c.user)
         /\ c.op = "invitation" => Apply(d, c) = AnswerInvitation(d, c.appt, c.user, c.status)
  BY DEF Apply

\* The outcomes of UpdateAppointment.
LEMMA UpdateAppointmentIs ==
  ASSUME NEW d, NEW a, NEW s, NEW o, o = UpdateAppointment(d, a, s)
  PROVE  \/ a \in Live(d) /\ o.d = WithSlot(d, a, s) /\ o.err = "none"
         \/ a \notin Live(d) /\ o.d = d /\ o.err = "fatal"
<1> DEFINE e == WithSlot(d, a, s)
<1>1. o = IF a \in Live(d) THEN Ok(e) ELSE Fatal(d)
  BY DEF UpdateAppointment, WithSlot
<1> HIDE DEF e
<1>2. \/ a \in Live(d) /\ o.d = e /\ o.err = "none"
      \/ a \notin Live(d) /\ o.d = d /\ o.err = "fatal"
  BY <1>1, OutcomeFields
<1> QED
  BY <1>2 DEF e

\* The outcome of DeleteAppointment.
LEMMA DeleteAppointmentIs ==
  ASSUME NEW d, NEW a, NEW o, o = DeleteAppointment(d, a)
  PROVE  o.d = WithDeleted(d, a) /\ o.err = "none"
<1> DEFINE e == WithDeleted(d, a)
<1>1. o = Ok(e)
  BY DEF DeleteAppointment, WithDeleted
<1> HIDE DEF e
<1>2. o.d = e /\ o.err = "none"
  BY <1>1, OutcomeFields
<1> QED
  BY <1>2 DEF e

\* The outcomes of CreateGroup.
LEMMA CreateGroupIs ==
  ASSUME NEW d, NEW g, NEW o, o = CreateGroup(d, g)
  PROVE  /\ o.err = "none"
         /\ \/ g \in d.groups /\ o.d = d
            \/ /\ g \notin d.groups
               /\ o.d = InsertMember(InsertGroup(d, g), g, Creator[g], GroupOwnerRank(g))
<1> DEFINE e == InsertMember(InsertGroup(d, g), g, Creator[g], GroupOwnerRank(g))
<1>1. o = IF g \in d.groups THEN Ok(d) ELSE Ok(e)
  BY DEF CreateGroup
<1> HIDE DEF e
<1>2. /\ o.err = "none"
      /\ \/ g \in d.groups /\ o.d = d
         \/ g \notin d.groups /\ o.d = e
  BY <1>1, OutcomeFields
<1> QED
  BY <1>2 DEF e

\* The outcomes of UpdateGroup.
LEMMA UpdateGroupIs ==
  ASSUME NEW d, NEW g, NEW o, o = UpdateGroup(d, g)
  PROVE  \/ g \in d.groups /\ o.d = WithName(d, g) /\ o.err = "none"
         \/ g \notin d.groups /\ o.d = d /\ o.err = "fatal"
<1> DEFINE e == WithName(d, g)
<1>1. o = IF g \in d.groups THEN Ok(e) ELSE Fatal(d)
  BY DEF UpdateGroup, WithName
<1> HIDE DEF e
<1>2. \/ g \in d.groups /\ o.d = e /\ o.err = "none"
      \/ g \notin d.groups /\ o.d = d /\ o.err = "fatal"
  BY <1>1, OutcomeFields
<1> QED
  BY <1>2 DEF e

\* The outcome of AddGroupMember.
LEMMA AddGroupMemberIs ==
  ASSUME NEW d, NEW g, NEW u, NEW r, NEW o, o = AddGroupMember(d, g, u, r)
  PROVE  o.d = InsertMember(d, g, u, r) /\ o.err = "none"
<1> DEFINE e == InsertMember(d, g, u, r)
<1>1. o = Ok(e)
  BY DEF AddGroupMember
<1> HIDE DEF e
<1>2. o.d = e /\ o.err = "none"
  BY <1>1, OutcomeFields
<1> QED
  BY <1>2 DEF e

\* The outcomes of UpdateGroupMember.
LEMMA UpdateGroupMemberIs ==
  ASSUME NEW d, NEW g, NEW u, NEW r, NEW o, o = UpdateGroupMember(d, g, u, r)
  PROVE  o.err = "none" /\ o.d \in {d, WithRank(d, g, u, r)}
<1> DEFINE e == WithRank(d, g, u, r)
<1>1. o \in {Ok(e), Ok(d)}
  BY DEF UpdateGroupMember, WithRank
<1> HIDE DEF e
<1>2. o.err = "none" /\ o.d \in {d, e}
  BY <1>1, OutcomeFields
<1> QED
  BY <1>2 DEF e

\* The creator of a group is a user and gets a rank.
LEMMA OwnerRankType == \A g \in Group : GroupOwnerRank(g) \in Ranks /\ Creator[g] \in User
  BY AgendaAssumption DEF GroupOwnerRank, Ranks

QuietOps == {"update", "delete", "group_create", "group_update", "member_add", "member_update"}

\* The commands of QuietOps are quiet.
LEMMA QuietCommands ==
  ASSUME NEW d, Consistent(d), NEW c \in Command, c.op \in QuietOps, NEW o, o = Apply(d, c)
  PROVE  Quiet(d, o.d)
<1> SUFFICES ASSUME NEW e, e = o.d
             PROVE  Quiet(d, e)
  OBVIOUS
<1>1. d \in Tables /\ d.deleted \subseteq d.appts /\ d.deleted \subseteq Appt
  BY TableFields DEF Consistent
<1>2. Quiet(d, d)
  BY <1>1 DEF Quiet
<1>3. CASE c.op = "update"
  <2>1. c.appt \in Appt /\ c.slot \in Slot /\ o = UpdateAppointment(d, c.appt, c.slot)
    BY <1>3, CommandFields, ApplyIs
  <2>2. e = d \/ e = WithSlot(d, c.appt, c.slot)
    BY <2>1, UpdateAppointmentIs
  <2>3. CASE e = WithSlot(d, c.appt, c.slot)
    <3>1. /\ e \in Tables /\ e.members = d.members /\ e.appts = d.appts
          /\ e.status = d.status /\ e.notes = d.notes /\ e.deleted = d.deleted
      BY <1>1, <2>1, <2>3, WithSlotIs
    <3> QED
      BY <1>1, <3>1 DEF Quiet
  <2> QED
    BY <1>2, <2>2, <2>3
<1>4. CASE c.op = "delete"
  <2>1. c.appt \in Appt /\ o = DeleteAppointment(d, c.appt)
    BY <1>4, CommandFields, ApplyIs
  <2>2. e = WithDeleted(d, c.appt)
    BY <2>1, DeleteAppointmentIs
  <2> QED
    BY <1>1, <2>1, <2>2, WithDeletedIs DEF Quiet
<1>5. CASE c.op = "group_create"
  <2>1. c.group \in Group /\ o = CreateGroup(d, c.group)
    BY <1>5, CommandFields, ApplyIs
  <2> DEFINE f == InsertGroup(d, c.group)
             r == GroupOwnerRank(c.group)
  <2>2. e = d \/ e = InsertMember(f, c.group, Creator[c.group], r)
    BY <2>1, CreateGroupIs
  <2>3. /\ f \in Tables /\ f.members = d.members /\ f.appts = d.appts /\ f.status = d.status
        /\ f.notes = d.notes /\ f.deleted = d.deleted
    BY <1>1, <2>1, InsertGroupIs
  <2>4. r \in Ranks /\ Creator[c.group] \in User
    BY <2>1, OwnerRankType
  <2> HIDE DEF f, r
  <2>5. CASE e = InsertMember(f, c.group, Creator[c.group], r)
    <3>1. /\ e \in Tables /\ e.members = f.members \cup {<<c.group, Creator[c.group]>>}
          /\ e.appts = f.appts
          /\ e.status = f.status /\ e.notes = f.notes /\ e.deleted = f.deleted
      BY <2>1, <2>3, <2>4, <2>5, InsertMemberIs
    <3> QED
      BY <1>1, <2>3, <3>1 DEF Quiet
  <2> QED
    BY <1>2, <2>2, <2>5
<1>6. CASE c.op = "group_update"
  <2>1. c.group \in Group /\ o = UpdateGroup(d, c.group)
    BY <1>6, CommandFields, ApplyIs
  <2>2. e = d \/ e = WithName(d, c.group)
    BY <2>1, UpdateGroupIs
  <2> QED
    BY <1>1, <1>2, <2>1, <2>2, WithNameIs DEF Quiet
<1>7. CASE c.op = "member_add"
  <2>1. /\ c.group \in Group /\ c.user \in User /\ c.rank \in Ranks
        /\ o = AddGroupMember(d, c.group, c.user, c.rank)
    BY <1>7, CommandFields, ApplyIs
  <2>2. e = InsertMember(d, c.group, c.user, c.rank)
    BY <2>1, AddGroupMemberIs
  <2>3. CASE e = InsertMember(d, c.group, c.user, c.rank)
    <3>1. /\ e \in Tables /\ e.members = d.members \cup {<<c.group, c.user>>} /\ e.appts = d.appts
          /\ e.status = d.status /\ e.notes = d.notes /\ e.deleted = d.deleted
      BY <1>1, <2>1, <2>3, InsertMemberIs
    <3> QED
      BY <1>1, <3>1 DEF Quiet
  <2> QED
    BY <1>2, <2>2, <2>3
<1>8. CASE c.op = "member_update"
  <2>1. /\ c.group \in Group /\ c.user \in User /\ c.rank \in Ranks
        /\ o = UpdateGroupMember(d, c.group, c.user, c.rank)
    BY <1>8, CommandFields, ApplyIs
  <2>2. e = d \/ e = WithRank(d, c.group, c.user, c.rank)
    BY <2>1, UpdateGroupMemberIs
  <2>3. CASE e = WithRank(d, c.group, c.user, c.rank)
    <3>1. /\ e \in Tables /\ e.members = d.members /\ e.appts = d.appts
          /\ e.status = d.status /\ e.notes = d.notes /\ e.deleted = d.deleted
      BY <1>1, <2>1, <2>3, WithRankIs
    <3> QED
      BY <1>1, <3>1 DEF Quiet
  <2> QED
    BY <1>2, <2>2, <2>3
<1> QED
  BY <1>3, <1>4, <1>5, <1>6, <1>7, <1>8 DEF QuietOps

\* What every command of the log does to consistent tables.
LEMMA ApplyEffect ==
  ASSUME NEW d, Consistent(d), NEW c, Sound(c), NEW o, o = Apply(d, c)
  PROVE  /\ Effect(d, c, o.d) /\ (Reported(d) => Reported(o.d)) /\ (Attended(d) => Attended(o.d))
         /\ c.op = "invitation" => o.d.status[c.appt][c.user] \in {c.status, "none"}
<1>1. c \in Command
  BY DEF Sound
<1>2. CASE c.op \in QuietOps
  <2>1. Quiet(d, o.d) /\ c.op # "invitation"
    BY <1>1, <1>2, QuietCommands DEF QuietOps
  <2> QED
    BY <2>1, QuietEffect
<1>3. CASE c.op = "create_personal"
  <2>1. c.appt \in Appt /\ c.appt.group = NoGroup /\ o = CreatePersonal(d, c.appt)
    BY <1>1, <1>3, CommandFields, ApplyIs DEF Sound
  <2> QED
    BY <1>3, <2>1, CreatePersonalEffect
<1>4. CASE c.op = "create_group_appt"
  <2>1. c.appt \in Appt /\ c.appt.group \in Group /\ o = CreateGroupAppointment(d, c.appt)
    BY <1>1, <1>4, CommandFields, ApplyIs DEF Sound
  <2> QED
    BY <1>4, <2>1, CreateGroupAppointmentEffect
<1>5. CASE c.op = "member_remove"
  <2>1. c.group \in Group /\ c.user \in User /\ o = RemoveGroupMember(d, c.group, c.user)
    BY <1>1, <1>5, CommandFields, ApplyIs
  <2> QED
    BY <1>5, <2>1, RemoveMemberEffect
<1>6. CASE c.op = "invitation"
  <2>1. /\ c.appt \in Appt /\ c.appt.group \in Group /\ c.user \in User /\ c.status \in Answers
        /\ o = AnswerInvitation(d, c.appt, c.user, c.status)
    BY <1>1, <1>6, CommandFields, ApplyIs DEF Sound
  <2> QED
    BY <1>6, <2>1, AnswerEffect
<1> QED
  BY <1>1, <1>2, <1>3, <1>4, <1>5, <1>6, CommandFields DEF QuietOps

\* What an interrupted command has done.
LEMMA InterruptedIs ==
  ASSUME NEW d, NEW c, NEW e, e = Interrupted(d, c)
  PROVE  \/ /\ c.op = "create_personal" /\ Matching(d, c.appt) = {} /\ c.appt \notin d.appts
            /\ e = InsertAppt(d, c.appt)
         \/ c.op = "group_create" /\ e = InsertGroup(d, c.group)
         \/ /\ c.op = "invitation" /\ c.appt \in Live(d)
            /\ e = SetStatus(d, c.appt, c.user, c.status)
         \/ e = d
<1>1. CASE c.op = "create_personal" /\ Matching(d, c.appt) = {} /\ c.appt \notin d.appts
  BY <1>1 DEF Interrupted
<1>2. CASE c.op = "group_create"
  BY <1>2 DEF Interrupted
<1>3. CASE c.op = "invitation" /\ c.appt \in Live(d)
  BY <1>3 DEF Interrupted
<1>4. CASE /\ ~(c.op = "create_personal" /\ Matching(d, c.appt) = {} /\ c.appt \notin d.appts)
           /\ ~(c.op = "group_create")
           /\ ~(c.op = "invitation" /\ c.appt \in Live(d))
  BY <1>4 DEF Interrupted
<1> QED
  BY <1>1, <1>2, <1>3, <1>4

\* A personal appointment whose owner is not a participant yet: the command that
\* inserts him was interrupted and will find the appointment again.
Half(d, c) ==
    /\ c.op = "create_personal"
    /\ Matching(d, c.appt) = {c.appt}
    /\ d.status[c.appt][c.appt.owner] = "none"
    /\ \A b \in d.appts \ {c.appt} : b.group = NoGroup => d.status[b][b.owner] = "accepted"

\* An error between two statements of a command leaves consistent tables, and at
\* most the appointment it was creating without its owner.
LEMMA InterruptedEffect ==
  ASSUME NEW d, Consistent(d), NEW c, Sound(c), NEW e, e = Interrupted(d, c)
  PROVE  /\ Effect(d, c, e)
         /\ Attended(d) => Attended(e) \/ Half(e, c)
         /\ Half(d, c) => Half(e, c)
<1>1. d \in Tables /\ c \in Command /\ d.appts \subseteq Appt /\ d.deleted \subseteq d.appts
  BY TableFields DEF Consistent, Sound
<1>2. CASE e = d
  BY <1>2, SameEffect
<1>3. CASE /\ c.op = "create_personal" /\ Matching(d, c.appt) = {} /\ c.appt \notin d.appts
           /\ e = InsertAppt(d, c.appt)
  <2>1. c.appt \in Appt /\ c.appt.group = NoGroup /\ c.appt.owner \in User
    BY <1>1, <1>3, CommandFields, ApptFields DEF Sound
  <2>2. /\ e \in Tables /\ e.members = d.members /\ e.appts = d.appts \cup {c.appt}
        /\ e.deleted = d.deleted /\ e.status = d.status /\ e.notes = d.notes
        /\ \A b \in Appt : e.slot[b] = IF b = c.appt THEN c.appt.slot ELSE d.slot[b]
    BY <1>1, <1>3, <2>1, InsertApptIs
  <2>3. Consistent(e)
    BY <2>1, <2>2 DEF Consistent, Involved
  <2>4. Effect(d, c, e)
    BY <1>3, <2>2, <2>3 DEF Effect
  <2>5. d.status[c.appt][c.appt.owner] = "none"
    BY <1>3, <2>1 DEF Consistent, Involved
  <2>6. Matching(e, c.appt) = {c.appt}
    <3>1. \A b \in Live(e) : b = c.appt \/ (b \in Live(d) /\ b \in Appt /\ e.slot[b] = d.slot[b])
      BY <1>1, <1>3, <2>2 DEF Live
    <3>2. c.appt \in Live(e) /\ e.slot[c.appt] = c.appt.slot
      BY <1>1, <1>3, <2>1, <2>2 DEF Live
    <3> QED
      BY <1>3, <3>1, <3>2 DEF Matching
  <2>7. Attended(d) => Half(e, c)
    BY <1>3, <2>2, <2>5, <2>6 DEF Attended, Half
  <2>8. ~Half(d, c)
    BY <1>3 DEF Half
  <2> QED
    BY <2>4, <2>7, <2>8
<1>4. CASE c.op = "group_create" /\ e = InsertGroup(d, c.group)
  <2>1. c.group \in Group
    BY <1>1, <1>4, CommandFields
  <2>2. /\ e \in Tables /\ e.members = d.members /\ e.appts = d.appts
        /\ e.deleted = d.deleted /\ e.status = d.status /\ e.notes = d.notes
    BY <1>1, <1>4, <2>1, InsertGroupIs
  <2>3. Quiet(d, e)
    BY <1>1, <2>2 DEF Quiet
  <2> QED
    BY <1>4, <2>3, QuietEffect DEF Half
<1>5. CASE c.op = "invitation" /\ e = SetStatus(d, c.appt, c.user, c.status)
  <2>1. /\ c.appt \in Appt /\ c.appt.group \in Group /\ c.user \in User /\ c.status \in Answers
    BY <1>1, <1>5, CommandFields DEF Sound
  <2> QED
    BY <1>5, <2>1, SetStatusEffect DEF Half
<1> QED
  BY <1>2, <1>3, <1>4, <1>5, InterruptedIs

\* The next try completes what was interrupted.
LEMMA HalfCompleted ==
  ASSUME NEW d, Consistent(d), NEW c, Sound(c), Half(d, c), NEW o, o = Apply(d, c)
  PROVE  Attended(o.d) /\ o.err = "none"
<1>1. /\ d \in Tables /\ c.appt \in Appt /\ o = CreatePersonal(d, c.appt)
      /\ d.appts \subseteq Appt /\ c.appt.owner \in User /\ "accepted" \in Status
  BY CommandFields, ApplyIs, TableFields, ApptFields DEF Consistent, Sound, Half, Status
<1> DEFINE e == WithStatus(d, c.appt, c.appt.owner, "accepted")
           b == CHOOSE b \in Matching(d, c.appt) : TRUE
<1>2. b = c.appt
  BY DEF Half
<1>3. o = Ok([d EXCEPT !.status[b][c.appt.owner] = "accepted"])
  <2>1. Matching(d, c.appt) # {} /\ d.status[b][c.appt.owner] = "none"
    BY <1>2 DEF Half
  <2> QED
    BY <1>1, <2>1 DEF CreatePersonal
<1>4. o = Ok(e)
  BY <1>2, <1>3 DEF WithStatus
<1>5. o.d = e /\ o.err = "none"
  BY <1>4, OutcomeFields
<1>6. /\ e.appts = d.appts
      /\ \A x \in Appt, v \in User :
            e.status[x][v] = IF x = c.appt /\ v = c.appt.owner THEN "accepted" ELSE d.status[x][v]
  BY <1>1, WithStatusIs
<1> HIDE DEF e
<1>7. Attended(e)
  BY <1>1, <1>6, ApptFields DEF Attended, Half
<1> QED
  BY <1>5, <1>7

\* The commands that stop applyCommitted.
LEMMA FatalReasons ==
  ASSUME NEW d \in Tables, NEW c \in Command, NEW o, o = Apply(d, c), o.err = "fatal"
  PROVE  \/ /\ c.op = "create_group_appt"
            /\ c.appt.group \notin d.groups \/ <<c.appt.group, c.appt.owner>> \notin d.members
         \/ c.op = "update" /\ c.appt \notin Live(d)
         \/ c.op = "group_update" /\ c.group \notin d.groups
         \/ /\ c.op = "invitation" /\ d.status[c.appt][c.user] # c.status /\ c.appt \in Live(d)
            /\ Answer(d, c.appt, c.user, c.status) \in d.notes
<1>1. CASE c.op = "create_personal"
  BY <1>1, CommandFields, ApplyIs, CreatePersonalIs
<1>2. CASE c.op = "create_group_appt"
  <2>1. c.appt \in Appt /\ o = CreateGroupAppointment(d, c.appt) /\ c.appt.owner \in User
    BY <1>2, CommandFields, ApplyIs, ApptFields
  <2>2. c.appt.group \notin d.groups \/ c.appt.owner \notin Members(d, c.appt.group)
    BY <2>1, CreateGroupAppointmentIs
  <2> QED
    BY <1>2, <2>1, <2>2 DEF Members
<1>3. CASE c.op = "update"
  BY <1>3, ApplyIs, UpdateAppointmentIs
<1>4. CASE c.op = "delete"
  BY <1>4, ApplyIs, DeleteAppointmentIs
<1>5. CASE c.op = "group_create"
  BY <1>5, ApplyIs, CreateGroupIs
<1>6. CASE c.op = "group_update"
  BY <1>6, ApplyIs, UpdateGroupIs
<1>7. CASE c.op = "member_add"
  BY <1>7, ApplyIs, AddGroupMemberIs
<1>8. CASE c.op = "member_update"
  BY <1>8, ApplyIs, UpdateGroupMemberIs
<1>9. CASE c.op = "member_remove"
  <2>1. o = RemoveGroupMember(d, c.group, c.user)
    BY <1>9, ApplyIs
  <2>2. \E e : o = Ok(e)
    BY <2>1 DEF RemoveGroupMember
  <2> QED
    BY <2>2, OutcomeFields
<1>10. CASE c.op = "invitation"
  BY <1>10, ApplyIs, AnswerInvitationIs
<1> QED
  BY <1>1, <1>2, <1>3, <1>4, <1>5, <1>6, <1>7, <1>8, <1>9, <1>10, CommandFields

-----------------------------------------------------------------------------
(* Executing a command again.                                              *)

Repeats(d, c) == Apply(d, c).err # "fatal" /\ Apply(d, c).d = d

\* A second CreatePersonal finds the appointment and its owner.
LEMMA RepeatPersonal ==
  ASSUME NEW d, Consistent(d), NEW a \in Appt, NEW o, o = CreatePersonal(d, a),
         NEW p, p = CreatePersonal(o.d, a)
  PROVE  p.err # "fatal" /\ p.d = o.d
<1>1. d \in Tables /\ a.owner \in User /\ "accepted" \in Status /\ d.deleted \subseteq d.appts
  BY ApptFields DEF Consistent, Status
<1>2. p.err # "fatal"
  <2>1. o.d \in Tables
    <3>1. CASE o.d = d
      BY <1>1, <3>1
    <3>2. CASE \E b \in Matching(d, a) : o.d = WithStatus(d, b, a.owner, "accepted")
      BY <1>1, <3>2, MatchingFields, WithStatusIs
    <3>3. CASE o.d = WithStatus(InsertAppt(d, a), a, a.owner, "accepted")
      <4>1. InsertAppt(d, a) \in Tables
        BY <1>1, InsertApptIs
      <4> QED
        BY <1>1, <3>3, <4>1, WithStatusIs
    <3> QED
      BY <1>1, <3>1, <3>2, <3>3, CreatePersonalIs
  <2> QED
    BY <2>1, CreatePersonalIs
<1>3. CASE Matching(d, a) # {}
  <2> DEFINE b == CHOOSE b \in Matching(d, a) : TRUE
             e == WithStatus(d, b, a.owner, "accepted")
  <2>1. b \in Matching(d, a)
    BY <1>3
  <2>2. CASE d.status[b][a.owner] # "none"
    <3>1. o = Ok(d)
      BY <1>3, <2>2 DEF CreatePersonal
    <3>2. o.d = d
      BY <3>1, OutcomeFields
    <3>3. p = o
      BY <3>2
    <3> QED
      BY <1>2, <3>3
  <2>3. CASE d.status[b][a.owner] = "none"
    <3>1. o = Ok(e)
      BY <1>3, <2>3 DEF CreatePersonal, WithStatus
    <3>2. o.d = e
      BY <3>1, OutcomeFields
    <3>3. b \in Appt
      BY <1>1, <2>1, MatchingFields
    <3>4. /\ e.appts = d.appts /\ e.deleted = d.deleted /\ e.slot = d.slot
          /\ e.status[b][a.owner] = "accepted"
      BY <1>1, <3>3, WithStatusIs
    <3>5. Matching(e, a) = Matching(d, a)
      BY <3>4 DEF Matching, Live
    <3>6. p = Ok(e)
      <4> HIDE DEF e
      <4>1. b = CHOOSE x \in Matching(e, a) : TRUE
        BY <3>5
      <4> HIDE DEF b
      <4> QED
        BY <1>3, <3>2, <3>4, <3>5, <4>1, ZenonT(60) DEF CreatePersonal
    <3> QED
      BY <3>2, <3>6, OutcomeFields
  <2> QED
    BY <2>2, <2>3
<1>4. CASE Matching(d, a) = {} /\ a \in d.appts
  <2>1. o = Ignorable(d)
    BY <1>4 DEF CreatePersonal
  <2>2. o.d = d
    BY <2>1, OutcomeFields
  <2>3. p = o
    BY <2>2
  <2> QED
    BY <1>2, <2>3
<1>5. CASE Matching(d, a) = {} /\ a \notin d.appts
  <2> DEFINE f == InsertAppt(d, a)
             e == WithStatus(f, a, a.owner, "accepted")
  <2>1. o = Ok(e)
    BY <1>5 DEF CreatePersonal, WithStatus
  <2>2. o.d = e
    BY <2>1, OutcomeFields
  <2>3. /\ f \in Tables /\ f.appts = d.appts \cup {a} /\ f.deleted = d.deleted
        /\ \A b \in Appt : f.slot[b] = IF b = a THEN a.slot ELSE d.slot[b]
    BY <1>1, InsertApptIs
  <2> HIDE DEF f
  <2>4. /\ e.appts = f.appts /\ e.deleted = f.deleted /\ e.slot = f.slot
        /\ e.status[a][a.owner] = "accepted"
    BY <1>1, <2>3, WithStatusIs
  <2> HIDE DEF e
  <2>5. Matching(e, a) = {a}
    <3>1. \A b \in Live(e) : b = a \/ (b \in Live(d) /\ b \in Appt /\ e.slot[b] = d.slot[b])
      BY <1>1, <2>3, <2>4, TableFields DEF Live
    <3>2. a \in Live(e) /\ e.slot[a] = a.slot
      BY <1>1, <1>5, <2>3, <2>4 DEF Live
    <3> QED
      BY <1>5, <3>1, <3>2 DEF Matching
  <2>6. p = Ok(e)
    BY <2>2, <2>4, <2>5 DEF CreatePersonal
  <2> QED
    BY <2>2, <2>6, OutcomeFields
<1> QED
  BY <1>2, <1>3, <1>4, <1>5

\* A second CreateGroupAppointment finds the appointment.
LEMMA RepeatGroupAppointment ==
  ASSUME NEW d, Consistent(d), NEW a \in Appt, a.group \in Group,
         NEW o, o = CreateGroupAppointment(d, a), o.err # "fatal",
         NEW p, p = CreateGroupAppointment(o.d, a)
  PROVE  p.err # "fatal" /\ p.d = o.d
<1>1. d \in Tables /\ d.deleted \subseteq d.appts
  BY DEF Consistent
<1>2. CASE o.d = d
  BY <1>2
<1>3. CASE a \notin d.appts /\ o.d = WithInvitations(d, a)
  <2> DEFINE e == o.d
  <2>1. /\ e.appts = d.appts \cup {a} /\ e.deleted = d.deleted
        /\ \A b \in Appt : e.slot[b] = IF b = a THEN a.slot ELSE d.slot[b]
    BY <1>1, <1>3, WithInvitationsIs
  <2>2. a \in Matching(e, a)
    BY <1>1, <1>3, <2>1 DEF Matching, Live
  <2>3. p = Ok(e)
    BY <2>2 DEF CreateGroupAppointment
  <2> QED
    BY <2>3, OutcomeFields
<1> QED
  BY <1>2, <1>3, CreateGroupAppointmentIs

\* A second answer of a participant finds its status.
LEMMA RepeatAnswer ==
  ASSUME NEW d \in Tables, NEW a \in Appt, NEW u \in User, NEW st \in Answers,
         d.status[a][u] # "none",
         NEW o, o = AnswerInvitation(d, a, u, st), o.err # "fatal",
         NEW p, p = AnswerInvitation(o.d, a, u, st)
  PROVE  p.err # "fatal" /\ p.d = o.d
<1> DEFINE e == SetStatus(d, a, u, st)
           n == Answer(d, a, u, st)
<1>1. e \in Tables /\ e.status[a][u] = st
  BY SetStatusIs
<1>2. n \in Note
  BY AnswerIsNote
<1> HIDE DEF e, n
<1>3. o.d.status[a][u] = st
  <2>1. CASE d.status[a][u] = st /\ o.d = d
    BY <2>1
  <2>2. CASE o.d = e
    BY <1>1, <2>2
  <2>3. CASE o.d = WithNote(e, n)
    BY <1>1, <1>2, <2>3, WithNoteIs
  <2> QED
    BY <2>1, <2>2, <2>3, AnswerInvitationIs DEF e, n
<1>4. p = Ok(o.d)
  BY <1>3 DEF AnswerInvitation
<1> QED
  BY <1>4, OutcomeFields

\* The other commands write the same again, or nothing.
LEMMA RepeatQuiet ==
  ASSUME NEW d, Consistent(d), NEW c \in Command,
         c.op \in QuietOps \cup {"member_remove"}, Apply(d, c).err # "fatal"
  PROVE  Repeats(Apply(d, c).d, c)
<1>1. d \in Tables
  BY DEF Consistent
<1> SUFFICES ASSUME NEW o, o = Apply(d, c), NEW e, e = o.d, NEW p, p = Apply(e, c)
             PROVE  p.err # "fatal" /\ p.d = e
  BY DEF Repeats
<1>2. CASE e = d
  BY <1>2
<1>3. CASE c.op = "update"
  <2>1. /\ c.appt \in Appt /\ c.slot \in Slot /\ o = UpdateAppointment(d, c.appt, c.slot)
        /\ p = UpdateAppointment(e, c.appt, c.slot)
    BY <1>3, CommandFields, ApplyIs
  <2>2. c.appt \in Live(d) /\ e = WithSlot(d, c.appt, c.slot)
    BY <2>1, UpdateAppointmentIs
  <2>3. e \in Tables /\ e.appts = d.appts /\ e.deleted = d.deleted /\ e.slot[c.appt] = c.slot
    BY <1>1, <2>1, <2>2, WithSlotIs
  <2>4. c.appt \in Live(e)
    BY <2>2, <2>3 DEF Live
  <2>5. p.err = "none" /\ p.d = WithSlot(e, c.appt, c.slot)
    BY <2>1, <2>4, UpdateAppointmentIs
  <2>6. WithSlot(e, c.appt, c.slot) = e
    BY <2>1, <2>3 DEF WithSlot, Tables
  <2> QED
    BY <2>5, <2>6
<1>4. CASE c.op = "delete"
  <2>1. /\ c.appt \in Appt /\ o = DeleteAppointment(d, c.appt)
        /\ p = DeleteAppointment(e, c.appt)
    BY <1>4, CommandFields, ApplyIs
  <2>2. e = WithDeleted(d, c.appt) /\ p.d = WithDeleted(e, c.appt) /\ p.err = "none"
    BY <2>1, DeleteAppointmentIs
  <2>3. /\ e \in Tables /\ e.appts = d.appts
        /\ e.deleted = d.deleted \cup ({c.appt} \cap d.appts)
    BY <1>1, <2>1, <2>2, WithDeletedIs
  <2>4. WithDeleted(e, c.appt) = e
    <3>1. e.deleted \cup ({c.appt} \cap e.appts) = e.deleted
      BY <2>3
    <3> QED
      BY <2>3, <3>1 DEF WithDeleted, Tables
  <2> QED
    BY <2>2, <2>4
<1>5. CASE c.op = "group_create" /\ e # d
  <2>1. c.group \in Group /\ o = CreateGroup(d, c.group) /\ p = CreateGroup(e, c.group)
    BY <1>5, CommandFields, ApplyIs
  <2> DEFINE f == InsertGroup(d, c.group)
             r == GroupOwnerRank(c.group)
  <2>2. e = InsertMember(f, c.group, Creator[c.group], r)
    BY <1>5, <2>1, CreateGroupIs
  <2>3. f \in Tables /\ f.groups = d.groups \cup {c.group}
    BY <1>1, <2>1, InsertGroupIs
  <2>4. r \in Ranks /\ Creator[c.group] \in User
    BY <2>1, OwnerRankType
  <2> HIDE DEF f, r
  <2>5. e.groups = f.groups
    BY <2>1, <2>2, <2>3, <2>4, InsertMemberIs
  <2>6. c.group \in e.groups
    BY <2>3, <2>5
  <2> QED
    BY <2>1, <2>6, CreateGroupIs
<1>6. CASE c.op = "group_update"
  <2>1. c.group \in Group /\ o = UpdateGroup(d, c.group) /\ p = UpdateGroup(e, c.group)
    BY <1>6, CommandFields, ApplyIs
  <2>2. c.group \in d.groups /\ e = WithName(d, c.group)
    BY <2>1, UpdateGroupIs
  <2>3. e \in Tables /\ e.groups = d.groups /\ e.renamed = d.renamed \cup {c.group}
    BY <1>1, <2>1, <2>2, WithNameIs
  <2>4. p.err = "none" /\ p.d = WithName(e, c.group)
    BY <2>1, <2>2, <2>3, UpdateGroupIs
  <2>5. WithName(e, c.group) = e
    <3>1. e.renamed \cup {c.group} = e.renamed
      BY <2>3
    <3> QED
      BY <2>3, <3>1 DEF WithName, Tables
  <2> QED
    BY <2>4, <2>5
<1>7. CASE c.op = "member_add"
  <2>1. /\ c.group \in Group /\ c.user \in User /\ c.rank \in Ranks
        /\ o = AddGroupMember(d, c.group, c.user, c.rank)
        /\ p = AddGroupMember(e, c.group, c.user, c.rank)
    BY <1>7, CommandFields, ApplyIs
  <2>2. /\ e = InsertMember(d, c.group, c.user, c.rank)
        /\ p.err = "none" /\ p.d = InsertMember(e, c.group, c.user, c.rank)
    BY <2>1, AddGroupMemberIs
  <2>3. /\ e \in Tables /\ e.members = d.members \cup {<<c.group, c.user>>}
        /\ e.rank[c.group][c.user] = c.rank
    BY <1>1, <2>1, <2>2, InsertMemberIs
  <2>4. InsertMember(e, c.group, c.user, c.rank) = e
    <3>1. e.members \cup {<<c.group, c.user>>} = e.members
      BY <2>3
    <3>2. [e.rank EXCEPT ![c.group][c.user] = c.rank] = e.rank
      BY <2>1, <2>3, TableFields
    <3> QED
      BY <2>3, <3>1, <3>2, ZenonT(60) DEF InsertMember, Tables
  <2> QED
    BY <2>2, <2>4
<1>8. CASE c.op = "member_update" /\ e # d
  <2>1. /\ c.group \in Group /\ c.user \in User /\ c.rank \in Ranks
        /\ o = UpdateGroupMember(d, c.group, c.user, c.rank)
        /\ p = UpdateGroupMember(e, c.group, c.user, c.rank)
    BY <1>8, CommandFields, ApplyIs
  <2>2. /\ e = WithRank(d, c.group, c.user, c.rank)
        /\ p.err = "none" /\ p.d \in {e, WithRank(e, c.group, c.user, c.rank)}
    BY <1>8, <2>1, UpdateGroupMemberIs
  <2>3. e \in Tables /\ e.rank[c.group][c.user] = c.rank
    BY <1>1, <2>1, <2>2, WithRankIs
  <2>4. WithRank(e, c.group, c.user, c.rank) = e
    <3>1. [e.rank EXCEPT ![c.group][c.user] = c.rank] = e.rank
      BY <2>1, <2>3, TableFields, ZenonT(60)
    <3> QED
      BY <2>3, <3>1 DEF WithRank, Tables
  <2> QED
    BY <2>2, <2>4
<1>9. CASE c.op = "member_remove" /\ e # d
  <2>1. /\ c.group \in Group /\ c.user \in User
        /\ o = RemoveGroupMember(d, c.group, c.user) /\ p = RemoveGroupMember(e, c.group, c.user)
    BY <1>9, CommandFields, ApplyIs
  <2>2. o \in {Ok(d), Ok(WithoutMember(d, c.group, c.user))}
    BY <2>1 DEF RemoveGroupMember, WithoutMember
  <2>3. e = WithoutMember(d, c.group, c.user)
    BY <1>9, <2>2, OutcomeFields
  <2>4. e.members = d.members \ {<<c.group, c.user>>}
    BY <1>1, <2>1, <2>3, WithoutMemberIs
  <2>5. <<c.group, c.user>> \notin e.members
    BY <2>4
  <2>6. p = Ok(e)
    BY <2>1, <2>5 DEF RemoveGroupMember
  <2> QED
    BY <2>6, OutcomeFields
<1> QED
  BY <1>2, <1>3, <1>4, <1>5, <1>6, <1>7, <1>8, <1>9 DEF QuietOps

\* Executing a command again changes nothing, except for the answer of somebody
\* who is no participant.
LEMMA RepeatLemma ==
  ASSUME NEW d, Consistent(d), NEW c, Sound(c), NEW o, o = Apply(d, c), o.err # "fatal",
         ~(c.op = "invitation" /\ d.status[c.appt][c.user] = "none")
  PROVE  Repeats(o.d, c)
<1>1. c \in Command /\ d \in Tables
  BY DEF Sound, Consistent
<1>2. CASE c.op \in QuietOps \cup {"member_remove"}
  BY <1>1, <1>2, RepeatQuiet
<1>3. CASE c.op = "create_personal"
  <2>1. c.appt \in Appt /\ o = CreatePersonal(d, c.appt)
        /\ Apply(o.d, c) = CreatePersonal(o.d, c.appt)
    BY <1>1, <1>3, CommandFields, ApplyIs
  <2> QED
    BY <2>1, RepeatPersonal DEF Repeats
<1>4. CASE c.op = "create_group_appt"
  <2>1. c.appt \in Appt /\ c.appt.group \in Group /\ o = CreateGroupAppointment(d, c.appt)
        /\ Apply(o.d, c) = CreateGroupAppointment(o.d, c.appt)
    BY <1>1, <1>4, CommandFields, ApplyIs DEF Sound
  <2> QED
    BY <2>1, RepeatGroupAppointment DEF Repeats
<1>5. CASE c.op = "invitation"
  <2>1. /\ c.appt \in Appt /\ c.user \in User /\ c.status \in Answers
        /\ o = AnswerInvitation(d, c.appt, c.user, c.status)
        /\ Apply(o.d, c) = AnswerInvitation(o.d, c.appt, c.user, c.status)
    BY <1>1, <1>5, CommandFields, ApplyIs
  <2> QED
    BY <1>1, <1>5, <2>1, RepeatAnswer DEF Repeats
<1> QED
  BY <1>1, <1>2, <1>3, <1>4, <1>5, CommandFields DEF QuietOps

-----------------------------------------------------------------------------
(* The invariant of the tables and queues.                                 *)

\* The tables d of a replica with queue q and apply error f.
ReplicaInv(d, q, f) ==
    /\ Consistent(d)
    /\ q \in Seq(Command) /\ \A i \in 1..Len(q) : Sound(q[i])
    /\ Attended(d) \/ (f /\ q # <<>> /\ Half(d, Head(q)))

\* The part of the invariant that does not depend on races.
BaseInv ==
    /\ TypeOK
    /\ \A r \in Replica : ReplicaInv(db[r], queue[r], failed[r])
    /\ \A h \in Handler : op[h].pc \in {"propose", "wait"} => Sound(op[h].cmd)
    /\ errors = 0 => \A r \in Replica : Reported(db[r])

\* What a handler has checked when it goes on to propose c.
Checked(d, c) ==
    /\ Sound(c)
    /\ c.op = "create_personal" => Conflicts(d, c.appt.owner, c.appt.slot) = {}
    /\ c.op = "update" => c.appt \in Live(d) /\ Conflicts(d, c.appt.owner, c.slot) \subseteq {c.appt}
    /\ c.op = "invitation" => d.status[c.appt][c.user] \in Open

\* The next command is one that a handler proposed.
LEMMA HeadSound ==
  ASSUME NEW d, NEW q, NEW f, ReplicaInv(d, q, f), q # <<>>
  PROVE  Sound(Head(q))
<1>1. q \in Seq(Command) /\ 1 \in 1..Len(q) /\ Head(q) = q[1]
  BY DEF ReplicaInv
<1> QED
  BY <1>1 DEF ReplicaInv

\* The tables of a cluster that has just been set up.
LEMMA NoTablesIs ==
  /\ NoTables \in Tables
  /\ NoTables.appts = {} /\ NoTables.deleted = {} /\ NoTables.notes = {}
  /\ \A a \in Appt, u \in User : NoTables.status[a][u] = "none"
  BY ApptFields DEF NoTables, Tables, Ranks

\* The invariant holds at first.
LEMMA InitBase == Init => BaseInv
<1> SUFFICES ASSUME Init PROVE BaseInv
  OBVIOUS
<1>1. Consistent(NoTables) /\ Attended(NoTables) /\ Reported(NoTables)
  BY NoTablesIs DEF Consistent, Attended, Reported, Live
<1>2. TypeOK
  <2>1. op \in [Handler -> Op]
    BY DEF Init, Op, Idle
  <2>2. /\ queue \in [Replica -> Seq(Command)] /\ failed \in [Replica -> BOOLEAN]
        /\ db \in [Replica -> Tables]
    BY NoTablesIs DEF Init
  <2>3. committed \in 0..MaxCommands /\ errors \in 0..MaxFaults /\ timeouts \in 0..MaxFaults
    BY AgendaAssumption DEF Init
  <2>4. \A r \in Replica : Len(queue[r]) <= committed /\ ~failed[r]
    BY DEF Init
  <2>5. raced \in BOOLEAN
    BY DEF Init
  <2> QED
    BY <2>1, <2>2, <2>3, <2>4, <2>5 DEF TypeOK
<1>3. \A r \in Replica : ReplicaInv(db[r], queue[r], failed[r])
  BY <1>1 DEF Init, ReplicaInv
<1>4. \A h \in Handler : op[h].pc = "idle"
  BY DEF Init, Idle
<1> QED
  BY <1>1, <1>2, <1>3, <1>4 DEF Init, BaseInv

\* Every request that passes proposes a sound command that was checked against
\* the tables of the leader; the deletion of a group proposes nothing.
LEMMA RequestIs ==
  ASSUME BaseInv, NEW h \in Handler, Request(h)
  PROVE  \/ \E c : Checked(db[Leader], c) /\ Accepted(h, c)
         \/ \E u \in User, g \in Group : HandleDeleteGroup(h, u, g)
<1> DEFINE d == db[Leader]
           Goal == \E c : Checked(d, c) /\ Accepted(h, c)
<1>1. Consistent(d) /\ d \in Tables
  BY AgendaAssumption DEF BaseInv, ReplicaInv, Consistent
<1>2. ASSUME NEW u \in User, NEW s \in Slot, HandleCreatePersonal(h, u, s)
      PROVE  Goal
  <2> DEFINE a == [owner |-> u, group |-> NoGroup, slot |-> s]
             c == [op |-> "create_personal", appt |-> a]
  <2>1. a \in Appt /\ a.owner = u /\ a.slot = s /\ a.group = NoGroup
    BY DEF Appt
  <2> HIDE DEF a
  <2>2. c \in Command /\ c.op = "create_personal" /\ c.appt = a
    BY <2>1 DEF Command, ApptCommand
  <2>3. Accepted(h, c) /\ Conflicts(d, u, s) = {}
    BY <1>2 DEF HandleCreatePersonal, a
  <2> HIDE DEF c
  <2> QED
    BY <2>1, <2>2, <2>3 DEF Checked, Sound
<1>3. ASSUME NEW u \in User, NEW s \in Slot, NEW g \in Group,
             HandleCreateGroupAppointment(h, u, g, s)
      PROVE  Goal
  <2> DEFINE a == [owner |-> u, group |-> g, slot |-> s]
             c == [op |-> "create_group_appt", appt |-> a]
  <2>1. a \in Appt /\ a.group = g
    BY DEF Appt
  <2> HIDE DEF a
  <2>2. c \in Command /\ c.op = "create_group_appt" /\ c.appt = a
    BY <2>1 DEF Command, ApptCommand
  <2>3. Accepted(h, c)
    BY <1>3 DEF HandleCreateGroupAppointment, a
  <2> HIDE DEF c
  <2> QED
    BY <2>1, <2>2, <2>3 DEF Checked, Sound
<1>4. ASSUME NEW u \in User, NEW s \in Slot, NEW a \in Appt, HandleUpdateAppointment(h, u, a, s)
      PROVE  Goal
  <2> DEFINE c == [op |-> "update", appt |-> a, slot |-> s]
  <2>1. c \in Command /\ c.op = "update" /\ c.appt = a /\ c.slot = s
    BY DEF Command, ApptCommand
  <2>2. Accepted(h, c) /\ a \in Live(d) /\ a.owner = u /\ Conflicts(d, u, s) \subseteq {a}
    BY <1>4 DEF HandleUpdateAppointment
  <2> HIDE DEF c
  <2> QED
    BY <2>1, <2>2 DEF Checked, Sound
<1>5. ASSUME NEW u \in User, NEW a \in Appt, HandleDeleteAppointment(h, u, a)
      PROVE  Goal
  <2> DEFINE c == [op |-> "delete", appt |-> a]
  <2>1. c \in Command /\ c.op = "delete"
    BY DEF Command, ApptCommand
  <2>2. Accepted(h, c)
    BY <1>5 DEF HandleDeleteAppointment
  <2> HIDE DEF c
  <2> QED
    BY <2>1, <2>2 DEF Checked, Sound
<1>6. ASSUME NEW u \in User, NEW a \in Appt, NEW st \in {"accepted", "declined"},
             HandleInvitation(h, u, a, st)
      PROVE  Goal
  <2> DEFINE c == [op |-> "invitation", appt |-> a, user |-> u, status |-> st]
  <2>1. c \in Command /\ c.op = "invitation" /\ c.appt = a /\ c.user = u
    BY DEF Command, InvitationCommand
  <2>2. Accepted(h, c) /\ d.status[a][u] \in Open
    BY <1>6 DEF HandleInvitation, Open
  <2>3. a.group \in Group
    BY <1>1, <2>2, ApptFields DEF Consistent, Involved, Open
  <2> HIDE DEF c
  <2> QED
    BY <2>1, <2>2, <2>3 DEF Checked, Sound
<1>7. ASSUME NEW g \in Group, HandleCreateGroup(h, g)
      PROVE  Goal
  <2> DEFINE c == [op |-> "group_create", group |-> g]
  <2>1. c \in Command /\ c.op = "group_create"
    BY DEF Command, GroupCommand
  <2>2. Accepted(h, c)
    BY <1>7 DEF HandleCreateGroup
  <2> HIDE DEF c
  <2> QED
    BY <2>1, <2>2 DEF Checked, Sound
<1>8. ASSUME NEW u \in User, NEW g \in Group, HandleUpdateGroup(h, u, g)
      PROVE  Goal
  <2> DEFINE c == [op |-> "group_update", group |-> g]
  <2>1. c \in Command /\ c.op = "group_update"
    BY DEF Command, GroupCommand
  <2>2. Accepted(h, c)
    BY <1>8 DEF HandleUpdateGroup
  <2> HIDE DEF c
  <2> QED
    BY <2>1, <2>2 DEF Checked, Sound
<1>9. ASSUME NEW actor \in User, NEW u \in User, NEW g \in Group, NEW r \in Rank,
             HandleAddMember(h, actor, g, u, r)
      PROVE  Goal
  <2> DEFINE q == IF g \in Flat THEN 0 ELSE r
             c == [op |-> "member_add", group |-> g, user |-> u, rank |-> q]
  <2>1. q \in Ranks
    BY DEF Ranks
  <2>2. Accepted(h, c)
    BY <1>9 DEF HandleAddMember
  <2> HIDE DEF q
  <2>3. c \in Command /\ c.op = "member_add"
    BY <2>1 DEF Command, GroupCommand
  <2> HIDE DEF c
  <2> QED
    BY <2>2, <2>3 DEF Checked, Sound
<1>10. ASSUME NEW actor \in User, NEW u \in User, NEW g \in Group, NEW r \in Rank,
              HandleUpdateMember(h, actor, g, u, r)
       PROVE  Goal
  <2> DEFINE c == [op |-> "member_update", group |-> g, user |-> u, rank |-> r]
  <2>1. r \in Ranks
    BY DEF Ranks
  <2>2. Accepted(h, c)
    BY <1>10 DEF HandleUpdateMember
  <2>3. c \in Command /\ c.op = "member_update"
    BY <2>1 DEF Command, GroupCommand
  <2> HIDE DEF c
  <2> QED
    BY <2>2, <2>3 DEF Checked, Sound
<1>11. ASSUME NEW actor \in User, NEW u \in User, NEW g \in Group,
              HandleRemoveMember(h, actor, g, u)
       PROVE  Goal
  <2> DEFINE c == [op |-> "member_remove", group |-> g, user |-> u]
  <2>1. c \in Command /\ c.op = "member_remove"
    BY DEF Command, GroupCommand
  <2>2. Accepted(h, c)
    BY <1>11 DEF HandleRemoveMember
  <2> HIDE DEF c
  <2> QED
    BY <2>1, <2>2 DEF Checked, Sound
<1> HIDE DEF Goal
<1>12. Goal \/ \E u \in User, g \in Group : HandleDeleteGroup(h, u, g)
  BY <1>2, <1>3, <1>4, <1>5, <1>6, <1>7, <1>8, <1>9, <1>10, <1>11 DEF Request
<1> QED
  BY <1>12 DEF Goal

\* Writes to the leader's own tables: the deletion of a group, and the
\* notification of a new appointment.
LEMMA WithoutGroupInv ==
  ASSUME NEW d, NEW q, NEW f, ReplicaInv(d, q, f), NEW g \in Group,
         NEW e, e = WithoutGroup(d, g)
  PROVE  ReplicaInv(e, q, f) /\ (Reported(d) => Reported(e))
<1>1. d \in Tables /\ d.appts \subseteq Appt /\ d.deleted \subseteq d.appts /\ Consistent(d)
  BY TableFields DEF ReplicaInv, Consistent
<1>2. /\ e \in Tables
      /\ e.members = {m \in d.members : m[1] # g}
      /\ \A b \in Appt : b \in e.appts <=> b \in d.appts /\ b.group # g
      /\ \A b \in Appt : b \in e.deleted <=> b \in d.deleted /\ ~(b \in d.appts /\ b.group = g)
      /\ e.notes = d.notes
      /\ \A b \in Appt : b.group # g => e.slot[b] = d.slot[b]
      /\ \A b \in Appt, v \in User :
           e.status[b][v] = IF b \in d.appts /\ b.group = g THEN "none" ELSE d.status[b][v]
  BY <1>1, WithoutGroupIs
<1>3. e.appts \subseteq Appt /\ e.deleted \subseteq Appt
  BY <1>2, TableFields
<1>4. g # NoGroup
  BY AgendaAssumption
<1>5. \A b \in Appt, u \in User : <<b.group, u>> \in d.members /\ b.group # g
                                    => <<b.group, u>> \in e.members
  BY <1>2
<1>6. Consistent(e)
  <2>1. e.deleted \subseteq e.appts
    BY <1>1, <1>2, <1>3
  <2>2. ASSUME NEW b \in Appt, NEW u \in User, e.status[b][u] # "none"
        PROVE  Involved(e, b, u)
    <3>1. ~(b \in d.appts /\ b.group = g) /\ e.status[b][u] = d.status[b][u]
      BY <1>2, <2>2
    <3>2. Involved(d, b, u)
      BY <1>1, <2>2, <3>1 DEF Consistent
    <3> QED
      BY <1>2, <1>5, <3>1, <3>2 DEF Involved
  <2> QED
    BY <1>2, <2>1, <2>2 DEF Consistent
<1>7. Reported(d) => Reported(e)
  BY <1>2, <1>3 DEF Reported, Live, Answers
<1>8. Attended(d) => Attended(e)
  BY <1>2, <1>3, <1>4, ApptFields DEF Attended
<1>9. ASSUME NEW c, Sound(c), Half(d, c)
      PROVE  Half(e, c)
  <2>1. c.appt \in Appt /\ c.appt.group = NoGroup /\ c.appt.owner \in User
    BY <1>9, CommandFields, ApptFields DEF Half, Sound
  <2>2. Matching(e, c.appt) = Matching(d, c.appt)
    <3>1. \A b \in Live(e) : b \in Appt /\ b \in Live(d)
      BY <1>2, <1>3 DEF Live
    <3>2. \A b \in Live(d) : b.group = NoGroup => b \in Appt /\ b \in Live(e) /\ e.slot[b] = d.slot[b]
      BY <1>1, <1>2, <1>4 DEF Live
    <3> QED
      BY <1>2, <1>4, <2>1, <3>1, <3>2 DEF Matching
  <2>3. e.status[c.appt][c.appt.owner] = "none"
    BY <1>2, <1>4, <1>9, <2>1 DEF Half
  <2>4. \A b \in e.appts \ {c.appt} : b.group = NoGroup => e.status[b][b.owner] = "accepted"
    BY <1>2, <1>3, <1>4, <1>9, ApptFields DEF Half
  <2> QED
    BY <1>9, <2>2, <2>3, <2>4 DEF Half
<1>10. q # <<>> /\ Half(d, Head(q)) => Half(e, Head(q))
  BY <1>9, HeadSound
<1> QED
  BY <1>6, <1>7, <1>8, <1>10 DEF ReplicaInv

\* Likewise for the notification.
LEMMA WithNoteInv ==
  ASSUME NEW d, NEW q, NEW f, ReplicaInv(d, q, f), NEW n \in Note, n.type = "created",
         NEW e, e = WithNote(d, n)
  PROVE  ReplicaInv(e, q, f) /\ (Reported(d) => Reported(e))
<1>1. d \in Tables
  BY DEF ReplicaInv, Consistent
<1>2. /\ e \in Tables /\ e.members = d.members
      /\ e.appts = d.appts /\ e.deleted = d.deleted /\ e.slot = d.slot
      /\ e.status = d.status /\ e.notes = d.notes \cup {n}
  BY <1>1, WithNoteIs
<1>3. Consistent(e)
  BY <1>2 DEF ReplicaInv, Consistent, Involved
<1>4. Reported(d) => Reported(e)
  BY <1>2 DEF Reported, Live
<1>5. Attended(d) => Attended(e)
  BY <1>2 DEF Attended
<1>6. \A c : Matching(e, c) = Matching(d, c)
  BY <1>2 DEF Matching, Live
<1>7. q # <<>> /\ Half(d, Head(q)) => Half(e, Head(q))
  BY <1>2, <1>6 DEF Half
<1> QED
  BY <1>3, <1>4, <1>5, <1>7 DEF ReplicaInv

\* Executing the first command of the queue, as a whole or in part.
LEMMA ExecuteInv ==
  ASSUME NEW d, NEW q, NEW f, ReplicaInv(d, q, f), q # <<>>, NEW o, o = Apply(d, Head(q))
  PROVE  /\ ReplicaInv(o.d, q, f)
         /\ o.err = "fatal" => ReplicaInv(o.d, q, TRUE)
         /\ o.err # "fatal" => ReplicaInv(o.d, Tail(q), FALSE)
         /\ ReplicaInv(d, q, TRUE) /\ ReplicaInv(Interrupted(d, Head(q)), q, TRUE)
         /\ Reported(d) => Reported(o.d)
<1> DEFINE c == Head(q)
<1>1. Consistent(d) /\ Sound(c) /\ q \in Seq(Command)
  BY HeadSound DEF ReplicaInv
<1>2. Effect(d, c, o.d) /\ (Reported(d) => Reported(o.d)) /\ (Attended(d) => Attended(o.d))
  BY <1>1, ApplyEffect
<1>3. Attended(o.d)
  BY <1>1, <1>2, HalfCompleted DEF ReplicaInv
<1>4. Consistent(o.d)
  BY <1>2 DEF Effect
<1>5. ReplicaInv(o.d, q, f) /\ ReplicaInv(o.d, q, TRUE)
  BY <1>3, <1>4 DEF ReplicaInv
<1>6. ReplicaInv(o.d, Tail(q), FALSE)
  <2>1. Tail(q) \in Seq(Command) /\ Len(Tail(q)) = Len(q) - 1 /\ Len(q) \in Nat
    BY <1>1
  <2>2. \A i \in 1..Len(Tail(q)) : Tail(q)[i] = q[i + 1] /\ i + 1 \in 1..Len(q)
    BY <1>1, <2>1
  <2>3. \A i \in 1..Len(Tail(q)) : Sound(Tail(q)[i])
    BY <2>2 DEF ReplicaInv
  <2> QED
    BY <1>3, <1>4, <2>1, <2>3 DEF ReplicaInv
<1>7. ReplicaInv(d, q, TRUE)
  BY DEF ReplicaInv
<1>8. ReplicaInv(Interrupted(d, c), q, TRUE)
  <2> DEFINE e == Interrupted(d, c)
  <2>1. Effect(d, c, e) /\ (Attended(d) => Attended(e) \/ Half(e, c)) /\ (Half(d, c) => Half(e, c))
    BY <1>1, InterruptedEffect
  <2> HIDE DEF e
  <2>2. ReplicaInv(e, q, TRUE)
    BY <2>1 DEF Effect, ReplicaInv
  <2> QED
    BY <2>2 DEF e
<1> QED
  BY <1>2, <1>5, <1>6, <1>7, <1>8

\* The steps of applyCommitted.
Executes(r) == ApplyNext(r) \/ ApplyFails(r) \/ StorageFails(r) \/ RecordFails(r)

\* They keep the invariant.
LEMMA ExecuteBase ==
  ASSUME BaseInv, NEW r \in Replica, Executes(r)
  PROVE  BaseInv'
<1> DEFINE d == db[r]
           q == queue[r]
           c == Head(queue[r])
           o == Outcome(r)
<1>1. TypeOK /\ ReplicaInv(d, q, failed[r]) /\ q # <<>>
  BY DEF BaseInv, Executes, ApplyNext, ApplyFails, StorageFails, RecordFails
<1>2. o = Apply(d, c)
  BY DEF Outcome
<1>3. /\ ReplicaInv(o.d, q, failed[r])
      /\ o.err = "fatal" => ReplicaInv(o.d, q, TRUE)
      /\ o.err # "fatal" => ReplicaInv(o.d, Tail(q), FALSE)
      /\ ReplicaInv(d, q, TRUE) /\ ReplicaInv(Interrupted(d, c), q, TRUE)
      /\ Reported(d) => Reported(o.d)
  BY <1>1, <1>2, ExecuteInv
<1>4. UNCHANGED <<committed, op, raced, timeouts>>
  BY DEF Executes, ApplyNext, ApplyFails, StorageFails, RecordFails
<1>5. /\ db' = [db EXCEPT ![r] = db'[r]] /\ queue' = [queue EXCEPT ![r] = queue'[r]]
      /\ failed' = [failed EXCEPT ![r] = failed'[r]]
  BY <1>1 DEF TypeOK, Executes, ApplyNext, ApplyFails, StorageFails, RecordFails
<1>6. ReplicaInv(db'[r], queue'[r], failed'[r])
  <2>1. CASE ApplyNext(r)
    BY <1>1, <1>3, <2>1 DEF TypeOK, ApplyNext
  <2>2. CASE ApplyFails(r)
    BY <1>1, <1>3, <2>2 DEF TypeOK, ApplyFails
  <2>3. CASE StorageFails(r)
    BY <1>1, <1>3, <2>3 DEF TypeOK, StorageFails
  <2>4. CASE RecordFails(r)
    BY <1>1, <1>3, <2>4 DEF TypeOK, RecordFails
  <2> QED
    BY <2>1, <2>2, <2>3, <2>4 DEF Executes
<1>7. /\ errors' \in 0..MaxFaults
      /\ errors' = 0 => errors = 0 /\ db'[r] = o.d
  <2>1. CASE ApplyNext(r)
    BY <1>1, <2>1 DEF TypeOK, ApplyNext
  <2>2. CASE ApplyFails(r)
    BY <1>1, <2>2 DEF TypeOK, ApplyFails
  <2>3. CASE StorageFails(r) \/ RecordFails(r)
    <3>1. errors' = errors + 1 /\ errors + timeouts < MaxFaults
      BY <2>3 DEF StorageFails, RecordFails
    <3> QED
      BY <1>1, <3>1, AgendaAssumption DEF TypeOK
  <2> QED
    BY <2>1, <2>2, <2>3 DEF Executes
<1>8. Len(queue'[r]) <= committed /\ (failed'[r] => queue'[r] # <<>>) /\ failed'[r] \in BOOLEAN
  <2>1. CASE ApplyNext(r)
    <3>1. queue'[r] = Tail(q) /\ failed'[r] = FALSE
      BY <1>1, <2>1 DEF TypeOK, ApplyNext
    <3>2. q \in Seq(Command) /\ Len(q) <= committed /\ committed \in Nat
      BY <1>1 DEF TypeOK
    <3>3. Len(Tail(q)) = Len(q) - 1 /\ Len(q) \in Nat
      BY <1>1, <3>2
    <3>4. Len(Tail(q)) <= committed
      <4> HIDE DEF q
      <4> QED
        BY <3>2, <3>3
    <3> QED
      BY <3>1, <3>4
  <2>2. CASE ~ApplyNext(r)
    <3>1. queue' = queue /\ failed'[r] \in BOOLEAN
      BY <1>1, <2>2 DEF TypeOK, Executes, ApplyFails, StorageFails, RecordFails
    <3> QED
      BY <1>1, <3>1 DEF TypeOK
  <2> QED
    BY <2>1, <2>2
<1> HIDE DEF o, d, q, c
<1>9. db'[r] \in Tables /\ queue'[r] \in Seq(Command)
  BY <1>6 DEF ReplicaInv, Consistent
<1>10. TypeOK'
  BY <1>1, <1>4, <1>5, <1>7, <1>8, <1>9 DEF TypeOK
<1>11. \A x \in Replica : ReplicaInv(db'[x], queue'[x], failed'[x])
  BY <1>1, <1>5, <1>6 DEF TypeOK, BaseInv
<1>12. errors' = 0 => \A x \in Replica : Reported(db'[x])
  BY <1>1, <1>3, <1>5, <1>7 DEF TypeOK, BaseInv, d
<1> QED
  BY <1>4, <1>10, <1>11, <1>12 DEF BaseInv

\* Steps of a handler that leave the tables and the queues alone.
LEMMA HandlerBase ==
  ASSUME BaseInv, NEW h \in Handler, NEW o \in Op,
         o.pc \in {"propose", "wait"} => Sound(o.cmd),
         op' = [op EXCEPT ![h] = o],
         UNCHANGED <<committed, queue, db, failed, errors>>,
         raced' \in BOOLEAN, timeouts' \in 0..MaxFaults
  PROVE  BaseInv'
<1>1. TypeOK
  BY DEF BaseInv
<1>2. op' \in [Handler -> Op]
  BY <1>1 DEF TypeOK
<1>3. TypeOK'
  BY <1>1, <1>2 DEF TypeOK
<1>4. \A i \in Handler : op'[i].pc \in {"propose", "wait"} => Sound(op'[i].cmd)
  BY <1>1 DEF BaseInv, TypeOK
<1> QED
  BY <1>3, <1>4 DEF BaseInv

\* Steps that write to the leader's own tables.
LEMMA LeaderBase ==
  ASSUME BaseInv, NEW e, db' = [db EXCEPT ![Leader] = e],
         ReplicaInv(e, queue[Leader], failed[Leader]),
         Reported(db[Leader]) => Reported(e),
         op' \in [Handler -> Op],
         \A h \in Handler : op'[h].pc \in {"propose", "wait"} => Sound(op'[h].cmd),
         UNCHANGED <<committed, queue, failed, raced, errors, timeouts>>
  PROVE  BaseInv'
<1>1. TypeOK /\ Leader \in Replica
  BY AgendaAssumption DEF BaseInv
<1>2. e \in Tables
  BY DEF ReplicaInv, Consistent
<1>3. db' \in [Replica -> Tables]
  BY <1>1, <1>2 DEF TypeOK
<1>4. TypeOK'
  BY <1>1, <1>3 DEF TypeOK
<1>5. \A r \in Replica : ReplicaInv(db'[r], queue'[r], failed'[r])
  BY <1>1 DEF BaseInv, TypeOK
<1>6. errors' = 0 => \A r \in Replica : Reported(db'[r])
  BY <1>1 DEF BaseInv, TypeOK
<1> QED
  BY <1>4, <1>5, <1>6 DEF BaseInv

\* What the record of a handler at the proposal or in the wait looks like.
LEMMA OpFields ==
  ASSUME NEW o \in Op
  PROVE  /\ o.pc \in {"idle", "propose", "wait"}
         /\ o.pc \in {"propose", "wait"} => o.cmd \in Command
         /\ o.pc = "wait" => o.idx \in 1..MaxCommands
  BY DEF Op

\* A handler without a request.
LEMMA IdleIsOp == Idle \in Op /\ Idle.pc = "idle"
  BY DEF Idle, Op

\* A queue with one more command.
LEMMA AppendIs ==
  ASSUME NEW S, NEW q \in Seq(S), NEW c \in S, NEW p, p = Append(q, c)
  PROVE  /\ p \in Seq(S) /\ Len(p) = Len(q) + 1 /\ Len(q) \in Nat /\ p # <<>>
         /\ \A i \in 1..Len(q) : p[i] = q[i]
         /\ p[Len(q) + 1] = c
         /\ q # <<>> => Head(p) = Head(q)
<1>1. p \in Seq(S) /\ Len(p) = Len(q) + 1 /\ Len(q) \in Nat
  OBVIOUS
<1>2. \A i \in 1..Len(q) : p[i] = q[i]
  OBVIOUS
<1>3. p[Len(q) + 1] = c
  OBVIOUS
<1>4. p # <<>>
  BY <1>1
<1>5. ASSUME q # <<>> PROVE Head(p) = Head(q)
  <2>1. 1 \in 1..Len(q) /\ Head(q) = q[1]
    BY <1>5
  <2>2. Head(p) = p[1]
    BY <1>1, <1>4
  <2> QED
    BY <1>2, <2>1, <2>2
<1> QED
  BY <1>1, <1>2, <1>3, <1>4, <1>5

\* A committed command joins every queue.
LEMMA ProposeBase ==
  ASSUME BaseInv, NEW h \in Handler, Propose(h)
  PROVE  BaseInv'
<1> DEFINE c == op[h].cmd
           o == [pc |-> "wait", cmd |-> c, idx |-> committed + 1]
<1>1. TypeOK /\ op[h].pc = "propose" /\ op[h] \in Op
  BY DEF BaseInv, TypeOK, Propose
<1>2. c \in Command /\ Sound(c)
  BY <1>1, OpFields DEF BaseInv
<1>3. committed \in Nat /\ committed + 1 \in 1..MaxCommands /\ committed' = committed + 1
  BY <1>1, AgendaAssumption DEF TypeOK, Propose
<1>4. /\ queue' = [r \in Replica |-> Append(queue[r], c)] /\ op' = [op EXCEPT ![h] = o]
      /\ UNCHANGED <<db, failed, raced, errors, timeouts>>
  BY DEF Propose
<1> HIDE DEF c
<1>5. o \in Op /\ o.pc = "wait" /\ o.cmd = c
  BY <1>2, <1>3 DEF Op
<1> HIDE DEF o
<1>6. ASSUME NEW r \in Replica
      PROVE  /\ queue'[r] \in Seq(Command) /\ Len(queue'[r]) <= committed'
             /\ queue'[r] # <<>> /\ ReplicaInv(db'[r], queue'[r], failed'[r])
  <2> DEFINE q == queue[r]
             p == Append(q, c)
  <2>1. q \in Seq(Command) /\ Len(q) <= committed /\ queue'[r] = p
    BY <1>1, <1>4 DEF TypeOK
  <2>2. /\ p \in Seq(Command) /\ Len(p) = Len(q) + 1 /\ Len(q) \in Nat /\ p # <<>>
        /\ \A i \in 1..Len(q) : p[i] = q[i]
        /\ p[Len(q) + 1] = c /\ (q # <<>> => Head(p) = Head(q))
    <3>1. q \in Seq(Command)
      BY <2>1
    <3> HIDE DEF q
    <3> QED
      BY <1>2, <3>1, AppendIs
  <2>3. ReplicaInv(db[r], q, failed[r])
    BY DEF BaseInv
  <2> HIDE DEF p, q
  <2>4. Len(p) <= committed + 1
    BY <1>3, <2>1, <2>2
  <2>5. \A i \in 1..Len(p) : Sound(p[i])
    <3>1. \A i \in 1..Len(p) : i \in 1..Len(q) \/ i = Len(q) + 1
      BY <2>2
    <3> QED
      BY <1>2, <2>2, <2>3, <3>1 DEF ReplicaInv
  <2>6. ReplicaInv(db[r], p, failed[r])
    BY <2>2, <2>3, <2>5 DEF ReplicaInv
  <2> QED
    BY <1>3, <1>4, <2>1, <2>2, <2>4, <2>6
<1>7. op' \in [Handler -> Op]
  BY <1>1, <1>4, <1>5 DEF TypeOK
<1>8. queue' \in [Replica -> Seq(Command)]
  BY <1>4, <1>6
<1>9. committed' \in 0..MaxCommands
  BY <1>3, AgendaAssumption
<1>10. TypeOK'
  BY <1>1, <1>4, <1>6, <1>7, <1>8, <1>9 DEF TypeOK
<1>11. \A i \in Handler : op'[i].pc \in {"propose", "wait"} => Sound(op'[i].cmd)
  BY <1>1, <1>2, <1>4, <1>5 DEF BaseInv, TypeOK
<1> QED
  BY <1>4, <1>6, <1>10, <1>11 DEF BaseInv

\* CreatePersonalAppointment only adds a notification.
LEMMA ReturnPersonalIs ==
  ASSUME BaseInv, NEW h \in Handler, ReturnPersonal(h)
  PROVE  \E n \in Note : n.type = "created" /\ db' = [db EXCEPT ![Leader] = WithNote(db[Leader], n)]
<1> DEFINE d == db[Leader]
           new == op[h].cmd.appt
           found == {a \in Live(d) : d.status[a][new.owner] # "none" /\ d.slot[a] = new.slot}
           N(a) == [type |-> "created", user |-> new.owner, appt |-> a, by |-> new.owner,
                    slot |-> new.slot]
<1>1. TypeOK /\ op[h] \in Op /\ op[h].pc = "wait" /\ op[h].cmd.op = "create_personal"
  BY DEF BaseInv, TypeOK, ReturnPersonal
<1>2. new \in Appt /\ new.owner \in User /\ new.slot \in Slot
  BY <1>1, OpFields, CommandFields, ApptFields
<1>3. d \in Tables
  BY AgendaAssumption, SMTT(40) DEF BaseInv, ReplicaInv, Consistent
<1>4. PICK a \in Appt \cup {NoAppt} : db' = [db EXCEPT ![Leader].notes = @ \cup {N(a)}]
  <2>1. PICK a \in IF found = {} THEN {NoAppt} ELSE found :
               db' = [db EXCEPT ![Leader].notes = @ \cup {N(a)}]
    BY DEF ReturnPersonal
  <2>2. a \in Appt \cup {NoAppt}
    BY <1>3, <2>1, TableFields DEF Live
  <2> QED
    BY <2>1, <2>2, ZenonT(60)
<1>5. N(a) \in Note /\ N(a).type = "created"
  BY <1>2 DEF Note
<1>6. db' = [db EXCEPT ![Leader] = WithNote(d, N(a))]
  BY <1>1, <1>4, AgendaAssumption DEF TypeOK, WithNote
<1> QED
  BY <1>5, <1>6

\* The end of CreatePersonalAppointment keeps the invariant.
LEMMA ReturnPersonalBase ==
  ASSUME BaseInv, NEW h \in Handler, ReturnPersonal(h)
  PROVE  BaseInv'
<1> DEFINE d == db[Leader]
<1>1. TypeOK /\ ReplicaInv(d, queue[Leader], failed[Leader])
  BY AgendaAssumption DEF BaseInv
<1>2. PICK n \in Note : n.type = "created" /\ db' = [db EXCEPT ![Leader] = WithNote(d, n)]
  BY ReturnPersonalIs
<1> DEFINE e == WithNote(d, n)
<1>3. ReplicaInv(e, queue[Leader], failed[Leader]) /\ (Reported(d) => Reported(e))
  BY <1>1, <1>2, WithNoteInv
<1>4. op' = [op EXCEPT ![h] = Idle] /\ UNCHANGED <<committed, queue, failed, raced, errors, timeouts>>
  BY DEF ReturnPersonal
<1>5. op' \in [Handler -> Op]
  BY <1>1, <1>4, IdleIsOp DEF TypeOK
<1>6. \A i \in Handler : op'[i].pc \in {"propose", "wait"} => Sound(op'[i].cmd)
  BY <1>1, <1>4, IdleIsOp DEF BaseInv, TypeOK
<1> HIDE DEF e, d
<1> QED
  BY <1>2, <1>3, <1>4, <1>5, <1>6, LeaderBase DEF d, e

\* A request that passes its check keeps the invariant.
LEMMA AcceptedBase ==
  ASSUME BaseInv, NEW h \in Handler, NEW c, Sound(c), Accepted(h, c)
  PROVE  BaseInv'
<1> DEFINE o == [pc |-> "propose", cmd |-> c]
<1>1. o \in Op /\ o.pc = "propose" /\ o.cmd = c
  BY DEF Op, Sound
<1>2. /\ op' = [op EXCEPT ![h] = o] /\ UNCHANGED <<committed, queue, db, failed, errors, timeouts>>
      /\ raced' \in BOOLEAN
  BY DEF Accepted
<1>3. timeouts' \in 0..MaxFaults
  BY <1>2 DEF BaseInv, TypeOK
<1> HIDE DEF o
<1> QED
  BY <1>1, <1>2, <1>3, HandlerBase

\* handleDeleteGroup keeps the invariant.
LEMMA DeleteGroupBase ==
  ASSUME BaseInv, NEW h \in Handler, NEW u \in User, NEW g \in Group, HandleDeleteGroup(h, u, g)
  PROVE  BaseInv'
<1> DEFINE e == WithoutGroup(db[Leader], g)
<1>1. TypeOK /\ ReplicaInv(db[Leader], queue[Leader], failed[Leader])
  BY AgendaAssumption DEF BaseInv
<1>2. /\ db' = [db EXCEPT ![Leader] = e]
      /\ UNCHANGED <<committed, queue, failed, op, raced, errors, timeouts>>
  BY <1>1, AgendaAssumption DEF HandleDeleteGroup, TypeOK
<1>3. ReplicaInv(e, queue[Leader], failed[Leader]) /\ (Reported(db[Leader]) => Reported(e))
  BY <1>1, WithoutGroupInv
<1> HIDE DEF e
<1>4. /\ op' \in [Handler -> Op]
      /\ \A i \in Handler : op'[i].pc \in {"propose", "wait"} => Sound(op'[i].cmd)
  BY <1>1, <1>2 DEF BaseInv, TypeOK
<1> QED
  BY <1>2, <1>3, <1>4, LeaderBase

\* ProposeRefused, TimeOut and Return end the request.
LEMMA EndBase ==
  ASSUME BaseInv, NEW h \in Handler, ProposeRefused(h) \/ TimeOut(h) \/ Return(h)
  PROVE  BaseInv'
<1>1. TypeOK
  BY DEF BaseInv
<1>2. op' = [op EXCEPT ![h] = Idle] /\ UNCHANGED <<committed, queue, db, failed, raced, errors>>
  BY DEF ProposeRefused, TimeOut, Return
<1>3. timeouts' \in 0..MaxFaults
  <2>1. CASE TimeOut(h)
    <3>1. timeouts' = timeouts + 1 /\ errors + timeouts < MaxFaults
      BY <2>1 DEF TimeOut
    <3> QED
      BY <1>1, <3>1, AgendaAssumption DEF TypeOK
  <2>2. CASE ~TimeOut(h)
    BY <1>1, <2>2 DEF ProposeRefused, Return, TypeOK
  <2> QED
    BY <2>1, <2>2
<1>4. raced' \in BOOLEAN
  BY <1>1, <1>2 DEF TypeOK
<1> QED
  BY <1>2, <1>3, <1>4, IdleIsOp, HandlerBase

\* Every step keeps the invariant.
LEMMA BaseStep == BaseInv /\ [Next]_vars => BaseInv'
<1> SUFFICES ASSUME BaseInv, [Next]_vars PROVE BaseInv'
  OBVIOUS
<1>1. CASE UNCHANGED vars
  BY <1>1 DEF vars, BaseInv, TypeOK
<1>2. ASSUME NEW h \in Handler, Request(h)
      PROVE  BaseInv'
  <2>1. CASE \E c : Checked(db[Leader], c) /\ Accepted(h, c)
    BY <2>1, AcceptedBase DEF Checked
  <2>2. CASE \E u \in User, g \in Group : HandleDeleteGroup(h, u, g)
    BY <2>2, DeleteGroupBase
  <2> QED
    BY <1>2, <2>1, <2>2, RequestIs
<1>3. ASSUME NEW r \in Replica, Executes(r)
      PROVE  BaseInv'
  BY <1>3, ExecuteBase
<1> QED
  BY <1>1, <1>2, <1>3, ProposeBase, EndBase, ReturnPersonalBase DEF Next, Executes

\* The tables and the queues are well-formed in every reachable state.
THEOREM AgendaInvariant == Spec => []BaseInv
  BY InitBase, BaseStep, PTL DEF Spec

\* Every variable keeps its type: no check, no repetition and no interruption
\* leaves a row, a command or an apply error that the code does not expect.
THEOREM TypeCorrect == Spec => []TypeOK
<1>1. BaseInv => TypeOK
  BY DEF BaseInv
<1> QED
  BY <1>1, AgendaInvariant, PTL

\* Whoever takes part in an appointment of a group is a member of the group.
THEOREM InvitedAreMembers == Spec => []ParticipantsAreMembers
<1>1. BaseInv => ParticipantsAreMembers
  <2> SUFFICES ASSUME BaseInv, NEW r \in Replica, NEW a \in Appt, NEW u \in User,
                      db[r].status[a][u] # "none", a.group # NoGroup
               PROVE  <<a.group, u>> \in db[r].members
    BY DEF ParticipantsAreMembers
  <2>1. Consistent(db[r])
    BY DEF BaseInv, ReplicaInv
  <2> QED
    BY <2>1, ApptFields DEF Consistent, Involved
<1> QED
  BY <1>1, AgendaInvariant, PTL

\* A personal appointment has its owner as participant, except while the
\* command that creates it waits to be tried again.
THEOREM OwnersAttend == Spec => []OwnerAttends
<1>1. BaseInv => OwnerAttends
  BY DEF BaseInv, ReplicaInv, Attended, OwnerAttends
<1> QED
  BY <1>1, AgendaInvariant, PTL

\* Without a database error every answer has been reported to the owner of the
\* appointment.
THEOREM AnswersAreReported == Spec => []AnswersReachOwner
<1>1. BaseInv => AnswersReachOwner
  BY DEF BaseInv, Reported, AnswersReachOwner, Answers
<1> QED
  BY <1>1, AgendaInvariant, PTL

\* The command that applyCommitted executes next, executed once more before any
\* other because recording it failed, changes nothing.
THEOREM RepetitionIsHarmless == Spec => []RepeatChangesNothing
<1>1. BaseInv => RepeatChangesNothing
  <2> SUFFICES ASSUME BaseInv, NEW r \in Replica, queue[r] # <<>>
               PROVE  LET c == Head(queue[r])
                          once == Apply(db[r], c)
                      IN  \/ once.err = "fatal"
                          \/ c.op = "invitation" /\ db[r].status[c.appt][c.user] = "none"
                          \/ Apply(once.d, c).err # "fatal" /\ Apply(once.d, c).d = once.d
    BY DEF RepeatChangesNothing
  <2>1. Sound(Head(queue[r])) /\ Consistent(db[r])
    BY HeadSound DEF BaseInv, ReplicaInv
  <2> QED
    BY <2>1, RepeatLemma DEF Repeats
<1> QED
  BY <1>1, AgendaInvariant, PTL

-----------------------------------------------------------------------------
(* The personal appointments of a replica and what a command makes of them. *)

\* Identifiers of personal appointments.
PersonalAppt == {a \in Appt : a.group = NoGroup}

\* A book: the rows of the personal appointments, the deleted ones, their times.
Book(A, D, S) == [appts |-> A, deleted |-> D, slot |-> S]

Personal(d) ==
    Book(d.appts \cap PersonalAppt, d.deleted \cap PersonalAppt,
         [a \in PersonalAppt |-> d.slot[a]])

IsBook(p) ==
    /\ p = Book(p.appts, p.deleted, p.slot)
    /\ p.appts \subseteq PersonalAppt /\ p.deleted \subseteq PersonalAppt
    /\ p.slot \in [PersonalAppt -> Slot]

\* Those that are not deleted, and those CreatePersonal finds.
Held(p) == p.appts \ p.deleted

Taken(p, a) == a \in p.appts \/ \E b \in Held(p) : b.owner = a.owner /\ p.slot[b] = a.slot

\* What executing c, once or more often, makes of the personal appointments p.
After(p, c) ==
    IF c.op = "create_personal" /\ ~Taken(p, c.appt)
    THEN Book(p.appts \cup {c.appt}, p.deleted, [p.slot EXCEPT ![c.appt] = c.appt.slot])
    ELSE IF c.op = "update" /\ c.appt \in Held(p)
    THEN Book(p.appts, p.deleted, [p.slot EXCEPT ![c.appt] = c.slot])
    ELSE IF c.op = "delete"
    THEN Book(p.appts, p.deleted \cup ({c.appt} \cap p.appts), p.slot)
    ELSE p

\* The parts of a book of personal appointments.
LEMMA BookFields ==
  ASSUME NEW A, NEW D, NEW S
  PROVE  Book(A, D, S).appts = A /\ Book(A, D, S).deleted = D /\ Book(A, D, S).slot = S
  BY DEF Book

\* Books with the same parts are the same.
LEMMA BookEqual ==
  ASSUME NEW p, NEW q, IsBook(p), IsBook(q), p.appts = q.appts, p.deleted = q.deleted,
         \A a \in PersonalAppt : p.slot[a] = q.slot[a]
  PROVE  p = q
<1>1. p.slot = q.slot
  BY DEF IsBook
<1> QED
  BY <1>1 DEF IsBook

\* The book of a replica lists the personal appointments in its tables.
LEMMA PersonalIs ==
  ASSUME NEW d \in Tables
  PROVE  /\ IsBook(Personal(d))
         /\ Personal(d).appts = d.appts \cap PersonalAppt
         /\ Personal(d).deleted = d.deleted \cap PersonalAppt
         /\ \A a \in PersonalAppt : Personal(d).slot[a] = d.slot[a]
         /\ Held(Personal(d)) = Live(d) \cap PersonalAppt
<1> DEFINE S == [a \in PersonalAppt |-> d.slot[a]]
<1>1. /\ Personal(d).appts = d.appts \cap PersonalAppt
      /\ Personal(d).deleted = d.deleted \cap PersonalAppt
      /\ Personal(d).slot = S
  BY BookFields DEF Personal
<1>2. S \in [PersonalAppt -> Slot] /\ \A a \in PersonalAppt : S[a] = d.slot[a]
  BY TableFields DEF PersonalAppt
<1>3. Personal(d) = Book(Personal(d).appts, Personal(d).deleted, Personal(d).slot)
  BY <1>1 DEF Personal
<1>4. IsBook(Personal(d))
  BY <1>1, <1>2, <1>3 DEF IsBook
<1>5. Held(Personal(d)) = Live(d) \cap PersonalAppt
  BY <1>1 DEF Held, Live
<1> QED
  BY <1>1, <1>2, <1>4, <1>5

\* Tables that agree on the personal appointments.
LEMMA PersonalSame ==
  ASSUME NEW d \in Tables, NEW e \in Tables,
         \A a \in PersonalAppt : /\ a \in e.appts <=> a \in d.appts
                                 /\ a \in e.deleted <=> a \in d.deleted
                                 /\ e.slot[a] = d.slot[a]
  PROVE  Personal(e) = Personal(d)
<1>1. Personal(e).appts = Personal(d).appts /\ Personal(e).deleted = Personal(d).deleted
  <2>1. /\ e.appts \cap PersonalAppt = d.appts \cap PersonalAppt
        /\ e.deleted \cap PersonalAppt = d.deleted \cap PersonalAppt
    OBVIOUS
  <2>2. /\ Personal(d).appts = d.appts \cap PersonalAppt
        /\ Personal(d).deleted = d.deleted \cap PersonalAppt
    BY PersonalIs
  <2>3. /\ Personal(e).appts = e.appts \cap PersonalAppt
        /\ Personal(e).deleted = e.deleted \cap PersonalAppt
    BY PersonalIs
  <2> QED
    BY <2>1, <2>2, <2>3
<1>2. \A a \in PersonalAppt : Personal(e).slot[a] = Personal(d).slot[a]
  BY PersonalIs
<1> QED
  BY <1>1, <1>2, PersonalIs, BookEqual

\* What After does, command by command.
LEMMA AfterIs ==
  ASSUME NEW p, IsBook(p), NEW c, Sound(c), NEW q, q = After(p, c)
  PROVE  /\ IsBook(q)
         /\ \/ /\ c.op = "create_personal" /\ ~Taken(p, c.appt) /\ c.appt \in PersonalAppt
               /\ q.appts = p.appts \cup {c.appt} /\ q.deleted = p.deleted
               /\ \A a \in PersonalAppt :
                    q.slot[a] = IF a = c.appt THEN c.appt.slot ELSE p.slot[a]
            \/ /\ c.op = "update" /\ c.appt \in Held(p)
               /\ q.appts = p.appts /\ q.deleted = p.deleted
               /\ \A a \in PersonalAppt : q.slot[a] = IF a = c.appt THEN c.slot ELSE p.slot[a]
            \/ /\ c.op = "delete"
               /\ q.appts = p.appts /\ q.deleted = p.deleted \cup ({c.appt} \cap p.appts)
               /\ q.slot = p.slot
            \/ /\ q = p
               /\ c.op = "create_personal" => Taken(p, c.appt)
               /\ c.op = "update" => c.appt \notin Held(p)
               /\ c.op # "delete"
<1>1. c \in Command
  BY DEF Sound
<1>2. CASE c.op = "create_personal" /\ ~Taken(p, c.appt)
  <2> DEFINE S == [p.slot EXCEPT ![c.appt] = c.appt.slot]
  <2>1. c.appt \in PersonalAppt /\ c.appt.slot \in Slot
    BY <1>1, <1>2, CommandFields, ApptFields DEF PersonalAppt, Sound
  <2>2. /\ S \in [PersonalAppt -> Slot]
        /\ \A a \in PersonalAppt : S[a] = IF a = c.appt THEN c.appt.slot ELSE p.slot[a]
    BY <2>1 DEF IsBook
  <2> HIDE DEF S
  <2>3. q = Book(p.appts \cup {c.appt}, p.deleted, S)
    BY <1>2 DEF After, S
  <2>4. q.appts = p.appts \cup {c.appt} /\ q.deleted = p.deleted /\ q.slot = S
    BY <2>3, BookFields
  <2>5. IsBook(q)
    BY <2>1, <2>2, <2>3, <2>4 DEF IsBook
  <2> QED
    BY <1>2, <2>1, <2>2, <2>4, <2>5
<1>3. CASE c.op = "update" /\ c.appt \in Held(p)
  <2> DEFINE S == [p.slot EXCEPT ![c.appt] = c.slot]
  <2>1. c.appt \in PersonalAppt /\ c.slot \in Slot
    BY <1>1, <1>3, CommandFields DEF IsBook, Held
  <2>2. /\ S \in [PersonalAppt -> Slot]
        /\ \A a \in PersonalAppt : S[a] = IF a = c.appt THEN c.slot ELSE p.slot[a]
    BY <2>1 DEF IsBook
  <2> HIDE DEF S
  <2>3. q = Book(p.appts, p.deleted, S)
    BY <1>3 DEF After, S
  <2>4. q.appts = p.appts /\ q.deleted = p.deleted /\ q.slot = S
    BY <2>3, BookFields
  <2>5. IsBook(q)
    BY <2>2, <2>3, <2>4 DEF IsBook
  <2> QED
    BY <1>3, <2>2, <2>4, <2>5
<1>4. CASE c.op = "delete"
  <2>1. q = Book(p.appts, p.deleted \cup ({c.appt} \cap p.appts), p.slot)
    BY <1>4 DEF After
  <2>2. q.appts = p.appts /\ q.deleted = p.deleted \cup ({c.appt} \cap p.appts) /\ q.slot = p.slot
    BY <2>1, BookFields
  <2>3. IsBook(q)
    BY <2>1, <2>2 DEF IsBook
  <2> QED
    BY <1>4, <2>2, <2>3
<1>5. CASE /\ ~(c.op = "create_personal" /\ ~Taken(p, c.appt))
           /\ ~(c.op = "update" /\ c.appt \in Held(p)) /\ c.op # "delete"
  <2>1. q = p
    BY <1>5 DEF After
  <2> QED
    BY <1>5, <2>1
<1> QED
  BY <1>2, <1>3, <1>4, <1>5

\* Executing a command again leaves the personal appointments as they are.
LEMMA AfterAgain ==
  ASSUME NEW p, IsBook(p), NEW c, Sound(c)
  PROVE  After(After(p, c), c) = After(p, c)
<1> DEFINE q == After(p, c)
           r == After(q, c)
<1>1. IsBook(q)
  BY AfterIs
<1> SUFFICES r = q
  OBVIOUS
<1>2. CASE c.op = "create_personal"
  <2>1. (q = p /\ Taken(p, c.appt)) \/ q.appts = p.appts \cup {c.appt}
    BY <1>2, AfterIs
  <2>2. Taken(q, c.appt)
    <3> HIDE DEF q
    <3>1. CASE q = p /\ Taken(p, c.appt)
      BY <3>1
    <3>2. CASE q.appts = p.appts \cup {c.appt}
      BY <3>2 DEF Taken
    <3> QED
      BY <2>1, <3>1, <3>2
  <2> HIDE DEF q
  <2> QED
    BY <1>2, <2>2 DEF After
<1>3. CASE c.op = "update"
  <2>1. \/ q = p /\ c.appt \notin Held(p)
        \/ q.slot[c.appt] = c.slot /\ q.appts = p.appts /\ q.deleted = p.deleted
    BY <1>3, AfterIs DEF IsBook, Held
  <2> HIDE DEF q
  <2>2. \/ r = q
        \/ /\ r.appts = q.appts /\ r.deleted = q.deleted /\ IsBook(r) /\ c.appt \in Held(q)
           /\ \A a \in PersonalAppt : r.slot[a] = IF a = c.appt THEN c.slot ELSE q.slot[a]
    BY <1>1, <1>3, AfterIs
  <2> HIDE DEF r
  <2>3. CASE r = q
    BY <2>3
  <2>4. CASE q = p /\ c.appt \notin Held(p)
    BY <2>2, <2>4
  <2>5. CASE q.slot[c.appt] = c.slot /\ r # q
    BY <1>1, <2>2, <2>5, BookEqual
  <2> QED
    BY <2>1, <2>3, <2>4, <2>5
<1>4. CASE c.op = "delete"
  <2>1. q.appts = p.appts /\ q.deleted = p.deleted \cup ({c.appt} \cap p.appts)
    BY <1>4, AfterIs
  <2> HIDE DEF q
  <2>2. /\ r.appts = q.appts /\ r.deleted = q.deleted \cup ({c.appt} \cap q.appts)
        /\ r.slot = q.slot /\ IsBook(r)
    BY <1>1, <1>4, AfterIs
  <2> HIDE DEF r
  <2>3. r.deleted = q.deleted
    BY <2>1, <2>2
  <2> QED
    BY <1>1, <2>2, <2>3, BookEqual
<1>5. CASE c.op \notin {"create_personal", "update", "delete"}
  BY <1>5 DEF After
<1> QED
  BY <1>2, <1>3, <1>4, <1>5

\* Writes that leave the personal appointments alone.
LEMMA PersonalKept ==
  ASSUME NEW d \in Tables, NEW e \in Tables,
         e.appts = d.appts, e.deleted = d.deleted, e.slot = d.slot
  PROVE  Personal(e) = Personal(d)
  BY PersonalSame

\* DeleteGroup takes only the group's appointments.
LEMMA WithoutGroupPersonal ==
  ASSUME NEW d \in Tables, NEW g \in Group, NEW e, e = WithoutGroup(d, g)
  PROVE  Personal(e) = Personal(d)
<1>1. g # NoGroup
  BY AgendaAssumption
<1> QED
  BY <1>1, WithoutGroupIs, PersonalSame DEF PersonalAppt

\* INSERT INTO appointments by create_personal, before the owner is inserted.
LEMMA InsertPersonal ==
  ASSUME NEW d \in Tables, NEW c, Sound(c), c.op = "create_personal",
         Matching(d, c.appt) = {}, c.appt \notin d.appts, NEW e, e = InsertAppt(d, c.appt)
  PROVE  Personal(e) = After(Personal(d), c)
<1> DEFINE p == Personal(d)
           q == After(p, c)
           a == c.appt
<1>1. a \in Appt /\ a.group = NoGroup /\ a \in PersonalAppt
  BY CommandFields DEF Sound, PersonalAppt
<1>2. /\ e \in Tables /\ e.appts = d.appts \cup {a} /\ e.deleted = d.deleted
      /\ \A b \in Appt : e.slot[b] = IF b = a THEN a.slot ELSE d.slot[b]
  BY <1>1, InsertApptIs
<1>3. ~Taken(p, a)
  <2>1. a \notin p.appts
    BY PersonalIs
  <2>2. ASSUME NEW b \in Held(p), b.owner = a.owner, p.slot[b] = a.slot
        PROVE  FALSE
    <3>1. b \in Live(d) /\ b \in PersonalAppt /\ d.slot[b] = a.slot
      BY <2>2, PersonalIs
    <3>2. b \in Matching(d, a)
      BY <1>1, <2>2, <3>1 DEF Matching, PersonalAppt
    <3> QED
      BY <3>2
  <2> QED
    BY <2>1, <2>2 DEF Taken
<1>4. /\ IsBook(q) /\ q.appts = p.appts \cup {a} /\ q.deleted = p.deleted
      /\ \A b \in PersonalAppt : q.slot[b] = IF b = a THEN a.slot ELSE p.slot[b]
  BY <1>3, PersonalIs, AfterIs
<1> DEFINE x == Personal(e)
<1>5. /\ IsBook(x) /\ x.appts = e.appts \cap PersonalAppt /\ x.deleted = e.deleted \cap PersonalAppt
      /\ \A b \in PersonalAppt : x.slot[b] = e.slot[b]
  BY <1>2, PersonalIs
<1>6. /\ p.appts = d.appts \cap PersonalAppt /\ p.deleted = d.deleted \cap PersonalAppt
      /\ \A b \in PersonalAppt : p.slot[b] = d.slot[b]
  BY PersonalIs
<1> HIDE DEF p, q, x, a
<1>7. x.appts = q.appts /\ x.deleted = q.deleted
  BY <1>1, <1>2, <1>4, <1>5, <1>6
<1>8. \A b \in PersonalAppt : x.slot[b] = q.slot[b]
  BY <1>2, <1>4, <1>5, <1>6 DEF PersonalAppt
<1>9. x = q
  BY <1>4, <1>5, <1>7, <1>8, BookEqual
<1> QED
  BY <1>9 DEF x, q, p

\* Commands that leave the appointments and their times alone.
LEMMA OtherCommands ==
  ASSUME NEW d \in Tables, NEW c \in Command, NEW o, o = Apply(d, c),
         c.op \in {"group_create", "group_update", "member_add", "member_update",
                   "member_remove", "invitation"}
  PROVE  /\ o.d \in Tables
         /\ o.d.appts = d.appts /\ o.d.deleted = d.deleted /\ o.d.slot = d.slot
<1>1. CASE c.op = "group_create"
  <2> DEFINE i == InsertGroup(d, c.group)
  <2>1. c.group \in Group /\ o = CreateGroup(d, c.group)
    BY <1>1, CommandFields, ApplyIs
  <2>2. o.d = d \/ o.d = InsertMember(i, c.group, Creator[c.group], GroupOwnerRank(c.group))
    BY <2>1, CreateGroupIs
  <2>3. i \in Tables /\ i.appts = d.appts /\ i.deleted = d.deleted /\ i.slot = d.slot
    BY <2>1, InsertGroupIs
  <2> HIDE DEF i
  <2> QED
    BY <2>1, <2>2, <2>3, InsertMemberIs, OwnerRankType
<1>2. CASE c.op = "group_update"
  <2>1. c.group \in Group /\ o = UpdateGroup(d, c.group)
    BY <1>2, CommandFields, ApplyIs
  <2>2. o.d = d \/ o.d = WithName(d, c.group)
    BY <2>1, UpdateGroupIs
  <2> QED
    BY <2>1, <2>2, WithNameIs
<1>3. CASE c.op = "member_add"
  <2>1. /\ c.group \in Group /\ c.user \in User /\ c.rank \in Ranks
        /\ o = AddGroupMember(d, c.group, c.user, c.rank)
    BY <1>3, CommandFields, ApplyIs
  <2>2. o.d = InsertMember(d, c.group, c.user, c.rank)
    BY <2>1, AddGroupMemberIs
  <2> QED
    BY <2>1, <2>2, InsertMemberIs
<1>4. CASE c.op = "member_update"
  <2>1. /\ c.group \in Group /\ c.user \in User /\ c.rank \in Ranks
        /\ o = UpdateGroupMember(d, c.group, c.user, c.rank)
    BY <1>4, CommandFields, ApplyIs
  <2>2. o.d = d \/ o.d = WithRank(d, c.group, c.user, c.rank)
    BY <2>1, UpdateGroupMemberIs
  <2> QED
    BY <2>1, <2>2, WithRankIs
<1>5. CASE c.op = "member_remove"
  <2>1. c.group \in Group /\ c.user \in User /\ o = RemoveGroupMember(d, c.group, c.user)
    BY <1>5, CommandFields, ApplyIs
  <2>2. o.d = d \/ o.d = WithoutMember(d, c.group, c.user)
    BY <2>1, OutcomeFields DEF RemoveGroupMember, WithoutMember
  <2> QED
    BY <2>1, <2>2, WithoutMemberIs
<1>6. CASE c.op = "invitation"
  <2> DEFINE e == SetStatus(d, c.appt, c.user, c.status)
             n == Answer(d, c.appt, c.user, c.status)
  <2>1. /\ c.appt \in Appt /\ c.user \in User /\ c.status \in Answers
        /\ o = AnswerInvitation(d, c.appt, c.user, c.status)
    BY <1>6, CommandFields, ApplyIs
  <2>2. o.d \in {d, e, WithNote(e, n)}
    BY <2>1, AnswerInvitationIs
  <2>3. e \in Tables /\ e.appts = d.appts /\ e.deleted = d.deleted /\ e.slot = d.slot /\ n \in Note
    BY <2>1, SetStatusIs, AnswerIsNote
  <2> HIDE DEF e, n
  <2> QED
    BY <2>2, <2>3, WithNoteIs
<1> QED
  BY <1>1, <1>2, <1>3, <1>4, <1>5, <1>6

\* The personal appointments depend on the commands and on nothing else.
LEMMA ApplyPersonal ==
  ASSUME NEW d, Consistent(d), NEW c, Sound(c), NEW o, o = Apply(d, c)
  PROVE  Personal(o.d) = After(Personal(d), c)
<1> DEFINE p == Personal(d)
           q == After(p, c)
<1>1. d \in Tables /\ c \in Command
  BY DEF Consistent, Sound
<1>2. CASE c.op = "create_personal"
  <2> DEFINE a == c.appt
  <2>1. a \in Appt /\ a.group = NoGroup /\ a.owner \in User /\ "accepted" \in Status
    BY <1>1, <1>2, CommandFields, ApptFields DEF Sound, Status
  <2>2. o = CreatePersonal(d, a)
    BY <1>2, ApplyIs
  <2>3. CASE Matching(d, a) # {} \/ a \in d.appts
    <3>1. Taken(p, a)
      <4>1. CASE a \in d.appts
        BY <1>1, <2>1, <4>1, PersonalIs DEF Taken, PersonalAppt
      <4>2. CASE Matching(d, a) # {}
        <5>1. PICK b \in Matching(d, a) : TRUE
          BY <4>2
        <5>2. b \in Live(d) /\ b \in PersonalAppt /\ b.owner = a.owner /\ d.slot[b] = a.slot
          BY <1>1, <2>1, <5>1, MatchingFields DEF PersonalAppt, Live
        <5>3. b \in Held(p) /\ p.slot[b] = d.slot[b]
          BY <1>1, <5>2, PersonalIs
        <5> QED
          BY <5>2, <5>3 DEF Taken
      <4> QED
        BY <2>3, <4>1, <4>2
    <3>2. q = p
      BY <1>2, <3>1 DEF After
    <3>3. o.d = d \/ \E b \in Matching(d, a) : o.d = WithStatus(d, b, a.owner, "accepted")
      BY <1>1, <2>1, <2>2, <2>3, CreatePersonalIs
    <3>4. Personal(o.d) = p
      <4>1. CASE o.d = d
        BY <4>1
      <4>2. ASSUME NEW b \in Matching(d, a), o.d = WithStatus(d, b, a.owner, "accepted")
            PROVE  Personal(o.d) = p
        <5>1. b \in Appt
          BY <1>1, <2>1, MatchingFields
        <5> QED
          BY <1>1, <2>1, <4>2, <5>1, WithStatusIs, PersonalKept
      <4> QED
        BY <3>3, <4>1, <4>2
    <3> QED
      BY <3>2, <3>4
  <2>4. CASE Matching(d, a) = {} /\ a \notin d.appts
    <3> DEFINE i == InsertAppt(d, a)
    <3>1. o.d = WithStatus(i, a, a.owner, "accepted")
      BY <1>1, <2>1, <2>2, <2>4, CreatePersonalIs
    <3>2. i \in Tables /\ Personal(i) = q
      BY <1>1, <1>2, <2>1, <2>4, InsertPersonal, InsertApptIs
    <3> HIDE DEF i, q
    <3>3. Personal(o.d) = Personal(i)
      BY <2>1, <3>1, <3>2, WithStatusIs, PersonalKept
    <3> QED
      BY <3>2, <3>3 DEF q
  <2> QED
    BY <2>3, <2>4
<1>3. CASE c.op = "update"
  <2> DEFINE a == c.appt
             x == Personal(o.d)
  <2>1. a \in Appt /\ c.slot \in Slot /\ o = UpdateAppointment(d, a, c.slot)
    BY <1>1, <1>3, CommandFields, ApplyIs
  <2>2. IsBook(p) /\ p.appts = d.appts \cap PersonalAppt /\ p.deleted = d.deleted \cap PersonalAppt
        /\ Held(p) = Live(d) \cap PersonalAppt /\ \A b \in PersonalAppt : p.slot[b] = d.slot[b]
    BY <1>1, PersonalIs
  <2>3. CASE a \notin Live(d)
    <3>1. o.d = d
      BY <2>1, <2>3, UpdateAppointmentIs
    <3>2. a \notin Held(p)
      BY <2>2, <2>3
    <3>3. q = p
      BY <1>3, <3>2 DEF After
    <3> QED
      BY <3>1, <3>3
  <2>4. CASE a \in Live(d)
    <3>1. o.d = WithSlot(d, a, c.slot)
      BY <2>1, <2>4, UpdateAppointmentIs
    <3>2. /\ o.d \in Tables /\ o.d.appts = d.appts /\ o.d.deleted = d.deleted
          /\ \A b \in Appt : o.d.slot[b] = IF b = a THEN c.slot ELSE d.slot[b]
      BY <1>1, <2>1, <3>1, WithSlotIs
    <3>3. CASE a \notin PersonalAppt
      <4>1. a \notin Held(p)
        BY <2>2, <3>3
      <4>2. q = p
        BY <1>3, <4>1 DEF After
      <4>3. x = p
        BY <1>1, <3>2, <3>3, PersonalSame DEF PersonalAppt
      <4> QED
        BY <4>2, <4>3
    <3>4. CASE a \in PersonalAppt
      <4>1. a \in Held(p)
        BY <2>2, <2>4, <3>4
      <4>2. /\ IsBook(q) /\ q.appts = p.appts /\ q.deleted = p.deleted
            /\ \A b \in PersonalAppt : q.slot[b] = IF b = a THEN c.slot ELSE p.slot[b]
        BY <1>3, <2>2, <4>1, AfterIs
      <4>3. /\ IsBook(x) /\ x.appts = d.appts \cap PersonalAppt
            /\ x.deleted = d.deleted \cap PersonalAppt
            /\ \A b \in PersonalAppt : x.slot[b] = o.d.slot[b]
        BY <3>2, PersonalIs
      <4> HIDE DEF x, q, p, a
      <4>4. \A b \in PersonalAppt : x.slot[b] = q.slot[b]
        BY <2>2, <3>2, <4>2, <4>3 DEF PersonalAppt
      <4>5. x = q
        BY <2>2, <4>2, <4>3, <4>4, BookEqual
      <4> QED
        BY <4>5 DEF x, q, p
    <3> QED
      BY <3>3, <3>4
  <2> QED
    BY <2>3, <2>4
<1>4. CASE c.op = "delete"
  <2> DEFINE a == c.appt
             x == Personal(o.d)
  <2>1. a \in Appt /\ o = DeleteAppointment(d, a)
    BY <1>1, <1>4, CommandFields, ApplyIs
  <2>2. o.d = WithDeleted(d, a)
    BY <2>1, DeleteAppointmentIs
  <2>3. /\ o.d \in Tables /\ o.d.appts = d.appts /\ o.d.deleted = d.deleted \cup ({a} \cap d.appts)
        /\ o.d.slot = d.slot
    BY <1>1, <2>1, <2>2, WithDeletedIs
  <2>4. /\ IsBook(p) /\ p.appts = d.appts \cap PersonalAppt /\ p.deleted = d.deleted \cap PersonalAppt
        /\ \A b \in PersonalAppt : p.slot[b] = d.slot[b]
    BY <1>1, PersonalIs
  <2>5. /\ IsBook(q) /\ q.appts = p.appts /\ q.deleted = p.deleted \cup ({a} \cap p.appts)
        /\ q.slot = p.slot
    BY <1>4, <2>4, AfterIs
  <2>6. /\ IsBook(x) /\ x.appts = d.appts \cap PersonalAppt
        /\ x.deleted = o.d.deleted \cap PersonalAppt
        /\ \A b \in PersonalAppt : x.slot[b] = o.d.slot[b]
    BY <2>3, PersonalIs
  <2> HIDE DEF x, q, p, a
  <2>7. x.deleted = q.deleted
    BY <2>3, <2>4, <2>5, <2>6
  <2>8. x.appts = q.appts /\ \A b \in PersonalAppt : x.slot[b] = q.slot[b]
    BY <2>3, <2>4, <2>5, <2>6
  <2>9. x = q
    BY <2>5, <2>6, <2>7, <2>8, BookEqual
  <2> QED
    BY <2>9 DEF x, q, p
<1>5. CASE c.op = "create_group_appt"
  <2>1. c.appt \in Appt /\ c.appt \notin PersonalAppt /\ o = CreateGroupAppointment(d, c.appt)
    BY <1>1, <1>5, CommandFields, ApplyIs, AgendaAssumption DEF Sound, PersonalAppt
  <2>2. o.d = d \/ o.d = WithInvitations(d, c.appt)
    BY <2>1, CreateGroupAppointmentIs
  <2>3. ASSUME o.d = WithInvitations(d, c.appt)
        PROVE  Personal(o.d) = p
    <3>1. /\ o.d \in Tables /\ o.d.appts = d.appts \cup {c.appt} /\ o.d.deleted = d.deleted
          /\ \A b \in Appt : o.d.slot[b] = IF b = c.appt THEN c.appt.slot ELSE d.slot[b]
      BY <1>1, <2>1, <2>3, WithInvitationsIs, SMTT(40)
    <3>2. \A b \in PersonalAppt : b \in Appt /\ b # c.appt
      BY <2>1 DEF PersonalAppt
    <3> QED
      BY <1>1, <3>1, <3>2, PersonalSame
  <2>4. Personal(o.d) = p
    BY <2>2, <2>3
  <2> QED
    BY <1>5, <2>4 DEF After
<1>6. CASE c.op \in {"group_create", "group_update", "member_add", "member_update",
                     "member_remove", "invitation"}
  <2>1. /\ o.d \in Tables /\ o.d.appts = d.appts /\ o.d.deleted = d.deleted /\ o.d.slot = d.slot
    BY <1>1, <1>6, OtherCommands
  <2>2. Personal(o.d) = p
    BY <1>1, <2>1, PersonalKept
  <2> QED
    BY <1>6, <2>2 DEF After
<1> QED
  BY <1>1, <1>2, <1>3, <1>4, <1>5, <1>6, CommandFields

\* A command interrupted between its statements has done all or nothing of it.
LEMMA InterruptedPersonal ==
  ASSUME NEW d, Consistent(d), NEW c, Sound(c), NEW e, e = Interrupted(d, c)
  PROVE  Personal(e) = Personal(d) \/ Personal(e) = After(Personal(d), c)
<1>1. d \in Tables /\ c \in Command
  BY DEF Consistent, Sound
<1>2. CASE /\ c.op = "create_personal" /\ Matching(d, c.appt) = {} /\ c.appt \notin d.appts
           /\ e = InsertAppt(d, c.appt)
  BY <1>1, <1>2, InsertPersonal
<1>3. CASE c.op = "group_create" /\ e = InsertGroup(d, c.group)
  <2>1. c.group \in Group
    BY <1>1, <1>3, CommandFields
  <2> QED
    BY <1>1, <1>3, <2>1, InsertGroupIs, PersonalKept
<1>4. CASE c.op = "invitation" /\ e = SetStatus(d, c.appt, c.user, c.status)
  <2>1. c.appt \in Appt /\ c.user \in User /\ c.status \in Answers
    BY <1>1, <1>4, CommandFields
  <2> QED
    BY <1>1, <1>4, <2>1, SetStatusIs, PersonalKept
<1> QED
  BY <1>2, <1>3, <1>4, InterruptedIs

\* NoDoubleBooking for one replica.
Disjoint(p) ==
    \A a, b \in Held(p) : a # b /\ a.owner = b.owner => ~Overlap(p.slot[a], p.slot[b])

\* What Checked says about personal appointments.
Admits(p, c) ==
    /\ c.op = "create_personal" =>
         \A b \in Held(p) : b.owner = c.appt.owner => ~Overlap(p.slot[b], c.appt.slot)
    /\ c.op = "update" /\ c.appt.group = NoGroup =>
         /\ c.appt \in Held(p)
         /\ \A b \in Held(p) : b # c.appt /\ b.owner = c.appt.owner => ~Overlap(p.slot[b], c.slot)

\* Overlapping does not depend on the order.
LEMMA OverlapSymmetric ==
  ASSUME NEW s \in Slot, NEW t \in Slot
  PROVE  Overlap(s, t) <=> Overlap(t, s)
<1>1. s[1] \in Nat /\ s[2] \in Nat /\ t[1] \in Nat /\ t[2] \in Nat
  BY AgendaAssumption
<1> QED
  BY <1>1 DEF Overlap

\* A checked command leaves the personal appointments of each user disjoint.
LEMMA AfterDisjoint ==
  ASSUME NEW p, IsBook(p), NEW c, Sound(c), Disjoint(p), Admits(p, c)
  PROVE  Disjoint(After(p, c))
<1> SUFFICES ASSUME NEW q, q = After(p, c) PROVE Disjoint(q)
  OBVIOUS
<1>1. IsBook(q) /\ \A a \in PersonalAppt : p.slot[a] \in Slot /\ q.slot[a] \in Slot
  BY AfterIs DEF IsBook
<1>2. Held(p) \subseteq PersonalAppt /\ Held(q) \subseteq PersonalAppt
  BY <1>1 DEF IsBook, Held
<1>3. CASE q = p
  BY <1>3
<1>4. CASE /\ c.op = "delete"
           /\ q.appts = p.appts /\ q.deleted = p.deleted \cup ({c.appt} \cap p.appts)
           /\ q.slot = p.slot
  BY <1>4 DEF Disjoint, Held
<1>5. ASSUME NEW x \in PersonalAppt, NEW s \in Slot, Held(q) \subseteq Held(p) \cup {x},
             \A a \in PersonalAppt : q.slot[a] = IF a = x THEN s ELSE p.slot[a],
             \A b \in Held(p) : b # x /\ b.owner = x.owner => ~Overlap(p.slot[b], s)
      PROVE  Disjoint(q)
  <2> SUFFICES ASSUME NEW a \in Held(q), NEW b \in Held(q), a # b, a.owner = b.owner
               PROVE  ~Overlap(q.slot[a], q.slot[b])
    BY DEF Disjoint
  <2>1. a \in PersonalAppt /\ b \in PersonalAppt
    BY <1>2
  <2>2. CASE a # x /\ b # x
    BY <1>5, <2>1, <2>2 DEF Disjoint
  <2>3. CASE b = x
    BY <1>5, <2>1, <2>3
  <2>4. CASE a = x
    <3>1. ~Overlap(q.slot[b], q.slot[a])
      BY <1>5, <2>1, <2>4
    <3> QED
      BY <1>1, <2>1, <3>1, OverlapSymmetric
  <2> QED
    BY <2>2, <2>3, <2>4
<1>6. CASE /\ c.op = "create_personal" /\ c.appt \in PersonalAppt
           /\ q.appts = p.appts \cup {c.appt} /\ q.deleted = p.deleted
           /\ \A a \in PersonalAppt : q.slot[a] = IF a = c.appt THEN c.appt.slot ELSE p.slot[a]
  <2>1. c.appt.slot \in Slot
    BY <1>6, ApptFields DEF PersonalAppt
  <2>2. Held(q) \subseteq Held(p) \cup {c.appt}
    BY <1>6 DEF Held
  <2>3. \A b \in Held(p) : b # c.appt /\ b.owner = c.appt.owner => ~Overlap(p.slot[b], c.appt.slot)
    BY <1>6 DEF Admits
  <2> QED
    BY <1>5, <1>6, <2>1, <2>2, <2>3
<1>7. CASE /\ c.op = "update" /\ c.appt \in Held(p)
           /\ q.appts = p.appts /\ q.deleted = p.deleted
           /\ \A a \in PersonalAppt : q.slot[a] = IF a = c.appt THEN c.slot ELSE p.slot[a]
  <2>1. c.appt \in PersonalAppt /\ c.appt.group = NoGroup /\ c.slot \in Slot
    BY <1>2, <1>7, CommandFields DEF PersonalAppt, Sound
  <2>2. Held(q) \subseteq Held(p) \cup {c.appt}
    BY <1>7 DEF Held
  <2>3. \A b \in Held(p) : b # c.appt /\ b.owner = c.appt.owner => ~Overlap(p.slot[b], c.slot)
    BY <1>7, <2>1 DEF Admits
  <2> QED
    BY <1>5, <1>7, <2>1, <2>2, <2>3
<1> QED
  BY <1>3, <1>4, <1>6, <1>7, AfterIs

\* HasConflict sees every personal appointment of the user, because he attends
\* it: what a handler has checked leaves them disjoint.
LEMMA CheckedAdmits ==
  ASSUME NEW d, Consistent(d), Attended(d), NEW c, Checked(d, c)
  PROVE  Admits(Personal(d), c)
<1> DEFINE p == Personal(d)
<1>1. d \in Tables /\ Sound(c) /\ c \in Command /\ d.appts \subseteq Appt
  BY TableFields DEF Consistent, Checked, Sound
<1>2. /\ Held(p) = Live(d) \cap PersonalAppt
      /\ \A a \in PersonalAppt : p.slot[a] = d.slot[a]
  BY <1>1, PersonalIs
<1> HIDE DEF p
<1>3. ASSUME NEW b \in Held(p), NEW s, Overlap(p.slot[b], s)
      PROVE  b \in Conflicts(d, b.owner, s)
  <2>1. b \in Live(d) /\ b \in d.appts /\ b.group = NoGroup /\ b \in PersonalAppt
    BY <1>2 DEF Live, PersonalAppt
  <2>2. d.status[b][b.owner] = "accepted"
    BY <2>1 DEF Attended
  <2> QED
    BY <1>2, <1>3, <2>1, <2>2 DEF Conflicts
<1>4. ASSUME c.op = "create_personal"
      PROVE  \A b \in Held(p) : b.owner = c.appt.owner => ~Overlap(p.slot[b], c.appt.slot)
  <2>1. Conflicts(d, c.appt.owner, c.appt.slot) = {}
    BY <1>4 DEF Checked
  <2> QED
    BY <1>3, <2>1
<1>5. ASSUME c.op = "update", c.appt.group = NoGroup
      PROVE  /\ c.appt \in Held(p)
             /\ \A b \in Held(p) :
                  b # c.appt /\ b.owner = c.appt.owner => ~Overlap(p.slot[b], c.slot)
  <2>1. c.appt \in Live(d) /\ Conflicts(d, c.appt.owner, c.slot) \subseteq {c.appt} /\ c.appt \in Appt
    BY <1>1, <1>5, CommandFields DEF Checked
  <2>2. c.appt \in Held(p)
    BY <1>2, <1>5, <2>1 DEF PersonalAppt
  <2> QED
    BY <1>3, <2>1, <2>2
<1>6. Admits(p, c)
  BY <1>4, <1>5 DEF Admits
<1> QED
  BY <1>6 DEF p

-----------------------------------------------------------------------------
(* The personal appointments on their way through a queue.                 *)

\* F lists what the commands of q make of p, one after the other, up to E.
Leads(p, q, F, E) ==
    /\ F[0] = p /\ F[Len(q)] = E
    /\ \A i \in 1..Len(q) :
         /\ F[i] = After(F[i - 1], q[i])
         /\ q[i].op = "update" /\ q[i].appt.group = NoGroup => q[i].appt \in Held(F[i - 1])
    /\ \A i \in 0..Len(q) : IsBook(F[i]) /\ Disjoint(F[i])

\* A checked command at the end of the queue extends the way.
LEMMA LeadsAppend ==
  ASSUME NEW p, NEW q \in Seq(Command), NEW F, NEW E, Leads(p, q, F, E),
         NEW c, Sound(c), Admits(E, c)
  PROVE  \E G : Leads(p, Append(q, c), G, After(E, c))
<1> DEFINE n == Len(q)
           s == Append(q, c)
           G == [i \in Nat |-> IF i <= n THEN F[i] ELSE After(E, c)]
<1>1. /\ s \in Seq(Command) /\ Len(s) = n + 1 /\ n \in Nat
      /\ \A i \in 1..n : s[i] = q[i]
      /\ s[n + 1] = c
  BY AppendIs DEF Sound
<1>2. (\A i \in 0..n : G[i] = F[i]) /\ G[n + 1] = After(E, c)
  BY <1>1
<1>3. IsBook(E) /\ Disjoint(E) /\ F[n] = E /\ F[0] = p
  BY <1>1 DEF Leads
<1>4. IsBook(After(E, c)) /\ Disjoint(After(E, c))
  BY <1>3, AfterIs, AfterDisjoint
<1> HIDE DEF s, n, G
<1>5. ASSUME NEW i \in 1..Len(s)
      PROVE  /\ G[i] = After(G[i - 1], s[i])
             /\ s[i].op = "update" /\ s[i].appt.group = NoGroup => s[i].appt \in Held(G[i - 1])
  <2>1. CASE i = n + 1
    <3>1. i - 1 = n /\ n \in 0..n
      BY <1>1, <2>1
    <3> QED
      BY <1>1, <1>2, <1>3, <2>1, <3>1 DEF Admits
  <2>2. CASE i # n + 1
    <3>1. i \in 1..n /\ i \in 0..n /\ i - 1 \in 0..n
      BY <1>1, <2>2
    <3> QED
      BY <1>1, <1>2, <3>1 DEF Leads, n
  <2> QED
    BY <2>1, <2>2
<1>6. ASSUME NEW i \in 0..Len(s)
      PROVE  IsBook(G[i]) /\ Disjoint(G[i])
  <2>1. i = n + 1 \/ i \in 0..n
    BY <1>1
  <2> QED
    BY <1>2, <1>4, <2>1 DEF Leads, n
<1>7. G[0] = p /\ G[Len(s)] = After(E, c)
  BY <1>1, <1>2, <1>3
<1>8. Leads(p, s, G, After(E, c))
  BY <1>5, <1>6, <1>7 DEF Leads
<1> QED
  BY <1>8 DEF s

\* Executing the first command goes one step of the way.
LEMMA LeadsTail ==
  ASSUME NEW p, NEW q \in Seq(Command), q # <<>>, NEW F, NEW E, Leads(p, q, F, E)
  PROVE  \E G : Leads(After(p, Head(q)), Tail(q), G, E)
<1> DEFINE n == Len(q)
           s == Tail(q)
           G == [i \in Nat |-> F[i + 1]]
<1>1. /\ s \in Seq(Command) /\ Len(s) = n - 1 /\ n \in Nat /\ n >= 1
      /\ Head(q) = q[1]
  OBVIOUS
<1>2. \A i \in 1..Len(s) : s[i] = q[i + 1]
  OBVIOUS
<1>3. \A i \in Nat : G[i] = F[i + 1]
  OBVIOUS
<1> HIDE DEF s, n, G
<1>4. ASSUME NEW i \in 1..Len(s)
      PROVE  /\ G[i] = After(G[i - 1], s[i])
             /\ s[i].op = "update" /\ s[i].appt.group = NoGroup => s[i].appt \in Held(G[i - 1])
  <2>1. i + 1 \in 1..n /\ (i + 1) - 1 = i /\ i \in Nat /\ i - 1 \in Nat /\ (i - 1) + 1 = i
    BY <1>1
  <2>2. G[i - 1] = F[i] /\ G[i] = F[i + 1] /\ s[i] = q[i + 1]
    BY <1>2, <1>3, <2>1
  <2> DEFINE j == i + 1
  <2>3. /\ F[j] = After(F[j - 1], q[j])
        /\ q[j].op = "update" /\ q[j].appt.group = NoGroup => q[j].appt \in Held(F[j - 1])
    BY <2>1 DEF Leads, n
  <2>4. F[j - 1] = F[i]
    BY <2>1
  <2> QED
    BY <2>2, <2>3, <2>4
<1>5. ASSUME NEW i \in 0..Len(s)
      PROVE  IsBook(G[i]) /\ Disjoint(G[i])
  <2>1. i + 1 \in 0..n /\ i \in Nat
    BY <1>1
  <2> QED
    BY <1>3, <2>1 DEF Leads, n
<1>6. G[0] = After(p, Head(q))
  <2>1. 1 \in 1..n /\ 1 - 1 = 0 /\ 0 + 1 = 1
    BY <1>1
  <2>2. F[1] = After(F[1 - 1], q[1])
    BY <2>1 DEF Leads, n
  <2>3. F[0] = p /\ G[0] = F[0 + 1]
    BY <1>3 DEF Leads
  <2> QED
    BY <1>1, <2>1, <2>2, <2>3
<1>7. G[Len(s)] = E
  <2>1. Len(s) \in Nat /\ Len(s) + 1 = n
    BY <1>1
  <2> QED
    BY <1>3, <2>1 DEF Leads, n
<1>8. Leads(After(p, Head(q)), s, G, E)
  BY <1>4, <1>5, <1>6, <1>7 DEF Leads
<1> QED
  BY <1>8 DEF s

\* A command that was executed and will be executed again.
LEMMA LeadsAgain ==
  ASSUME NEW p, NEW q \in Seq(Command), q # <<>>, NEW F, NEW E, Leads(p, q, F, E), Sound(Head(q))
  PROVE  \E G : Leads(After(p, Head(q)), q, G, E)
<1> DEFINE n == Len(q)
           c == Head(q)
           G == [i \in Nat |-> IF i = 0 THEN After(p, c) ELSE F[i]]
<1>1. n \in Nat /\ n >= 1 /\ c = q[1] /\ 1 \in 1..n /\ 0 \in 0..n
  OBVIOUS
<1>2. G[0] = After(p, c) /\ \A i \in Nat \ {0} : G[i] = F[i]
  OBVIOUS
<1> HIDE DEF G
<1>3. F[0] = p /\ F[n] = E /\ IsBook(p)
  BY <1>1 DEF Leads
<1>4. /\ F[1] = After(p, c)
      /\ c.op = "update" /\ c.appt.group = NoGroup => c.appt \in Held(p)
  <2>1. /\ F[1] = After(F[1 - 1], q[1])
        /\ q[1].op = "update" /\ q[1].appt.group = NoGroup => q[1].appt \in Held(F[1 - 1])
    BY <1>1 DEF Leads
  <2>2. 1 - 1 = 0
    OBVIOUS
  <2> HIDE DEF c
  <2> QED
    BY <1>1, <1>3, <2>1, <2>2
<1> HIDE DEF c
<1>5. After(After(p, c), c) = After(p, c)
  BY <1>3, AfterAgain DEF c
<1>6. c.op = "update" /\ c.appt.group = NoGroup => c.appt \in Held(After(p, c))
  BY <1>3, <1>4, AfterIs DEF c, Held
<1>7. ASSUME NEW i \in 1..n
      PROVE  /\ G[i] = After(G[i - 1], q[i])
             /\ q[i].op = "update" /\ q[i].appt.group = NoGroup => q[i].appt \in Held(G[i - 1])
  <2>1. CASE i = 1
    <3>1. G[i - 1] = After(p, c) /\ G[i] = After(p, c) /\ q[i] = c
      BY <1>1, <1>2, <1>4, <2>1
    <3> QED
      BY <1>5, <1>6, <3>1
  <2>2. CASE i # 1
    <3>1. i - 1 \in Nat \ {0} /\ i \in Nat \ {0}
      BY <1>1, <2>2
    <3>2. G[i - 1] = F[i - 1] /\ G[i] = F[i]
      BY <1>2, <3>1
    <3> QED
      BY <3>2 DEF Leads
  <2> QED
    BY <2>1, <2>2
<1>8. ASSUME NEW i \in 0..n
      PROVE  IsBook(G[i]) /\ Disjoint(G[i])
  <2>1. i = 0 \/ i \in Nat \ {0}
    BY <1>1
  <2>2. IsBook(F[1]) /\ Disjoint(F[1]) /\ IsBook(F[i]) /\ Disjoint(F[i])
    <3>1. 1 \in 0..n
      BY <1>1
    <3> QED
      BY <3>1 DEF Leads
  <2> QED
    BY <1>2, <1>4, <2>1, <2>2
<1>9. G[n] = E
  BY <1>1, <1>2, <1>3
<1>10. Leads(After(p, c), q, G, E)
  BY <1>2, <1>7, <1>8, <1>9 DEF Leads
<1> QED
  BY <1>10 DEF c

-----------------------------------------------------------------------------
(* The steps, as far as they matter when no request raced another write.   *)

\* Writes to the leader's own tables, past the log.
Local(d, e) ==
    \/ e = d
    \/ \E g \in Group : e = WithoutGroup(d, g)
    \/ \E n \in Note : n.type = "created" /\ e = WithNote(d, n)

\* The handlers that are about to propose, and what.
Proposing(h) == op[h].pc = "propose"

\* Steps that propose nothing and execute nothing.
LocalStep ==
    /\ queue' = queue /\ raced' = raced
    /\ \A h \in Handler : Proposing(h)' => Proposing(h) /\ op'[h].cmd = op[h].cmd
    /\ \A r \in Replica : r # Leader => db'[r] = db[r]
    /\ Local(db[Leader], db'[Leader])

\* The kinds of steps.
LEMMA Steps ==
  ASSUME BaseInv, [Next]_vars
  PROVE  \/ \E h \in Handler : \E c : Checked(db[Leader], c) /\ Accepted(h, c)
         \/ LocalStep
         \/ \E h \in Handler : Propose(h)
         \/ \E r \in Replica : Executes(r)
<1>1. TypeOK /\ Leader \in Replica
  BY AgendaAssumption DEF BaseInv
<1>2. CASE UNCHANGED vars
  BY <1>2 DEF vars, LocalStep, Local, Proposing
<1>3. ASSUME NEW h \in Handler, op' = [op EXCEPT ![h] = Idle] \/ op' = op
      PROVE  \A i \in Handler : Proposing(i)' => Proposing(i) /\ op'[i].cmd = op[i].cmd
  BY <1>1, <1>3, IdleIsOp DEF TypeOK, Proposing
<1>4. ASSUME NEW h \in Handler, NEW u \in User, NEW g \in Group, HandleDeleteGroup(h, u, g)
      PROVE  LocalStep
  <2>1. /\ db' = [db EXCEPT ![Leader] = WithoutGroup(db[Leader], g)]
        /\ queue' = queue /\ raced' = raced /\ op' = op
    BY <1>4 DEF HandleDeleteGroup
  <2>2. db'[Leader] = WithoutGroup(db[Leader], g) /\ \A r \in Replica : r # Leader => db'[r] = db[r]
    BY <1>1, <2>1 DEF TypeOK
  <2> QED
    BY <1>3, <2>1, <2>2 DEF LocalStep, Local
<1>5. ASSUME NEW h \in Handler, ProposeRefused(h) \/ TimeOut(h) \/ Return(h)
      PROVE  LocalStep
  <2>1. op' = [op EXCEPT ![h] = Idle] /\ UNCHANGED <<queue, db, raced>>
    BY <1>5 DEF ProposeRefused, TimeOut, Return
  <2> QED
    BY <1>3, <2>1 DEF LocalStep, Local
<1>6. ASSUME NEW h \in Handler, ReturnPersonal(h)
      PROVE  LocalStep
  <2>1. PICK n \in Note : n.type = "created" /\ db' = [db EXCEPT ![Leader] = WithNote(db[Leader], n)]
    BY <1>6, ReturnPersonalIs
  <2>2. db'[Leader] = WithNote(db[Leader], n) /\ \A r \in Replica : r # Leader => db'[r] = db[r]
    BY <1>1, <2>1 DEF TypeOK
  <2>3. op' = [op EXCEPT ![h] = Idle] /\ UNCHANGED <<queue, raced>>
    BY <1>6 DEF ReturnPersonal
  <2> QED
    BY <1>3, <2>1, <2>2, <2>3 DEF LocalStep, Local
<1>7. ASSUME NEW h \in Handler, Request(h)
      PROVE  LocalStep \/ \E c : Checked(db[Leader], c) /\ Accepted(h, c)
  BY <1>4, <1>7, RequestIs
<1> QED
  BY <1>2, <1>5, <1>6, <1>7 DEF Next, Executes

\* What a step of applyCommitted does to the tables and the queue of r.
LEMMA ExecutesIs ==
  ASSUME BaseInv, NEW r \in Replica, Executes(r)
  PROVE  /\ queue[r] # <<>> /\ op' = op /\ raced' = raced
         /\ \A x \in Replica : x # r => db'[x] = db[x] /\ queue'[x] = queue[x]
         /\ \/ queue'[r] = Tail(queue[r]) /\ db'[r] = Outcome(r).d /\ Outcome(r).err # "fatal"
            \/ /\ queue'[r] = queue[r]
               /\ db'[r] \in {db[r], Outcome(r).d, Interrupted(db[r], Head(queue[r]))}
<1>1. TypeOK
  BY DEF BaseInv
<1>2. CASE ApplyNext(r)
  BY <1>1, <1>2 DEF TypeOK, ApplyNext
<1>3. CASE ApplyFails(r)
  BY <1>1, <1>3 DEF TypeOK, ApplyFails
<1>4. CASE StorageFails(r)
  BY <1>1, <1>4 DEF TypeOK, StorageFails
<1>5. CASE RecordFails(r)
  BY <1>1, <1>5 DEF TypeOK, RecordFails
<1> QED
  BY <1>2, <1>3, <1>4, <1>5 DEF Executes

\* The state after a request that raced no other write.
LEMMA AcceptedIs ==
  ASSUME TypeOK, NEW h \in Handler, NEW c, Accepted(h, c), ~raced'
  PROVE  /\ ~raced /\ queue[Leader] = <<>> /\ queue' = queue /\ db' = db
         /\ \A i \in Handler : ~Proposing(i)
         /\ \A i \in Handler : Proposing(i)' => i = h /\ op'[i].cmd = c
<1>1. /\ ~raced /\ queue[Leader] = <<>> /\ queue' = queue /\ db' = db
      /\ \A i \in Handler : ~Proposing(i)
  BY DEF Accepted, Proposing, TypeOK
<1>2. op' = [op EXCEPT ![h] = [pc |-> "propose", cmd |-> c]]
  BY DEF Accepted
<1> QED
  BY <1>1, <1>2 DEF Proposing, TypeOK

\* What Propose changes.
LEMMA ProposeIs ==
  ASSUME TypeOK, NEW h \in Handler, Propose(h)
  PROVE  /\ Proposing(h) /\ op[h].cmd \in Command /\ db' = db /\ raced' = raced
         /\ \A r \in Replica : queue'[r] = Append(queue[r], op[h].cmd)
         /\ ~Proposing(h)'
         /\ \A i \in Handler : i # h => op'[i] = op[i]
<1>1. Proposing(h) /\ op[h] \in Op /\ db' = db /\ raced' = raced
  BY DEF Propose, TypeOK, Proposing
<1>2. op[h].cmd \in Command
  BY <1>1, OpFields DEF Proposing
<1>3. \A r \in Replica : queue'[r] = Append(queue[r], op[h].cmd)
  BY DEF Propose
<1>4. op' = [op EXCEPT ![h] = [pc |-> "wait", cmd |-> op[h].cmd, idx |-> committed + 1]]
  BY DEF Propose
<1> QED
  BY <1>1, <1>2, <1>3, <1>4 DEF Proposing, TypeOK

\* Nobody is checked while another handler is about to propose.
AtMostOne == \A h, i \in Handler : Proposing(h) /\ Proposing(i) => h = i

\* Every step keeps it so, as long as nothing raced.
LEMMA AtMostOneStep ==
  ASSUME BaseInv, [Next]_vars, ~raced', ~raced => AtMostOne
  PROVE  ~raced /\ AtMostOne'
<1>1. TypeOK
  BY DEF BaseInv
<1>2. ASSUME NEW h \in Handler, NEW c, Accepted(h, c)
      PROVE  ~raced /\ AtMostOne'
  BY <1>1, <1>2, AcceptedIs DEF AtMostOne
<1>3. CASE LocalStep
  BY <1>3 DEF LocalStep, AtMostOne
<1>4. ASSUME NEW h \in Handler, Propose(h)
      PROVE  ~raced /\ AtMostOne'
  <2>1. ~raced /\ \A i \in Handler : Proposing(i)' => Proposing(i)
    BY <1>1, <1>4, ProposeIs DEF Proposing
  <2> QED
    BY <2>1 DEF AtMostOne
<1>5. ASSUME NEW r \in Replica, Executes(r)
      PROVE  ~raced /\ AtMostOne'
  BY <1>5, ExecutesIs DEF AtMostOne, Proposing
<1> QED
  BY <1>2, <1>3, <1>4, <1>5, Steps

\* The personal appointments of every replica are on the way to the same E, and
\* what a handler is about to propose was checked against E.
Booked ==
    \E E : /\ \A r \in Replica : \E F : Leads(Personal(db[r]), queue[r], F, E)
           /\ \A h \in Handler : Proposing(h) => Admits(E, op[h].cmd)

\* Such writes leave personal appointments and answers alone, reopen no
\* invitation and take an appointment only together with its group.
LEMMA LocalKeeps ==
  ASSUME NEW d, Consistent(d), NEW e, Local(d, e)
  PROVE  /\ Personal(e) = Personal(d)
         /\ d.notes \subseteq e.notes
         /\ \A n \in e.notes : n \in d.notes \/ n.type = "created"
         /\ \A a \in Appt, u \in User : e.status[a][u] \in {d.status[a][u], "none"}
         /\ \A a \in Appt : a \in Live(d) /\ a \notin Live(e) => a.group \notin e.groups
         /\ e.groups \subseteq d.groups
<1>1. d \in Tables /\ d.deleted \subseteq d.appts /\ d.appts \subseteq Appt
  BY TableFields DEF Consistent
<1>2. CASE e = d
  BY <1>2
<1>3. ASSUME NEW g \in Group, e = WithoutGroup(d, g)
      PROVE  /\ Personal(e) = Personal(d)
             /\ e.notes = d.notes /\ e.groups = d.groups \ {g}
             /\ \A a \in Appt, u \in User : e.status[a][u] \in {d.status[a][u], "none"}
             /\ \A a \in Appt : a \in Live(d) /\ a \notin Live(e) => a.group = g
  <2>1. Personal(e) = Personal(d)
    BY <1>1, <1>3, WithoutGroupPersonal
  <2>2. /\ e.groups = d.groups \ {g} /\ e.notes = d.notes
        /\ \A b \in Appt : b \in e.appts <=> b \in d.appts /\ b.group # g
        /\ \A b \in Appt : b \in e.deleted <=> b \in d.deleted /\ ~(b \in d.appts /\ b.group = g)
        /\ \A b \in Appt, v \in User :
             e.status[b][v] = IF b \in d.appts /\ b.group = g THEN "none" ELSE d.status[b][v]
    BY <1>1, <1>3, WithoutGroupIs
  <2> QED
    BY <2>1, <2>2 DEF Live
<1>4. ASSUME NEW n \in Note, n.type = "created", e = WithNote(d, n)
      PROVE  /\ Personal(e) = Personal(d) /\ Live(e) = Live(d)
             /\ e.notes = d.notes \cup {n} /\ e.groups = d.groups /\ e.status = d.status
  <2>1. /\ e \in Tables /\ e.groups = d.groups
        /\ e.appts = d.appts /\ e.deleted = d.deleted /\ e.slot = d.slot
        /\ e.status = d.status /\ e.notes = d.notes \cup {n}
    BY <1>1, <1>4, WithNoteIs
  <2> QED
    BY <1>1, <2>1, PersonalKept DEF Live
<1>5. CASE \E g \in Group : e = WithoutGroup(d, g)
  BY <1>3, <1>5
<1>6. CASE \E n \in Note : n.type = "created" /\ e = WithNote(d, n)
  BY <1>4, <1>6
<1> QED
  BY <1>2, <1>5, <1>6 DEF Local

\* Every step keeps all replicas on the way to the same book.
LEMMA BookedStep ==
  ASSUME BaseInv, [Next]_vars, ~raced', ~raced, AtMostOne, Booked
  PROVE  Booked'
<1>1. TypeOK /\ Leader \in Replica
  BY AgendaAssumption DEF BaseInv
<1>2. PICK E : /\ \A r \in Replica : \E F : Leads(Personal(db[r]), queue[r], F, E)
               /\ \A h \in Handler : Proposing(h) => Admits(E, op[h].cmd)
  BY DEF Booked
<1>3. \A r \in Replica : Consistent(db[r]) /\ queue[r] \in Seq(Command)
  BY DEF BaseInv, ReplicaInv
<1>4. ASSUME NEW h \in Handler, NEW c, Checked(db[Leader], c), Accepted(h, c)
      PROVE  Booked'
  <2>1. /\ queue[Leader] = <<>> /\ queue' = queue /\ db' = db
        /\ \A i \in Handler : Proposing(i)' => i = h /\ op'[i].cmd = c
    BY <1>1, <1>4, AcceptedIs
  <2>2. Attended(db[Leader])
    BY <1>1, <2>1 DEF BaseInv, ReplicaInv
  <2>3. Admits(Personal(db[Leader]), c)
    BY <1>1, <1>3, <1>4, <2>2, CheckedAdmits
  <2>4. Personal(db[Leader]) = E
    <3>1. PICK F : Leads(Personal(db[Leader]), <<>>, F, E)
      BY <1>1, <1>2, <2>1
    <3> QED
      BY <3>1 DEF Leads
  <2>5. \A i \in Handler : Proposing(i)' => Admits(E, op'[i].cmd)
    BY <2>1, <2>3, <2>4
  <2>6. \A r \in Replica : \E F : Leads(Personal(db'[r]), queue'[r], F, E)
    BY <1>2, <2>1
  <2> QED
    BY <2>5, <2>6 DEF Booked
<1>5. CASE LocalStep
  <2>1. \A r \in Replica : Personal(db'[r]) = Personal(db[r])
    BY <1>1, <1>3, <1>5, LocalKeeps DEF LocalStep
  <2>2. \A r \in Replica : \E F : Leads(Personal(db'[r]), queue'[r], F, E)
    BY <1>2, <1>5, <2>1 DEF LocalStep
  <2>3. \A i \in Handler : Proposing(i)' => Admits(E, op'[i].cmd)
    BY <1>2, <1>5 DEF LocalStep
  <2> QED
    BY <2>2, <2>3 DEF Booked
<1>6. ASSUME NEW h \in Handler, Propose(h)
      PROVE  Booked'
  <2> DEFINE c == op[h].cmd
  <2>1. /\ Proposing(h) /\ db' = db
        /\ \A r \in Replica : queue'[r] = Append(queue[r], c)
        /\ \A i \in Handler : ~Proposing(i)'
    <3>1. /\ Proposing(h) /\ db' = db
          /\ \A r \in Replica : queue'[r] = Append(queue[r], c)
          /\ ~Proposing(h)'
          /\ \A i \in Handler : i # h => op'[i] = op[i]
      BY <1>1, <1>6, ProposeIs
    <3>2. \A i \in Handler : ~Proposing(i)'
      BY <3>1 DEF AtMostOne, Proposing
    <3> QED
      BY <3>1, <3>2
  <2>2. Sound(c) /\ Admits(E, c)
    BY <1>2, <2>1 DEF BaseInv, Proposing
  <2>3. ASSUME NEW r \in Replica
        PROVE  \E F : Leads(Personal(db'[r]), queue'[r], F, After(E, c))
    <3>1. PICK F : Leads(Personal(db[r]), queue[r], F, E)
      BY <1>2
    <3> QED
      BY <1>3, <2>1, <2>2, <3>1, LeadsAppend
  <2> QED
    BY <2>1, <2>3 DEF Booked
<1>7. ASSUME NEW r \in Replica, Executes(r)
      PROVE  Booked'
  <2> DEFINE q == queue[r]
             c == Head(queue[r])
             p == Personal(db[r])
  <2>1. /\ q # <<>> /\ op' = op
        /\ \A x \in Replica : x # r => db'[x] = db[x] /\ queue'[x] = queue[x]
        /\ \/ queue'[r] = Tail(q) /\ db'[r] = Outcome(r).d
           \/ /\ queue'[r] = q
              /\ db'[r] \in {db[r], Outcome(r).d, Interrupted(db[r], c)}
    BY <1>7, ExecutesIs
  <2>2. Sound(c)
    BY <2>1, HeadSound DEF BaseInv
  <2>3. Personal(Outcome(r).d) = After(p, c)
    BY <1>3, <2>2, ApplyPersonal DEF Outcome
  <2>4. Personal(Interrupted(db[r], c)) \in {p, After(p, c)}
    BY <1>3, <2>2, InterruptedPersonal
  <2>5. PICK F : Leads(p, q, F, E)
    BY <1>2
  <2>6. \E G : Leads(After(p, c), Tail(q), G, E)
    BY <1>3, <2>1, <2>5, LeadsTail
  <2>7. \E G : Leads(After(p, c), q, G, E)
    BY <1>3, <2>1, <2>2, <2>5, LeadsAgain
  <2>8. \E G : Leads(Personal(db'[r]), queue'[r], G, E)
    <3>1. \/ queue'[r] = Tail(q) /\ Personal(db'[r]) = After(p, c)
          \/ queue'[r] = q /\ Personal(db'[r]) \in {p, After(p, c)}
      <4> HIDE DEF c, q
      <4> QED
        BY <2>1, <2>3, <2>4
    <3> HIDE DEF p, c, q
    <3> QED
      BY <2>5, <2>6, <2>7, <3>1
  <2>9. \A x \in Replica : \E G : Leads(Personal(db'[x]), queue'[x], G, E)
    <3> SUFFICES ASSUME NEW x \in Replica PROVE \E G : Leads(Personal(db'[x]), queue'[x], G, E)
      OBVIOUS
    <3>1. CASE x = r
      BY <2>8, <3>1
    <3>2. CASE x # r
      BY <1>2, <2>1, <3>2
    <3> QED
      BY <3>1, <3>2
  <2>10. \A h \in Handler : Proposing(h)' => Admits(E, op'[h].cmd)
    BY <1>2, <2>1 DEF Proposing
  <2> QED
    BY <2>9, <2>10 DEF Booked
<1> QED
  BY <1>4, <1>5, <1>6, <1>7, Steps

-----------------------------------------------------------------------------
(* Answers to invitations when no request raced another write.             *)

\* c is u's answer about a; such an answer is queued; a's owner was told of one.
Asks(c, a, u) == c.op = "invitation" /\ c.appt = a /\ c.user = u
Upcoming(q, a, u) == \E i \in 1..Len(q) : Asks(q[i], a, u)
Noted(d, a, u) == \E n \in d.notes : n.type \in Answers /\ n.appt = a /\ n.by = u

\* A replica meets each answer once; the owner was told of it beforehand only if
\* the command was executed already.
AnsweredOnce(d, q) ==
    /\ \A i, j \in 1..Len(q) :
         i # j /\ q[i].op = "invitation" => ~Asks(q[j], q[i].appt, q[i].user)
    /\ \A i \in 1..Len(q) :
         q[i].op = "invitation" /\ Noted(d, q[i].appt, q[i].user) =>
             i = 1 /\ d.status[q[i].appt][q[i].user] \in {q[i].status, "none"}

\* The leader will not let u answer again.
Settled(d, a, u) == Invite(a, u) \in d.notes /\ d.status[a][u] \notin Open

\* Whoever has answered, or whose answer is on its way anywhere, cannot answer
\* again once the leader has applied everything.
Answered ==
    /\ \A r \in Replica : AnsweredOnce(db[r], queue[r])
    /\ \A r \in Replica, a \in Appt, u \in User :
         Noted(db[r], a, u) \/ Upcoming(queue[r], a, u) =>
             Settled(db[Leader], a, u) \/ Upcoming(queue[Leader], a, u)
    /\ \A a \in Appt, u \in User :
         Upcoming(queue[Leader], a, u) => Invite(a, u) \in db[Leader].notes
    /\ \A h \in Handler, a \in Appt, u \in User :
         Proposing(h) /\ Asks(op[h].cmd, a, u) =>
             /\ Invite(a, u) \in db[Leader].notes
             /\ \A r \in Replica : ~Noted(db[r], a, u) /\ ~Upcoming(queue[r], a, u)

\* After the command the status is the answer, unless there is no participant.
LEMMA AnsweredByApply ==
  ASSUME NEW d, Consistent(d), NEW c, Sound(c), c.op = "invitation", NEW o, o = Apply(d, c)
  PROVE  o.d.status[c.appt][c.user] \in {c.status, "none"}
<1> DEFINE e == SetStatus(d, c.appt, c.user, c.status)
           n == Answer(d, c.appt, c.user, c.status)
<1>1. /\ d \in Tables /\ c.appt \in Appt /\ c.user \in User /\ c.status \in Answers
      /\ o = AnswerInvitation(d, c.appt, c.user, c.status)
  BY CommandFields, ApplyIs DEF Consistent, Sound
<1>2. (d.status[c.appt][c.user] = c.status /\ o.d = d) \/ o.d = e \/ o.d = WithNote(e, n)
  BY <1>1, AnswerInvitationIs
<1>3. e \in Tables /\ e.status[c.appt][c.user] \in {c.status, "none"} /\ n \in Note
  BY <1>1, SetStatusIs, AnswerIsNote
<1> HIDE DEF e, n
<1> QED
  BY <1>2, <1>3, WithNoteIs

\* Executing the first command, as a whole or in part.
LEMMA AnsweredOnceAgain ==
  ASSUME NEW d, NEW q \in Seq(Command), q # <<>>, AnsweredOnce(d, q),
         NEW e, Effect(d, Head(q), e)
  PROVE  AnsweredOnce(e, q) /\ AnsweredOnce(e, Tail(q))
<1> DEFINE c == Head(q)
           s == Tail(q)
<1>1. /\ Len(q) \in Nat /\ Len(q) >= 1 /\ c = q[1] /\ 1 \in 1..Len(q)
      /\ Len(s) = Len(q) - 1
  OBVIOUS
<1>2. \A i \in 1..Len(s) : s[i] = q[i + 1] /\ i + 1 \in 1..Len(q) /\ i + 1 # 1
  OBVIOUS
<1>3. /\ d.notes \subseteq e.notes
      /\ \A n \in e.notes : \/ n \in d.notes
                            \/ n.type \notin Answers
                            \/ c.op = "invitation" /\ n.appt = c.appt /\ n.by = c.user
      /\ c.op = "invitation" => e.status[c.appt][c.user] \in {c.status, "none"} \/ e = d
  BY DEF Effect
<1> HIDE DEF c, s
<1>4. ASSUME NEW i \in 1..Len(q), q[i].op = "invitation", Noted(e, q[i].appt, q[i].user)
      PROVE  i = 1 /\ e.status[q[i].appt][q[i].user] \in {q[i].status, "none"}
  <2>1. CASE i = 1
    BY <1>1, <1>3, <1>4, <2>1 DEF AnsweredOnce
  <2>2. CASE i # 1
    <3>1. PICK n \in e.notes : n.type \in Answers /\ n.appt = q[i].appt /\ n.by = q[i].user
      BY <1>4 DEF Noted
    <3>2. n \notin d.notes
      BY <1>4, <2>2, <3>1 DEF AnsweredOnce, Noted
    <3>3. c.op = "invitation" /\ n.appt = c.appt /\ n.by = c.user
      BY <1>3, <3>1, <3>2
    <3>4. Asks(q[1], q[i].appt, q[i].user)
      BY <1>1, <3>1, <3>3 DEF Asks
    <3> QED
      BY <1>1, <1>4, <2>2, <3>4 DEF AnsweredOnce
  <2> QED
    BY <2>1, <2>2
<1>5. AnsweredOnce(e, q)
  BY <1>4 DEF AnsweredOnce
<1>6. \A i, j \in 1..Len(s) : i # j /\ s[i].op = "invitation" => ~Asks(s[j], s[i].appt, s[i].user)
  <2> SUFFICES ASSUME NEW i \in 1..Len(s), NEW j \in 1..Len(s), i # j, s[i].op = "invitation"
               PROVE  ~Asks(s[j], s[i].appt, s[i].user)
    OBVIOUS
  <2>1. i + 1 # j + 1
    BY <1>1
  <2> QED
    BY <1>2, <2>1 DEF AnsweredOnce
<1>7. ASSUME NEW i \in 1..Len(s), s[i].op = "invitation"
      PROVE  ~Noted(e, s[i].appt, s[i].user)
  BY <1>2, <1>4, <1>7
<1>8. AnsweredOnce(e, s)
  BY <1>6, <1>7 DEF AnsweredOnce
<1> QED
  BY <1>5, <1>8 DEF s

\* A first answer joins the queue.
LEMMA AnsweredOnceAppend ==
  ASSUME NEW d, NEW q \in Seq(Command), AnsweredOnce(d, q), NEW c \in Command,
         c.op = "invitation" => ~Noted(d, c.appt, c.user) /\ ~Upcoming(q, c.appt, c.user)
  PROVE  AnsweredOnce(d, Append(q, c))
<1> DEFINE n == Len(q)
           s == Append(q, c)
<1>1. Len(s) = n + 1 /\ n \in Nat /\ (\A i \in 1..n : s[i] = q[i]) /\ s[n + 1] = c
  BY AppendIs
<1> HIDE DEF s
<1>2. \A i \in 1..Len(s) : i \in 1..n \/ i = n + 1
  BY <1>1
<1>3. ASSUME NEW i \in 1..Len(s), NEW j \in 1..Len(s), i # j, s[i].op = "invitation",
             Asks(s[j], s[i].appt, s[i].user)
      PROVE  FALSE
  <2>1. s[j].op = "invitation" /\ s[j].appt = s[i].appt /\ s[j].user = s[i].user
    BY <1>3 DEF Asks
  <2>2. CASE i \in 1..n /\ j \in 1..n
    BY <1>1, <1>3, <2>2 DEF AnsweredOnce
  <2>3. CASE i = n + 1 /\ j \in 1..n
    BY <1>1, <1>3, <2>3 DEF Upcoming
  <2>4. CASE j = n + 1 /\ i \in 1..n
    BY <1>1, <1>3, <2>1, <2>4 DEF Upcoming, Asks
  <2> QED
    BY <1>2, <1>3, <2>2, <2>3, <2>4
<1>4. ASSUME NEW i \in 1..Len(s), s[i].op = "invitation", Noted(d, s[i].appt, s[i].user)
      PROVE  i = 1 /\ d.status[s[i].appt][s[i].user] \in {s[i].status, "none"}
  <2>1. CASE i \in 1..n
    BY <1>1, <1>4, <2>1 DEF AnsweredOnce
  <2>2. CASE i = n + 1
    BY <1>1, <1>4, <2>2
  <2> QED
    BY <1>2, <2>1, <2>2
<1>5. AnsweredOnce(d, s)
  BY <1>3, <1>4 DEF AnsweredOnce
<1> QED
  BY <1>5 DEF s

\* The answers in a queue with one more command.
LEMMA UpcomingAppend ==
  ASSUME NEW q \in Seq(Command), NEW c \in Command, NEW a, NEW u
  PROVE  Upcoming(Append(q, c), a, u) <=> Upcoming(q, a, u) \/ Asks(c, a, u)
<1> DEFINE n == Len(q)
           s == Append(q, c)
<1>1. Len(s) = n + 1 /\ n \in Nat /\ (\A i \in 1..n : s[i] = q[i]) /\ s[n + 1] = c
  BY AppendIs
<1> HIDE DEF s
<1>2. /\ \A i \in 1..Len(s) : i \in 1..n \/ i = n + 1
      /\ n + 1 \in 1..Len(s) /\ \A i \in 1..n : i \in 1..Len(s)
  BY <1>1
<1>3. Upcoming(s, a, u) <=> Upcoming(q, a, u) \/ Asks(c, a, u)
  BY <1>1, <1>2 DEF Upcoming
<1> QED
  BY <1>3 DEF s

\* The answers in a queue without its first command.
LEMMA UpcomingTail ==
  ASSUME NEW q \in Seq(Command), q # <<>>, NEW a, NEW u
  PROVE  /\ Upcoming(Tail(q), a, u) => Upcoming(q, a, u)
         /\ Upcoming(q, a, u) => Upcoming(Tail(q), a, u) \/ Asks(Head(q), a, u)
         /\ Asks(Head(q), a, u) => Upcoming(q, a, u)
<1> DEFINE s == Tail(q)
<1>1. /\ Len(q) \in Nat /\ Len(q) >= 1 /\ Head(q) = q[1] /\ 1 \in 1..Len(q)
      /\ Len(s) = Len(q) - 1
  OBVIOUS
<1>2. \A i \in 1..Len(s) : s[i] = q[i + 1] /\ i + 1 \in 1..Len(q)
  OBVIOUS
<1> HIDE DEF s
<1>3. Upcoming(s, a, u) => Upcoming(q, a, u)
  BY <1>2 DEF Upcoming
<1>4. ASSUME Upcoming(q, a, u), ~Asks(Head(q), a, u)
      PROVE  Upcoming(s, a, u)
  <2>1. PICK i \in 1..Len(q) : Asks(q[i], a, u)
    BY <1>4 DEF Upcoming
  <2>2. i # 1
    BY <1>1, <1>4, <2>1
  <2>3. i - 1 \in 1..Len(s) /\ (i - 1) + 1 = i
    BY <1>1, <2>2
  <2>4. s[i - 1] = q[i]
    BY <1>2, <2>3
  <2> QED
    BY <2>1, <2>3, <2>4 DEF Upcoming
<1>5. Asks(Head(q), a, u) => Upcoming(q, a, u)
  BY <1>1 DEF Upcoming
<1> QED
  BY <1>3, <1>4, <1>5 DEF s

\* Every step keeps the answers unique.
LEMMA AnsweredStep ==
  ASSUME BaseInv, [Next]_vars, ~raced', ~raced, AtMostOne, Answered
  PROVE  Answered'
<1>1. TypeOK /\ Leader \in Replica
  BY AgendaAssumption DEF BaseInv
<1>2. \A r \in Replica : Consistent(db[r]) /\ queue[r] \in Seq(Command)
  BY DEF BaseInv, ReplicaInv
<1>3. ASSUME NEW h \in Handler, NEW c, Checked(db[Leader], c), Accepted(h, c)
      PROVE  Answered'
  <2>1. /\ queue[Leader] = <<>> /\ queue' = queue /\ db' = db
        /\ \A i \in Handler : Proposing(i)' => i = h /\ op'[i].cmd = c
    BY <1>1, <1>3, AcceptedIs
  <2>2. ASSUME NEW a \in Appt, NEW u \in User, Asks(c, a, u)
        PROVE  /\ Invite(a, u) \in db[Leader].notes
               /\ \A r \in Replica : ~Noted(db[r], a, u) /\ ~Upcoming(queue[r], a, u)
    <3>1. db[Leader].status[a][u] \in Open /\ a.group # NoGroup
      BY <1>3, <2>2, AgendaAssumption DEF Checked, Asks, Sound
    <3>2. Invite(a, u) \in db[Leader].notes
      BY <1>1, <1>2, <3>1 DEF Consistent, Involved, Open
    <3>3. ~Settled(db[Leader], a, u)
      BY <3>1 DEF Settled
    <3>4. ~Upcoming(queue[Leader], a, u)
      BY <2>1 DEF Upcoming
    <3> QED
      BY <3>2, <3>3, <3>4 DEF Answered
  <2>3. \A i \in Handler, a \in Appt, u \in User :
           Proposing(i)' /\ Asks(op'[i].cmd, a, u) =>
             /\ Invite(a, u) \in db'[Leader].notes
             /\ \A r \in Replica : ~Noted(db'[r], a, u) /\ ~Upcoming(queue'[r], a, u)
    BY <2>1, <2>2
  <2> QED
    BY <2>1, <2>3 DEF Answered
<1>4. CASE LocalStep
  <2>1. /\ queue' = queue
        /\ \A i \in Handler : Proposing(i)' => Proposing(i) /\ op'[i].cmd = op[i].cmd
    BY <1>4 DEF LocalStep
  <2>2. ASSUME NEW r \in Replica
        PROVE  /\ db[r].notes \subseteq db'[r].notes
               /\ \A n \in db'[r].notes : n \in db[r].notes \/ n.type = "created"
               /\ \A a \in Appt, u \in User : db'[r].status[a][u] \in {db[r].status[a][u], "none"}
    <3>1. CASE r = Leader
      BY <1>2, <1>4, <3>1, LocalKeeps DEF LocalStep
    <3>2. CASE r # Leader
      BY <1>4, <3>2 DEF LocalStep
    <3> QED
      BY <3>1, <3>2
  <2>3. \A r \in Replica : \A a, u : Noted(db'[r], a, u) <=> Noted(db[r], a, u)
    BY <2>2 DEF Noted, Answers
  <2>4. \A a \in Appt, u \in User : Settled(db[Leader], a, u) => Settled(db'[Leader], a, u)
    BY <1>1, <2>2, SMTT(40) DEF Settled, Open
  <2>5. ASSUME NEW r \in Replica
        PROVE  AnsweredOnce(db'[r], queue[r])
    <3>1. AnsweredOnce(db[r], queue[r]) /\ queue[r] \in Seq(Command)
      BY <1>2 DEF Answered
    <3>2. \A i \in 1..Len(queue[r]) : queue[r][i].op = "invitation" =>
             queue[r][i].appt \in Appt /\ queue[r][i].user \in User
      <4>1. \A i \in 1..Len(queue[r]) : queue[r][i] \in Command
        BY <3>1
      <4> QED
        BY <4>1, CommandFields
    <3>3. ASSUME NEW i \in 1..Len(queue[r]), queue[r][i].op = "invitation",
                 Noted(db'[r], queue[r][i].appt, queue[r][i].user)
          PROVE  /\ i = 1
                 /\ db'[r].status[queue[r][i].appt][queue[r][i].user] \in {queue[r][i].status, "none"}
      <4>1. /\ i = 1
            /\ db[r].status[queue[r][i].appt][queue[r][i].user] \in {queue[r][i].status, "none"}
        BY <2>3, <3>1, <3>3 DEF AnsweredOnce
      <4> QED
        BY <2>2, <3>2, <3>3, <4>1, SMTT(40)
    <3> QED
      BY <3>1, <3>3 DEF AnsweredOnce
  <2>6. \A a \in Appt, u \in User :
          Invite(a, u) \in db[Leader].notes => Invite(a, u) \in db'[Leader].notes
    BY <1>1, <2>2
  <2>7. \A r \in Replica, a \in Appt, u \in User :
          Noted(db'[r], a, u) \/ Upcoming(queue'[r], a, u) =>
             Settled(db'[Leader], a, u) \/ Upcoming(queue'[Leader], a, u)
    BY <2>1, <2>3, <2>4 DEF Answered
  <2>8. \A i \in Handler, a \in Appt, u \in User :
           Proposing(i)' /\ Asks(op'[i].cmd, a, u) =>
             /\ Invite(a, u) \in db'[Leader].notes
             /\ \A r \in Replica : ~Noted(db'[r], a, u) /\ ~Upcoming(queue'[r], a, u)
    BY <2>1, <2>3, <2>6 DEF Answered
  <2> QED
    BY <2>1, <2>5, <2>6, <2>7, <2>8 DEF Answered
<1>5. ASSUME NEW h \in Handler, Propose(h)
      PROVE  Answered'
  <2> DEFINE c == op[h].cmd
  <2>1. /\ Proposing(h) /\ db' = db /\ c \in Command
        /\ \A r \in Replica : queue'[r] = Append(queue[r], c)
        /\ \A i \in Handler : ~Proposing(i)'
    <3>1. /\ Proposing(h) /\ db' = db /\ c \in Command
          /\ \A r \in Replica : queue'[r] = Append(queue[r], c)
          /\ ~Proposing(h)'
          /\ \A i \in Handler : i # h => op'[i] = op[i]
      BY <1>1, <1>5, ProposeIs
    <3>2. \A i \in Handler : ~Proposing(i)'
      BY <3>1 DEF AtMostOne, Proposing
    <3> QED
      BY <3>1, <3>2
  <2>2. ASSUME NEW a \in Appt, NEW u \in User, Asks(c, a, u)
        PROVE  /\ Invite(a, u) \in db[Leader].notes
               /\ \A r \in Replica : ~Noted(db[r], a, u) /\ ~Upcoming(queue[r], a, u)
    BY <2>1, <2>2 DEF Answered
  <2> HIDE DEF c
  <2>3. \A r \in Replica, a \in Appt, u \in User :
           Upcoming(queue'[r], a, u) <=> Upcoming(queue[r], a, u) \/ Asks(c, a, u)
    BY <1>2, <2>1, UpcomingAppend, ZenonT(60)
  <2>4. ASSUME NEW r \in Replica
        PROVE  AnsweredOnce(db'[r], queue'[r])
    <3>1. c.op = "invitation" => ~Noted(db[r], c.appt, c.user) /\ ~Upcoming(queue[r], c.appt, c.user)
      BY <2>1, <2>2, CommandFields DEF Asks
    <3> QED
      BY <1>2, <2>1, <3>1, AnsweredOnceAppend DEF Answered
  <2>5. \A r \in Replica, a \in Appt, u \in User :
          Noted(db'[r], a, u) \/ Upcoming(queue'[r], a, u) =>
             Settled(db'[Leader], a, u) \/ Upcoming(queue'[Leader], a, u)
    BY <1>1, <2>1, <2>3 DEF Answered
  <2>6. \A a \in Appt, u \in User :
          Upcoming(queue'[Leader], a, u) => Invite(a, u) \in db'[Leader].notes
    BY <1>1, <2>1, <2>2, <2>3 DEF Answered
  <2> QED
    BY <2>1, <2>4, <2>5, <2>6 DEF Answered
<1>6. ASSUME NEW r \in Replica, Executes(r)
      PROVE  Answered'
  <2> DEFINE q == queue[r]
             c == Head(queue[r])
             d == db[r]
             e == db'[r]
  <2>1. /\ q # <<>> /\ op' = op
        /\ \A x \in Replica : x # r => db'[x] = db[x] /\ queue'[x] = queue[x]
        /\ \/ queue'[r] = Tail(q) /\ e = Outcome(r).d /\ Outcome(r).err # "fatal"
           \/ queue'[r] = q /\ e \in {d, Outcome(r).d, Interrupted(d, c)}
    BY <1>6, ExecutesIs
  <2>2. Sound(c) /\ q \in Seq(Command) /\ Consistent(d)
    BY <1>2, <2>1, HeadSound DEF BaseInv
  <2>3. Effect(d, c, e)
    <3>1. Effect(d, c, d)
      BY <2>2, SameEffect
    <3>2. Effect(d, c, Outcome(r).d)
      BY <2>2, ApplyEffect DEF Outcome
    <3>3. Effect(d, c, Interrupted(d, c))
      BY <2>2, InterruptedEffect
    <3> QED
      BY <2>1, <3>1, <3>2, <3>3
  <2>4. AnsweredOnce(e, q) /\ AnsweredOnce(e, Tail(q))
    BY <2>1, <2>2, <2>3, AnsweredOnceAgain DEF Answered
  <2>5. \A x \in Replica : AnsweredOnce(db'[x], queue'[x])
    BY <2>1, <2>4 DEF Answered
  <2>6. ASSUME NEW a, NEW u, Noted(e, a, u)
        PROVE  Noted(d, a, u) \/ Upcoming(q, a, u)
    <3>1. PICK n \in e.notes : n.type \in Answers /\ n.appt = a /\ n.by = u
      BY <2>6 DEF Noted
    <3>2. \/ n \in d.notes
          \/ c.op = "invitation" /\ n.appt = c.appt /\ n.by = c.user
      BY <2>3, <3>1 DEF Effect
    <3>3. CASE n \in d.notes
      BY <3>1, <3>3 DEF Noted
    <3>4. CASE c.op = "invitation" /\ n.appt = c.appt /\ n.by = c.user
      <4>1. Asks(c, a, u)
        BY <3>1, <3>4 DEF Asks
      <4> QED
        BY <2>1, <2>2, <4>1, UpcomingTail
    <3> QED
      BY <3>2, <3>3, <3>4
  <2>7. \A a, u : Upcoming(queue'[r], a, u) => Upcoming(q, a, u)
    BY <2>1, <2>2, UpcomingTail
  <2>8. \A x \in Replica, a \in Appt, u \in User :
          Noted(db'[x], a, u) \/ Upcoming(queue'[x], a, u) =>
             Noted(db[x], a, u) \/ Upcoming(queue[x], a, u)
    <3> HIDE DEF c
    <3> QED
      BY <2>1, <2>6, <2>7
  <2>9. \A a \in Appt, u \in User : Upcoming(queue'[Leader], a, u) => Upcoming(queue[Leader], a, u)
    BY <1>1, <2>1, <2>7
  <2>10. \A a, u : Invite(a, u) \in db[Leader].notes => Invite(a, u) \in db'[Leader].notes
    BY <1>1, <2>1, <2>3 DEF Effect
  <2>11. \A a \in Appt, u \in User : Settled(db[Leader], a, u) => Settled(db'[Leader], a, u)
    <3>1. CASE r = Leader
      BY <2>3, <3>1 DEF Effect, Settled
    <3>2. CASE r # Leader
      BY <1>1, <2>1, <3>2
    <3> QED
      BY <3>1, <3>2
  <2>12. ASSUME NEW a \in Appt, NEW u \in User, Upcoming(queue[Leader], a, u),
                ~Upcoming(queue'[Leader], a, u)
         PROVE  Settled(db'[Leader], a, u)
    <3>1. r = Leader
      BY <1>1, <2>1, <2>12
    <3>2. queue'[r] = Tail(q) /\ e = Outcome(r).d
      BY <2>1, <2>12, <3>1
    <3>3. Asks(c, a, u)
      BY <2>1, <2>2, <2>12, <3>1, <3>2, UpcomingTail
    <3>4. e.status[a][u] \in {c.status, "none"} /\ c.status \in Answers
      <4>1. c.op = "invitation" /\ c.appt = a /\ c.user = u /\ c \in Command
        BY <2>2, <3>3 DEF Asks, Sound
      <4>2. Outcome(r).d.status[c.appt][c.user] \in {c.status, "none"}
        BY <2>2, <4>1, AnsweredByApply DEF Outcome
      <4>3. c.status \in Answers
        BY <4>1, CommandFields
      <4> QED
        BY <3>2, <4>1, <4>2, <4>3
    <3>5. Invite(a, u) \in db'[Leader].notes
      BY <2>10, <2>12 DEF Answered
    <3> QED
      BY <3>1, <3>4, <3>5 DEF Settled, Open, Answers
  <2> HIDE DEF q, c, d, e
  <2>13. \A x \in Replica, a \in Appt, u \in User :
           Noted(db'[x], a, u) \/ Upcoming(queue'[x], a, u) =>
             Settled(db'[Leader], a, u) \/ Upcoming(queue'[Leader], a, u)
    BY <2>8, <2>11, <2>12 DEF Answered
  <2>14. \A a \in Appt, u \in User :
          Upcoming(queue'[Leader], a, u) => Invite(a, u) \in db'[Leader].notes
    BY <2>9, <2>10 DEF Answered
  <2>15. \A h \in Handler, a \in Appt, u \in User :
           Proposing(h)' /\ Asks(op'[h].cmd, a, u) =>
             /\ Invite(a, u) \in db'[Leader].notes
             /\ \A x \in Replica : ~Noted(db'[x], a, u) /\ ~Upcoming(queue'[x], a, u)
    BY <2>1, <2>8, <2>10 DEF Answered, Proposing
  <2> QED
    BY <2>5, <2>13, <2>14, <2>15 DEF Answered
<1> QED
  BY <1>3, <1>4, <1>5, <1>6, Steps

-----------------------------------------------------------------------------
(* Updates of a group's appointment on the leader.                         *)

\* The appointment is there, or DeleteGroup has taken its group away.
Target(d, c) ==
    c.op = "update" /\ c.appt.group # NoGroup => c.appt \in Live(d) \/ c.appt.group \notin d.groups

\* Without races the leader has at most one command on its way.
Targeted ==
    /\ Len(queue[Leader]) <= 1
    /\ queue[Leader] # <<>> => Target(db[Leader], Head(queue[Leader]))
    /\ \A h \in Handler : Proposing(h) => queue[Leader] = <<>> /\ Target(db[Leader], op[h].cmd)

\* Executing the update, as a whole or in part, does not remove its target.
LEMMA TargetKept ==
  ASSUME NEW d, Consistent(d), NEW c, Sound(c), Target(d, c),
         NEW e, e \in {d, Apply(d, c).d, Interrupted(d, c)}
  PROVE  Target(e, c)
<1>1. CASE c.op # "update"
  BY <1>1 DEF Target
<1>2. CASE c.op = "update"
  <2>1. d \in Tables /\ c.appt \in Appt /\ c.slot \in Slot
    BY <1>2, CommandFields DEF Consistent, Sound
  <2>2. e = d \/ e = WithSlot(d, c.appt, c.slot)
    <3>1. Interrupted(d, c) = d
      BY <1>2, InterruptedIs
    <3>2. Apply(d, c).d \in {d, WithSlot(d, c.appt, c.slot)}
      BY <1>2, ApplyIs, UpdateAppointmentIs
    <3> QED
      BY <3>1, <3>2
  <2>3. e.groups = d.groups /\ Live(e) = Live(d)
    BY <2>1, <2>2, WithSlotIs DEF Live
  <2> QED
    BY <2>3 DEF Target
<1> QED
  BY <1>1, <1>2

\* Every step keeps the target of the pending update.
LEMMA TargetedStep ==
  ASSUME BaseInv, [Next]_vars, ~raced', ~raced, AtMostOne, Targeted
  PROVE  Targeted'
<1> DEFINE q == queue[Leader]
           d == db[Leader]
<1>1. TypeOK /\ Leader \in Replica /\ Consistent(d) /\ q \in Seq(Command)
  BY AgendaAssumption DEF BaseInv, ReplicaInv
<1>2. ASSUME NEW h \in Handler, NEW c, Checked(d, c), Accepted(h, c)
      PROVE  Targeted'
  <2>1. /\ q = <<>> /\ queue' = queue /\ db' = db
        /\ \A i \in Handler : Proposing(i)' => i = h /\ op'[i].cmd = c
    BY <1>1, <1>2, AcceptedIs
  <2>2. Target(d, c)
    BY <1>2 DEF Checked, Target
  <2>3. \A i \in Handler : Proposing(i)' => queue'[Leader] = <<>> /\ Target(db'[Leader], op'[i].cmd)
    BY <2>1, <2>2
  <2> QED
    BY <2>1, <2>3 DEF Targeted
<1>3. CASE LocalStep
  <2>1. /\ queue' = queue
        /\ \A i \in Handler : Proposing(i)' => Proposing(i) /\ op'[i].cmd = op[i].cmd
    BY <1>3 DEF LocalStep
  <2>2. ASSUME NEW c, Sound(c), Target(d, c)
        PROVE  Target(db'[Leader], c)
    <3>1. /\ \A a \in Appt :
               a \in Live(d) /\ a \notin Live(db'[Leader]) => a.group \notin db'[Leader].groups
          /\ db'[Leader].groups \subseteq d.groups
      BY <1>1, <1>3, LocalKeeps DEF LocalStep
    <3>2. c.op = "update" => c.appt \in Appt
      BY <2>2, CommandFields DEF Sound
    <3> QED
      BY <2>2, <3>1, <3>2 DEF Target
  <2>3. \A i \in Handler : Proposing(i) => Sound(op[i].cmd)
    BY DEF BaseInv, Proposing
  <2>4. q # <<>> => Sound(Head(q))
    BY <1>1, HeadSound DEF BaseInv
  <2>5. \A i \in Handler : Proposing(i)' => queue'[Leader] = <<>> /\ Target(db'[Leader], op'[i].cmd)
    BY <2>1, <2>2, <2>3 DEF Targeted
  <2>6. q # <<>> => Target(db'[Leader], Head(q))
    BY <2>2, <2>4 DEF Targeted
  <2> QED
    BY <2>1, <2>5, <2>6 DEF Targeted
<1>4. ASSUME NEW h \in Handler, Propose(h)
      PROVE  Targeted'
  <2> DEFINE c == op[h].cmd
  <2>1. /\ Proposing(h) /\ db' = db /\ c \in Command
        /\ queue'[Leader] = Append(q, c)
        /\ ~Proposing(h)'
        /\ \A i \in Handler : i # h => op'[i] = op[i]
    BY <1>1, <1>4, ProposeIs
  <2>2. \A i \in Handler : ~Proposing(i)'
    BY <2>1 DEF AtMostOne, Proposing
  <2>3. q = <<>> /\ Target(d, c)
    BY <2>1 DEF Targeted
  <2> HIDE DEF c
  <2>4. queue'[Leader] = <<c>>
    BY <2>1, <2>3
  <2>5. Len(queue'[Leader]) <= 1 /\ Head(queue'[Leader]) = c
    BY <2>4
  <2> QED
    BY <2>1, <2>2, <2>3, <2>5 DEF Targeted
<1>5. ASSUME NEW r \in Replica, Executes(r)
      PROVE  Targeted'
  <2>1. /\ queue[r] # <<>> /\ op' = op
        /\ \A x \in Replica : x # r => db'[x] = db[x] /\ queue'[x] = queue[x]
        /\ \/ queue'[r] = Tail(queue[r]) /\ db'[r] = Outcome(r).d /\ Outcome(r).err # "fatal"
           \/ /\ queue'[r] = queue[r]
              /\ db'[r] \in {db[r], Outcome(r).d, Interrupted(db[r], Head(queue[r]))}
    BY <1>5, ExecutesIs
  <2>2. CASE r # Leader
    <3>1. db'[Leader] = d /\ queue'[Leader] = q
      BY <1>1, <2>1, <2>2
    <3> QED
      BY <2>1, <3>1 DEF Targeted, Proposing
  <2>3. CASE r = Leader
    <3>1. \A h \in Handler : ~Proposing(h)'
      BY <2>1, <2>3 DEF Targeted, Proposing
    <3>2. CASE queue'[r] = Tail(q)
      <4>1. q # <<>> /\ Len(q) <= 1
        BY <2>1, <2>3 DEF Targeted
      <4>2. Tail(q) = <<>>
        BY <1>1, <4>1
      <4> QED
        BY <2>3, <3>1, <3>2, <4>2 DEF Targeted
    <3>3. CASE queue'[r] = q /\ db'[r] \in {d, Outcome(r).d, Interrupted(d, Head(q))}
      <4>1. Sound(Head(q)) /\ Target(d, Head(q))
        BY <1>1, <2>1, <2>3, HeadSound DEF BaseInv, Targeted
      <4>2. Target(db'[Leader], Head(q))
        BY <1>1, <2>3, <3>3, <4>1, TargetKept DEF Outcome
      <4> QED
        BY <2>3, <3>1, <3>3, <4>2 DEF Targeted
    <3> QED
      BY <2>1, <2>3, <3>2, <3>3
  <2> QED
    BY <2>2, <2>3
<1> QED
  BY <1>2, <1>3, <1>4, <1>5, Steps

-----------------------------------------------------------------------------
(* Executions without races.                                               *)

RaceInv == ~raced => AtMostOne /\ Booked /\ Answered /\ Targeted

\* The invariant holds at first.
LEMMA InitRace == Init => RaceInv
<1> SUFFICES ASSUME Init PROVE RaceInv
  OBVIOUS
<1>1. /\ \A h \in Handler : ~Proposing(h)
      /\ \A r \in Replica : queue[r] = <<>> /\ db[r] = NoTables
      /\ Leader \in Replica
  BY AgendaAssumption DEF Init, Idle, Proposing
<1>2. AtMostOne
  BY <1>1 DEF AtMostOne
<1>3. Booked
  <2> DEFINE p == Personal(NoTables)
             F == [i \in Nat |-> p]
  <2>1. IsBook(p) /\ Disjoint(p)
    BY NoTablesIs, PersonalIs DEF Disjoint, Held, Live
  <2>2. F[0] = p
    OBVIOUS
  <2> HIDE DEF p, F
  <2>3. \A r \in Replica : Leads(p, queue[r], F, p)
    BY <1>1, <2>1, <2>2 DEF Leads
  <2>4. \A r \in Replica : Personal(db[r]) = p
    BY <1>1 DEF p
  <2> QED
    BY <1>1, <2>3, <2>4 DEF Booked
<1>4. Answered
  BY <1>1, NoTablesIs DEF Answered, AnsweredOnce, Upcoming, Noted
<1>5. Targeted
  BY <1>1 DEF Targeted
<1> QED
  BY <1>2, <1>3, <1>4, <1>5 DEF RaceInv

\* Every step keeps the invariant.
LEMMA RaceStep == BaseInv /\ RaceInv /\ [Next]_vars => RaceInv'
<1> SUFFICES ASSUME BaseInv, RaceInv, [Next]_vars, ~raced'
             PROVE  (AtMostOne /\ Booked /\ Answered /\ Targeted)'
  BY DEF RaceInv
<1>1. ~raced /\ AtMostOne'
  BY AtMostOneStep DEF RaceInv
<1>2. AtMostOne /\ Booked /\ Answered /\ Targeted
  BY <1>1 DEF RaceInv
<1> QED
  BY <1>1, <1>2, BookedStep, AnsweredStep, TargetedStep

\* Without races, every replica is on the way to the same personal appointments,
\* answers are unique, and an update on the leader has its target or lost its
\* group.
THEOREM RaceInvariant == Spec => []RaceInv
  BY InitRace, RaceStep, AgendaInvariant, PTL DEF Spec

\* As long as no request was checked while another write was on its way, no
\* replica ever holds two personal appointments of one user at the same time.
THEOREM NeverDoubleBooked == Spec => []NoDoubleBooking
<1>1. BaseInv /\ RaceInv => NoDoubleBooking
  <2> SUFFICES ASSUME BaseInv, RaceInv, ~raced, NEW r \in Replica,
                      NEW a \in Live(db[r]), NEW b \in Live(db[r]),
                      a # b, a.owner = b.owner, a.group = NoGroup, b.group = NoGroup
               PROVE  ~Overlap(db[r].slot[a], db[r].slot[b])
    BY DEF NoDoubleBooking
  <2> DEFINE p == Personal(db[r])
  <2>1. db[r] \in Tables /\ queue[r] \in Seq(Command)
    BY DEF BaseInv, ReplicaInv, Consistent
  <2>2. PICK E, F : Leads(p, queue[r], F, E)
    BY DEF RaceInv, Booked
  <2>3. 0 \in 0..Len(queue[r])
    BY <2>1
  <2>4. Disjoint(p)
    BY <2>2, <2>3 DEF Leads
  <2>5. a \in PersonalAppt /\ b \in PersonalAppt
    BY <2>1, TableFields DEF Live, PersonalAppt
  <2>6. a \in Held(p) /\ b \in Held(p) /\ p.slot[a] = db[r].slot[a] /\ p.slot[b] = db[r].slot[b]
    BY <2>1, <2>5, PersonalIs, SMTT(40)
  <2> QED
    BY <2>4, <2>6 DEF Disjoint
<1> QED
  BY <1>1, AgendaInvariant, RaceInvariant, PTL

\* A committed command blocks a replica only if its target is missing.
THEOREM MissingTargetsBlock == Spec => []OnlyMissingTargetsBlock
<1>1. BaseInv /\ RaceInv => OnlyMissingTargetsBlock
  <2> SUFFICES ASSUME BaseInv, RaceInv, NEW r \in Replica, queue[r] # <<>>,
                      Outcome(r).err = "fatal", NEW c, c = Head(queue[r]), NEW d, d = db[r]
               PROVE  \/ /\ c.op = "create_group_appt"
                         /\ \/ c.appt.group \notin d.groups
                            \/ <<c.appt.group, c.appt.owner>> \notin d.members
                      \/ /\ c.op = "update"
                         /\ \/ raced
                            \/ /\ c.appt.group # NoGroup
                               /\ r # Leader \/ c.appt.group \notin d.groups
                      \/ c.op = "group_update" /\ c.group \notin d.groups
                      \/ c.op = "invitation" /\ (raced \/ d.status[c.appt][c.user] = "none")
    BY DEF OnlyMissingTargetsBlock
  <2>1. d \in Tables /\ Sound(c) /\ c \in Command /\ queue[r] \in Seq(Command)
    BY HeadSound DEF BaseInv, ReplicaInv, Consistent, Sound
  <2>2. \/ /\ c.op = "create_group_appt"
           /\ c.appt.group \notin d.groups \/ <<c.appt.group, c.appt.owner>> \notin d.members
        \/ c.op = "update" /\ c.appt \notin Live(d)
        \/ c.op = "group_update" /\ c.group \notin d.groups
        \/ /\ c.op = "invitation" /\ d.status[c.appt][c.user] # c.status /\ c.appt \in Live(d)
           /\ Answer(d, c.appt, c.user, c.status) \in d.notes
    BY <2>1, FatalReasons DEF Outcome
  <2>3. Len(queue[r]) \in Nat /\ 1 \in 1..Len(queue[r]) /\ c = queue[r][1]
    BY <2>1
  <2>4. ASSUME ~raced, c.op = "update", c.appt \notin Live(d), c.appt.group = NoGroup
        PROVE  FALSE
    <3>1. PICK E, F : Leads(Personal(d), queue[r], F, E)
      BY <2>4 DEF RaceInv, Booked
    <3>2. c.appt \in Held(F[1 - 1])
      BY <2>3, <2>4, <3>1 DEF Leads
    <3>3. F[1 - 1] = Personal(d)
      BY <3>1 DEF Leads
    <3>4. Held(Personal(d)) = Live(d) \cap PersonalAppt
      BY <2>1, PersonalIs
    <3> QED
      BY <2>4, <3>2, <3>3, <3>4
  <2>5. ASSUME ~raced, c.op = "update", c.appt \notin Live(d), c.appt.group # NoGroup, r = Leader
        PROVE  c.appt.group \notin d.groups
    BY <2>5 DEF RaceInv, Targeted, Target
  <2>6. ASSUME ~raced, c.op = "invitation", d.status[c.appt][c.user] # c.status,
               Answer(d, c.appt, c.user, c.status) \in d.notes
        PROVE  d.status[c.appt][c.user] = "none"
    <3>1. c.appt \in Appt /\ c.user \in User /\ c.status \in Answers
      BY <2>1, <2>6, CommandFields
    <3>2. Noted(d, c.appt, c.user)
      BY <2>1, <2>6, <3>1, AnswerIsNote DEF Noted
    <3>3. AnsweredOnce(d, queue[r])
      BY <2>6 DEF RaceInv, Answered
    <3>4. d.status[c.appt][c.user] \in {c.status, "none"}
      BY <2>3, <2>6, <3>2, <3>3 DEF AnsweredOnce
    <3> QED
      BY <2>6, <3>4
  <2> QED
    BY <2>2, <2>4, <2>5, <2>6
<1> QED
  BY <1>1, AgendaInvariant, RaceInvariant, PTL
=============================================================================
