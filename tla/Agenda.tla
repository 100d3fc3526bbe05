------------------------------- MODULE Agenda -------------------------------
(***************************************************************************)
(* The state machine behind the log: groups, members, appointments,        *)
(* participants and notifications (raft_apply.go, storage.go), and the     *)
(* request handlers of the leader that check a request against its own     *)
(* tables, propose a command and wait for it (http_handlers_scaffold.go,   *)
(* services.go, domain_propose.go).                                        *)
(*                                                                         *)
(* Within one leadership every replica applies the committed commands in   *)
(* order; what it has applied is in its tables, what it has not is queued. *)
(* Identifiers are hashes of what the code calls a signature, so a group   *)
(* is identified with its type, creator and first name, and an appointment *)
(* with its owner, group and first times.  Every appointment has the same  *)
(* title; descriptions and privacy are left out, and so is the events      *)
(* table, which only the reconcilers read.                                 *)
(***************************************************************************)
EXTENDS Naturals, Sequences, FiniteSets

CONSTANTS
    Replica, Leader,
    Handler,        \* request handlers running on the leader
    User,           \* registered users
    Group,          \* group identifiers
    Flat,           \* the groups of type non_hierarchical
    Creator,        \* the creator of a group, part of its signature
    NoGroup,        \* GroupID = nil
    NoAppt,         \* the empty appointment identifier
    Slot,           \* times <<start, end>> clients ask for
    Rank,           \* ranks clients ask for
    OwnerRank,      \* 5 in the applier
    MaxCommands,    \* bound on the commands
    MaxFaults       \* bound on database errors and on requests that stop waiting

ASSUME AgendaAssumption ==
    /\ Leader \in Replica
    /\ Flat \subseteq Group
    /\ Creator \in [Group -> User]
    /\ NoGroup \notin Group
    /\ NoAppt \notin [owner : User, group : Group \cup {NoGroup}, slot : Slot]
    /\ Slot \subseteq Nat \X Nat
    /\ Rank \subseteq Nat /\ OwnerRank \in Nat
    /\ MaxCommands \in Nat /\ MaxFaults \in Nat

VARIABLES
    committed,  \* number of committed commands
    queue,      \* the committed commands that a replica has not applied
    db,         \* the domain tables of every replica
    failed,     \* applyErr # nil: the first command in the queue has failed
    op,         \* the local variables of a request handler
    raced,      \* history: a request was checked while another write was on its way
    errors,     \* number of database errors
    timeouts    \* number of requests that stopped waiting

vars == <<committed, queue, db, failed, op, raced, errors, timeouts>>

\* AppointmentIDFromSignature, GroupIDFromSignature: see above.
Appt == [owner : User, group : Group \cup {NoGroup}, slot : Slot]
Ranks == Rank \cup {0, OwnerRank}
Status == {"pending", "accepted", "declined", "auto"}
Note == [type : {"invite", "accepted", "declined", "created"}, user : User,
         appt : Appt \cup {NoAppt}, by : User, slot : Slot]

\* groups, members, appts and deleted are sets of rows; rank, slot and status
\* hold their columns.
Tables == [groups : SUBSET Group, renamed : SUBSET Group,
           members : SUBSET (Group \X User), rank : [Group -> [User -> Ranks]],
           appts : SUBSET Appt, deleted : SUBSET Appt, slot : [Appt -> Slot],
           status : [Appt -> [User -> Status \cup {"none"}]],
           notes : SUBSET Note]
NoTables == [groups |-> {}, renamed |-> {},
             members |-> {}, rank |-> [g \in Group |-> [u \in User |-> 0]],
             appts |-> {}, deleted |-> {}, slot |-> [a \in Appt |-> a.slot],
             status |-> [a \in Appt |-> [u \in User |-> "none"]],
             notes |-> {}]

\* What the BuildEntry functions put into the log.
ApptCommand ==
    [op : {"create_personal", "create_group_appt", "delete"}, appt : Appt]
    \cup [op : {"update"}, appt : Appt, slot : Slot]
GroupCommand ==
    [op : {"group_create", "group_update"}, group : Group]
    \cup [op : {"member_add", "member_update"}, group : Group, user : User, rank : Ranks]
    \cup [op : {"member_remove"}, group : Group, user : User]
InvitationCommand ==
    [op : {"invitation"}, appt : Appt, user : User, status : {"accepted", "declined"}]
Command == ApptCommand \cup GroupCommand \cup InvitationCommand

-----------------------------------------------------------------------------
(* Queries of storage.go.                                                  *)

\* GetAppointmentByID: rows that are not deleted.
Live(d) == d.appts \ d.deleted
Members(d, g) == {u \in User : <<g, u>> \in d.members}

Overlap(s, t) == ~(s[2] <= t[1] \/ s[1] >= t[2])

\* Mutant of Conflicts: only appointments at the very same time.
ConflictsSameTime(d, u, s) ==
    {a \in Live(d) : d.status[a][u] \in {"accepted", "auto"} /\ d.slot[a] = s}

\* HasConflict, HasConflictExcluding: what u attends at that time.
Conflicts(d, u, s) ==
    {a \in Live(d) : d.status[a][u] \in {"accepted", "auto"} /\ Overlap(d.slot[a], s)}

\* FindAppointmentBySignature, over the present times of the rows.
Matching(d, a) ==
    {b \in Live(d) : b.owner = a.owner /\ b.group = a.group /\ d.slot[b] = a.slot}

-----------------------------------------------------------------------------
(* The applier.  A command leaves tables and an error: none, one that      *)
(* isIgnorableApplyError accepts, or one that stops applyCommitted.        *)

Ok(d) == [d |-> d, err |-> "none"]

\* Mutant of Ignorable: isIgnorableApplyError accepts nothing.
IgnorableNever(d) == [d |-> d, err |-> "fatal"]

Ignorable(d) == [d |-> d, err |-> "ignorable"]
Fatal(d) == [d |-> d, err |-> "fatal"]

\* Storage.CreateAppointment, in a table that does not have the row.
InsertAppt(d, a) == [d EXCEPT !.appts = @ \cup {a}, !.slot[a] = a.slot]

\* Mutant of CreatePersonal: an appointment that is there is not looked at again.
CreatePersonalOnce(d, a) ==
    IF Matching(d, a) # {} THEN Ok(d)
    ELSE IF a \in d.appts THEN Ignorable(d)
    ELSE Ok([InsertAppt(d, a) EXCEPT !.status[a][a.owner] = "accepted"])

\* A matching appointment (the code takes the newest; there are several only
\* if all have their owner) gets its owner as participant if he is missing;
\* otherwise the row is inserted.  Its identifier may belong to a deleted or
\* rescheduled appointment: UNIQUE constraint failed.
CreatePersonal(d, a) ==
    IF Matching(d, a) # {}
    THEN LET b == CHOOSE b \in Matching(d, a) : TRUE
         IN  IF d.status[b][a.owner] # "none" THEN Ok(d)
             ELSE Ok([d EXCEPT !.status[b][a.owner] = "accepted"])
    ELSE IF a \in d.appts THEN Ignorable(d)
    ELSE Ok([InsertAppt(d, a) EXCEPT !.status[a][a.owner] = "accepted"])

\* The status a member of the group starts with.
InvitationStatus(d, a, u) ==
    IF a.group \in Flat
    THEN IF u = a.owner THEN "auto" ELSE "pending"
    ELSE IF d.rank[a.group][u] > d.rank[a.group][a.owner] THEN "pending" ELSE "auto"

Invite(a, u) == [type |-> "invite", user |-> u, appt |-> a, by |-> a.owner, slot |-> a.slot]

\* Storage.CreateGroupAppointment is a transaction: every error undoes it.
CreateGroupAppointment(d, a) ==
    LET invited == Members(d, a.group)
        outsider == a.group \notin Flat /\ invited # {} /\ a.owner \notin invited
    IN  IF Matching(d, a) # {} THEN Ok(d)
        ELSE IF a \in d.appts THEN Ignorable(d)
        ELSE IF a.group \notin d.groups \/ outsider THEN Fatal(d)
        ELSE IF \E u \in invited : Invite(a, u) \in d.notes THEN Ignorable(d)
        ELSE Ok([InsertAppt(d, a) EXCEPT
                   !.status[a] = [u \in User |->
                                    IF u \in invited THEN InvitationStatus(d, a, u) ELSE @[u]],
                   !.notes = @ \cup {Invite(a, u) : u \in invited}])

UpdateAppointment(d, a, s) ==
    IF a \in Live(d) THEN Ok([d EXCEPT !.slot[a] = s]) ELSE Fatal(d)

\* DeleteAppointment marks the row.
DeleteAppointment(d, a) == Ok([d EXCEPT !.deleted = @ \cup ({a} \cap d.appts)])

InsertMember(d, g, u, r) == [d EXCEPT !.members = @ \cup {<<g, u>>}, !.rank[g][u] = r]

GroupOwnerRank(g) == IF g \in Flat THEN 0 ELSE OwnerRank

\* Storage.CreateGroup.
InsertGroup(d, g) == [d EXCEPT !.groups = @ \cup {g}]

CreateGroup(d, g) ==
    IF g \in d.groups THEN Ok(d)
    ELSE Ok(InsertMember(InsertGroup(d, g), g, Creator[g], GroupOwnerRank(g)))

UpdateGroup(d, g) ==
    IF g \in d.groups THEN Ok([d EXCEPT !.renamed = @ \cup {g}]) ELSE Fatal(d)

\* AddGroupMember: INSERT OR REPLACE, whether or not the group is there.
AddGroupMember(d, g, u, r) == Ok(InsertMember(d, g, u, r))

UpdateGroupMember(d, g, u, r) ==
    IF <<g, u>> \in d.members THEN Ok([d EXCEPT !.rank[g][u] = r]) ELSE Ok(d)

\* Mutant of RemoveGroupMember: the invitations stay.
RemoveGroupMemberOnly(d, g, u) ==
    Ok([d EXCEPT !.members = @ \ {<<g, u>>}, !.rank[g][u] = 0])

\* RemoveGroupMember also takes the member out of the group's appointments.
\* A missing member is no error.
RemoveGroupMember(d, g, u) ==
    IF <<g, u>> \notin d.members THEN Ok(d)
    ELSE Ok([d EXCEPT !.members = @ \ {<<g, u>>}, !.rank[g][u] = 0,
                      !.status = [a \in Appt |-> IF a.group = g THEN [@[a] EXCEPT ![u] = "none"]
                                                  ELSE @[a]]])

Answer(d, a, u, st) ==
    [type |-> st, user |-> a.owner, appt |-> a, by |-> u, slot |-> d.slot[a]]

\* UpdateParticipantStatus.
SetStatus(d, a, u, st) ==
    IF d.status[a][u] = "none" THEN d ELSE [d EXCEPT !.status[a][u] = st]

\* Mutant of AnswerInvitation: the owner is not told.
AnswerSilently(d, a, u, st) == Ok(SetStatus(d, a, u, st))

\* Mutant of AnswerInvitation: the present status is not looked at.
AnswerAgain(d, a, u, st) ==
    IF a \notin Live(d) THEN Ok(SetStatus(d, a, u, st))
    ELSE IF Answer(d, a, u, st) \in d.notes THEN Fatal(SetStatus(d, a, u, st))
    ELSE Ok([SetStatus(d, a, u, st) EXCEPT !.notes = @ \cup {Answer(d, a, u, st)}])

\* OpInvitationAccept, OpInvitationReject.  The status is written before the
\* notification, whose error is not one of the ignorable ones.
AnswerInvitation(d, a, u, st) ==
    IF d.status[a][u] = st THEN Ok(d)
    ELSE LET e == SetStatus(d, a, u, st)
         IN  IF a \notin Live(d) THEN Ok(e)
             ELSE IF Answer(d, a, u, st) \in d.notes THEN Fatal(e)
             ELSE Ok([e EXCEPT !.notes = @ \cup {Answer(d, a, u, st)}])

\* NewRaftApplier.
Apply(d, c) ==
    CASE c.op = "create_personal" -> CreatePersonal(d, c.appt)
      [] c.op = "create_group_appt" -> CreateGroupAppointment(d, c.appt)
      [] c.op = "update" -> UpdateAppointment(d, c.appt, c.slot)
      [] c.op = "delete" -> DeleteAppointment(d, c.appt)
      [] c.op = "group_create" -> CreateGroup(d, c.group)
      [] c.op = "group_update" -> UpdateGroup(d, c.group)
      [] c.op = "member_add" -> AddGroupMember(d, c.group, c.user, c.rank)
      [] c.op = "member_update" -> UpdateGroupMember(d, c.group, c.user, c.rank)
      [] c.op = "member_remove" -> RemoveGroupMember(d, c.group, c.user)
      [] c.op = "invitation" -> AnswerInvitation(d, c.appt, c.user, c.status)

\* The tables after the first of the statements of a command that has several
\* outside a transaction, if the next one reports an error.
Interrupted(d, c) ==
    CASE c.op = "create_personal" /\ Matching(d, c.appt) = {} /\ c.appt \notin d.appts ->
            InsertAppt(d, c.appt)
      [] c.op = "group_create" -> InsertGroup(d, c.group)
      [] c.op = "invitation" /\ c.appt \in Live(d) -> SetStatus(d, c.appt, c.user, c.status)
      [] OTHER -> d

-----------------------------------------------------------------------------
Op == {[pc |-> "idle"]}
      \cup [pc : {"propose"}, cmd : Command]
      \cup [pc : {"wait"}, cmd : Command, idx : 1..MaxCommands]
Idle == [pc |-> "idle"]

\* Every variable has its type; an apply error belongs to a command in the queue.
TypeOK ==
    /\ committed \in 0..MaxCommands
    /\ queue \in [Replica -> Seq(Command)]
    /\ db \in [Replica -> Tables]
    /\ failed \in [Replica -> BOOLEAN]
    /\ \A r \in Replica : Len(queue[r]) <= committed /\ (failed[r] => queue[r] # <<>>)
    /\ op \in [Handler -> Op]
    /\ raced \in BOOLEAN
    /\ errors \in 0..MaxFaults /\ timeouts \in 0..MaxFaults

\* A cluster that has just been set up: migrate() leaves empty tables.
Init ==
    /\ committed = 0
    /\ queue = [r \in Replica |-> <<>>]
    /\ db = [r \in Replica |-> NoTables]
    /\ failed = [r \in Replica |-> FALSE]
    /\ op = [h \in Handler |-> Idle]
    /\ raced = FALSE /\ errors = 0 /\ timeouts = 0

-----------------------------------------------------------------------------
(* The handlers of the leader: the check.                                  *)

\* The request passed: the handler goes on to propose c.  Whether another
\* write is checked and not applied yet is remembered.
Accepted(h, c) ==
    /\ op[h].pc = "idle"
    /\ op' = [op EXCEPT ![h] = [pc |-> "propose", cmd |-> c]]
    /\ raced' = (raced \/ queue[Leader] # <<>> \/ \E i \in Handler : op[i].pc = "propose")
    /\ UNCHANGED <<committed, queue, db, failed, errors, timeouts>>

\* handleCreateAppointment, CreatePersonalAppointment.
HandleCreatePersonal(h, u, s) ==
    /\ s[1] <= s[2]
    /\ Conflicts(db[Leader], u, s) = {}
    /\ Accepted(h, [op |-> "create_personal", appt |-> [owner |-> u, group |-> NoGroup, slot |-> s]])

\* CreateGroupAppointment of the service looks at the times only.
HandleCreateGroupAppointment(h, u, g, s) ==
    /\ s[1] <= s[2]
    /\ Accepted(h, [op |-> "create_group_appt", appt |-> [owner |-> u, group |-> g, slot |-> s]])

HandleUpdateAppointment(h, u, a, s) ==
    /\ a \in Live(db[Leader]) /\ a.owner = u
    /\ s[1] <= s[2]
    /\ Conflicts(db[Leader], u, s) \subseteq {a}
    /\ Accepted(h, [op |-> "update", appt |-> a, slot |-> s])

HandleDeleteAppointment(h, u, a) ==
    /\ a \in Live(db[Leader]) /\ a.owner = u
    /\ Accepted(h, [op |-> "delete", appt |-> a])

HandleCreateGroup(h, g) == Accepted(h, [op |-> "group_create", group |-> g])

HandleUpdateGroup(h, u, g) ==
    /\ g \in db[Leader].groups /\ Creator[g] = u
    /\ Accepted(h, [op |-> "group_update", group |-> g])

HandleAddMember(h, actor, g, u, r) ==
    /\ <<g, u>> \notin db[Leader].members
    /\ g \in db[Leader].groups
    /\ g \in Flat => Creator[g] = actor
    /\ g \notin Flat => <<g, actor>> \in db[Leader].members /\ r < db[Leader].rank[g][actor]
    /\ Accepted(h, [op |-> "member_add", group |-> g, user |-> u,
                    rank |-> IF g \in Flat THEN 0 ELSE r])

\* Only who ranks higher may change or remove a member.
Outranks(d, g, actor, u) ==
    {<<g, actor>>, <<g, u>>} \subseteq d.members /\ d.rank[g][actor] > d.rank[g][u]

HandleUpdateMember(h, actor, g, u, r) ==
    /\ Outranks(db[Leader], g, actor, u)
    /\ Accepted(h, [op |-> "member_update", group |-> g, user |-> u, rank |-> r])

HandleRemoveMember(h, actor, g, u) ==
    /\ Outranks(db[Leader], g, actor, u)
    /\ Accepted(h, [op |-> "member_remove", group |-> g, user |-> u])

\* handleAcceptInvitation, handleRejectInvitation.
HandleInvitation(h, u, a, st) ==
    /\ db[Leader].status[a][u] \in {"pending", "auto"}
    /\ Accepted(h, [op |-> "invitation", appt |-> a, user |-> u, status |-> st])

\* handleDeleteGroup proposes nothing: groupService.DeleteGroup writes to the
\* tables of the leader.
WithoutGroup(d, g) ==
    LET gone == {a \in d.appts : a.group = g}
    IN  [d EXCEPT !.groups = @ \ {g}, !.renamed = @ \ {g},
                  !.members = {m \in @ : m[1] # g},
                  !.rank[g] = [u \in User |-> 0],
                  !.appts = @ \ gone, !.deleted = @ \ gone,
                  !.slot = [a \in Appt |-> IF a \in gone THEN a.slot ELSE @[a]],
                  !.status = [a \in Appt |-> IF a \in gone THEN [u \in User |-> "none"] ELSE @[a]]]

HandleDeleteGroup(h, u, g) ==
    /\ op[h].pc = "idle"
    /\ g \in db[Leader].groups /\ Creator[g] = u
    /\ db' = [db EXCEPT ![Leader] = WithoutGroup(@, g)]
    /\ UNCHANGED <<committed, queue, failed, op, raced, errors, timeouts>>

-----------------------------------------------------------------------------
(* The handlers: Propose and what follows it.                              *)

\* lastApplied of a replica.
Applied(r) == committed - Len(queue[r])

\* Replication.tla is about how the entry becomes a committed one.
Propose(h) ==
    /\ op[h].pc = "propose"
    /\ ~failed[Leader]
    /\ committed < MaxCommands
    /\ committed' = committed + 1
    /\ queue' = [r \in Replica |-> Append(queue[r], op[h].cmd)]
    /\ op' = [op EXCEPT ![h] = [pc |-> "wait", cmd |-> op[h].cmd, idx |-> committed + 1]]
    /\ UNCHANGED <<db, failed, raced, errors, timeouts>>

Waits(h) == op[h].pc = "wait" /\ Applied(Leader) < op[h].idx

\* The leader has an apply error: at the start of Propose, or while it waits.
ProposeRefused(h) ==
    /\ failed[Leader]
    /\ op[h].pc = "propose" \/ Waits(h)
    /\ op' = [op EXCEPT ![h] = Idle]
    /\ UNCHANGED <<committed, queue, db, failed, raced, errors, timeouts>>

\* waitForApplied gives up; the entry stays in the log.
TimeOut(h) ==
    /\ Waits(h)
    /\ errors + timeouts < MaxFaults
    /\ timeouts' = timeouts + 1
    /\ op' = [op EXCEPT ![h] = Idle]
    /\ UNCHANGED <<committed, queue, db, failed, raced, errors>>

Return(h) ==
    /\ op[h].pc = "wait" /\ ~Waits(h)
    /\ op[h].cmd.op # "create_personal"
    /\ op' = [op EXCEPT ![h] = Idle]
    /\ UNCHANGED <<committed, queue, db, failed, raced, errors, timeouts>>

\* CreatePersonalAppointment looks the new appointment up by its times and
\* writes a notification, on the leader only.
ReturnPersonal(h) ==
    /\ op[h].pc = "wait" /\ ~Waits(h)
    /\ op[h].cmd.op = "create_personal"
    /\ LET d == db[Leader]
           new == op[h].cmd.appt
           found == {a \in Live(d) : d.status[a][new.owner] # "none" /\ d.slot[a] = new.slot}
       IN \E a \in IF found = {} THEN {NoAppt} ELSE found :
            db' = [db EXCEPT ![Leader].notes = @ \cup
                    {[type |-> "created", user |-> new.owner, appt |-> a, by |-> new.owner,
                      slot |-> new.slot]}]
    /\ op' = [op EXCEPT ![h] = Idle]
    /\ UNCHANGED <<committed, queue, failed, raced, errors, timeouts>>

-----------------------------------------------------------------------------
(* Applying: one command is one step; Apply.tla has those of applyCommitted. *)

Outcome(r) == Apply(db[r], Head(queue[r]))

\* Mutant of ApplyNext: the error of an earlier try is not cleared.
ApplyNextKeepError(r) ==
    /\ queue[r] # <<>>
    /\ Outcome(r).err # "fatal"
    /\ db' = [db EXCEPT ![r] = Outcome(r).d]
    /\ queue' = [queue EXCEPT ![r] = Tail(@)]
    /\ UNCHANGED <<committed, failed, op, raced, errors, timeouts>>

ApplyNext(r) ==
    /\ queue[r] # <<>>
    /\ Outcome(r).err # "fatal"
    /\ db' = [db EXCEPT ![r] = Outcome(r).d]
    /\ queue' = [queue EXCEPT ![r] = Tail(@)]
    /\ failed' = [failed EXCEPT ![r] = FALSE]
    /\ UNCHANGED <<committed, op, raced, errors, timeouts>>

\* The error of the command stops applyCommitted; the next tick tries again.
ApplyFails(r) ==
    /\ queue[r] # <<>>
    /\ Outcome(r).err = "fatal"
    /\ db' = [db EXCEPT ![r] = Outcome(r).d]
    /\ failed' = [failed EXCEPT ![r] = TRUE]
    /\ UNCHANGED <<committed, queue, op, raced, errors, timeouts>>

\* A write of the command, the first or a later one, reports an error of the
\* database, such as "table is locked".
StorageFails(r) ==
    /\ queue[r] # <<>>
    /\ errors + timeouts < MaxFaults
    /\ errors' = errors + 1
    /\ \E d \in {db[r], Interrupted(db[r], Head(queue[r]))} : db' = [db EXCEPT ![r] = d]
    /\ failed' = [failed EXCEPT ![r] = TRUE]
    /\ UNCHANGED <<committed, queue, op, raced, timeouts>>

\* RecordAppliedEvent fails: the next run executes the command again, and no
\* apply error is remembered.
RecordFails(r) ==
    /\ queue[r] # <<>>
    /\ Outcome(r).err # "fatal"
    /\ errors + timeouts < MaxFaults
    /\ errors' = errors + 1
    /\ db' = [db EXCEPT ![r] = Outcome(r).d]
    /\ UNCHANGED <<committed, queue, failed, op, raced, timeouts>>

-----------------------------------------------------------------------------
Request(h) ==
    \/ \E u \in User, s \in Slot :
        \/ HandleCreatePersonal(h, u, s)
        \/ \E g \in Group : HandleCreateGroupAppointment(h, u, g, s)
        \/ \E a \in Appt : HandleUpdateAppointment(h, u, a, s)
    \/ \E u \in User, a \in Appt :
        \/ HandleDeleteAppointment(h, u, a)
        \/ \E st \in {"accepted", "declined"} : HandleInvitation(h, u, a, st)
    \/ \E g \in Group : HandleCreateGroup(h, g)
    \/ \E u \in User, g \in Group : HandleUpdateGroup(h, u, g) \/ HandleDeleteGroup(h, u, g)
    \/ \E actor, u \in User, g \in Group :
        \/ \E r \in Rank : HandleAddMember(h, actor, g, u, r) \/ HandleUpdateMember(h, actor, g, u, r)
        \/ HandleRemoveMember(h, actor, g, u)

Next ==
    \/ \E h \in Handler :
        \/ Request(h)
        \/ Propose(h)
        \/ ProposeRefused(h)
        \/ TimeOut(h)
        \/ Return(h)
        \/ ReturnPersonal(h)
    \/ \E r \in Replica : ApplyNext(r) \/ ApplyFails(r) \/ StorageFails(r) \/ RecordFails(r)

Spec == Init /\ [][Next]_vars

-----------------------------------------------------------------------------
\* Whoever is invited to an appointment of a group is a member of the group:
\* removing a member takes the invitations along, although invitations are
\* made from the members at the time and answered independently.
ParticipantsAreMembers ==
    \A r \in Replica : \A a \in Appt, u \in User :
        db[r].status[a][u] # "none" /\ a.group # NoGroup => <<a.group, u>> \in db[r].members

\* A personal appointment has its owner as participant, so that it shows in
\* his agenda and counts in HasConflict, also when the applier is interrupted
\* between the two inserts and the command is tried again.
OwnerAttends ==
    \A r \in Replica : ~failed[r] =>
        \A a \in db[r].appts : a.group = NoGroup => db[r].status[a][a.owner] = "accepted"

\* As long as no request was checked while another write was on its way, a
\* user has no two personal appointments at the same time.
NoDoubleBooking ==
    ~raced => \A r \in Replica : \A a, b \in Live(db[r]) :
        a # b /\ a.owner = b.owner /\ a.group = NoGroup /\ b.group = NoGroup =>
            ~Overlap(db[r].slot[a], db[r].slot[b])

\* Every answer to an invitation of an appointment that still exists has been
\* reported to its owner.  (An error between the two statements loses the
\* report: the command finds its status in place when it is tried again.)
AnswersReachOwner ==
    errors = 0 => \A r \in Replica : \A a \in Live(db[r]), u \in User :
        a.group # NoGroup /\ db[r].status[a][u] \in {"accepted", "declined"} =>
            \E n \in db[r].notes : n.type = db[r].status[a][u] /\ n.appt = a /\ n.by = u

\* After RecordAppliedEvent has failed, the next run of applyCommitted executes the
\* command once more, before any other; that neither changes the tables nor fails.
\* The answer of somebody who is no participant any more is the exception: its
\* second execution fails on the notification.  Nothing is said of a second
\* goroutine, which may execute the command between the statements of the first
\* or after later commands.
RepeatChangesNothing ==
    \A r \in Replica : queue[r] # <<>> =>
        LET c == Head(queue[r])
            once == Apply(db[r], c)
        IN  \/ once.err = "fatal"
            \/ c.op = "invitation" /\ db[r].status[c.appt][c.user] = "none"
            \/ Apply(once.d, c).err # "fatal" /\ Apply(once.d, c).d = once.d

\* What may block the log: consensus.go says conflicts "should not poison the log.
\* We validate inputs pre-Propose for normal paths".  A committed command that
\* fails each time it is tried is a group appointment for a group that is not
\* there or whose owner is no member (nothing is validated), an update whose
\* target another write has taken away since the check, or the answer of
\* somebody removed from the group.  On a follower an update of a group's
\* appointment may also lack its target because DeleteGroup ran on the leader
\* only.  Nothing else blocks, whatever was deleted, interrupted, repeated or
\* asked for twice.
OnlyMissingTargetsBlock ==
    \A r \in Replica : queue[r] # <<>> /\ Outcome(r).err = "fatal" =>
        LET c == Head(queue[r])
            d == db[r]
        IN  \/ /\ c.op = "create_group_appt"
               /\ c.appt.group \notin d.groups \/ <<c.appt.group, c.appt.owner>> \notin d.members
            \/ /\ c.op = "update"
               /\ \/ raced
                  \/ c.appt.group # NoGroup /\ (r # Leader \/ c.appt.group \notin d.groups)
            \/ c.op = "group_update" /\ c.group \notin d.groups
            \/ c.op = "invitation" /\ (raced \/ d.status[c.appt][c.user] = "none")
=============================================================================
