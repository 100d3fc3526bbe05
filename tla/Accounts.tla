------------------------------ MODULE Accounts ------------------------------
(***************************************************************************)
(* User accounts: the handlers that register a user and change a profile   *)
(* or a password (http_handlers_scaffold.go), the commands they propose    *)
(* (raft_apply.go, storage.go), the audit records of registrations and the *)
(* reconciler of the leader that reads those of its peers and proposes     *)
(* repairs (reconciler_users.go).                                          *)
(*                                                                         *)
(* The log is the agreed sequence of Replication.tla; a replica that has   *)
(* not applied all of it has the rest in its queue.  A replica that is not *)
(* the leader, and knows of none, handles a request by itself and writes   *)
(* to its own tables only.  Users are rows under an identifier, which is   *)
(* the hash of their first name.  Display names are left out: EnsureUser   *)
(* and the reconciler compare them as they do emails.  bcrypt salts: every *)
(* request leads to a hash of its own, here the number of the request.     *)
(***************************************************************************)
EXTENDS Naturals, Sequences, FiniteSets, FiniteSetsExt

CONSTANTS
    Replica, Handler,
    Name, Email, Id,
    IdOf,           \* UserIDFromUsername
    NoUser, NoReplica,
    AuditLimit,     \* records a peer returns at most, 100 in the code
    MaxRequests,    \* bound on the requests
    MaxLocal,       \* bound on the requests handled without a leader
    MaxElections,   \* bound on the changes of leader
    MaxTime         \* bound on the clock, in seconds

ASSUME AccountsAssumption ==
    /\ IdOf \in [Name -> Id]
    /\ NoReplica \notin Replica
    /\ AuditLimit \in Nat \ {0}
    /\ {MaxRequests, MaxLocal, MaxElections, MaxTime} \subseteq Nat

VARIABLES
    leader,     \* the replica with role leader
    users,      \* the users table of every replica
    known,      \* history: the rows it has had
    queue,      \* committed commands a replica has not applied
    committed,  \* number of committed commands
    failed,     \* applyErr # nil
    op,         \* the local variables of a request handler
    audit,      \* the audit records of registrations, in the order of insertion
    since,      \* the reconciler's cursor of every peer
    scan,       \* the local variables of its loop
    requests,   \* number of requests, and the latest password hash
    locals,     \* requests handled without a leader
    elections,
    now,        \* the clock, in seconds, as the audit records show it
    raced,      \* history: a request was handled while another write was on its way
    refused     \* history: a proposal of a reconciler failed or got lost

vars == <<leader, users, known, queue, committed, failed, op, audit, since, scan,
          requests, locals, elections, now, raced, refused>>

Row == [name : Name, email : Email, hash : Nat]
ASSUME UserAssumption == NoUser \notin Row

Table == [Id -> Row \cup {NoUser}]
Command ==
    [op : {"create", "ensure"}, row : Row]
    \cup [op : {"profile"}, id : Id, name : Name, email : Email]
    \cup [op : {"password"}, id : Id, hash : Nat]
Record == [row : Row, ts : Nat]

-----------------------------------------------------------------------------
(* Storage and applier.                                                    *)

\* GetUserByUsername, GetUserByEmail.
ByName(d, n) == {i \in Id : d[i] # NoUser /\ d[i].name = n}
ByEmail(d, e) == {i \in Id : d[i] # NoUser /\ d[i].email = e}

\* UNIQUE constraint failed, for an INSERT and for the UPDATE of row i.
InsertConflicts(d, row) ==
    d[IdOf[row.name]] # NoUser \/ ByName(d, row.name) # {} \/ ByEmail(d, row.email) # {}
UpdateConflicts(d, i, n, e) == ~(ByName(d, n) \cup ByEmail(d, e) \subseteq {i})

\* CreateUser, UpdateUser, UpdatePassword.
CreateUser(d, row) == [d EXCEPT ![IdOf[row.name]] = row]
UpdateUser(d, i, n, e) == [d EXCEPT ![i].name = n, ![i].email = e]
UpdatePassword(d, i, h) == [d EXCEPT ![i].hash = h]

Ok(d) == [d |-> d, err |-> "none"]
Ignorable(d) == [d |-> d, err |-> "ignorable"]
Fatal(d) == [d |-> d, err |-> "fatal"]

\* Mutant of ApplyCreate: a taken email is reported like any other error.
ApplyCreateStrict(d, row) ==
    IF ByName(d, row.name) # {} THEN Ok(d)
    ELSE IF InsertConflicts(d, row) THEN Fatal(d)
    ELSE Ok(CreateUser(d, row))

\* A user of that name is there: success.  The email or the identifier is
\* taken: "apply conflict", or a UNIQUE error of a user.create.
ApplyCreate(d, row) ==
    IF ByName(d, row.name) # {} THEN Ok(d)
    ELSE IF InsertConflicts(d, row) THEN Ignorable(d)
    ELSE Ok(CreateUser(d, row))

\* GetUserByID fails if there is no such user.
ApplyProfile(d, i, n, e) ==
    IF d[i] = NoUser THEN Fatal(d)
    ELSE IF UpdateConflicts(d, i, n, e) THEN Ignorable(d)
    ELSE Ok(UpdateUser(d, i, n, e))

\* An UPDATE of no row is no error.
ApplyPassword(d, i, h) == Ok(IF d[i] = NoUser THEN d ELSE UpdatePassword(d, i, h))

\* Mutant of EnsureUser: the row of the audit record replaces the user's.
EnsureUserReplace(d, row) ==
    IF ByName(d, row.name) # {}
    THEN Ok([d EXCEPT ![CHOOSE i \in ByName(d, row.name) : TRUE] = row])
    ELSE IF InsertConflicts(d, row) THEN Fatal(d)
    ELSE Ok(CreateUser(d, row))

\* Only the very same user is accepted.  None of its errors is ignorable, not
\* even the UNIQUE error of an identifier that another name holds.
EnsureUser(d, row) ==
    IF \E i \in Id : d[i] = row THEN Ok(d)
    ELSE IF InsertConflicts(d, row) THEN Fatal(d)
    ELSE Ok(CreateUser(d, row))

Apply(d, c) ==
    CASE c.op = "create" -> ApplyCreate(d, c.row)
      [] c.op = "profile" -> ApplyProfile(d, c.id, c.name, c.email)
      [] c.op = "password" -> ApplyPassword(d, c.id, c.hash)
      [] c.op = "ensure" -> EnsureUser(d, c.row)

\* The history of replica r keeps what its table holds after the step.
Remember(r) == known' = [known EXCEPT ![r] = @ \cup {users'[r][i] : i \in Id}]

Outcome(r) == Apply(users[r], Head(queue[r]))
Applied(r) == committed - Len(queue[r])

ApplyNext(r) ==
    /\ queue[r] # <<>> /\ Outcome(r).err # "fatal"
    /\ users' = [users EXCEPT ![r] = Outcome(r).d]
    /\ Remember(r)
    /\ queue' = [queue EXCEPT ![r] = Tail(@)]
    /\ failed' = [failed EXCEPT ![r] = FALSE]
    /\ UNCHANGED <<leader, committed, op, audit, since, scan, requests, locals,
                   elections, now, raced, refused>>

ApplyFails(r) ==
    /\ queue[r] # <<>> /\ ~failed[r] /\ Outcome(r).err = "fatal"
    /\ failed' = [failed EXCEPT ![r] = TRUE]
    /\ UNCHANGED <<leader, users, known, queue, committed, op, audit, since, scan,
                   requests, locals, elections, now, raced, refused>>

\* Propose on replica r up to the commit of the entry.
MayPropose(r) == leader = r /\ ~failed[r]

Commit(c) ==
    /\ committed' = committed + 1
    /\ queue' = [r \in Replica |-> Append(queue[r], c)]

-----------------------------------------------------------------------------
(* The handlers.                                                           *)

Idle == [pc |-> "idle"]

\* The request has passed the checks of its handler on replica r, which is the
\* leader or has nobody to pass it on to.
Accepted(h, r, c) ==
    /\ op[h].pc = "idle" /\ requests < MaxRequests
    /\ r = leader \/ locals < MaxLocal
    /\ op' = [op EXCEPT ![h] = [pc |-> "checked", at |-> r, cmd |-> c]]
    /\ requests' = requests + 1
    /\ raced' = (raced \/ queue[r] # <<>> \/ \E g \in Handler : op[g] # Idle)
    /\ UNCHANGED <<leader, users, known, queue, committed, failed, audit, since, scan,
                   locals, elections, now, refused>>

\* Mutant of HandleRegister: only the name is looked up.
HandleRegisterAnyEmail(h, r, n, e) ==
    /\ ByName(users[r], n) = {}
    /\ Accepted(h, r, [op |-> "create", row |-> [name |-> n, email |-> e, hash |-> requests + 1]])

HandleRegister(h, r, n, e) ==
    /\ ByName(users[r], n) = {} /\ ByEmail(users[r], e) = {}
    /\ Accepted(h, r, [op |-> "create", row |-> [name |-> n, email |-> e, hash |-> requests + 1]])

HandleUpdateProfile(h, r, i, n, e) ==
    /\ users[r][i] # NoUser
    /\ n # users[r][i].name => ByName(users[r], n) = {}
    /\ e # users[r][i].email => ByEmail(users[r], e) = {}
    /\ Accepted(h, r, [op |-> "profile", id |-> i, name |-> n, email |-> e])

HandleUpdatePassword(h, r, i) ==
    /\ users[r][i] # NoUser
    /\ Accepted(h, r, [op |-> "password", id |-> i, hash |-> requests + 1])

\* The replica leads: the handler proposes the command and waits.
Propose(h) ==
    /\ op[h].pc = "checked" /\ MayPropose(op[h].at)
    /\ Commit(op[h].cmd)
    /\ op' = [op EXCEPT ![h] = [pc |-> "wait", at |-> @.at, cmd |-> @.cmd, idx |-> committed + 1]]
    /\ UNCHANGED <<leader, users, known, failed, audit, since, scan, requests, locals,
                   elections, now, raced, refused>>

\* Propose reports an error: 500.  The leadership has ended since the handler
\* looked, or there is an apply error; a waiting one gives up for these reasons or
\* after a while.
ProposeFails(h) ==
    /\ op[h].pc = "wait" \/ (op[h].pc = "checked" /\ ~MayPropose(op[h].at))
    /\ op' = [op EXCEPT ![h] = Idle]
    /\ UNCHANGED <<leader, users, known, queue, committed, failed, audit, since, scan,
                   requests, locals, elections, now, raced, refused>>

\* The command is applied.  A registration looks its user up by name and is
\* answered with it: 201.
Return(h) ==
    LET r == op[h].at
        c == op[h].cmd
        found == ByName(users[r], c.row.name)
    IN  /\ op[h].pc = "wait" /\ leader = r /\ Applied(r) >= op[h].idx
        /\ op' = [op EXCEPT ![h] =
                    IF c.op # "create" THEN Idle
                    ELSE [pc |-> "created", at |-> r, asked |-> c.row,
                          row |-> IF found = {} THEN c.row
                                  ELSE users[r][CHOOSE i \in found : TRUE]]]
        /\ UNCHANGED <<leader, users, known, queue, committed, failed, audit, since, scan,
                       requests, locals, elections, now, raced, refused>>

\* The replica does not lead: the handler writes to its own tables.
Fallback(h) ==
    LET r == op[h].at
        c == op[h].cmd
    IN  /\ op[h].pc = "checked" /\ leader # r
        /\ locals < MaxLocal
        /\ locals' = locals + 1
        /\ \/ /\ c.op = "create" /\ ~InsertConflicts(users[r], c.row)
              /\ users' = [users EXCEPT ![r] = CreateUser(@, c.row)]
              /\ op' = [op EXCEPT ![h] = [pc |-> "created", at |-> r, asked |-> c.row, row |-> c.row]]
           \/ /\ c.op = "create" /\ InsertConflicts(users[r], c.row)
              /\ op' = [op EXCEPT ![h] = Idle]
              /\ UNCHANGED users
           \/ /\ c.op = "profile"
              /\ users' = [users EXCEPT ![r] =
                    IF UpdateConflicts(@, c.id, c.name, c.email) THEN @
                    ELSE UpdateUser(@, c.id, c.name, c.email)]
              /\ op' = [op EXCEPT ![h] = Idle]
           \/ /\ c.op = "password"
              /\ users' = [users EXCEPT ![r] = UpdatePassword(@, c.id, c.hash)]
              /\ op' = [op EXCEPT ![h] = Idle]
        /\ Remember(r)
        /\ UNCHANGED <<leader, queue, committed, failed, audit, since, scan, requests,
                       elections, now, raced, refused>>

\* recordAudit, after the answer is written, stamps its record.  The clock may have
\* moved on.
RecordAudit(h) ==
    /\ op[h].pc = "created"
    /\ now' \in now..MaxTime
    /\ op' = [op EXCEPT ![h] = [pc |-> "stamped", at |-> @.at, row |-> @.row, ts |-> now']]
    /\ UNCHANGED <<leader, users, known, queue, committed, failed, audit, since, scan,
                   requests, locals, elections, raced, refused>>

\* It inserts the record later; another handler may have stamped and inserted one
\* meanwhile.
AppendAudit(h) ==
    /\ op[h].pc = "stamped"
    /\ audit' = [audit EXCEPT ![op[h].at] = Append(@, [row |-> op[h].row, ts |-> op[h].ts])]
    /\ op' = [op EXCEPT ![h] = Idle]
    /\ UNCHANGED <<leader, users, known, queue, committed, failed, since, scan, requests,
                   locals, elections, now, raced, refused>>

-----------------------------------------------------------------------------
(* The reconciler of a replica.                                            *)

NoScan == [peer |-> NoReplica]

\* The possible answers of /cluster/local-audit/users: the newest records since t,
\* newest first.  Each is one of the newest of those that are left; the second does
\* not decide between records of the same one.
ListAuditLogs(p, t) ==
    LET new == {k \in 1..Len(audit[p]) : audit[p][k].ts >= t}
        n == Min({Cardinality(new), AuditLimit})
        rest(f, i) == new \ {f[j] : j \in 1..(i - 1)}
        newestFirst ==
            {f \in [1..n -> new] : \A i \in 1..n :
                /\ f[i] \in rest(f, i)
                /\ \A k \in rest(f, i) : audit[p][k].ts <= audit[p][f[i]].ts}
    IN  {[i \in 1..n |-> audit[p][f[i]]] : f \in newestFirst}

\* The leader reads the records of a peer.  A failed request changes nothing,
\* nor does an empty answer.
FetchAudit(r, p) ==
    /\ leader = r /\ p # r /\ scan[r] = NoScan
    /\ \E logs \in ListAuditLogs(p, since[r][p]) \ {<<>>} :
          scan' = [scan EXCEPT ![r] = [peer |-> p, logs |-> logs, idx |-> 0, max |-> logs[1].ts]]
    /\ UNCHANGED <<leader, users, known, queue, committed, failed, op, audit, since,
                   requests, locals, elections, now, raced, refused>>

\* The user is there as recorded.
SkipRecord(r) ==
    /\ scan[r] # NoScan /\ scan[r].idx = 0 /\ scan[r].logs # <<>>
    /\ \E i \in Id : users[r][i] = Head(scan[r].logs).row
    /\ scan' = [scan EXCEPT ![r].logs = Tail(@)]
    /\ UNCHANGED <<leader, users, known, queue, committed, failed, op, audit, since,
                   requests, locals, elections, now, raced, refused>>

\* It is not, or it is different: propose a repair and wait for it.  The proposal
\* fails, or it takes the same index as one made at the same time - by a handler or
\* by one of the other reconcilers - and loses its row to it.
ProposeRepair(r) ==
    /\ scan[r] # NoScan /\ scan[r].idx = 0 /\ scan[r].logs # <<>>
    /\ \A i \in Id : users[r][i] # Head(scan[r].logs).row
    /\ \/ /\ MayPropose(r)
          /\ Commit([op |-> "ensure", row |-> Head(scan[r].logs).row])
          /\ scan' = [scan EXCEPT ![r].idx = committed + 1]
          /\ raced' = (raced \/ \E h \in Handler : op[h] # Idle)
          /\ UNCHANGED refused
       \/ /\ scan' = [scan EXCEPT ![r].logs = Tail(@)]
          /\ refused' = TRUE
          /\ UNCHANGED <<committed, queue, raced>>
    /\ UNCHANGED <<leader, users, known, failed, op, audit, since, requests, locals,
                   elections, now>>

\* Propose returns, with an error if the leadership ended or applying failed.
RepairReturns(r) ==
    LET bad == leader # r \/ (failed[r] /\ Applied(r) < scan[r].idx)
    IN  /\ scan[r] # NoScan /\ scan[r].idx > 0
        /\ bad \/ Applied(r) >= scan[r].idx
        /\ scan' = [scan EXCEPT ![r].idx = 0, ![r].logs = Tail(@)]
        /\ refused' = (refused \/ bad)
        /\ UNCHANGED <<leader, users, known, queue, committed, failed, op, audit, since,
                       requests, locals, elections, now, raced>>

\* Mutant of EndScan: the next scan starts after the second of the newest record.
EndScanAfter(r) ==
    /\ scan[r] # NoScan /\ scan[r].logs = <<>>
    /\ since' = [since EXCEPT ![r][scan[r].peer] = scan[r].max + 1]
    /\ scan' = [scan EXCEPT ![r] = NoScan]
    /\ UNCHANGED <<leader, users, known, queue, committed, failed, op, audit, requests,
                   locals, elections, now, raced, refused>>

\* The cursor moves to the newest record, whatever became of the repairs.
EndScan(r) ==
    /\ scan[r] # NoScan /\ scan[r].logs = <<>>
    /\ since' = [since EXCEPT ![r][scan[r].peer] = scan[r].max]
    /\ scan' = [scan EXCEPT ![r] = NoScan]
    /\ UNCHANGED <<leader, users, known, queue, committed, failed, op, audit, requests,
                   locals, elections, now, raced, refused>>

-----------------------------------------------------------------------------
(* Environment: Election.tla is about how leaders come and go.             *)

ChangeLeader(r) ==
    /\ leader # r /\ elections < MaxElections
    /\ leader' = r
    /\ elections' = elections + 1
    /\ UNCHANGED <<users, known, queue, committed, failed, op, audit, since, scan,
                   requests, locals, now, raced, refused>>

\* One user has registered, on a replica that led then; all have applied it.
Init ==
    \E first \in Replica, n \in Name, e \in Email :
        LET row == [name |-> n, email |-> e, hash |-> 0]
        IN  /\ leader \in Replica
            /\ users = [r \in Replica |-> [i \in Id |-> IF i = IdOf[n] THEN row ELSE NoUser]]
            /\ known = [r \in Replica |-> {row, NoUser}]
            /\ queue = [r \in Replica |-> <<>>]
            /\ committed = 0
            /\ failed = [r \in Replica |-> FALSE]
            /\ op = [h \in Handler |-> Idle]
            /\ audit = [r \in Replica |-> IF r = first THEN <<[row |-> row, ts |-> 0]>> ELSE <<>>]
            /\ since = [r \in Replica |-> [p \in Replica |-> 0]]
            /\ scan = [r \in Replica |-> NoScan]
            /\ requests = 0 /\ locals = 0 /\ elections = 0 /\ now = 0
            /\ raced = FALSE /\ refused = FALSE

Handle(h) ==
    \E r \in Replica :
        \/ \E n \in Name, e \in Email :
            \/ HandleRegister(h, r, n, e)
            \/ \E i \in Id : HandleUpdateProfile(h, r, i, n, e)
        \/ \E i \in Id : HandleUpdatePassword(h, r, i)
Finish(h) == Propose(h) \/ ProposeFails(h) \/ Return(h) \/ Fallback(h)
             \/ RecordAudit(h) \/ AppendAudit(h)
Reconcile(r) ==
    \/ \E p \in Replica : FetchAudit(r, p)
    \/ SkipRecord(r) \/ ProposeRepair(r) \/ RepairReturns(r) \/ EndScan(r)

Next ==
    \/ \E h \in Handler : Handle(h) \/ Finish(h)
    \/ \E r \in Replica : ApplyNext(r) \/ ApplyFails(r) \/ Reconcile(r)
    \/ \E r \in Replica : ChangeLeader(r)

Spec == Init /\ [][Next]_vars

-----------------------------------------------------------------------------
(* Properties.                                                             *)

\* Applying a command fails for good, and with it every write of the cluster,
\* only through repairs of users who have changed since they registered or
\* whose name, email or identifier somebody else has, and through a new
\* profile of a user who was registered on another replica only.  No mix of
\* requests blocks the log by itself.  (The comments of EnsureUser say that when
\* only the identifier is somebody else's, a new row with another identifier is
\* inserted and both users coexist.  But CreateUser computes the same identifier
\* from the name, so the INSERT fails and such a repair blocks the log as well.)
BlockedByRepairsOnly ==
    \A r \in Replica : queue[r] # <<>> /\ Outcome(r).err = "fatal" =>
        LET c == Head(queue[r])
        IN  \/ c.op = "ensure" /\ InsertConflicts(users[r], c.row)
            \/ c.op = "profile" /\ locals > 0 /\ users[r][c.id] = NoUser

\* A registration that was checked while nothing else was on its way and is
\* answered 201 has created the account it asked for - unless the identifier
\* of the name belongs to a user who has another name now.
RegistrationCreates ==
    [][\A h \in Handler :
          (op[h].pc # "created" /\ op'[h].pc = "created" /\ ~raced) =>
              LET d == users'[op[h].at]
                  row == op'[h].asked
              IN  \/ d[IdOf[row.name]] = row
                  \/ d[IdOf[row.name]] # NoUser /\ d[IdOf[row.name]].name # row.name]_vars

\* A repair never changes the account of an existing user: an old audit record
\* does not bring back an old password, email or name.
RepairsOnlyAdd ==
    [][\A r \in Replica :
          (queue[r] # <<>> /\ Head(queue[r]).op = "ensure" /\ queue'[r] # queue[r]) =>
              \A i \in Id : users[r][i] # NoUser => users'[r][i] = users[r][i]]_vars

\* Record k of p was inserted after none with a later stamp.
InOrder(p, k) == \A j \in 1..k : audit[p][j].ts <= audit[p][k].ts

\* While no proposal of a reconciler has failed or got lost and the records of a
\* replica fit into one answer, the cursor only passes records of accounts the
\* reconciler's replica has, or has had before they changed, although handlers
\* insert records while a scan is going on.  The exception are records that were
\* stamped before and inserted after another one: the cursor may have passed their
\* second by then, and nobody ever reads them.  (A registration that lost a race is
\* answered with, and recorded as, the account that won it.)
CursorPassesKnownUsers ==
    ~refused => \A r, p \in Replica : Len(audit[p]) <= AuditLimit =>
        \A k \in 1..Len(audit[p]) :
            (audit[p][k].ts < since[r][p] /\ InOrder(p, k)) => audit[p][k].row \in known[r]

=============================================================================
