# Agenda Distribuida: TLA+ models, TLC runs and TLAPS proofs

Agenda Distribuida is a calendar service that runs as a cluster of replicas, each
with its own SQLite database. A home-grown Raft (`consensus.go`) elects a leader,
replicates a log of domain commands and applies them on every replica. This
directory holds the specifications of that machinery, the configurations that
model-check them and machine-checked proofs about them.

## 1. The system

| Component | State | Operations | Hard behaviour |
|---|---|---|---|
| Leader election (`consensus.go`, `raft_http.go`) | term, VotedFor, role, failure counters | election timer, pre-vote round, vote round, `HandleRequestVote`, heartbeat round, demotions | concurrent candidates, lost and late answers, 3 s rounds against a 5 s HTTP timeout, restarts |
| Log replication (`consensus.go`) | `raft_log`, commitIndex, nextIdx, matchIdx | `Propose`, `replicateAndCommit`, per-peer goroutines, `HandleAppendEntries`, `recalculateCommitIndex`, `waitForApplied` | concurrent `Propose`, goroutines that outlive their broadcast, truncation, followers that restart |
| Applying entries (`consensus.go`, `storage.go`) | lastApplied, applyErr, `raft_applied` | `applyCommitted`, `HasAppliedEvent`, `RecordAppliedEvent`, `isIgnorableApplyError` | the loop goroutine and every request handler run it at the same time; errors in the middle |
| Peer store, health poller, discovery (`peers.go`, `heartbeat.go`, `discovery.go`, `cluster_http.go`) | peer map with addresses, leader pointer, `cluster_nodes` | `SetSnapshot`, `UpsertPeer`, `SetLeader`, the sync, DNS, Docker and seed loops, polling `/raft/health`, join, leave, ageing of `last_seen` | majorities over a changing set; second-hand rows written late; one replica under several identifiers |
| Write routing (`raft_http.go`) | none of its own | `LeaderWriteMiddleware`, proxying | stale leader pointers |
| State machine (`raft_apply.go`, `domain_propose.go`, `services.go`, domain tables of `storage.go`) | users, groups, members, appointments, participants, notifications, events | one command per `Op...` constant | idempotency, commands whose target is gone, checks made before `Propose` |
| User accounts (`http_handlers_scaffold.go`, `raft_apply.go`, `storage.go`) | `users`, audit records of registrations | register, update profile, update password | unique columns checked before `Propose`; the same identifier for a name that was given up |
| Reconcilers (`reconciler_*.go`) | one cursor per peer and feed | pull events or audit records of the peers, propose repairs | writes between fetch and end of a round, rounds cut short, old records proposed again, cursor moves past failures |
| WebSocket manager (`websocket.go`) | table of connections, a bounded channel per connection | `Run`, `ServeWS`, `BroadcastToUser`, both pumps, `Stop` | slow clients, disconnection from three sides, closed channels |
| Legacy handlers, authentication, audit, logging, web client, scripts | | | not protocol state |

The loop goroutine of a replica (`loop`) runs elections, heartbeats and
`applyCommitted`; HTTP handlers call `HandleRequestVote`, `HandleAppendEntries`
and, through the services, `Propose`; `Propose` starts a goroutine per peer. All
of them share `ConsensusImpl` under `c.mu`, and the SQLite tables without it. The
peer store is shared with discovery and the health poller. A replica that is not
the leader and cannot find one writes to its own tables; the leader's five
reconcilers fetch such writes from the peers and put them into the log.

What makes each part correct: a voter supports one candidate per term, a term
never goes back, somebody leads and rivals step down; the logs of the followers
are prefixes of the leader's log, what is applied is what was committed, and what
is acknowledged is applied; every committed command is executed once and in order
on every replica; a repaired error does not block writes; the tables stay consistent
(participants are members, nobody is booked twice, deleted is deleted) and a command
that has passed the checks before `Propose` can be executed, and once more when that
could not be recorded; a registration creates the account it asked for; a repair
changes nobody's account and its cursor passes nothing that was not looked at;
second-hand news never makes a host look alive, and nobody counts himself as a peer;
no goroutine of a connection panics, waits for ever or drops a message silently. Not
all of this holds without exception: the properties name the exceptions, and section 4
says where they come from.

## 2. Modules

| Module | Models |
|---|---|
| `Election.tla` | terms, votes, roles, leader pointer, rounds, heartbeats, health poller, membership changes, restarts |
| `Replication.tla` | one leadership: `Propose`, broadcasts, followers' logs, commit rule, heartbeats, follower restarts |
| `ReplicatedLog.tla` | abstract: one growing sequence of commands of which every replica has executed a prefix |
| `Apply.tla` | several goroutines inside `applyCommitted` on one replica |
| `Agenda.tla` | the state machine (groups, members, appointments, participants, notifications) and the request handlers of the leader |
| `Accounts.tla` | users: handlers on the leader and without one, commands, audit records, the user reconciler, leader changes |
| `Reconciler.tla` | the four event reconcilers, the writes of replicas without a leader that they carry over, restarts and leader changes |
| `Membership.tla` | `cluster_nodes`, its sources, ageing, addresses, the peer store |
| `WebSocket.tla` | the connection manager and its goroutines |
| `ElectionProofs.tla`, `ReplicationProofs.tla`, `ApplyProofs.tla`, `AgendaProofs.tla`, `AccountsProofs.tla`, `ReconcilerProofs.tla`, `MembershipProofs.tla`, `WebSocketProofs.tla` | theorems about the module they are named after |
| `MC*.tla` | instances for TLC: identifier maps, symmetry sets, times, sample items |

`Replication` instantiates `ReplicatedLog`. The modules above the log (`Agenda`,
`Accounts`, `Reconciler`) rely on what that refinement establishes: a queue of
commands in one order on every replica, from which each applies in order.

A definition whose comment says "Mutant of X" is a variant of `X` with a plausible
mistake in it. They are not used by the specifications; `PROJECT.json`
lists which property detects which.

### Election

State: `currentTerm`, `votedFor`, `role`, `heartbeatFailures`, `failedElections`
are the fields of `ConsensusImpl` of every replica; `leader` and `peers` are its
`EnvPeerStore`. `round` holds the local variables of the counting loop that the
loop goroutine is in (`votes`, `reachablePeers`, `len(peers)`, results waiting in
the channel). `requests` and `replies` are RPCs in flight.

| Action | Code |
|---|---|
| `ElectionTick` | `elect.C` fires, `runPreVote` sends |
| `HeartbeatTick` | `hb.C` fires on a leader, heartbeat path of `broadcastAppendEntries` sends |
| `Count`, `EndRound` | the counting loop reads a result; the loop ends or its 3 s timer fires |
| `BeginVote`, `BecomeLeader`, `ElectionFails`, `HeartbeatOk`, `HeartbeatFails` | what a decided round does in `startElection` and `loop` |
| `HandleRequestVote`, `HandleAppendEntries` | the handlers (the term, role and pointer part of the second) |
| `HandleReply` | the goroutine that sent a heartbeat reads the answer |
| `LoseRequest`, `LoseReply` | transport error or timeout at the caller |
| `HealthAnswer`, `HealthResult` | `StartHeartbeats`: the peer's answer, and the later `SetLeader` |
| `SetSnapshot` | `updatePeersFromStorage` / `SetSnapshot` |
| `Restart` | process restart: `migrate()` drops every table |

Abstractions. The log is not part of this module: whether a candidate's log is up
to date and whether a previous entry matches is a free choice in every handler.
A pre-vote request and a heartbeat reply that can no longer change anything are
dropped when their round ends. AppendEntries requests of the replication path have
the same effect on terms and roles as delayed heartbeats of the same term. Errors
of SQLite inside the handlers are left out. One replica may be known under several
identifiers (`Id`, `Host`); each is counted, as `activePeers` does.

### Replication

State: `log` is `raft_log` as a function from index to event; `op` holds the local
variables of the `Propose` a request handler is in; `calls` the per-peer
goroutines of the replication path; `beats` the heartbeats in flight. `stored`,
`acked` are history.

| Action | Code |
|---|---|
| `Propose`, `AppendLocal` | role check and `nextIndex`; `appendLog` (two steps: no lock is held between them) |
| `Broadcast`, `Count`, `EndBroadcast` | one attempt of `replicateAndCommit` |
| `Send`, `HandleAppendEntries`, `HandleReply`, `LoseCall` | one try of a per-peer goroutine |
| `RecalculateCommitIndex`, `ProposeApplies`, `Return` | the rest of `replicateAndCommit`, `waitForApplied` |
| `Heartbeat`, `HandleHeartbeat`, `LoseHeartbeat`, `Tick` | the loops of leader and followers |
| `LoseLeadership`, `Restart`, `SetSnapshot` | demotion, follower restart, discovery |

Abstractions. One leadership and one term, so a previous row matches exactly when
it exists; the logs across leader changes are left out (section 6). A run of
`applyCommitted` is one step here and many in `Apply`. Reading nextIdx and loading
the rows is one step. The code's five attempts and five tries are the constants
`MaxAttempts` and `MaxTries`. A handler's k-th write is the event `<<p, k>>`.

Refinement. `Chosen` is the sequence of the leader's rows up to its commitIndex and
`raftApplied` the executed commands with their positions. Under this mapping
`ImplementsReplicatedLog` states that every step is a step of `ReplicatedLog` or
changes nothing there: `RecalculateCommitIndex` is `Choose`, a run of
`applyCommitted` is `Execute`, a restart of a follower `Restart`. It contains what
is otherwise said in several invariants: committed rows are not replaced, no two
replicas execute different commands at one index, nobody leaves a gap.

### Apply

State: `lastApplied`, `commitIndex`, `applyErr`, `raftApplied` as in the code,
`rows` the length of the log, `run` the local variables of each goroutine inside
`applyCommitted` (`at`, the row it works on; `upto`, the last row its query
returned), `effects` and `ignored` history. An event is identified with its index,
which `FollowerPrefix` of `Replication` justifies within one leadership. `Begin`,
`CheckApplied`, `ApplierSucceeds` / `ApplierIgnored` / `ApplierFails`, `Record`,
`StorageFails` and `Advance` are the steps of `applyCommitted`; `AppendRow`,
`CommitTo`, `Rewind` and `ChangeRole` what the rest of the replica does meanwhile.
One execution of the applier is a step. Database errors are real for this build:
the stack configures SQLite with `cache=shared` (`deploy/docker-stack.yml`), where
concurrent statements fail with "table is locked".

### Agenda

State: `db` holds the domain tables of every replica as sets of rows and functions for
their columns; `queue` the committed commands a replica has not applied yet,
`committed` their total number, `failed` whether `applyErr` is set; `op` the request
a handler is working on; `raced` is history.

| Definition | Code |
|---|---|
| `HandleCreatePersonal`, `HandleCreateGroupAppointment`, `HandleUpdateAppointment`, `HandleDeleteAppointment` | the checks of `appointmentService` before `Propose` |
| `HandleCreateGroup`, `HandleUpdateGroup`, `HandleAddMember`, `HandleUpdateMember`, `HandleRemoveMember`, `HandleInvitation` | the checks of the HTTP handlers (leader branch) |
| `HandleDeleteGroup` | `groupService.DeleteGroup`: writes to the leader's tables, no entry in the log |
| `Propose`, `ProposeRefused`, `TimeOut`, `Return`, `ReturnPersonal` | `Propose` and `waitForApplied`; what the service does afterwards |
| `Apply` and the operators it selects | `NewRaftApplier`: tables in, tables and kind of error out |
| `ApplyNext`, `ApplyFails`, `StorageFails`, `RecordFails` | one row of `applyCommitted`: success or ignorable error, other error, database error inside the command, error of `RecordAppliedEvent` |

Abstractions. One leadership, in which `Replication` decides how an entry gets
committed and `Apply` how goroutines share the work; here both are one step. All
users exist and keep their names (`Accounts` is about them). Every appointment has the
same title, so that an identifier, a hash of owner, group, times and title in the code,
is the record of the first three; groups likewise. `Interrupted` gives the tables after
the first statement of a command whose second one fails; failing reads are left out.
The branches a handler takes when `IsLeader()` is false are in `Reconciler`.

### Accounts

State: `leader`, and per replica its `users` table, the `queue` of commands it has
still to apply, `failed` (applyErr) and its `audit` records; `op` are the local
variables of a request handler, `since` and `scan` those of `reconciler_users.go`.
`raced` (a request was checked while another was on its way), `refused` (a repair
was not accepted) and `known` (the rows a replica has or has had) are history.

| Definition | Code |
|---|---|
| `HandleRegister`, `HandleUpdateProfile`, `HandleUpdatePassword` | the checks of the handlers, against the tables of the replica that serves the request |
| `Propose`, `ProposeFails`, `Return`, `Fallback` | the leader's path, which may end with an error before the entry is stored, with the leadership or after the wait for it; the write to the replica's own table without a leader |
| `RecordAudit`, `AppendAudit` | the audit record at the end of a registration: it is stamped (`audit.go:76`) and inserted later (`audit.go:81`), so that records need not be in the order of their stamps |
| `ApplyCreate`, `ApplyProfile`, `ApplyPassword`, `EnsureUser` | the commands, against the unique columns; which errors `isIgnorableApplyError` accepts |
| `FetchAudit`, `SkipRecord`, `ProposeRepair`, `RepairReturns`, `EndScan` | one round of the user reconciler over one peer |
| `ChangeLeader` | another replica leads |

An identifier is the hash of the name a user registered with, and stays when the name
changes: `IdOf` maps names to identifiers, and a row keeps its identifier under another
name. Password hashes are salted, so every request makes one of its own (the number of
the request). Display names are left out: they are compared as emails are. A proposal
of the reconciler may be acknowledged and lost to one made at the same time
(`ProposeRepair`); for a proposal of a handler this is left to `Replication`. The run uses a `VIEW` that
leaves out what no property and no later step depends on any more.

### Reconciler

State: `db[r]` is the tables of a replica as a set of items (`rows`), tombstones of
appointments (`gone`) and its `events` with their second; `since` is the cursor per
replica, peer and feed, `scan` the local variables of the four goroutines, `log` the
committed entries, `stuck` those that failed, with the replica and who proposed them,
`behind` the followers that have restarted and not got the log again; `seen`, `missed`
(items skipped, refused, or lost in the log), `last` (the latest stamp a feed has had)
and the mark `late` of an event (it was inserted after one with a later stamp) are
history.

| Definition | Code |
|---|---|
| `LeaderWrite`, `LeaderRemove` | a client's write through the log |
| `FallbackWrite`, `LocalRemove` | the same on a replica that leads nobody and knows no leader: its own tables and an event |
| `Apply` and the operators it selects | the commands and repair commands, event included |
| `StartRound`, `Fetch`, `FetchFails` | the loops over peers and feeds, the `/cluster/local/...` endpoints |
| `SkipEvent`, `ProposeRepair`, `ProposeFails`, `UpdateState` | one event: resolved through the leader's tables, compared, proposed; the cursor at the end of the round |
| `ProposeLost` | the proposal takes the same index as one of a handler or of another reconciler and loses its row; both are told that all went well |
| `Restart`, `CatchUp` | a follower restarts with the tables that `migrate()` has emptied; a broadcast brings the log from its first row on and the follower applies it again |
| `LateWriter` | a goroutine that has taken the time for its events before (`storage.go:1178`) inserts them only now |
| `ChangeLeader`, `Clock` | environment |

What is written is an item with a kind; `Needs` says through which other items the
code resolves usernames and signatures. A committed command reaches all replicas that
are neither blocked nor behind in one step. Writes a replica made without a leader and
that nobody has fetched are gone when it restarts. A replica that is behind does not
take over: it would start a log of its own, and logs of several leaders are left out
(section 6). Two more consequences of colliding proposals stay with `Replication`: a
client's own write that is lost (`LeaderWrite` always commits), and followers that have
executed the replaced row. `Replay` gives the tables after applying a log again from its first row, as
a recursive function of the length. `DeletedStaysDeleted` holds until a replica restarts,
and holds again from the moment it has the tombstone back. The runs use a
`VIEW` that leaves out what no property and no later step depends on any more, such as
the log once no replica can need it again.

### Membership

State: `table` is `cluster_nodes` of one replica, `Self`, as age and kind of address
per name; `peers` its peer store; `learn` the rows of a seed's answer that are still to
be written; `up` and `reached` which hosts run and can be reached; `sighted` (history)
the age of the last contact anybody had with a name.

| Definition | Code |
|---|---|
| `UpdatePeersFromStorage` | the sync every five seconds: `SetSnapshot` from the rows of the last 30 seconds |
| `DnsLookup`, `AnnounceToSeed`, `LearnNodes` | the other loops of `discovery.go` |
| `Join`, `Leave` | `cluster_http.go` |
| `Contact`, `RaftRequest` | what stamps `last_seen`: health poller, reconcilers, Raft handlers |
| `SightedElsewhere` | environment: the other hosts meet each other |
| `RestartSelf` | `migrate()` drops `cluster_nodes`, `Start` writes the own row, the store is `PEERS` again |
| `Clock`, `Lose`, `Regain` | environment |

A host may have several addresses, and `discovery.go:251` compares them with
`ADVERTISE_ADDR` as strings. `Advertised` are the names of `Self` made of exactly that
string, `Aliases` its names made of another one, which no comparison tells from the
names of other hosts: the name service lists this host too, its rows get into the peer
store under an alias, and it then polls itself (`Contact`). `AddrOf` is the address a
name is made of. `PEERS` is assumed not to hold the advertised address, unless it is the node id.

What a seed answers is any set of rows that satisfies `NeverFresherThanContact`; a
seed is a replica with the same code, so this is the usual assume-guarantee argument,
and `Self`, which may be its own seed, answers from its own table. Ages instead of
times keep the model finite without a bound on time. Clocks are taken to agree.

### WebSocket

State: `serve`, `next`, `bcast` the local variables of `ServeWS` and of the
`BroadcastToUser` it is in; `run` what `Run` has received and not yet carried out;
`conns`, `send`, `closed` the table and the channels; `conn` the network connection;
`kicks` the goroutines that wait to unregister a slow client; `reader`, `writer` the
pumps; `panicked` is history. Handing a client over on an unbuffered channel is one step
of both sides; `Run` then waits for the lock, so the handler goes on before the table is
changed. The capacity, 256, is the constant `Cap`.

## 3. Runs

| Run | Bounds | Shows |
|---|---|---|
| `ElectionThree` | 3 replicas, 2 campaign, terms up to 2 | `TypeOK`, `OneGrantPerTerm`, `ElectionsAlwaysWon`, `TermsOnlyGrow` |
| `ElectionRestart` | 2 replicas, one health poller, 1 restart, 1 membership change | `NoSelfProxy` |
| `ElectionLive` | 2 replicas | `CandidacyEnds`, `LeaderEmerges`, `SplitBrainHeals` under fairness |
| `ElectionOneLeader` | 2 replicas | **violated** `OneLeaderPerTerm` |
| `ReplicationSerial` | 3 replicas, 1 handler, 2 writes, 2 tries, 1 late goroutine, 1 heartbeat, follower restart or change of the peer set | `TypeOK`, `AckMeansApplied`, `CommittedWasStored`, `FollowerPrefix`, `ImplementsReplicatedLog` |
| `ApplyThreads` | 2 goroutines, 2 rows, 2 errors, 1 truncation | `TypeOK`, `NothingSkipped`, `AppliedInOrder`, and under fairness `WritesResume` |
| `AgendaRequests` | 2 users, 2 groups, 2 overlapping times, 4 commands, 1 fault | `TypeOK`, `ParticipantsAreMembers`, `OwnerAttends`, `NoDoubleBooking`, `AnswersReachOwner`, `RepeatChangesNothing`, `OnlyMissingTargetsBlock` |
| `AccountsRepair` | 2 replicas, 2 handlers, 3 names, 3 emails, 2 requests, 2 of them without a leader, 1 leader change | `BlockedByRepairsOnly`, `CursorPassesKnownUsers`, `RegistrationCreates`, `RepairsOnlyAdd` |
| `ReconcilerRounds` | 2 replicas, 7 kinds of items, 2 writes or removals, 2 rounds, 1 fault (leader change, restart, failed fetch, late insert, failed or lost proposal) | `CursorPassesSeen`, `OnlyAnswersBlock`, `SeenIsKnown`, `DeletedStaysDeleted` |
| `ReconcilerReplay` | as before, 1 round, no fault | **violated** `AnswersAreIdempotent` |
| `MembershipPeers` | 3 hosts under 5 names, of which 3 are those of `Self` (node id, advertised address, alias), 2 seeds, 2 faults | `TypeOK`, `NeverFresherThanContact`, `SelfPeerByAliasOnly`, and under fairness `UnreachableLeavesPeers` |
| `WebSocketPumps` | 2 connections of one user, 2 notifications, capacity 1 | `NoPanic`, `NoSilentGap`, and under fairness `HandlerFinishes`, `NothingLeaks` |

Deadlock is not checked: with the bounds on terms, rows and errors every run ends
in states where nothing is left to do.

Why the bounds are enough. Two campaigning replicas and a third voter are what it
takes to compete for a vote; a campaign that starts in term 0 and is overtaken
produces term 2, so requests of three different terms meet. Two writes are what it
takes for a late request to undo a later one, two tries for nextIdx to step back
and be used again. In `Apply` two rows let a goroutine be one behind or ahead of
another one; an error needs one goroutine to fail and one to pass it. In
`AgendaRequests` four commands are what it takes to found a group, add a member,
invite him and remove him, or to create, move, delete and create again; one handler
is enough for requests to overlap, since after a timeout its entry is still on its
way when it checks the next request. A fault is a database error or such a timeout.
In `AccountsRepair` two requests register two users, or register one and change the
account, and two handlers can insert their records in the other order; a request without
a leader makes the record that the other replica, which leads or comes to lead by the
one leader change, reads and repairs from. In `ReconcilerRounds` one write on each side of a lost leadership makes
the tables differ, and two rounds let a cursor move and the last event be read again. In
`MembershipPeers` an answer written after its host was lost is what it takes for a stale
row to return; `Self` has one name of each kind the code treats differently (its node id,
its advertised address, which is also a seed, and an alias from the name service), names
of other hosts from the name service are left to the theorems; `MaxAge = 0` keeps fresh
and old apart. In `WebSocketPumps` the second of two messages finds a channel of capacity one
full, and two connections of one user receive each other's.

Fairness. In `ElectionLive`: the loop goroutine keeps running and its timers fire
(weak fairness of `HeartbeatTick` and `EndRound`); the election timer is reset by
AppendEntries of a leader, so it is only assumed to fire while nobody leads; every
HTTP call ends, if only by the client's timeout; and an AppendEntries request that
is sent again every second eventually gets through, and so does its answer (strong
fairness, needed for `SplitBrainHeals` only: without it two leaders that cannot
talk to each other both stay). In `ApplyThreads`: goroutines proceed, and the number of
errors is bounded, that is, errors are transient. In `MembershipPeers`: the sync ticker
fires and time passes. In `WebSocketPumps`: goroutines proceed; browsers need not.

## 4. Where code and documentation disagree

The first two have a run whose counterexample is the evidence, and a finding in
`PROJECT.json` that quotes the text.

* **Two leaders in one term** (`ElectionOneLeader`). A lost request or a refused
  vote counts as a reachable peer, and with two or three of them degraded mode
  accepts the candidate's own vote; votes count when the HTTP exchange succeeded,
  whatever `VoteGranted` says. In the traces a candidate also grants its vote to
  the rival, as `VotedFor` is only written to `raft_meta`. `ElectionsAlwaysWon` is
  the other side of this: no pre-vote and no election can be lost, so the backoff
  and the failure branches of `startElection` and `runPreVote` are never used.
* **Answers are not idempotent** (`ReconcilerReplay`). A guest answers and is removed
  from the group; the invitation reconciler reads the last event again, finds no
  participant and proposes the answer once more; its notification exists already, the
  error is not ignorable, and the log stops on every replica. `OnlyAnswersBlock` says
  that no other repair does this.

Limits met while modelling. The properties are stated so as to leave exactly these
out; the hazards of `PROJECT.json` point at their lines:

* `HandleAppendEntries` (`consensus.go:332`) cuts the log at the first row it is sent,
  so a late request of an earlier broadcast removes rows already committed.
  `CommittedWasStored` is what remains true: a majority had the entry at some time.
* Two handlers that call `Propose` at once read the same next index
  (`consensus.go:227`); the second row replaces the first, and `waitForApplied`
  (`consensus.go:732`) waits for the index only, so the lost write is acknowledged. The
  five reconcilers are such handlers: they share a tick of ten seconds
  (`cmd/server/main.go:84-88`), and one appointment made without a leader leaves events
  for two of them. `ReplicationSerial` has one handler at a time; the theorem
  `AckedAppliedOrOvertaken` says for any number of them that two writes with one index
  are the only way to lose an acknowledged write. In `Reconciler` a repair lost this way
  is an item `missed`.
* An error that `applyCommitted` publishes after another goroutine has passed the row
  is never cleared (`consensus.go:658`), and the leader refuses writes from then on.
  `WritesResume` is about errors ahead of lastApplied.
* Commands whose target is missing, such as an appointment for an unknown group or by
  an owner who is no member, fail with "no rows", which `isIgnorableApplyError` does
  not accept; the log stops there. `OnlyMissingTargetsBlock` says that nothing else
  a client can ask for does. `DeleteGroup` writes to the leader's tables only
  (`services.go`), so the tables of a follower may differ from those the leader's
  checks were made against: there an update of a group's appointment may lack its
  target although it passed the check and nothing raced with it.
* The errors of `OpRepairEnsureUser` ("ensure_user conflict", a unique column) are not
  ignorable either: after a leader change, a user whose password or profile changed
  since the registration blocks the log (`BlockedByRepairsOnly`). The comments of
  `EnsureUser` (`storage.go:274-275`, `312-315`) say that if only the identifier is taken
  a new row with another one is inserted and both users coexist; but `CreateUser`
  (`storage.go:205-206`) computes the identifier from the name again, the insert fails on
  the taken one, and this repair blocks the log as well. The user reconciler
  reads at most the 100 newest records and moves its cursor past the older ones, which
  is why `CursorPassesKnownUsers` is about replicas whose records fit into one answer;
  the leader never reads its own.
* Audit records and events carry the time at which a goroutine looked at the clock and
  are inserted later without a lock (`audit.go:76` and `:81`, `storage.go:1178-1181`). One
  inserted after another one with a later stamp may appear behind a cursor that has
  passed its second, and nobody ever reads it: a registration or a write made without a
  leader is then never carried over. `CursorPassesKnownUsers` leaves out records that are
  not `InOrder`, `CursorPassesSeen` events that are `late`.
* The reconcilers' comments "skip until next iteration" and "will be retried" hold
  only while the cursor has not passed the event (`missed` in `SeenIsKnown`). Events
  of group appointments carry no `group_type`, so they are never reconciled;
  memberships are proposed again in every round; deleting an unknown appointment
  leaves no tombstone.
* A host recognises itself in `cluster_nodes` by its node id and by the very string
  `ADVERTISE_ADDR` (`discovery.go:251`). `deploy/docker-stack.yml` advertises a task name
  while the name service yields IP addresses, and the seed lists of
  `PROGRESSIVE_TEST_COMMANDS.md` and `setup-single-device-test.sh` hold both `IP:port` and
  `agenda-N:8080` of every node. There a host is its own peer under an alias: it sends
  vote requests to itself and counts the answers beside its own vote, and counts twice in
  every majority. `SelfPeerByAliasOnly` says that no other name gets through. `Election`
  admits such an alias among the peers (`Host`), and its theorems hold with it except
  `FollowerNeverProxiesToItself`; its runs have none.
* `raft_http.go` stamps the bare node id as address when the sender is not in the peer
  store. The DNS and Docker loops stamp a host without contact and under a second
  name: it counts twice in majorities and never ages out, which is why
  `UnreachableLeavesPeers` leaves these names out. `PEERS` is lost at the first sync
  unless contacted before; a node that left returns with a poll or an answer in flight.
* `ServeWS` goes on to queue stored notifications before `Run` has inserted the client,
  so the first ones may be missing (`NoSilentGap` starts with the first one queued). A
  user with more than 256 stored notifications is always disconnected. A second
  connection sends everything to the first one again. `main.go` never calls `Stop`.
* After `RecordAppliedEvent` has failed a command is executed once more before any
  other, and `RepeatChangesNothing` says that this does no harm, except for the answer of
  somebody who was removed from the appointment meanwhile: repeating it fails on the
  notification. It says nothing of two goroutines that both find the event missing from
  `raft_applied` (`consensus.go:630-663`, no lock), and there it does not hold: both may
  pass the check of one answer (`raft_apply.go:447`), and the second notification (`:496`)
  fails on its key, which `isIgnorableApplyError` does not accept for answers; or a slow
  goroutine executes an old `member_add` (`raft_apply.go:415-420`) after a later removal of
  that member. `Apply` has these goroutines, `Agenda` does not. Requests that are
  checked while another write is on its way may book a user twice, which is why
  `NoDoubleBooking` excludes them (`raced`). A database error between writing an
  answer and notifying the owner loses the notification (`AnswersReachOwner` is
  stated without errors). A restart starts from empty
  tables (`migrate()` drops `raft_meta`), which is why `OneGrantPerTerm` and
  `TermsOnlyGrow` are stated between restarts.

## 5. Theorems

Proved with TLAPS for every value of the constants that the named assumptions
admit: finite sets and natural bounds; values that stand for "nobody" or "nothing"
differ from the others; `Host` maps every replica to itself; names and seeds are known;
in `Reconciler` a group names its creator's membership, what a write notifies is a
notification, and no command is an invitation (`RolesAssumption`). The
bounds are the ones that keep TLC's instances finite, and as they are arbitrary the
theorems cover executions of every length. Where a theorem needs more, it is said below.
An invariant that a run checks is in general not inductive; each proof module states
the stronger one first and explains its parts.

`ElectionProofs`:
* `TypeCorrect`: `Spec => []TypeOK`. That a round never counts below zero and that
  `heartbeatFailures` stays below three are part of it. Per action, one step; the
  outcomes of a round (`Succeed`, `Fail`) are lemmas used by `Count` and `EndRound`.
* `TermsGrow`: `TermsOnlyGrow`, from the typing and a case split on the actions.
* `VotesOncePerTerm`: `OneGrantPerTerm`. It is not inductive: one has to know that
  no vote was granted in a term above the current one, and that the vote granted in
  the current term is the one `votedFor` remembers. Paths that raise the term
  without resetting `votedFor` keep the first and make the second vacuous.
* `NeverLosesElection`: `ElectionsAlwaysWon`. The strengthening says what a round
  in progress looks like: in an election round no answer has been counted yet,
  since the first one already decides; then `Passes` holds for the tally after a
  positive, a negative and no answer.
* `FollowerNeverProxiesToItself`: `NoSelfProxy`. Needs that no request in flight is
  addressed to its own sender and that a health answer never names the poller.

`ReplicationProofs`, for any followers, handlers and bounds:
* `TypeCorrect`, `CommittedWasStoredAlways` (`CommittedWasStored`), by `Inv`. The leader's
  rows are contiguous and hold no event twice, and the index an open call of `Propose`
  has read is inside them or the next one (`LeaderRows`, `OpInv`), which bounds the
  indices; what a goroutine carries is never ahead of the leader, and a positive answer
  stands for rows its peer did store (`CallInv`, `StoredInv`), so matchIdx never claims
  more than was stored.
* `AckedAppliedOrOvertaken`: for any number of handlers in `Propose` at once, an
  acknowledged write was applied by the leader, or it was `Overtaken`: its row has been
  replaced, or it has taken the index of a write that had been applied. By `AckInv`: an
  event is applied where it was written only and after it was written
  (`AppliedEvents`), every index up to lastApplied was applied with some event
  (`AppliedIndices`), the row of a handler's event is at its index (`OwnRow`), and
  only what a handler has written is acknowledged (`AckedEvents`). The property is about two
  handlers, so no run has it: TLC has checked `AckedUnlessOvertaken` with two handlers and
  no other fault, an instance too large to be kept among the runs.
* `FollowersHoldPrefix` (`FollowerPrefix`) and `Refinement`
  (`ImplementsReplicatedLog`) are proved under `Serial`: one handler is in
  `Propose` at a time. This is the restriction of the run, and it is needed: with two
  the leader's row is overwritten (section 4). `SerialInv` adds that the leader's log
  only grows, that the rows of every request in flight are the leader's from its previous
  index on, and that `raftApplied` of a replica is a prefix of the leader's rows. In
  the refinement `RecalculateCommitIndex` maps to `Choose`, each run of
  `applyCommitted` to `Execute`, a follower's restart to `Restart`, and every other
  action to a stutter. What is committed is the largest index that a
  majority holds; that it exists follows from the finiteness of the set of indices.

`ApplyProofs`, for any number of goroutines:
* `TypeCorrect`, `NothingIsSkipped`. lastApplied is overwritten by slower
  goroutines and taken back by handlers, so `NothingSkipped` alone is not
  inductive. `ThreadInv` adds that a goroutine stands on a row its query returned,
  that everything before that row is recorded, and that it advances only from a
  recorded row. `ThreadMoves` is the lemma every step of a goroutine uses.
* `ExecutedInOrder` (`AppliedInOrder`), from the same invariant: the row a goroutine
  executes comes after rows that are all recorded, and what is recorded was executed or
  ignored (`RecordInv`).

`AgendaProofs`, for any replicas, handlers, users, groups and times:
* `TypeCorrect`, `InvitedAreMembers` (`ParticipantsAreMembers`), `OwnersAttend`
  (`OwnerAttends`), `AnswersAreReported` (`AnswersReachOwner`) and `RepetitionIsHarmless`
  (`RepeatChangesNothing`), by `BaseInv`. It says of each replica's tables that a
  participant's appointment is there and that he is a member and was notified if it is
  one of a group (`Consistent`), of each command on its way that a handler can
  have made it (`Sound`), and of the owners that they attend (`Attended`), with one
  exception: the appointment of the first command of the queue when that command was
  interrupted (`Half`). The proof is one of operators first: what every command makes of
  consistent tables when it is executed (`ApplyEffect`), interrupted
  (`InterruptedEffect`) and repeated (`RepeatLemma`); the steps of replicas and
  handlers then use only these lemmas.
* `NeverDoubleBooked` (`NoDoubleBooking`) and `MissingTargetsBlock`
  (`OnlyMissingTargetsBlock`), by `RaceInv`. The leader checks a request against its own
  tables, but the property is about every replica, some far behind. `Booked` connects
  them: there is one book of personal appointments to which the tables of every replica
  lead through its own queue (`Leads`, `After`) without an overlap on the way, and the one
  request that has been checked and not proposed fits into that book (`AtMostOne`,
  `Admits`). `Answered` says that whoever has answered anywhere, or whose answer is on
  its way, cannot answer again on the leader, so each replica meets an answer once;
  `Targeted` that what the leader has queued or checked finds its appointment there,
  unless `DeleteGroup` has taken its group away. All this is stated while `raced` is
  false.

`AccountsProofs`, for any replicas, handlers, names and emails:
* `RepairsKeepAccounts` (`RepairsOnlyAdd`), from the typing and what `EnsureUser` does.
* `UnracedRegistration` (`RegistrationCreates`), by `AloneInv`: while nothing has raced,
  a checked registration is the only write on its way, and its name and email are free on
  the replica that has checked it until its command is applied there.
* `RequestsNeverBlock` (`BlockedByRepairsOnly`), by `LogInv`: until a replica writes without a
  leader there is one list of commands, every replica's table is what a prefix of it
  computes and its queue the rest, and an account that a queued profile change is about
  exists when its turn comes.
* `CursorSkipsNobody` (`CursorPassesKnownUsers`), by `CursorInv` and `AnchorInv`. The
  records of a replica need not be in the order of their stamps. A cursor, and the one a
  scan will set, is zero or not above the newest stamp the peer has (`Anchored`); so a
  record that appears behind it has a later one before it and is not `InOrder`. Of those
  that are, a scan holds all that are not older than the cursor, and those it has
  passed, as well as those older than the cursor, are of rows the replica has had.

`ReconcilerProofs`, for any replicas, items and log:
* `CursorSkipsNothing` (`CursorPassesSeen`), by `CursorInv`: a round in progress has, for
  each feed, seen every event of the peer earlier than its `max`, and an event earlier
  than one it has still to look at is seen or still to be looked at too (`ScanInv`); all
  this of events that are not `late`. Handlers go on writing meanwhile; no cursor is
  ahead of the latest stamp its feed ever had (`last`), so what they write is not
  earlier than any of these, or late.
* `SeenKept` (`SeenIsKnown`; `ProposeLost` puts what it loses into `missed`), `DeletionsHold` (`DeletedStaysDeleted`) and
  `RepairsBlockByAnswers` (`OnlyAnswersBlock`). Each needs what a command may do to a
  replica's tables (`Evolves`): personal appointments and notifications go only by
  becoming tombstones and tombstones stay. Of the entries of the log only a group
  appointment, which no reconciler proposes, or an answer can fail (`Stopper`). A replica that applies its log
  again does so from empty tables; what `Replay` computes is reached by such steps, shown
  for the shortest log for which it would fail (a least element of a set of numbers, by
  `WellFoundedInduction`).

`MembershipProofs`, for any hosts, names, seeds and ages:
* `TypeCorrect`, `RowsAreNeverFresher` (`NeverFresherThanContact`), `OwnPeerByAliasOnly`
  (`SelfPeerByAliasOnly`). The three are proved together (`IInv`): a row of an answer that is
  still to be written must be as honest as one of the table (`Honest`: no fresher than
  the last contact, and with `ADVERTISE_ADDR` as its address if its name is made of
  that), or the table loses the property at the write; the address is what
  `updatePeersFromStorage` recognises this host by; and what a replica that is its own
  seed answers is honest because its table is.

`WebSocketProofs`, for any connections, users, notifications and capacity:
* `NeverPanics` (`NoPanic`). `Reach` says why a closed channel is out of reach: its
  client has left the table and cannot come back, because a client is handed over for
  registration once, and a handler iterates over clients of the table, which `Run`
  cannot change while the read lock is held. The typing of the module, with the
  capacity of the channels, is the lemma `TypeStep`.
* `NeverAGap` (`NoSilentGap`), by `GapInv`. It adds that a channel is empty until its
  client is in the table and then holds messages to its own user only (`Addressed`). The notifications of one handler enter a channel
  in order; when one does not fit, the goroutine that unregisters the client is started
  in the same step, and from then on the client is not among those that stay connected.

Only model-checked, because liveness under fairness is outside the prover's reach:
`CandidacyEnds`, `LeaderEmerges`, `SplitBrainHeals`, `WritesResume`,
`UnreachableLeavesPeers`, `HandlerFinishes` and `NothingLeaks`. `OneLeaderPerTerm` and
`AnswersAreIdempotent` are false, and TLC's traces show it. `AckMeansApplied` is
checked with one handler and is a conjunct of the invariant that `Refinement` rests on;
the theorem about acknowledgements is the one for any number of handlers. Every other
property of section 3 is the statement of a theorem.

## 6. Not modelled

* The log across leader changes (rows of different terms, rows of a former leader that
  are overwritten): `Replication` covers one leadership, and the modules above it take
  leader changes as changes of the replica that may propose.
* Chains of proxies between replicas whose leader pointers name each other: the
  middleware keeps no state; each hop ends with its ten second timeout.
* Read marks of notifications; updates of groups, members and appointments without a
  leader, which emit no event that anybody reads; commands that nobody proposes
  (`OpGroupDelete`, `OpRepairEnsureParticipant`, `OpRepairUserClearEmailIfMatches`);
  queries.
* Left out for good: the legacy handlers of `handlers.go`, which no router registers;
  password hashing, tokens and HMAC; audit and logging output other than the records
  the user reconciler reads; the web client and the scripts.

## 7. Plan

1. Done: all modules of section 2 with their runs; theorems for every safety property
   of the passing runs and for the refinement of `ReplicatedLog`.
2. To come: the modules above the log take from `Replication` that all replicas apply
   the same commands in the same order; a theorem could state that their queues implement
   `ReplicatedLog` as well.
3. Later: rows of several terms in `Replication`, on top of `Election`.
