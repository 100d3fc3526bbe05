------------------------------ MODULE Reconciler ------------------------------
(***************************************************************************)
(* The reconcilers that work from the events tables: groups and            *)
(* memberships (reconciler_groups.go), appointments                        *)
(* (reconciler_appointments.go), answers to invitations                    *)
(* (reconciler_invitations.go) and notifications                           *)
(* (reconciler_notifications.go).  Every write to a replica's tables also  *)
(* appends an event; every ten seconds the leader fetches the events of    *)
(* each peer that are not older than the cursor it keeps for that peer and *)
(* proposes what its own tables lack.                                      *)
(*                                                                         *)
(* What is written is an Item: a group, a membership, an appointment, an   *)
(* invitation, an answer, a notification.  Needs says which items the      *)
(* reconcilers must find in the leader's tables, by username or signature, *)
(* before they can use an event.  A command of the log is applied by every *)
(* replica in one step, except those whose log is blocked or that have     *)
(* restarted and not caught up (Replication and Apply model how it gets    *)
(* there).  An event repeated within one second counts once.  The users'   *)
(* reconciler is in Accounts.                                              *)
(***************************************************************************)
EXTENDS Naturals, Sequences, FiniteSets

CONSTANTS
    Replica, Item,
    Kind,           \* Kind[i]: what item i is
    Needs,          \* Needs[i]: the items an event of i is resolved through
    Member,         \* of a group: its creator's membership; of an invitation
                    \* or an answer: the membership of the invited user
    Note,           \* the notification a write stores with item i, or NoItem
    NoItem, NoReplica,
    Stored,         \* what the log has stored everywhere before, in order
    EventLimit,     \* the handlers' LIMIT 1000
    FirstLeader,
    MaxTime, MaxRequests,
    MaxFaults,      \* elections, restarts, failed fetches, late inserts, failed and
                    \* lost proposals
    MaxRounds       \* rounds started, over all reconcilers and replicas

Kinds == {"user", "group", "member", "appt", "groupappt", "invite",
          "answer", "note"}

ASSUME ConstantsAssumption ==
    /\ Kind \in [Item -> Kinds]
    /\ Needs \in [Item -> SUBSET Item]
    /\ Note \in [Item -> Item \cup {NoItem}]
    /\ Member \in [Item -> Item \cup {NoItem}]
    /\ NoItem \notin Item /\ NoReplica \notin Replica
    /\ Stored \in Seq(Item)
    /\ FirstLeader \in Replica
    /\ {EventLimit, MaxTime, MaxRequests, MaxFaults, MaxRounds} \subseteq Nat

\* What the items are for: a group has its creator's membership, writes store
\* notifications, and no command of the log is an invitation (they are stored
\* with the appointment).
ASSUME RolesAssumption ==
    /\ \A i \in Item : Kind[i] = "group" => Member[i] \in Item /\ Kind[Member[i]] = "member"
    /\ \A i \in Item : Note[i] # NoItem => Kind[Note[i]] = "note"
    /\ \A n \in 1..Len(Stored) : Kind[Stored[n]] # "invite"

\* The endpoints /cluster/local-events/... and the goroutine that reads them.
Feed == {"group", "member", "appt", "answer", "note"}

FeedOf(i) == IF Kind[i] = "groupappt" THEN "appt" ELSE Kind[i]

Goroutine == {"groups", "appts", "answers", "notes"}

Feeds(g) == CASE g = "groups"  -> <<"group", "member">>
              [] g = "appts"   -> <<"appt">>
              [] g = "answers" -> <<"answer">>
              [] g = "notes"   -> <<"note">>

FeedsOf(g) == {Feeds(g)[k] : k \in 1..Len(Feeds(g))}

VARIABLES
    leader,
    log,        \* the committed entries: what to do, the item, who proposed it
    db,         \* db[r]: the tables of replica r: rows, gone, events; and a
                \* history, last: the latest stamp an event of each feed ever had
    behind,     \* the replicas that have restarted and not got the log again
    stuck,      \* the commands that blocked a replica's log, and who proposed them
    since,      \* since[r][p][f]: the cursor of r in feed f of peer p
    scan,       \* scan[r][g]: where goroutine g of r is in its round
    seen,       \* history: seen[r][p]: the events of p that r looked at
    missed,     \* history: items r skipped, failed to propose or lost in the log
    now,        \* the second that the next events are stamped with
    requests, faults, rounds    \* how many there were

vars == <<leader, log, db, behind, stuck, since, scan, seen, missed, now, requests, faults, rounds>>

\* late is a history: an event of the feed with a later stamp was there before.
Event == [item : Item, ts : Nat, late : BOOLEAN]

----------------------------------------------------------------------------
(* Storage: what each write does to one replica's tables d at time now.     *)

\* The time is taken before the INSERT, and no lock is held: see LateWriter.
AppendEvent(d, i) ==
    LET f == FeedOf(i) IN
    [d EXCEPT !.events = @ \cup {[item |-> i, ts |-> now, late |-> now < d.last[f]]},
              !.last[f] = IF @ < now THEN now ELSE @]

Put(d, i) == AppendEvent([d EXCEPT !.rows = @ \cup {i}], i)

AddNotification(d, n) ==
    IF n \in d.rows \cup {NoItem} THEN d ELSE Put(d, n)

CreateGroup(d, g) == Put(Put(d, g), Member[g])

\* Members of the group at this moment become participants.
CreateGroupAppointment(d, a) ==
    Put([d EXCEPT !.rows = @ \cup {j \in Item : /\ Kind[j] = "invite"
                                               /\ a \in Needs[j]
                                               /\ Member[j] \in d.rows}], a)

\* The invitation and the answers of one user to one appointment share a row.
Slot(i) == {j \in Item : /\ Kind[j] \in {"invite", "answer"}
                         /\ Member[j] = Member[i]
                         /\ Needs[j] = Needs[i]}

\* An UPDATE: without a participant row it changes nothing, but the event is
\* written.  (The event of an answer whose appointment is not found names no
\* signature and every reconciler skips it, so it is left out.)
UpdateParticipantStatus(d, i) ==
    LET upd == [d EXCEPT !.rows = IF Slot(i) \cap @ = {} THEN @
                                  ELSE (@ \ Slot(i)) \cup {i}]
    IN IF Needs[i] \subseteq d.rows THEN AppendEvent(upd, i) ELSE upd

RemoveGroupMember(d, m) ==
    [d EXCEPT !.rows = @ \ ({m} \cup {j \in Item : /\ Kind[j] \in {"invite", "answer"}
                                                   /\ Member[j] = m})]

DeleteAppointment(d, a) ==
    IF a \notin d.rows THEN d
    ELSE [d EXCEPT !.rows = @ \ {a}, !.gone = @ \cup {a}]

\* Memberships, appointments and participants go with the group.
DeleteGroup(d, g) ==
    LET inside == {j \in Item : g \in Needs[j] /\ Kind[j] \in {"member", "groupappt"}}
        parts  == {j \in Item : /\ Kind[j] \in {"invite", "answer"}
                                /\ Needs[j] \cap inside # {}}
    IN [d EXCEPT !.rows = @ \ ({g} \cup inside \cup parts), !.gone = @ \ inside]

ApplyRemoval(d, i) == CASE Kind[i] = "group"  -> DeleteGroup(d, i)
                  [] Kind[i] = "member" -> RemoveGroupMember(d, i)
                  [] OTHER              -> DeleteAppointment(d, i)

----------------------------------------------------------------------------
(* NewRaftApplier: what a committed command does to one replica.            *)

\* CreateGroupAppointment reads the group and its owner's rank; without them
\* it rolls back.
HasGroup(d, a) ==
    \A g \in Needs[a] : Kind[g] = "group" => {g, Member[g]} \subseteq d.rows

\* Mutant of ApplyAppointment: INSERT OR REPLACE brings a deleted row back.
ApplyAppointmentReplace(d, i) ==
    IF i \in d.rows THEN d ELSE Put([d EXCEPT !.gone = @ \ {i}], i)

\* A deleted appointment keeps its deterministic id: the insert then fails
\* with a UNIQUE error, which isIgnorableApplyError turns into a no-op.
ApplyAppointment(d, i) ==
    IF i \in d.rows \cup d.gone THEN d
    ELSE CASE Kind[i] = "appt"                   -> Put(d, i)
           [] Kind[i] # "appt" /\ HasGroup(d, i) -> CreateGroupAppointment(d, i)
           [] OTHER                              -> d

ApplyAnswer(d, i) ==
    IF i \in d.rows THEN d
    ELSE LET upd == UpdateParticipantStatus(d, i) IN
         IF Needs[i] \subseteq d.rows THEN AddNotification(upd, Note[i]) ELSE upd

Apply(d, i) ==
    CASE Kind[i] = "user"   -> [d EXCEPT !.rows = @ \cup {i}]
      [] Kind[i] = "group"  -> IF i \in d.rows THEN d ELSE CreateGroup(d, i)
      [] Kind[i] = "member" -> Put(d, i)
      [] Kind[i] \in {"appt", "groupappt"} -> ApplyAppointment(d, i)
      [] Kind[i] = "answer" -> ApplyAnswer(d, i)
      [] Kind[i] = "note"   -> AddNotification(d, i)

\* The commands that fail for good, at every retry.  A group appointment
\* needs its group.  An answer whose notification is
\* already stored fails with a UNIQUE error that is not ignorable; the retry
\* succeeds only if the first attempt found a participant row to update.
Fails(d, i) ==
    \/ /\ Kind[i] = "groupappt"
       /\ i \notin d.rows \cup d.gone
       /\ ~HasGroup(d, i)
    \/ /\ Kind[i] = "answer"
       /\ Needs[i] \subseteq d.rows
       /\ Slot(i) \cap d.rows = {}
       /\ Note[i] \in d.rows

Blocked == {s.replica : s \in stuck}

\* The state of a replica that applies its log: tables, and the entry that
\* stopped it, if any.
ApplyEntry(s, e) ==
    IF s.stop # {} THEN s
    ELSE IF e.do = "remove" THEN [s EXCEPT !.db = ApplyRemoval(@, e.item)]
    ELSE [db   |-> Apply(s.db, e.item),
          stop |-> IF Fails(s.db, e.item) THEN {e} ELSE {}]

Stop(r, s) == {[replica |-> r, item |-> e.item, by |-> e.by] : e \in s.stop}

\* What entry e does on every replica; one where it fails stops there.
Applied(r, e) ==
    IF r \in Blocked \cup behind THEN [db |-> db[r], stop |-> {}]
    ELSE ApplyEntry([db |-> db[r], stop |-> {}], e)

\* Entry e is committed and applied; the leader also stores notification n in
\* its own table.
Commit(e, n) ==
    LET s == [r \in Replica |-> Applied(r, e)] IN
    /\ log' = Append(log, e)
    /\ db' = [r \in Replica |-> IF r = leader THEN AddNotification(s[r].db, n) ELSE s[r].db]
    /\ stuck' = stuck \cup UNION {Stop(r, s[r]) : r \in Replica}
    /\ UNCHANGED behind

----------------------------------------------------------------------------
(* Requests.  Allowed holds the checks of the handlers and services against *)
(* the tables of the replica that serves the request; a group appointment   *)
(* is checked by nobody but the storage.  Answers to an appointment deleted *)
(* in the meantime are left out.                                            *)

Allowed(d, i) ==
    /\ i \notin d.rows \cup d.gone
    /\ \/ Kind[i] \in {"user", "group", "appt", "groupappt"}
       \/ Kind[i] = "member" /\ Needs[i] \subseteq d.rows
       \/ /\ Kind[i] = "answer" /\ Needs[i] \subseteq d.rows
          /\ \E j \in Slot(i) : Kind[j] = "invite" /\ j \in d.rows

\* On the leader the write goes through the log.  The notification of a new
\* personal appointment is written to the leader's own table only.
LeaderWrite(i) ==
    /\ requests < MaxRequests
    /\ Allowed(db[leader], i)
    /\ leader \notin Blocked
    /\ Commit([do |-> "apply", item |-> i, by |-> "client"],
              IF Kind[i] = "appt" THEN Note[i] ELSE NoItem)
    /\ requests' = requests + 1
    /\ UNCHANGED <<leader, since, scan, seen, missed, now, faults, rounds>>

\* The calls of the services and repositories in the fallback branches.
WriteLocally(d, i) ==
    CASE Kind[i] = "user"      -> [d EXCEPT !.rows = @ \cup {i}]
      [] Kind[i] = "group"     -> CreateGroup(d, i)
      [] Kind[i] = "groupappt" -> CreateGroupAppointment(d, i)
      [] Kind[i] = "answer"    -> AddNotification(UpdateParticipantStatus(d, i), Note[i])
      [] OTHER                 -> AddNotification(Put(d, i), Note[i])

\* A replica that is not the leader and has none to proxy to, or that lost the
\* leadership after routing, takes the fallback branch: its own tables only.
FallbackWrite(r, i) ==
    /\ r # leader
    /\ requests < MaxRequests
    /\ Allowed(db[r], i) /\ ~Fails(db[r], i)
    /\ db' = [db EXCEPT ![r] = WriteLocally(@, i)]
    /\ requests' = requests + 1
    /\ UNCHANGED <<leader, log, behind, stuck, since, scan, seen, missed, now, faults, rounds>>

Removable(d, i) ==
    /\ i \in d.rows
    /\ Kind[i] \in {"group", "member", "appt", "groupappt"}
    /\ \A g \in Item : Kind[g] = "group" => Member[g] # i

LeaderRemove(i) ==
    /\ requests < MaxRequests
    /\ Kind[i] # "group"
    /\ Removable(db[leader], i)
    /\ leader \notin Blocked
    /\ Commit([do |-> "remove", item |-> i, by |-> "client"], NoItem)
    /\ requests' = requests + 1
    /\ UNCHANGED <<leader, since, scan, seen, missed, now, faults, rounds>>

\* handleDeleteGroup proposes nothing, whoever serves it.
LocalRemove(r, i) ==
    /\ requests < MaxRequests
    /\ r # leader \/ Kind[i] = "group"
    /\ Removable(db[r], i)
    /\ db' = [db EXCEPT ![r] = ApplyRemoval(@, i)]
    /\ requests' = requests + 1
    /\ UNCHANGED <<leader, log, behind, stuck, since, scan, seen, missed, now, faults, rounds>>

----------------------------------------------------------------------------
(* The reconcilers.                                                         *)

Idle == [peers |-> {}, peer |-> NoReplica, feeds |-> <<>>, todo |-> {}, max |-> <<>>]

\* ORDER BY created_at ASC LIMIT 1000: the possible answers.
Oldest(due) ==
    {S \in SUBSET due :
        /\ Cardinality(S) = IF Cardinality(due) < EventLimit
                            THEN Cardinality(due) ELSE EventLimit
        /\ \A e \in S, x \in due \ S : e.ts <= x.ts}

ListEvents(p, f, t) ==
    Oldest({e \in db[p].events : FeedOf(e.item) = f /\ e.ts >= t})

\* The goroutine goes on to one of the peers left, or ends its round.
NextPeer(g, peers) ==
    IF peers = {} THEN {Idle}
    ELSE {[peers |-> peers \ {p}, peer |-> p, feeds |-> Feeds(g), todo |-> {},
           max |-> [f \in FeedsOf(g) |-> 0]] : p \in peers}

\* The ticker: leadership is checked here and nowhere else in the round.
StartRound(r, g) ==
    /\ r = leader
    /\ scan[r][g] = Idle
    /\ rounds < MaxRounds
    /\ rounds' = rounds + 1
    /\ \E s \in NextPeer(g, Replica \ {r}) : scan' = [scan EXCEPT ![r][g] = s]
    /\ UNCHANGED <<leader, log, db, behind, stuck, since, seen, missed, now, requests, faults>>

FetchDue(r, g) ==
    /\ scan[r][g].peer # NoReplica
    /\ scan[r][g].todo = {}
    /\ scan[r][g].feeds # <<>>

Fetch(r, g) ==
    /\ FetchDue(r, g)
    /\ LET s == scan[r][g]
           f == Head(s.feeds)
       IN \E S \in ListEvents(s.peer, f, since[r][s.peer][f]) :
             scan' = [scan EXCEPT ![r][g].feeds = Tail(@), ![r][g].todo = S]
    /\ UNCHANGED <<leader, log, db, behind, stuck, since, seen, missed, now, requests, faults, rounds>>

\* The request fails: groups go on with the memberships, the others with the
\* next peer.
FetchFails(r, g) ==
    /\ FetchDue(r, g)
    /\ faults < MaxFaults
    /\ scan' = [scan EXCEPT ![r][g].feeds = Tail(@)]
    /\ faults' = faults + 1
    /\ UNCHANGED <<leader, log, db, behind, stuck, since, seen, missed, now, requests, rounds>>

\* Event e, an oldest one left of the list, is dealt with.
Advance(r, g, e) ==
    /\ \A x \in scan[r][g].todo : e.ts <= x.ts
    /\ scan' = [scan EXCEPT ![r][g].todo = @ \ {e}, ![r][g].max[FeedOf(e.item)] = e.ts]
    /\ seen' = [seen EXCEPT ![r][scan[r][g].peer] = @ \cup {e}]

\* Mutant of Resolvable: remote identifiers are used as they are.
ResolvableAlways(d, i) == TRUE

\* The event of a group appointment carries no group_type, so the reconciler
\* cannot map its group.
Resolvable(d, i) == Kind[i] # "groupappt" /\ Needs[i] \subseteq d.rows

\* Mutant of Present: the signature leaves out what tells two items apart.
PresentAnyOfKind(d, i) == Kind[i] # "member" /\ \E j \in d.rows : Kind[j] = Kind[i]

\* Memberships are proposed whether they are there or not.
Present(d, i) == Kind[i] # "member" /\ i \in d.rows

SkipEvent(r, g, e) ==
    /\ LET i == e.item IN
       \/ Present(db[r], i) /\ UNCHANGED missed
       \/ /\ ~Resolvable(db[r], i)
          /\ missed' = [missed EXCEPT ![r] = @ \cup {i}]
    /\ Advance(r, g, e)
    /\ UNCHANGED <<leader, log, db, behind, stuck, since, now, requests, faults, rounds>>

\* A handler or another reconciler proposes at the same time, takes the same index
\* and replaces the row.  Both are told that all went well.
ProposeLost(r, g, e) ==
    /\ r = leader /\ r \notin Blocked /\ faults < MaxFaults
    /\ LET i == e.item IN
       /\ Resolvable(db[r], i) /\ ~Present(db[r], i)
       /\ missed' = [missed EXCEPT ![r] = @ \cup {i}]
    /\ faults' = faults + 1
    /\ Advance(r, g, e)
    /\ UNCHANGED <<leader, log, db, behind, stuck, since, now, requests, rounds>>

ProposeRepair(r, g, e) ==
    /\ r = leader /\ r \notin Blocked
    /\ LET i == e.item IN
       /\ Resolvable(db[r], i) /\ ~Present(db[r], i)
       /\ Commit([do |-> "apply", item |-> i, by |-> "repair"], NoItem)
    /\ Advance(r, g, e)
    /\ UNCHANGED <<leader, since, missed, now, requests, faults, rounds>>

\* Propose returns an error before the entry is stored: the leadership is gone,
\* the leader's own log is blocked, or no majority answers.  The reconciler goes
\* on with the next event.
ProposeFails(r, g, e) ==
    /\ LET i == e.item IN
       /\ Resolvable(db[r], i) /\ ~Present(db[r], i)
       /\ missed' = [missed EXCEPT ![r] = @ \cup {i}]
    /\ \/ (r # leader \/ r \in Blocked) /\ UNCHANGED faults
       \/ r = leader /\ faults < MaxFaults /\ faults' = faults + 1
    /\ Advance(r, g, e)
    /\ UNCHANGED <<leader, log, db, behind, stuck, since, now, requests, rounds>>

\* Mutant of UpdateState: the cursor is put at the time the round ends.
UpdateStateNow(r, g) ==
    LET s == scan[r][g] IN
    /\ s.peer # NoReplica /\ s.todo = {} /\ s.feeds = <<>>
    /\ since' = [since EXCEPT ![r][s.peer] =
                    [f \in Feed |-> IF f \in DOMAIN s.max /\ s.max[f] > 0 THEN now ELSE @[f]]]
    /\ \E next \in NextPeer(g, s.peers) : scan' = [scan EXCEPT ![r][g] = next]
    /\ UNCHANGED <<leader, log, db, behind, stuck, seen, missed, now, requests, faults, rounds>>

UpdateState(r, g) ==
    LET s == scan[r][g] IN
    /\ s.peer # NoReplica /\ s.todo = {} /\ s.feeds = <<>>
    /\ since' = [since EXCEPT ![r][s.peer] =
                    [f \in Feed |-> IF f \in DOMAIN s.max /\ s.max[f] > 0 THEN s.max[f] ELSE @[f]]]
    /\ \E next \in NextPeer(g, s.peers) : scan' = [scan EXCEPT ![r][g] = next]
    /\ UNCHANGED <<leader, log, db, behind, stuck, seen, missed, now, requests, faults, rounds>>

----------------------------------------------------------------------------
(* The environment.                                                         *)

Clock ==
    /\ now < MaxTime
    /\ now' = now + 1
    /\ UNCHANGED <<leader, log, db, behind, stuck, since, scan, seen, missed, requests, faults, rounds>>

\* The next events are those of a goroutine that has taken the time before and
\* inserts only now.
LateWriter ==
    /\ faults < MaxFaults
    /\ now' \in 1..(now - 1)
    /\ faults' = faults + 1
    /\ UNCHANGED <<leader, log, db, behind, stuck, since, scan, seen, missed, requests, rounds>>

\* Another replica takes over.  One that has not got the log back could take
\* over as well, and would start a new log: see the README.
ChangeLeader(r) ==
    /\ r \notin behind \cup {leader}
    /\ faults < MaxFaults
    /\ leader' = r
    /\ faults' = faults + 1
    /\ UNCHANGED <<log, db, behind, stuck, since, scan, seen, missed, now, requests, rounds>>

NoTables == [rows |-> {}, gone |-> {}, events |-> {}, last |-> [k \in Kinds |-> 0]]

\* A follower restarts: migrate drops its tables and its log, writes of its own
\* that nobody has fetched included, and the cursors were in memory.
Restart(r) ==
    /\ r # leader
    /\ faults < MaxFaults
    /\ db' = [db EXCEPT ![r] = [NoTables EXCEPT !.last = db[r].last]]
    /\ behind' = behind \cup {r}
    /\ stuck' = {s \in stuck : s.replica # r}
    /\ since' = [since EXCEPT ![r] = [p \in Replica |-> [f \in Feed |-> 0]]]
    /\ scan' = [scan EXCEPT ![r] = [g \in Goroutine |-> Idle]]
    /\ seen' = [seen EXCEPT ![r] = [p \in Replica |-> {}]]
    /\ missed' = [missed EXCEPT ![r] = {}]
    /\ faults' = faults + 1
    /\ UNCHANGED <<leader, log, now, requests, rounds>>

\* The log l on top of tables d.
Replay(d, l) ==
    LET s[n \in 0..Len(l)] == IF n = 0 THEN [db |-> d, stop |-> {}]
                              ELSE ApplyEntry(s[n - 1], l[n])
    IN s[Len(l)]

\* A broadcast of the leader brings the log from its first row on, and the
\* follower applies it on top of what it has written meanwhile.
CatchUp(r) ==
    /\ r \in behind
    /\ LET s == Replay(db[r], log) IN
       /\ db' = [db EXCEPT ![r] = s.db]
       /\ stuck' = stuck \cup Stop(r, s)
    /\ behind' = behind \ {r}
    /\ UNCHANGED <<leader, log, since, scan, seen, missed, now, requests, faults, rounds>>

Init ==
    /\ leader = FirstLeader
    /\ now = 1
    /\ log = [n \in 1..Len(Stored) |-> [do |-> "apply", item |-> Stored[n], by |-> "client"]]
    /\ db = [r \in Replica |-> Replay(NoTables, log).db]
    /\ behind = {}
    /\ stuck = {}
    /\ since = [r \in Replica |-> [p \in Replica |-> [f \in Feed |-> 0]]]
    /\ scan = [r \in Replica |-> [g \in Goroutine |-> Idle]]
    /\ seen = [r \in Replica |-> [p \in Replica |-> {}]]
    /\ missed = [r \in Replica |-> {}]
    /\ requests = 0 /\ faults = 0 /\ rounds = 0

Request ==
    \E i \in Item : \/ LeaderWrite(i)
                    \/ LeaderRemove(i)
                    \/ \E r \in Replica : FallbackWrite(r, i) \/ LocalRemove(r, i)

Round(r, g) ==
    \/ StartRound(r, g)
    \/ Fetch(r, g)
    \/ FetchFails(r, g)
    \/ \E e \in scan[r][g].todo : SkipEvent(r, g, e)
    \/ \E e \in scan[r][g].todo : ProposeRepair(r, g, e)
    \/ \E e \in scan[r][g].todo : ProposeFails(r, g, e)
    \/ \E e \in scan[r][g].todo : ProposeLost(r, g, e)
    \/ UpdateState(r, g)

Next ==
    \/ Request
    \/ \E r \in Replica, g \in Goroutine : Round(r, g)
    \/ \E r \in Replica : ChangeLeader(r) \/ Restart(r) \/ CatchUp(r)
    \/ Clock \/ LateWriter

Spec == Init /\ [][Next]_vars

----------------------------------------------------------------------------
(* Properties.                                                              *)

\* The cursor of every reconciler moves only past events it has looked at,
\* although the peer goes on writing between the fetch and the end of the round,
\* and however many rounds were cut short.  The exception are late events, stamped
\* before but inserted after another one of their feed: the cursor may be past
\* them when they appear, and then nobody ever reads them.
CursorPassesSeen ==
    \A r, p \in Replica : r # p =>
        \A e \in db[p].events :
            (e.ts < since[r][p][FeedOf(e.item)] /\ ~e.late) => e \in seen[r][p]

\* An entry a reconciler proposes blocks a replica's log only if it replays an
\* answer: groups, memberships, appointments and notifications are applied or
\* ignored on every replica, however its tables differ from the leader's.
OnlyAnswersBlock ==
    \A s \in stuck : s.by = "repair" => Kind[s.item] = "answer"

\* A personal appointment that a replica has marked deleted stays deleted
\* there until it restarts, although its creation event is fetched and proposed
\* again and again and the log is applied again after a restart.
DeletedStaysDeleted ==
    [][\A r \in Replica : \A a \in db[r].gone :
          Kind[a] = "appt" /\ ~Restart(r)
             => a \in db'[r].gone /\ a \notin db'[r].rows]_vars

\* A personal appointment or a notification whose event a reconciler has
\* looked at is in its tables, or marked deleted there, unless the reconciler
\* had to skip it, its proposal failed, or the replica's log is blocked - or the
\* proposal was acknowledged and lost, its row in the log replaced by that of a
\* handler or of another of the reconcilers, which all work at the same tick.
SeenIsKnown ==
    \A r, p \in Replica : \A e \in seen[r][p] :
        \/ Kind[e.item] \notin {"appt", "note"}
        \/ e.item \in db[r].rows \cup db[r].gone \cup missed[r]
        \/ r \in Blocked

\* reconciler_invitations.go: "OpInvitationAccept/Reject are idempotent at
\* apply time": replaying an answer never blocks a log.
AnswersAreIdempotent ==
    \A s \in stuck : s.by = "repair" => Kind[s.item] # "answer"

=============================================================================
