---------------------------- MODULE Replication ----------------------------
(***************************************************************************)
(* Log replication during one leadership: Propose and its retries, the     *)
(* per-peer goroutines of broadcastAppendEntries, the log half of          *)
(* HandleAppendEntries, the commit rule and the application of committed   *)
(* entries (consensus.go), with followers that restart from empty tables   *)
(* (storage.go) and a peer set that discovery replaces.                    *)
(*                                                                         *)
(* Terms are the subject of module Election: here the leader's term is the *)
(* term of every row, so a previous entry matches when it exists.  The     *)
(* leadership may end at any moment (LoseLeadership); what the goroutines  *)
(* that survive it still do is included.  One run of applyCommitted is a   *)
(* single step; two threads running it at once are the subject of module   *)
(* Apply.                                                                  *)
(***************************************************************************)
EXTENDS Naturals, FiniteSets

CONSTANTS
    Leader,         \* the replica that leads
    Follower,       \* the other replicas
    Proposer,       \* request handlers on the leader that call Propose
    NoEvent,        \* the absence of a row
    MaxLog,         \* bound on the calls of Propose per handler, and on the rows
    MaxAttempts,    \* maxRetries of replicateAndCommit (5 in the code)
    MaxTries,       \* perPeerMaxRetries of broadcastAppendEntries (5 in the code)
    MaxStale,       \* bound: goroutines of finished broadcasts still running
                    \* when the next one starts
    MaxDisturb      \* bound on heartbeats, restarts of followers and changes
                    \* of the leader's peer set together

ASSUME ReplicaAssumption == IsFiniteSet(Follower) /\ Leader \notin Follower
ASSUME BoundAssumption ==
    /\ MaxLog \in Nat /\ MaxAttempts \in Nat \ {0} /\ MaxTries \in Nat \ {0}
    /\ MaxStale \in Nat /\ MaxDisturb \in Nat

Node  == Follower \cup {Leader}
Event == Proposer \X (1..MaxLog)    \* the k-th write of a handler; its event_id
Index == 1..(MaxLog * Cardinality(Proposer))
Rows  == [Index -> Event \cup {NoEvent}]

ASSUME EventAssumption == IsFiniteSet(Proposer) /\ NoEvent \notin Event

VARIABLES
    leading,        \* role = leader on the leader
    log,            \* raft_log of every replica, by idx
    commitIndex,    \* RaftState.CommitIndex
    lastApplied,    \* RaftState.LastApplied
    raftApplied,    \* raft_applied: the events applied, with the index they had
    peers,          \* activePeers() of the leader
    nextIdx,        \* ConsensusImpl.nextIdx; 0 where the map has no key
    matchIdx,       \* ConsensusImpl.matchIdx
    op,             \* the local variables of the Propose each handler is running
    calls,          \* the per-peer goroutines of the replication path
    beats,          \* heartbeat requests in flight
    stored,         \* history: for every replica the longest log it ever had
    acked,          \* history: the events whose Propose returned nil
    heartbeats,     \* counters
    restarts,
    rediscoveries

logVars  == <<log, commitIndex, lastApplied, raftApplied, stored>>
peerVars == <<peers, nextIdx, matchIdx>>
bounds   == <<heartbeats, restarts, rediscoveries>>
vars     == <<leading, logVars, peerVars, op, calls, beats, acked, bounds>>

-----------------------------------------------------------------------------
(* The table raft_log.                                                     *)

NoRows == [i \in Index |-> NoEvent]
Has(rows, i) == i \in Index /\ rows[i] # NoEvent

\* The largest idx, 0 for an empty table (lastIndexTerm; nextIndex adds one).
LastIndex(rows) ==
    CHOOSE i \in Index \cup {0} :
        /\ i = 0 \/ Has(rows, i)
        /\ \A j \in Index : Has(rows, j) => j <= i

TruncateFrom(rows, i) == [j \in Index |-> IF j >= i THEN NoEvent ELSE rows[j]]
LoadFrom(rows, i)     == [j \in Index |-> IF j >= i THEN rows[j] ELSE NoEvent]

Smaller(a, b) == IF a < b THEN a ELSE b
Larger(a, b)  == IF a > b THEN a ELSE b
Majority(total) == (total \div 2) + 1

-----------------------------------------------------------------------------
Stage == {"idle", "indexed", "appended", "counting", "replicated", "committed", "waiting"}

Op == [stage : Stage, seq : 0..MaxLog, idx : Index \cup {0}, attempt : 0..MaxAttempts,
       total : Nat, successes : Nat, yes : Nat, no : Nat]

\* A goroutine of the replication path: it is about to read nextIdx, has its
\* request on the wire, or has an answer coming.  Its channel is "left" once
\* the broadcast that created it has returned.
Call == [by : Proposer, seq : 1..MaxLog, attempt : 1..MaxAttempts, to : Follower,
         last : Index, commit : Nat, try : 1..MaxTries, chan : {"open", "left"},
         stage : {"ready", "sent", "answered"}, prev : Nat, entries : Rows,
         success : BOOLEAN, match : Nat]

Beat == [to : Follower, prev : Nat, commit : Nat]

\* Every variable has its type; no Propose broadcasts more often than allowed.
TypeOK ==
    /\ leading \in BOOLEAN
    /\ log \in [Node -> Rows]
    /\ commitIndex \in [Node -> Index \cup {0}]
    /\ lastApplied \in [Node -> Index \cup {0}]
    /\ raftApplied \in [Node -> SUBSET (Index \X Event)]
    /\ stored \in [Node -> Index \cup {0}]
    /\ peers \subseteq Follower
    /\ nextIdx \in [Follower -> Nat]
    /\ matchIdx \in [Follower -> Index \cup {0}]
    /\ op \in [Proposer -> Op]
    /\ calls \subseteq Call
    /\ beats \subseteq Beat
    /\ acked \subseteq Event
    /\ heartbeats \in Nat /\ restarts \in Nat /\ rediscoveries \in Nat

\* A leader that has just been elected on empty logs.
Init ==
    /\ leading = TRUE
    /\ log = [n \in Node |-> NoRows]
    /\ commitIndex = [n \in Node |-> 0]
    /\ lastApplied = [n \in Node |-> 0]
    /\ raftApplied = [n \in Node |-> {}]
    /\ stored = [n \in Node |-> 0]
    /\ peers = Follower
    /\ nextIdx = [f \in Follower |-> 1]
    /\ matchIdx = [f \in Follower |-> 0]
    /\ op = [p \in Proposer |-> [stage |-> "idle", seq |-> 0, idx |-> 0, attempt |-> 0,
                                 total |-> 0, successes |-> 0, yes |-> 0, no |-> 0]]
    /\ calls = {} /\ beats = {}
    /\ acked = {}
    /\ heartbeats = 0 /\ restarts = 0 /\ rediscoveries = 0

-----------------------------------------------------------------------------
(* Propose.                                                                *)

\* The role check and the read of the next free index.
Propose(p) ==
    /\ leading
    /\ op[p].stage = "idle" /\ op[p].seq < MaxLog
    /\ op' = [op EXCEPT ![p].stage = "indexed", ![p].seq = @ + 1,
                        ![p].idx = LastIndex(log[Leader]) + 1]
    /\ UNCHANGED <<leading, logVars, peerVars, calls, beats, acked, bounds>>

\* appendLog: INSERT OR REPLACE at the index read before.
AppendLocal(p) ==
    /\ op[p].stage = "indexed"
    /\ log' = [log EXCEPT ![Leader][op[p].idx] = <<p, op[p].seq>>]
    /\ stored' = [stored EXCEPT ![Leader] = Larger(@, op[p].idx)]
    /\ op' = [op EXCEPT ![p].stage = "appended", ![p].attempt = 0]
    /\ UNCHANGED <<leading, commitIndex, lastApplied, raftApplied, peerVars, calls, beats, acked,
                   bounds>>

\* One broadcastAppendEntries: a goroutine per peer, counted against the
\* peers of this moment.
Broadcast(p) ==
    /\ op[p].stage = "appended"
    /\ Cardinality({c \in calls : c.chan = "left"}) <= MaxStale
    /\ calls' = calls \cup
          {[by |-> p, seq |-> op[p].seq, attempt |-> op[p].attempt + 1, to |-> f,
            last |-> LastIndex(log[Leader]), commit |-> commitIndex[Leader], try |-> 1,
            chan |-> "open", stage |-> "ready", prev |-> 0, entries |-> NoRows,
            success |-> FALSE, match |-> 0] : f \in peers}
    /\ op' = [op EXCEPT ![p].stage = "counting", ![p].attempt = @ + 1,
                        ![p].total = Cardinality(peers) + 1, ![p].successes = 1,
                        ![p].yes = 0, ![p].no = 0]
    /\ UNCHANGED <<leading, logVars, peerVars, beats, acked, bounds>>

\* The broadcast returned: its goroutines report to nobody.
Abandon(p) ==
    {IF c.by = p /\ c.chan = "open" THEN [c EXCEPT !.chan = "left"] ELSE c : c \in calls}

\* The counting loop reads one result.
Count(p, ok) ==
    LET successes == op[p].successes + (IF ok THEN 1 ELSE 0)
        done == successes >= Majority(op[p].total)
    IN  /\ op[p].stage = "counting"
        /\ IF ok THEN op[p].yes > 0 ELSE op[p].no > 0
        /\ op' = [op EXCEPT ![p].successes = successes,
                            ![p].yes = IF ok THEN @ - 1 ELSE @,
                            ![p].no = IF ok THEN @ ELSE @ - 1,
                            ![p].stage = IF done THEN "replicated" ELSE @]
        /\ calls' = IF done THEN Abandon(p) ELSE calls
        /\ UNCHANGED <<leading, logVars, peerVars, beats, acked, bounds>>

\* Mutant of EndBroadcast: the attempts are not bounded.
EndBroadcastForever(p) ==
    /\ op[p].stage = "counting"
    /\ op' = [op EXCEPT ![p].stage =
                 IF op[p].successes >= Majority(op[p].total) THEN "replicated" ELSE "appended"]
    /\ calls' = Abandon(p)
    /\ UNCHANGED <<leading, logVars, peerVars, beats, acked, bounds>>

\* All results are in, or three seconds are over.  Without a majority the
\* broadcast is repeated; after the last attempt replicateAndCommit goes on
\* as if it had succeeded.
EndBroadcast(p) ==
    LET won == op[p].successes >= Majority(op[p].total) IN
    /\ op[p].stage = "counting"
    /\ op' = [op EXCEPT ![p].stage =
                 IF won \/ op[p].attempt = MaxAttempts THEN "replicated" ELSE "appended"]
    /\ calls' = Abandon(p)
    /\ UNCHANGED <<leading, logVars, peerVars, beats, acked, bounds>>

\* Mutant of Candidate: whatever was broadcast is committed.
CandidateBroadcast == LastIndex(log[Leader])

\* The largest index that a majority of the current peers and the leader reported.
Matched(i) == {f \in peers : matchIdx[f] >= i}
Candidate ==
    CHOOSE i \in 0..LastIndex(log[Leader]) :
        /\ Cardinality(Matched(i)) + 1 >= Majority(Cardinality(peers) + 1)
        /\ \A j \in 0..LastIndex(log[Leader]) :
              Cardinality(Matched(j)) + 1 >= Majority(Cardinality(peers) + 1) => j <= i

RecalculateCommitIndex(p) ==
    /\ op[p].stage = "replicated"
    /\ commitIndex' = IF leading THEN [commitIndex EXCEPT ![Leader] = Larger(@, Candidate)]
                      ELSE commitIndex
    /\ op' = [op EXCEPT ![p].stage = "committed"]
    /\ UNCHANGED <<leading, log, lastApplied, raftApplied, stored, peerVars, calls, beats, acked,
                   bounds>>

\* Mutant of ToApply: only the row at commitIndex is loaded.
ToApplyLast(n) == {i \in Index : lastApplied[n] < i /\ i = commitIndex[n] /\ Has(log[n], i)}

\* The committed rows that are there are applied in index order; an event
\* that raft_applied already lists is skipped.
ToApply(n) == {i \in Index : lastApplied[n] < i /\ i <= commitIndex[n] /\ Has(log[n], i)}
ApplyCommitted(n) ==
    LET seen == {e \in Event : \E i \in Index : <<i, e>> \in raftApplied[n]}
        new  == {i \in ToApply(n) : /\ log[n][i] \notin seen
                                    /\ \A j \in ToApply(n) : log[n][j] = log[n][i] => i <= j}
    IN  /\ raftApplied' = [raftApplied EXCEPT ![n] = @ \cup {<<i, log[n][i]>> : i \in new}]
        /\ lastApplied' = [lastApplied EXCEPT ![n] =
                              IF ToApply(n) = {} THEN @
                              ELSE CHOOSE i \in ToApply(n) : \A j \in ToApply(n) : j <= i]

\* Propose applies what it committed.
ProposeApplies(p) ==
    /\ op[p].stage = "committed"
    /\ ApplyCommitted(Leader)
    /\ op' = [op EXCEPT ![p].stage = "waiting"]
    /\ UNCHANGED <<leading, log, commitIndex, stored, peerVars, calls, beats, acked, bounds>>

\* Mutant of Return: Propose does not wait.
ReturnAtOnce(p, ok) ==
    /\ op[p].stage = "waiting"
    /\ ok => leading
    /\ acked' = IF ok THEN acked \cup {<<p, op[p].seq>>} ELSE acked
    /\ op' = [op EXCEPT ![p].stage = "idle"]
    /\ UNCHANGED <<leading, logVars, peerVars, calls, beats, bounds>>

\* waitForApplied returns nil, or an error: leadership lost, or five seconds over.
Return(p, ok) ==
    /\ op[p].stage = "waiting"
    /\ ok => leading /\ lastApplied[Leader] >= op[p].idx
    /\ acked' = IF ok THEN acked \cup {<<p, op[p].seq>>} ELSE acked
    /\ op' = [op EXCEPT ![p] = [stage |-> "idle", seq |-> @.seq, idx |-> 0, attempt |-> 0,
                                total |-> 0, successes |-> 0, yes |-> 0, no |-> 0]]
    /\ UNCHANGED <<leading, logVars, peerVars, calls, beats, bounds>>

-----------------------------------------------------------------------------
(* The per-peer goroutines of the replication path.                        *)

\* Read nextIdx and send: nothing but the position of the last row when the
\* peer is thought to be up to date, else every row from nextIdx on.
Send(c) ==
    LET next == IF nextIdx[c.to] = 0 THEN c.last + 1 ELSE nextIdx[c.to]
        from == Smaller(next, c.last + 1)
    IN  /\ c.stage = "ready"
        /\ calls' = (calls \ {c}) \cup
              {[c EXCEPT !.stage = "sent", !.prev = from - 1,
                         !.entries = IF next > c.last THEN NoRows
                                     ELSE LoadFrom(log[Leader], next)]}
        /\ UNCHANGED <<leading, logVars, peerVars, op, beats, acked, bounds>>

\* The goroutine ends and puts its result in the channel, if that is still read.
Post(c, ok) ==
    op' = IF c.chan # "open" THEN op
          ELSE IF ok THEN [op EXCEPT ![c.by].yes = @ + 1]
                     ELSE [op EXCEPT ![c.by].no = @ + 1]

\* Mutant of AppendEntries: the previous row is not checked.
AppendEntriesUnchecked(n, prev, entries, leaderCommit) ==
    /\ log' = IF entries = NoRows THEN log
              ELSE [log EXCEPT ![n] = [i \in Index |-> IF i <= prev THEN @[i] ELSE entries[i]]]
    /\ commitIndex' = [commitIndex EXCEPT ![n] = Larger(@, leaderCommit)]
    /\ stored' = [stored EXCEPT ![n] = Larger(@, LastIndex(log'[n]))]
    /\ UNCHANGED lastApplied

\* The log half of HandleAppendEntries at replica n.
AppendEntries(n, prev, entries, leaderCommit) ==
    IF prev > 0 /\ ~Has(log[n], prev)
    THEN /\ log' = [log EXCEPT ![n] = TruncateFrom(@, prev)]
         /\ lastApplied' = [lastApplied EXCEPT ![n] = Smaller(@, prev - 1)]
         /\ commitIndex' = [commitIndex EXCEPT ![n] = Smaller(@, prev - 1)]
         /\ UNCHANGED stored
    ELSE /\ log' = IF entries = NoRows THEN log
                   ELSE [log EXCEPT ![n] =
                            [i \in Index |-> IF i <= prev THEN @[i] ELSE entries[i]]]
         /\ commitIndex' = [commitIndex EXCEPT ![n] = Larger(@, leaderCommit)]
         /\ stored' = [stored EXCEPT ![n] = Larger(@, LastIndex(log'[n]))]
         /\ UNCHANGED lastApplied

\* The follower handles the request and answers.
HandleAppendEntries(c) ==
    /\ c.stage = "sent"
    /\ AppendEntries(c.to, c.prev, c.entries, c.commit)
    /\ calls' = (calls \ {c}) \cup
          {[c EXCEPT !.stage = "answered", !.success = (c.prev = 0 \/ Has(log[c.to], c.prev)),
                     !.match = Larger(c.prev, LastIndex(c.entries)),
                     !.prev = 0, !.entries = NoRows]}
    /\ UNCHANGED <<leading, raftApplied, peerVars, op, beats, acked, bounds>>

\* The goroutine reads the answer.  Success moves nextIdx and matchIdx to
\* what the follower reported, a rejection steps nextIdx back and tries again.
HandleReply(c) ==
    /\ c.stage = "answered"
    /\ IF c.success
       THEN /\ matchIdx' = [matchIdx EXCEPT ![c.to] = c.match]
            /\ nextIdx' = [nextIdx EXCEPT ![c.to] = c.match + 1]
            /\ calls' = calls \ {c}
            /\ Post(c, TRUE)
       ELSE /\ nextIdx' = [nextIdx EXCEPT ![c.to] = IF @ <= 1 THEN 1 ELSE @ - 1]
            /\ UNCHANGED matchIdx
            /\ IF c.try < MaxTries
               THEN /\ calls' = (calls \ {c}) \cup
                                {[c EXCEPT !.stage = "ready", !.try = @ + 1, !.match = 0]}
                    /\ UNCHANGED op
               ELSE calls' = calls \ {c} /\ Post(c, FALSE)
    /\ UNCHANGED <<leading, logVars, peers, beats, acked, bounds>>

\* The request or the answer is lost: the goroutine sees an error and ends.
LoseCall(c) ==
    /\ c.stage \in {"sent", "answered"}
    /\ calls' = calls \ {c}
    /\ Post(c, FALSE)
    /\ UNCHANGED <<leading, logVars, peerVars, beats, acked, bounds>>

-----------------------------------------------------------------------------
(* The loop goroutines, restarts and discovery.                            *)

MayDisturb == heartbeats + restarts + rediscoveries < MaxDisturb

\* A heartbeat carries the position of the leader's last row and no rows;
\* its answer moves neither nextIdx nor matchIdx.
Heartbeat(f) ==
    /\ leading
    /\ f \in peers
    /\ MayDisturb
    /\ heartbeats' = heartbeats + 1
    /\ beats' = beats \cup {[to |-> f, prev |-> LastIndex(log[Leader]),
                             commit |-> commitIndex[Leader]]}
    /\ UNCHANGED <<leading, logVars, peerVars, op, calls, acked, restarts, rediscoveries>>

HandleHeartbeat(b) ==
    /\ AppendEntries(b.to, b.prev, NoRows, b.commit)
    /\ beats' = beats \ {b}
    /\ UNCHANGED <<leading, raftApplied, peerVars, op, calls, acked, bounds>>

LoseHeartbeat(b) ==
    /\ beats' = beats \ {b}
    /\ UNCHANGED <<leading, logVars, peerVars, op, calls, acked, bounds>>

\* Every tick of the loop ends in applyCommitted.
Tick(n) ==
    /\ ToApply(n) # {}
    /\ ApplyCommitted(n)
    /\ UNCHANGED <<leading, log, commitIndex, stored, peerVars, op, calls, beats, acked, bounds>>

\* The leader is demoted; Election says when.
LoseLeadership ==
    /\ leading
    /\ leading' = FALSE
    /\ UNCHANGED <<logVars, peerVars, op, calls, beats, acked, bounds>>

\* A follower restarts: migrate() drops its log, its meta data and its data.
Restart(f) ==
    /\ MayDisturb
    /\ restarts' = restarts + 1
    /\ log' = [log EXCEPT ![f] = NoRows]
    /\ commitIndex' = [commitIndex EXCEPT ![f] = 0]
    /\ lastApplied' = [lastApplied EXCEPT ![f] = 0]
    /\ raftApplied' = [raftApplied EXCEPT ![f] = {}]
    /\ UNCHANGED <<leading, stored, peerVars, op, calls, beats, acked, heartbeats, rediscoveries>>

\* Discovery replaces the leader's peer set; nextIdx and matchIdx stay.
SetSnapshot(ids) ==
    /\ MayDisturb
    /\ rediscoveries' = rediscoveries + 1
    /\ peers' = ids
    /\ UNCHANGED <<leading, logVars, nextIdx, matchIdx, op, calls, beats, acked, heartbeats,
                   restarts>>

-----------------------------------------------------------------------------
Next ==
    \/ \E p \in Proposer :
        \/ Propose(p)
        \/ AppendLocal(p)
        \/ Broadcast(p)
        \/ \E ok \in BOOLEAN : Count(p, ok)
        \/ EndBroadcast(p)
        \/ RecalculateCommitIndex(p)
        \/ ProposeApplies(p)
        \/ \E ok \in BOOLEAN : Return(p, ok)
    \/ \E c \in calls : Send(c) \/ HandleAppendEntries(c) \/ HandleReply(c) \/ LoseCall(c)
    \/ \E f \in Follower : Heartbeat(f) \/ Restart(f)
    \/ \E b \in beats : HandleHeartbeat(b) \/ LoseHeartbeat(b)
    \/ \E n \in Node : Tick(n)
    \/ \E ids \in SUBSET Follower : SetSnapshot(ids)
    \/ LoseLeadership

Spec == Init /\ [][Next]_vars

-----------------------------------------------------------------------------
(* What the replicas hold and what Propose promises.                       *)

\* With one handler: the log of a follower is a prefix of the leader's log, although requests
\* of earlier broadcasts are handled late, logs are cut back and extended
\* again, nextIdx is ahead of the follower, and followers restart empty.
FollowerPrefix ==
    \A f \in Follower, i \in Index :
        Has(log[f], i) => \A j \in 1..i : log[f][j] = log[Leader][j]

\* With one handler: when Propose returns nil the leader has applied that very event.
AckMeansApplied ==
    \A e \in acked : \E i \in Index : <<i, e>> \in raftApplied[Leader]

\* The event lost its index: another event has replaced its row, or it took the
\* row of one that had been applied.
Overtaken(e) ==
    \/ \A i \in Index : log[Leader][i] # e
    \/ \E i \in Index, d \in Event : log[Leader][i] = e /\ d # e /\ <<i, d>> \in raftApplied[Leader]

\* When handlers read the same index, waitForApplied looks at lastApplied and not
\* at the event: Propose may return nil for an event that was never applied.  Two
\* writes with one index are the only way to it.
AckedUnlessOvertaken ==
    \A e \in acked : (\E i \in Index : <<i, e>> \in raftApplied[Leader]) \/ Overtaken(e)

\* While the peer set is the whole cluster, an entry is committed only after
\* a majority of the replicas had it, whatever order the answers arrived in
\* and although the leader goes on after its last attempt failed.
CommittedWasStored ==
    rediscoveries = 0 =>
        Cardinality({n \in Node : stored[n] >= commitIndex[Leader]})
            >= Majority(Cardinality(Node))

-----------------------------------------------------------------------------
(* The promise to the state machines.                                      *)

\* The rows the leader has committed.
Chosen == [i \in 1..commitIndex[Leader] |-> log[Leader][i]]

Promise == INSTANCE ReplicatedLog
    WITH Replica <- Node, Command <- Event, chosen <- Chosen, applied <- raftApplied

\* Seen from the state machines the leadership implements one growing sequence
\* of commands: committed rows are never replaced or repeated, and every replica
\* executes them from the first on and without a gap, also when its commitIndex
\* is ahead of its rows, its log is cut back or it restarts.  No two replicas
\* execute different commands at one index.
ImplementsReplicatedLog == Promise!Spec
=============================================================================
