------------------------------ MODULE Election ------------------------------
(***************************************************************************)
(* Leadership in the agenda cluster: terms, votes, roles, the leader       *)
(* pointer of the PeerStore, pre-vote and vote rounds, leader heartbeats   *)
(* and the demotions they cause (consensus.go), the health poller          *)
(* (heartbeat.go), the membership snapshot that discovery installs         *)
(* (peers.go, discovery.go) and a process restart, which starts from empty *)
(* tables (storage.go).                                                    *)
(*                                                                         *)
(* The replicated log is left to module Replication.  A handler that       *)
(* inspects the log (is the candidate's log up to date?  does the previous *)
(* entry match?) is given either answer.                                   *)
(*                                                                         *)
(* Every node runs one loop goroutine, so at most one round of requests is *)
(* being counted at a node at any time; the goroutines that carry the      *)
(* requests outlive the round.  A request is addressed to a peer           *)
(* identifier; one replica may be known under several of them (its         *)
(* NODE_ID, a seed address, "dns:..." or "docker:..."), and each counts.   *)
(***************************************************************************)
EXTENDS Naturals, FiniteSets

CONSTANTS
    Node,           \* the replicas
    Id,             \* peer identifiers: every replica's NODE_ID and its aliases
    Host,           \* the replica an identifier resolves to
    NoNode,         \* the empty identifier
    Pollers,        \* the replicas whose health poller is modelled
    Campaigners,    \* bound: the replicas whose election timer may fire
    MaxTerm,        \* bound: no campaign starts in this term or above
    MaxStale,       \* bound: calls of earlier rounds a node may still have in flight
                    \* when it starts a round (the HTTP client gives up after 5 s)
    MaxRestarts,    \* bound on process restarts
    MaxRediscover   \* bound on membership changes

ASSUME NodeAssumption == /\ IsFiniteSet(Node) /\ IsFiniteSet(Id)
                         /\ Node \subseteq Id
                         /\ NoNode \notin Id
                         /\ Pollers \subseteq Node /\ Campaigners \subseteq Node
ASSUME HostAssumption == /\ Host \in [Id -> Node]
                         /\ \A n \in Node : Host[n] = n
ASSUME BoundAssumption == /\ MaxTerm \in Nat /\ MaxStale \in Nat
                          /\ MaxRestarts \in Nat /\ MaxRediscover \in Nat

VARIABLES
    currentTerm,        \* RaftState.CurrentTerm
    votedFor,           \* RaftState.VotedFor, as held in memory
    role,               \* follower, candidate or leader
    leader,             \* PeerStore.leader
    peers,              \* PeerStore.peers: the identifiers a node counts in its majorities
    heartbeatFailures,  \* consecutive heartbeat rounds without a majority
    failedElections,    \* consecutive lost elections, drives the backoff
    round,              \* the round the loop goroutine is counting
    requests,           \* RPC requests in flight
    replies,            \* AppendEntries replies in flight
    health,             \* the positive /raft/health answer a node's poller is about to store
    granted,            \* history: the votes a voter granted since it started
    restarts,           \* number of restarts so far
    rediscoveries       \* number of membership changes so far

nodeVars == <<currentTerm, votedFor, role, leader, heartbeatFailures, failedElections>>
netVars  == <<requests, replies, health>>
bounds   == <<restarts, rediscoveries>>
vars     == <<nodeVars, peers, round, netVars, granted, bounds>>

-----------------------------------------------------------------------------
(* Rounds.  A round is one run of a counting loop: the local variables     *)
(* votes (or successes), reachablePeers and len(peers), and the results    *)
(* that the per-peer goroutines have put in the channel but the loop has   *)
(* not read yet.                                                           *)

Phase == {"idle", "prevote", "vote", "heartbeat"}
Round == [phase : Phase, term : Nat, votes : Nat, reachable : Nat, contacts : Nat,
          yes : Nat, no : Nat]

Idle == [phase |-> "idle", term |-> 0, votes |-> 0, reachable |-> 0, contacts |-> 0,
         yes |-> 0, no |-> 0]

NewRound(phase, term, contacts) ==
    [phase |-> phase, term |-> term, votes |-> 1, reachable |-> 1, contacts |-> contacts,
     yes |-> 0, no |-> 0]

\* A request's channel is "open" while the round that sent it is counted,
\* "left" once the loop has returned, "gone" once its sender has restarted.
Request == [kind : {"prevote", "vote", "append"}, from : Node, to : Id, term : Nat,
            chan : {"open", "left", "gone"}]
Reply   == [from : Id, to : Node, reqTerm : Nat, term : Nat, success : BOOLEAN,
            chan : {"open", "left"}]

Majority(total) == (total \div 2) + 1

\* Mutant of Degraded: no degraded mode.
DegradedNever(r) == FALSE

\* Degraded mode accepts a lone self vote when one or two peers "responded".
Degraded(r) == r.votes = 1 /\ r.contacts > 0 /\ r.reachable \in {2, 3}

\* Mutant of Passes: elections, too, count against all known peers.
PassesKnownPeers(r) == r.votes >= Majority(r.contacts + 1)

\* Elections count against the peers that responded, heartbeats against all known peers.
Passes(r) ==
    IF r.phase = "heartbeat"
    THEN r.votes >= Majority(r.contacts + 1)
    ELSE r.votes >= Majority(r.reachable) \/ Degraded(r)

\* A peer that answered is reachable, whatever it answered.
Tally(r, ok) ==
    [phase |-> r.phase, term |-> r.term, contacts |-> r.contacts,
     votes     |-> IF ok THEN r.votes + 1 ELSE r.votes,
     reachable |-> r.reachable + 1,
     yes       |-> IF ok THEN r.yes - 1 ELSE r.yes,
     no        |-> IF ok THEN r.no ELSE r.no - 1]

Broadcast(n, kind, term) ==
    {[kind |-> kind, from |-> n, to |-> id, term |-> term, chan |-> "open"] : id \in peers[n]}

\* The loop stopped reading: what is still in flight can no longer be counted.
\* Calls that thereby lose their last possible effect are dropped: a pre-vote
\* request, a reply that carries no newer term.
Left(m) == IF m.chan = "open" THEN [m EXCEPT !.chan = "left"] ELSE m

AbandonRequests(n) ==
    {IF m.from = n THEN Left(m) ELSE m :
        m \in {q \in requests : ~(q.from = n /\ q.kind = "prevote")}}
AbandonReplies(n) ==
    {IF m.to = n THEN Left(m) ELSE m :
        m \in {q \in replies : ~(q.to = n /\ q.term <= q.reqTerm)}}

Stale(n) == {m \in requests : m.from = n /\ m.chan # "open"}
            \cup {m \in replies : m.to = n /\ m.chan # "open"}

\* The goroutine serving one request delivers its result to the round, if it still listens.
Post(m, n, ok) ==
    round' = IF m.chan # "open" THEN round
             ELSE IF ok THEN [round EXCEPT ![n].yes = @ + 1]
                        ELSE [round EXCEPT ![n].no = @ + 1]

-----------------------------------------------------------------------------
\* Every variable has its type; failures and rounds are counted within bounds.
TypeOK ==
    /\ currentTerm \in [Node -> Nat]
    /\ votedFor \in [Node -> Node \cup {NoNode}]
    /\ role \in [Node -> {"follower", "candidate", "leader"}]
    /\ leader \in [Node -> Id \cup {NoNode}]
    /\ peers \in [Node -> SUBSET Id]
    /\ heartbeatFailures \in [Node -> 0..2]
    /\ failedElections \in [Node -> 0..10]
    /\ round \in [Node -> Round]
    /\ requests \subseteq Request
    /\ replies \subseteq Reply
    /\ health \in [Node -> Id \cup {NoNode}]
    /\ granted \in [Node -> SUBSET (Node \X Nat)]
    /\ restarts \in Nat
    /\ rediscoveries \in Nat

Init ==
    /\ currentTerm = [n \in Node |-> 0]
    /\ votedFor = [n \in Node |-> NoNode]
    /\ role = [n \in Node |-> "follower"]
    /\ leader = [n \in Node |-> NoNode]
    /\ peers = [n \in Node |-> Id \ {n}]
    /\ heartbeatFailures = [n \in Node |-> 0]
    /\ failedElections = [n \in Node |-> 0]
    /\ round = [n \in Node |-> Idle]
    /\ requests = {} /\ replies = {}
    /\ health = [n \in Node |-> NoNode]
    /\ granted = [n \in Node |-> {}]
    /\ restarts = 0 /\ rediscoveries = 0

-----------------------------------------------------------------------------
(* The loop goroutine.                                                     *)

\* elect.C fires and startElection begins with runPreVote.
ElectionTick(n) ==
    /\ n \in Campaigners
    /\ round[n].phase = "idle"
    /\ Cardinality(Stale(n)) <= MaxStale
    /\ role[n] # "leader"
    /\ currentTerm[n] < MaxTerm
    /\ round' = [round EXCEPT ![n] = NewRound("prevote", currentTerm[n], Cardinality(peers[n]))]
    /\ requests' = requests \cup Broadcast(n, "prevote", currentTerm[n])
    /\ UNCHANGED <<nodeVars, peers, replies, health, granted, bounds>>

\* hb.C fires on a leader: broadcastAppendEntries(term, nil, commit).
HeartbeatTick(n) ==
    /\ round[n].phase = "idle"
    /\ Cardinality(Stale(n)) <= MaxStale
    /\ role[n] = "leader"
    /\ round' = [round EXCEPT ![n] = NewRound("heartbeat", currentTerm[n], Cardinality(peers[n]))]
    /\ requests' = requests \cup Broadcast(n, "append", currentTerm[n])
    /\ UNCHANGED <<nodeVars, peers, replies, health, granted, bounds>>

\* The pre-vote passed: take the next term and ask for votes.  The vote for
\* itself is written to raft_meta only; RaftState.VotedFor keeps its value.
BeginVote(n) ==
    /\ currentTerm' = [currentTerm EXCEPT ![n] = @ + 1]
    /\ role' = [role EXCEPT ![n] = "candidate"]
    /\ round' = [round EXCEPT ![n] = NewRound("vote", currentTerm[n] + 1, Cardinality(peers[n]))]
    /\ requests' = AbandonRequests(n) \cup Broadcast(n, "vote", currentTerm[n] + 1)
    /\ UNCHANGED <<votedFor, leader, heartbeatFailures, failedElections, replies>>

\* Mutant of BecomeLeader: only a candidate whose term is still current leads.
BecomeLeaderIfCurrent(n) ==
    LET won == currentTerm[n] = round[n].term IN
    /\ role' = IF won THEN [role EXCEPT ![n] = "leader"] ELSE role
    /\ leader' = IF won THEN [leader EXCEPT ![n] = n] ELSE leader
    /\ round' = [round EXCEPT ![n] = Idle]
    /\ requests' = AbandonRequests(n)
    /\ UNCHANGED <<currentTerm, votedFor, heartbeatFailures, failedElections, replies>>

\* The vote round passed: lead, whatever happened to role and term meanwhile.
BecomeLeader(n) ==
    /\ role' = [role EXCEPT ![n] = "leader"]
    /\ leader' = [leader EXCEPT ![n] = n]
    /\ heartbeatFailures' = [heartbeatFailures EXCEPT ![n] = 0]
    /\ failedElections' = [failedElections EXCEPT ![n] = 0]
    /\ round' = [round EXCEPT ![n] = Idle]
    /\ requests' = AbandonRequests(n)
    /\ UNCHANGED <<currentTerm, votedFor, replies>>

\* A pre-vote or vote round is lost.
ElectionFails(n) ==
    /\ failedElections' = [failedElections EXCEPT ![n] = IF @ < 10 THEN @ + 1 ELSE @]
    /\ round' = [round EXCEPT ![n] = Idle]
    /\ requests' = AbandonRequests(n)
    /\ UNCHANGED <<currentTerm, votedFor, role, leader, heartbeatFailures, replies>>

\* A heartbeat round reached a majority.
HeartbeatOk(n) ==
    /\ heartbeatFailures' = [heartbeatFailures EXCEPT ![n] = 0]
    /\ round' = [round EXCEPT ![n] = Idle]
    /\ requests' = AbandonRequests(n)
    /\ replies' = AbandonReplies(n)
    /\ UNCHANGED <<currentTerm, votedFor, role, leader, failedElections>>

\* Mutant of HeartbeatFails: the demotion does not reset the counter.
HeartbeatFailsNoReset(n) ==
    LET demoted == heartbeatFailures[n] + 1 >= 3 IN
    /\ heartbeatFailures' = [heartbeatFailures EXCEPT ![n] = @ + 1]
    /\ role' = IF demoted THEN [role EXCEPT ![n] = "follower"] ELSE role
    /\ leader' = IF demoted THEN [leader EXCEPT ![n] = NoNode] ELSE leader
    /\ round' = [round EXCEPT ![n] = Idle]
    /\ requests' = AbandonRequests(n)
    /\ replies' = AbandonReplies(n)
    /\ UNCHANGED <<currentTerm, votedFor, failedElections>>

\* A heartbeat round failed; the third in a row demotes, even a node that
\* already follows someone else.
HeartbeatFails(n) ==
    LET demoted == heartbeatFailures[n] + 1 >= 3 IN
    /\ heartbeatFailures' = [heartbeatFailures EXCEPT ![n] = IF demoted THEN 0 ELSE @ + 1]
    /\ role' = IF demoted THEN [role EXCEPT ![n] = "follower"] ELSE role
    /\ leader' = IF demoted THEN [leader EXCEPT ![n] = NoNode] ELSE leader
    /\ round' = [round EXCEPT ![n] = Idle]
    /\ requests' = AbandonRequests(n)
    /\ replies' = AbandonReplies(n)
    /\ UNCHANGED <<currentTerm, votedFor, failedElections>>

Succeed(n) ==
    \/ round[n].phase = "prevote" /\ BeginVote(n)
    \/ round[n].phase = "vote" /\ BecomeLeader(n)
    \/ round[n].phase = "heartbeat" /\ HeartbeatOk(n)

Fail(n) == IF round[n].phase = "heartbeat" THEN HeartbeatFails(n) ELSE ElectionFails(n)

\* The counting loop reads one result from its channel.
Count(n, ok) ==
    /\ round[n].phase # "idle"
    /\ IF ok THEN round[n].yes > 0 ELSE round[n].no > 0
    /\ IF Passes(Tally(round[n], ok)) THEN Succeed(n)
       ELSE /\ round' = [round EXCEPT ![n] = Tally(round[n], ok)]
            /\ UNCHANGED <<nodeVars, requests, replies>>
    /\ UNCHANGED <<peers, health, granted, bounds>>

\* The round ends: every peer was counted, or the three second timer fired.
EndRound(n) ==
    /\ round[n].phase # "idle"
    /\ IF Passes(round[n]) THEN Succeed(n) ELSE Fail(n)
    /\ UNCHANGED <<peers, health, granted, bounds>>

-----------------------------------------------------------------------------
(* The RPC handlers.                                                       *)

\* Mutants of Vote: the earlier vote of the term is not looked at; any other
\* term, not only a newer one, is adopted.
VoteAnyone(n, m, upToDate) ==
    LET newer == m.kind = "vote" /\ m.term > currentTerm[n]
        grant == m.term >= currentTerm[n] /\ upToDate
    IN  [term     |-> IF newer THEN m.term ELSE currentTerm[n],
         votedFor |-> IF grant /\ m.kind = "vote" THEN m.from ELSE votedFor[n],
         grant    |-> grant]
VoteAnyTerm(n, m, upToDate) ==
    LET other == m.kind = "vote" /\ m.term # currentTerm[n]
        grant == upToDate /\ (other \/ votedFor[n] \in {NoNode, m.from})
    IN  [term     |-> IF other THEN m.term ELSE currentTerm[n],
         votedFor |-> IF grant /\ m.kind = "vote" THEN m.from ELSE votedFor[n],
         grant    |-> grant]

\* What HandleRequestVote answers and leaves behind at node n for request m,
\* given the outcome of comparing the two logs.
Vote(n, m, upToDate) ==
    LET newer == m.kind = "vote" /\ m.term > currentTerm[n]
        prior == IF newer THEN NoNode ELSE votedFor[n]
        grant == /\ m.term >= currentTerm[n]
                 /\ m.kind = "vote" => prior \in {NoNode, m.from}
                 /\ upToDate
    IN  [term     |-> IF newer THEN m.term ELSE currentTerm[n],
         votedFor |-> IF grant /\ m.kind = "vote" THEN m.from ELSE prior,
         grant    |-> grant]

\* The candidate looks at VoteGranted of a pre-vote only; a vote counts when
\* the HTTP exchange succeeded.  The answer may be lost on its way back.
HandleRequestVote(m, upToDate, answered) ==
    LET n == Host[m.to]
        v == Vote(n, m, upToDate)
    IN  /\ m \in requests /\ m.kind \in {"prevote", "vote"}
        /\ currentTerm' = [currentTerm EXCEPT ![n] = v.term]
        /\ votedFor' = [votedFor EXCEPT ![n] = v.votedFor]
        /\ granted' = IF v.grant /\ m.kind = "vote"
                      THEN [granted EXCEPT ![n] = @ \cup {<<m.from, m.term>>}] ELSE granted
        /\ Post(m, m.from, answered /\ (m.kind = "vote" \/ v.grant))
        /\ requests' = requests \ {m}
        /\ UNCHANGED <<role, leader, heartbeatFailures, failedElections, peers, replies, health,
                       bounds>>

\* Mutants of Follow: a leader of the same term is not demoted; the leader
\* pointer is only set by nodes that were not leading.
FollowNewerOnly(n, m) ==
    LET newer == m.term > currentTerm[n] IN
    /\ currentTerm' = [currentTerm EXCEPT ![n] = IF newer THEN m.term ELSE @]
    /\ role' = [role EXCEPT ![n] = IF newer THEN "follower" ELSE @]
    /\ leader' = [leader EXCEPT ![n] = IF newer \/ role[n] # "leader" THEN m.from ELSE @]
    /\ heartbeatFailures' = [heartbeatFailures EXCEPT ![n] = IF newer THEN 0 ELSE @]
FollowKeepPointer(n, m) ==
    LET newer == m.term > currentTerm[n] IN
    /\ currentTerm' = [currentTerm EXCEPT ![n] = IF newer THEN m.term ELSE @]
    /\ role' = [role EXCEPT ![n] = IF newer \/ @ = "leader" THEN "follower" ELSE @]
    /\ leader' = [leader EXCEPT ![n] = IF role[n] # "leader" THEN m.from ELSE @]
    /\ heartbeatFailures' = [heartbeatFailures EXCEPT ![n] = 0]

\* What HandleAppendEntries does to term, role and leader pointer of node n.
Follow(n, m) ==
    LET newer == m.term > currentTerm[n]
        rival == role[n] = "leader" /\ m.from # n
    IN  /\ currentTerm' = [currentTerm EXCEPT ![n] = IF newer THEN m.term ELSE @]
        /\ role' = [role EXCEPT ![n] = IF newer \/ rival THEN "follower" ELSE @]
        /\ leader' = [leader EXCEPT ![n] =
                         IF newer \/ rival \/ role[n] # "leader" THEN m.from ELSE @]
        /\ heartbeatFailures' =
               [heartbeatFailures EXCEPT ![n] = IF newer \/ rival THEN 0 ELSE @]

\* A request of an older term is refused; otherwise success is whatever the
\* log consistency check yields.  The reply matters to a sender that did not
\* restart and still counts answers, or learns a newer term from it.
HandleAppendEntries(m, success) ==
    LET n == Host[m.to] IN
    /\ m \in requests /\ m.kind = "append"
    /\ IF m.term < currentTerm[n]
       THEN /\ ~success
            /\ UNCHANGED <<currentTerm, role, leader, heartbeatFailures>>
       ELSE Follow(n, m)
    /\ replies' = IF m.chan = "open" \/ (m.chan = "left" /\ currentTerm[n] > m.term)
                  THEN replies \cup {[from |-> m.to, to |-> m.from, reqTerm |-> m.term,
                                      term |-> currentTerm'[n], success |-> success,
                                      chan |-> m.chan]}
                  ELSE replies
    /\ requests' = requests \ {m}
    /\ UNCHANGED <<votedFor, failedElections, peers, round, health, granted, bounds>>

\* The goroutine that sent a heartbeat reads the reply.  A newer term is
\* adopted and ends leadership, also when the round is long over.
HandleReply(m) ==
    LET n == m.to
        newer == m.term > m.reqTerm /\ m.term > currentTerm[n]
    IN  /\ m \in replies
        /\ currentTerm' = [currentTerm EXCEPT ![n] = IF newer THEN m.term ELSE @]
        /\ role' = [role EXCEPT ![n] = IF newer THEN "follower" ELSE @]
        /\ leader' = [leader EXCEPT ![n] = IF newer THEN NoNode ELSE @]
        /\ Post(m, n, m.success /\ m.term <= m.reqTerm)
        /\ replies' = replies \ {m}
        /\ UNCHANGED <<votedFor, heartbeatFailures, failedElections, peers, requests, health,
                       granted, bounds>>

\* A request or a reply is lost: the caller sees a transport error.
LoseRequest(m) ==
    /\ m \in requests
    /\ requests' = requests \ {m}
    /\ Post(m, m.from, FALSE)
    /\ UNCHANGED <<nodeVars, peers, replies, health, granted, bounds>>

LoseReply(m) ==
    /\ m \in replies
    /\ replies' = replies \ {m}
    /\ Post(m, m.to, FALSE)
    /\ UNCHANGED <<nodeVars, peers, requests, health, granted, bounds>>

-----------------------------------------------------------------------------
(* The health poller, discovery and restarts.                              *)

\* The poller of n asks a peer for /raft/health, one peer at a time, and the
\* peer says it is the leader.
HealthAnswer(n, id) ==
    /\ n \in Pollers
    /\ id \in peers[n]
    /\ health[n] = NoNode
    /\ role[Host[id]] = "leader"
    /\ health' = [health EXCEPT ![n] = id]
    /\ UNCHANGED <<nodeVars, peers, round, requests, replies, granted, bounds>>

\* The poller stores the identifier it polled as the leader.
HealthResult(n) ==
    /\ health[n] # NoNode
    /\ leader' = [leader EXCEPT ![n] = health[n]]
    /\ health' = [health EXCEPT ![n] = NoNode]
    /\ UNCHANGED <<currentTerm, votedFor, role, heartbeatFailures, failedElections, peers, round,
                   requests, replies, granted, bounds>>

\* Discovery replaces the peer map; a node never lists its own NODE_ID.
SetSnapshot(n, ids) ==
    /\ rediscoveries < MaxRediscover
    /\ peers' = [peers EXCEPT ![n] = ids \ {n}]
    /\ rediscoveries' = rediscoveries + 1
    /\ UNCHANGED <<nodeVars, round, netVars, granted, restarts>>

\* The process restarts.  migrate() drops raft_meta and raft_log, so term
\* and vote are gone; the goroutines waiting for answers are gone too.
Restart(n) ==
    /\ restarts < MaxRestarts
    /\ restarts' = restarts + 1
    /\ currentTerm' = [currentTerm EXCEPT ![n] = 0]
    /\ votedFor' = [votedFor EXCEPT ![n] = NoNode]
    /\ role' = [role EXCEPT ![n] = "follower"]
    /\ leader' = [leader EXCEPT ![n] = NoNode]
    /\ peers' = [peers EXCEPT ![n] = Id \ {n}]
    /\ heartbeatFailures' = [heartbeatFailures EXCEPT ![n] = 0]
    /\ failedElections' = [failedElections EXCEPT ![n] = 0]
    /\ round' = [round EXCEPT ![n] = Idle]
    /\ requests' = {IF m.from = n THEN [m EXCEPT !.chan = "gone"] ELSE m :
                       m \in {q \in requests : ~(q.from = n /\ q.kind = "prevote")}}
    /\ replies' = {m \in replies : m.to # n}
    /\ health' = [health EXCEPT ![n] = NoNode]
    /\ granted' = [granted EXCEPT ![n] = {}]
    /\ UNCHANGED rediscoveries

-----------------------------------------------------------------------------
Next ==
    \/ \E n \in Node :
        \/ ElectionTick(n)
        \/ HeartbeatTick(n)
        \/ \E ok \in BOOLEAN : Count(n, ok)
        \/ EndRound(n)
        \/ \E id \in Id : HealthAnswer(n, id)
        \/ HealthResult(n)
        \/ \E ids \in SUBSET Id : SetSnapshot(n, ids)
        \/ Restart(n)
    \/ \E m \in requests :
        \/ \E upToDate, answered \in BOOLEAN : HandleRequestVote(m, upToDate, answered)
        \/ \E success \in BOOLEAN : HandleAppendEntries(m, success)
        \/ LoseRequest(m)
    \/ \E m \in replies : HandleReply(m) \/ LoseReply(m)

Spec == Init /\ [][Next]_vars

\* The loop goroutine keeps running and its timers fire; an election timer
\* fires once no leader is left to reset it; every call ends, if only by the
\* HTTP client's timeout; an AppendEntries request that is sent again and
\* again is eventually handled and answered.
NoLeader == \A n \in Node : role[n] # "leader"

CallEnds(n) ==
    \/ \E m \in requests :
        /\ m.from = n
        /\ \/ LoseRequest(m)
           \/ \E u, a \in BOOLEAN : HandleRequestVote(m, u, a)
           \/ \E success \in BOOLEAN : HandleAppendEntries(m, success)
    \/ \E m \in replies : m.to = n /\ (LoseReply(m) \/ HandleReply(m))
Delivered(n, id) == \E m \in requests, success \in BOOLEAN :
                        m.from = n /\ m.to = id /\ HandleAppendEntries(m, success)
Answered(n, id)  == \E m \in replies : m.to = n /\ m.from = id /\ HandleReply(m)

LoopFairness ==
    \A n \in Node : /\ WF_vars(HeartbeatTick(n))
                    /\ WF_vars(EndRound(n))
                    /\ WF_vars(NoLeader /\ ElectionTick(n))
                    /\ WF_vars(CallEnds(n))
LinkFairness ==
    \A n \in Node, id \in Id : SF_vars(Delivered(n, id)) /\ SF_vars(Answered(n, id))

LoopSpec == Spec /\ LoopFairness
FairSpec == LoopSpec /\ LinkFairness

-----------------------------------------------------------------------------
(* What holds.                                                             *)

\* When every replica is known under its NODE_ID only, a node whose leader
\* pointer names itself is the leader: the pointer is moved by elections,
\* three kinds of demotion, AppendEntries and late health answers, and
\* LeaderWriteMiddleware of a follower proxies wherever it points, so a
\* follower never proxies a request to itself.
NoSelfProxy == Id = Node => \A n \in Node : leader[n] = n => role[n] = "leader"

\* Between two restarts a node grants at most one candidate a vote per
\* term, although three other code paths change its term without touching
\* VotedFor and several vote requests are in flight at once.
OneGrantPerTerm ==
    \A n \in Node : \A g, h \in granted[n] : g[2] = h[2] => g[1] = h[1]

\* No pre-vote and no election is ever lost, whatever the peers answer and
\* whether or not they answer: the failure branches of startElection and
\* runPreVote are dead and the election backoff never grows.
ElectionsAlwaysWon == \A n \in Node : failedElections[n] = 0

\* Only a restart takes a node back to a smaller term: a reply that was
\* overtaken by a newer term is not adopted.
TermsOnlyGrow ==
    [][\A n \in Node : currentTerm'[n] >= currentTerm[n] \/ restarts' # restarts]_vars

\* A candidate does not stay candidate: its vote round ends and decides.
CandidacyEnds == \A n \in Node : role[n] = "candidate" ~> role[n] # "candidate"

\* A cluster without leader in which everybody may still campaign gets one.
LeaderEmerges ==
    (NoLeader /\ \A n \in Node : currentTerm[n] < MaxTerm) ~> ~NoLeader

\* Two leaders (of any terms) that list each other as peers do not both
\* stay leaders: heartbeats or their replies demote one of them.
SplitBrainHeals ==
    \A n, m \in Node : n # m =>
        ((role[n] = "leader" /\ role[m] = "leader") ~> ~(role[n] = "leader" /\ role[m] = "leader"))

-----------------------------------------------------------------------------
(* What the documentation says and the code does not do.                   *)

\* docs/system_report.tex: any node can become leader, "pero solo uno lo es a la vez".
OneLeaderPerTerm ==
    \A n, m \in Node :
        role[n] = "leader" /\ role[m] = "leader" /\ currentTerm[n] = currentTerm[m] => n = m
=============================================================================
