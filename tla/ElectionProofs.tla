--------------------------- MODULE ElectionProofs ---------------------------
(* Theorems about Election, for every number of replicas, identifiers and  *)
(* every value of the bounds.                                              *)
EXTENDS Election, FiniteSetTheorems, TLAPS

-----------------------------------------------------------------------------
(* Facts about the operators the actions are built from.                   *)

\* The peer map is a set of identifiers, so it has a size, and the size of
\* a map that holds somebody is positive.
LEMMA PeerCount ==
    ASSUME NEW S, S \subseteq Id
    PROVE  /\ Cardinality(S) \in Nat
           /\ S # {} => Cardinality(S) > 0
<1>1. IsFiniteSet(S)
  BY FS_Subset, NodeAssumption
<1>2. Cardinality(S) \in Nat
  BY <1>1, FS_CardinalityType
<1>3. S # {} => Cardinality(S) # 0
  BY <1>1, FS_EmptySet
<1> QED
  BY <1>2, <1>3

\* A round that starts is well typed.
LEMMA NewRoundType ==
    ASSUME NEW phase \in Phase, NEW term \in Nat, NEW contacts \in Nat
    PROVE  NewRound(phase, term, contacts) \in Round
BY DEF NewRound, Round

\* A node without a round.
LEMMA IdleType == Idle \in Round
BY DEF Idle, Round, Phase

\* Abandoning the calls of a node keeps the messages well typed, keeps their
\* two ends, and leaves no request of that node open.
LEMMA AbandonRequestsFacts ==
    ASSUME requests \subseteq Request, NEW n \in Node
    PROVE  /\ AbandonRequests(n) \subseteq Request
           /\ \A m \in AbandonRequests(n) :
                \E q \in requests : /\ m.from = q.from /\ m.to = q.to
                                    /\ m.chan = "open" => m = q /\ m.from # n
<1>1. ASSUME NEW m \in AbandonRequests(n)
      PROVE  /\ m \in Request
             /\ \E q \in requests : /\ m.from = q.from /\ m.to = q.to
                                    /\ m.chan = "open" => m = q /\ m.from # n
  <2>1. PICK q \in requests : m = IF q.from = n THEN Left(q) ELSE q
    BY DEF AbandonRequests
  <2>2. q \in Request
    OBVIOUS
  <2>3. CASE q.from = n /\ q.chan = "open"
    <3>1. m = [q EXCEPT !.chan = "left"]
      BY <2>1, <2>3 DEF Left
    <3> QED
      BY <2>2, <3>1 DEF Request
  <2>4. CASE ~(q.from = n /\ q.chan = "open")
    <3>1. m = q
      BY <2>1, <2>4 DEF Left
    <3> QED
      BY <2>2, <2>4, <3>1
  <2> QED
    BY <2>3, <2>4
<1> QED
  BY <1>1

\* The same for the replies.
LEMMA AbandonRepliesFacts ==
    ASSUME replies \subseteq Reply, NEW n \in Node
    PROVE  /\ AbandonReplies(n) \subseteq Reply
           /\ \A m \in AbandonReplies(n) :
                m.chan = "open" => m \in replies /\ m.to # n
<1>1. ASSUME NEW m \in AbandonReplies(n)
      PROVE  /\ m \in Reply
             /\ m.chan = "open" => m \in replies /\ m.to # n
  <2>1. PICK q \in replies : m = IF q.to = n THEN Left(q) ELSE q
    BY DEF AbandonReplies
  <2>2. q \in Reply
    OBVIOUS
  <2>3. CASE q.to = n /\ q.chan = "open"
    <3>1. m = [q EXCEPT !.chan = "left"]
      BY <2>1, <2>3 DEF Left
    <3> QED
      BY <2>2, <3>1 DEF Reply
  <2>4. CASE ~(q.to = n /\ q.chan = "open")
    <3>1. m = q
      BY <2>1, <2>4 DEF Left
    <3> QED
      BY <2>2, <2>4, <3>1
  <2> QED
    BY <2>3, <2>4
<1> QED
  BY <1>1

\* The requests of a broadcast go to the peers, with an open channel.
LEMMA BroadcastFacts ==
    ASSUME TypeOK, NEW n \in Node, NEW kind \in {"prevote", "vote", "append"}, NEW term \in Nat
    PROVE  /\ Broadcast(n, kind, term) \subseteq Request
           /\ \A m \in Broadcast(n, kind, term) : m.from = n /\ m.to \in peers[n]
<1>1. peers[n] \subseteq Id
  BY DEF TypeOK
<1> QED
  BY <1>1 DEF Broadcast, Request

\* Posting a result keeps the rounds well typed.
LEMMA PostType ==
    ASSUME TypeOK, NEW n \in Node, NEW m, NEW ok \in BOOLEAN, Post(m, n, ok)
    PROVE  round' \in [Node -> Round]
<1>1. round[n] \in Round
  BY DEF TypeOK
<1>2. CASE m.chan # "open"
  BY <1>2 DEF Post, TypeOK
<1>3. CASE m.chan = "open" /\ ok
  <2>1. round' = [round EXCEPT ![n] = [round[n] EXCEPT !.yes = round[n].yes + 1]]
    BY <1>3 DEF Post, TypeOK
  <2>2. [round[n] EXCEPT !.yes = round[n].yes + 1] \in Round
    BY <1>1 DEF Round
  <2> QED
    BY <2>1, <2>2 DEF TypeOK
<1>4. CASE m.chan = "open" /\ ~ok
  <2>1. round' = [round EXCEPT ![n] = [round[n] EXCEPT !.no = round[n].no + 1]]
    BY <1>4 DEF Post, TypeOK
  <2>2. [round[n] EXCEPT !.no = round[n].no + 1] \in Round
    BY <1>1 DEF Round
  <2> QED
    BY <2>1, <2>2 DEF TypeOK
<1> QED
  BY <1>2, <1>3, <1>4

-----------------------------------------------------------------------------
(* Type correctness.                                                       *)

\* The ways a round can end keep every variable they change in its type.
LEMMA OutcomeType ==
    ASSUME TypeOK, NEW n \in Node, Succeed(n) \/ Fail(n),
           UNCHANGED <<peers, health, granted, bounds>>
    PROVE  TypeOK'
<1>a. peers[n] \subseteq Id /\ currentTerm[n] \in Nat /\ Cardinality(peers[n]) \in Nat
  <2>1. peers[n] \subseteq Id /\ currentTerm[n] \in Nat
    BY DEF TypeOK
  <2> QED
    BY <2>1, PeerCount
<1>b. AbandonRequests(n) \subseteq Request /\ AbandonReplies(n) \subseteq Reply
  BY AbandonRequestsFacts, AbandonRepliesFacts DEF TypeOK
<1>c. [round EXCEPT ![n] = Idle] \in [Node -> Round]
  BY IdleType DEF TypeOK
<1>1. CASE BeginVote(n)
  <2>1. NewRound("vote", currentTerm[n] + 1, Cardinality(peers[n])) \in Round
    BY <1>a, NewRoundType DEF Phase
  <2>2. Broadcast(n, "vote", currentTerm[n] + 1) \subseteq Request
    BY <1>a, BroadcastFacts
  <2> QED
    BY <1>1, <1>a, <1>b, <2>1, <2>2 DEF BeginVote, TypeOK, bounds
<1>2. CASE BecomeLeader(n)
  BY <1>2, <1>b, <1>c, NodeAssumption DEF BecomeLeader, TypeOK, bounds
<1>3. CASE HeartbeatOk(n)
  BY <1>3, <1>b, <1>c DEF HeartbeatOk, TypeOK, bounds
<1>4. CASE ElectionFails(n)
  <2>1. failedElections' \in [Node -> 0..10]
    BY <1>4 DEF ElectionFails, TypeOK
  <2> QED
    BY <1>4, <1>b, <1>c, <2>1 DEF ElectionFails, TypeOK, bounds
<1>5. CASE HeartbeatFails(n)
  <2>1. heartbeatFailures' \in [Node -> 0..2]
    BY <1>5 DEF HeartbeatFails, TypeOK
  <2>2. role' \in [Node -> {"follower", "candidate", "leader"}]
        /\ leader' \in [Node -> Id \cup {NoNode}]
    BY <1>5 DEF HeartbeatFails, TypeOK
  <2>3. /\ requests' = AbandonRequests(n) /\ replies' = AbandonReplies(n)
        /\ round' = [round EXCEPT ![n] = Idle]
        /\ UNCHANGED <<currentTerm, votedFor, failedElections>>
    BY <1>5 DEF HeartbeatFails
  <2> QED
    BY <1>b, <1>c, <2>1, <2>2, <2>3 DEF TypeOK, bounds
<1> QED
  BY <1>1, <1>2, <1>3, <1>4, <1>5 DEF Succeed, Fail

\* Restarting keeps the messages in flight well typed.
LEMMA RestartRequests ==
    ASSUME requests \subseteq Request, NEW n \in Node
    PROVE  \A m \in {IF m.from = n THEN [m EXCEPT !.chan = "gone"] ELSE m :
                       m \in {q \in requests : ~(q.from = n /\ q.kind = "prevote")}} :
             /\ m \in Request
             /\ \E q \in requests : /\ m.from = q.from /\ m.to = q.to
                                   /\ m.chan = "open" => m = q /\ m.from # n
<1> SUFFICES ASSUME NEW q \in requests, NEW m,
                    m = IF q.from = n THEN [q EXCEPT !.chan = "gone"] ELSE q
             PROVE  /\ m \in Request
                    /\ m.from = q.from /\ m.to = q.to
                    /\ m.chan = "open" => m = q /\ m.from # n
  OBVIOUS
<1>1. q \in Request
  OBVIOUS
<1>2. CASE q.from = n
  <2>1. m = [q EXCEPT !.chan = "gone"]
    BY <1>2
  <2> QED
    BY <1>1, <2>1 DEF Request
<1>3. CASE q.from # n
  BY <1>1, <1>3
<1> QED
  BY <1>2, <1>3

\* Every step keeps every variable in its type.
LEMMA TypeStep == TypeOK /\ [Next]_vars => TypeOK'
<1> SUFFICES ASSUME TypeOK, [Next]_vars
             PROVE  TypeOK'
  OBVIOUS
<1>1. ASSUME NEW n \in Node, ElectionTick(n) \/ HeartbeatTick(n)
      PROVE  TypeOK'
  <2>1. peers[n] \subseteq Id /\ currentTerm[n] \in Nat
    BY DEF TypeOK
  <2>2. Cardinality(peers[n]) \in Nat
    BY <2>1, PeerCount
  <2>3. \A p \in Phase : NewRound(p, currentTerm[n], Cardinality(peers[n])) \in Round
    BY <2>1, <2>2, NewRoundType
  <2>4. \A k \in {"prevote", "append"} : Broadcast(n, k, currentTerm[n]) \subseteq Request
    BY <2>1, BroadcastFacts
  <2> QED
    BY <1>1, <2>3, <2>4
       DEF ElectionTick, HeartbeatTick, Phase, TypeOK, nodeVars, bounds
<1>2. ASSUME NEW n \in Node, NEW ok \in BOOLEAN, Count(n, ok)
      PROVE  TypeOK'
  <2>1. CASE Passes(Tally(round[n], ok))
    <3>1. Succeed(n) /\ UNCHANGED <<peers, health, granted, bounds>>
      BY <1>2, <2>1 DEF Count
    <3> QED
      BY <3>1, OutcomeType
  <2>2. CASE ~Passes(Tally(round[n], ok))
    <3>1. /\ round' = [round EXCEPT ![n] = Tally(round[n], ok)]
          /\ UNCHANGED <<nodeVars, requests, replies, peers, health, granted, bounds>>
      BY <1>2, <2>2 DEF Count
    <3>2. IF ok THEN round[n].yes > 0 ELSE round[n].no > 0
      BY <1>2 DEF Count
    <3>3. round[n] \in Round
      BY DEF TypeOK
    <3>4. Tally(round[n], ok) \in Round
      BY <3>2, <3>3 DEF Round, Tally
    <3> QED
      BY <3>1, <3>4 DEF TypeOK, nodeVars, bounds
  <2> QED
    BY <2>1, <2>2
<1>3. ASSUME NEW n \in Node, EndRound(n)
      PROVE  TypeOK'
  BY <1>3, OutcomeType DEF EndRound
<1>4. ASSUME NEW m \in requests, NEW upToDate \in BOOLEAN, NEW answered \in BOOLEAN,
             HandleRequestVote(m, upToDate, answered)
      PROVE  TypeOK'
  <2> DEFINE n == Host[m.to]
             v == Vote(n, m, upToDate)
  <2>1. m \in Request /\ n \in Node /\ m.from \in Node /\ m.term \in Nat
    BY HostAssumption DEF TypeOK, Request
  <2>2. v.term \in Nat /\ v.votedFor \in Node \cup {NoNode} /\ v.grant \in BOOLEAN
    BY <2>1 DEF Vote, TypeOK
  <2>3. round' \in [Node -> Round]
    <3>1. Post(m, m.from, answered /\ (m.kind = "vote" \/ v.grant))
      BY <1>4 DEF HandleRequestVote
    <3>2. (answered /\ (m.kind = "vote" \/ v.grant)) \in BOOLEAN
      OBVIOUS
    <3> HIDE DEF v
    <3> QED
      BY <3>1, <3>2, <2>1, PostType
  <2>4. /\ currentTerm' = [currentTerm EXCEPT ![n] = v.term]
        /\ votedFor' = [votedFor EXCEPT ![n] = v.votedFor]
        /\ \/ granted' = granted
           \/ granted' = [granted EXCEPT ![n] = @ \cup {<<m.from, m.term>>}]
        /\ requests' = requests \ {m}
        /\ UNCHANGED <<role, leader, heartbeatFailures, failedElections, peers, replies, health,
                       bounds>>
    BY <1>4 DEF HandleRequestVote
  <2> HIDE DEF v, n
  <2>5. granted' \in [Node -> SUBSET (Node \X Nat)]
    BY <2>1, <2>4 DEF TypeOK
  <2> QED
    BY <2>1, <2>2, <2>3, <2>4, <2>5 DEF TypeOK, bounds
<1>5. ASSUME NEW m \in requests, NEW success \in BOOLEAN, HandleAppendEntries(m, success)
      PROVE  TypeOK'
  <2> DEFINE n == Host[m.to]
  <2>1. m \in Request /\ n \in Node /\ m.from \in Node /\ m.from \in Id /\ m.term \in Nat /\ m.to \in Id
    BY HostAssumption, NodeAssumption DEF TypeOK, Request
  <2> HIDE DEF n
  <2>2. /\ currentTerm' \in [Node -> Nat]
        /\ role' \in [Node -> {"follower", "candidate", "leader"}]
        /\ leader' \in [Node -> Id \cup {NoNode}]
        /\ heartbeatFailures' \in [Node -> 0..2]
    <3>1. \/ UNCHANGED <<currentTerm, role, leader, heartbeatFailures>>
          \/ Follow(n, m)
      BY <1>5 DEF HandleAppendEntries, n
    <3> QED
      BY <2>1, <3>1 DEF Follow, TypeOK
  <2>3. replies' \subseteq Reply
    <3>1. CASE replies' = replies
      BY <3>1 DEF TypeOK
    <3>2. CASE replies' # replies
      <4>1. /\ m.chan \in {"open", "left"}
            /\ replies' = replies \cup {[from |-> m.to, to |-> m.from, reqTerm |-> m.term,
                                         term |-> currentTerm'[n], success |-> success,
                                         chan |-> m.chan]}
        BY <1>5, <3>2 DEF HandleAppendEntries, n
      <4>2. currentTerm'[n] \in Nat
        BY <2>1, <2>2
      <4> QED
        BY <2>1, <4>1, <4>2 DEF TypeOK, Reply
    <3> QED
      BY <3>1, <3>2
  <2>4. /\ requests' = requests \ {m}
        /\ UNCHANGED <<votedFor, failedElections, peers, round, health, granted, bounds>>
    BY <1>5 DEF HandleAppendEntries
  <2> QED
    BY <2>2, <2>3, <2>4 DEF TypeOK, bounds
<1>6. ASSUME NEW m \in replies, HandleReply(m)
      PROVE  TypeOK'
  <2>1. m \in Reply /\ m.to \in Node /\ m.term \in Nat /\ m.reqTerm \in Nat /\ m.success \in BOOLEAN
    BY DEF TypeOK, Reply
  <2>2. round' \in [Node -> Round]
    <3>1. Post(m, m.to, m.success /\ m.term <= m.reqTerm)
      BY <1>6 DEF HandleReply
    <3>2. (m.success /\ m.term <= m.reqTerm) \in BOOLEAN
      OBVIOUS
    <3> QED
      BY <2>1, <3>1, <3>2, PostType
  <2>3. /\ currentTerm' \in [Node -> Nat]
        /\ role' \in [Node -> {"follower", "candidate", "leader"}]
        /\ leader' \in [Node -> Id \cup {NoNode}]
    BY <1>6, <2>1 DEF HandleReply, TypeOK
  <2>4. /\ replies' = replies \ {m}
        /\ UNCHANGED <<votedFor, heartbeatFailures, failedElections, peers, requests, health,
                       granted, bounds>>
    BY <1>6 DEF HandleReply
  <2> QED
    BY <2>2, <2>3, <2>4 DEF TypeOK, bounds
<1>7. ASSUME NEW m \in requests, LoseRequest(m)
      PROVE  TypeOK'
  <2>1. m.from \in Node
    BY DEF TypeOK, Request
  <2>2. round' \in [Node -> Round]
    BY <1>7, <2>1, PostType DEF LoseRequest
  <2> QED
    BY <1>7, <2>2 DEF LoseRequest, TypeOK, nodeVars, bounds
<1>8. ASSUME NEW m \in replies, LoseReply(m)
      PROVE  TypeOK'
  <2>1. m.to \in Node
    BY DEF TypeOK, Reply
  <2>2. round' \in [Node -> Round]
    BY <1>8, <2>1, PostType DEF LoseReply
  <2> QED
    BY <1>8, <2>2 DEF LoseReply, TypeOK, nodeVars, bounds
<1>9. ASSUME NEW n \in Node, NEW id \in Id, HealthAnswer(n, id)
      PROVE  TypeOK'
  BY <1>9 DEF HealthAnswer, TypeOK, nodeVars, bounds
<1>10. ASSUME NEW n \in Node, HealthResult(n)
       PROVE  TypeOK'
  BY <1>10 DEF HealthResult, TypeOK, bounds
<1>11. ASSUME NEW n \in Node, NEW ids \in SUBSET Id, SetSnapshot(n, ids)
       PROVE  TypeOK'
  BY <1>11 DEF SetSnapshot, TypeOK, nodeVars, netVars
<1>12. ASSUME NEW n \in Node, Restart(n)
       PROVE  TypeOK'
  <2>1. requests' \subseteq Request
    BY <1>12, RestartRequests DEF Restart, TypeOK
  <2>2. round' \in [Node -> Round]
    BY <1>12, IdleType DEF Restart, TypeOK
  <2> QED
    BY <1>12, <2>1, <2>2 DEF Restart, TypeOK
<1>13. CASE UNCHANGED vars
  BY <1>13 DEF vars, nodeVars, netVars, bounds, TypeOK
<1> QED
  BY <1>1, <1>2, <1>3, <1>4, <1>5, <1>6, <1>7, <1>8, <1>9, <1>10, <1>11, <1>12, <1>13 DEF Next

\* Every variable of Election keeps its type.
THEOREM TypeCorrect == Spec => []TypeOK
<1>1. Init => TypeOK
  BY IdleType, NodeAssumption DEF Init, TypeOK
<1> QED
  BY <1>1, TypeStep, PTL DEF Spec

-----------------------------------------------------------------------------
(* Votes.                                                                  *)

\* What one step may do to the term and the vote of node n: nothing, move to
\* a newer term, grant a vote, or start over.
Keeps(n)     == /\ currentTerm'[n] = currentTerm[n] /\ votedFor'[n] = votedFor[n]
                /\ granted'[n] = granted[n]
Advances(n)  == currentTerm'[n] > currentTerm[n] /\ granted'[n] = granted[n]
Grants(n)    == \E c \in Node :
                  /\ \/ currentTerm'[n] > currentTerm[n]
                     \/ currentTerm'[n] = currentTerm[n] /\ votedFor[n] \in {NoNode, c}
                  /\ votedFor'[n] = c
                  /\ granted'[n] = granted[n] \cup {<<c, currentTerm'[n]>>}
StartsOver(n) == granted'[n] = {} /\ restarts' # restarts

VoterMove(n) == Keeps(n) \/ Advances(n) \/ Grants(n) \/ StartsOver(n)

\* Every step is such a move for every node.
LEMMA VoterStep == TypeOK /\ [Next]_vars => \A n \in Node : VoterMove(n)
<1> SUFFICES ASSUME TypeOK, [Next]_vars, NEW n \in Node
             PROVE  VoterMove(n)
  OBVIOUS
<1> USE DEF VoterMove, Keeps, Advances
<1>a. currentTerm[n] \in Nat
  BY DEF TypeOK
<1>1. ASSUME NEW p \in Node, ElectionTick(p) \/ HeartbeatTick(p)
      PROVE  VoterMove(n)
  BY <1>1 DEF ElectionTick, HeartbeatTick, nodeVars
<1>2. ASSUME NEW p \in Node, Succeed(p) \/ Fail(p), UNCHANGED granted
      PROVE  VoterMove(n)
  <2>1. CASE BeginVote(p)
    <3>1. /\ currentTerm'[n] = IF n = p THEN currentTerm[n] + 1 ELSE currentTerm[n]
          /\ votedFor'[n] = votedFor[n]
      BY <2>1 DEF BeginVote, TypeOK
    <3> QED
      BY <1>2, <1>a, <3>1
  <2>2. CASE BecomeLeader(p)
    BY <1>2, <2>2 DEF BecomeLeader
  <2>3. CASE HeartbeatOk(p)
    BY <1>2, <2>3 DEF HeartbeatOk
  <2>4. CASE ElectionFails(p)
    BY <1>2, <2>4 DEF ElectionFails
  <2>5. CASE HeartbeatFails(p)
    BY <1>2, <2>5 DEF HeartbeatFails
  <2> QED
    BY <1>2, <2>1, <2>2, <2>3, <2>4, <2>5 DEF Succeed, Fail
<1>3. ASSUME NEW p \in Node, NEW ok \in BOOLEAN, Count(p, ok)
      PROVE  VoterMove(n)
  <2>1. CASE Passes(Tally(round[p], ok))
    BY <1>2, <1>3, <2>1 DEF Count
  <2>2. CASE ~Passes(Tally(round[p], ok))
    BY <1>3, <2>2 DEF Count, nodeVars
  <2> QED
    BY <2>1, <2>2
<1>4. ASSUME NEW p \in Node, EndRound(p)
      PROVE  VoterMove(n)
  BY <1>2, <1>4 DEF EndRound
<1>5. ASSUME NEW m \in requests, NEW upToDate \in BOOLEAN, NEW answered \in BOOLEAN,
             HandleRequestVote(m, upToDate, answered)
      PROVE  VoterMove(n)
  <2> DEFINE p == Host[m.to]
             v == Vote(p, m, upToDate)
  <2>1. p \in Node /\ m.from \in Node /\ m.term \in Nat
    BY HostAssumption DEF TypeOK, Request
  <2>2. /\ currentTerm' = [currentTerm EXCEPT ![p] = v.term]
        /\ votedFor' = [votedFor EXCEPT ![p] = v.votedFor]
        /\ granted' = IF v.grant /\ m.kind = "vote"
                      THEN [granted EXCEPT ![p] = @ \cup {<<m.from, m.term>>}] ELSE granted
    BY <1>5 DEF HandleRequestVote
  <2>3. CASE n # p
    BY <2>2, <2>3 DEF TypeOK
  <2>4. CASE n = p /\ v.grant /\ m.kind = "vote"
    <3>1. /\ v.term = m.term /\ v.votedFor = m.from
          /\ \/ m.term > currentTerm[n]
             \/ m.term = currentTerm[n] /\ votedFor[n] \in {NoNode, m.from}
      BY <1>a, <2>1, <2>4 DEF Vote
    <3>2. /\ currentTerm'[n] = m.term /\ votedFor'[n] = m.from
          /\ granted'[n] = granted[n] \cup {<<m.from, m.term>>}
      BY <2>2, <2>4, <3>1 DEF TypeOK
    <3> QED
      BY <2>1, <3>1, <3>2 DEF Grants
  <2>5. CASE n = p /\ ~(v.grant /\ m.kind = "vote")
    <3>1. \/ v.term = currentTerm[n] /\ v.votedFor = votedFor[n]
          \/ v.term > currentTerm[n]
      BY <1>a, <2>1, <2>5 DEF Vote
    <3>2. /\ currentTerm'[n] = v.term /\ votedFor'[n] = v.votedFor
          /\ granted'[n] = granted[n]
      <4> HIDE DEF v
      <4> QED BY <2>2, <2>5 DEF TypeOK
    <3> QED
      BY <3>1, <3>2
  <2> QED
    BY <2>3, <2>4, <2>5
<1>6. ASSUME NEW m \in requests, NEW success \in BOOLEAN, HandleAppendEntries(m, success)
      PROVE  VoterMove(n)
  <2>1. m.term \in Nat /\ Host[m.to] \in Node
    BY HostAssumption DEF TypeOK, Request
  <2>2. UNCHANGED currentTerm
        \/ currentTerm' = [currentTerm EXCEPT ![Host[m.to]] =
                              IF m.term > currentTerm[Host[m.to]] THEN m.term ELSE @]
    BY <1>6 DEF HandleAppendEntries, Follow
  <2>3. currentTerm'[n] = currentTerm[n] \/ currentTerm'[n] > currentTerm[n]
    BY <2>1, <2>2 DEF TypeOK
  <2>4. UNCHANGED <<votedFor, granted>>
    BY <1>6 DEF HandleAppendEntries
  <2> QED
    BY <2>3, <2>4
<1>7. ASSUME NEW m \in replies, HandleReply(m)
      PROVE  VoterMove(n)
  <2>1. m.term \in Nat /\ m.to \in Node
    BY DEF TypeOK, Reply
  <2>2. currentTerm'[n] = currentTerm[n] \/ currentTerm'[n] > currentTerm[n]
    BY <1>7, <2>1 DEF HandleReply, TypeOK
  <2>3. UNCHANGED <<votedFor, granted>>
    BY <1>7 DEF HandleReply
  <2> QED
    BY <2>2, <2>3
<1>8. ASSUME NEW m, LoseRequest(m) \/ LoseReply(m)
      PROVE  VoterMove(n)
  BY <1>8 DEF LoseRequest, LoseReply, nodeVars
<1>9. ASSUME NEW p \in Node, \/ \E id \in Id : HealthAnswer(p, id)
                             \/ HealthResult(p)
                             \/ \E ids \in SUBSET Id : SetSnapshot(p, ids)
      PROVE  VoterMove(n)
  BY <1>9 DEF HealthAnswer, HealthResult, SetSnapshot, nodeVars
<1>10. ASSUME NEW p \in Node, Restart(p)
       PROVE  VoterMove(n)
  <2>1. CASE n = p
    <3>1. granted'[n] = {} /\ restarts' = restarts + 1 /\ restarts \in Nat
      BY <1>10, <2>1 DEF Restart, TypeOK
    <3> QED
      BY <3>1 DEF StartsOver
  <2>2. CASE n # p
    BY <1>10, <2>2 DEF Restart, TypeOK
  <2> QED
    BY <2>1, <2>2
<1>11. CASE UNCHANGED vars
  BY <1>11 DEF vars, nodeVars
<1> QED
  BY <1>1, <1>3, <1>4, <1>5, <1>6, <1>7, <1>8, <1>9, <1>10, <1>11 DEF Next

\* Only a restart takes a node back to a smaller term (TermsOnlyGrow): an
\* overtaken reply or request never lowers the term.
THEOREM TermsGrow == Spec => TermsOnlyGrow
<1>1. TypeOK /\ [Next]_vars
        => [\A n \in Node : currentTerm'[n] >= currentTerm[n] \/ restarts' # restarts]_vars
  <2> SUFFICES ASSUME TypeOK, [Next]_vars, NEW n \in Node
               PROVE  currentTerm'[n] >= currentTerm[n] \/ restarts' # restarts
    OBVIOUS
  <2>1. TypeOK'
    BY TypeStep
  <2>2. currentTerm[n] \in Nat /\ currentTerm'[n] \in Nat
    BY <2>1 DEF TypeOK
  <2>3. VoterMove(n)
    BY VoterStep
  <2> QED
    BY <2>2, <2>3 DEF VoterMove, Keeps, Advances, Grants, StartsOver
<1> QED
  BY <1>1, TypeCorrect, PTL DEF Spec, TermsOnlyGrow

\* The strengthening that makes OneGrantPerTerm inductive: no recorded vote
\* is of a later term, and those of the current term are for VotedFor.
GrantInv == \A n \in Node : \A g \in granted[n] :
                /\ g[2] <= currentTerm[n]
                /\ g[2] = currentTerm[n] => votedFor[n] = g[1]

\* Between restarts a node grants at most one candidate a vote per term
\* (OneGrantPerTerm), for any number of concurrent candidates.
THEOREM VotesOncePerTerm == Spec => []OneGrantPerTerm
<1>1. Init => GrantInv /\ OneGrantPerTerm
  BY DEF Init, GrantInv, OneGrantPerTerm
<1>2. TypeOK /\ GrantInv /\ OneGrantPerTerm /\ [Next]_vars => GrantInv' /\ OneGrantPerTerm'
  <2> SUFFICES ASSUME TypeOK, GrantInv, OneGrantPerTerm, [Next]_vars, NEW n \in Node
               PROVE  /\ \A g \in granted'[n] :
                            /\ g[2] <= currentTerm'[n]
                            /\ g[2] = currentTerm'[n] => votedFor'[n] = g[1]
                      /\ \A g, h \in granted'[n] : g[2] = h[2] => g[1] = h[1]
    BY DEF GrantInv, OneGrantPerTerm
  <2>1. TypeOK'
    BY TypeStep
  <2>2. /\ currentTerm[n] \in Nat /\ currentTerm'[n] \in Nat
        /\ \A g \in granted[n] : g[1] \in Node /\ g[2] \in Nat
    BY <2>1 DEF TypeOK
  <2>3. /\ \A g \in granted[n] : /\ g[2] <= currentTerm[n]
                                 /\ g[2] = currentTerm[n] => votedFor[n] = g[1]
        /\ \A g, h \in granted[n] : g[2] = h[2] => g[1] = h[1]
    BY DEF GrantInv, OneGrantPerTerm
  <2>4. CASE Keeps(n)
    BY <2>3, <2>4 DEF Keeps
  <2>5. CASE Advances(n)
    BY <2>2, <2>3, <2>5 DEF Advances
  <2>6. CASE Grants(n)
    <3>1. PICK c \in Node :
            /\ \/ currentTerm'[n] > currentTerm[n]
               \/ currentTerm'[n] = currentTerm[n] /\ votedFor[n] \in {NoNode, c}
            /\ votedFor'[n] = c
            /\ granted'[n] = granted[n] \cup {<<c, currentTerm'[n]>>}
      BY <2>6 DEF Grants
    <3>2. \A g \in granted[n] : /\ g[2] <= currentTerm'[n]
                                /\ g[2] = currentTerm'[n] => g[1] = c
      BY <2>2, <2>3, <3>1, NodeAssumption
    <3> QED
      BY <2>2, <2>3, <3>1, <3>2
  <2>7. CASE StartsOver(n)
    BY <2>7 DEF StartsOver
  <2> QED
    BY <2>4, <2>5, <2>6, <2>7, VoterStep DEF VoterMove
<1> QED
  BY <1>1, <1>2, TypeCorrect, PTL DEF Spec

-----------------------------------------------------------------------------
(* Elections are never lost.                                               *)

Electing(n) == round[n].phase \in {"prevote", "vote"}

\* The counting rule: a fresh round passes as it stands, and any first
\* answer, positive or negative, makes it pass too.
LEMMA FirstAnswerDecides ==
    ASSUME NEW r \in Round, r.phase \in {"prevote", "vote"}, r.votes = 1, r.reachable = 1
    PROVE  /\ Passes(r)
           /\ r.contacts > 0 => \A ok \in BOOLEAN : Passes(Tally(r, ok))
BY DEF Passes, Tally, Degraded, Majority, Round

\* What makes ElectionsAlwaysWon inductive: an election round that is still
\* being counted has read nothing; an answer waits in a channel, or a call
\* can still post one, only in a round that has peers and is of its kind.
RoundInv ==
    /\ \A n \in Node : /\ Electing(n) => round[n].votes = 1 /\ round[n].reachable = 1
                       /\ round[n].yes > 0 \/ round[n].no > 0 => round[n].contacts > 0
                       /\ failedElections[n] = 0
    /\ \A m \in requests : m.chan = "open" =>
          /\ round[m.from].contacts > 0
          /\ round[m.from].phase = IF m.kind = "append" THEN "heartbeat" ELSE m.kind
    /\ \A m \in replies : m.chan = "open" =>
          round[m.to].contacts > 0 /\ round[m.to].phase = "heartbeat"

\* A round that starts satisfies its part of the invariant.
LEMMA FreshRound ==
    ASSUME NEW phase, NEW term, NEW contacts
    PROVE  LET r == NewRound(phase, term, contacts) IN
           /\ r.phase = phase /\ r.contacts = contacts
           /\ r.votes = 1 /\ r.reachable = 1 /\ r.yes = 0 /\ r.no = 0
BY DEF NewRound

\* Posting a result changes no phase, no count that was read and no number of
\* contacts, and puts something in a channel only for an open call.
LEMMA PostFacts ==
    ASSUME TypeOK, NEW n \in Node, NEW m, NEW ok \in BOOLEAN, Post(m, n, ok), NEW p \in Node
    PROVE  /\ round'[p].phase = round[p].phase /\ round'[p].contacts = round[p].contacts
           /\ round'[p].votes = round[p].votes /\ round'[p].reachable = round[p].reachable
           /\ p # n \/ m.chan # "open" => round'[p] = round[p]
<1>1. round[n] \in Round /\ round \in [Node -> Round]
  BY DEF TypeOK
<1>2. CASE m.chan # "open"
  BY <1>2 DEF Post
<1>3. CASE m.chan = "open" /\ ok
  <2>1. round' = [round EXCEPT ![n] = [round[n] EXCEPT !.yes = round[n].yes + 1]]
    BY <1>1, <1>3 DEF Post
  <2> QED
    BY <1>1, <1>3, <2>1 DEF Round
<1>4. CASE m.chan = "open" /\ ~ok
  <2>1. round' = [round EXCEPT ![n] = [round[n] EXCEPT !.no = round[n].no + 1]]
    BY <1>1, <1>4 DEF Post
  <2> QED
    BY <1>1, <1>4, <2>1 DEF Round
<1> QED
  BY <1>2, <1>3, <1>4

\* Steps that only post a result preserve the invariant.
LEMMA PostInv ==
    ASSUME TypeOK, RoundInv, NEW n \in Node, NEW m, NEW ok \in BOOLEAN, Post(m, n, ok),
           m.chan = "open" => round[n].contacts > 0,
           failedElections' = failedElections, requests' \subseteq requests,
           replies' \subseteq replies
    PROVE  RoundInv'
<1>1. \A p \in Node :
         /\ round'[p].phase = round[p].phase /\ round'[p].contacts = round[p].contacts
         /\ round'[p].votes = round[p].votes /\ round'[p].reachable = round[p].reachable
         /\ p # n \/ m.chan # "open" => round'[p] = round[p]
  BY PostFacts
<1>2. /\ \A q \in requests : q.from \in Node
      /\ \A q \in replies : q.to \in Node
  BY DEF TypeOK, Request, Reply
<1> QED
  BY <1>1, <1>2 DEF RoundInv, Electing

\* The end of a round preserves the invariant; a lost election is impossible.
LEMMA OutcomeInv ==
    ASSUME TypeOK, RoundInv, NEW n \in Node,
           Succeed(n) \/ (round[n].phase = "heartbeat" /\ HeartbeatFails(n))
    PROVE  RoundInv'
<1>a. /\ \A q \in requests : q \in Request /\ q.from \in Node
      /\ \A q \in replies : q \in Reply /\ q.to \in Node
      /\ peers[n] \subseteq Id /\ currentTerm[n] + 1 \in Nat
      /\ round \in [Node -> Round] /\ failedElections \in [Node -> 0..10]
  BY DEF TypeOK, Request, Reply
<1>b. \A q \in AbandonRequests(n) : q.chan = "open" => q \in requests /\ q.from # n
  BY <1>a, AbandonRequestsFacts
<1>c. \A q \in AbandonReplies(n) : q.chan = "open" => q \in replies /\ q.to # n
  BY <1>a, AbandonRepliesFacts
<1>1. CASE round[n].phase = "prevote" /\ BeginVote(n)
  <2> DEFINE r == NewRound("vote", currentTerm[n] + 1, Cardinality(peers[n]))
  <2>1. /\ r.phase = "vote" /\ r.contacts = Cardinality(peers[n])
        /\ r.votes = 1 /\ r.reachable = 1 /\ r.yes = 0 /\ r.no = 0
    BY FreshRound
  <2> HIDE DEF r
  <2>2. /\ round' = [round EXCEPT ![n] = r]
        /\ requests' = AbandonRequests(n) \cup Broadcast(n, "vote", currentTerm[n] + 1)
        /\ UNCHANGED <<failedElections, replies>>
    BY <1>1 DEF BeginVote, r
  <2>3. \A q \in Broadcast(n, "vote", currentTerm[n] + 1) :
           q.from = n /\ q.kind = "vote" /\ Cardinality(peers[n]) > 0
    <3>1. \A q \in Broadcast(n, "vote", currentTerm[n] + 1) : q.from = n /\ q.kind = "vote"
      BY DEF Broadcast
    <3>2. Broadcast(n, "vote", currentTerm[n] + 1) # {} => peers[n] # {}
      BY DEF Broadcast
    <3> QED
      BY <1>a, <3>1, <3>2, PeerCount
  <2>4. \A q \in replies : q.chan = "open" => q.to # n
    BY <1>1 DEF RoundInv
  <2> QED
    BY <1>a, <1>b, <2>1, <2>2, <2>3, <2>4 DEF RoundInv, Electing
<1>2. CASE round[n].phase = "vote" /\ BecomeLeader(n)
  <2>1. \A q \in replies : q.chan = "open" => q.to # n
    BY <1>2 DEF RoundInv
  <2>2. /\ round' = [round EXCEPT ![n] = Idle] /\ requests' = AbandonRequests(n)
        /\ UNCHANGED replies /\ failedElections' = [failedElections EXCEPT ![n] = 0]
    BY <1>2 DEF BecomeLeader
  <2> QED
    BY <1>a, <1>b, <2>1, <2>2 DEF RoundInv, Electing, Idle
<1>3. CASE HeartbeatOk(n) \/ HeartbeatFails(n)
  <2>1. /\ round' = [round EXCEPT ![n] = Idle] /\ requests' = AbandonRequests(n)
        /\ replies' = AbandonReplies(n) /\ UNCHANGED failedElections
    BY <1>3 DEF HeartbeatOk, HeartbeatFails
  <2> QED
    BY <1>a, <1>b, <1>c, <2>1 DEF RoundInv, Electing, Idle
<1> QED
  BY <1>1, <1>2, <1>3 DEF Succeed

\* Every step preserves the invariant.
LEMMA RoundStep == TypeOK /\ RoundInv /\ [Next]_vars => RoundInv'
<1> SUFFICES ASSUME TypeOK, RoundInv, [Next]_vars
             PROVE  RoundInv'
  OBVIOUS
<1>a. /\ \A q \in requests : q \in Request /\ q.from \in Node
      /\ \A q \in replies : q \in Reply /\ q.to \in Node
      /\ round \in [Node -> Round]
  BY DEF TypeOK, Request, Reply
<1>1. ASSUME NEW n \in Node, NEW phase \in {"prevote", "heartbeat"}, NEW kind,
             kind = IF phase = "heartbeat" THEN "append" ELSE phase,
             round[n].phase = "idle",
             round' = [round EXCEPT ![n] = NewRound(phase, currentTerm[n], Cardinality(peers[n]))],
             requests' = requests \cup Broadcast(n, kind, currentTerm[n]),
             UNCHANGED <<failedElections, replies>>
      PROVE  RoundInv'
  <2> DEFINE r == NewRound(phase, currentTerm[n], Cardinality(peers[n]))
  <2>1. /\ r.phase = phase /\ r.contacts = Cardinality(peers[n])
        /\ r.votes = 1 /\ r.reachable = 1 /\ r.yes = 0 /\ r.no = 0
    BY FreshRound
  <2>2. round' = [round EXCEPT ![n] = r]
    BY <1>1
  <2> HIDE DEF r
  <2>3. \A q \in Broadcast(n, kind, currentTerm[n]) :
           q.from = n /\ q.kind = kind /\ Cardinality(peers[n]) > 0
    <3>1. \A q \in Broadcast(n, kind, currentTerm[n]) : q.from = n /\ q.kind = kind
      BY DEF Broadcast
    <3>2. Broadcast(n, kind, currentTerm[n]) # {} => peers[n] # {}
      BY DEF Broadcast
    <3>3. peers[n] \subseteq Id
      BY DEF TypeOK
    <3> QED
      BY <3>1, <3>2, <3>3, PeerCount
  <2>4. /\ \A q \in requests : q.chan = "open" => q.from # n
        /\ \A q \in replies : q.chan = "open" => q.to # n
    <3>1. \A q \in requests : q.kind # "idle"
      BY <1>a DEF Request
    <3> QED
      BY <1>1, <3>1 DEF RoundInv
  <2>5. \A p \in Node : p # n => round'[p] = round[p]
    BY <1>a, <2>2
  <2>6. round'[n] = r
    BY <1>a, <2>2
  <2>7. \A p \in Node :
          /\ Electing(p)' => round'[p].votes = 1 /\ round'[p].reachable = 1
          /\ round'[p].yes > 0 \/ round'[p].no > 0 => round'[p].contacts > 0
          /\ failedElections'[p] = 0
    BY <1>1, <2>1, <2>5, <2>6 DEF RoundInv, Electing
  <2>8. \A q \in requests' : q.chan = "open" =>
          /\ round'[q.from].contacts > 0
          /\ round'[q.from].phase = IF q.kind = "append" THEN "heartbeat" ELSE q.kind
    BY <1>1, <1>a, <2>1, <2>3, <2>4, <2>5, <2>6 DEF RoundInv
  <2>9. \A q \in replies' : q.chan = "open" =>
          round'[q.to].contacts > 0 /\ round'[q.to].phase = "heartbeat"
    BY <1>1, <1>a, <2>4, <2>5 DEF RoundInv
  <2> QED
    BY <2>7, <2>8, <2>9 DEF RoundInv
<1>2. ASSUME NEW n \in Node, ElectionTick(n)
      PROVE  RoundInv'
  BY <1>1, <1>2 DEF ElectionTick, nodeVars
<1>3. ASSUME NEW n \in Node, HeartbeatTick(n)
      PROVE  RoundInv'
  BY <1>1, <1>3 DEF HeartbeatTick, nodeVars
<1>4. ASSUME NEW n \in Node, NEW ok \in BOOLEAN, Count(n, ok)
      PROVE  RoundInv'
  <2>1. CASE Passes(Tally(round[n], ok))
    BY <1>4, <2>1, OutcomeInv DEF Count
  <2>2. CASE ~Passes(Tally(round[n], ok))
    <3>1. /\ round[n] \in Round /\ round[n].phase # "idle"
          /\ IF ok THEN round[n].yes > 0 ELSE round[n].no > 0
          /\ round' = [round EXCEPT ![n] = Tally(round[n], ok)]
          /\ UNCHANGED <<nodeVars, requests, replies>>
      BY <1>4, <1>a, <2>2 DEF Count
    <3>2. ~Electing(n)
      <4>1. round[n].contacts > 0
        BY <3>1 DEF RoundInv
      <4> QED
        BY <2>2, <3>1, <4>1, FirstAnswerDecides DEF RoundInv, Electing
    <3>3. /\ round'[n].phase = round[n].phase /\ round'[n].contacts = round[n].contacts
          /\ round[n].contacts > 0
          /\ \A p \in Node : p # n => round'[p] = round[p]
      BY <1>a, <3>1 DEF Tally, RoundInv
    <3> QED
      BY <1>a, <3>1, <3>2, <3>3 DEF RoundInv, Electing, nodeVars
  <2> QED
    BY <2>1, <2>2
<1>5. ASSUME NEW n \in Node, EndRound(n)
      PROVE  RoundInv'
  <2>1. CASE Electing(n)
    <3>1. Passes(round[n])
      BY <1>a, <2>1, FirstAnswerDecides DEF RoundInv, Electing
    <3> QED
      BY <1>5, <3>1, OutcomeInv DEF EndRound
  <2>2. CASE ~Electing(n)
    <3>1. round[n].phase = "heartbeat"
      BY <1>5, <1>a, <2>2 DEF EndRound, Electing, Round, Phase
    <3>2. Succeed(n) \/ HeartbeatFails(n)
      BY <1>5, <3>1 DEF EndRound, Fail
    <3> QED
      BY <3>1, <3>2, OutcomeInv
  <2> QED
    BY <2>1, <2>2
<1>6. ASSUME NEW m \in requests, NEW upToDate \in BOOLEAN, NEW answered \in BOOLEAN,
             HandleRequestVote(m, upToDate, answered)
      PROVE  RoundInv'
  <2> DEFINE ok == answered /\ (m.kind = "vote" \/ Vote(Host[m.to], m, upToDate).grant)
  <2>1. /\ Post(m, m.from, ok) /\ requests' = requests \ {m}
        /\ UNCHANGED <<failedElections, replies>>
    BY <1>6 DEF HandleRequestVote
  <2>2. ok \in BOOLEAN
    OBVIOUS
  <2>3. m.chan = "open" => round[m.from].contacts > 0
    BY DEF RoundInv
  <2> HIDE DEF ok
  <2> QED
    BY <1>a, <2>1, <2>2, <2>3, PostInv
<1>7. ASSUME NEW m \in requests, NEW success \in BOOLEAN, HandleAppendEntries(m, success)
      PROVE  RoundInv'
  <2>1. /\ requests' = requests \ {m} /\ m.kind = "append"
        /\ UNCHANGED <<failedElections, round>>
    BY <1>7 DEF HandleAppendEntries
  <2>2. \A q \in replies' : q \in replies \/ (q.to = m.from /\ q.chan = m.chan)
    BY <1>7 DEF HandleAppendEntries
  <2>3. m.chan = "open" => round[m.from].contacts > 0 /\ round[m.from].phase = "heartbeat"
    BY <2>1 DEF RoundInv
  <2> QED
    BY <2>1, <2>2, <2>3 DEF RoundInv, Electing
<1>8. ASSUME NEW m \in replies, HandleReply(m)
      PROVE  RoundInv'
  <2> DEFINE ok == m.success /\ m.term <= m.reqTerm
  <2>1. /\ Post(m, m.to, ok) /\ replies' = replies \ {m}
        /\ UNCHANGED <<failedElections, requests>>
    BY <1>8 DEF HandleReply
  <2>2. ok \in BOOLEAN
    OBVIOUS
  <2>3. m.chan = "open" => round[m.to].contacts > 0
    BY DEF RoundInv
  <2> HIDE DEF ok
  <2> QED
    BY <1>a, <2>1, <2>2, <2>3, PostInv
<1>9. ASSUME NEW m \in requests, LoseRequest(m)
      PROVE  RoundInv'
  <2>1. m.chan = "open" => round[m.from].contacts > 0
    BY DEF RoundInv
  <2> QED
    BY <1>9, <1>a, <2>1, PostInv DEF LoseRequest, nodeVars
<1>10. ASSUME NEW m \in replies, LoseReply(m)
       PROVE  RoundInv'
  <2>1. m.chan = "open" => round[m.to].contacts > 0
    BY DEF RoundInv
  <2> QED
    BY <1>10, <1>a, <2>1, PostInv DEF LoseReply, nodeVars
<1>11. ASSUME UNCHANGED <<round, requests, replies, failedElections>>
       PROVE  RoundInv'
  BY <1>11 DEF RoundInv, Electing
<1>12. ASSUME NEW n \in Node, NEW id \in Id, HealthAnswer(n, id)
       PROVE  RoundInv'
  BY <1>11, <1>12 DEF HealthAnswer, nodeVars
<1>13. ASSUME NEW n \in Node, HealthResult(n)
       PROVE  RoundInv'
  BY <1>11, <1>13 DEF HealthResult
<1>14. ASSUME NEW n \in Node, NEW ids \in SUBSET Id, SetSnapshot(n, ids)
       PROVE  RoundInv'
  BY <1>11, <1>14 DEF SetSnapshot, nodeVars, netVars
<1>15. ASSUME NEW n \in Node, Restart(n)
       PROVE  RoundInv'
  <2>1. /\ round' = [round EXCEPT ![n] = Idle]
        /\ failedElections' = [failedElections EXCEPT ![n] = 0]
        /\ replies' = {m \in replies : m.to # n}
    BY <1>15 DEF Restart
  <2>2. \A q \in requests' : q.chan = "open" => q \in requests /\ q.from # n
    <3>1. requests \subseteq Request
      BY DEF TypeOK
    <3>2. requests' = {IF m.from = n THEN [m EXCEPT !.chan = "gone"] ELSE m :
                         m \in {q \in requests : ~(q.from = n /\ q.kind = "prevote")}}
      BY <1>15 DEF Restart
    <3> SUFFICES ASSUME NEW q \in requests', q.chan = "open"
                 PROVE  q \in requests /\ q.from # n
      OBVIOUS
    <3>3. PICK p \in requests : q = IF p.from = n THEN [p EXCEPT !.chan = "gone"] ELSE p
      BY <3>2
    <3>4. p \in Request
      BY <3>1
    <3>5. CASE p.from = n
      <4>1. q = [p EXCEPT !.chan = "gone"]
        BY <3>3, <3>5
      <4>2. q.chan = "gone"
        BY <3>4, <4>1 DEF Request
      <4> QED
        BY <4>2
    <3> QED
      BY <3>3, <3>5
  <2>3. failedElections \in [Node -> 0..10]
    BY DEF TypeOK
  <2> QED
    BY <1>a, <2>1, <2>2, <2>3 DEF RoundInv, Electing, Idle
<1>16. CASE UNCHANGED vars
  BY <1>11, <1>16 DEF vars, nodeVars, netVars
<1> QED
  BY <1>2, <1>3, <1>4, <1>5, <1>6, <1>7, <1>8, <1>9, <1>10, <1>12, <1>13, <1>14, <1>15, <1>16 DEF Next

\* No pre-vote and no election is ever lost (ElectionsAlwaysWon), whatever
\* the peers answer, for every cluster size and every set of identifiers.
THEOREM NeverLosesElection == Spec => []ElectionsAlwaysWon
<1>1. Init => RoundInv
  BY DEF Init, RoundInv, Electing, Idle
<1>2. RoundInv => ElectionsAlwaysWon
  BY DEF RoundInv, ElectionsAlwaysWon
<1> QED
  BY <1>1, <1>2, RoundStep, TypeCorrect, PTL DEF Spec

-----------------------------------------------------------------------------
(* A follower never proxies to itself.                                     *)

\* What makes NoSelfProxy inductive: a node is not its own peer, so its
\* poller never stores it as leader and no AppendEntries comes from itself;
\* and a leader never runs an election, so none of its rounds turns it into
\* a candidate behind a pointer that still names it.
PointerInv ==
    /\ \A n \in Node : /\ n \notin peers[n]
                       /\ health[n] # n
                       /\ leader[n] = n => role[n] = "leader"
                       /\ Electing(n) => role[n] # "leader"
    /\ \A m \in requests : m.to # m.from

\* Every step preserves it when replicas have no aliases.
LEMMA PointerStep ==
    ASSUME Id = Node, TypeOK, PointerInv, [Next]_vars
    PROVE  PointerInv'
<1>a. /\ \A q \in requests : q \in Request /\ q.from \in Node /\ q.to \in Node /\ Host[q.to] = q.to
      /\ \A q \in replies : q \in Reply /\ q.to \in Node
      /\ requests \subseteq Request
      /\ round \in [Node -> Round] /\ NoNode \notin Node
      /\ leader \in [Node -> Node \cup {NoNode}] /\ peers \in [Node -> SUBSET Node]
      /\ role \in [Node -> {"follower", "candidate", "leader"}]
      /\ health \in [Node -> Node \cup {NoNode}] /\ currentTerm \in [Node -> Nat]
  BY NodeAssumption, HostAssumption DEF TypeOK, Request, Reply
<1>b. ASSUME NEW n \in Node, NEW kind \in {"prevote", "vote", "append"}, NEW term \in Nat
      PROVE  \A q \in Broadcast(n, kind, term) : q.to # q.from
  <2>1. \A q \in Broadcast(n, kind, term) : q.from = n /\ q.to \in peers[n]
    BY BroadcastFacts
  <2> QED
    BY <2>1 DEF PointerInv
<1>c. ASSUME NEW n \in Node
      PROVE  \A q \in AbandonRequests(n) : q.to # q.from
  <2>1. \A q \in AbandonRequests(n) : \E p \in requests : q.from = p.from /\ q.to = p.to
    BY <1>a, AbandonRequestsFacts
  <2> QED
    BY <2>1 DEF PointerInv
<1>d. ASSUME NEW n \in Node, Succeed(n) \/ Fail(n), UNCHANGED <<peers, health>>
      PROVE  PointerInv'
  <2>1. CASE round[n].phase = "prevote" /\ BeginVote(n)
    <3>1. /\ role' = [role EXCEPT ![n] = "candidate"] /\ leader' = leader
          /\ \A p \in Node : p # n => round'[p] = round[p]
      BY <1>a, <2>1 DEF BeginVote
    <3>2. leader[n] # n
      BY <2>1 DEF PointerInv, Electing
    <3>3. \A q \in requests' : q.to # q.from
      BY <1>a, <1>b, <1>c, <2>1 DEF BeginVote
    <3> QED
      BY <1>a, <1>d, <3>1, <3>2, <3>3 DEF PointerInv, Electing
  <2>2. CASE round[n].phase = "vote" /\ BecomeLeader(n)
    <3>1. /\ role' = [role EXCEPT ![n] = "leader"] /\ leader' = [leader EXCEPT ![n] = n]
          /\ round' = [round EXCEPT ![n] = Idle] /\ requests' = AbandonRequests(n)
      BY <2>2 DEF BecomeLeader
    <3> QED
      BY <1>a, <1>c, <1>d, <3>1 DEF PointerInv, Electing, Idle
  <2>3. CASE HeartbeatOk(n) \/ HeartbeatFails(n) \/ ElectionFails(n)
    <3>1. /\ round' = [round EXCEPT ![n] = Idle] /\ requests' = AbandonRequests(n)
          /\ \/ role' = role /\ leader' = leader
             \/ /\ role' = [role EXCEPT ![n] = "follower"]
                /\ leader' = [leader EXCEPT ![n] = NoNode]
      BY <2>3 DEF HeartbeatOk, HeartbeatFails, ElectionFails
    <3> QED
      BY <1>a, <1>c, <1>d, <3>1 DEF PointerInv, Electing, Idle
  <2> QED
    BY <1>d, <2>1, <2>2, <2>3 DEF Succeed, Fail
<1>e. ASSUME NEW n \in Node, NEW phase, NEW kind \in {"prevote", "vote", "append"},
             round' = [round EXCEPT ![n] = NewRound(phase, currentTerm[n], Cardinality(peers[n]))],
             phase = "heartbeat" \/ role[n] # "leader",
             requests' = requests \cup Broadcast(n, kind, currentTerm[n]),
             UNCHANGED <<peers, health, leader, role>>
      PROVE  PointerInv'
  <2>1. NewRound(phase, currentTerm[n], Cardinality(peers[n])).phase = phase
    BY FreshRound
  <2>2. /\ round'[n].phase = phase
        /\ \A p \in Node : p # n => round'[p] = round[p]
    BY <1>a, <1>e, <2>1
  <2>3. \A q \in requests' : q.to # q.from
    BY <1>a, <1>b, <1>e DEF PointerInv
  <2> QED
    BY <1>e, <2>2, <2>3 DEF PointerInv, Electing
<1>f. ASSUME NEW n \in Node, NEW m, NEW ok \in BOOLEAN, Post(m, n, ok), requests' \subseteq requests,
             UNCHANGED <<peers, health, leader, role>>
      PROVE  PointerInv'
  <2>1. \A p \in Node : round'[p].phase = round[p].phase
    BY <1>f, PostFacts
  <2> QED
    BY <1>f, <2>1 DEF PointerInv, Electing
<1>1. ASSUME NEW n \in Node, ElectionTick(n)
      PROVE  PointerInv'
  BY <1>1, <1>e DEF ElectionTick, nodeVars
<1>2. ASSUME NEW n \in Node, HeartbeatTick(n)
      PROVE  PointerInv'
  BY <1>2, <1>e DEF HeartbeatTick, nodeVars
<1>3. ASSUME NEW n \in Node, NEW ok \in BOOLEAN, Count(n, ok)
      PROVE  PointerInv'
  <2>1. CASE Passes(Tally(round[n], ok))
    BY <1>3, <1>d, <2>1 DEF Count
  <2>2. CASE ~Passes(Tally(round[n], ok))
    <3>1. /\ round' = [round EXCEPT ![n] = Tally(round[n], ok)]
          /\ UNCHANGED <<role, leader, peers, health, requests>>
      BY <1>3, <2>2 DEF Count, nodeVars
    <3>2. \A p \in Node : round'[p].phase = round[p].phase
      BY <1>a, <3>1 DEF Tally
    <3> QED
      BY <3>1, <3>2 DEF PointerInv, Electing
  <2> QED
    BY <2>1, <2>2
<1>4. ASSUME NEW n \in Node, EndRound(n)
      PROVE  PointerInv'
  BY <1>4, <1>d DEF EndRound
<1>5. ASSUME NEW m \in requests, NEW upToDate \in BOOLEAN, NEW answered \in BOOLEAN,
             HandleRequestVote(m, upToDate, answered)
      PROVE  PointerInv'
  <2> DEFINE ok == answered /\ (m.kind = "vote" \/ Vote(Host[m.to], m, upToDate).grant)
  <2>1. /\ Post(m, m.from, ok) /\ requests' = requests \ {m}
        /\ UNCHANGED <<peers, health, leader, role>>
    BY <1>5 DEF HandleRequestVote
  <2>2. ok \in BOOLEAN
    OBVIOUS
  <2> HIDE DEF ok
  <2> QED
    BY <1>a, <1>f, <2>1, <2>2
<1>6. ASSUME NEW m \in requests, NEW success \in BOOLEAN, HandleAppendEntries(m, success)
      PROVE  PointerInv'
  <2>1. requests' = requests \ {m} /\ UNCHANGED <<peers, round, health>>
    BY <1>6 DEF HandleAppendEntries
  <2>2. CASE UNCHANGED <<role, leader>>
    BY <2>1, <2>2 DEF PointerInv, Electing
  <2>3. CASE Follow(m.to, m)
    <3>1. m.from # m.to
      BY DEF PointerInv
    <3>2. \A p \in Node : p # m.to => role'[p] = role[p] /\ leader'[p] = leader[p]
      BY <1>a, <2>3 DEF Follow
    <3>3. \/ role'[m.to] = "leader" /\ role[m.to] = "leader" /\ leader'[m.to] = leader[m.to]
          \/ role'[m.to] # "leader" /\ leader'[m.to] = m.from
      BY <1>a, <2>3, <3>1 DEF Follow
    <3> QED
      BY <1>a, <2>1, <3>1, <3>2, <3>3 DEF PointerInv, Electing
  <2> QED
    BY <1>6, <1>a, <2>2, <2>3 DEF HandleAppendEntries
<1>7. ASSUME NEW m \in replies, HandleReply(m)
      PROVE  PointerInv'
  <2> DEFINE ok == m.success /\ m.term <= m.reqTerm
  <2>1. Post(m, m.to, ok) /\ UNCHANGED <<peers, health, requests>>
    BY <1>7 DEF HandleReply
  <2>2. ok \in BOOLEAN
    OBVIOUS
  <2> HIDE DEF ok
  <2>3. \A p \in Node : round'[p].phase = round[p].phase
    BY <1>a, <2>1, <2>2, PostFacts
  <2>4. \A p \in Node : \/ role'[p] = role[p] /\ leader'[p] = leader[p]
                        \/ role'[p] = "follower" /\ leader'[p] = NoNode
    BY <1>7, <1>a DEF HandleReply
  <2> QED
    BY <1>a, <2>1, <2>3, <2>4 DEF PointerInv, Electing
<1>8. ASSUME NEW m \in requests, LoseRequest(m)
      PROVE  PointerInv'
  BY <1>8, <1>a, <1>f DEF LoseRequest, nodeVars
<1>9. ASSUME NEW m \in replies, LoseReply(m)
      PROVE  PointerInv'
  BY <1>9, <1>a, <1>f DEF LoseReply, nodeVars
<1>10. ASSUME NEW n \in Node, NEW id \in Id, HealthAnswer(n, id)
       PROVE  PointerInv'
  BY <1>10, <1>a DEF HealthAnswer, nodeVars, PointerInv, Electing
<1>11. ASSUME NEW n \in Node, HealthResult(n)
       PROVE  PointerInv'
  BY <1>11, <1>a DEF HealthResult, PointerInv, Electing
<1>12. ASSUME NEW n \in Node, NEW ids \in SUBSET Id, SetSnapshot(n, ids)
       PROVE  PointerInv'
  BY <1>12, <1>a DEF SetSnapshot, nodeVars, netVars, PointerInv, Electing
<1>13. ASSUME NEW n \in Node, Restart(n)
       PROVE  PointerInv'
  <2>1. \A q \in requests' : q.to # q.from
    <3>1. requests' = {IF m.from = n THEN [m EXCEPT !.chan = "gone"] ELSE m :
                         m \in {q \in requests : ~(q.from = n /\ q.kind = "prevote")}}
      BY <1>13 DEF Restart
    <3> SUFFICES ASSUME NEW q \in requests'
                 PROVE  q.to # q.from
      OBVIOUS
    <3>2. PICK p \in requests : q = IF p.from = n THEN [p EXCEPT !.chan = "gone"] ELSE p
      BY <3>1
    <3>3. p \in Request /\ p.to # p.from
      BY <1>a DEF PointerInv
    <3>4. CASE p.from = n
      <4>1. q = [p EXCEPT !.chan = "gone"]
        BY <3>2, <3>4
      <4> QED
        BY <3>3, <4>1 DEF Request
    <3> QED
      BY <3>2, <3>3, <3>4
  <2>2. /\ round' = [round EXCEPT ![n] = Idle] /\ role' = [role EXCEPT ![n] = "follower"]
        /\ leader' = [leader EXCEPT ![n] = NoNode] /\ peers' = [peers EXCEPT ![n] = Id \ {n}]
        /\ health' = [health EXCEPT ![n] = NoNode]
    BY <1>13 DEF Restart
  <2> QED
    BY <1>a, <2>1, <2>2 DEF PointerInv, Electing, Idle
<1>14. CASE UNCHANGED vars
  BY <1>14 DEF vars, nodeVars, netVars, PointerInv, Electing
<1> QED
  BY <1>1, <1>2, <1>3, <1>4, <1>5, <1>6, <1>7, <1>8, <1>9, <1>10, <1>11, <1>12, <1>13, <1>14 DEF Next

\* Without aliases a node whose leader pointer names itself is the leader
\* (NoSelfProxy): LeaderWriteMiddleware of a follower never proxies back to
\* the node it runs on.
THEOREM FollowerNeverProxiesToItself == Spec => []NoSelfProxy
<1> DEFINE Inv == Id = Node => PointerInv
<1>1. Init => Inv
  BY NodeAssumption DEF Init, PointerInv, Electing, Idle
<1>2. TypeOK /\ Inv /\ [Next]_vars => Inv'
  BY PointerStep
<1>3. Inv => NoSelfProxy
  BY DEF PointerInv, NoSelfProxy
<1> HIDE DEF Inv
<1> QED
  BY <1>1, <1>2, <1>3, TypeCorrect, PTL DEF Spec
=============================================================================
