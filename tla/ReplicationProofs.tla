------------------------- MODULE ReplicationProofs -------------------------
(* Theorems about Replication, for every set of followers and every bound. *)
EXTENDS Replication, FiniteSetTheorems, SequenceTheorems, WellFoundedInduction, TLAPS

-----------------------------------------------------------------------------
(* The operators of the log.                                               *)

LogSize == MaxLog * Cardinality(Proposer)

\* The indices are the interval up to the number of events.
LEMMA IndexInterval == LogSize \in Nat /\ Index = 1..LogSize
<1>1. Cardinality(Proposer) \in Nat
  BY EventAssumption, FS_CardinalityType
<1> QED
  BY <1>1, BoundAssumption DEF LogSize, Index

\* A nonempty set of natural numbers with an upper bound has a largest one.
LEMMA LargestExists ==
    ASSUME NEW n \in Nat, NEW S \in SUBSET (0..n), S # {}
    PROVE  \E x \in S : \A y \in S : y <= x
<1> DEFINE T == {n - x : x \in S}
<1>1. T \subseteq Nat /\ T # {}
  <2>1. \A x \in S : n - x \in Nat
    OBVIOUS
  <2>2. PICK x \in S : TRUE
    OBVIOUS
  <2>3. n - x \in T
    OBVIOUS
  <2> QED
    BY <2>1, <2>3
<1>2. PICK t \in T : \A u \in T : ~(<<u, t>> \in OpToRel(<, Nat))
  <2> HIDE DEF T
  <2> QED
    BY <1>1, NatLessThanWellFounded, WFMin
<1>3. \A u \in T : ~(u < t)
  BY <1>1, <1>2 DEF OpToRel
<1>4. PICK x \in S : t = n - x
  OBVIOUS
<1>5. \A y \in S : n - y \in T
  OBVIOUS
<1>6. ASSUME NEW y \in S PROVE y <= x
  <2>1. ~(n - y < n - x)
    BY <1>3, <1>4, <1>5
  <2> QED
    BY <2>1
<1> QED
  BY <1>6

\* lastIndexTerm returns the index of a row above which there is none.
LEMMA LastIndexIs ==
    ASSUME NEW rows \in Rows
    PROVE  /\ LastIndex(rows) \in Index \cup {0}
           /\ LastIndex(rows) \in Nat
           /\ LastIndex(rows) = 0 \/ Has(rows, LastIndex(rows))
           /\ \A j \in Index : Has(rows, j) => j <= LastIndex(rows)
<1> DEFINE S == {i \in Index : Has(rows, i)} \cup {0}
<1>1. S \in SUBSET (0..LogSize) /\ S # {}
  BY IndexInterval
<1>2. PICK x \in S : \A y \in S : y <= x
  <2> HIDE DEF S
  <2> QED
    BY <1>1, IndexInterval, LargestExists
<1>3. \E i \in Index \cup {0} :
        (i = 0 \/ Has(rows, i)) /\ \A j \in Index : Has(rows, j) => j <= i
  BY <1>2
<1>4. /\ LastIndex(rows) \in Index \cup {0}
      /\ LastIndex(rows) = 0 \/ Has(rows, LastIndex(rows))
      /\ \A j \in Index : Has(rows, j) => j <= LastIndex(rows)
  BY <1>3, Zenon DEF LastIndex
<1> QED
  BY <1>4, IndexInterval

\* Any index that is 0 or a row, and above which there is no row, is the last one.
LEMMA LastIndexUnique ==
    ASSUME NEW rows \in Rows, NEW i \in Index \cup {0}, i = 0 \/ Has(rows, i),
           \A j \in Index : Has(rows, j) => j <= i
    PROVE  LastIndex(rows) = i
BY LastIndexIs, IndexInterval DEF Has

\* An empty table.
LEMMA NoRowsEmpty == NoRows \in Rows /\ (\A i : ~Has(NoRows, i)) /\ LastIndex(NoRows) = 0
<1>1. NoRows \in Rows /\ (\A i : ~Has(NoRows, i))
  BY DEF NoRows, Rows, Has
<1> QED
  BY <1>1, LastIndexIs

\* The number of replicas is the number of followers and one.
LEMMA NodeCount ==
    IsFiniteSet(Node) /\ Cardinality(Follower) \in Nat
    /\ Cardinality(Node) = Cardinality(Follower) + 1
BY ReplicaAssumption, FS_AddElement, FS_CardinalityType DEF Node

\* recalculateCommitIndex finds an index: 0 at least, and never one beyond the
\* leader's rows or one that no majority of the peers and the leader reported.
LEMMA CandidateIs ==
    ASSUME peers \subseteq Follower, matchIdx \in [Follower -> Index \cup {0}],
           log[Leader] \in Rows
    PROVE  /\ Candidate \in 0..LastIndex(log[Leader])
           /\ Cardinality(Matched(Candidate)) + 1 >= Majority(Cardinality(peers) + 1)
<1> DEFINE last  == LastIndex(log[Leader])
           Ok(i) == Cardinality(Matched(i)) + 1 >= Majority(Cardinality(peers) + 1)
           S     == {i \in 0..last : Ok(i)}
<1>1. last \in Nat
  BY LastIndexIs
<1>2. Cardinality(peers) \in Nat
  BY ReplicaAssumption, FS_Subset, FS_CardinalityType
<1>3. Matched(0) = peers
  BY IndexInterval DEF Matched
<1>4. Ok(0)
  BY <1>2, <1>3 DEF Majority
<1>5. S \in SUBSET (0..last) /\ S # {}
  <2>1. 0 \in S
    BY <1>1, <1>4
  <2> QED
    BY <2>1
<1>6. PICK x \in S : \A y \in S : y <= x
  <2> HIDE DEF S, last
  <2> QED
    BY <1>1, <1>5, LargestExists
<1>7. \E i \in 0..last : Ok(i) /\ \A j \in 0..last : Ok(j) => j <= i
  BY <1>6
<1>8. Candidate = CHOOSE i \in 0..last : Ok(i) /\ \A j \in 0..last : Ok(j) => j <= i
  BY Zenon DEF Candidate
<1> QED
  <2> HIDE DEF Ok, last
  <2>1. Candidate \in 0..last /\ Ok(Candidate)
    BY <1>7, <1>8, Zenon
  <2> QED
    BY <2>1 DEF Ok, last

-----------------------------------------------------------------------------
(* The inductive invariant, whatever the number of handlers.               *)

Last == LastIndex(log[Leader])

\* The leader's table has no gap and holds no event twice; the events in it are
\* those its handlers have come to.
LeaderRows ==
    /\ \A i \in Index : Has(log[Leader], i) <=> i <= Last
    /\ \A i, j \in Index : Has(log[Leader], i) /\ log[Leader][i] = log[Leader][j] => i = j
    /\ \A i \in Index, p \in Proposer, s \in 1..MaxLog : log[Leader][i] = <<p, s>> =>
          s <= op[p].seq /\ (op[p].stage = "indexed" => s # op[p].seq)

\* A handler's index lies within the table, or just after it until the row is
\* written; a broadcast still to be made is one of those allowed.
OpInv ==
    \A p \in Proposer :
        /\ op[p].stage # "idle" => op[p].seq >= 1 /\ op[p].idx >= 1
        /\ op[p].stage = "indexed" => op[p].idx <= Last + 1
        /\ op[p].stage \notin {"idle", "indexed"} => op[p].idx <= Last
        /\ op[p].stage = "appended" => op[p].attempt < MaxAttempts

\* What a goroutine carries lags behind the leader, and a follower that
\* reported success has had the rows it reported.
CallOK(c) ==
    /\ c.commit <= commitIndex[Leader]
    /\ c.last <= Last
    /\ c.stage = "sent" => c.prev <= c.last
    /\ c.stage = "answered" => /\ c.match \in Index \cup {0}
                               /\ c.success => c.match <= stored[c.to]
CallInv == /\ \A c \in calls : CallOK(c)
           /\ \A b \in beats : b.commit <= commitIndex[Leader]

StoredInv ==
    /\ \A f \in Follower : matchIdx[f] <= stored[f]
    /\ Last <= stored[Leader]
    /\ commitIndex[Leader] <= Last
    /\ \A n \in Node : commitIndex[n] <= commitIndex[Leader]
    /\ rediscoveries = 0 => peers = Follower

Inv == TypeOK /\ LeaderRows /\ OpInv /\ CallInv /\ StoredInv /\ CommittedWasStored

\* The initial states satisfy the invariant.
LEMMA InvInit == Init => Inv
<1> SUFFICES ASSUME Init PROVE Inv
  OBVIOUS
<1> USE DEF Init
<1>0. Leader \in Node /\ Follower \subseteq Node
  BY DEF Node
<1>1. log[Leader] = NoRows /\ Last = 0
  BY <1>0, NoRowsEmpty DEF Last
<1>2. TypeOK
  <2>1. op \in [Proposer -> Op]
    BY BoundAssumption DEF Op, Stage
  <2> QED
    BY <2>1, NoRowsEmpty DEF TypeOK
<1>3. LeaderRows
  <2>1. \A i \in Index : ~Has(log[Leader], i) /\ ~(i <= Last) /\ log[Leader][i] = NoEvent
    BY <1>1, NoRowsEmpty, IndexInterval DEF NoRows
  <2>2. \A p \in Proposer, s \in 1..MaxLog : NoEvent # <<p, s>>
    BY EventAssumption DEF Event
  <2> QED
    BY <2>1, <2>2 DEF LeaderRows
<1>4. OpInv /\ CallInv
  BY DEF OpInv, CallInv
<1>5. StoredInv
  BY <1>0, <1>1 DEF StoredInv
<1>6. CommittedWasStored
  <2>1. {n \in Node : stored[n] >= commitIndex[Leader]} = Node
    BY <1>0
  <2> QED
    <3>1. Cardinality(Node) >= Majority(Cardinality(Node))
      BY NodeCount DEF Majority
    <3> QED
      BY <2>1, <3>1, Zenon DEF CommittedWasStored
<1> QED
  BY <1>2, <1>3, <1>4, <1>5, <1>6 DEF Inv

-----------------------------------------------------------------------------
(* What the steps have in common.                                          *)

\* The facts about types that most steps need.
LEMMA Types ==
    ASSUME TypeOK
    PROVE  /\ Leader \in Node /\ Follower \subseteq Node /\ Leader \notin Follower
           /\ Last \in Nat /\ Last \in Index \cup {0} /\ log[Leader] \in Rows
           /\ \A n \in Node : /\ commitIndex[n] \in Nat /\ lastApplied[n] \in Nat
                              /\ stored[n] \in Nat /\ log[n] \in Rows
           /\ \A f \in Follower : matchIdx[f] \in Nat /\ nextIdx[f] \in Nat
           /\ \A p \in Proposer : /\ op[p] \in Op /\ op[p].seq \in 0..MaxLog /\ op[p].seq \in Nat
                                  /\ op[p].idx \in Index \cup {0} /\ op[p].idx \in Nat
                                  /\ op[p].attempt \in Nat /\ op[p].stage \in Stage
           /\ \A c \in calls : /\ c \in Call /\ c.to \in Follower /\ c.by \in Proposer
                               /\ c.last \in Index /\ c.last \in Nat
                               /\ c.commit \in Nat /\ c.prev \in Nat /\ c.match \in Nat
                               /\ c.entries \in Rows
           /\ \A b \in beats : b \in Beat /\ b.to \in Follower /\ b.prev \in Nat /\ b.commit \in Nat
<1> USE DEF TypeOK
<1>1. /\ Leader \in Node /\ Follower \subseteq Node /\ Leader \notin Follower
      /\ log[Leader] \in Rows /\ \A n \in Node : log[n] \in Rows
  BY ReplicaAssumption DEF Node
<1>2. Last \in Nat /\ Last \in Index \cup {0}
  BY <1>1, LastIndexIs DEF Last
<1>3. \A i \in Index \cup {0} : i \in Nat
  BY IndexInterval
<1>4. /\ \A n \in Node : commitIndex[n] \in Nat /\ lastApplied[n] \in Nat /\ stored[n] \in Nat
      /\ \A f \in Follower : matchIdx[f] \in Nat /\ nextIdx[f] \in Nat
  BY <1>3
<1>5. \A p \in Proposer : op[p] \in Op
  OBVIOUS
<1>6. \A o \in Op : /\ o.seq \in 0..MaxLog /\ o.seq \in Nat /\ o.idx \in Index \cup {0}
                    /\ o.idx \in Nat /\ o.attempt \in Nat /\ o.stage \in Stage
  BY <1>3, BoundAssumption DEF Op
<1>7. \A c \in Call : /\ c.to \in Follower /\ c.by \in Proposer
                      /\ c.last \in Index /\ c.last \in Nat
                      /\ c.commit \in Nat /\ c.prev \in Nat /\ c.match \in Nat /\ c.entries \in Rows
  BY <1>3 DEF Call
<1>8. \A b \in Beat : b.to \in Follower /\ b.prev \in Nat /\ b.commit \in Nat
  BY DEF Beat
<1> QED
  BY <1>1, <1>2, <1>4, <1>5, <1>6, <1>7, <1>8

\* Handler q reads no new index and writes no row.
OpKept(q) ==
    /\ op'[q].seq = op[q].seq
    /\ \/ op'[q].stage = "idle"
       \/ /\ op'[q].idx = op[q].idx
          /\ \/ op'[q].stage = op[q].stage
             \/ op[q].stage \notin {"idle", "indexed"} /\ op'[q].stage \notin {"idle", "indexed"}
    /\ op'[q].stage = "appended" => op'[q].attempt < MaxAttempts

\* A step in which the leader's rows stay and no handler reads an index.
LEMMA OpsKept ==
    ASSUME Inv, log'[Leader] = log[Leader], \A q \in Proposer : OpKept(q)
    PROVE  LeaderRows' /\ OpInv'
<1>1. Last' = Last
  BY DEF Last
<1>2. LeaderRows /\ OpInv
  BY DEF Inv
<1>3. LeaderRows'
  BY <1>1, <1>2 DEF LeaderRows, OpKept
<1>4. OpInv'
  BY <1>1, <1>2 DEF OpInv, OpKept
<1> QED
  BY <1>3, <1>4

\* A step that leaves a handler alone keeps what is known of it.
LEMMA OpSame ==
    ASSUME Inv, NEW q \in Proposer, op'[q].stage = op[q].stage, op'[q].seq = op[q].seq,
           op'[q].idx = op[q].idx, op'[q].attempt = op[q].attempt
    PROVE  OpKept(q)
BY DEF Inv, OpInv, OpKept

\* The goroutines stay behind a leader whose rows and commitIndex only grow.
LEMMA CallsKept ==
    ASSUME Inv, TypeOK', Last <= Last', commitIndex[Leader] <= commitIndex'[Leader],
           \A n \in Node : stored[n] <= stored'[n]
    PROVE  /\ \A c \in calls : CallOK(c)'
           /\ \A b \in beats : b.commit <= commitIndex'[Leader]
<1> DEFINE lead  == commitIndex[Leader]
           lead2 == commitIndex'[Leader]
<1>1. TypeOK /\ CallInv
  BY DEF Inv
<1>2. /\ Last \in Nat /\ Last' \in Nat /\ lead \in Nat /\ lead2 \in Nat
      /\ Leader \in Node /\ Follower \subseteq Node
      /\ \A n \in Node : stored[n] \in Nat /\ stored'[n] \in Nat
  <2>1. TypeOK' => Last' \in Nat /\ lead2 \in Nat /\ \A n \in Node : stored'[n] \in Nat
    <3>1. TypeOK' => /\ log'[Leader] \in Rows /\ lead2 \in Index \cup {0}
                     /\ \A n \in Node : stored'[n] \in Index \cup {0}
      BY DEF TypeOK, Node
    <3> QED
      BY <3>1, LastIndexIs, IndexInterval DEF Last
  <2> QED
    BY <1>1, <2>1, Types
<1>3. ASSUME NEW c \in calls PROVE CallOK(c)'
  <2>1. /\ c.commit \in Nat /\ c.last \in Nat /\ c.to \in Node /\ c.match \in Nat
    BY <1>1, <1>2, Types
  <2>2. CallOK(c)
    BY <1>1 DEF CallInv
  <2> QED
    BY <1>2, <2>1, <2>2 DEF CallOK
<1>4. ASSUME NEW b \in beats PROVE b.commit <= commitIndex'[Leader]
  <2>1. b.commit \in Nat /\ b.commit <= lead
    BY <1>1, Types DEF CallInv
  <2> QED
    BY <1>2, <2>1
<1> QED
  BY <1>3, <1>4

\* Replicas never lose what they once had: as long as commitIndex stays, so does
\* the majority that had the entry.
LEMMA CommittedKept ==
    ASSUME Inv, TypeOK', commitIndex'[Leader] = commitIndex[Leader],
           \A n \in Node : stored[n] <= stored'[n], rediscoveries' = 0 => rediscoveries = 0
    PROVE  CommittedWasStored'
<1> DEFINE A == {n \in Node : stored[n] >= commitIndex[Leader]}
           B == {n \in Node : stored'[n] >= commitIndex'[Leader]}
<1>1. \A n \in Node : stored[n] \in Nat /\ stored'[n] \in Nat /\ commitIndex[Leader] \in Nat
  <2>1. \A n \in Node : stored'[n] \in Index \cup {0}
    BY DEF TypeOK
  <2> QED
    BY <2>1, Types, IndexInterval DEF Inv
<1>2. A \subseteq B /\ B \subseteq Node
  BY <1>1
<1>3. IsFiniteSet(B) /\ Cardinality(A) <= Cardinality(B) /\ Cardinality(A) \in Nat
      /\ Cardinality(B) \in Nat /\ Cardinality(Node) \in Nat
  <2> HIDE DEF A, B
  <2> QED
    BY <1>2, NodeCount, FS_Subset, FS_CardinalityType
<1>4. rediscoveries = 0 => Cardinality(A) >= Majority(Cardinality(Node))
  BY DEF Inv, CommittedWasStored
<1>5. rediscoveries' = 0 => Cardinality(B) >= Majority(Cardinality(Node))
  <2> HIDE DEF A, B
  <2> QED
    BY <1>3, <1>4 DEF Majority
<1> QED
  BY <1>5 DEF CommittedWasStored

-----------------------------------------------------------------------------
(* The steps of the handlers.                                              *)

\* The leader's table never fills: the events in it differ, and the one a
\* handler is about to propose is not among them.
LEMMA RoomForOne ==
    ASSUME Inv, NEW p \in Proposer, op[p].seq < MaxLog
    PROVE  Last + 1 \in Index
<1> DEFINE e == <<p, op[p].seq + 1>>
           f == [i \in 1..Last |-> log[Leader][i]]
           T == Event \ {e}
<1>1. /\ TypeOK /\ LeaderRows /\ Last \in Nat /\ Last \in Index \cup {0}
      /\ log[Leader] \in Rows /\ op[p].seq \in Nat
  BY Types DEF Inv
<1>2. e \in Event /\ 1..Last \subseteq Index
  BY <1>1, BoundAssumption, IndexInterval DEF Event
<1>3. \A i \in 1..Last : Has(log[Leader], i) /\ log[Leader][i] \in Event
  BY <1>1, <1>2 DEF LeaderRows, Has, Rows
<1>4. \A i \in 1..Last : log[Leader][i] # e
  <2> SUFFICES ASSUME NEW i \in 1..Last, log[Leader][i] = e PROVE FALSE
    OBVIOUS
  <2>1. i \in Index /\ op[p].seq + 1 \in 1..MaxLog
    BY <1>1, <1>2, BoundAssumption
  <2>2. op[p].seq + 1 <= op[p].seq
    BY <1>1, <2>1 DEF LeaderRows
  <2> QED
    BY <1>1, <2>2
<1>5. \A i, j \in 1..Last : log[Leader][i] = log[Leader][j] => i = j
  BY <1>1, <1>2, <1>3 DEF LeaderRows
<1>6. f \in Injection(1..Last, T)
  BY <1>3, <1>4, <1>5 DEF Injection, IsInjective
<1>7. /\ IsFiniteSet(Event) /\ Cardinality(Event) = LogSize
  <2>1. IsFiniteSet(1..MaxLog) /\ Cardinality(1..MaxLog) = MaxLog
    BY BoundAssumption, FS_Interval
  <2>2. /\ IsFiniteSet(Event) /\ Cardinality(Event) = Cardinality(Proposer) * MaxLog
    BY <2>1, EventAssumption, FS_Product DEF Event
  <2> QED
    BY <2>2, EventAssumption, BoundAssumption, FS_CardinalityType DEF LogSize
<1>8. IsFiniteSet(T) /\ Cardinality(T) = LogSize - 1
  BY <1>2, <1>7, FS_RemoveElement
<1>9. Cardinality(1..Last) <= Cardinality(T)
  <2> HIDE DEF f, T
  <2> QED
    BY <1>6, <1>8, FS_Injection
<1>10. Cardinality(1..Last) = Last
  BY <1>1, FS_Interval
<1> QED
  BY <1>1, <1>8, <1>9, <1>10, IndexInterval

\* A step that touches nothing but the handlers and the goroutines' answers.
LEMMA RestSame ==
    ASSUME Inv, UNCHANGED <<log, commitIndex, stored, peers, matchIdx, calls, beats, rediscoveries>>
    PROVE  CallInv' /\ StoredInv' /\ CommittedWasStored'
<1>1. Last' = Last
  BY DEF Last
<1>2. CallInv /\ StoredInv /\ CommittedWasStored
  BY DEF Inv
<1>3. CallInv'
  BY <1>1, <1>2 DEF CallInv, CallOK
<1>4. StoredInv' /\ CommittedWasStored'
  BY <1>1, <1>2 DEF StoredInv, CommittedWasStored
<1> QED
  BY <1>3, <1>4

\* Propose reads an index at which there is room.
LEMMA ProposeInv ==
    ASSUME Inv, NEW p \in Proposer, Propose(p)
    PROVE  Inv'
<1> USE DEF Propose, logVars, peerVars, bounds
<1>1. TypeOK /\ LeaderRows /\ OpInv
  BY DEF Inv
<1>2. Last + 1 \in Index /\ Last + 1 \in Nat /\ Last \in Nat /\ op[p] \in Op
      /\ op[p].seq \in Nat /\ \A q \in Proposer : op[q].seq \in Nat
  BY <1>1, RoomForOne, Types
<1>3. op[p].seq + 1 \in 0..MaxLog
  BY <1>2, BoundAssumption
<1>4. op' \in [Proposer -> Op]
  <2> DEFINE o == [op[p] EXCEPT !.stage = "indexed", !.seq = @ + 1, !.idx = Last + 1]
  <2>1. o \in Op
    <3> HIDE DEF Propose
    <3>1. ASSUME NEW k \in 0..MaxLog, NEW i \in Index
          PROVE  [op[p] EXCEPT !.stage = "indexed", !.seq = k, !.idx = i] \in Op
      BY <1>2 DEF Op, Stage
    <3> QED
      BY <1>2, <1>3, <3>1
  <2>2. op' = [op EXCEPT ![p] = o]
    BY DEF Last
  <2> QED
    BY <1>1, <2>1, <2>2 DEF TypeOK
<1>5. TypeOK'
  BY <1>1, <1>4 DEF TypeOK
<1>6. /\ op'[p].stage = "indexed" /\ op'[p].seq = op[p].seq + 1 /\ op'[p].idx = Last + 1
      /\ \A q \in Proposer : q # p => op'[q] = op[q]
  BY <1>1, <1>2 DEF TypeOK, Op, Last
<1>7. log' = log /\ Last' = Last
  BY DEF Last
<1>8. LeaderRows'
  <2>1. ASSUME NEW i \in Index, NEW q \in Proposer, NEW s \in 1..MaxLog,
               log[Leader][i] = <<q, s>>
        PROVE  s <= op'[q].seq /\ (op'[q].stage = "indexed" => s # op'[q].seq)
    <3>1. s <= op[q].seq /\ (op[q].stage = "indexed" => s # op[q].seq) /\ s \in Nat
      BY <1>1, <2>1 DEF LeaderRows
    <3>2. CASE q = p
      BY <1>2, <1>6, <3>1, <3>2
    <3>3. CASE q # p
      BY <1>6, <3>1, <3>3
    <3> QED
      BY <3>2, <3>3
  <2> QED
    BY <1>1, <1>7, <2>1 DEF LeaderRows
<1>9. OpInv'
  <2>1. ASSUME NEW q \in Proposer
        PROVE  /\ op'[q].stage # "idle" => op'[q].seq >= 1 /\ op'[q].idx >= 1
               /\ op'[q].stage = "indexed" => op'[q].idx <= Last + 1
               /\ op'[q].stage \notin {"idle", "indexed"} => op'[q].idx <= Last
               /\ op'[q].stage = "appended" => op'[q].attempt < MaxAttempts
    <3>1. CASE q = p
      BY <1>2, <1>6, <3>1
    <3>2. CASE q # p
      BY <1>1, <1>6, <3>2 DEF OpInv
    <3> QED
      BY <3>1, <3>2
  <2> QED
    BY <1>7, <2>1 DEF OpInv
<1> QED
  BY <1>5, <1>8, <1>9, RestSame DEF Inv

\* appendLog writes the handler's event at the index it read, which may be a row of
\* another handler by now.
LEMMA AppendLocalInv ==
    ASSUME Inv, NEW p \in Proposer, AppendLocal(p)
    PROVE  /\ Inv'
           /\ \A i \in Index : i # op[p].idx => log'[Leader][i] = log[Leader][i]
           /\ log'[Leader][op[p].idx] = <<p, op[p].seq>>
           /\ Last' = Larger(Last, op[p].idx)
<1> DEFINE e == <<p, op[p].seq>>
           k == op[p].idx
<1>1. TypeOK /\ LeaderRows /\ OpInv /\ StoredInv /\ op[p].stage = "indexed"
  BY DEF Inv, AppendLocal
<1>2. /\ Leader \in Node /\ log[Leader] \in Rows /\ Last \in Nat /\ Last \in Index \cup {0}
      /\ op[p] \in Op /\ op[p].seq \in 0..MaxLog /\ k \in Index \cup {0} /\ k \in Nat
      /\ Follower \subseteq Node /\ Leader \notin Follower
      /\ \A n \in Node : stored[n] \in Nat
  BY <1>1, Types
<1>3. op[p].seq >= 1 /\ k >= 1 /\ k <= Last + 1
  BY <1>1 DEF OpInv
<1>4. k \in Index /\ e \in Event /\ op[p].seq \in 1..MaxLog /\ op[p].seq \in Nat
  BY <1>2, <1>3, BoundAssumption DEF Event
<1> HIDE DEF k
<1>5. /\ log' = [log EXCEPT ![Leader] = [log[Leader] EXCEPT ![k] = e]]
      /\ log'[Leader] = [log[Leader] EXCEPT ![k] = e]
      /\ log' \in [Node -> Rows]
  BY <1>1, <1>2, <1>4 DEF AppendLocal, TypeOK, Rows, k
<1>6. /\ log'[Leader] \in Rows /\ log'[Leader][k] = e
      /\ \A i \in Index : i # k => log'[Leader][i] = log[Leader][i]
  BY <1>2, <1>4, <1>5 DEF Rows
<1>7. e # NoEvent
  BY <1>4, EventAssumption
<1>8. \A i \in Index : Has(log'[Leader], i) <=> (i = k \/ i <= Last)
  BY <1>1, <1>6, <1>7 DEF Has, LeaderRows
<1>9. Larger(Last, k) \in Index \cup {0} /\ Larger(Last, k) >= Last /\ Larger(Last, k) >= k
      /\ \A i \in Index : (i = k \/ i <= Last) <=> i <= Larger(Last, k)
  BY <1>2, <1>3, <1>4, IndexInterval DEF Larger
<1>10. Last' = Larger(Last, k)
  <2>1. Larger(Last, k) = 0 \/ Has(log'[Leader], Larger(Last, k))
    BY <1>4, <1>8, <1>9, IndexInterval
  <2>2. \A j \in Index : Has(log'[Leader], j) => j <= Larger(Last, k)
    BY <1>8, <1>9
  <2>3. LastIndex(log'[Leader]) = Larger(Last, k)
    BY <1>6, <1>9, <2>1, <2>2, LastIndexUnique
  <2> QED
    BY <2>3 DEF Last
<1>11. op' = [op EXCEPT ![p] = [op[p] EXCEPT !.stage = "appended", !.attempt = 0]]
  BY DEF AppendLocal
<1>12. op' \in [Proposer -> Op]
  <2>1. [op[p] EXCEPT !.stage = "appended", !.attempt = 0] \in Op
    <3>1. 0 \in 0..MaxAttempts /\ "appended" \in Stage
      BY BoundAssumption DEF Stage
    <3> QED
      BY <1>2, <3>1 DEF Op
  <2> QED
    BY <1>1, <1>11, <2>1 DEF TypeOK
<1>13. /\ op'[p].stage = "appended" /\ op'[p].attempt = 0 /\ op'[p].seq = op[p].seq
       /\ op'[p].idx = k
       /\ \A q \in Proposer : q # p => op'[q] = op[q]
  BY <1>1, <1>2, <1>11 DEF TypeOK, Op, k
<1>14. /\ stored' = [stored EXCEPT ![Leader] = Larger(@, k)]
       /\ UNCHANGED <<leading, commitIndex, lastApplied, raftApplied, peers, nextIdx, matchIdx,
                      calls, beats, acked, heartbeats, restarts, rediscoveries>>
  BY DEF AppendLocal, peerVars, bounds, k
<1>15. stored' \in [Node -> Index \cup {0}] /\ stored'[Leader] = Larger(stored[Leader], k)
       /\ \A n \in Node : n # Leader => stored'[n] = stored[n]
  <2>1. Larger(stored[Leader], k) \in Index \cup {0}
    BY <1>1, <1>2, <1>4 DEF TypeOK, Larger
  <2> QED
    BY <1>1, <1>2, <1>14, <2>1 DEF TypeOK
<1>16. \A n \in Node : stored[n] <= stored'[n]
  BY <1>2, <1>15 DEF Larger
<1>17. TypeOK'
  BY <1>1, <1>5, <1>12, <1>14, <1>15 DEF TypeOK
<1>18. \A i \in Index : log[Leader][i] # e
  BY <1>1, <1>4 DEF LeaderRows
<1>19. LeaderRows'
  <2>1. \A i \in Index : Has(log'[Leader], i) <=> i <= Last'
    BY <1>8, <1>9, <1>10
  <2>2. ASSUME NEW i \in Index, NEW j \in Index, Has(log'[Leader], i),
               log'[Leader][i] = log'[Leader][j]
        PROVE  i = j
    <3>1. CASE i = k
      BY <1>6, <1>18, <2>2, <3>1
    <3>2. CASE i # k
      <4>1. Has(log[Leader], i) /\ log'[Leader][i] = log[Leader][i]
        BY <1>6, <2>2, <3>2 DEF Has
      <4>2. j # k
        BY <1>6, <1>18, <2>2, <4>1
      <4> QED
        BY <1>1, <1>6, <2>2, <4>1, <4>2 DEF LeaderRows
    <3> QED
      BY <3>1, <3>2
  <2>3. ASSUME NEW i \in Index, NEW q \in Proposer, NEW s \in 1..MaxLog,
               log'[Leader][i] = <<q, s>>
        PROVE  s <= op'[q].seq /\ (op'[q].stage = "indexed" => s # op'[q].seq)
    <3>1. CASE i = k
      <4>1. q = p /\ s = op[p].seq
        BY <1>6, <2>3, <3>1
      <4> QED
        BY <1>4, <1>13, <4>1
    <3>2. CASE i # k
      <4>1. s <= op[q].seq /\ (op[q].stage = "indexed" => s # op[q].seq)
        BY <1>1, <1>6, <2>3, <3>2 DEF LeaderRows
      <4>2. CASE q = p
        BY <1>13, <4>1, <4>2
      <4>3. CASE q # p
        BY <1>13, <4>1, <4>3
      <4> QED
        BY <4>2, <4>3
    <3> QED
      BY <3>1, <3>2
  <2> QED
    BY <2>1, <2>2, <2>3 DEF LeaderRows
<1>20. OpInv'
  <2>1. ASSUME NEW q \in Proposer
        PROVE  /\ op'[q].stage # "idle" => op'[q].seq >= 1 /\ op'[q].idx >= 1
               /\ op'[q].stage = "indexed" => op'[q].idx <= Last' + 1
               /\ op'[q].stage \notin {"idle", "indexed"} => op'[q].idx <= Last'
               /\ op'[q].stage = "appended" => op'[q].attempt < MaxAttempts
    <3>1. CASE q = p
      BY <1>3, <1>9, <1>10, <1>13, <3>1, BoundAssumption
    <3>2. CASE q # p
      <4>1. op[q].idx \in Nat /\ Last' \in Nat /\ Last <= Last'
        BY <1>1, <1>2, <1>9, <1>10, Types, IndexInterval
      <4> QED
        BY <1>1, <1>2, <1>13, <3>2, <4>1 DEF OpInv
    <3> QED
      BY <3>1, <3>2
  <2> QED
    BY <2>1 DEF OpInv
<1>21. CallInv'
  <2>1. Last <= Last' /\ commitIndex[Leader] <= commitIndex'[Leader]
    BY <1>1, <1>2, <1>9, <1>10, <1>14, Types
  <2> QED
    BY <1>14, <1>16, <1>17, <2>1, CallsKept DEF CallInv
<1>22. StoredInv'
  <2>1. \A f \in Follower : stored'[f] = stored[f]
    BY <1>2, <1>15
  <2>2. Last' <= stored'[Leader]
    BY <1>1, <1>2, <1>4, <1>10, <1>15 DEF StoredInv, Larger
  <2>3. commitIndex'[Leader] <= Last'
    <3>1. commitIndex[Leader] \in Nat
      BY <1>1, <1>2, Types
    <3> QED
      BY <1>1, <1>2, <1>4, <1>10, <1>14, <3>1, IndexInterval DEF StoredInv, Larger
  <2> QED
    BY <1>1, <1>14, <2>1, <2>2, <2>3 DEF StoredInv
<1>23. CommittedWasStored'
  BY <1>14, <1>16, <1>17, CommittedKept
<1> QED
  BY <1>6, <1>10, <1>17, <1>19, <1>20, <1>21, <1>22, <1>23 DEF Inv, k

\* The broadcasts that end leave their goroutines as they were.
LEMMA AbandonKeeps ==
    ASSUME NEW p \in Proposer, calls \subseteq Call
    PROVE  /\ Abandon(p) \subseteq Call
           /\ \A d \in Abandon(p) : \E c \in calls :
                 /\ d.commit = c.commit /\ d.last = c.last /\ d.stage = c.stage /\ d.prev = c.prev
                 /\ d.match = c.match /\ d.success = c.success /\ d.to = c.to
                 /\ d.entries = c.entries
<1>1. ASSUME NEW c \in calls
      PROVE  LET d == [c EXCEPT !.chan = "left"]
             IN  /\ d \in Call
                 /\ d.commit = c.commit /\ d.last = c.last /\ d.stage = c.stage /\ d.prev = c.prev
                 /\ d.match = c.match /\ d.success = c.success /\ d.to = c.to
                 /\ d.entries = c.entries
  BY DEF Call
<1>2. ASSUME NEW d \in Abandon(p)
      PROVE  /\ d \in Call
             /\ \E c \in calls :
                 /\ d.commit = c.commit /\ d.last = c.last /\ d.stage = c.stage /\ d.prev = c.prev
                 /\ d.match = c.match /\ d.success = c.success /\ d.to = c.to
                 /\ d.entries = c.entries
  <2>1. PICK c \in calls : d = IF c.by = p /\ c.chan = "open" THEN [c EXCEPT !.chan = "left"] ELSE c
    BY DEF Abandon
  <2>2. CASE d = [c EXCEPT !.chan = "left"]
    BY <1>1, <2>2
  <2>3. CASE d = c
    BY <2>3
  <2> QED
    BY <2>1, <2>2, <2>3
<1> QED
  BY <1>2

\* A handler moves on without reading an index or writing a row.
LEMMA HandlerMoves ==
    ASSUME Inv, NEW p \in Proposer, NEW o \in Op, op' = [op EXCEPT ![p] = o],
           o.seq = op[p].seq,
           \/ o.stage = "idle"
           \/ /\ o.idx = op[p].idx
              /\ o.stage = op[p].stage \/ {op[p].stage, o.stage} \cap {"idle", "indexed"} = {},
           o.stage = "appended" => o.attempt < MaxAttempts
    PROVE  op' \in [Proposer -> Op] /\ \A q \in Proposer : OpKept(q)
<1>1. op \in [Proposer -> Op]
  BY DEF Inv, TypeOK
<1>2. op' \in [Proposer -> Op] /\ op'[p] = o /\ \A q \in Proposer : q # p => op'[q] = op[q]
  BY <1>1
<1>3. OpKept(p)
  BY <1>2 DEF OpKept
<1>4. \A q \in Proposer : q # p => OpKept(q)
  BY <1>2, OpSame
<1> QED
  BY <1>2, <1>3, <1>4

\* A step that changes no row, no commitIndex and no report of a follower.
LEMMA QuietStep ==
    ASSUME Inv, TypeOK', \A q \in Proposer : OpKept(q), \A c \in calls' : CallOK(c),
           beats' \subseteq beats,
           UNCHANGED <<log, commitIndex, stored, peers, matchIdx, rediscoveries>>
    PROVE  Inv'
<1>1. Last' = Last
  BY DEF Last
<1>2. CallInv /\ StoredInv /\ CommittedWasStored
  BY DEF Inv
<1>3. CallInv'
  BY <1>1, <1>2 DEF CallInv, CallOK
<1>4. StoredInv' /\ CommittedWasStored'
  BY <1>1, <1>2 DEF StoredInv, CommittedWasStored
<1> QED
  BY <1>3, <1>4, OpsKept DEF Inv

\* A broadcast starts its goroutines from the leader's last row and commitIndex.
LEMMA BroadcastInv ==
    ASSUME Inv, NEW p \in Proposer, Broadcast(p)
    PROVE  Inv' /\ \A q \in Proposer : OpKept(q)
<1> DEFINE NewCall(f) ==
             [by |-> p, seq |-> op[p].seq, attempt |-> op[p].attempt + 1, to |-> f,
              last |-> LastIndex(log[Leader]), commit |-> commitIndex[Leader], try |-> 1,
              chan |-> "open", stage |-> "ready", prev |-> 0, entries |-> NoRows,
              success |-> FALSE, match |-> 0]
           o == [op[p] EXCEPT !.stage = "counting", !.attempt = @ + 1,
                              !.total = Cardinality(peers) + 1, !.successes = 1,
                              !.yes = 0, !.no = 0]
<1>1. /\ TypeOK /\ OpInv /\ CallInv /\ op[p].stage = "appended" /\ peers \subseteq Follower
  BY DEF Inv, Broadcast, TypeOK
<1>2. /\ op[p] \in Op /\ op[p].seq \in 0..MaxLog /\ op[p].attempt \in Nat /\ op[p].idx \in Nat
      /\ Last \in Nat /\ Last \in Index \cup {0} /\ commitIndex[Leader] \in Nat
  BY <1>1, Types
<1>3. op[p].seq >= 1 /\ op[p].idx >= 1 /\ op[p].idx <= Last /\ op[p].attempt < MaxAttempts
  BY <1>1 DEF OpInv
<1>4. /\ op[p].seq \in 1..MaxLog /\ op[p].attempt + 1 \in 1..MaxAttempts
      /\ op[p].attempt + 1 \in 0..MaxAttempts /\ Last \in Index
  BY <1>2, <1>3, BoundAssumption
<1>5. Cardinality(peers) + 1 \in Nat
  BY <1>1, ReplicaAssumption, FS_Subset, FS_CardinalityType
<1>6. o \in Op
  <2>1. ASSUME NEW a \in 0..MaxAttempts, NEW t \in Nat
        PROVE  [op[p] EXCEPT !.stage = "counting", !.attempt = a, !.total = t, !.successes = 1,
                             !.yes = 0, !.no = 0] \in Op
    BY <1>2 DEF Op, Stage
  <2> QED
    BY <1>4, <1>5, <2>1
<1>7. op' = [op EXCEPT ![p] = o]
  BY DEF Broadcast
<1>8. o.stage = "counting" /\ o.seq = op[p].seq /\ o.idx = op[p].idx
  BY <1>2 DEF Op
<1>9. op' \in [Proposer -> Op] /\ \A q \in Proposer : OpKept(q)
  <2> HIDE DEF o
  <2> QED
    BY <1>1, <1>6, <1>7, <1>8, HandlerMoves
<1>10. ASSUME NEW f \in peers PROVE NewCall(f) \in Call /\ CallOK(NewCall(f))
  <2>1. NewCall(f) \in Call
    BY <1>1, <1>2, <1>4, NoRowsEmpty, BoundAssumption DEF Call, Last
  <2>2. CallOK(NewCall(f))
    BY <1>2 DEF CallOK, Last
  <2> QED
    BY <2>1, <2>2
<1>11. calls' = calls \cup {NewCall(f) : f \in peers}
  BY DEF Broadcast
<1>12. calls' \subseteq Call /\ \A c \in calls' : CallOK(c)
  <2> HIDE DEF NewCall
  <2> QED
    BY <1>1, <1>10, <1>11 DEF TypeOK, CallInv
<1>13. UNCHANGED <<leading, log, commitIndex, lastApplied, raftApplied, stored, peers, nextIdx,
                   matchIdx, beats, acked, heartbeats, restarts, rediscoveries>>
  BY DEF Broadcast, logVars, peerVars, bounds
<1>14. TypeOK'
  BY <1>1, <1>9, <1>12, <1>13 DEF TypeOK
<1> QED
  BY <1>9, <1>12, <1>13, <1>14, QuietStep

\* Reading one result moves no index.
LEMMA CountInv ==
    ASSUME Inv, NEW p \in Proposer, NEW ok \in BOOLEAN, Count(p, ok)
    PROVE  Inv' /\ \A q \in Proposer : OpKept(q)
<1> DEFINE succ == op[p].successes + (IF ok THEN 1 ELSE 0)
           done == succ >= Majority(op[p].total)
           o == [op[p] EXCEPT !.successes = succ,
                              !.yes = IF ok THEN @ - 1 ELSE @,
                              !.no = IF ok THEN @ ELSE @ - 1,
                              !.stage = IF done THEN "replicated" ELSE @]
<1>1. TypeOK /\ OpInv /\ CallInv /\ op[p].stage = "counting" /\ op[p] \in Op
  BY Types DEF Inv, Count
<1>2. IF ok THEN op[p].yes > 0 ELSE op[p].no > 0
  BY DEF Count
<1>3. o \in Op
  <2>1. succ \in Nat /\ (IF ok THEN op[p].yes - 1 ELSE op[p].yes) \in Nat
        /\ (IF ok THEN op[p].no ELSE op[p].no - 1) \in Nat
        /\ (IF done THEN "replicated" ELSE op[p].stage) \in Stage
    BY <1>1, <1>2 DEF Op, Stage
  <2>2. ASSUME NEW a \in Nat, NEW b \in Nat, NEW c \in Nat, NEW st \in Stage
        PROVE  [op[p] EXCEPT !.successes = a, !.yes = b, !.no = c, !.stage = st] \in Op
    BY <1>1 DEF Op
  <2> QED
    BY <2>1, <2>2
<1>4. op' = [op EXCEPT ![p] = o]
  BY DEF Count
<1>5. o.stage \in {"counting", "replicated"} /\ o.seq = op[p].seq /\ o.idx = op[p].idx
  BY <1>1 DEF Op
<1>6. op' \in [Proposer -> Op] /\ \A q \in Proposer : OpKept(q)
  <2> HIDE DEF o
  <2> QED
    BY <1>1, <1>3, <1>4, <1>5, HandlerMoves
<1>7. calls' = calls \/ calls' = Abandon(p)
  BY DEF Count
<1>8. calls' \subseteq Call /\ \A c \in calls' : CallOK(c)
  BY <1>1, <1>7, AbandonKeeps DEF TypeOK, CallInv, CallOK
<1>9. UNCHANGED <<leading, log, commitIndex, lastApplied, raftApplied, stored, peers, nextIdx,
                  matchIdx, beats, acked, heartbeats, restarts, rediscoveries>>
  BY DEF Count, logVars, peerVars, bounds
<1>10. TypeOK'
  BY <1>1, <1>6, <1>8, <1>9 DEF TypeOK
<1> QED
  BY <1>6, <1>8, <1>9, <1>10, QuietStep

\* A broadcast that ends without a majority is repeated only while attempts are left.
LEMMA EndBroadcastInv ==
    ASSUME Inv, NEW p \in Proposer, EndBroadcast(p)
    PROVE  Inv' /\ \A q \in Proposer : OpKept(q)
<1> DEFINE won == op[p].successes >= Majority(op[p].total)
           st == IF won \/ op[p].attempt = MaxAttempts THEN "replicated" ELSE "appended"
           o == [op[p] EXCEPT !.stage = st]
<1>1. TypeOK /\ CallInv /\ op[p].stage = "counting" /\ op[p] \in Op
  BY Types DEF Inv, EndBroadcast
<1>2. o \in Op /\ o.stage = st /\ o.seq = op[p].seq /\ o.idx = op[p].idx
      /\ o.attempt = op[p].attempt
  BY <1>1 DEF Op, Stage
<1>3. op' = [op EXCEPT ![p] = o]
  BY DEF EndBroadcast
<1>4. st = "appended" => op[p].attempt < MaxAttempts
  BY <1>1, BoundAssumption DEF Op
<1>5. op' \in [Proposer -> Op] /\ \A q \in Proposer : OpKept(q)
  <2>1. st \in {"replicated", "appended"}
    OBVIOUS
  <2> HIDE DEF o, st
  <2> QED
    BY <1>1, <1>2, <1>3, <1>4, <2>1, HandlerMoves
<1>6. calls' \subseteq Call /\ \A c \in calls' : CallOK(c)
  BY <1>1, AbandonKeeps DEF TypeOK, CallInv, CallOK, EndBroadcast
<1>7. UNCHANGED <<leading, log, commitIndex, lastApplied, raftApplied, stored, peers, nextIdx,
                  matchIdx, beats, acked, heartbeats, restarts, rediscoveries>>
  BY DEF EndBroadcast, logVars, peerVars, bounds
<1>8. TypeOK'
  BY <1>1, <1>5, <1>6, <1>7 DEF TypeOK
<1> QED
  BY <1>5, <1>6, <1>7, <1>8, QuietStep

\* recalculateCommitIndex commits what a majority reported, and reports are true.
LEMMA RecalculateInv ==
    ASSUME Inv, NEW p \in Proposer, RecalculateCommitIndex(p)
    PROVE  /\ Inv' /\ commitIndex[Leader] <= commitIndex'[Leader] /\ commitIndex'[Leader] <= Last
           /\ \A q \in Proposer : OpKept(q)
<1> DEFINE o  == [op[p] EXCEPT !.stage = "committed"]
           ci == commitIndex[Leader]
<1>1. /\ TypeOK /\ CallInv /\ StoredInv /\ op[p].stage = "replicated" /\ op[p] \in Op
      /\ Leader \in Node /\ Last \in Nat /\ Last \in Index \cup {0} /\ log[Leader] \in Rows
      /\ ci \in Nat /\ ci \in Index \cup {0}
  BY Types DEF Inv, RecalculateCommitIndex, TypeOK
<1>2. o \in Op /\ o.stage = "committed" /\ o.seq = op[p].seq /\ o.idx = op[p].idx
  BY <1>1 DEF Op, Stage
<1>3. op' = [op EXCEPT ![p] = o]
  BY DEF RecalculateCommitIndex
<1>4. op' \in [Proposer -> Op] /\ \A q \in Proposer : OpKept(q)
  <2> HIDE DEF o
  <2> QED
    BY <1>1, <1>2, <1>3, HandlerMoves
<1>5. UNCHANGED <<leading, log, lastApplied, raftApplied, stored, peers, nextIdx, matchIdx, calls,
                  beats, acked, heartbeats, restarts, rediscoveries>>
  BY DEF RecalculateCommitIndex, peerVars, bounds
<1>6. CASE commitIndex' = commitIndex
  <2>1. TypeOK'
    BY <1>1, <1>4, <1>5, <1>6 DEF TypeOK
  <2>2. Inv'
    BY <1>1, <1>4, <1>5, <1>6, <2>1, QuietStep DEF CallInv
  <2> QED
    BY <1>1, <1>4, <1>6, <2>2 DEF StoredInv
<1>7. CASE commitIndex' = [commitIndex EXCEPT ![Leader] = Larger(@, Candidate)]
  <2>1. /\ Candidate \in 0..Last
        /\ Cardinality(Matched(Candidate)) + 1 >= Majority(Cardinality(peers) + 1)
    BY <1>1, CandidateIs DEF TypeOK, Last
  <2>2. /\ Larger(ci, Candidate) \in Index \cup {0} /\ Larger(ci, Candidate) \in Nat
        /\ ci <= Larger(ci, Candidate) /\ Larger(ci, Candidate) <= Last
    BY <1>1, <2>1, IndexInterval DEF Larger, StoredInv
  <2>3. /\ commitIndex'[Leader] = Larger(ci, Candidate)
        /\ \A n \in Node : n # Leader => commitIndex'[n] = commitIndex[n]
        /\ commitIndex' \in [Node -> Index \cup {0}]
    BY <1>1, <1>7, <2>2 DEF TypeOK
  <2>4. TypeOK'
    BY <1>1, <1>4, <1>5, <2>3 DEF TypeOK
  <2>5. Last' = Last
    BY <1>5 DEF Last
  <2>6. \A n \in Node : stored[n] \in Nat /\ commitIndex[n] \in Nat
    BY <1>1, Types
  <2>7. CallInv'
    BY <1>1, <1>5, <2>2, <2>3, <2>4, <2>5, <2>6, CallsKept DEF CallInv
  <2>8. StoredInv'
    <3>1. \A n \in Node : commitIndex'[n] <= commitIndex'[Leader]
      BY <1>1, <2>2, <2>3, <2>6 DEF StoredInv
    <3> QED
      BY <1>1, <1>5, <2>2, <2>3, <2>5, <3>1 DEF StoredInv
  <2>9. CommittedWasStored'
    <3>1. CASE Larger(ci, Candidate) = ci
      BY <1>5, <2>3, <2>4, <2>6, <3>1, CommittedKept
    <3>2. CASE Larger(ci, Candidate) = Candidate
      <4> DEFINE B == {n \in Node : stored[n] >= Candidate}
                 M == Matched(Candidate)
      <4>1. SUFFICES ASSUME rediscoveries = 0
                     PROVE  Cardinality(B) >= Majority(Cardinality(Node))
        BY <1>5, <2>3, <3>2 DEF CommittedWasStored
      <4>2. peers = Follower
        BY <1>1, <4>1 DEF StoredInv
      <4>3. Leader \in B
        BY <1>1, <2>1, <2>6 DEF StoredInv
      <4>4. M \subseteq B /\ M \subseteq Follower
        <5>1. ASSUME NEW f \in M PROVE f \in B
          <6>1. f \in Follower /\ matchIdx[f] >= Candidate
            BY <4>2 DEF Matched
          <6>2. f \in Node /\ matchIdx[f] \in Nat /\ matchIdx[f] <= stored[f]
            BY <1>1, <6>1, Types DEF StoredInv
          <6> QED
            BY <1>1, <2>1, <2>6, <6>1, <6>2
        <5> QED
          BY <4>2, <5>1 DEF Matched
      <4>5. M \cup {Leader} \subseteq B /\ B \subseteq Node /\ Leader \notin M
        BY <4>3, <4>4, ReplicaAssumption
      <4> HIDE DEF B, M
      <4>6. /\ IsFiniteSet(M) /\ Cardinality(M \cup {Leader}) = Cardinality(M) + 1
            /\ Cardinality(M) \in Nat
        BY <4>4, <4>5, ReplicaAssumption, FS_Subset, FS_AddElement, FS_CardinalityType
      <4>7. /\ IsFiniteSet(B) /\ Cardinality(M \cup {Leader}) <= Cardinality(B)
            /\ Cardinality(B) \in Nat
        BY <4>5, NodeCount, FS_Subset, FS_CardinalityType
      <4>8. Cardinality(M) + 1 >= Majority(Cardinality(Node))
        BY <2>1, <4>2, NodeCount DEF M
      <4> QED
        BY <4>6, <4>7, <4>8, NodeCount DEF Majority
    <3> QED
      BY <3>1, <3>2 DEF Larger
  <2>10. LeaderRows' /\ OpInv'
    BY <1>4, <1>5, OpsKept
  <2> QED
    BY <1>4, <2>2, <2>3, <2>4, <2>7, <2>8, <2>9, <2>10 DEF Inv
<1> QED
  BY <1>6, <1>7 DEF RecalculateCommitIndex

\* applyCommitted leaves lastApplied at the last of the rows it found.
LEMMA ApplyIs ==
    ASSUME TypeOK, NEW n \in Node, ApplyCommitted(n)
    PROVE  /\ raftApplied' \in [Node -> SUBSET (Index \X Event)]
           /\ lastApplied' \in [Node -> Index \cup {0}]
           /\ \A m \in Node : m # n => /\ raftApplied'[m] = raftApplied[m]
                                       /\ lastApplied'[m] = lastApplied[m]
           /\ ToApply(n) = {} => lastApplied'[n] = lastApplied[n]
           /\ ToApply(n) # {} => /\ lastApplied'[n] \in ToApply(n)
                                 /\ \A j \in ToApply(n) : j <= lastApplied'[n]
<1> DEFINE T == ToApply(n)
           seen == {e \in Event : \E i \in Index : <<i, e>> \in raftApplied[n]}
           new  == {i \in T : log[n][i] \notin seen
                                /\ \A j \in T : log[n][j] = log[n][i] => i <= j}
           top == IF T = {} THEN lastApplied[n] ELSE CHOOSE i \in T : \A j \in T : j <= i
<1>1. T \subseteq Index /\ \A i \in T : log[n][i] \in Event
  BY DEF ToApply, Has, TypeOK, Rows
<1>2. /\ raftApplied' = [raftApplied EXCEPT ![n] = @ \cup {<<i, log[n][i]>> : i \in new}]
      /\ lastApplied' = [lastApplied EXCEPT ![n] = top]
  BY DEF ApplyCommitted
<1>3. {<<i, log[n][i]>> : i \in new} \subseteq Index \X Event
  BY <1>1
<1>4. T # {} => top \in T /\ \A j \in T : j <= top
  <2> SUFFICES ASSUME T # {} PROVE top \in T /\ \A j \in T : j <= top
    OBVIOUS
  <2>1. T \in SUBSET (0..LogSize)
    BY <1>1, IndexInterval
  <2>2. \E i \in T : \A j \in T : j <= i
    <3> HIDE DEF T
    <3> QED
      BY <2>1, IndexInterval, LargestExists
  <2> QED
    <3> HIDE DEF T
    <3>1. top = CHOOSE i \in T : \A j \in T : j <= i
      OBVIOUS
    <3> QED
      BY <2>2, <3>1, Zenon
<1>5. top \in Index \cup {0}
  <2>1. CASE T = {}
    BY <2>1 DEF TypeOK
  <2>2. CASE T # {}
    BY <1>1, <1>4, <2>2
  <2> QED
    BY <2>1, <2>2
<1>6. T = {} => top = lastApplied[n]
  OBVIOUS
<1> HIDE DEF top, new, T
<1>7. raftApplied' \in [Node -> SUBSET (Index \X Event)]
      /\ \A m \in Node : m # n => raftApplied'[m] = raftApplied[m]
  BY <1>2, <1>3 DEF TypeOK
<1>8. /\ lastApplied' \in [Node -> Index \cup {0}] /\ lastApplied'[n] = top
      /\ \A m \in Node : m # n => lastApplied'[m] = lastApplied[m]
  BY <1>2, <1>5 DEF TypeOK
<1> QED
  BY <1>4, <1>6, <1>7, <1>8 DEF T

\* Propose applies what it committed.
LEMMA ProposeAppliesInv ==
    ASSUME Inv, NEW p \in Proposer, ProposeApplies(p)
    PROVE  Inv' /\ \A q \in Proposer : OpKept(q)
<1> DEFINE o == [op[p] EXCEPT !.stage = "waiting"]
<1>1. TypeOK /\ CallInv /\ op[p].stage = "committed" /\ op[p] \in Op /\ Leader \in Node
  BY Types DEF Inv, ProposeApplies
<1>2. o \in Op /\ o.stage = "waiting" /\ o.seq = op[p].seq /\ o.idx = op[p].idx
  BY <1>1 DEF Op, Stage
<1>3. op' = [op EXCEPT ![p] = o]
  BY DEF ProposeApplies
<1>4. op' \in [Proposer -> Op] /\ \A q \in Proposer : OpKept(q)
  <2> HIDE DEF o
  <2> QED
    BY <1>1, <1>2, <1>3, HandlerMoves
<1>5. UNCHANGED <<leading, log, commitIndex, stored, peers, nextIdx, matchIdx, calls,
                  beats, acked, heartbeats, restarts, rediscoveries>>
  BY DEF ProposeApplies, peerVars, bounds
<1>6. TypeOK'
  BY <1>1, <1>4, <1>5, ApplyIs DEF TypeOK, ProposeApplies
<1> QED
  BY <1>1, <1>4, <1>5, <1>6, QuietStep DEF CallInv

\* Propose returns.
LEMMA ReturnInv ==
    ASSUME Inv, NEW p \in Proposer, NEW ok \in BOOLEAN, Return(p, ok)
    PROVE  Inv' /\ \A q \in Proposer : OpKept(q)
<1> DEFINE o == [stage |-> "idle", seq |-> op[p].seq, idx |-> 0, attempt |-> 0,
                 total |-> 0, successes |-> 0, yes |-> 0, no |-> 0]
<1>1. TypeOK /\ OpInv /\ CallInv /\ op[p].stage = "waiting" /\ op[p].seq \in 0..MaxLog
  BY Types DEF Inv, Return
<1>2. o \in Op
  BY <1>1, BoundAssumption DEF Op, Stage
<1>3. op' = [op EXCEPT ![p] = o]
  BY DEF Return
<1>4. op' \in [Proposer -> Op] /\ \A q \in Proposer : OpKept(q)
  <2>1. o.stage = "idle" /\ o.seq = op[p].seq
    OBVIOUS
  <2> HIDE DEF o
  <2> QED
    BY <1>1, <1>2, <1>3, <2>1, HandlerMoves
<1>5. UNCHANGED <<leading, log, commitIndex, lastApplied, raftApplied, stored, peers, nextIdx,
                  matchIdx, calls, beats, heartbeats, restarts, rediscoveries>>
  BY DEF Return, logVars, peerVars, bounds
<1>6. <<p, op[p].seq>> \in Event
  <2>1. op[p].seq >= 1
    BY <1>1 DEF OpInv
  <2> QED
    BY <1>1, <2>1, BoundAssumption DEF Event
<1>7. acked' \subseteq Event
  BY <1>1, <1>6 DEF TypeOK, Return
<1>8. TypeOK'
  BY <1>1, <1>4, <1>5, <1>7 DEF TypeOK
<1> QED
  BY <1>1, <1>4, <1>5, <1>8, QuietStep DEF CallInv

-----------------------------------------------------------------------------
(* The steps of the goroutines and of the followers.                       *)

\* A result in the channel moves no handler.
LEMMA PostKeeps ==
    ASSUME Inv, NEW c \in calls, NEW ok \in BOOLEAN, Post(c, ok)
    PROVE  op' \in [Proposer -> Op] /\ \A q \in Proposer : OpKept(q)
<1> DEFINE p == c.by
           y == [op[p] EXCEPT !.yes = @ + 1]
           z == [op[p] EXCEPT !.no = @ + 1]
<1>1. TypeOK /\ OpInv /\ p \in Proposer /\ op[p] \in Op
  BY Types DEF Inv
<1>2. /\ y \in Op /\ z \in Op
      /\ y.stage = op[p].stage /\ y.seq = op[p].seq /\ y.idx = op[p].idx
      /\ y.attempt = op[p].attempt
      /\ z.stage = op[p].stage /\ z.seq = op[p].seq /\ z.idx = op[p].idx
      /\ z.attempt = op[p].attempt
  BY <1>1 DEF Op
<1>3. op[p].stage = "appended" => op[p].attempt < MaxAttempts
  BY <1>1 DEF OpInv
<1>4. CASE op' = op
  BY <1>1, <1>4, OpSame DEF TypeOK
<1>5. CASE op' = [op EXCEPT ![p] = y]
  <2> HIDE DEF y, p
  <2> QED
    BY <1>1, <1>2, <1>3, <1>5, HandlerMoves
<1>6. CASE op' = [op EXCEPT ![p] = z]
  <2> HIDE DEF z, p
  <2> QED
    BY <1>1, <1>2, <1>3, <1>6, HandlerMoves
<1> QED
  BY <1>4, <1>5, <1>6 DEF Post

\* A goroutine sends the leader's rows from nextIdx on, or none.
LEMMA SendInv ==
    ASSUME Inv, NEW c \in calls, Send(c)
    PROVE  /\ Inv'
           /\ \E d \in Call :
                 /\ calls' = (calls \ {c}) \cup {d} /\ d.stage = "sent"
                 /\ \A i \in Index : Has(d.entries, i) =>
                       i > d.prev /\ \A j \in (d.prev + 1)..i : d.entries[j] = log[Leader][j]
<1> DEFINE next == IF nextIdx[c.to] = 0 THEN c.last + 1 ELSE nextIdx[c.to]
           from == Smaller(next, c.last + 1)
           rows == IF next > c.last THEN NoRows ELSE LoadFrom(log[Leader], next)
           d    == [c EXCEPT !.stage = "sent", !.prev = from - 1, !.entries = rows]
<1>1. /\ TypeOK /\ CallInv /\ c \in Call /\ c.to \in Follower /\ c.last \in Nat /\ c.last \in Index
      /\ log[Leader] \in Rows /\ nextIdx[c.to] \in Nat /\ CallOK(c) /\ c.commit \in Nat
      /\ Last \in Nat /\ commitIndex[Leader] \in Nat
  BY Types DEF Inv, CallInv
<1>2. next \in Nat /\ next >= 1 /\ from \in Nat /\ from >= 1 /\ from - 1 \in Nat
      /\ from - 1 <= c.last
  BY <1>1 DEF Smaller
<1>3. next <= c.last => from = next
  BY <1>1, <1>2 DEF Smaller
<1> HIDE DEF next, from
<1>4. /\ rows \in Rows
      /\ \A i \in Index : Has(rows, i) => next <= c.last /\ i >= next
      /\ next <= c.last => \A i \in Index : i >= next => rows[i] = log[Leader][i]
  <2>1. CASE next > c.last
    BY <1>1, <1>2, <2>1, NoRowsEmpty
  <2>2. CASE ~(next > c.last)
    <3>1. rows = LoadFrom(log[Leader], next)
      BY <2>2
    <3>2. rows \in Rows /\ \A i \in Index : rows[i] = IF i >= next THEN log[Leader][i] ELSE NoEvent
      BY <1>1, <3>1 DEF LoadFrom, Rows
    <3> HIDE DEF rows
    <3> QED
      BY <1>1, <1>2, <2>2, <3>2 DEF Has
  <2> QED
    BY <2>1, <2>2
<1> HIDE DEF rows
<1>5. /\ d \in Call /\ d.stage = "sent" /\ d.prev = from - 1 /\ d.entries = rows
      /\ d.commit = c.commit /\ d.last = c.last
  BY <1>1, <1>2, <1>4 DEF Call
<1>6. calls' = (calls \ {c}) \cup {d}
  BY DEF Send, next, from, rows
<1> HIDE DEF d
<1>7. CallOK(d)
  BY <1>1, <1>2, <1>5 DEF CallOK
<1>8. UNCHANGED <<leading, log, commitIndex, lastApplied, raftApplied, stored, peers, nextIdx,
                  matchIdx, op, beats, acked, heartbeats, restarts, rediscoveries>>
  BY DEF Send, logVars, peerVars, bounds
<1>9. TypeOK'
  BY <1>1, <1>5, <1>6, <1>8 DEF TypeOK
<1>10. \A q \in Proposer : OpKept(q)
  BY <1>8, OpSame
<1>11. \A x \in calls' : CallOK(x)
  BY <1>1, <1>6, <1>7 DEF CallInv
<1>12. Inv'
  BY <1>8, <1>9, <1>10, <1>11, QuietStep
<1>13. ASSUME NEW i \in Index, Has(d.entries, i)
       PROVE  i > d.prev /\ \A j \in (d.prev + 1)..i : d.entries[j] = log[Leader][j]
  <2>1. next <= c.last /\ i >= next /\ from = next
    BY <1>3, <1>4, <1>5, <1>13
  <2>2. d.prev + 1 = next /\ i > d.prev
    BY <1>2, <1>5, <2>1, IndexInterval
  <2>3. \A j \in next..i : j \in Index /\ j >= next
    BY <1>2, IndexInterval
  <2> QED
    BY <1>4, <1>5, <2>1, <2>2, <2>3
<1> QED
  BY <1>5, <1>6, <1>12, <1>13

\* A goroutine that reads an answer records no more than the follower has had.
LEMMA HandleReplyInv ==
    ASSUME Inv, NEW c \in calls, HandleReply(c)
    PROVE  /\ Inv' /\ \A q \in Proposer : OpKept(q)
           /\ \A x \in calls' : x \in calls \/ x.stage = "ready"
<1> DEFINE d == [c EXCEPT !.stage = "ready", !.try = @ + 1, !.match = 0]
           f == c.to
<1>1. /\ TypeOK /\ CallInv /\ StoredInv /\ c \in Call /\ f \in Follower /\ CallOK(c)
      /\ c.match \in Nat /\ c.stage = "answered" /\ nextIdx[f] \in Nat
      /\ c.match \in Index \cup {0}
      /\ c.success => c.match <= stored[f]
  BY Types DEF Inv, CallInv, CallOK, HandleReply
<1>2. UNCHANGED <<leading, log, commitIndex, lastApplied, raftApplied, stored, peers, beats, acked,
                  heartbeats, restarts, rediscoveries>>
  BY DEF HandleReply, logVars, bounds
<1>3. c.try < MaxTries => d \in Call /\ d.stage = "ready" /\ CallOK(d)
  <2>1. c.try < MaxTries => c.try + 1 \in 1..MaxTries
    BY <1>1, BoundAssumption DEF Call
  <2>2. ASSUME NEW t \in 1..MaxTries
        PROVE  LET x == [c EXCEPT !.stage = "ready", !.try = t, !.match = 0]
               IN  /\ x \in Call /\ x.stage = "ready" /\ x.commit = c.commit /\ x.last = c.last
    BY <1>1 DEF Call
  <2>3. c.try < MaxTries => /\ d \in Call /\ d.stage = "ready" /\ d.commit = c.commit
                            /\ d.last = c.last
    BY <2>1, <2>2
  <2> HIDE DEF d
  <2> QED
    BY <1>1, <2>3 DEF CallOK
<1> HIDE DEF d
<1>4. /\ calls' = calls \ {c} \/ (c.try < MaxTries /\ calls' = (calls \ {c}) \cup {d})
  BY DEF HandleReply, d
<1>5. /\ calls' \subseteq Call /\ \A x \in calls' : CallOK(x)
      /\ \A x \in calls' : x \in calls \/ x.stage = "ready"
  BY <1>1, <1>3, <1>4 DEF TypeOK, CallInv
<1>6. op' \in [Proposer -> Op] /\ \A q \in Proposer : OpKept(q)
  <2>1. CASE Post(c, TRUE) \/ Post(c, FALSE)
    BY <2>1, PostKeeps
  <2>2. CASE op' = op
    BY <1>1, <2>2, OpSame DEF TypeOK
  <2> QED
    BY <2>1, <2>2 DEF HandleReply
<1>7. /\ nextIdx' \in [Follower -> Nat] /\ matchIdx' \in [Follower -> Index \cup {0}]
      /\ \A g \in Follower : matchIdx'[g] <= stored[g]
  <2>1. CASE c.success
    <3>1. /\ matchIdx' = [matchIdx EXCEPT ![f] = c.match]
          /\ nextIdx' = [nextIdx EXCEPT ![f] = c.match + 1]
      BY <2>1 DEF HandleReply
    <3> QED
      BY <1>1, <2>1, <3>1 DEF TypeOK, StoredInv
  <2>2. CASE ~c.success
    <3>1. /\ matchIdx' = matchIdx
          /\ nextIdx' = [nextIdx EXCEPT ![f] = IF @ <= 1 THEN 1 ELSE @ - 1]
      BY <2>2 DEF HandleReply
    <3>2. (IF nextIdx[f] <= 1 THEN 1 ELSE nextIdx[f] - 1) \in Nat
      BY <1>1
    <3> QED
      BY <1>1, <3>1, <3>2 DEF TypeOK, StoredInv
  <2> QED
    BY <2>1, <2>2
<1>8. TypeOK'
  BY <1>1, <1>2, <1>5, <1>6, <1>7 DEF TypeOK
<1>9. Last' = Last
  BY <1>2 DEF Last
<1>10. StoredInv'
  BY <1>1, <1>2, <1>7, <1>9 DEF StoredInv
<1>11. CallInv'
  BY <1>1, <1>2, <1>5, <1>9 DEF CallInv, CallOK
<1>12. CommittedWasStored'
  BY <1>2 DEF Inv, CommittedWasStored
<1>13. LeaderRows' /\ OpInv'
  BY <1>2, <1>6, OpsKept
<1> QED
  BY <1>5, <1>6, <1>8, <1>10, <1>11, <1>12, <1>13 DEF Inv

\* A goroutine whose request or answer is lost ends.
LEMMA LoseCallInv ==
    ASSUME Inv, NEW c \in calls, LoseCall(c)
    PROVE  Inv' /\ \A q \in Proposer : OpKept(q)
<1>1. TypeOK /\ CallInv
  BY DEF Inv
<1>2. op' \in [Proposer -> Op] /\ \A q \in Proposer : OpKept(q)
  BY PostKeeps DEF LoseCall
<1>3. UNCHANGED <<leading, log, commitIndex, lastApplied, raftApplied, stored, peers, nextIdx,
                  matchIdx, beats, acked, heartbeats, restarts, rediscoveries>>
      /\ calls' \subseteq calls
  BY DEF LoseCall, logVars, peerVars, bounds
<1>4. TypeOK'
  BY <1>1, <1>2, <1>3 DEF TypeOK
<1> QED
  BY <1>1, <1>2, <1>3, <1>4, QuietStep DEF CallInv

\* A follower handles a request that lags behind the leader: it changes only
\* its own tables, its commitIndex stays below the leader's, and when it
\* accepts it has had every row that it reports.
LEMMA AppendEntriesIs ==
    ASSUME Inv, NEW n \in Follower, NEW prev \in Nat, NEW entries \in Rows, NEW lc \in Nat,
           lc <= commitIndex[Leader], AppendEntries(n, prev, entries, lc)
    PROVE  /\ log' \in [Node -> Rows]
           /\ commitIndex' \in [Node -> Index \cup {0}]
           /\ lastApplied' \in [Node -> Index \cup {0}]
           /\ stored' \in [Node -> Index \cup {0}]
           /\ \A m \in Node : m # n => /\ log'[m] = log[m] /\ commitIndex'[m] = commitIndex[m]
                                       /\ lastApplied'[m] = lastApplied[m] /\ stored'[m] = stored[m]
           /\ stored[n] <= stored'[n] /\ commitIndex'[n] <= commitIndex[Leader]
           /\ lastApplied'[n] <= lastApplied[n]
           /\ (prev = 0 \/ Has(log[n], prev)) =>
                 /\ Larger(prev, LastIndex(entries)) <= stored'[n]
                 /\ \/ log'[n] = log[n]
                    \/ \A i \in Index : log'[n][i] = IF i <= prev THEN log[n][i] ELSE entries[i]
           /\ ~(prev = 0 \/ Has(log[n], prev)) =>
                 \A i \in Index : log'[n][i] = IF i >= prev THEN NoEvent ELSE log[n][i]
<1>1. /\ TypeOK /\ StoredInv /\ n \in Node /\ Leader \in Node
      /\ commitIndex[n] \in Nat /\ lastApplied[n] \in Nat /\ stored[n] \in Nat /\ log[n] \in Rows
      /\ commitIndex[Leader] \in Nat
      /\ commitIndex[n] \in Index \cup {0} /\ lastApplied[n] \in Index \cup {0}
      /\ stored[n] \in Index \cup {0} /\ commitIndex[Leader] \in Index \cup {0}
      /\ commitIndex[n] <= commitIndex[Leader]
  BY Types DEF Inv, TypeOK, StoredInv
<1>2. CASE prev > 0 /\ ~Has(log[n], prev)
  <2> DEFINE ci == Smaller(commitIndex[n], prev - 1)
             la == Smaller(lastApplied[n], prev - 1)
             tr == TruncateFrom(log[n], prev)
  <2>1. /\ log' = [log EXCEPT ![n] = tr] /\ lastApplied' = [lastApplied EXCEPT ![n] = la]
        /\ commitIndex' = [commitIndex EXCEPT ![n] = ci] /\ stored' = stored
    BY <1>2 DEF AppendEntries
  <2>2. /\ ci \in Index \cup {0} /\ ci <= commitIndex[Leader]
        /\ la \in Index \cup {0} /\ la <= lastApplied[n]
    BY <1>1, <1>2, IndexInterval DEF Smaller
  <2>3. tr \in Rows /\ \A i \in Index : tr[i] = IF i >= prev THEN NoEvent ELSE log[n][i]
    BY <1>1 DEF TruncateFrom, Rows
  <2> HIDE DEF ci, la, tr
  <2> QED
    BY <1>1, <1>2, <2>1, <2>2, <2>3 DEF TypeOK
<1>3. CASE ~(prev > 0 /\ ~Has(log[n], prev))
  <2> DEFINE rows == [i \in Index |-> IF i <= prev THEN log[n][i] ELSE entries[i]]
             ci == Larger(commitIndex[n], lc)
             st == Larger(stored[n], LastIndex(log'[n]))
  <2>1. /\ log' = IF entries = NoRows THEN log ELSE [log EXCEPT ![n] = rows]
        /\ lastApplied' = lastApplied
        /\ commitIndex' = [commitIndex EXCEPT ![n] = ci]
        /\ stored' = [stored EXCEPT ![n] = st]
    BY <1>3 DEF AppendEntries
  <2>2. rows \in Rows /\ \A i \in Index : rows[i] = IF i <= prev THEN log[n][i] ELSE entries[i]
    BY <1>1 DEF Rows
  <2> HIDE DEF rows
  <2>3. /\ log' \in [Node -> Rows] /\ log'[n] \in Rows
        /\ \A m \in Node : m # n => log'[m] = log[m]
        /\ log'[n] = IF entries = NoRows THEN log[n] ELSE rows
    BY <1>1, <2>1, <2>2 DEF TypeOK
  <2>4. /\ LastIndex(log'[n]) \in Index \cup {0} /\ LastIndex(log'[n]) \in Nat
        /\ \A j \in Index : Has(log'[n], j) => j <= LastIndex(log'[n])
    BY <2>3, LastIndexIs
  <2>5. /\ ci \in Index \cup {0} /\ ci <= commitIndex[Leader]
    BY <1>1, IndexInterval DEF Larger
  <2>6. st \in Index \cup {0} /\ stored[n] <= st /\ LastIndex(log'[n]) <= st /\ st \in Nat
    BY <1>1, <2>4 DEF Larger
  <2>7. Larger(prev, LastIndex(entries)) <= LastIndex(log'[n])
    <3> DEFINE k == LastIndex(entries)
    <3>1. k \in Nat /\ k \in Index \cup {0} /\ (k = 0 \/ Has(entries, k))
      BY LastIndexIs
    <3> HIDE DEF k
    <3>2. CASE k > prev
      <4>1. Has(entries, k) /\ k \in Index
        BY <3>1, <3>2
      <4>2. entries # NoRows
        BY <4>1, NoRowsEmpty
      <4>3. log'[n][k] = entries[k]
        BY <2>2, <2>3, <3>1, <3>2, <4>1, <4>2
      <4>4. Has(log'[n], k)
        BY <4>1, <4>3 DEF Has
      <4> QED
        BY <2>4, <3>1, <3>2, <4>1, <4>4 DEF Larger, k
    <3>3. CASE ~(k > prev)
      <4>1. CASE prev = 0
        BY <2>4, <3>1, <3>3, <4>1 DEF Larger, k
      <4>2. CASE prev > 0
        <5>1. Has(log[n], prev) /\ prev \in Index
          BY <1>3, <4>2 DEF Has
        <5>2. log'[n][prev] = log[n][prev]
          BY <2>2, <2>3, <5>1
        <5>3. Has(log'[n], prev)
          BY <5>1, <5>2 DEF Has
        <5> QED
          BY <2>4, <3>1, <3>3, <5>1, <5>3 DEF Larger, k
      <4> QED
        BY <4>1, <4>2
    <3> QED
      BY <3>2, <3>3
  <2>8. Larger(prev, LastIndex(entries)) \in Nat
    BY LastIndexIs DEF Larger
  <2>9. Larger(prev, LastIndex(entries)) <= st
    BY <2>4, <2>6, <2>7, <2>8
  <2>10. /\ \A i \in Index : rows[i] = IF i <= prev THEN log[n][i] ELSE entries[i]
         /\ log'[n] = log[n] \/ log'[n] = rows
    BY <2>2, <2>3
  <2> HIDE DEF ci, st
  <2>11. /\ commitIndex' \in [Node -> Index \cup {0}] /\ commitIndex'[n] = ci
         /\ stored' \in [Node -> Index \cup {0}] /\ stored'[n] = st
         /\ \A m \in Node : m # n => commitIndex'[m] = commitIndex[m] /\ stored'[m] = stored[m]
    BY <1>1, <2>1, <2>5, <2>6 DEF TypeOK
  <2>12. prev = 0 \/ Has(log[n], prev)
    BY <1>3
  <2> QED
    BY <1>1, <2>1, <2>3, <2>5, <2>6, <2>9, <2>10, <2>11, <2>12 DEF TypeOK
<1> QED
  BY <1>2, <1>3

\* A step in which a follower only changes its own tables.
LEMMA FollowerStep ==
    ASSUME Inv, TypeOK', NEW n \in Follower, op' = op, beats' \subseteq beats,
           UNCHANGED <<peers, matchIdx, rediscoveries>>,
           \A m \in Node : m # n => log'[m] = log[m] /\ commitIndex'[m] = commitIndex[m],
           \A m \in Node : stored[m] <= stored'[m], stored'[Leader] = stored[Leader],
           commitIndex'[n] <= commitIndex[Leader],
           \A c \in calls' : CallOK(c)'
    PROVE  Inv'
<1>1. /\ TypeOK /\ StoredInv /\ CallInv /\ Leader \in Node /\ n # Leader /\ n \in Node
      /\ Follower \subseteq Node
  BY Types DEF Inv
<1>2. /\ log'[Leader] = log[Leader] /\ commitIndex'[Leader] = commitIndex[Leader]
      /\ Last' = Last
  BY <1>1 DEF Last
<1>3. LeaderRows' /\ OpInv'
  BY <1>2, OpSame, OpsKept
<1>4. CallInv'
  BY <1>1, <1>2 DEF CallInv
<1>5. StoredInv'
  <2>1. ASSUME NEW f \in Follower PROVE matchIdx'[f] <= stored'[f]
    <3>1. matchIdx[f] \in Nat /\ stored[f] \in Nat /\ matchIdx[f] <= stored[f]
      BY <1>1, Types DEF StoredInv
    <3>2. stored'[f] \in Nat /\ stored[f] <= stored'[f]
      <4>1. stored'[f] \in Index \cup {0}
        BY <1>1 DEF TypeOK
      <4> QED
        BY <1>1, <4>1, IndexInterval
    <3> QED
      BY <3>1, <3>2
  <2>2. \A m \in Node : commitIndex'[m] <= commitIndex'[Leader]
    BY <1>1, <1>2 DEF StoredInv
  <2> QED
    BY <1>1, <1>2, <2>1, <2>2 DEF StoredInv
<1>6. CommittedWasStored'
  BY <1>2, CommittedKept
<1> QED
  BY <1>3, <1>4, <1>5, <1>6 DEF Inv

\* A follower's answer reports rows that it has just had.
LEMMA HandleAppendEntriesInv ==
    ASSUME Inv, NEW c \in calls, HandleAppendEntries(c)
    PROVE  Inv' /\ \A x \in calls' : x \in calls \/ x.stage = "answered"
<1> DEFINE n == c.to
           ok == c.prev = 0 \/ Has(log[n], c.prev)
           mt == Larger(c.prev, LastIndex(c.entries))
           d  == [c EXCEPT !.stage = "answered", !.success = ok, !.match = mt,
                           !.prev = 0, !.entries = NoRows]
<1>1. /\ TypeOK /\ CallInv /\ CallOK(c) /\ c \in Call /\ n \in Follower /\ n \in Node
      /\ n # Leader /\ Leader \in Node
      /\ c.prev \in Nat /\ c.entries \in Rows /\ c.commit \in Nat /\ c.last \in Index
      /\ c.last \in Nat /\ c.stage = "sent" /\ c.commit <= commitIndex[Leader]
      /\ Last \in Nat /\ commitIndex[Leader] \in Nat
  BY Types DEF Inv, CallInv, CallOK, HandleAppendEntries
<1>2. AppendEntries(n, c.prev, c.entries, c.commit)
  BY DEF HandleAppendEntries
<1>3. /\ log' \in [Node -> Rows]
      /\ commitIndex' \in [Node -> Index \cup {0}]
      /\ lastApplied' \in [Node -> Index \cup {0}]
      /\ stored' \in [Node -> Index \cup {0}]
      /\ \A m \in Node : m # n => log'[m] = log[m] /\ commitIndex'[m] = commitIndex[m]
                                  /\ stored'[m] = stored[m]
      /\ stored[n] <= stored'[n] /\ commitIndex'[n] <= commitIndex[Leader]
      /\ ok => mt <= stored'[n]
  <2> HIDE DEF n
  <2> QED
    BY <1>1, <1>2, AppendEntriesIs
<1>4. mt \in Nat /\ mt \in Index \cup {0}
  <2>1. LastIndex(c.entries) \in Index \cup {0} /\ LastIndex(c.entries) \in Nat
    BY <1>1, LastIndexIs
  <2>2. c.prev <= c.last
    BY <1>1 DEF CallOK
  <2> QED
    BY <1>1, <2>1, <2>2, IndexInterval DEF Larger
<1>5. ok \in BOOLEAN
  OBVIOUS
<1>6. calls' = (calls \ {c}) \cup {d}
  BY DEF HandleAppendEntries
<1> HIDE DEF ok, mt
<1>a. /\ d \in Call /\ d.stage = "answered" /\ d.success = ok /\ d.match = mt /\ d.to = n
      /\ d.commit = c.commit /\ d.last = c.last
  BY <1>1, <1>4, <1>5, NoRowsEmpty DEF Call
<1> HIDE DEF d, n
<1>7. PICK r \in Call : /\ calls' = (calls \ {c}) \cup {r}
                        /\ r.stage = "answered" /\ r.success = ok /\ r.match = mt /\ r.to = n
                        /\ r.commit = c.commit /\ r.last = c.last
  BY <1>6, <1>a
<1>8. UNCHANGED <<leading, raftApplied, peers, nextIdx, matchIdx, op, beats, acked, heartbeats,
                  restarts, rediscoveries>>
  BY DEF HandleAppendEntries, peerVars, bounds
<1>9. TypeOK'
  BY <1>1, <1>3, <1>7, <1>8 DEF TypeOK
<1>10. \A m \in Node : stored[m] <= stored'[m]
  BY <1>1, <1>3, Types
<1>11. Last' = Last /\ commitIndex'[Leader] = commitIndex[Leader]
  BY <1>1, <1>3 DEF Last
<1>12. CallOK(r)'
  BY <1>1, <1>3, <1>4, <1>7, <1>11 DEF CallOK
<1>13. \A x \in calls : CallOK(x)'
  BY <1>1, <1>9, <1>10, <1>11, CallsKept
<1>14. \A x \in calls' : CallOK(x)'
  BY <1>7, <1>12, <1>13
<1>15. Inv'
  BY <1>1, <1>3, <1>8, <1>9, <1>10, <1>14, FollowerStep
<1> QED
  BY <1>7, <1>15

\* A heartbeat may cut a follower's log back, but what it once had is on record.
LEMMA HandleHeartbeatInv ==
    ASSUME Inv, NEW b \in beats, HandleHeartbeat(b)
    PROVE  Inv'
<1> DEFINE n == b.to
<1>1. /\ TypeOK /\ CallInv /\ n \in Follower /\ n # Leader /\ Leader \in Node
      /\ b.prev \in Nat /\ b.commit \in Nat /\ b.commit <= commitIndex[Leader]
      /\ Last \in Nat /\ commitIndex[Leader] \in Nat
  BY Types DEF Inv, CallInv
<1>2. AppendEntries(n, b.prev, NoRows, b.commit)
  BY DEF HandleHeartbeat
<1> HIDE DEF n
<1>3. /\ log' \in [Node -> Rows]
      /\ commitIndex' \in [Node -> Index \cup {0}]
      /\ lastApplied' \in [Node -> Index \cup {0}]
      /\ stored' \in [Node -> Index \cup {0}]
      /\ \A m \in Node : m # n => log'[m] = log[m] /\ commitIndex'[m] = commitIndex[m]
                                  /\ stored'[m] = stored[m]
      /\ stored[n] <= stored'[n] /\ commitIndex'[n] <= commitIndex[Leader]
  BY <1>1, <1>2, AppendEntriesIs, NoRowsEmpty
<1>4. UNCHANGED <<leading, raftApplied, peers, nextIdx, matchIdx, op, calls, acked, heartbeats,
                  restarts, rediscoveries>>
      /\ beats' \subseteq beats
  BY DEF HandleHeartbeat, peerVars, bounds
<1>5. TypeOK'
  BY <1>1, <1>3, <1>4 DEF TypeOK
<1>6. \A m \in Node : stored[m] <= stored'[m]
  BY <1>1, <1>3, Types
<1>7. Last' = Last /\ commitIndex'[Leader] = commitIndex[Leader]
  BY <1>1, <1>3 DEF Last
<1>8. \A x \in calls : CallOK(x)'
  BY <1>1, <1>5, <1>6, <1>7, CallsKept
<1> QED
  BY <1>1, <1>3, <1>4, <1>5, <1>6, <1>8, FollowerStep

\* A restart empties a follower; what it once had is on record.
LEMMA RestartInv ==
    ASSUME Inv, NEW f \in Follower, Restart(f)
    PROVE  Inv'
<1>1. TypeOK /\ CallInv /\ f \in Node /\ f # Leader /\ Leader \in Node
      /\ Last \in Nat /\ commitIndex[Leader] \in Nat
  BY Types DEF Inv
<1>2. /\ log' = [log EXCEPT ![f] = NoRows]
      /\ commitIndex' = [commitIndex EXCEPT ![f] = 0]
      /\ lastApplied' = [lastApplied EXCEPT ![f] = 0]
      /\ raftApplied' = [raftApplied EXCEPT ![f] = {}]
      /\ restarts' = restarts + 1
      /\ UNCHANGED <<leading, stored, peers, nextIdx, matchIdx, op, calls, beats, acked,
                     heartbeats, rediscoveries>>
  BY DEF Restart, peerVars
<1>3. /\ log' \in [Node -> Rows] /\ commitIndex' \in [Node -> Index \cup {0}]
      /\ lastApplied' \in [Node -> Index \cup {0}]
      /\ raftApplied' \in [Node -> SUBSET (Index \X Event)]
  BY <1>1, <1>2, NoRowsEmpty DEF TypeOK
<1>4. /\ \A m \in Node : m # f => log'[m] = log[m] /\ commitIndex'[m] = commitIndex[m]
      /\ commitIndex'[f] = 0
  BY <1>1, <1>2 DEF TypeOK
<1>5. TypeOK'
  BY <1>1, <1>2, <1>3 DEF TypeOK
<1>6. \A m \in Node : stored[m] <= stored'[m]
  BY <1>1, <1>2, Types
<1>7. Last' = Last /\ commitIndex'[Leader] = commitIndex[Leader]
  BY <1>1, <1>4 DEF Last
<1>8. \A x \in calls : CallOK(x)'
  BY <1>1, <1>5, <1>6, <1>7, CallsKept
<1> QED
  BY <1>1, <1>2, <1>4, <1>5, <1>6, <1>8, FollowerStep

\* A heartbeat carries the leader's commitIndex.
LEMMA HeartbeatInv ==
    ASSUME Inv, NEW f \in Follower, Heartbeat(f)
    PROVE  Inv'
<1> DEFINE b == [to |-> f, prev |-> LastIndex(log[Leader]), commit |-> commitIndex[Leader]]
<1>1. /\ TypeOK /\ CallInv /\ StoredInv /\ Last \in Nat /\ commitIndex[Leader] \in Nat
  BY Types DEF Inv
<1>2. /\ beats' = beats \cup {b} /\ heartbeats' = heartbeats + 1
      /\ UNCHANGED <<leading, log, commitIndex, lastApplied, raftApplied, stored, peers, nextIdx,
                     matchIdx, op, calls, acked, restarts, rediscoveries>>
  BY DEF Heartbeat, logVars, peerVars
<1>3. b \in Beat /\ b.commit = commitIndex[Leader]
  BY <1>1 DEF Beat, Last
<1> HIDE DEF b
<1>4. TypeOK'
  BY <1>1, <1>2, <1>3 DEF TypeOK
<1>5. Last' = Last
  BY <1>2 DEF Last
<1>6. CallInv'
  BY <1>1, <1>2, <1>3, <1>5 DEF CallInv, CallOK
<1>7. LeaderRows' /\ OpInv'
  BY <1>2, OpSame, OpsKept
<1>8. StoredInv' /\ CommittedWasStored'
  BY <1>2, <1>5 DEF Inv, StoredInv, CommittedWasStored
<1> QED
  BY <1>4, <1>6, <1>7, <1>8 DEF Inv

\* A tick of the loop applies what is committed.
LEMMA TickInv ==
    ASSUME Inv, NEW n \in Node, Tick(n)
    PROVE  Inv'
<1>1. TypeOK /\ CallInv
  BY DEF Inv
<1>2. UNCHANGED <<leading, log, commitIndex, stored, peers, nextIdx, matchIdx, op, calls,
                  beats, acked, heartbeats, restarts, rediscoveries>>
  BY DEF Tick, peerVars, bounds
<1>3. TypeOK'
  BY <1>1, <1>2, ApplyIs DEF TypeOK, Tick
<1> QED
  BY <1>1, <1>2, <1>3, OpSame, QuietStep DEF CallInv

\* Discovery replaces the peers, after which CommittedWasStored claims nothing.
LEMMA SetSnapshotInv ==
    ASSUME Inv, NEW ids \in SUBSET Follower, SetSnapshot(ids)
    PROVE  Inv'
<1>1. TypeOK /\ CallInv /\ StoredInv
  BY DEF Inv
<1>2. /\ peers' = ids /\ rediscoveries' = rediscoveries + 1
      /\ UNCHANGED <<leading, log, commitIndex, lastApplied, raftApplied, stored, nextIdx,
                     matchIdx, op, calls, beats, acked, heartbeats, restarts>>
  BY DEF SetSnapshot, logVars
<1>3. TypeOK'
  BY <1>1, <1>2 DEF TypeOK
<1>4. Last' = Last
  BY <1>2 DEF Last
<1>5. CallInv'
  BY <1>1, <1>2, <1>4 DEF CallInv, CallOK
<1>6. rediscoveries' # 0
  BY <1>1, <1>2 DEF TypeOK
<1>7. StoredInv' /\ CommittedWasStored'
  BY <1>1, <1>2, <1>4, <1>6 DEF StoredInv, CommittedWasStored
<1>8. LeaderRows' /\ OpInv'
  BY <1>2, OpSame, OpsKept
<1> QED
  BY <1>3, <1>5, <1>7, <1>8 DEF Inv

\* Losing a heartbeat or the leadership, or doing nothing, touches no row.
LEMMA IdleInv ==
    ASSUME Inv, LoseLeadership \/ (\E b \in beats : LoseHeartbeat(b)) \/ UNCHANGED vars
    PROVE  Inv'
<1>1. TypeOK /\ CallInv
  BY DEF Inv
<1>2. /\ UNCHANGED <<log, commitIndex, lastApplied, raftApplied, stored, peers, nextIdx, matchIdx,
                     op, calls, acked, heartbeats, restarts, rediscoveries>>
      /\ beats' \subseteq beats /\ leading' \in BOOLEAN
  BY <1>1 DEF TypeOK, LoseLeadership, LoseHeartbeat, vars, logVars, peerVars, bounds
<1>3. TypeOK'
  BY <1>1, <1>2 DEF TypeOK
<1> QED
  BY <1>1, <1>2, <1>3, OpSame, QuietStep DEF CallInv

\* Every step preserves the invariant.
LEMMA InvStep == Inv /\ [Next]_vars => Inv'
<1> SUFFICES ASSUME Inv, [Next]_vars PROVE Inv'
  OBVIOUS
<1>1. ASSUME NEW p \in Proposer, Propose(p) PROVE Inv'
  BY <1>1, ProposeInv
<1>2. ASSUME NEW p \in Proposer, AppendLocal(p) PROVE Inv'
  BY <1>2, AppendLocalInv
<1>3. ASSUME NEW p \in Proposer, Broadcast(p) PROVE Inv'
  BY <1>3, BroadcastInv
<1>4. ASSUME NEW p \in Proposer, NEW ok \in BOOLEAN, Count(p, ok) PROVE Inv'
  BY <1>4, CountInv
<1>5. ASSUME NEW p \in Proposer, EndBroadcast(p) PROVE Inv'
  BY <1>5, EndBroadcastInv
<1>6. ASSUME NEW p \in Proposer, RecalculateCommitIndex(p) PROVE Inv'
  BY <1>6, RecalculateInv
<1>7. ASSUME NEW p \in Proposer, ProposeApplies(p) PROVE Inv'
  BY <1>7, ProposeAppliesInv
<1>8. ASSUME NEW p \in Proposer, NEW ok \in BOOLEAN, Return(p, ok) PROVE Inv'
  BY <1>8, ReturnInv
<1>9. ASSUME NEW c \in calls, Send(c) PROVE Inv'
  BY <1>9, SendInv
<1>10. ASSUME NEW c \in calls, HandleAppendEntries(c) PROVE Inv'
  BY <1>10, HandleAppendEntriesInv
<1>11. ASSUME NEW c \in calls, HandleReply(c) PROVE Inv'
  BY <1>11, HandleReplyInv
<1>12. ASSUME NEW c \in calls, LoseCall(c) PROVE Inv'
  BY <1>12, LoseCallInv
<1>13. ASSUME NEW f \in Follower, Heartbeat(f) PROVE Inv'
  BY <1>13, HeartbeatInv
<1>14. ASSUME NEW f \in Follower, Restart(f) PROVE Inv'
  BY <1>14, RestartInv
<1>15. ASSUME NEW b \in beats, HandleHeartbeat(b) PROVE Inv'
  BY <1>15, HandleHeartbeatInv
<1>16. ASSUME NEW n \in Node, Tick(n) PROVE Inv'
  BY <1>16, TickInv
<1>17. ASSUME NEW ids \in SUBSET Follower, SetSnapshot(ids) PROVE Inv'
  BY <1>17, SetSnapshotInv
<1>18. CASE LoseLeadership \/ (\E b \in beats : LoseHeartbeat(b)) \/ UNCHANGED vars
  BY <1>18, IdleInv
<1> QED
  BY <1>1, <1>2, <1>3, <1>4, <1>5, <1>6, <1>7, <1>8, <1>9, <1>10, <1>11, <1>12, <1>13, <1>14,
     <1>15, <1>16, <1>17, <1>18 DEF Next

\* The invariant holds in every reachable state.
LEMMA Invariance == Spec => []Inv
BY InvInit, InvStep, PTL DEF Spec

\* With any number of handlers, every variable keeps its type: in particular
\* the indices that concurrent calls of Propose read never run past the table,
\* no Propose broadcasts more than MaxAttempts times, and what a follower
\* reports is an index of the log.
THEOREM TypeCorrect == Spec => []TypeOK
<1>1. Inv => TypeOK
  BY DEF Inv
<1> QED
  BY <1>1, Invariance, PTL

\* With any number of handlers and any order of the answers, recalculateCommitIndex
\* commits only what a majority of the cluster has had, while the peer set is the
\* whole cluster.
THEOREM CommittedWasStoredAlways == Spec => []CommittedWasStored
<1>1. Inv => CommittedWasStored
  BY DEF Inv
<1> QED
  BY <1>1, Invariance, PTL

-----------------------------------------------------------------------------
(* What an acknowledgement is worth with any number of handlers.               *)

\* An applied event is one its handler has come to, and its row is at the index
\* it was applied with, or replaced.
AppliedEvents ==
    \A j \in Index, p \in Proposer, s \in 1..MaxLog : <<j, <<p, s>>>> \in raftApplied[Leader] =>
        /\ s <= op[p].seq /\ (op[p].stage = "indexed" => s # op[p].seq)
        /\ \A i \in Index : log[Leader][i] = <<p, s>> => i = j

\* Up to lastApplied some event was applied at every index.
AppliedIndices ==
    \A i \in Index : i <= lastApplied[Leader] => \E d \in Event : <<i, d>> \in raftApplied[Leader]

\* The row of a handler's event is at the handler's index, or replaced.
OwnRow ==
    \A p \in Proposer, j \in Index :
        op[p].stage \notin {"idle", "indexed"} /\ log[Leader][j] = <<p, op[p].seq>> => j = op[p].idx

\* An acknowledged event is one its handler has come to.
AckedEvents ==
    \A p \in Proposer, s \in 1..MaxLog : <<p, s>> \in acked =>
        s <= op[p].seq /\ (op[p].stage = "indexed" => s # op[p].seq)

AckInv == AppliedEvents /\ AppliedIndices /\ OwnRow /\ AckedEvents /\ AckedUnlessOvertaken

\* At first nothing is applied and nothing acknowledged.
LEMMA AckInit == Init => AckInv
<1> SUFFICES ASSUME Init PROVE AckInv
  OBVIOUS
<1>1. raftApplied[Leader] = {} /\ lastApplied[Leader] = 0 /\ acked = {}
      /\ \A p \in Proposer : op[p].stage = "idle"
  BY DEF Init, Node
<1>2. \A i \in Index : ~(i <= 0)
  BY IndexInterval
<1> QED
  BY <1>1, <1>2
  DEF AckInv, AppliedEvents, AppliedIndices, OwnRow, AckedEvents, AckedUnlessOvertaken

\* A step that leaves the leader's tables alone and reads no index.
LEMMA AckKept ==
    ASSUME AckInv, \A q \in Proposer : OpKept(q), log'[Leader] = log[Leader],
           raftApplied'[Leader] = raftApplied[Leader], lastApplied'[Leader] = lastApplied[Leader],
           acked' = acked
    PROVE  AckInv'
<1>1. AppliedEvents' /\ AckedEvents'
  BY DEF AckInv, AppliedEvents, AckedEvents, OpKept
<1>2. OwnRow'
  BY DEF AckInv, OwnRow, OpKept
<1>3. AppliedIndices' /\ AckedUnlessOvertaken'
  BY DEF AckInv, AppliedIndices, AckedUnlessOvertaken, Overtaken
<1> QED
  BY <1>1, <1>2, <1>3 DEF AckInv

\* A handler that reads an index has a new event.
LEMMA ProposeAck ==
    ASSUME Inv, AckInv, NEW p \in Proposer, Propose(p)
    PROVE  AckInv'
<1>1. /\ TypeOK /\ op[p] \in Op /\ op[p].seq \in Nat /\ \A q \in Proposer : op[q].seq \in Nat
  BY Types DEF Inv
<1>2. /\ op'[p].stage = "indexed" /\ op'[p].seq = op[p].seq + 1
      /\ \A q \in Proposer : q # p => op'[q] = op[q]
  BY <1>1 DEF Propose, TypeOK, Op
<1>3. UNCHANGED <<log, raftApplied, lastApplied, acked>>
  BY DEF Propose, logVars
<1>4. ASSUME NEW q \in Proposer, NEW s \in 1..MaxLog,
             s <= op[q].seq /\ (op[q].stage = "indexed" => s # op[q].seq)
      PROVE  s <= op'[q].seq /\ (op'[q].stage = "indexed" => s # op'[q].seq)
  <2>1. CASE q = p
    BY <1>1, <1>2, <1>4, <2>1
  <2>2. CASE q # p
    BY <1>2, <1>4, <2>2
  <2> QED
    BY <2>1, <2>2
<1>5. AppliedEvents' /\ AckedEvents'
  BY <1>3, <1>4 DEF AckInv, AppliedEvents, AckedEvents
<1>6. OwnRow'
  BY <1>2, <1>3 DEF AckInv, OwnRow
<1>7. AppliedIndices' /\ AckedUnlessOvertaken'
  BY <1>3 DEF AckInv, AppliedIndices, AckedUnlessOvertaken, Overtaken
<1> QED
  BY <1>5, <1>6, <1>7 DEF AckInv

\* appendLog brings a new event into the table, and only replaces one.
LEMMA AppendLocalAck ==
    ASSUME Inv, AckInv, NEW p \in Proposer, AppendLocal(p)
    PROVE  AckInv'
<1> DEFINE k == op[p].idx
           e == <<p, op[p].seq>>
<1>1. /\ TypeOK /\ LeaderRows /\ op[p] \in Op /\ op[p].stage = "indexed"
      /\ \A q \in Proposer : op[q].seq \in Nat
  BY Types DEF Inv, AppendLocal
<1>2. /\ op'[p].stage = "appended" /\ op'[p].seq = op[p].seq /\ op'[p].idx = op[p].idx
      /\ \A q \in Proposer : q # p => op'[q] = op[q]
  BY <1>1 DEF AppendLocal, TypeOK, Op
<1>3. UNCHANGED <<raftApplied, lastApplied, acked>>
  BY DEF AppendLocal
<1>4. /\ \A i \in Index : i # k => log'[Leader][i] = log[Leader][i]
      /\ log'[Leader][k] = e
  BY AppendLocalInv
<1>5. op[p].seq \in 1..MaxLog /\ e \in Event /\ k \in Index
  <2>1. op[p].seq >= 1 /\ op[p].idx >= 1 /\ op[p].seq \in 0..MaxLog
        /\ op[p].idx \in Index \cup {0}
    BY <1>1, Types DEF Inv, OpInv
  <2>2. op[p].seq \in 1..MaxLog
    BY <2>1, BoundAssumption
  <2> QED
    BY <2>1, <2>2 DEF Event
<1>6. /\ \A i \in Index : log[Leader][i] # e
      /\ \A j \in Index : <<j, e>> \notin raftApplied[Leader]
      /\ e \notin acked
  BY <1>1, <1>5 DEF LeaderRows, AckInv, AppliedEvents, AckedEvents
<1> HIDE DEF k, e
<1>7. ASSUME NEW q \in Proposer, NEW s \in 1..MaxLog,
             s <= op[q].seq /\ (op[q].stage = "indexed" => s # op[q].seq)
      PROVE  s <= op'[q].seq /\ (op'[q].stage = "indexed" => s # op'[q].seq)
  <2>1. CASE q = p
    BY <1>2, <1>7, <2>1
  <2>2. CASE q # p
    BY <1>2, <1>7, <2>2
  <2> QED
    BY <2>1, <2>2
<1>8. AppliedEvents'
  <2>1. ASSUME NEW j \in Index, NEW q \in Proposer, NEW s \in 1..MaxLog,
               <<j, <<q, s>>>> \in raftApplied[Leader]
        PROVE  /\ s <= op'[q].seq /\ (op'[q].stage = "indexed" => s # op'[q].seq)
               /\ \A i \in Index : log'[Leader][i] = <<q, s>> => i = j
    <3>1. /\ s <= op[q].seq /\ (op[q].stage = "indexed" => s # op[q].seq)
          /\ \A i \in Index : log[Leader][i] = <<q, s>> => i = j
      BY <2>1 DEF AckInv, AppliedEvents
    <3>2. <<q, s>> # e
      BY <1>6, <2>1
    <3> QED
      BY <1>4, <1>7, <3>1, <3>2
  <2> QED
    BY <1>3, <2>1 DEF AppliedEvents
<1>9. AckedEvents'
  BY <1>3, <1>7 DEF AckInv, AckedEvents
<1>10. AppliedIndices'
  BY <1>3 DEF AckInv, AppliedIndices
<1>11. OwnRow'
  <2> SUFFICES ASSUME NEW q \in Proposer, NEW j \in Index,
                      op'[q].stage \notin {"idle", "indexed"},
                      log'[Leader][j] = <<q, op'[q].seq>>
               PROVE  j = op'[q].idx
    BY DEF OwnRow
  <2>1. CASE q = p
    <3>1. log'[Leader][j] = e
      BY <1>2, <2>1 DEF e
    <3>2. j = k
      BY <1>4, <1>6, <3>1
    <3> QED
      BY <1>2, <2>1, <3>2 DEF k
  <2>2. CASE q # p
    <3>1. log'[Leader][j] # e
      BY <2>2 DEF e
    <3>2. log[Leader][j] = <<q, op[q].seq>> /\ op'[q] = op[q]
      BY <1>2, <1>4, <2>2, <3>1
    <3> QED
      BY <3>2 DEF AckInv, OwnRow
  <2> QED
    BY <2>1, <2>2
<1>12. AckedUnlessOvertaken'
  <2>1. ASSUME NEW d \in acked PROVE (\E i \in Index : <<i, d>> \in raftApplied[Leader]) \/ Overtaken(d)'
    <3>1. d # e
      BY <1>6
    <3>2. CASE \A i \in Index : log[Leader][i] # d
      BY <1>4, <3>1, <3>2 DEF Overtaken
    <3>3. CASE \E i \in Index : log[Leader][i] = d /\ i = k
      <4>1. d \in Event /\ d # NoEvent
        BY <1>1, EventAssumption DEF TypeOK
      <4>2. log[Leader][k] = d /\ Has(log[Leader], k)
        BY <1>5, <3>3, <4>1 DEF Has
      <4>3. \A i \in Index : i # k => log[Leader][i] # d
        BY <1>1, <1>5, <4>2 DEF LeaderRows
      <4> QED
        BY <1>4, <3>1, <4>3 DEF Overtaken
    <3>4. CASE \E i \in Index : log[Leader][i] = d /\ i # k
      <4>1. PICK i \in Index : log[Leader][i] = d /\ i # k
        BY <3>4
      <4>2. log'[Leader][i] = d
        BY <1>4, <4>1
      <4>3. CASE \E j \in Index : <<j, d>> \in raftApplied[Leader]
        BY <4>3
      <4>4. CASE \E j \in Index, c \in Event : log[Leader][j] = d /\ c # d
                                               /\ <<j, c>> \in raftApplied[Leader]
        <5>1. PICK j \in Index, c \in Event : log[Leader][j] = d /\ c # d
                                              /\ <<j, c>> \in raftApplied[Leader]
          BY <4>4
        <5>2. d \in Event /\ d # NoEvent
          BY <1>1, EventAssumption DEF TypeOK
        <5>3. i = j
          BY <1>1, <4>1, <5>1, <5>2 DEF LeaderRows, Has
        <5> QED
          BY <1>3, <4>2, <5>1, <5>3 DEF Overtaken
      <4>5. (\E j \in Index : <<j, d>> \in raftApplied[Leader]) \/ Overtaken(d)
        BY DEF AckInv, AckedUnlessOvertaken
      <4> QED
        BY <4>1, <4>3, <4>4, <4>5 DEF Overtaken
    <3> QED
      BY <3>2, <3>3, <3>4
  <2> QED
    BY <1>3, <2>1 DEF AckedUnlessOvertaken
<1> QED
  BY <1>8, <1>9, <1>10, <1>11, <1>12 DEF AckInv

\* applyCommitted on the leader executes the row at every index it passes, unless
\* the event was applied before, and then it was with that very index.
LEMMA LeaderApplyAck ==
    ASSUME Inv, AckInv, ApplyCommitted(Leader), log' = log, acked' = acked,
           \A q \in Proposer : OpKept(q)
    PROVE  AckInv'
<1> DEFINE T    == ToApply(Leader)
           seen == {d \in Event : \E i \in Index : <<i, d>> \in raftApplied[Leader]}
           new  == {i \in T : log[Leader][i] \notin seen
                                /\ \A j \in T : log[Leader][j] = log[Leader][i] => i <= j}
<1>1. /\ TypeOK /\ LeaderRows /\ StoredInv /\ Leader \in Node /\ Last \in Nat
      /\ commitIndex[Leader] \in Nat /\ lastApplied[Leader] \in Nat /\ log[Leader] \in Rows
  BY Types DEF Inv
<1>2. \A i \in T : i \in Index /\ Has(log[Leader], i) /\ log[Leader][i] \in Event
  BY <1>1 DEF ToApply, Has, Rows
<1>3. raftApplied'[Leader] = raftApplied[Leader] \cup {<<i, log[Leader][i]>> : i \in new}
  BY <1>1 DEF ApplyCommitted, TypeOK
<1>4. \A i, j \in T : log[Leader][i] = log[Leader][j] => i = j
  BY <1>1, <1>2 DEF LeaderRows
<1>5. new = {i \in T : log[Leader][i] \notin seen}
  <2>1. \A i, j \in T : log[Leader][j] = log[Leader][i] => i <= j
    BY <1>2, <1>4, IndexInterval
  <2> QED
    BY <2>1
<1> HIDE DEF new, T
<1>6. ASSUME NEW q \in Proposer, NEW s \in 1..MaxLog,
             s <= op[q].seq /\ (op[q].stage = "indexed" => s # op[q].seq)
      PROVE  s <= op'[q].seq /\ (op'[q].stage = "indexed" => s # op'[q].seq)
  BY <1>6 DEF OpKept
<1>7. AppliedEvents'
  <2>1. ASSUME NEW j \in Index, NEW q \in Proposer, NEW s \in 1..MaxLog,
               <<j, <<q, s>>>> \in raftApplied'[Leader]
        PROVE  /\ s <= op'[q].seq /\ (op'[q].stage = "indexed" => s # op'[q].seq)
               /\ \A i \in Index : log[Leader][i] = <<q, s>> => i = j
    <3>1. CASE <<j, <<q, s>>>> \in raftApplied[Leader]
      BY <1>6, <3>1 DEF AckInv, AppliedEvents
    <3>2. CASE <<j, <<q, s>>>> \notin raftApplied[Leader]
      <4>1. j \in T /\ log[Leader][j] = <<q, s>>
        BY <1>3, <1>5, <2>1, <3>2
      <4>2. s <= op[q].seq /\ (op[q].stage = "indexed" => s # op[q].seq)
        BY <1>1, <4>1 DEF LeaderRows
      <4>3. \A i \in Index : log[Leader][i] = <<q, s>> => i = j
        BY <1>1, <1>2, <4>1 DEF LeaderRows
      <4> QED
        BY <1>6, <4>2, <4>3
    <3> QED
      BY <3>1, <3>2
  <2> QED
    BY <2>1 DEF AppliedEvents
<1>8. AppliedIndices'
  <2> SUFFICES ASSUME NEW i \in Index, i <= lastApplied'[Leader]
               PROVE  \E d \in Event : <<i, d>> \in raftApplied'[Leader]
    BY DEF AppliedIndices
  <2>1. CASE i <= lastApplied[Leader]
    BY <1>3, <2>1 DEF AckInv, AppliedIndices
  <2>2. CASE ~(i <= lastApplied[Leader])
    <3>1. T # {} /\ lastApplied'[Leader] \in T
      BY <1>1, <2>2, ApplyIs DEF T
    <3>2. lastApplied'[Leader] <= commitIndex[Leader] /\ lastApplied'[Leader] \in Nat
      BY <3>1, IndexInterval DEF T, ToApply
    <3>3. i \in Nat /\ i <= commitIndex[Leader] /\ i <= Last /\ lastApplied[Leader] < i
      BY <1>1, <2>2, <3>2, IndexInterval DEF StoredInv
    <3>4. i \in T
      BY <1>1, <3>3 DEF T, ToApply, LeaderRows
    <3>5. CASE log[Leader][i] \in seen
      <4>1. PICK j \in Index : <<j, log[Leader][i]>> \in raftApplied[Leader]
        BY <3>5
      <4>2. PICK q \in Proposer, s \in 1..MaxLog : log[Leader][i] = <<q, s>>
        BY <1>2, <3>4 DEF Event
      <4>3. i = j
        BY <4>1, <4>2 DEF AckInv, AppliedEvents
      <4> QED
        BY <1>2, <1>3, <3>4, <4>1, <4>3
    <3>6. CASE log[Leader][i] \notin seen
      BY <1>2, <1>3, <1>5, <3>4, <3>6
    <3> QED
      BY <3>5, <3>6
  <2> QED
    BY <2>1, <2>2
<1>9. OwnRow'
  BY DEF AckInv, OwnRow, OpKept
<1>10. AckedEvents'
  BY <1>6 DEF AckInv, AckedEvents
<1>11. AckedUnlessOvertaken'
  BY <1>3 DEF AckInv, AckedUnlessOvertaken, Overtaken
<1> QED
  BY <1>7, <1>8, <1>9, <1>10, <1>11 DEF AckInv

\* waitForApplied: when lastApplied has reached the index, some event was applied
\* with it.
LEMMA ReturnAck ==
    ASSUME Inv, AckInv, NEW p \in Proposer, NEW ok \in BOOLEAN, Return(p, ok)
    PROVE  AckInv'
<1> DEFINE e == <<p, op[p].seq>>
<1>1. /\ UNCHANGED <<log, raftApplied, lastApplied>>
      /\ op[p].stage = "waiting" /\ (ok => lastApplied[Leader] >= op[p].idx)
      /\ acked' = IF ok THEN acked \cup {e} ELSE acked
  BY DEF Return, logVars
<1>2. \A q \in Proposer : OpKept(q)
  BY ReturnInv
<1>3. /\ op[p].seq \in 1..MaxLog /\ op[p].seq \in Nat /\ op[p].idx \in Index /\ op[p].idx \in Nat
      /\ op'[p].seq = op[p].seq /\ op'[p].stage = "idle" /\ lastApplied[Leader] \in Nat
  <2>1. /\ TypeOK /\ op[p].seq >= 1 /\ op[p].idx >= 1 /\ op[p].seq \in 0..MaxLog
        /\ op[p].idx \in Index \cup {0} /\ op[p] \in Op /\ Leader \in Node
        /\ lastApplied[Leader] \in Nat
    BY <1>1, Types DEF Inv, OpInv
  <2>2. op'[p].seq = op[p].seq /\ op'[p].stage = "idle"
    BY <2>1 DEF Return, TypeOK
  <2> QED
    BY <2>1, <2>2, BoundAssumption, IndexInterval
<1>4. AppliedEvents'
  BY <1>1, <1>2 DEF AckInv, AppliedEvents, OpKept
<1>5. AppliedIndices'
  BY <1>1 DEF AckInv, AppliedIndices
<1>6. OwnRow'
  BY <1>1, <1>2 DEF AckInv, OwnRow, OpKept
<1>7. AckedEvents'
  <2> SUFFICES ASSUME NEW q \in Proposer, NEW s \in 1..MaxLog, <<q, s>> \in acked'
               PROVE  s <= op'[q].seq /\ (op'[q].stage = "indexed" => s # op'[q].seq)
    BY DEF AckedEvents
  <2>1. CASE <<q, s>> \in acked
    BY <1>2, <2>1 DEF AckInv, AckedEvents, OpKept
  <2>2. CASE <<q, s>> \notin acked
    <3>1. q = p /\ s = op[p].seq
      BY <1>1, <2>2
    <3> QED
      BY <1>3, <3>1
  <2> QED
    BY <2>1, <2>2
<1>8. AckedUnlessOvertaken'
  <2>1. \A d \in acked : (\E i \in Index : <<i, d>> \in raftApplied'[Leader]) \/ Overtaken(d)'
    BY <1>1 DEF AckInv, AckedUnlessOvertaken, Overtaken
  <2>2. PICK d \in Event : d = e
    BY <1>3 DEF Event
  <2>3. ASSUME ok PROVE (\E i \in Index : <<i, d>> \in raftApplied'[Leader]) \/ Overtaken(d)'
    <3>1. PICK c \in Event : <<op[p].idx, c>> \in raftApplied[Leader]
      BY <1>1, <1>3, <2>3 DEF AckInv, AppliedIndices
    <3>2. \A j \in Index : log[Leader][j] = d => j = op[p].idx
      BY <1>1, <2>2 DEF AckInv, OwnRow
    <3>3. CASE c = d
      BY <1>1, <1>3, <3>1, <3>3
    <3>4. CASE c # d /\ \E j \in Index : log[Leader][j] = d
      <4>1. log'[Leader][op[p].idx] = d /\ <<op[p].idx, c>> \in raftApplied'[Leader]
        BY <1>1, <3>1, <3>2, <3>4
      <4> QED
        BY <1>3, <3>4, <4>1 DEF Overtaken
    <3>5. CASE \A j \in Index : log[Leader][j] # d
      BY <1>1, <3>5 DEF Overtaken
    <3> QED
      BY <3>3, <3>4, <3>5
  <2>4. acked' \subseteq acked \cup {d} /\ (d \in acked' => ok \/ d \in acked)
    BY <1>1, <2>2
  <2> HIDE DEF e
  <2>5. \A x \in acked' : (\E i \in Index : <<i, x>> \in raftApplied'[Leader]) \/ Overtaken(x)'
    BY <2>1, <2>3, <2>4, Zenon
  <2> QED
    BY <2>5 DEF AckedUnlessOvertaken
<1> QED
  BY <1>4, <1>5, <1>6, <1>7, <1>8 DEF AckInv

\* Every step preserves the invariant.
LEMMA AckStep ==
    ASSUME Inv, AckInv, [Next]_vars
    PROVE  AckInv'
<1>a. Leader \in Node /\ Leader \notin Follower /\ Follower \subseteq Node /\ TypeOK /\ CallInv
  BY Types DEF Inv
<1>b. op' = op => \A q \in Proposer : OpKept(q)
  BY OpSame
<1>c. ASSUME UNCHANGED <<log, raftApplied, lastApplied, acked>>, \A q \in Proposer : OpKept(q)
      PROVE  AckInv'
  <2>1. /\ log'[Leader] = log[Leader] /\ raftApplied'[Leader] = raftApplied[Leader]
        /\ lastApplied'[Leader] = lastApplied[Leader] /\ acked' = acked
    BY <1>c
  <2> QED
    BY <1>c, <2>1, AckKept
<1>1. ASSUME NEW p \in Proposer, Propose(p) PROVE AckInv'
  BY <1>1, ProposeAck
<1>2. ASSUME NEW p \in Proposer, AppendLocal(p) PROVE AckInv'
  BY <1>2, AppendLocalAck
<1>3. ASSUME NEW p \in Proposer, Broadcast(p) PROVE AckInv'
  <2>1. UNCHANGED <<log, raftApplied, lastApplied, acked>>
    BY <1>3 DEF Broadcast, logVars
  <2> QED
    BY <1>3, <1>c, <2>1, BroadcastInv
<1>4. ASSUME NEW p \in Proposer, EndBroadcast(p) PROVE AckInv'
  BY <1>4, <1>c, EndBroadcastInv DEF EndBroadcast, logVars
<1>5. ASSUME NEW p \in Proposer, NEW ok \in BOOLEAN, Count(p, ok) PROVE AckInv'
  <2>1. UNCHANGED <<log, raftApplied, lastApplied, acked>>
    BY <1>5 DEF Count, logVars
  <2> QED
    BY <1>5, <1>c, <2>1, CountInv
<1>6. ASSUME NEW p \in Proposer, RecalculateCommitIndex(p) PROVE AckInv'
  BY <1>6, <1>c, RecalculateInv DEF RecalculateCommitIndex
<1>7. ASSUME NEW p \in Proposer, ProposeApplies(p) PROVE AckInv'
  BY <1>7, LeaderApplyAck, ProposeAppliesInv DEF ProposeApplies
<1>8. ASSUME NEW p \in Proposer, NEW ok \in BOOLEAN, Return(p, ok) PROVE AckInv'
  BY <1>8, ReturnAck
<1>9. ASSUME NEW c \in calls, Send(c) PROVE AckInv'
  BY <1>9, <1>b, <1>c DEF Send, logVars
<1>10. ASSUME NEW c \in calls, HandleAppendEntries(c) PROVE AckInv'
  <2>1. /\ c.to \in Follower /\ c.prev \in Nat /\ c.entries \in Rows /\ c.commit \in Nat
        /\ c.commit <= commitIndex[Leader]
        /\ AppendEntries(c.to, c.prev, c.entries, c.commit)
        /\ UNCHANGED <<raftApplied, op, acked>>
    BY <1>10, <1>a, Types DEF CallInv, CallOK, HandleAppendEntries
  <2>2. log'[Leader] = log[Leader] /\ lastApplied'[Leader] = lastApplied[Leader]
    BY <1>a, <2>1, AppendEntriesIs
  <2> QED
    BY <1>b, <2>1, <2>2, AckKept
<1>11. ASSUME NEW c \in calls, HandleReply(c) PROVE AckInv'
  BY <1>11, <1>c, HandleReplyInv DEF HandleReply, logVars
<1>12. ASSUME NEW c \in calls, LoseCall(c) PROVE AckInv'
  BY <1>12, <1>c, LoseCallInv DEF LoseCall, logVars
<1>13. ASSUME NEW f \in Follower, Restart(f) PROVE AckInv'
  <2>1. /\ log'[Leader] = log[Leader] /\ lastApplied'[Leader] = lastApplied[Leader]
        /\ raftApplied'[Leader] = raftApplied[Leader] /\ UNCHANGED <<op, acked>>
    BY <1>13, <1>a DEF Restart, TypeOK
  <2> QED
    BY <1>b, <2>1, AckKept
<1>14. ASSUME NEW b \in beats, HandleHeartbeat(b) PROVE AckInv'
  <2>1. /\ b.to \in Follower /\ b.prev \in Nat /\ b.commit \in Nat
        /\ b.commit <= commitIndex[Leader]
        /\ AppendEntries(b.to, b.prev, NoRows, b.commit) /\ UNCHANGED <<raftApplied, op, acked>>
    BY <1>14, <1>a, Types DEF CallInv, HandleHeartbeat
  <2>2. log'[Leader] = log[Leader] /\ lastApplied'[Leader] = lastApplied[Leader]
    BY <1>a, <2>1, AppendEntriesIs, NoRowsEmpty
  <2> QED
    BY <1>b, <2>1, <2>2, AckKept
<1>15. ASSUME NEW n \in Node, Tick(n) PROVE AckInv'
  <2>1. ApplyCommitted(n) /\ UNCHANGED <<log, op, acked>>
    BY <1>15 DEF Tick
  <2>2. CASE n = Leader
    BY <1>b, <2>1, <2>2, LeaderApplyAck
  <2>3. CASE n # Leader
    <3>1. raftApplied'[Leader] = raftApplied[Leader] /\ lastApplied'[Leader] = lastApplied[Leader]
      BY <1>a, <2>1, <2>3, ApplyIs
    <3> QED
      BY <1>b, <2>1, <3>1, AckKept
  <2> QED
    BY <2>2, <2>3
<1>16. CASE \/ LoseLeadership \/ UNCHANGED vars \/ \E f \in Follower : Heartbeat(f)
            \/ \E b \in beats : LoseHeartbeat(b)
            \/ \E ids \in SUBSET Follower : SetSnapshot(ids)
  <2>1. UNCHANGED <<log, raftApplied, lastApplied, op, acked>>
    BY <1>16 DEF LoseLeadership, Heartbeat, LoseHeartbeat, SetSnapshot, vars, logVars
  <2> QED
    BY <1>b, <1>c, <2>1
<1> QED
  BY <1>1, <1>2, <1>3, <1>4, <1>5, <1>6, <1>7, <1>8, <1>9, <1>10, <1>11, <1>12, <1>13, <1>14,
     <1>15, <1>16 DEF Next

\* With any number of handlers and of peers, through lost leadership, changes of
\* the peer set and restarts of followers: an event for which Propose returned nil
\* was applied on the leader, or two calls of Propose had read the same index, and
\* one has replaced the row of the other.
THEOREM AckedAppliedOrOvertaken == Spec => []AckedUnlessOvertaken
<1>1. Inv /\ AckInv /\ [Next]_vars => AckInv'
  BY AckStep
<1>2. AckInv => AckedUnlessOvertaken
  BY DEF AckInv
<1> QED
  BY <1>1, <1>2, AckInit, Invariance, PTL DEF Spec

-----------------------------------------------------------------------------
(* One handler: calls of Propose that do not overlap.  Two handlers may read   *)
(* the same index, and the second INSERT OR REPLACE then takes the row of the  *)
(* first, so none of the following holds for them.                             *)

Serial == \E p : Proposer = {p}

\* The handler's index is the one just after the table until its row is
\* written, and the row of its own event from then on.
SerialOp ==
    \A p \in Proposer :
        /\ op[p].stage = "indexed" => op[p].idx = Last + 1
        /\ op[p].stage \notin {"idle", "indexed"} => log[Leader][op[p].idx] = <<p, op[p].seq>>

\* The rows on the wire are rows of the leader, without a gap after prev.
SentOK(c) ==
    c.stage = "sent" =>
        \A i \in Index : Has(c.entries, i) =>
            i > c.prev /\ \A j \in (c.prev + 1)..i : c.entries[j] = log[Leader][j]
SentRows == \A c \in calls : SentOK(c)

Follows(f) ==
    \A i \in Index : Has(log[f], i) => \A j \in 1..i : log[f][j] = log[Leader][j]

\* A replica has applied the leader's rows up to some index that lastApplied may
\* have been set back from, but that the leader has committed.
AppliedUpTo(n, a) == raftApplied[n] = {<<i, log[Leader][i]>> : i \in 1..a}
AppliedOK(n)      == \E a \in lastApplied[n]..commitIndex[Leader] : AppliedUpTo(n, a)
AppliedPrefix     == \A n \in Node : AppliedOK(n)

SerialInv == SerialOp /\ SentRows /\ FollowerPrefix /\ AppliedPrefix /\ AckMeansApplied

\* The leader's rows stay where they are: the table only grows at its end.
LeaderGrows == \A i \in Index : i <= Last => log'[Leader][i] = log[Leader][i]

\* What the leader's rows, once written, give to requests, followers and state
\* machines survives the growth of the table.
LEMMA GrowthKeeps ==
    ASSUME Inv, LeaderGrows
    PROVE  /\ \A c \in calls : SentOK(c) => SentOK(c)'
           /\ \A f \in Node : Follows(f) /\ log'[f] = log[f] => Follows(f)'
           /\ \A n \in Node : \A a \in 0..commitIndex[Leader] :
                 AppliedUpTo(n, a) /\ raftApplied'[n] = raftApplied[n] => AppliedUpTo(n, a)'
<1>1. /\ TypeOK /\ LeaderRows /\ StoredInv /\ Last \in Nat /\ Last \in Index \cup {0}
      /\ commitIndex[Leader] \in Nat /\ commitIndex[Leader] <= Last
  BY Types DEF Inv, StoredInv
<1>2. \A i \in 1..Last : i \in Index /\ log'[Leader][i] = log[Leader][i]
  BY <1>1, IndexInterval DEF LeaderGrows
<1>3. \A i \in Index : log[Leader][i] # NoEvent => i <= Last
  BY <1>1 DEF LeaderRows, Has
<1>4. ASSUME NEW c \in calls, SentOK(c) PROVE SentOK(c)'
  <2> SUFFICES ASSUME c.stage = "sent", NEW i \in Index, Has(c.entries, i)
               PROVE  /\ i > c.prev
                      /\ \A j \in (c.prev + 1)..i : c.entries[j] = log'[Leader][j]
    BY DEF SentOK
  <2>1. i > c.prev /\ \A j \in (c.prev + 1)..i : c.entries[j] = log[Leader][j]
    BY <1>4 DEF SentOK
  <2>2. c.prev \in Nat /\ i \in Nat
    BY <1>1, Types, IndexInterval
  <2>3. i <= Last
    BY <1>3, <2>1, <2>2 DEF Has
  <2>4. \A j \in (c.prev + 1)..i : j \in 1..Last
    BY <1>1, <2>2, <2>3
  <2> QED
    BY <1>2, <2>1, <2>4
<1>5. ASSUME NEW f \in Node, Follows(f), log'[f] = log[f] PROVE Follows(f)'
  <2> SUFFICES ASSUME NEW i \in Index, Has(log[f], i), NEW j \in 1..i
               PROVE  log[f][j] = log'[Leader][j]
    BY <1>5 DEF Follows
  <2>1. i \in Nat /\ i \in 1..i
    BY IndexInterval
  <2>2. log[f][j] = log[Leader][j] /\ log[f][i] = log[Leader][i]
    BY <1>5, <2>1 DEF Follows
  <2>3. i <= Last
    BY <1>3, <2>2 DEF Has
  <2>4. j \in 1..Last
    BY <1>1, <2>1, <2>3
  <2> QED
    BY <1>2, <2>2, <2>4
<1>6. ASSUME NEW n \in Node, NEW a \in 0..commitIndex[Leader], AppliedUpTo(n, a),
             raftApplied'[n] = raftApplied[n]
      PROVE  AppliedUpTo(n, a)'
  <2>1. \A i \in 1..a : log'[Leader][i] = log[Leader][i]
    BY <1>1, <1>2
  <2>2. {<<i, log[Leader][i]>> : i \in 1..a} = {<<i, log'[Leader][i]>> : i \in 1..a}
    BY <2>1
  <2> QED
    BY <1>6, <2>2 DEF AppliedUpTo
<1> QED
  BY <1>4, <1>5, <1>6

\* The handler keeps its row while the leader's rows stay.
LEMMA SerialOpKept ==
    ASSUME SerialOp, log'[Leader] = log[Leader], \A q \in Proposer : OpKept(q)
    PROVE  SerialOp'
BY DEF SerialOp, OpKept, Last

\* applyCommitted extends what a replica has applied, up to the last committed
\* row it has and without a gap, although lastApplied may lag behind raft_applied.
LEMMA ApplyExtends ==
    ASSUME Inv, SerialInv, NEW n \in Node, ApplyCommitted(n)
    PROVE  /\ raftApplied[n] \subseteq raftApplied'[n]
           /\ \E b \in lastApplied'[n]..commitIndex[Leader] :
                 raftApplied'[n] = {<<i, log[Leader][i]>> : i \in 1..b}
<1> DEFINE T == ToApply(n)
           L == log[Leader]
           seen == {e \in Event : \E i \in Index : <<i, e>> \in raftApplied[n]}
           new  == {i \in T : log[n][i] \notin seen
                                /\ \A j \in T : log[n][j] = log[n][i] => i <= j}
<1>1. /\ TypeOK /\ LeaderRows /\ StoredInv /\ Last \in Nat /\ log[n] \in Rows /\ L \in Rows
      /\ Last \in Index \cup {0} /\ Leader \in Node
      /\ commitIndex[Leader] \in Nat /\ commitIndex[Leader] <= Last /\ lastApplied[n] \in Nat
      /\ commitIndex[n] \in Nat /\ commitIndex[n] <= commitIndex[Leader]
  BY Types DEF Inv, StoredInv
<1>2. Follows(n)
  <2>1. CASE n = Leader
    BY <2>1 DEF Follows
  <2>2. CASE n # Leader
    BY <2>2 DEF SerialInv, FollowerPrefix, Follows, Node
  <2> QED
    BY <2>1, <2>2
<1>3. PICK a \in lastApplied[n]..commitIndex[Leader] : raftApplied[n] = {<<i, L[i]>> : i \in 1..a}
  BY DEF SerialInv, AppliedPrefix, AppliedOK, AppliedUpTo
<1>4. a \in Nat /\ lastApplied[n] <= a /\ a <= commitIndex[Leader] /\ a <= Last
  BY <1>1, <1>3
<1>5. \A i \in 1..Last : i \in Index /\ Has(L, i) /\ L[i] \in Event
  BY <1>1, IndexInterval DEF LeaderRows, Has, Rows
<1>6. \A i, j \in 1..Last : L[i] = L[j] => i = j
  BY <1>1, <1>5 DEF LeaderRows
<1>7. ASSUME NEW i \in T
      PROVE  /\ i \in Nat /\ i \in 1..Last /\ lastApplied[n] < i /\ i <= commitIndex[n]
             /\ \A j \in 1..i : log[n][j] = L[j]
  <2>1. i \in Index /\ lastApplied[n] < i /\ i <= commitIndex[n] /\ Has(log[n], i)
    BY DEF ToApply
  <2>2. i \in Nat /\ i >= 1 /\ i <= Last
    BY <1>1, <2>1, IndexInterval
  <2> QED
    BY <1>2, <2>1, <2>2 DEF Follows
<1>8. \A i \in T : log[n][i] = L[i]
  BY <1>7
<1>9. \A i \in T : L[i] \in seen <=> i <= a
  <2>1. ASSUME NEW i \in T, L[i] \in seen PROVE i <= a
    <3>1. PICK k \in Index : <<k, L[i]>> \in raftApplied[n]
      BY <2>1
    <3>2. PICK l \in 1..a : <<k, L[i]>> = <<l, L[l]>>
      BY <1>3, <3>1
    <3>3. l \in 1..Last /\ i \in 1..Last
      BY <1>1, <1>4, <1>7
    <3> QED
      BY <1>4, <1>6, <3>2, <3>3
  <2>2. ASSUME NEW i \in T, i <= a PROVE L[i] \in seen
    <3>1. i \in 1..a /\ i \in Index /\ L[i] \in Event
      BY <1>4, <1>5, <1>7, <2>2
    <3>2. <<i, L[i]>> \in raftApplied[n]
      BY <1>3, <3>1
    <3> QED
      BY <3>1, <3>2
  <2> QED
    BY <2>1, <2>2
<1>10. \A i, j \in T : log[n][j] = log[n][i] => i <= j
  BY <1>6, <1>7, <1>8
<1>11. new = {i \in T : ~(i <= a)}
  BY <1>8, <1>9, <1>10
<1>12. raftApplied'[n] = raftApplied[n] \cup {<<i, log[n][i]>> : i \in new}
  BY <1>1 DEF ApplyCommitted, TypeOK
<1> HIDE DEF new, seen
<1>13. raftApplied'[n] = {<<i, L[i]>> : i \in 1..a} \cup {<<i, L[i]>> : i \in {k \in T : ~(k <= a)}}
  BY <1>3, <1>8, <1>11, <1>12
<1>14. CASE T = {}
  <2>1. lastApplied'[n] = lastApplied[n]
    BY <1>1, <1>14, ApplyIs
  <2>2. raftApplied'[n] = {<<i, L[i]>> : i \in 1..a}
    BY <1>13, <1>14
  <2> QED
    BY <1>3, <1>12, <2>1, <2>2
<1>15. CASE T # {}
  <2> DEFINE m == lastApplied'[n]
             b == Larger(a, m)
  <2>1. m \in T /\ \A j \in T : j <= m
    BY <1>1, <1>15, ApplyIs
  <2>2. /\ m \in Nat /\ m \in 1..Last /\ lastApplied[n] < m /\ m <= commitIndex[n]
        /\ \A j \in 1..m : log[n][j] = L[j]
    BY <1>7, <2>1
  <2> HIDE DEF m
  <2>3. b \in Nat /\ a <= b /\ m <= b /\ b <= commitIndex[Leader] /\ (b = a \/ b = m)
    BY <1>1, <1>4, <2>2 DEF Larger
  <2> HIDE DEF b
  <2>4. ASSUME NEW i \in 1..b, ~(i <= a) PROVE i \in T
    <3>1. i \in 1..m /\ lastApplied[n] < i /\ i <= commitIndex[n]
      BY <1>1, <1>4, <2>2, <2>3, <2>4
    <3>2. i \in 1..Last /\ log[n][i] = L[i]
      BY <1>1, <2>2, <3>1
    <3>3. Has(log[n], i) /\ i \in Index
      BY <1>5, <3>2 DEF Has
    <3> QED
      BY <3>1, <3>3 DEF ToApply
  <2>5. ASSUME NEW i \in T PROVE i \in 1..b
    <3>1. i \in Nat /\ i \in 1..Last /\ i <= m
      BY <1>7, <2>1
    <3> QED
      BY <1>1, <2>2, <2>3, <3>1
  <2>6. 1..b = (1..a) \cup {k \in T : ~(k <= a)}
    BY <1>4, <2>3, <2>4, <2>5
  <2>7. raftApplied'[n] = {<<i, L[i]>> : i \in 1..b}
    BY <1>13, <2>6
  <2>8. b \in m..commitIndex[Leader]
    BY <1>1, <2>2, <2>3
  <2> QED
    BY <1>12, <2>7, <2>8 DEF m
<1> QED
  BY <1>14, <1>15

\* The step in which the leader writes a row of its only handler.
LEMMA AppendLocalGrows ==
    ASSUME Inv, SerialInv, NEW p \in Proposer, AppendLocal(p)
    PROVE  LeaderGrows /\ Last' = Last + 1
<1>1. op[p].stage = "indexed" /\ op[p].idx = Last + 1 /\ Last \in Nat
  BY Types DEF Inv, AppendLocal, SerialInv, SerialOp
<1>2. \A i \in Index : i <= Last => i # op[p].idx
  BY <1>1, IndexInterval
<1> QED
  BY <1>1, <1>2, AppendLocalInv, IndexInterval DEF LeaderGrows, Larger

\* A step in which the leader's rows grow at their end at most, no follower
\* writes and no replica applies.
LEMMA NoApplyStep ==
    ASSUME Inv, SerialInv, LeaderGrows, \A f \in Follower : log'[f] = log[f],
           UNCHANGED <<lastApplied, raftApplied, acked>>,
           commitIndex'[Leader] \in Nat, commitIndex[Leader] <= commitIndex'[Leader],
           SerialOp', \A c \in calls' : (\E d \in calls : c.stage = d.stage /\ c.prev = d.prev
                                                       /\ c.entries = d.entries)
                                        \/ c.stage # "sent" \/ SentOK(c)'
    PROVE  SerialInv'
<1>1. /\ TypeOK /\ commitIndex[Leader] \in Nat /\ \A n \in Node : lastApplied[n] \in Nat
      /\ Follower \subseteq Node
  BY Types DEF Inv
<1>2. SentRows'
  <2> SUFFICES ASSUME NEW c \in calls' PROVE SentOK(c)'
    BY DEF SentRows
  <2>1. ASSUME NEW d \in calls, c.stage = d.stage, c.prev = d.prev, c.entries = d.entries
        PROVE  SentOK(c)'
    <3>1. SentOK(d)'
      BY GrowthKeeps DEF SerialInv, SentRows
    <3> QED
      BY <2>1, <3>1 DEF SentOK
  <2>2. CASE c.stage # "sent"
    BY <2>2 DEF SentOK
  <2> QED
    BY <2>1, <2>2
<1>3. FollowerPrefix'
  <2>1. \A f \in Follower : Follows(f)
    BY DEF SerialInv, FollowerPrefix, Follows
  <2>2. \A f \in Follower : Follows(f)'
    BY <1>1, <2>1, GrowthKeeps
  <2> QED
    BY <2>2 DEF FollowerPrefix, Follows
<1>4. AppliedPrefix'
  <2> SUFFICES ASSUME NEW n \in Node PROVE AppliedOK(n)'
    BY DEF AppliedPrefix
  <2>1. PICK a \in lastApplied[n]..commitIndex[Leader] : AppliedUpTo(n, a)
    BY DEF SerialInv, AppliedPrefix, AppliedOK
  <2>2. a \in 0..commitIndex[Leader] /\ a \in lastApplied'[n]..commitIndex'[Leader]
    BY <1>1
  <2>3. AppliedUpTo(n, a)'
    BY <2>1, <2>2, GrowthKeeps
  <2> QED
    BY <2>2, <2>3 DEF AppliedOK
<1>5. AckMeansApplied'
  BY DEF SerialInv, AckMeansApplied
<1> QED
  BY <1>2, <1>3, <1>4, <1>5 DEF SerialInv

\* A step of applyCommitted at one replica.
LEMMA ApplyStep ==
    ASSUME Inv, SerialInv, NEW n \in Node, ApplyCommitted(n),
           UNCHANGED <<log, commitIndex, calls, acked>>, \A q \in Proposer : OpKept(q)
    PROVE  SerialInv'
<1>1. TypeOK
  BY DEF Inv
<1>2. SerialOp'
  BY SerialOpKept DEF SerialInv
<1>3. SentRows' /\ FollowerPrefix'
  BY DEF SerialInv, SentRows, SentOK, FollowerPrefix
<1>4. \A m \in Node : m # n => /\ raftApplied'[m] = raftApplied[m]
                               /\ lastApplied'[m] = lastApplied[m]
  BY <1>1, ApplyIs
<1>5. AppliedPrefix'
  <2> SUFFICES ASSUME NEW m \in Node PROVE AppliedOK(m)'
    BY DEF AppliedPrefix
  <2>1. CASE m = n
    BY <2>1, ApplyExtends DEF AppliedOK, AppliedUpTo
  <2>2. CASE m # n
    BY <1>4, <2>2 DEF SerialInv, AppliedPrefix, AppliedOK, AppliedUpTo
  <2> QED
    BY <2>1, <2>2
<1>6. AckMeansApplied'
  <2>1. raftApplied[Leader] \subseteq raftApplied'[Leader]
    BY <1>4, ApplyExtends DEF Node
  <2> QED
    BY <2>1 DEF SerialInv, AckMeansApplied
<1> QED
  BY <1>2, <1>3, <1>5, <1>6 DEF SerialInv

\* A step in which follower n replaces its rows by rows of the leader and may
\* set its lastApplied back.
LEMMA FollowerWrites ==
    ASSUME Inv, SerialInv, NEW n \in Follower, log'[Leader] = log[Leader],
           \A m \in Node : m # n => log'[m] = log[m] /\ raftApplied'[m] = raftApplied[m]
                                    /\ lastApplied'[m] = lastApplied[m],
           commitIndex'[Leader] = commitIndex[Leader], UNCHANGED <<op, acked>>,
           Follows(n)', AppliedOK(n)', \A c \in calls' : c \in calls \/ c.stage # "sent"
    PROVE  SerialInv'
<1>1. Leader \in Node /\ n # Leader /\ Follower \subseteq Node
  BY Types DEF Inv
<1>2. SerialOp'
  BY OpSame, SerialOpKept DEF SerialInv
<1>3. SentRows'
  BY DEF SerialInv, SentRows, SentOK
<1>4. FollowerPrefix'
  <2> SUFFICES ASSUME NEW f \in Follower PROVE Follows(f)'
    BY DEF FollowerPrefix, Follows
  <2>1. CASE f # n
    <3>1. Follows(f) /\ log'[f] = log[f]
      BY <1>1, <2>1 DEF SerialInv, FollowerPrefix, Follows
    <3> QED
      BY <3>1 DEF Follows
  <2> QED
    BY <2>1
<1>5. AppliedPrefix'
  <2> SUFFICES ASSUME NEW m \in Node, m # n PROVE AppliedOK(m)'
    BY DEF AppliedPrefix
  <2>1. AppliedOK(m)
    BY DEF SerialInv, AppliedPrefix
  <2> QED
    BY <2>1 DEF AppliedOK, AppliedUpTo
<1>6. AckMeansApplied'
  BY <1>1 DEF SerialInv, AckMeansApplied
<1> QED
  BY <1>2, <1>3, <1>4, <1>5, <1>6 DEF SerialInv

\* A follower that handles a request holds a prefix of the leader's rows
\* afterwards.
LEMMA AppendEntriesFollows ==
    ASSUME Inv, SerialInv, NEW n \in Follower, NEW prev \in Nat, NEW entries \in Rows,
           NEW lc \in Nat, lc <= commitIndex[Leader], AppendEntries(n, prev, entries, lc),
           \A i \in Index : Has(entries, i) =>
               i > prev /\ \A j \in (prev + 1)..i : entries[j] = log[Leader][j],
           raftApplied' = raftApplied
    PROVE  Follows(n)' /\ AppliedOK(n)'
<1>1. /\ n \in Node /\ Leader \in Node /\ n # Leader /\ lastApplied[n] \in Nat
      /\ commitIndex[Leader] \in Nat
  BY Types DEF Inv
<1>2. /\ log'[Leader] = log[Leader] /\ commitIndex'[Leader] = commitIndex[Leader]
      /\ lastApplied'[n] <= lastApplied[n] /\ lastApplied'[n] \in Nat
      /\ (prev = 0 \/ Has(log[n], prev)) =>
             \/ log'[n] = log[n]
             \/ \A i \in Index : log'[n][i] = IF i <= prev THEN log[n][i] ELSE entries[i]
      /\ ~(prev = 0 \/ Has(log[n], prev)) =>
             \A i \in Index : log'[n][i] = IF i >= prev THEN NoEvent ELSE log[n][i]
  <2>1. lastApplied' \in [Node -> Index \cup {0}]
    BY AppendEntriesIs
  <2>2. lastApplied'[n] \in Nat
    BY <1>1, <2>1, IndexInterval
  <2>3. \A m \in Node : m # n => log'[m] = log[m] /\ commitIndex'[m] = commitIndex[m]
    BY AppendEntriesIs
  <2>4. lastApplied'[n] <= lastApplied[n]
    BY AppendEntriesIs
  <2>5. (prev = 0 \/ Has(log[n], prev)) =>
             \/ log'[n] = log[n]
             \/ \A i \in Index : log'[n][i] = IF i <= prev THEN log[n][i] ELSE entries[i]
    BY AppendEntriesIs
  <2>6. ~(prev = 0 \/ Has(log[n], prev)) =>
             \A i \in Index : log'[n][i] = IF i >= prev THEN NoEvent ELSE log[n][i]
    BY AppendEntriesIs
  <2> QED
    BY <1>1, <2>2, <2>3, <2>4, <2>5, <2>6
<1>3. \A i \in Index : Has(log[n], i) => \A j \in 1..i : log[n][j] = log[Leader][j]
  BY DEF SerialInv, FollowerPrefix
<1>4. ASSUME NEW i \in Index, Has(log'[n], i), NEW j \in 1..i
      PROVE  log'[n][j] = log[Leader][j]
  <2>1. i \in Nat /\ j \in Index /\ j \in Nat /\ j <= i
    BY IndexInterval
  <2>2. CASE log'[n] = log[n]
    BY <1>3, <1>4, <2>2
  <2>3. CASE /\ prev = 0 \/ Has(log[n], prev)
             /\ \A k \in Index : log'[n][k] = IF k <= prev THEN log[n][k] ELSE entries[k]
    <3>1. CASE i <= prev
      <4>1. Has(log[n], i) /\ log'[n][j] = log[n][j]
        BY <1>4, <2>1, <2>3, <3>1 DEF Has
      <4> QED
        BY <1>3, <4>1
    <3>2. CASE ~(i <= prev)
      <4>1. Has(entries, i)
        BY <1>4, <2>3, <3>2 DEF Has
      <4>2. CASE j <= prev
        <5>1. prev # 0 /\ prev \in Index /\ Has(log[n], prev)
          BY <2>1, <2>3, <4>2 DEF Has
        <5>2. j \in 1..prev
          BY <2>1, <4>2
        <5> QED
          BY <1>3, <2>1, <2>3, <4>2, <5>1, <5>2
      <4>3. CASE ~(j <= prev)
        <5>1. j \in (prev + 1)..i
          BY <2>1, <4>3
        <5> QED
          BY <2>1, <2>3, <4>1, <4>3, <5>1
      <4> QED
        BY <4>2, <4>3
    <3> QED
      BY <3>1, <3>2
  <2>4. CASE \A k \in Index : log'[n][k] = IF k >= prev THEN NoEvent ELSE log[n][k]
    <3>1. ~(i >= prev) /\ Has(log[n], i)
      BY <1>4, <2>4 DEF Has
    <3>2. log'[n][j] = log[n][j]
      BY <2>1, <2>4, <3>1
    <3> QED
      BY <1>3, <3>1, <3>2
  <2> QED
    BY <1>2, <2>2, <2>3, <2>4
<1>5. Follows(n)'
  BY <1>2, <1>4 DEF Follows
<1>6. AppliedOK(n)'
  <2>1. PICK a \in lastApplied[n]..commitIndex[Leader] : AppliedUpTo(n, a)
    BY <1>1 DEF SerialInv, AppliedPrefix, AppliedOK
  <2>2. a \in lastApplied'[n]..commitIndex'[Leader]
    BY <1>1, <1>2
  <2>3. AppliedUpTo(n, a)'
    BY <1>2, <2>1 DEF AppliedUpTo
  <2> QED
    BY <2>2, <2>3 DEF AppliedOK
<1> QED
  BY <1>5, <1>6

\* The initial states satisfy the invariant of one handler.
LEMMA SerialInit == Init => SerialInv
<1> SUFFICES ASSUME Init PROVE SerialInv
  OBVIOUS
<1>1. SerialOp /\ SentRows /\ AckMeansApplied
  BY DEF Init, SerialOp, SentRows, AckMeansApplied
<1>2. FollowerPrefix
  BY NoRowsEmpty DEF Init, FollowerPrefix, Node
<1>3. AppliedPrefix
  <2> SUFFICES ASSUME NEW n \in Node PROVE AppliedOK(n)
    BY DEF AppliedPrefix
  <2>1. raftApplied[n] = {} /\ 0 \in lastApplied[n]..commitIndex[Leader]
    BY DEF Init, Node
  <2>2. {<<i, log[Leader][i]>> : i \in 1..0} = {}
    OBVIOUS
  <2> QED
    BY <2>1, <2>2 DEF AppliedOK, AppliedUpTo
<1> QED
  BY <1>1, <1>2, <1>3 DEF SerialInv

\* waitForApplied returns nil for a row that was applied under the handler's event.
LEMMA ReturnSerial ==
    ASSUME Inv, SerialInv, NEW p \in Proposer, NEW ok \in BOOLEAN, Return(p, ok)
    PROVE  SerialInv'
<1>1. UNCHANGED <<log, commitIndex, lastApplied, raftApplied, calls>>
  BY DEF Return, logVars
<1>2. SerialOp'
  BY <1>1, ReturnInv, SerialOpKept DEF SerialInv
<1>3. SentRows' /\ FollowerPrefix' /\ AppliedPrefix'
  BY <1>1 DEF SerialInv, SentRows, SentOK, FollowerPrefix, AppliedPrefix, AppliedOK, AppliedUpTo
<1>4. AckMeansApplied'
  <2> SUFFICES ASSUME ok, op[p].stage = "waiting", lastApplied[Leader] >= op[p].idx
               PROVE  \E i \in Index : <<i, <<p, op[p].seq>>>> \in raftApplied[Leader]
    BY <1>1 DEF Return, SerialInv, AckMeansApplied
  <2>1. /\ op[p].idx >= 1 /\ op[p].idx \in Nat /\ op[p].idx \in Index
        /\ log[Leader][op[p].idx] = <<p, op[p].seq>>
        /\ Leader \in Node /\ lastApplied[Leader] \in Nat /\ commitIndex[Leader] \in Nat
    BY Types DEF Inv, OpInv, SerialInv, SerialOp
  <2>2. PICK a \in lastApplied[Leader]..commitIndex[Leader] : AppliedUpTo(Leader, a)
    BY <2>1 DEF SerialInv, AppliedPrefix, AppliedOK
  <2>3. op[p].idx \in 1..a
    BY <2>1
  <2>4. <<op[p].idx, log[Leader][op[p].idx]>> \in raftApplied[Leader]
    BY <2>2, <2>3 DEF AppliedUpTo
  <2> QED
    BY <2>1, <2>4
<1> QED
  BY <1>2, <1>3, <1>4 DEF SerialInv

\* Every step preserves the invariant of one handler.
LEMMA SerialStep ==
    ASSUME Serial, Inv, SerialInv, [Next]_vars
    PROVE  SerialInv'
<1>a. /\ TypeOK /\ CallInv /\ commitIndex[Leader] \in Nat /\ Leader \in Node
      /\ Follower \subseteq Node /\ Last \in Nat /\ Leader \notin Follower
      /\ \A p, q \in Proposer : p = q
  BY Types DEF Inv, Serial
<1>b. log' = log => LeaderGrows
  BY DEF LeaderGrows
<1>c. \A c \in calls : \E d \in calls : c.stage = d.stage /\ c.prev = d.prev /\ c.entries = d.entries
  OBVIOUS
<1>d. op' = op => \A q \in Proposer : OpKept(q)
  BY OpSame
<1>1. ASSUME NEW p \in Proposer, Propose(p) PROVE SerialInv'
  <2>1. UNCHANGED <<log, commitIndex, lastApplied, raftApplied, calls, acked>>
    BY <1>1 DEF Propose, logVars
  <2>2. op'[p].stage = "indexed" /\ op'[p].idx = Last + 1
    BY <1>1, <1>a DEF Propose, TypeOK, Op, Last
  <2>3. SerialOp'
    BY <1>a, <2>1, <2>2 DEF SerialOp, Last
  <2> QED
    BY <1>a, <1>b, <1>c, <2>1, <2>3, NoApplyStep
<1>2. ASSUME NEW p \in Proposer, AppendLocal(p) PROVE SerialInv'
  <2>1. UNCHANGED <<commitIndex, lastApplied, raftApplied, calls, acked>>
        /\ \A f \in Follower : log'[f] = log[f]
    BY <1>2, <1>a DEF AppendLocal, TypeOK
  <2>2. op'[p].stage = "appended" /\ op'[p].idx = op[p].idx /\ op'[p].seq = op[p].seq
    BY <1>2, <1>a DEF AppendLocal, TypeOK, Op
  <2>3. log'[Leader][op[p].idx] = <<p, op[p].seq>>
    BY <1>2, AppendLocalInv
  <2>4. SerialOp'
    BY <1>a, <2>2, <2>3 DEF SerialOp
  <2>5. LeaderGrows
    BY <1>2, AppendLocalGrows
  <2> QED
    BY <1>a, <1>c, <2>1, <2>4, <2>5, NoApplyStep
<1>3. ASSUME NEW p \in Proposer, Broadcast(p) PROVE SerialInv'
  <2>1. UNCHANGED <<log, commitIndex, lastApplied, raftApplied, acked>>
    BY <1>3 DEF Broadcast, logVars
  <2>2. \A c \in calls' : c \in calls \/ c.stage # "sent"
    BY <1>3 DEF Broadcast
  <2>3. SerialOp'
    BY <1>3, <2>1, BroadcastInv, SerialOpKept DEF SerialInv
  <2> QED
    BY <1>a, <1>b, <1>c, <2>1, <2>2, <2>3, NoApplyStep
<1>4. ASSUME NEW p \in Proposer, EndBroadcast(p) \/ \E ok \in BOOLEAN : Count(p, ok)
      PROVE  SerialInv'
  <2>1. UNCHANGED <<log, commitIndex, lastApplied, raftApplied, acked>>
        /\ (calls' = calls \/ calls' = Abandon(p))
    BY <1>4 DEF Count, EndBroadcast, logVars
  <2>2. \A c \in calls' : \E d \in calls : c.stage = d.stage /\ c.prev = d.prev
                                           /\ c.entries = d.entries
    BY <1>a, <2>1, AbandonKeeps DEF TypeOK
  <2>3. SerialOp'
    BY <1>4, <2>1, CountInv, EndBroadcastInv, SerialOpKept DEF SerialInv
  <2> QED
    BY <1>a, <1>b, <2>1, <2>2, <2>3, NoApplyStep
<1>5. ASSUME NEW p \in Proposer, RecalculateCommitIndex(p) PROVE SerialInv'
  <2>1. UNCHANGED <<log, lastApplied, raftApplied, calls, acked>>
    BY <1>5 DEF RecalculateCommitIndex
  <2>2. commitIndex[Leader] <= commitIndex'[Leader] /\ SerialOp' /\ TypeOK'
    BY <1>5, <2>1, RecalculateInv, SerialOpKept DEF SerialInv, Inv
  <2>3. commitIndex'[Leader] \in Nat
    BY <1>a, <2>2, IndexInterval DEF TypeOK
  <2> QED
    BY <1>b, <1>c, <2>1, <2>2, <2>3, NoApplyStep
<1>6. ASSUME NEW p \in Proposer, ProposeApplies(p) PROVE SerialInv'
  BY <1>6, <1>a, ProposeAppliesInv, ApplyStep DEF ProposeApplies
<1>7. ASSUME NEW p \in Proposer, NEW ok \in BOOLEAN, Return(p, ok) PROVE SerialInv'
  BY <1>7, ReturnSerial
<1>8. ASSUME NEW c \in calls, Send(c) PROVE SerialInv'
  <2>1. UNCHANGED <<log, commitIndex, lastApplied, raftApplied, op, acked>>
    BY <1>8 DEF Send, logVars
  <2>2. PICK d \in Call :
           /\ calls' = (calls \ {c}) \cup {d} /\ d.stage = "sent"
           /\ \A i \in Index : Has(d.entries, i) =>
                 i > d.prev /\ \A j \in (d.prev + 1)..i : d.entries[j] = log[Leader][j]
    BY <1>8, SendInv
  <2>3. SentOK(d)'
    BY <2>1, <2>2 DEF SentOK
  <2>4. SerialOp'
    BY <1>d, <2>1, SerialOpKept DEF SerialInv
  <2>5. \A x \in calls' : (\E y \in calls : x.stage = y.stage /\ x.prev = y.prev
                                            /\ x.entries = y.entries) \/ SentOK(x)'
    BY <1>c, <2>2, <2>3
  <2> QED
    BY <1>a, <1>b, <2>1, <2>4, <2>5, NoApplyStep
<1>9. ASSUME NEW c \in calls, HandleAppendEntries(c) PROVE SerialInv'
  <2>1. /\ c.to \in Follower /\ c.prev \in Nat /\ c.entries \in Rows /\ c.commit \in Nat
        /\ c.commit <= commitIndex[Leader] /\ c.stage = "sent"
    BY <1>9, <1>a, Types DEF CallInv, CallOK, HandleAppendEntries
  <2>2. /\ AppendEntries(c.to, c.prev, c.entries, c.commit)
        /\ UNCHANGED <<raftApplied, op, acked>>
    BY <1>9 DEF HandleAppendEntries
  <2>3. \A i \in Index : Has(c.entries, i) =>
            i > c.prev /\ \A j \in (c.prev + 1)..i : c.entries[j] = log[Leader][j]
    BY <2>1 DEF SerialInv, SentRows, SentOK
  <2>4. Follows(c.to)' /\ AppliedOK(c.to)'
    BY <2>1, <2>2, <2>3, AppendEntriesFollows
  <2>5. \A m \in Node : m # c.to => log'[m] = log[m] /\ lastApplied'[m] = lastApplied[m]
                                    /\ commitIndex'[m] = commitIndex[m]
    BY <2>1, <2>2, AppendEntriesIs
  <2>6. \A x \in calls' : x \in calls \/ x.stage # "sent"
    BY <1>9, HandleAppendEntriesInv
  <2> QED
    BY <1>a, <2>1, <2>2, <2>4, <2>5, <2>6, FollowerWrites
<1>10. ASSUME NEW c \in calls, HandleReply(c) \/ LoseCall(c) PROVE SerialInv'
  <2>1. UNCHANGED <<log, commitIndex, lastApplied, raftApplied, acked>>
    BY <1>10 DEF HandleReply, LoseCall, logVars
  <2>2. \A x \in calls' : x \in calls \/ x.stage # "sent"
    BY <1>10, HandleReplyInv DEF LoseCall
  <2>3. SerialOp'
    BY <1>10, <2>1, HandleReplyInv, LoseCallInv, SerialOpKept DEF SerialInv
  <2> QED
    BY <1>a, <1>b, <1>c, <2>1, <2>2, <2>3, NoApplyStep
<1>11. ASSUME NEW f \in Follower, Restart(f) PROVE SerialInv'
  <2>1. /\ log' = [log EXCEPT ![f] = NoRows] /\ commitIndex' = [commitIndex EXCEPT ![f] = 0]
        /\ lastApplied' = [lastApplied EXCEPT ![f] = 0]
        /\ raftApplied' = [raftApplied EXCEPT ![f] = {}]
        /\ UNCHANGED <<op, calls, acked>>
    BY <1>11 DEF Restart
  <2>2. /\ \A m \in Node : m # f => log'[m] = log[m] /\ raftApplied'[m] = raftApplied[m]
                                    /\ lastApplied'[m] = lastApplied[m]
                                    /\ commitIndex'[m] = commitIndex[m]
        /\ log'[f] = NoRows /\ lastApplied'[f] = 0 /\ raftApplied'[f] = {}
    BY <1>a, <2>1 DEF TypeOK
  <2>3. Follows(f)'
    BY <2>2, NoRowsEmpty DEF Follows
  <2>4. AppliedOK(f)'
    <3>1. 0 \in lastApplied'[f]..commitIndex'[Leader]
      BY <1>a, <2>2
    <3>2. {<<i, log'[Leader][i]>> : i \in 1..0} = {}
      OBVIOUS
    <3> QED
      BY <2>2, <3>1, <3>2 DEF AppliedOK, AppliedUpTo
  <2> QED
    BY <1>a, <2>1, <2>2, <2>3, <2>4, FollowerWrites
<1>12. ASSUME NEW b \in beats, HandleHeartbeat(b) PROVE SerialInv'
  <2>1. /\ b.to \in Follower /\ b.prev \in Nat /\ b.commit \in Nat
        /\ b.commit <= commitIndex[Leader]
    BY <1>a, Types DEF CallInv
  <2>2. /\ AppendEntries(b.to, b.prev, NoRows, b.commit)
        /\ UNCHANGED <<raftApplied, op, calls, acked>>
    BY <1>12 DEF HandleHeartbeat
  <2>3. Follows(b.to)' /\ AppliedOK(b.to)'
    BY <2>1, <2>2, AppendEntriesFollows, NoRowsEmpty
  <2>4. \A m \in Node : m # b.to => log'[m] = log[m] /\ lastApplied'[m] = lastApplied[m]
                                    /\ commitIndex'[m] = commitIndex[m]
    BY <2>1, <2>2, AppendEntriesIs, NoRowsEmpty
  <2> QED
    BY <1>a, <2>1, <2>2, <2>3, <2>4, FollowerWrites
<1>13. ASSUME NEW n \in Node, Tick(n) PROVE SerialInv'
  BY <1>13, <1>d, ApplyStep DEF Tick
<1>14. CASE \/ LoseLeadership \/ UNCHANGED vars \/ \E f \in Follower : Heartbeat(f)
            \/ \E b \in beats : LoseHeartbeat(b)
            \/ \E ids \in SUBSET Follower : SetSnapshot(ids)
  <2>1. UNCHANGED <<log, commitIndex, lastApplied, raftApplied, op, calls, acked>>
    BY <1>14 DEF LoseLeadership, Heartbeat, LoseHeartbeat, SetSnapshot, vars, logVars
  <2>2. SerialOp'
    BY <1>d, <2>1, SerialOpKept DEF SerialInv
  <2> QED
    BY <1>a, <1>b, <1>c, <2>1, <2>2, NoApplyStep
<1> QED
  BY <1>1, <1>2, <1>3, <1>4, <1>5, <1>6, <1>7, <1>8, <1>9, <1>10, <1>11, <1>12, <1>13, <1>14
  DEF Next

\* With one handler both invariants hold in every reachable state.
LEMMA SerialInvariance == Serial => (Spec => [](Inv /\ SerialInv))
<1> SUFFICES ASSUME Serial PROVE Spec => [](Inv /\ SerialInv)
  OBVIOUS
<1>1. Init => Inv /\ SerialInv
  BY InvInit, SerialInit
<1>2. Inv /\ SerialInv /\ [Next]_vars => (Inv /\ SerialInv)'
  BY InvStep, SerialStep
<1> QED
  BY <1>1, <1>2, PTL DEF Spec

\* With one handler, every follower holds a prefix of the leader's rows, whatever
\* HandleAppendEntries receives late, cuts back or loses in a restart.
THEOREM FollowersHoldPrefix == Serial => (Spec => []FollowerPrefix)
<1> SUFFICES ASSUME Serial PROVE Spec => []FollowerPrefix
  OBVIOUS
<1>1. Spec => [](Inv /\ SerialInv)
  BY SerialInvariance
<1>2. Inv /\ SerialInv => FollowerPrefix
  BY DEF SerialInv
<1> QED
  BY <1>1, <1>2, PTL

-----------------------------------------------------------------------------
(* The refinement of ReplicatedLog.                                        *)

\* The committed rows are a sequence of different events, one per index up to
\* the leader's commitIndex.
ChosenOK ==
    /\ Chosen \in Seq(Event) /\ Len(Chosen) = commitIndex[Leader]
    /\ DOMAIN Chosen = 1..commitIndex[Leader]
    /\ \A i \in 1..commitIndex[Leader] : Chosen[i] = log[Leader][i]
    /\ \A i, j \in 1..commitIndex[Leader] : Chosen[i] = Chosen[j] => i = j

\* The invariant makes them one.
LEMMA ChosenIs == Inv => ChosenOK
<1> SUFFICES ASSUME Inv PROVE ChosenOK
  OBVIOUS
<1> DEFINE c == commitIndex[Leader]
<1>1. /\ TypeOK /\ LeaderRows /\ StoredInv /\ c \in Nat /\ c <= Last /\ Last \in Nat
      /\ Last \in Index \cup {0} /\ log[Leader] \in Rows
  BY Types DEF Inv, StoredInv
<1> HIDE DEF c
<1>2. \A i \in 1..c : i \in Index /\ Has(log[Leader], i) /\ log[Leader][i] \in Event
  BY <1>1, IndexInterval DEF LeaderRows, Has, Rows
<1>3. Chosen \in [1..c -> Event] /\ \A i \in 1..c : Chosen[i] = log[Leader][i]
  BY <1>2 DEF Chosen, c
<1>4. Chosen \in Seq(Event)
  BY <1>1, <1>3, SeqDef
<1>5. Len(Chosen) = c /\ DOMAIN Chosen = 1..c
  BY <1>1, <1>3, <1>4
<1>6. \A i, j \in 1..c : Chosen[i] = Chosen[j] => i = j
  BY <1>1, <1>2, <1>3 DEF LeaderRows
<1> QED
  BY <1>3, <1>4, <1>5, <1>6 DEF ChosenOK, c

\* A leader just elected has committed nothing.
LEMMA RefinementInit == Init => Promise!Init
<1> SUFFICES ASSUME Init PROVE Promise!Init
  OBVIOUS
<1>1. commitIndex[Leader] = 0 /\ raftApplied = [n \in Node |-> {}]
  BY DEF Init, Node
<1>2. Chosen \in Seq(Event) /\ Len(Chosen) = 0
  BY <1>1, InvInit, ChosenIs DEF ChosenOK
<1>3. Chosen = <<>>
  BY <1>2, EmptySeq
<1> QED
  BY <1>1, <1>3 DEF Promise!Init

\* As long as commitIndex stays the committed rows do.
LEMMA ChosenSame ==
    ASSUME Inv, LeaderGrows, commitIndex'[Leader] = commitIndex[Leader]
    PROVE  Chosen' = Chosen
<1>1. /\ commitIndex[Leader] \in Nat /\ commitIndex[Leader] <= Last /\ Last \in Nat
      /\ Last \in Index \cup {0}
  BY Types DEF Inv, StoredInv
<1>2. \A i \in 1..commitIndex[Leader] : log'[Leader][i] = log[Leader][i]
  BY <1>1, IndexInterval DEF LeaderGrows
<1> QED
  BY <1>2 DEF Chosen

\* A commitIndex that grows adds commands at the end.
LEMMA RecalculateRefines ==
    ASSUME Inv, Inv', log' = log, raftApplied' = raftApplied,
           commitIndex[Leader] <= commitIndex'[Leader]
    PROVE  [Promise!Next]_(Promise!vars)
<1> DEFINE c == commitIndex[Leader]
           d == commitIndex'[Leader]
<1>1. c \in Nat /\ d \in Nat
  <2>1. commitIndex[Leader] \in Index \cup {0} /\ commitIndex'[Leader] \in Index \cup {0}
    BY DEF Inv, TypeOK, Node
  <2> QED
    BY <2>1, IndexInterval
<1>2. CASE d = c
  <2>1. Chosen' = Chosen
    BY <1>2, ChosenSame DEF LeaderGrows
  <2> QED
    BY <2>1 DEF Promise!vars
<1>3. CASE c < d
  <2>1. /\ Chosen \in Seq(Event) /\ Len(Chosen) = c
        /\ \A i \in 1..c : Chosen[i] = log[Leader][i]
    BY ChosenIs DEF ChosenOK
  <2>2. /\ Chosen' \in Seq(Event) /\ Len(Chosen') = d /\ DOMAIN Chosen' = 1..d
        /\ \A i \in 1..d : Chosen'[i] = log[Leader][i]
        /\ \A i, j \in 1..d : Chosen'[i] = Chosen'[j] => i = j
    <3>1. ChosenOK'
      BY ChosenIs, PTL
    <3> QED
      BY <3>1 DEF ChosenOK
  <2> HIDE DEF c, d
  <2>3. \A i \in 1..c : i \in 1..d /\ Chosen'[i] \in Event /\ Chosen[i] = Chosen'[i]
    BY <1>1, <1>3, <2>1, <2>2
  <2>4. /\ SubSeq(Chosen', 1, c) \in Seq(Event) /\ Len(SubSeq(Chosen', 1, c)) = c
        /\ \A i \in 1..c : SubSeq(Chosen', 1, c)[i] = Chosen'[i]
    <3>1. /\ SubSeq(Chosen', 1, c) \in Seq(Event)
          /\ Len(SubSeq(Chosen', 1, c)) = IF 1 <= c THEN c - 1 + 1 ELSE 0
          /\ \A i \in 1..(c - 1 + 1) : SubSeq(Chosen', 1, c)[i] = Chosen'[1 + i - 1]
      BY <1>1, <2>3, SubSeqProperties
    <3> QED
      BY <1>1, <3>1
  <2>5. Chosen = SubSeq(Chosen', 1, c)
    BY <1>1, <2>1, <2>3, <2>4, SeqEqual
  <2>6. Promise!Choose
    BY <1>1, <1>3, <2>1, <2>2, <2>5 DEF Promise!Choose
  <2> QED
    BY <2>6 DEF Promise!Next
<1> QED
  BY <1>1, <1>2, <1>3

\* A run of applyCommitted executes the next commands, or none.
LEMMA ApplyRefines ==
    ASSUME Inv, SerialInv, NEW n \in Node, ApplyCommitted(n), UNCHANGED <<log, commitIndex>>
    PROVE  [Promise!Next]_(Promise!vars)
<1>1. PICK b \in lastApplied'[n]..commitIndex[Leader] :
           raftApplied'[n] = {<<i, log[Leader][i]>> : i \in 1..b}
  BY ApplyExtends
<1>2. raftApplied[n] \subseteq raftApplied'[n] /\ TypeOK
  BY ApplyExtends DEF Inv
<1>3. /\ raftApplied' \in [Node -> SUBSET (Index \X Event)]
      /\ lastApplied' \in [Node -> Index \cup {0}]
      /\ \A m \in Node : m # n => raftApplied'[m] = raftApplied[m]
  BY <1>2, ApplyIs
<1>4. raftApplied' = [raftApplied EXCEPT ![n] = {<<i, log[Leader][i]>> : i \in 1..b}]
  BY <1>1, <1>2, <1>3 DEF TypeOK
<1>5. Chosen' = Chosen
  BY ChosenSame DEF LeaderGrows
<1>6. b \in Nat /\ commitIndex[Leader] \in Nat /\ b <= commitIndex[Leader]
  <2>1. lastApplied'[n] \in Nat /\ commitIndex[Leader] \in Nat
    BY <1>2, <1>3, IndexInterval, Types
  <2> QED
    BY <2>1
<1>7. CASE b = 0
  <2>1. raftApplied'[n] = {}
    BY <1>1, <1>7
  <2>2. \A m \in Node : raftApplied'[m] = raftApplied[m]
    BY <1>2, <1>3, <2>1
  <2>3. raftApplied' = raftApplied
    BY <1>2, <1>3, <2>2 DEF TypeOK
  <2> QED
    BY <1>5, <2>3 DEF Promise!vars
<1>8. CASE b > 0
  <2>1. /\ Len(Chosen) = commitIndex[Leader]
        /\ \A i \in 1..commitIndex[Leader] : Chosen[i] = log[Leader][i]
    BY ChosenIs DEF ChosenOK
  <2>2. b \in 1..Len(Chosen) /\ \A i \in 1..b : Chosen[i] = log[Leader][i]
    BY <1>6, <1>8, <2>1
  <2>3. {<<i, log[Leader][i]>> : i \in 1..b} = {<<i, Chosen[i]>> : i \in 1..b}
    BY <2>2
  <2>4. Promise!Execute(n, b)
    BY <1>2, <1>4, <1>5, <2>3 DEF Promise!Execute
  <2> QED
    BY <2>2, <2>4 DEF Promise!Next
<1> QED
  BY <1>6, <1>7, <1>8

\* Every step is a step of ReplicatedLog or leaves it alone.
LEMMA RefinementStep ==
    ASSUME Inv, SerialInv, Inv', [Next]_vars
    PROVE  [Promise!Next]_(Promise!vars)
<1>a. Leader \in Node /\ Leader \notin Follower /\ TypeOK /\ CallInv
  BY Types DEF Inv
<1>b. ASSUME LeaderGrows, commitIndex'[Leader] = commitIndex[Leader], raftApplied' = raftApplied
      PROVE  [Promise!Next]_(Promise!vars)
  BY <1>b, ChosenSame DEF Promise!vars
<1>1. ASSUME NEW p \in Proposer, RecalculateCommitIndex(p) PROVE [Promise!Next]_(Promise!vars)
  BY <1>1, RecalculateInv, RecalculateRefines DEF RecalculateCommitIndex
<1>2. ASSUME NEW p \in Proposer, ProposeApplies(p) PROVE [Promise!Next]_(Promise!vars)
  BY <1>2, <1>a, ApplyRefines DEF ProposeApplies
<1>3. ASSUME NEW n \in Node, Tick(n) PROVE [Promise!Next]_(Promise!vars)
  BY <1>3, ApplyRefines DEF Tick
<1>4. ASSUME NEW f \in Follower, Restart(f) PROVE [Promise!Next]_(Promise!vars)
  <2>1. /\ raftApplied' = [raftApplied EXCEPT ![f] = {}]
        /\ log'[Leader] = log[Leader] /\ commitIndex'[Leader] = commitIndex[Leader]
    BY <1>4, <1>a DEF Restart, TypeOK
  <2>2. Chosen' = Chosen
    BY <2>1, ChosenSame DEF LeaderGrows
  <2>3. Promise!Restart(f) /\ f \in Node
    BY <2>1, <2>2 DEF Promise!Restart, Node
  <2> QED
    BY <2>3 DEF Promise!Next
<1>5. ASSUME NEW p \in Proposer, AppendLocal(p) PROVE [Promise!Next]_(Promise!vars)
  BY <1>5, <1>b, AppendLocalGrows DEF AppendLocal
<1>6. ASSUME NEW c \in calls, HandleAppendEntries(c) PROVE [Promise!Next]_(Promise!vars)
  <2>1. /\ c.to \in Follower /\ c.prev \in Nat /\ c.entries \in Rows /\ c.commit \in Nat
        /\ c.commit <= commitIndex[Leader]
        /\ AppendEntries(c.to, c.prev, c.entries, c.commit) /\ raftApplied' = raftApplied
    BY <1>6, <1>a, Types DEF CallInv, CallOK, HandleAppendEntries
  <2>2. \A m \in Node : m # c.to => log'[m] = log[m] /\ commitIndex'[m] = commitIndex[m]
    BY <2>1, AppendEntriesIs
  <2> QED
    BY <1>a, <1>b, <2>1, <2>2 DEF LeaderGrows
<1>7. ASSUME NEW b \in beats, HandleHeartbeat(b) PROVE [Promise!Next]_(Promise!vars)
  <2>1. /\ b.to \in Follower /\ b.prev \in Nat /\ b.commit \in Nat
        /\ b.commit <= commitIndex[Leader]
        /\ AppendEntries(b.to, b.prev, NoRows, b.commit) /\ raftApplied' = raftApplied
    BY <1>7, <1>a, Types DEF CallInv, HandleHeartbeat
  <2>2. \A m \in Node : m # b.to => log'[m] = log[m] /\ commitIndex'[m] = commitIndex[m]
    BY <2>1, AppendEntriesIs, NoRowsEmpty
  <2> QED
    BY <1>a, <1>b, <2>1, <2>2 DEF LeaderGrows
<1>8. CASE UNCHANGED <<log, commitIndex, raftApplied>>
  BY <1>8, <1>b, SMTT(40) DEF LeaderGrows
<1>9. ASSUME NEW p \in Proposer,
             \/ Propose(p) \/ Broadcast(p) \/ EndBroadcast(p)
             \/ \E ok \in BOOLEAN : Count(p, ok) \/ Return(p, ok)
      PROVE  UNCHANGED <<log, commitIndex, raftApplied>>
  BY <1>9 DEF Propose, Broadcast, EndBroadcast, Count, Return, logVars
<1>10. ASSUME NEW c \in calls, Send(c) \/ HandleReply(c) \/ LoseCall(c)
       PROVE  UNCHANGED <<log, commitIndex, raftApplied>>
  BY <1>10 DEF Send, HandleReply, LoseCall, logVars
<1>11. ASSUME \/ LoseLeadership \/ UNCHANGED vars \/ \E f \in Follower : Heartbeat(f)
              \/ \E b \in beats : LoseHeartbeat(b)
              \/ \E ids \in SUBSET Follower : SetSnapshot(ids)
       PROVE  UNCHANGED <<log, commitIndex, raftApplied>>
  BY <1>11 DEF LoseLeadership, Heartbeat, LoseHeartbeat, SetSnapshot, vars, logVars
<1> QED
  BY <1>1, <1>2, <1>3, <1>4, <1>5, <1>6, <1>7, <1>8, <1>9, <1>10, <1>11 DEF Next

\* With one handler the leadership implements ReplicatedLog: the committed rows
\* form one sequence that only grows, and applyCommitted executes a prefix of it
\* on every replica.
THEOREM Refinement == Serial => (Spec => ImplementsReplicatedLog)
<1> SUFFICES ASSUME Serial PROVE Spec => Promise!Spec
  BY DEF ImplementsReplicatedLog
<1>1. Spec => [](Inv /\ SerialInv)
  BY SerialInvariance
<1>2. Init => Promise!Init
  BY RefinementInit
<1>3. Inv /\ SerialInv /\ (Inv /\ SerialInv)' /\ [Next]_vars => [Promise!Next]_(Promise!vars)
  BY RefinementStep
<1> QED
  BY <1>1, <1>2, <1>3, PTL DEF Spec, Promise!Spec

=============================================================================
