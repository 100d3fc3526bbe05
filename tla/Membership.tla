------------------------------ MODULE Membership ------------------------------
(***************************************************************************)
(* Who a replica counts as its peers: its cluster_nodes table, its peer    *)
(* store (peers.go), the discovery loops (discovery.go), the join and      *)
(* leave handlers (cluster_http.go) and everything that stamps a row's     *)
(* last_seen: the health poller (heartbeat.go), the Raft handlers          *)
(* (raft_http.go) and the reconcilers.  Every five seconds the peer store  *)
(* is replaced by the rows seen within the last 30 seconds; votes,         *)
(* majorities and reconciliation rounds are counted over it.               *)
(*                                                                         *)
(* One replica is modelled, Self, against an environment of other hosts.   *)
(* A host has a node id and further names under which it may be known: its *)
(* address when it is a seed, "dns:" or "docker:" and its address when it  *)
(* comes from the name service.  A host can have several addresses, and    *)
(* the loops compare them with ADVERTISE_ADDR as strings: names made of    *)
(* another address of Self are its aliases, and no comparison tells them   *)
(* from the names of other hosts.  What a seed answers is unconstrained    *)
(* but for the property this module establishes of Self's own table.       *)
(* Times are kept as ages, so that time needs no bound; clocks are taken   *)
(* to agree.                                                               *)
(***************************************************************************)
EXTENDS Naturals, FiniteSets

CONSTANTS
    Host,
    Self,       \* the host that is modelled
    Id,         \* node ids and other names
    HostOf,     \* HostOf[i]: the host behind name i
    Own,        \* Own[h]: NODE_ID of h
    Seeds,      \* DISCOVERY_SEEDS, as names
    DnsIds,     \* the names dnsLoop and dockerDNSLoop make up
    Advertised, \* the names of Self made of ADVERTISE_ADDR, character by character
    EnvPeers,   \* PEERS, as names
    Bare,       \* the names that cannot be dialled: NODE_IDs that are no address
    NoRow,
    MaxAge,     \* consensusMaxAge, 30 seconds
    MaxLate,    \* rows of an answer that are written late
    MaxFaults   \* crashes, restarts, cuts and requests to leave

ASSUME ConstantsAssumption ==
    /\ Self \in Host
    /\ HostOf \in [Id -> Host]
    /\ Own \in [Host -> Id]
    /\ \A h \in Host : HostOf[Own[h]] = h
    /\ Seeds \subseteq Id /\ EnvPeers \subseteq Id
    /\ Advertised \subseteq {i \in Id : HostOf[i] = Self}
    /\ EnvPeers \cap Advertised \subseteq {Own[Self]}
    /\ DnsIds \subseteq Id \ {Own[h] : h \in Host}
    /\ Bare \subseteq Id \ (Seeds \cup DnsIds \cup EnvPeers \cup Advertised)
    /\ MaxAge \in Nat /\ MaxLate \in Nat /\ MaxFaults \in Nat

VARIABLES
    up,         \* the other hosts that run
    reached,    \* the hosts Self can talk to
    table,      \* table[i]: the row of name i in cluster_nodes
    peers,      \* the peer store: a function from names to addresses
    learn,      \* rows of a seed's answer about to be written
    sighted,    \* history: age of the last contact anybody had with name i; 0
                \* for the names of Self, which runs
    faults

vars == <<up, reached, table, peers, learn, sighted, faults>>

Old == MaxAge + 1       \* ages are told apart up to here

\* The ADVERTISE_ADDR of Self, another dialable address, or the bare node id in
\* its place.
Addr == {"advertised", "address", "name"}

Row == [age : 0..Old, addr : Addr]

ASSUME NoRowAssumption == NoRow \notin Row

Names(h) == {i \in Id : HostOf[i] = h}

\* The names under which the loops do not recognise this host.
Aliases == Names(Self) \ (Advertised \cup {Own[Self]})

\* The address that name i is made of.
AddrOf(i) == IF i \in Advertised THEN "advertised" ELSE "address"

Nothing == [i \in {} |-> NoRow]

\* Somebody has had contact with the names in N.
Sight(N) == sighted' = [i \in Id |-> IF i \in N THEN 0 ELSE sighted[i]]

----------------------------------------------------------------------------
(* Storage and peer store.                                                  *)

UpsertClusterNode(t, i, age, addr) == [t EXCEPT ![i] = [age |-> age, addr |-> addr]]

\* Mutant of ResolveAddr: a peer that is not known has no address.
ResolveAddrEmpty(i) == IF i \in DOMAIN peers THEN peers[i] ELSE "none"

\* The id itself when the peer is not known, which may be no address.
ResolveAddr(i) ==
    IF i \in DOMAIN peers THEN peers[i]
    ELSE IF i \in Bare \cup DnsIds THEN "name" ELSE AddrOf(i)

UpsertPeer(p, i) ==
    IF i = Own[Self] THEN p
    ELSE [j \in DOMAIN p \cup {i} |-> IF j = i THEN "address" ELSE p[j]]

RemovePeer(p, i) == [j \in DOMAIN p \ {i} |-> p[j]]

SetPeers == [i \in EnvPeers \ {Own[Self]} |-> "address"]

----------------------------------------------------------------------------
(* Discovery.                                                               *)

\* Mutant of Included: the row is compared by node id only.
IncludedById(i) ==
    /\ table[i] # NoRow
    /\ i # Own[Self]
    /\ table[i].age <= MaxAge

\* Mutant of Included: the rows of any age.
IncludedAnyAge(i) ==
    /\ table[i] # NoRow
    /\ i # Own[Self]
    /\ table[i].addr # "advertised"

\* updatePeersFromStorage leaves out the rows with this host's id or with exactly
\* its ADVERTISE_ADDR, and the rows not seen lately.
Included(i) ==
    /\ table[i] # NoRow
    /\ i # Own[Self]
    /\ table[i].addr # "advertised"
    /\ table[i].age <= MaxAge

UpdatePeersFromStorage ==
    /\ peers' = [i \in {j \in Id : Included(j)} |-> table[i].addr]
    /\ UNCHANGED <<up, reached, table, learn, sighted, faults>>

\* dnsLoop and dockerDNSLoop: every address the name service lists counts as
\* seen now, but for the one that is ADVERTISE_ADDR.  The name service is
\* external; it lists running hosts, this one too, reached or not.
DnsLookup ==
    LET found == {i \in DnsIds \ Advertised : HostOf[i] \in up \cup {Self}} IN
    /\ table' = [i \in Id |->
                    IF i \in found THEN [age |-> 0, addr |-> "address"] ELSE table[i]]
    /\ Sight(found)
    /\ UNCHANGED <<up, reached, peers, learn, faults>>

\* The handler of /cluster/join: host h announces itself.
Join(h) ==
    /\ h \in reached
    /\ table' = UpsertClusterNode(table, Own[h], 0, "address")
    /\ peers' = UpsertPeer(peers, Own[h])
    /\ Sight({Own[h]})
    /\ UNCHANGED <<up, reached, learn, faults>>

\* What a seed may answer: the rows of some names, this host's new one included,
\* none fresher than anybody's last contact.  A seed that is this host answers
\* from its own table.
Answers(s) ==
    IF HostOf[s] = Self
    THEN LET t == UpsertClusterNode(table, Own[Self], 0, "advertised")
         IN  {[i \in {j \in Id : t[j] # NoRow} |-> t[i]]}
    ELSE UNION {{[i \in known |-> [age |-> age[i],
                                   addr |-> IF i \in bare THEN "name" ELSE AddrOf(i)]] :
                    age \in {a \in [known -> 0..Old] :
                                \A i \in known : /\ a[i] >= sighted[i]
                                                 /\ HostOf[i] = Self => a[i] = 0},
                    bare \in SUBSET (Bare \cap known)} :
                known \in {N \in SUBSET Id : Own[Self] \in N}}

\* Mutant of Learnt: nodes the seed reports count as seen now.
LearntNow(t, row, i) == [row EXCEPT !.age = 0]

\* What announceToSeeds will write for a node of the answer: the address from
\* the answer, the last_seen of its own row if it has one.
Learnt(t, row, i) == IF t[i] = NoRow THEN row ELSE [row EXCEPT !.age = t[i].age]

Write(t, rows) == [i \in Id |-> IF i \in DOMAIN rows THEN rows[i] ELSE t[i]]

\* This host announces itself to a seed, stamps the seed under the seed's
\* address, reads its own table and writes the answer row by row; some of the
\* rows are written late, after other goroutines have stamped theirs.
AnnounceToSeed(s) ==
    /\ s \in Seeds
    /\ learn = Nothing
    /\ HostOf[s] \in reached \cup {Self}
    /\ \E answer \in Answers(s) :
          LET stamped == UpsertClusterNode(IF HostOf[s] = Self THEN Write(table, answer)
                                           ELSE table, s, 0, AddrOf(s))
              rows(N) == [i \in N |-> Learnt(stamped, answer[i], i)]
          IN  \E late \in {N \in SUBSET DOMAIN answer : Cardinality(N) <= MaxLate} :
                 /\ table' = Write(stamped, rows(DOMAIN answer \ late))
                 /\ learn' = rows(late)
    /\ Sight({s})
    /\ UNCHANGED <<up, reached, peers, faults>>

LearnNodes ==
    /\ learn # Nothing
    /\ table' = Write(table, learn)
    /\ learn' = Nothing
    /\ UNCHANGED <<up, reached, peers, sighted, faults>>

\* The handler of /cluster/leave.
Leave(i) ==
    /\ faults < MaxFaults
    /\ table' = [table EXCEPT ![i] = NoRow]
    /\ peers' = RemovePeer(peers, i)
    /\ faults' = faults + 1
    /\ UNCHANGED <<up, reached, learn, sighted>>

----------------------------------------------------------------------------
(* Contacts.                                                                *)

\* A round of the health poller or of a reconciler: a peer that answers is
\* stamped, with the address that was dialled; one that does not answer leaves
\* no trace.  Under an alias the host polls itself.  A round works from a copy of
\* the peer list and may hang on a peer, so the name need not be in the store any
\* more; the poller's early end at the leader is one way of contacting fewer.
Contact(i) ==
    /\ HostOf[i] \in reached \/ i \in Aliases
    /\ ResolveAddr(i) # "name"
    /\ table' = UpsertClusterNode(table, i, 0, ResolveAddr(i))
    /\ Sight({i})
    /\ UNCHANGED <<up, reached, peers, learn, faults>>

\* /raft/append-entries and /raft/request-vote stamp the sender, with the
\* address the peer store has for it.
RaftRequest(h) ==
    /\ h \in reached
    /\ table' = UpsertClusterNode(table, Own[h], 0, ResolveAddr(Own[h]))
    /\ Sight({Own[h]})
    /\ UNCHANGED <<up, reached, peers, learn, faults>>

\* Other hosts have contact with each other.
SightedElsewhere(h) ==
    /\ h \in up
    /\ Sight(Names(h))
    /\ UNCHANGED <<up, reached, table, peers, learn, faults>>

----------------------------------------------------------------------------
(* Time and faults.                                                         *)

Older(a) == IF a < Old THEN a + 1 ELSE a

\* Nothing depends on the age of the host's own rows, which are kept at 0.
OlderRow(i, row) ==
    IF row = NoRow \/ HostOf[i] = Self THEN row ELSE [row EXCEPT !.age = Older(@)]

Clock ==
    /\ table' = [i \in Id |-> OlderRow(i, table[i])]
    /\ learn' = [i \in DOMAIN learn |-> OlderRow(i, learn[i])]
    /\ sighted' = [i \in Id |-> IF HostOf[i] = Self THEN 0 ELSE Older(sighted[i])]
    /\ UNCHANGED <<up, reached, peers, faults>>

\* migrate drops cluster_nodes at every start; Start then writes the host's own
\* row.
StartTable ==
    [i \in Id |-> IF i = Own[Self] THEN [age |-> 0, addr |-> "advertised"] ELSE NoRow]

\* This process stops and starts again: the table is new, the peer store is
\* PEERS again.
RestartSelf ==
    /\ faults < MaxFaults
    /\ table' = StartTable
    /\ peers' = SetPeers
    /\ learn' = Nothing
    /\ faults' = faults + 1
    /\ UNCHANGED <<up, reached, sighted>>

\* Another host stops, or the network between it and this host fails.
Lose(h, stops) ==
    /\ h \in (IF stops THEN up ELSE reached)
    /\ faults < MaxFaults
    /\ up' = IF stops THEN up \ {h} ELSE up
    /\ reached' = reached \ {h}
    /\ faults' = faults + 1
    /\ UNCHANGED <<table, peers, learn, sighted>>

Regain(h) ==
    /\ h \in Host \ (reached \cup {Self})
    /\ up' = up \cup {h} /\ reached' = reached \cup {h}
    /\ UNCHANGED <<table, peers, learn, sighted, faults>>

Init ==
    /\ up = Host \ {Self} /\ reached = up
    /\ table = StartTable
    /\ peers = SetPeers
    /\ learn = Nothing
    /\ sighted = [i \in Id |-> IF HostOf[i] = Self \/ i = Own[HostOf[i]] THEN 0 ELSE Old]
    /\ faults = 0

Discovery ==
    \/ UpdatePeersFromStorage
    \/ DnsLookup
    \/ \E s \in Seeds : AnnounceToSeed(s)
    \/ LearnNodes

Requests ==
    \/ \E h \in Host : Join(h) \/ RaftRequest(h)
    \/ \E i \in Id : Leave(i)

Faults ==
    \/ RestartSelf
    \/ \E h \in Host : Regain(h) \/ \E stops \in BOOLEAN : Lose(h, stops)

Next == Discovery \/ Requests \/ Faults \/ Clock
        \/ \E i \in Id : Contact(i)
        \/ \E h \in Host : SightedElsewhere(h)

\* syncLoop's ticker fires every five seconds, and time passes.
Spec == Init /\ [][Next]_vars /\ WF_vars(UpdatePeersFromStorage) /\ WF_vars(Clock)

----------------------------------------------------------------------------
\* The table, the peer store and the lists a round works from hold known names
\* and bounded ages.
TypeOK ==
    /\ up \subseteq Host \ {Self} /\ reached \subseteq up
    /\ table \in [Id -> Row \cup {NoRow}]
    /\ DOMAIN peers \subseteq Id /\ \A i \in DOMAIN peers : peers[i] \in Addr
    /\ DOMAIN learn \subseteq Id /\ \A i \in DOMAIN learn : learn[i] \in Row
    /\ sighted \in [Id -> 0..Old]
    /\ faults \in 0..MaxFaults

\* A row is never fresher than the last time anybody had contact with that
\* name or the name service listed it: announceToSeeds passes on what seeds
\* report without renewing it, however answers cross with polls, Raft requests
\* and departures.
NeverFresherThanContact ==
    \A i \in Id : table[i] # NoRow => table[i].age >= sighted[i]

\* updatePeersFromStorage recognises the replica itself by its node id and by its
\* ADVERTISE_ADDR, whatever the table says of it: rows its own announcement came
\* back with, rows of seeds, rows stamped by a poll.  What gets through are its
\* aliases, which the name service or the seed list give it; a host with such a
\* name counts itself as a peer, and so in every majority.
SelfPeerByAliasOnly == \A i \in DOMAIN peers : HostOf[i] = Self => i \in Aliases

\* A host that this replica never reaches again leaves its peer store for good,
\* although seeds keep reporting it as alive: votes and majorities are then
\* counted over the reachable part.  The names DNS makes up are excepted: the
\* lookup stamps them without contact.
UnreachableLeavesPeers ==
    \A i \in Id \ (DnsIds \cup Names(Self)) :
        <>[](HostOf[i] \notin reached) => <>[](i \notin DOMAIN peers)
=============================================================================
