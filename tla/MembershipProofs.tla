--------------------------- MODULE MembershipProofs ---------------------------
(***************************************************************************)
(* The safety properties of Membership for any cluster, any names, seeds   *)
(* and addresses and any consensusMaxAge.                                  *)
(***************************************************************************)
EXTENDS Membership, TLAPS

\* A row, in the table or about to be written, that the properties can rely on:
\* it is no fresher than the last contact, and one whose name is this host's
\* ADVERTISE_ADDR carries that address, which updatePeersFromStorage recognises.
Honest(i, row) ==
    /\ row \in Row
    /\ row.age >= sighted[i]
    /\ i \in Advertised \ {Own[Self]} => row.addr = "advertised"

\* The same of a row that is known now and of the contacts after the step.
HonestNext(i, row) ==
    /\ row \in Row
    /\ row.age >= sighted'[i]
    /\ i \in Advertised \ {Own[Self]} => row.addr = "advertised"

\* The inductive invariant.  The rows of an answer that are still to be written
\* must be as honest as those of the table, and nobody's contact with this host
\* ever gets old for itself.
HonestRows ==
    /\ \A i \in Id : HostOf[i] = Self => sighted[i] = 0
    /\ \A i \in Id : table[i] # NoRow => Honest(i, table[i])
    /\ \A i \in DOMAIN learn : Honest(i, learn[i])

IInv == TypeOK /\ HonestRows /\ SelfPeerByAliasOnly

----------------------------------------------------------------------------
\* UpsertClusterNode stores a row of the given age and address under the name
\* and leaves the other rows alone.
LEMMA UpsertRow ==
    ASSUME NEW t \in [Id -> Row \cup {NoRow}], NEW i \in Id, NEW age \in 0..Old, NEW addr \in Addr
    PROVE  /\ UpsertClusterNode(t, i, age, addr) \in [Id -> Row \cup {NoRow}]
           /\ UpsertClusterNode(t, i, age, addr)[i] = [age |-> age, addr |-> addr]
           /\ \A j \in Id \ {i} : UpsertClusterNode(t, i, age, addr)[j] = t[j]
BY DEF UpsertClusterNode, Row

\* A stamp of contacts: sighted of the names in N is 0, the others keep theirs,
\* so that honest rows stay honest.
LEMMA SightKeepsHonest ==
    ASSUME TypeOK, NEW N, Sight(N)
    PROVE  /\ sighted' \in [Id -> 0..Old]
           /\ \A i \in N \cap Id : sighted'[i] = 0
           /\ \A i \in Id : sighted'[i] <= sighted[i]
           /\ \A i \in Id : \A row : Honest(i, row) => Honest(i, row)'
<1>1. sighted \in [Id -> 0..Old] /\ Old \in Nat
  BY ConstantsAssumption DEF TypeOK, Old
<1>2. sighted' = [i \in Id |-> IF i \in N THEN 0 ELSE sighted[i]]
  BY DEF Sight
<1>3. /\ sighted' \in [Id -> 0..Old]
      /\ \A i \in N \cap Id : sighted'[i] = 0
      /\ \A i \in Id : sighted'[i] <= sighted[i]
  BY <1>1, <1>2
<1>4. ASSUME NEW i \in Id, NEW row, Honest(i, row) PROVE Honest(i, row)'
  <2>1. row.age \in Nat /\ sighted[i] \in Nat /\ sighted'[i] \in Nat
    BY <1>1, <1>3, <1>4 DEF Honest, Row
  <2> QED
    BY <2>1, <1>3, <1>4 DEF Honest
<1> QED
  BY <1>3, <1>4

\* What a seed answers is honest: by assumption for other hosts, because of the
\* invariant for this host's own table.
LEMMA AnswersHonest ==
    ASSUME IInv, NEW s \in Seeds, NEW answer \in Answers(s)
    PROVE  DOMAIN answer \subseteq Id /\ \A i \in DOMAIN answer : Honest(i, answer[i])
<1> USE ConstantsAssumption
<1>0. Old \in Nat /\ sighted \in [Id -> 0..Old] /\ table \in [Id -> Row \cup {NoRow}]
  BY DEF IInv, TypeOK, Old
<1>1. CASE HostOf[s] = Self
  <2> DEFINE t == UpsertClusterNode(table, Own[Self], 0, "advertised")
  <2>1. answer = [i \in {j \in Id : t[j] # NoRow} |-> t[i]]
    BY <1>1 DEF Answers
  <2>2. Own[Self] \in Id /\ HostOf[Own[Self]] = Self /\ 0 \in 0..Old
    BY <1>0
  <2>3. /\ t[Own[Self]] = [age |-> 0, addr |-> "advertised"]
        /\ \A j \in Id \ {Own[Self]} : t[j] = table[j]
    BY <1>0, <2>2 DEF UpsertClusterNode
  <2>4. Honest(Own[Self], [age |-> 0, addr |-> "advertised"])
    BY <1>0, <2>2 DEF IInv, HonestRows, Honest, Row, Addr
  <2>5. ASSUME NEW i \in Id, t[i] # NoRow PROVE Honest(i, t[i])
    BY <2>3, <2>4, <2>5 DEF IInv, HonestRows
  <2> QED
    BY <2>1, <2>5
<1>2. CASE HostOf[s] # Self
  <2> DEFINE Ages(known) == {a \in [known -> 0..Old] :
                               \A i \in known : /\ a[i] >= sighted[i]
                                                /\ HostOf[i] = Self => a[i] = 0}
             Bares(known) == SUBSET (Bare \cap known)
             Rows(known, age, bare) ==
               [i \in known |-> [age |-> age[i],
                                 addr |-> IF i \in bare THEN "name" ELSE AddrOf(i)]]
             Lists(known) ==
               {Rows(known, age, bare) : age \in Ages(known), bare \in Bares(known)}
             Known == {N \in SUBSET Id : Own[Self] \in N}
  <2>0. Answers(s) = UNION {Lists(known) : known \in Known}
    BY <1>2 DEF Answers
  <2>1. PICK known \in Known : answer \in Lists(known)
    <3> HIDE DEF Lists, Known
    <3> QED
      BY <2>0
  <2>2. PICK age \in Ages(known), bare \in Bares(known) : answer = Rows(known, age, bare)
    <3> HIDE DEF Ages, Bares, Rows
    <3> QED
      BY <2>1
  <2>3. ASSUME NEW i \in known PROVE Honest(i, answer[i])
    <3>1. \E addr \in Addr : /\ answer[i] = [age |-> age[i], addr |-> addr]
                             /\ i \notin bare => addr = AddrOf(i)
      BY <2>2, <2>3 DEF Addr, AddrOf
    <3>2. i \in Advertised => i \notin bare /\ AddrOf(i) = "advertised"
      BY <2>1, <2>2, <2>3 DEF AddrOf
    <3> QED
      BY <2>2, <2>3, <3>1, <3>2 DEF Honest, Row
  <2> QED
    BY <2>1, <2>2, <2>3
<1> QED
  BY <1>1, <1>2

\* Contacts, Raft requests and announcements stamp one name as seen now.
LEMMA StampKeepsRows ==
    ASSUME TypeOK, HonestRows, NEW i \in Id, NEW addr \in Addr,
           i \in Advertised \ {Own[Self]} => addr = "advertised",
           table' = UpsertClusterNode(table, i, 0, addr), Sight({i}), learn' = learn
    PROVE  /\ HonestRows'
           /\ table' \in [Id -> Row \cup {NoRow}] /\ sighted' \in [Id -> 0..Old]
<1>1. Old \in Nat /\ 0 \in 0..Old
  BY ConstantsAssumption DEF Old
<1>2. /\ table' \in [Id -> Row \cup {NoRow}]
      /\ table'[i] = [age |-> 0, addr |-> addr]
      /\ \A j \in Id \ {i} : table'[j] = table[j]
  <2>1. table \in [Id -> Row \cup {NoRow}]
    BY DEF TypeOK
  <2> QED
    BY <1>1, <2>1, UpsertRow
<1>3. /\ sighted' \in [Id -> 0..Old]
      /\ sighted'[i] = 0
      /\ \A j \in Id : sighted'[j] <= sighted[j]
      /\ \A j \in Id : \A row : Honest(j, row) => Honest(j, row)'
  BY SightKeepsHonest
<1>4. Honest(i, [age |-> 0, addr |-> addr])'
  BY <1>1, <1>3 DEF Honest, Row
<1>5. \A j \in Id : table'[j] # NoRow => Honest(j, table[j])'
  BY <1>2, <1>3, <1>4 DEF HonestRows
<1>6. \A j \in Id : HostOf[j] = Self => sighted'[j] = 0
  BY <1>3 DEF HonestRows
<1>7. \A j \in DOMAIN learn' : Honest(j, learn[j])'
  BY <1>3 DEF HonestRows, TypeOK
<1> QED
  BY <1>2, <1>3, <1>5, <1>6, <1>7 DEF HonestRows

----------------------------------------------------------------------------
\* PEERS gives the peer store no name that this host knows itself by.
LEMMA InitIInv == Init => IInv
<1> SUFFICES ASSUME Init PROVE IInv
  OBVIOUS
<1> USE ConstantsAssumption
<1>1. Old \in Nat /\ 0 \in 0..Old /\ Old \in 0..Old
  BY DEF Old
<1>2. [age |-> 0, addr |-> "advertised"] \in Row
  BY <1>1 DEF Row, Addr
<1>3. TypeOK
  <2>1. table \in [Id -> Row \cup {NoRow}] /\ sighted \in [Id -> 0..Old]
    BY <1>1, <1>2 DEF Init, StartTable
  <2> QED
    BY <2>1 DEF Init, TypeOK, SetPeers, Nothing, Addr
<1>4. HonestRows
  BY <1>1, <1>2 DEF Init, StartTable, HonestRows, Honest, Nothing
<1>5. SelfPeerByAliasOnly
  BY DEF Init, SelfPeerByAliasOnly, SetPeers, Aliases, Names
<1> QED
  BY <1>3, <1>4, <1>5 DEF IInv

\* Every loop, handler and fault keeps the rows honest and the names this host
\* knows itself by out of its peer store.
LEMMA StepIInv == IInv /\ [Next]_vars => IInv'
<1> SUFFICES ASSUME IInv, [Next]_vars PROVE IInv'
  OBVIOUS
<1> USE ConstantsAssumption
<1>0. /\ TypeOK /\ HonestRows /\ SelfPeerByAliasOnly
      /\ Old \in Nat /\ 0 \in 0..Old
  BY DEF IInv, Old
<1>1. CASE UNCHANGED vars
  BY <1>1, <1>0 DEF vars, IInv, TypeOK, HonestRows, Honest, SelfPeerByAliasOnly
<1>2. CASE UpdatePeersFromStorage
  <2>1. peers' = [i \in {j \in Id : Included(j)} |-> table[i].addr]
    BY <1>2 DEF UpdatePeersFromStorage
  <2>2. SelfPeerByAliasOnly'
    BY <2>1, <1>0 DEF SelfPeerByAliasOnly, Included, HonestRows, Honest, Aliases, Names
  <2>3. \A i \in DOMAIN peers' : i \in Id /\ peers'[i] \in Addr
    BY <2>1, <1>0 DEF Included, HonestRows, Honest, Row
  <2>4. TypeOK'
    BY <2>3, <1>2, <1>0 DEF UpdatePeersFromStorage, TypeOK
  <2>5. HonestRows'
    BY <1>2, <1>0 DEF UpdatePeersFromStorage, HonestRows, Honest
  <2> QED
    BY <2>2, <2>4, <2>5 DEF IInv
<1>3. CASE DnsLookup
  <2> DEFINE found == {i \in DnsIds \ Advertised : HostOf[i] \in up \cup {Self}}
  <2>1. /\ \A i \in Id : table'[i] = IF i \in found THEN [age |-> 0, addr |-> "address"]
                                     ELSE table[i]
        /\ DOMAIN table' = Id /\ table' = [i \in Id |-> table'[i]]
        /\ Sight(found) /\ learn' = learn /\ peers' = peers
    BY <1>3 DEF DnsLookup
  <2>2. /\ sighted' \in [Id -> 0..Old]
        /\ \A i \in found \cap Id : sighted'[i] = 0
        /\ \A j \in Id : sighted'[j] <= sighted[j]
        /\ \A j \in Id : \A row : Honest(j, row) => Honest(j, row)'
    <3> HIDE DEF found
    <3> QED
      BY <2>1, <1>0, SightKeepsHonest
  <2>3. [age |-> 0, addr |-> "address"] \in Row
    BY <1>0 DEF Row, Addr
  <2>4. table' \in [Id -> Row \cup {NoRow}]
    <3> HIDE DEF found
    <3>1. table \in [Id -> Row \cup {NoRow}]
      BY <1>0 DEF TypeOK
    <3>2. \A i \in Id : table'[i] \in Row \cup {NoRow}
      BY <2>1, <2>3, <3>1
    <3> QED
      BY <2>1, <3>2
  <2>5. \A i \in found \cap Id : Honest(i, [age |-> 0, addr |-> "address"])'
    BY <2>2, <2>3 DEF Honest
  <2>6. HonestRows'
    <3> HIDE DEF found
    <3>1. \A i \in Id : table'[i] # NoRow => Honest(i, table[i])'
      BY <2>1, <2>2, <2>5, <1>0 DEF HonestRows
    <3>2. \A i \in Id : HostOf[i] = Self => sighted'[i] = 0
      BY <2>2, <1>0 DEF HonestRows
    <3>3. \A i \in DOMAIN learn' : Honest(i, learn[i])'
      BY <2>1, <2>2, <1>0 DEF HonestRows, TypeOK
    <3> QED
      BY <3>1, <3>2, <3>3 DEF HonestRows
  <2>7. TypeOK'
    BY <2>2, <2>4, <1>3, <1>0 DEF DnsLookup, TypeOK
  <2> QED
    BY <2>1, <2>6, <2>7, <1>0 DEF IInv, SelfPeerByAliasOnly
<1>4. ASSUME NEW s \in Seeds, AnnounceToSeed(s) PROVE IInv'
  <2>1. PICK answer \in Answers(s) :
          LET stamped == UpsertClusterNode(IF HostOf[s] = Self THEN Write(table, answer)
                                           ELSE table, s, 0, AddrOf(s))
              rows(N) == [i \in N |-> Learnt(stamped, answer[i], i)]
          IN  \E late \in {N \in SUBSET DOMAIN answer : Cardinality(N) <= MaxLate} :
                 /\ table' = Write(stamped, rows(DOMAIN answer \ late))
                 /\ learn' = rows(late)
    BY <1>4 DEF AnnounceToSeed
  <2> DEFINE before == IF HostOf[s] = Self THEN Write(table, answer) ELSE table
             stamped == UpsertClusterNode(before, s, 0, AddrOf(s))
             rows(N) == [i \in N |-> Learnt(stamped, answer[i], i)]
  <2>2. PICK late \in SUBSET DOMAIN answer :
          /\ table' = Write(stamped, rows(DOMAIN answer \ late))
          /\ learn' = rows(late)
    BY <2>1
  <2>3. DOMAIN answer \subseteq Id /\ \A i \in DOMAIN answer : Honest(i, answer[i])
    BY AnswersHonest
  <2>4. /\ s \in Id
        /\ sighted' \in [Id -> 0..Old]
        /\ sighted'[s] = 0
        /\ \A j \in Id : sighted'[j] <= sighted[j]
        /\ \A j \in Id : \A row : Honest(j, row) => HonestNext(j, row)
    BY <1>4, <1>0, SightKeepsHonest DEF AnnounceToSeed, Honest, HonestNext
  <2>5. /\ before \in [Id -> Row \cup {NoRow}]
        /\ \A i \in Id : before[i] # NoRow => Honest(i, before[i])
    BY <1>0, <2>3 DEF HonestRows, TypeOK, Write, Honest
  <2>6. /\ stamped \in [Id -> Row \cup {NoRow}]
        /\ stamped[s] = [age |-> 0, addr |-> AddrOf(s)]
        /\ \A j \in Id \ {s} : stamped[j] = before[j]
    <3> HIDE DEF before
    <3>1. AddrOf(s) \in Addr
      BY DEF Addr, AddrOf
    <3> QED
      BY <1>0, <2>4, <2>5, <3>1, UpsertRow
  <2>7. \A i \in Id : stamped[i] # NoRow => HonestNext(i, stamped[i])
    <3> HIDE DEF before, stamped
    <3>1. HonestNext(s, stamped[s])
      BY <1>0, <2>4, <2>6 DEF HonestNext, Row, Addr, AddrOf
    <3> QED
      BY <2>4, <2>5, <2>6, <3>1
  <2>8. \A i \in DOMAIN answer : HonestNext(i, Learnt(stamped, answer[i], i))
    <3> HIDE DEF before, stamped
    <3>1. ASSUME NEW i \in DOMAIN answer PROVE HonestNext(i, Learnt(stamped, answer[i], i))
      <4>1. i \in Id /\ HonestNext(i, answer[i])
        BY <2>3, <2>4
      <4>2. CASE stamped[i] = NoRow
        BY <4>1, <4>2 DEF Learnt
      <4>3. CASE stamped[i] # NoRow
        <5>1. HonestNext(i, stamped[i])
          BY <2>7, <4>1, <4>3
        <5>2. Learnt(stamped, answer[i], i) = [answer[i] EXCEPT !.age = stamped[i].age]
          BY <4>3 DEF Learnt
        <5> QED
          BY <4>1, <5>1, <5>2 DEF HonestNext, Row
      <4> QED
        BY <4>2, <4>3
    <3> QED
      BY <3>1
  <2>9. /\ table' \in [Id -> Row \cup {NoRow}]
        /\ \A i \in Id : table'[i] # NoRow => HonestNext(i, table'[i])
    <3> HIDE DEF before, stamped
    <3> DEFINE now == rows(DOMAIN answer \ late)
    <3>1. DOMAIN now = DOMAIN answer \ late /\ \A i \in DOMAIN now : HonestNext(i, now[i])
      BY <2>8
    <3>2. table' = [i \in Id |-> IF i \in DOMAIN now THEN now[i] ELSE stamped[i]]
      BY <2>2 DEF Write
    <3>3. \A i \in DOMAIN now : now[i] \in Row
      BY <3>1 DEF HonestNext
    <3> HIDE DEF now
    <3> QED
      BY <2>3, <2>6, <2>7, <3>1, <3>2, <3>3
  <2>10. DOMAIN learn' \subseteq Id /\ \A i \in DOMAIN learn' : HonestNext(i, learn'[i])
    <3> HIDE DEF before, stamped
    <3> QED
      BY <2>2, <2>3, <2>8
  <2>11. HonestRows'
    BY <1>0, <2>4, <2>9, <2>10 DEF HonestRows, Honest, HonestNext
  <2>12. TypeOK'
    <3>1. \A i \in DOMAIN learn' : learn'[i] \in Row
      BY <2>10 DEF HonestNext
    <3> QED
      BY <1>0, <1>4, <2>4, <2>9, <2>10, <3>1 DEF AnnounceToSeed, TypeOK
  <2> QED
    BY <1>0, <1>4, <2>11, <2>12 DEF IInv, AnnounceToSeed, SelfPeerByAliasOnly
<1>5. CASE LearnNodes
  <2>1. table' = [i \in Id |-> IF i \in DOMAIN learn THEN learn[i] ELSE table[i]]
    BY <1>5 DEF LearnNodes, Write
  <2>2. /\ table' \in [Id -> Row \cup {NoRow}]
        /\ \A i \in Id : table'[i] # NoRow => Honest(i, table'[i])
    BY <2>1, <1>0 DEF TypeOK, HonestRows
  <2>3. HonestRows'
    BY <2>2, <1>5, <1>0 DEF LearnNodes, HonestRows, Honest, Nothing
  <2>4. TypeOK'
    BY <2>2, <1>5, <1>0 DEF LearnNodes, TypeOK, Nothing
  <2> QED
    BY <2>3, <2>4, <1>5, <1>0 DEF IInv, LearnNodes, SelfPeerByAliasOnly
<1>6. ASSUME NEW h \in Host, Join(h) PROVE IInv'
  <2>1. h # Self /\ Own[h] \in Id /\ HostOf[Own[h]] = h /\ Own[h] # Own[Self]
    BY <1>6, <1>0 DEF Join, TypeOK
  <2>2. /\ HonestRows'
        /\ table' \in [Id -> Row \cup {NoRow}] /\ sighted' \in [Id -> 0..Old]
    BY <1>6, <1>0, <2>1, StampKeepsRows DEF Join, Addr
  <2>3. \A i \in DOMAIN peers' : i \in Id /\ peers'[i] \in Addr
                               /\ (HostOf[i] = Self => i \in Aliases)
    BY <1>6, <1>0, <2>1 DEF Join, UpsertPeer, TypeOK, SelfPeerByAliasOnly, Addr
  <2>4. TypeOK'
    BY <1>6, <1>0, <2>2, <2>3 DEF Join, TypeOK
  <2> QED
    BY <2>2, <2>3, <2>4 DEF IInv, SelfPeerByAliasOnly
<1>7. ASSUME NEW h \in Host, RaftRequest(h) PROVE IInv'
  <2>1. h # Self /\ Own[h] \in Id /\ HostOf[Own[h]] = h
    BY <1>7, <1>0 DEF RaftRequest, TypeOK
  <2>2. ResolveAddr(Own[h]) \in Addr
    BY <1>0 DEF ResolveAddr, TypeOK, Addr, AddrOf
  <2>3. /\ HonestRows'
        /\ table' \in [Id -> Row \cup {NoRow}] /\ sighted' \in [Id -> 0..Old]
    BY <1>7, <1>0, <2>1, <2>2, StampKeepsRows DEF RaftRequest
  <2>4. TypeOK'
    BY <1>7, <1>0, <2>3 DEF RaftRequest, TypeOK
  <2> QED
    BY <1>7, <1>0, <2>3, <2>4 DEF IInv, SelfPeerByAliasOnly, RaftRequest
<1>8. ASSUME NEW i \in Id, Leave(i) PROVE IInv'
  <2>1. /\ table' \in [Id -> Row \cup {NoRow}]
        /\ \A j \in Id : table'[j] # NoRow => table'[j] = table[j]
    BY <1>8, <1>0 DEF Leave, TypeOK
  <2>2. HonestRows'
    BY <2>1, <1>8, <1>0 DEF Leave, HonestRows, Honest
  <2>3. \A j \in DOMAIN peers' : j \in DOMAIN peers /\ peers'[j] = peers[j]
    BY <1>8 DEF Leave, RemovePeer
  <2>4. TypeOK'
    BY <2>1, <2>3, <1>8, <1>0 DEF Leave, TypeOK
  <2> QED
    BY <2>2, <2>3, <2>4, <1>0 DEF IInv, SelfPeerByAliasOnly
<1>9. ASSUME NEW i \in Id, Contact(i) PROVE IInv'
  <2>1. i \notin Advertised \ {Own[Self]} /\ ResolveAddr(i) \in Addr
    BY <1>9, <1>0 DEF Contact, Aliases, ResolveAddr, TypeOK, Addr, AddrOf
  <2>2. /\ HonestRows'
        /\ table' \in [Id -> Row \cup {NoRow}] /\ sighted' \in [Id -> 0..Old]
    BY <1>9, <1>0, <2>1, StampKeepsRows DEF Contact
  <2>3. TypeOK'
    BY <1>9, <1>0, <2>2 DEF Contact, TypeOK
  <2> QED
    BY <1>9, <1>0, <2>2, <2>3 DEF IInv, SelfPeerByAliasOnly, Contact
<1>10. ASSUME NEW h \in Host, SightedElsewhere(h) PROVE IInv'
  <2>1. /\ sighted' \in [Id -> 0..Old]
        /\ \A j \in Id : sighted'[j] <= sighted[j]
        /\ \A j \in Id : \A row : Honest(j, row) => Honest(j, row)'
    BY <1>10, <1>0, SightKeepsHonest DEF SightedElsewhere
  <2>2. /\ \A j \in Id : table'[j] # NoRow => Honest(j, table[j])'
        /\ \A j \in DOMAIN learn' : Honest(j, learn[j])'
    BY <1>10, <1>0, <2>1 DEF SightedElsewhere, HonestRows, TypeOK
  <2>3. HonestRows'
    BY <1>0, <2>1, <2>2 DEF HonestRows
  <2>4. TypeOK'
    BY <1>10, <1>0, <2>1 DEF SightedElsewhere, TypeOK
  <2> QED
    BY <1>10, <1>0, <2>3, <2>4 DEF IInv, SelfPeerByAliasOnly, SightedElsewhere
<1>11. CASE Clock
  <2>1. \A n \in 0..Old : Older(n) \in 0..Old
    BY <1>0 DEF Older
  <2>2. \A m, n \in 0..Old : m >= n => Older(m) >= Older(n)
    BY <1>0 DEF Older
  <2>3. /\ sighted' \in [Id -> 0..Old]
        /\ \A i \in Id : sighted'[i] = IF HostOf[i] = Self THEN 0 ELSE Older(sighted[i])
    BY <1>11, <1>0, <2>1 DEF Clock, TypeOK
  <2>4. ASSUME NEW i \in Id, NEW row, row # NoRow, Honest(i, row)
        PROVE  HonestNext(i, OlderRow(i, row))
    <3>1. CASE HostOf[i] = Self
      BY <1>0, <2>3, <2>4, <3>1 DEF OlderRow, Honest, HonestNext, Row
    <3>2. CASE HostOf[i] # Self
      <4>1. OlderRow(i, row) = [row EXCEPT !.age = Older(row.age)]
        BY <2>4, <3>2 DEF OlderRow
      <4>2. row.age \in 0..Old /\ sighted[i] \in 0..Old /\ row.age >= sighted[i]
        BY <1>0, <2>4 DEF Honest, Row, TypeOK
      <4>3. Older(row.age) \in 0..Old /\ Older(row.age) >= sighted'[i]
        BY <2>1, <2>2, <2>3, <3>2, <4>2
      <4> QED
        BY <2>4, <3>2, <4>1, <4>3 DEF Honest, HonestNext, Row
    <3> QED
      BY <3>1, <3>2
  <2>5. /\ table' \in [Id -> Row \cup {NoRow}]
        /\ \A i \in Id : table'[i] # NoRow => HonestNext(i, table'[i])
    <3>1. table' = [i \in Id |-> OlderRow(i, table[i])]
      BY <1>11 DEF Clock
    <3>2. \A i \in Id : table[i] = NoRow => OlderRow(i, table[i]) = NoRow
      BY DEF OlderRow
    <3>3. \A i \in Id : table[i] # NoRow => HonestNext(i, OlderRow(i, table[i]))
      BY <2>4, <1>0 DEF HonestRows
    <3>4. \A i \in Id : OlderRow(i, table[i]) \in Row \cup {NoRow}
      BY <3>2, <3>3 DEF HonestNext
    <3> QED
      BY <3>1, <3>2, <3>3, <3>4
  <2>6. /\ DOMAIN learn' = DOMAIN learn
        /\ \A i \in DOMAIN learn' : learn'[i] \in Row /\ HonestNext(i, learn'[i])
    <3>1. learn' = [i \in DOMAIN learn |-> OlderRow(i, learn[i])]
      BY <1>11 DEF Clock
    <3>2. ASSUME NEW i \in DOMAIN learn PROVE HonestNext(i, OlderRow(i, learn[i]))
      <4>1. i \in Id /\ Honest(i, learn[i])
        BY <1>0 DEF TypeOK, HonestRows
      <4>2. learn[i] # NoRow
        BY <4>1, NoRowAssumption DEF Honest
      <4> QED
        BY <2>4, <4>1, <4>2
    <3> QED
      BY <3>1, <3>2 DEF HonestNext
  <2>7. HonestRows'
    BY <2>3, <2>5, <2>6 DEF HonestRows, Honest, HonestNext
  <2>8. TypeOK'
    BY <1>11, <1>0, <2>3, <2>5, <2>6 DEF Clock, TypeOK
  <2> QED
    BY <1>11, <1>0, <2>7, <2>8 DEF IInv, SelfPeerByAliasOnly, Clock
<1>12. CASE RestartSelf
  <2>1. Own[Self] \in Id /\ HostOf[Own[Self]] = Self /\ "advertised" \in Addr
    BY DEF Addr
  <2>2. /\ table' \in [Id -> Row \cup {NoRow}]
        /\ table'[Own[Self]] = [age |-> 0, addr |-> "advertised"]
        /\ \A j \in Id \ {Own[Self]} : table'[j] = NoRow
    BY <1>12, <1>0, <2>1 DEF RestartSelf, StartTable, Row
  <2>3. Honest(Own[Self], table'[Own[Self]])
    BY <1>0, <2>1, <2>2 DEF HonestRows, Honest, Row, Addr
  <2>4. \A j \in Id : table'[j] # NoRow => Honest(j, table'[j])
    BY <1>0, <2>2, <2>3 DEF HonestRows
  <2>5. HonestRows'
    BY <1>12, <1>0, <2>4 DEF RestartSelf, HonestRows, Honest, Nothing
  <2>6. TypeOK'
    BY <1>12, <1>0, <2>2 DEF RestartSelf, TypeOK, SetPeers, Nothing, Addr
  <2>7. SelfPeerByAliasOnly'
    BY <1>12 DEF RestartSelf, SelfPeerByAliasOnly, SetPeers, Aliases, Names
  <2> QED
    BY <2>5, <2>6, <2>7 DEF IInv
<1>13. ASSUME NEW h \in Host, NEW stops \in BOOLEAN, Lose(h, stops) PROVE IInv'
  <2>1. HonestRows' /\ SelfPeerByAliasOnly'
    BY <1>13, <1>0 DEF Lose, HonestRows, Honest, SelfPeerByAliasOnly
  <2>2. TypeOK'
    BY <1>13, <1>0 DEF Lose, TypeOK
  <2> QED
    BY <2>1, <2>2 DEF IInv
<1>14. ASSUME NEW h \in Host, Regain(h) PROVE IInv'
  <2>1. HonestRows' /\ SelfPeerByAliasOnly'
    BY <1>14, <1>0 DEF Regain, HonestRows, Honest, SelfPeerByAliasOnly
  <2>2. TypeOK'
    BY <1>14, <1>0 DEF Regain, TypeOK
  <2> QED
    BY <2>1, <2>2 DEF IInv
<1> QED
  BY <1>1, <1>2, <1>3, <1>4, <1>5, <1>6, <1>7, <1>8, <1>9, <1>10, <1>11, <1>12,
     <1>13, <1>14 DEF Next, Discovery, Requests, Faults

\* The inductive invariant holds in every reachable state.
LEMMA IInvHolds == Spec => []IInv
BY InitIInv, StepIInv, PTL DEF Spec

\* The table, the peer store and the rows of an answer keep their types.
THEOREM TypeCorrect == Spec => []TypeOK
<1>1. IInv => TypeOK
  BY DEF IInv
<1> QED
  BY <1>1, IInvHolds, PTL

\* Gossip never renews a row: whatever seeds answer and however the answers cross
\* with polls, Raft requests, departures and restarts, a row of cluster_nodes is
\* never fresher than the last contact anybody had with that name.
THEOREM RowsAreNeverFresher == Spec => []NeverFresherThanContact
<1>1. IInv => NeverFresherThanContact
  BY DEF IInv, HonestRows, Honest, NeverFresherThanContact
<1> QED
  BY <1>1, IInvHolds, PTL

\* The node id of the replica and the names made of its ADVERTISE_ADDR never get
\* into its peer store, whoever reports them; its aliases are what is left.
THEOREM OwnPeerByAliasOnly == Spec => []SelfPeerByAliasOnly
<1>1. IInv => SelfPeerByAliasOnly
  BY DEF IInv
<1> QED
  BY <1>1, IInvHolds, PTL
=============================================================================
