--------------------------- MODULE ReconcilerProofs ---------------------------
(***************************************************************************)
(* Proofs about the reconcilers of module Reconciler, for every set of     *)
(* replicas and items, every number of requests, faults and rounds.        *)
(*                                                                         *)
(* Whatever a write, a command of the log or a whole replay of it does to  *)
(* the tables of a replica, it leaves them sound and keeps what the        *)
(* properties need: an event that is new is late or not stamped before any *)
(* other of its feed, a personal appointment or a notification that was    *)
(* there is there or marked deleted, and what was marked deleted stays so  *)
(* (Evolves).  A replay is a recursive function over the log: what it does *)
(* is shown by induction on its length, with the least-element principle   *)
(* of well-founded relations.                                              *)
(*                                                                         *)
(* The cursor needs to know what a scan in progress has left behind: every *)
(* event older than the newest one dealt with was looked at, and every     *)
(* event older than one still to do was looked at or is itself to do, late *)
(* events aside.                                                           *)
(***************************************************************************)
EXTENDS Reconciler, TLAPS, WellFoundedInduction

Tables == [rows : SUBSET Item, gone : SUBSET Item, events : SUBSET Event,
           last : [Kinds -> Nat]]

\* Tables of a replica: no event of a feed is stamped after the latest of it, and
\* a personal appointment marked deleted is not also there.
Sound(d) ==
    /\ d \in Tables
    /\ \A e \in d.events : FeedOf(e.item) \in Feed /\ e.ts <= d.last[FeedOf(e.item)]
    /\ \A a \in d.gone : Kind[a] = "appt" => a \notin d.rows

\* Tables d may become tables c.
Evolves(d, c) ==
    /\ Sound(c)
    /\ d.last \in [Kinds -> Nat]
    /\ \A k \in Kinds : d.last[k] <= c.last[k]
    /\ \A e \in c.events : \/ e \in d.events
                            \/ e.late
                            \/ d.last[FeedOf(e.item)] <= e.ts
    /\ \A i \in d.rows \cup d.gone :
          Kind[i] \in {"appt", "note"} => i \in c.rows \cup c.gone
    /\ \A a \in d.gone : Kind[a] = "appt" => a \in c.gone

\* What the log may hold: no reconciler proposes a group appointment.
Entry ==
    {e \in [do : {"apply", "remove"}, item : Item, by : {"client", "repair"}] :
        /\ Kind[e.item] # "invite"
        /\ e.by = "repair" => Kind[e.item] # "groupappt"}

\* A goroutine in the middle of a round.
ScanOf(r, g) ==
    [peers : SUBSET (Replica \ {r}), peer : Replica \ {r}, feeds : Seq(FeedsOf(g)),
     todo : SUBSET {e \in Event : FeedOf(e.item) \in FeedsOf(g)},
     max : [FeedsOf(g) -> Nat]]

Scans == {Idle} \cup UNION {ScanOf(r, g) : r \in Replica, g \in Goroutine}

Stuck == [replica : Replica, item : Item, by : {"client", "repair"}]

\* The log, the tables and who has them.
DataInv ==
    /\ now \in Nat
    /\ behind \subseteq Replica
    /\ leader \in Replica \ behind
    /\ log \in Seq(Entry)
    /\ stuck \subseteq Stuck
    /\ db \in [Replica -> Tables]
    /\ \A r \in Replica : Sound(db[r])

\* Where the reconcilers are.
RoundInv ==
    /\ since \in [Replica -> [Replica -> [Feed -> Nat]]]
    /\ scan \in [Replica -> [Goroutine -> Scans]]
    /\ \A r \in Replica, g \in Goroutine : scan[r][g] \in ScanOf(r, g) \cup {Idle}
    /\ seen \in [Replica -> [Replica -> SUBSET Event]]
    /\ missed \in [Replica -> SUBSET Item]

\* Scan s of goroutine g, at peer p, has no event stamped after the latest of
\* its feed there.
InTime(g, s, p) ==
    /\ \A e \in s.todo : e.ts <= db[p].last[FeedOf(e.item)]
    /\ \A f \in FeedsOf(g) : s.max[f] <= db[p].last[f]

\* Nor is a cursor ahead of the events of the peer.
TimeInv ==
    /\ \A r, p \in Replica, f \in Feed : since[r][p][f] <= db[p].last[f]
    /\ \A r \in Replica, g \in Goroutine :
          scan[r][g] # Idle => InTime(g, scan[r][g], scan[r][g].peer)

\* What scan s of r, at peer p, has left behind or has still to do.
Covers(r, g, s, p) ==
    /\ \A x \in db[p].events :
          FeedOf(x.item) \in FeedsOf(g) /\ x.ts < s.max[FeedOf(x.item)] /\ ~x.late
             => x \in seen[r][p]
    /\ \A x \in db[p].events, e \in s.todo :
          FeedOf(x.item) = FeedOf(e.item) /\ x.ts < e.ts /\ ~x.late
             => x \in seen[r][p] \cup s.todo

ScanInv ==
    \A r \in Replica, g \in Goroutine :
        scan[r][g] # Idle => Covers(r, g, scan[r][g], scan[r][g].peer)

CursorInv == DataInv /\ RoundInv /\ TimeInv /\ ScanInv /\ CursorPassesSeen

----------------------------------------------------------------------------
(* What a write does to the tables of one replica.                          *)

\* Constants, as the proofs use them.
LEMMA Items ==
  /\ \A i \in Item : /\ Kind[i] \in Kinds
                     /\ Needs[i] \subseteq Item
                     /\ Note[i] = NoItem \/ (Note[i] \in Item /\ Kind[Note[i]] = "note")
                     /\ Kind[i] = "group" => Member[i] \in Item /\ Kind[Member[i]] = "member"
  /\ NoItem \notin Item /\ NoReplica \notin Replica
  /\ FirstLeader \in Replica
BY ConstantsAssumption, RolesAssumption

\* Tables evolve step by step.
LEMMA EvolvesOn ==
  ASSUME NEW d, NEW c, NEW b, Evolves(d, c), Evolves(c, b)
  PROVE  Evolves(d, b)
<1>1. /\ c.last \in [Kinds -> Nat] /\ d.last \in [Kinds -> Nat] /\ b.last \in [Kinds -> Nat]
      /\ \A k \in Kinds : d.last[k] <= c.last[k] /\ c.last[k] <= b.last[k]
  BY DEF Evolves, Sound, Tables
<1>2. \A k \in Kinds : d.last[k] <= b.last[k]
  BY <1>1
<1>3. ASSUME NEW e \in b.events
      PROVE  e \in d.events \/ e.late \/ d.last[FeedOf(e.item)] <= e.ts
  <2>1. e \in Event /\ e.ts \in Nat /\ FeedOf(e.item) \in Kinds
    BY <1>3 DEF Evolves, Sound, Tables, Event, Feed, Kinds
  <2>2. CASE e \in c.events
    BY <2>2 DEF Evolves
  <2>3. CASE c.last[FeedOf(e.item)] <= e.ts
    BY <1>1, <2>1, <2>3
  <2> QED
    BY <1>3, <2>2, <2>3 DEF Evolves
<1> QED
  BY <1>1, <1>2, <1>3 DEF Evolves

\* Leaving the tables alone is one way for them to evolve.
LEMMA EvolvesSelf ==
  ASSUME NEW d, Sound(d)
  PROVE  Evolves(d, d)
BY DEF Evolves, Sound, Tables

\* Adding rows that are not deleted appointments keeps everything.
LEMMA RowsAdded ==
  ASSUME NEW d, Sound(d), NEW S \in SUBSET Item,
         \A i \in S : Kind[i] = "appt" => i \notin d.gone,
         NEW c, c = [d EXCEPT !.rows = @ \cup S]
  PROVE  Evolves(d, c)
<1>1. /\ c \in Tables /\ c.rows = d.rows \cup S /\ c.gone = d.gone
      /\ c.events = d.events /\ c.last = d.last
  BY DEF Sound, Tables
<1> QED
  BY <1>1, EvolvesSelf DEF Evolves, Sound

\* AppendEvent.
LEMMA EventAppended ==
  ASSUME NEW d, Sound(d), NEW i \in Item, FeedOf(i) \in Feed, now \in Nat
  PROVE  Evolves(d, AppendEvent(d, i))
<1> DEFINE f == FeedOf(i)
           late == now < d.last[f]
           e == [item |-> i, ts |-> now, late |-> late]
           L == [d.last EXCEPT ![f] = IF d.last[f] < now THEN now ELSE d.last[f]]
           c == [d EXCEPT !.events = @ \cup {e}, !.last = L]
<1>0. d.last \in [Kinds -> Nat] /\ f \in Kinds /\ d.last[f] \in Nat
  BY DEF Sound, Tables, Feed, Kinds
<1>1. late \in BOOLEAN /\ (late \/ d.last[f] <= now)
  BY <1>0
<1> HIDE DEF late
<1>2. /\ e \in Event /\ e.ts = now /\ FeedOf(e.item) = f
      /\ e.late \/ d.last[f] <= e.ts
  BY <1>1 DEF Event
<1> HIDE DEF e, f
<1>3. /\ L \in [Kinds -> Nat] /\ now <= L[f]
      /\ \A k \in Kinds : d.last[k] <= L[k]
  BY <1>0
<1> HIDE DEF L
<1>4. /\ c \in Tables /\ c.rows = d.rows /\ c.gone = d.gone
      /\ c.events = d.events \cup {e} /\ c.last = L
  BY <1>2, <1>3 DEF Sound, Tables
<1>5. AppendEvent(d, i) = c
  BY Zenon DEF AppendEvent, L, e, late, f
<1> HIDE DEF c
<1>6. ASSUME NEW x \in c.events
      PROVE  FeedOf(x.item) \in Feed /\ x.ts <= c.last[FeedOf(x.item)]
  <2>1. CASE x = e
    BY <1>2, <1>3, <1>4, <2>1 DEF f
  <2>2. CASE x \in d.events
    <3>1. x.ts \in Nat /\ FeedOf(x.item) \in Feed /\ x.ts <= d.last[FeedOf(x.item)]
      BY <2>2 DEF Sound, Tables, Event
    <3>2. FeedOf(x.item) \in Kinds
      BY <3>1 DEF Feed, Kinds
    <3> QED
      BY <1>0, <1>3, <1>4, <3>1, <3>2
  <2> QED
    BY <1>4, <2>1, <2>2
<1>7. Sound(c)
  BY <1>4, <1>6 DEF Sound
<1>8. Evolves(d, c)
  BY <1>0, <1>2, <1>3, <1>4, <1>7 DEF Evolves
<1> QED
  BY <1>5, <1>8

\* Inserting a row together with its event.
LEMMA PutEvolves ==
  ASSUME NEW d, Sound(d), NEW i \in Item, FeedOf(i) \in Feed, now \in Nat,
         Kind[i] = "appt" => i \notin d.gone
  PROVE  /\ Evolves(d, Put(d, i))
         /\ Put(d, i).rows = d.rows \cup {i}
         /\ Put(d, i).gone = d.gone
<1> DEFINE c == [d EXCEPT !.rows = @ \cup {i}]
<1>1. Evolves(d, c)
  BY RowsAdded
<1>2. c \in Tables /\ c.rows = d.rows \cup {i} /\ c.gone = d.gone
  BY DEF Sound, Tables
<1> HIDE DEF c
<1>3. Sound(c)
  BY <1>1 DEF Evolves
<1>4. Evolves(c, AppendEvent(c, i))
  BY <1>3, EventAppended
<1>5. AppendEvent(c, i).rows = c.rows /\ AppendEvent(c, i).gone = c.gone
  BY <1>2 DEF AppendEvent, Tables
<1>6. Put(d, i) = AppendEvent(c, i)
  BY DEF Put, c
<1> QED
  BY <1>1, <1>2, <1>4, <1>5, <1>6, EvolvesOn

\* Rows that are neither personal appointments nor notifications may go.
LEMMA RowsRemoved ==
  ASSUME NEW d, Sound(d), NEW S, NEW G,
         \A i \in S \cup G : Kind[i] \notin {"appt", "note"},
         NEW c, c = [d EXCEPT !.rows = @ \ S, !.gone = @ \ G]
  PROVE  Evolves(d, c)
<1>1. /\ c \in Tables /\ c.rows = d.rows \ S /\ c.gone = d.gone \ G
      /\ c.events = d.events /\ c.last = d.last
      /\ d.rows \subseteq Item /\ d.gone \subseteq Item
  BY DEF Sound, Tables
<1> QED
  BY <1>1, EvolvesSelf DEF Evolves, Sound

\* AddNotification, which skips a notification that is there.
LEMMA NotificationAdded ==
  ASSUME NEW d, Sound(d), NEW n \in Item \cup {NoItem}, now \in Nat,
         n \in Item => Kind[n] = "note"
  PROVE  /\ Evolves(d, AddNotification(d, n))
         /\ n \in Item => n \in AddNotification(d, n).rows
<1>1. CASE n \in d.rows \cup {NoItem}
  BY <1>1, EvolvesSelf, Items DEF AddNotification
<1>2. CASE n \notin d.rows \cup {NoItem}
  <2>1. n \in Item /\ FeedOf(n) \in Feed /\ Kind[n] # "appt"
    BY <1>2 DEF FeedOf, Feed
  <2>2. AddNotification(d, n) = Put(d, n)
    BY <1>2 DEF AddNotification
  <2> QED
    BY <2>1, <2>2, PutEvolves
<1> QED
  BY <1>1, <1>2

\* CreateGroup.
LEMMA GroupCreated ==
  ASSUME NEW d, Sound(d), NEW g \in Item, Kind[g] = "group", now \in Nat
  PROVE  Evolves(d, CreateGroup(d, g))
<1>1. Member[g] \in Item /\ Kind[Member[g]] = "member"
  BY Items
<1>2. FeedOf(g) \in Feed /\ FeedOf(Member[g]) \in Feed
  BY <1>1 DEF FeedOf, Feed
<1>3. Evolves(d, Put(d, g))
  BY <1>2, PutEvolves
<1>4. Sound(Put(d, g))
  BY <1>3 DEF Evolves
<1>5. Evolves(Put(d, g), Put(Put(d, g), Member[g]))
  BY <1>1, <1>2, <1>4, PutEvolves
<1> QED
  BY <1>3, <1>5, EvolvesOn DEF CreateGroup

\* CreateGroupAppointment with its invitations.
LEMMA GroupAppointmentCreated ==
  ASSUME NEW d, Sound(d), NEW a \in Item, Kind[a] = "groupappt", now \in Nat
  PROVE  Evolves(d, CreateGroupAppointment(d, a))
<1> DEFINE S == {j \in Item : /\ Kind[j] = "invite"
                              /\ a \in Needs[j]
                              /\ Member[j] \in d.rows}
           c == [d EXCEPT !.rows = @ \cup S]
<1>1. S \in SUBSET Item /\ \A i \in S : Kind[i] = "appt" => i \notin d.gone
  OBVIOUS
<1>2. Evolves(d, c)
  <2> HIDE DEF S
  <2> QED  BY <1>1, RowsAdded
<1> HIDE DEF S
<1>3. Sound(c) /\ FeedOf(a) \in Feed
  BY <1>2 DEF Evolves, FeedOf, Feed
<1>4. CreateGroupAppointment(d, a) = Put(c, a)
  BY DEF CreateGroupAppointment, S
<1> HIDE DEF c
<1>5. Evolves(c, Put(c, a))
  BY <1>3, PutEvolves
<1> QED
  BY <1>2, <1>4, <1>5, EvolvesOn

\* The rows an answer replaces are invitations and answers.
LEMMA SlotRows ==
  ASSUME NEW i
  PROVE  /\ Slot(i) \subseteq Item
         /\ \A j \in Slot(i) : Kind[j] \in {"invite", "answer"}
BY DEF Slot

\* UpdateParticipantStatus.
LEMMA StatusUpdated ==
  ASSUME NEW d, Sound(d), NEW i \in Item, Kind[i] = "answer", now \in Nat
  PROVE  Evolves(d, UpdateParticipantStatus(d, i))
<1> DEFINE R == IF Slot(i) \cap d.rows = {} THEN d.rows ELSE (d.rows \ Slot(i)) \cup {i}
           upd == [d EXCEPT !.rows = R]
<1>1. R \in SUBSET Item
  BY DEF Sound, Tables
<1>2. \A j \in Item : Kind[j] \in {"appt", "note"} => (j \in R <=> j \in d.rows)
  BY SlotRows
<1> HIDE DEF R
<1>3. /\ upd \in Tables /\ upd.rows = R /\ upd.gone = d.gone
      /\ upd.events = d.events /\ upd.last = d.last
  BY <1>1 DEF Sound, Tables
<1>4. UpdateParticipantStatus(d, i)
        = IF Needs[i] \subseteq d.rows THEN AppendEvent(upd, i) ELSE upd
  BY DEF UpdateParticipantStatus, R
<1> HIDE DEF upd
<1>5. d.rows \subseteq Item /\ d.gone \subseteq Item
  BY DEF Sound, Tables
<1>6. Evolves(d, upd)
  BY <1>2, <1>3, <1>5, EvolvesSelf DEF Evolves, Sound
<1>7. Sound(upd) /\ FeedOf(i) \in Feed
  BY <1>6 DEF Evolves, FeedOf, Feed
<1>8. Evolves(upd, AppendEvent(upd, i))
  BY <1>7, EventAppended
<1> QED
  BY <1>4, <1>6, <1>8, EvolvesOn

\* Deletions: of a group with what it cascades to, of a member, of an appointment.
LEMMA RemovalEvolves ==
  ASSUME NEW d, Sound(d), NEW i \in Item
  PROVE  Evolves(d, ApplyRemoval(d, i))
<1>1. CASE Kind[i] = "group"
  <2> DEFINE inside == {j \in Item : i \in Needs[j] /\ Kind[j] \in {"member", "groupappt"}}
             parts  == {j \in Item : /\ Kind[j] \in {"invite", "answer"}
                                     /\ Needs[j] \cap inside # {}}
             S == {i} \cup inside \cup parts
  <2>1. \A j \in S \cup inside : Kind[j] \notin {"appt", "note"}
    BY <1>1
  <2>2. ApplyRemoval(d, i) = [d EXCEPT !.rows = @ \ S, !.gone = @ \ inside]
    BY <1>1 DEF ApplyRemoval, DeleteGroup
  <2> HIDE DEF S, inside
  <2> QED
    BY <2>1, <2>2, RowsRemoved
<1>2. CASE Kind[i] = "member"
  <2> DEFINE S == {i} \cup {j \in Item : /\ Kind[j] \in {"invite", "answer"}
                                         /\ Member[j] = i}
  <2>1. \A j \in S \cup {} : Kind[j] \notin {"appt", "note"}
    BY <1>2
  <2>2. ApplyRemoval(d, i) = [d EXCEPT !.rows = @ \ S]
    BY <1>2 DEF ApplyRemoval, RemoveGroupMember
  <2> HIDE DEF S
  <2>3. [d EXCEPT !.rows = @ \ S] = [d EXCEPT !.rows = @ \ S, !.gone = @ \ {}]
    BY DEF Sound, Tables
  <2> QED
    BY <2>1, <2>2, <2>3, RowsRemoved
<1>3. CASE Kind[i] \notin {"group", "member"}
  <2>1. ApplyRemoval(d, i) = DeleteAppointment(d, i)
    BY <1>3 DEF ApplyRemoval
  <2>2. CASE i \notin d.rows
    BY <2>1, <2>2, EvolvesSelf DEF DeleteAppointment
  <2>3. CASE i \in d.rows
    <3> DEFINE c == [d EXCEPT !.rows = @ \ {i}, !.gone = @ \cup {i}]
    <3>1. /\ c \in Tables /\ c.rows = d.rows \ {i} /\ c.gone = d.gone \cup {i}
          /\ c.events = d.events /\ c.last = d.last
      BY DEF Sound, Tables
    <3>2. ApplyRemoval(d, i) = c
      BY <2>1, <2>3 DEF DeleteAppointment
    <3> HIDE DEF c
    <3> QED
      BY <3>1, <3>2, EvolvesSelf DEF Evolves, Sound
  <2> QED
    BY <2>2, <2>3
<1> QED
  BY <1>1, <1>2, <1>3

----------------------------------------------------------------------------
(* Commands of the log.                                                     *)

\* A command leaves the tables sound; a personal appointment or a notification
\* that was proposed is in them afterwards, or marked deleted.
LEMMA ApplyEvolves ==
  ASSUME NEW d, Sound(d), NEW i \in Item, Kind[i] # "invite", now \in Nat
  PROVE  /\ Evolves(d, Apply(d, i))
         /\ Kind[i] \in {"appt", "note"} => i \in Apply(d, i).rows \cup Apply(d, i).gone
<1>0. Kind[i] \in Kinds
  BY Items
<1>1. CASE Kind[i] = "user"
  <2>1. Apply(d, i) = [d EXCEPT !.rows = @ \cup {i}]
    BY <1>1 DEF Apply
  <2>2. {i} \in SUBSET Item /\ \A j \in {i} : Kind[j] = "appt" => j \notin d.gone
    BY <1>1
  <2> QED
    BY <1>1, <2>1, <2>2, RowsAdded
<1>2. CASE Kind[i] = "group"
  <2>1. Apply(d, i) = IF i \in d.rows THEN d ELSE CreateGroup(d, i)
    BY <1>2 DEF Apply
  <2> QED
    BY <1>2, <2>1, EvolvesSelf, GroupCreated
<1>3. CASE Kind[i] = "member"
  <2>1. Apply(d, i) = Put(d, i) /\ FeedOf(i) \in Feed
    BY <1>3 DEF Apply, FeedOf, Feed
  <2> QED
    BY <1>3, <2>1, PutEvolves
<1>4. CASE Kind[i] \in {"appt", "groupappt"}
  <2>1. Apply(d, i) = ApplyAppointment(d, i) /\ FeedOf(i) \in Feed
    BY <1>4 DEF Apply, FeedOf, Feed
  <2>2. CASE i \in d.rows \cup d.gone
    BY <2>1, <2>2, EvolvesSelf DEF ApplyAppointment
  <2>3. CASE i \notin d.rows \cup d.gone /\ Kind[i] = "appt"
    <3>1. Apply(d, i) = Put(d, i)
      BY <2>1, <2>3 DEF ApplyAppointment
    <3> QED
      BY <2>1, <2>3, <3>1, PutEvolves
  <2>4. CASE i \notin d.rows \cup d.gone /\ Kind[i] = "groupappt"
    <3>1. Apply(d, i) = IF HasGroup(d, i) THEN CreateGroupAppointment(d, i) ELSE d
      BY <2>1, <2>4 DEF ApplyAppointment
    <3> QED
      BY <2>4, <3>1, EvolvesSelf, GroupAppointmentCreated
  <2> QED
    BY <1>4, <2>2, <2>3, <2>4
<1>5. CASE Kind[i] = "answer"
  <2> DEFINE upd == UpdateParticipantStatus(d, i)
  <2>1. Evolves(d, upd)
    BY <1>5, StatusUpdated
  <2>2. Apply(d, i) = IF i \in d.rows THEN d
                      ELSE IF Needs[i] \subseteq d.rows THEN AddNotification(upd, Note[i])
                      ELSE upd
    BY <1>5 DEF Apply, ApplyAnswer
  <2> HIDE DEF upd
  <2>3. Sound(upd)
    BY <2>1 DEF Evolves
  <2>4. Evolves(upd, AddNotification(upd, Note[i]))
    BY <2>3, NotificationAdded, Items
  <2> QED
    BY <1>5, <2>1, <2>2, <2>4, EvolvesSelf, EvolvesOn
<1>6. CASE Kind[i] = "note"
  <2>1. Apply(d, i) = AddNotification(d, i)
    BY <1>6 DEF Apply
  <2> QED
    BY <1>6, <2>1, NotificationAdded
<1> QED
  BY <1>0, <1>1, <1>2, <1>3, <1>4, <1>5, <1>6 DEF Kinds

\* The entries that can stop a log.
Stopper == {e \in Entry : Kind[e.item] \in {"groupappt", "answer"}}

\* A state reached from tables d by applying entries.
Reached(d, s) ==
    /\ s \in [db : Tables, stop : SUBSET Stopper]
    /\ Evolves(d, s.db)

\* What the entries of the log carry.
LEMMA EntryFields ==
  ASSUME NEW e \in Entry
  PROVE  /\ e.item \in Item /\ Kind[e.item] # "invite"
         /\ e.do \in {"apply", "remove"} /\ e.by \in {"client", "repair"}
         /\ e.by = "repair" => Kind[e.item] # "groupappt"
BY DEF Entry

\* Applying one more entry.
LEMMA EntryApplied ==
  ASSUME NEW d, NEW s, Reached(d, s), NEW e \in Entry, now \in Nat
  PROVE  Reached(d, ApplyEntry(s, e))
<1>1. Sound(s.db)
  BY DEF Reached, Evolves
<1>2. CASE s.stop # {}
  BY <1>2 DEF ApplyEntry
<1>3. CASE s.stop = {} /\ e.do = "remove"
  <2>1. Evolves(s.db, ApplyRemoval(s.db, e.item))
    BY <1>1, RemovalEvolves, EntryFields
  <2>2. ApplyEntry(s, e) = [db |-> ApplyRemoval(s.db, e.item), stop |-> {}]
    BY <1>3 DEF ApplyEntry, Reached
  <2>3. Evolves(d, ApplyRemoval(s.db, e.item))
    BY <2>1, EvolvesOn DEF Reached
  <2> QED
    BY <2>2, <2>3 DEF Reached, Evolves, Sound
<1>4. CASE s.stop = {} /\ e.do = "apply"
  <2> DEFINE stop == IF Fails(s.db, e.item) THEN {e} ELSE {}
  <2>1. Evolves(s.db, Apply(s.db, e.item))
    BY <1>1, ApplyEvolves, EntryFields
  <2>2. ApplyEntry(s, e) = [db |-> Apply(s.db, e.item), stop |-> stop]
    BY <1>4 DEF ApplyEntry
  <2>3. stop \in SUBSET Stopper
    BY EntryFields DEF Fails, Stopper
  <2>4. Evolves(d, Apply(s.db, e.item))
    BY <2>1, EvolvesOn DEF Reached
  <2> HIDE DEF stop
  <2> QED
    BY <2>2, <2>3, <2>4 DEF Reached, Evolves, Sound
<1> QED
  BY <1>2, <1>3, <1>4, EntryFields

----------------------------------------------------------------------------
(* A replay of the log.                                                     *)

\* A set of numbers that is not empty has a least one.
LEMMA Least ==
  ASSUME NEW T \in SUBSET Nat, T # {}
  PROVE  \E x \in T : \A y \in T : x <= y
<1> DEFINE R == {ss \in Nat \X Nat : ss[1] < ss[2]}
<1>1. IsWellFoundedOn(R, Nat)
  BY NatLessThanWellFounded, Zenon DEF OpToRel
<1>2. \E x \in T : \A y \in T : ~ (<<y, x>> \in R)
  <2> HIDE DEF R
  <2> QED  BY <1>1, WFMin
<1>3. \A x, y \in T : <<y, x>> \notin R => x <= y
  OBVIOUS
<1> QED
  BY <1>2, <1>3

\* s lists the states of a replica that applies the first m entries of l.
IsRun(s, d, l, m) ==
    s = [n \in 0..m |-> IF n = 0 THEN [db |-> d, stop |-> {}]
                        ELSE ApplyEntry(s[n - 1], l[n])]

\* There is such a list for every log: the recursion of Replay is well founded.
LEMMA RunExists ==
  ASSUME NEW d, NEW l, NEW m \in Nat
  PROVE  \E s : IsRun(s, d, l, m)
<1> DEFINE T == {k \in Nat : ~ \E s : IsRun(s, d, l, k)}
<1>1. SUFFICES ASSUME T # {} PROVE FALSE
  OBVIOUS
<1>2. PICK k \in T : \A y \in T : k <= y
  <2>1. T \in SUBSET Nat
    OBVIOUS
  <2> HIDE DEF T
  <2> QED  BY <1>1, <2>1, Least
<1>3. CASE k = 0
  <2> DEFINE s == [n \in 0..0 |-> [db |-> d, stop |-> {}]]
  <2>1. IsRun(s, d, l, 0)
    BY DEF IsRun
  <2> QED
    BY <1>3, <2>1
<1>4. CASE k # 0
  <2>1. k - 1 \in Nat /\ k \in Nat
    BY <1>4
  <2>2. k - 1 \notin T
    BY <1>2, <2>1
  <2>3. PICK s : IsRun(s, d, l, k - 1)
    BY <2>1, <2>2
  <2> DEFINE t == [n \in 0..k |-> IF n = k THEN ApplyEntry(s[k - 1], l[k]) ELSE s[n]]
  <2>4. \A n \in 0..k : n # k => n \in 0..(k - 1)
    BY <2>1
  <2>5. \A n \in 0..k : t[n] = IF n = 0 THEN [db |-> d, stop |-> {}]
                               ELSE ApplyEntry(t[n - 1], l[n])
    <3> TAKE n \in 0..k
    <3>1. CASE n = k
      <4>1. k - 1 \in 0..k /\ k - 1 # k
        BY <2>1
      <4>2. t[k - 1] = s[k - 1]
        BY <4>1
      <4> QED
        BY <1>4, <3>1, <4>2
    <3>2. CASE n = 0
      BY <1>4, <2>1, <2>3, <2>4, <3>2 DEF IsRun
    <3>3. CASE n # k /\ n # 0
      <4>1. n - 1 \in 0..k /\ n - 1 # k /\ n \in 0..(k - 1)
        BY <2>1, <3>3
      <4>2. t[n - 1] = s[n - 1] /\ t[n] = s[n]
        BY <3>3, <4>1
      <4>3. s[n] = ApplyEntry(s[n - 1], l[n])
        BY <2>3, <3>3, <4>1 DEF IsRun
      <4> QED
        BY <3>3, <4>2, <4>3
    <3> QED
      BY <3>1, <3>2, <3>3
  <2>6. t = [n \in 0..k |-> t[n]]
    OBVIOUS
  <2> HIDE DEF t
  <2>7. IsRun(t, d, l, k)
    BY <2>5, <2>6 DEF IsRun
  <2> QED
    BY <2>7
<1> QED
  BY <1>3, <1>4

\* Replay is the last state of such a list.
LEMMA ReplayIs ==
  ASSUME NEW d, NEW l, Len(l) \in Nat
  PROVE  \E s : IsRun(s, d, l, Len(l)) /\ Replay(d, l) = s[Len(l)]
<1> DEFINE s == CHOOSE s : s = [n \in 0..Len(l) |->
                                   IF n = 0 THEN [db |-> d, stop |-> {}]
                                   ELSE ApplyEntry(s[n - 1], l[n])]
<1>1. \E t : IsRun(t, d, l, Len(l))
  BY RunExists
<1>2. IsRun(s, d, l, Len(l))
  BY <1>1, Zenon DEF IsRun
<1>3. Replay(d, l) = s[Len(l)]
  BY Zenon DEF Replay
<1> HIDE DEF s
<1> QED
  BY <1>2, <1>3

\* Replaying a log leaves the tables sound, and stops only at an entry that can
\* stop it.
LEMMA ReplayReached ==
  ASSUME NEW d, Sound(d), NEW l \in Seq(Entry), now \in Nat
  PROVE  Reached(d, Replay(d, l))
<1>1. Len(l) \in Nat
  OBVIOUS
<1>2. PICK s : IsRun(s, d, l, Len(l)) /\ Replay(d, l) = s[Len(l)]
  BY <1>1, ReplayIs
<1> DEFINE T == {k \in 0..Len(l) : ~Reached(d, s[k])}
<1>3. SUFFICES ASSUME T # {} PROVE FALSE
  BY <1>1, <1>2
<1>4. PICK k \in T : \A y \in T : k <= y
  <2>1. T \in SUBSET Nat
    OBVIOUS
  <2> HIDE DEF T
  <2> QED  BY <1>3, <2>1, Least
<1>5. CASE k = 0
  <2>1. s[k] = [db |-> d, stop |-> {}]
    BY <1>1, <1>2, <1>5 DEF IsRun
  <2> QED
    BY <2>1, EvolvesSelf DEF Reached, Sound
<1>6. CASE k # 0
  <2>1. k \in 1..Len(l) /\ k - 1 \in 0..Len(l) /\ k - 1 < k
    BY <1>1, <1>6
  <2>2. Reached(d, s[k - 1])
    BY <1>4, <2>1
  <2>3. s[k] = ApplyEntry(s[k - 1], l[k])
    BY <1>2, <1>6, <2>1 DEF IsRun
  <2>4. l[k] \in Entry
    BY <2>1
  <2> QED
    BY <2>2, <2>3, <2>4, EntryApplied
<1> QED
  BY <1>5, <1>6

----------------------------------------------------------------------------
(* The steps, as far as the tables are concerned.                           *)

\* A step that lets the tables evolve, and blocks a log with an entry of a
\* reconciler only if that is an answer.
DataStep ==
    /\ now' = now
    /\ behind' \subseteq behind
    /\ leader' \in Replica \ behind'
    /\ log' \in Seq(Entry)
    /\ stuck \subseteq stuck' /\ stuck' \subseteq Stuck
    /\ \A s \in stuck' \ stuck : s.by = "repair" => Kind[s.item] = "answer"
    /\ db' \in [Replica -> Tables]
    /\ \A r \in Replica : Evolves(db[r], db'[r])

\* What stops a replica is recorded, and among the repairs only an answer is.
LEMMA StopIs ==
  ASSUME NEW r \in Replica, NEW s, s.stop \in SUBSET Stopper
  PROVE  /\ Stop(r, s) \subseteq Stuck
         /\ \A x \in Stop(r, s) : x.by = "repair" => Kind[x.item] = "answer"
<1>1. \A e \in s.stop : /\ e.item \in Item /\ e.by \in {"client", "repair"}
                        /\ e.by = "repair" => Kind[e.item] = "answer"
  BY EntryFields DEF Stopper
<1> QED
  BY <1>1 DEF Stop, Stuck

\* Applying an entry to the tables of a replica.
LEMMA AppliedIs ==
  ASSUME DataInv, NEW r \in Replica, NEW e \in Entry
  PROVE  Reached(db[r], Applied(r, e))
<1>1. Sound(db[r]) /\ now \in Nat
  BY DEF DataInv
<1>2. Reached(db[r], [db |-> db[r], stop |-> {}])
  BY <1>1, EvolvesSelf DEF Reached, Sound
<1> QED
  BY <1>1, <1>2, EntryApplied DEF Applied

\* A committed entry is applied on every replica that is not behind.
LEMMA CommitStep ==
  ASSUME DataInv, NEW e \in Entry, NEW n \in Item \cup {NoItem}, n \in Item => Kind[n] = "note",
         Commit(e, n), UNCHANGED <<leader, now>>
  PROVE  /\ DataStep
         /\ leader \notin Blocked /\ e.do = "apply" /\ Kind[e.item] \in {"appt", "note"}
              => e.item \in db'[leader].rows \cup db'[leader].gone
<1> DEFINE s == [r \in Replica |-> Applied(r, e)]
<1>1. /\ log' = Append(log, e)
      /\ db' = [r \in Replica |-> IF r = leader THEN AddNotification(s[r].db, n) ELSE s[r].db]
      /\ stuck' = stuck \cup UNION {Stop(r, s[r]) : r \in Replica}
      /\ behind' = behind
  BY DEF Commit
<1>2. \A r \in Replica : Reached(db[r], s[r])
  BY AppliedIs
<1>3. leader \notin Blocked /\ e.do = "apply"
        => s[leader].db = Apply(db[leader], e.item)
  BY DEF DataInv, Applied, ApplyEntry
<1> HIDE DEF s
<1>4. log' \in Seq(Entry)
  BY <1>1 DEF DataInv
<1>5. /\ \A r \in Replica : Stop(r, s[r]) \subseteq Stuck
      /\ \A r \in Replica : \A x \in Stop(r, s[r]) : x.by = "repair" => Kind[x.item] = "answer"
  BY <1>2, StopIs DEF Reached
<1>6. /\ stuck \subseteq stuck' /\ stuck' \subseteq Stuck
      /\ \A x \in stuck' \ stuck : x.by = "repair" => Kind[x.item] = "answer"
  BY <1>1, <1>5 DEF DataInv
<1>7. now \in Nat /\ leader \in Replica \ behind
  BY DEF DataInv
<1>8. \A r \in Replica : Evolves(db[r], s[r].db) /\ Sound(s[r].db)
  BY <1>2 DEF Reached, Evolves
<1>9. \A r \in Replica : Evolves(s[r].db, AddNotification(s[r].db, n))
  BY <1>7, <1>8, NotificationAdded
<1>10. \A r \in Replica : Evolves(db[r], db'[r])
  BY <1>1, <1>8, <1>9, EvolvesOn
<1>11. db' \in [Replica -> Tables]
  <2>1. \A r \in Replica : db'[r] \in Tables
    BY <1>10 DEF Evolves, Sound
  <2> QED
    BY <1>1, <2>1
<1>12. DataStep
  BY <1>1, <1>4, <1>6, <1>7, <1>10, <1>11 DEF DataStep
<1>13. ASSUME leader \notin Blocked, e.do = "apply", Kind[e.item] \in {"appt", "note"}
       PROVE  e.item \in db'[leader].rows \cup db'[leader].gone
  <2>1. e.item \in Item /\ Kind[e.item] # "invite" /\ Sound(db[leader])
    BY <1>7, EntryFields DEF DataInv
  <2>2. e.item \in s[leader].db.rows \cup s[leader].db.gone
    BY <1>3, <1>7, <1>13, <2>1, ApplyEvolves
  <2>3. Evolves(s[leader].db, db'[leader])
    BY <1>1, <1>7, <1>9
  <2> QED
    BY <1>13, <2>2, <2>3 DEF Evolves
<1> QED
  BY <1>12, <1>13

\* A step that touches the tables of r alone.
LEMMA TablesChanged ==
  ASSUME DataInv, NEW r \in Replica, NEW c, Evolves(db[r], c),
         db' = [db EXCEPT ![r] = c],
         now' = now, leader' = leader, log' = log, behind' \subseteq behind,
         stuck \subseteq stuck', stuck' \subseteq Stuck,
         \A s \in stuck' \ stuck : s.by = "repair" => Kind[s.item] = "answer"
  PROVE  DataStep
<1>1. \A q \in Replica : db'[q] = IF q = r THEN c ELSE db[q]
  BY DEF DataInv
<1>2. \A q \in Replica : Evolves(db[q], db[q])
  BY EvolvesSelf DEF DataInv
<1>3. \A q \in Replica : Evolves(db[q], db'[q])
  BY <1>1, <1>2
<1>4. c \in Tables
  BY DEF Evolves, Sound
<1>5. db' \in [Replica -> Tables]
  BY <1>4 DEF DataInv
<1> QED
  BY <1>3, <1>5 DEF DataStep, DataInv

\* A step that leaves the tables and the log alone.
LEMMA TablesSame ==
  ASSUME DataInv, UNCHANGED <<leader, log, db, behind, stuck, now>>
  PROVE  DataStep
BY EvolvesSelf DEF DataStep, DataInv

\* The requests of clients.
LEMMA RequestData ==
  ASSUME DataInv, Request
  PROVE  DataStep /\ UNCHANGED <<since, scan, seen, missed>>
<1>0. now \in Nat /\ leader \in Replica
  BY DEF DataInv
<1>1. ASSUME NEW i \in Item, LeaderWrite(i)
      PROVE  DataStep
  <2> DEFINE e == [do |-> "apply", item |-> i, by |-> "client"]
             n == IF Kind[i] = "appt" THEN Note[i] ELSE NoItem
  <2>1. Kind[i] # "invite"
    BY <1>1, Items DEF LeaderWrite, Allowed
  <2>2. e \in Entry
    BY <2>1 DEF Entry
  <2>3. n \in Item \cup {NoItem} /\ (n \in Item => Kind[n] = "note")
    BY Items
  <2>4. Commit(e, n) /\ UNCHANGED <<leader, now>>
    BY <1>1 DEF LeaderWrite
  <2> HIDE DEF e, n
  <2> QED
    BY <2>2, <2>3, <2>4, CommitStep
<1>2. ASSUME NEW i \in Item, LeaderRemove(i)
      PROVE  DataStep
  <2> DEFINE e == [do |-> "remove", item |-> i, by |-> "client"]
  <2>1. Kind[i] # "invite"
    BY <1>2 DEF LeaderRemove, Removable
  <2>2. e \in Entry
    BY <2>1 DEF Entry
  <2>3. Commit(e, NoItem) /\ UNCHANGED <<leader, now>>
    BY <1>2 DEF LeaderRemove
  <2> HIDE DEF e
  <2> QED
    BY <2>2, <2>3, CommitStep, Items
<1>3. ASSUME NEW i \in Item, NEW r \in Replica, FallbackWrite(r, i)
      PROVE  DataStep
  <2> DEFINE d == db[r]
             c == WriteLocally(d, i)
  <2>1. /\ db' = [db EXCEPT ![r] = c]
        /\ UNCHANGED <<leader, log, behind, stuck, now>>
    BY <1>3 DEF FallbackWrite
  <2>2. Sound(d)
    BY DEF DataInv
  <2>3. i \notin d.rows \cup d.gone
    BY <1>3 DEF FallbackWrite, Allowed
  <2>4. Note[i] \in Item \cup {NoItem} /\ (Note[i] \in Item => Kind[Note[i]] = "note")
    BY Items
  <2> HIDE DEF d
  <2>5. Evolves(d, c)
    <3> USE DEF WriteLocally
    <3>1. CASE Kind[i] = "user"
      <4>1. c = [d EXCEPT !.rows = @ \cup {i}]
        BY <3>1
      <4>2. {i} \in SUBSET Item /\ \A j \in {i} : Kind[j] = "appt" => j \notin d.gone
        BY <3>1
      <4> QED
        BY <2>2, <4>1, <4>2, RowsAdded
    <3>2. CASE Kind[i] = "group"
      BY <1>0, <2>2, <3>2, GroupCreated
    <3>3. CASE Kind[i] = "groupappt"
      BY <1>0, <2>2, <3>3, GroupAppointmentCreated
    <3>4. CASE Kind[i] = "answer"
      <4> DEFINE u == UpdateParticipantStatus(d, i)
      <4>1. c = AddNotification(u, Note[i])
        BY <3>4
      <4>2. Evolves(d, u)
        BY <1>0, <2>2, <3>4, StatusUpdated
      <4> HIDE DEF u
      <4>3. Evolves(u, AddNotification(u, Note[i]))
        BY <1>0, <2>4, <4>2, NotificationAdded DEF Evolves
      <4> HIDE DEF c
      <4> QED
        BY <4>1, <4>2, <4>3, EvolvesOn
    <3>5. CASE Kind[i] \notin {"user", "group", "groupappt", "answer"}
      <4> DEFINE u == Put(d, i)
      <4>1. c = AddNotification(u, Note[i])
        BY <3>5
      <4>2. FeedOf(i) \in Feed
        BY <1>3, <3>5 DEF FallbackWrite, Allowed, FeedOf, Feed
      <4>3. Evolves(d, u)
        BY <1>0, <2>2, <2>3, <4>2, PutEvolves
      <4> HIDE DEF u
      <4>4. Evolves(u, AddNotification(u, Note[i]))
        BY <1>0, <2>4, <4>3, NotificationAdded DEF Evolves
      <4> HIDE DEF c
      <4> QED
        BY <4>1, <4>3, <4>4, EvolvesOn
    <3> HIDE DEF c
    <3> QED
      BY <3>1, <3>2, <3>3, <3>4, <3>5
  <2> HIDE DEF c
  <2>6. stuck \subseteq Stuck
    BY DEF DataInv
  <2> QED
    BY <2>1, <2>5, <2>6, TablesChanged DEF d
<1>4. ASSUME NEW i \in Item, NEW r \in Replica, LocalRemove(r, i)
      PROVE  DataStep
  <2>1. /\ db' = [db EXCEPT ![r] = ApplyRemoval(db[r], i)]
        /\ UNCHANGED <<leader, log, behind, stuck, now>>
    BY <1>4 DEF LocalRemove
  <2>2. Evolves(db[r], ApplyRemoval(db[r], i)) /\ stuck \subseteq Stuck
    BY RemovalEvolves DEF DataInv
  <2> QED
    BY <2>1, <2>2, TablesChanged
<1>5. UNCHANGED <<since, scan, seen, missed>>
  BY DEF Request, LeaderWrite, LeaderRemove, FallbackWrite, LocalRemove
<1> QED
  BY <1>1, <1>2, <1>3, <1>4, <1>5 DEF Request

\* A restarted replica replays the log.
LEMMA CatchUpData ==
  ASSUME DataInv, NEW r \in Replica, CatchUp(r)
  PROVE  DataStep /\ UNCHANGED <<since, scan, seen, missed>>
<1> DEFINE s == Replay(db[r], log)
<1>1. /\ db' = [db EXCEPT ![r] = s.db]
      /\ stuck' = stuck \cup Stop(r, s)
      /\ behind' = behind \ {r}
      /\ UNCHANGED <<leader, log, since, scan, seen, missed, now>>
  BY DEF CatchUp
<1>2. Reached(db[r], s)
  BY ReplayReached DEF DataInv
<1> HIDE DEF s
<1>3. /\ Stop(r, s) \subseteq Stuck
      /\ \A x \in Stop(r, s) : x.by = "repair" => Kind[x.item] = "answer"
  BY <1>2, StopIs DEF Reached
<1>4. Evolves(db[r], s.db) /\ stuck \subseteq Stuck
  BY <1>2 DEF Reached, DataInv
<1>5. DataStep
  BY <1>1, <1>3, <1>4, TablesChanged
<1> QED
  BY <1>1, <1>5

\* A step of a reconciler.
LEMMA RoundData ==
  ASSUME DataInv, RoundInv, NEW r \in Replica, NEW g \in Goroutine, Round(r, g)
  PROVE  DataStep
<1>1. ASSUME NEW e \in scan[r][g].todo, ProposeRepair(r, g, e)
      PROVE  DataStep
  <2> DEFINE i == e.item
             x == [do |-> "apply", item |-> i, by |-> "repair"]
  <2>1. scan[r][g] \in ScanOf(r, g) \cup {Idle}
    BY DEF RoundInv
  <2>2. e \in Event /\ FeedOf(i) \in FeedsOf(g)
    BY <2>1 DEF ScanOf, Idle
  <2>3. i \in Item /\ Kind[i] # "groupappt"
    BY <1>1, <2>2 DEF Event, ProposeRepair, Resolvable
  <2>4. Kind[i] # "invite"
    BY <2>2, <2>3 DEF FeedOf, FeedsOf, Feeds, Goroutine
  <2>5. x \in Entry
    BY <2>3, <2>4 DEF Entry
  <2>6. Commit(x, NoItem) /\ UNCHANGED <<leader, now>>
    BY <1>1 DEF ProposeRepair
  <2> HIDE DEF x
  <2> QED
    BY <2>5, <2>6, CommitStep, Items
<1>2. ASSUME \/ StartRound(r, g) \/ Fetch(r, g) \/ FetchFails(r, g) \/ UpdateState(r, g)
             \/ \E e \in scan[r][g].todo :
                   SkipEvent(r, g, e) \/ ProposeFails(r, g, e) \/ ProposeLost(r, g, e)
      PROVE  DataStep
  <2>1. UNCHANGED <<leader, log, db, behind, stuck, now>>
    BY <1>2 DEF StartRound, Fetch, FetchFails, UpdateState, SkipEvent, ProposeFails, ProposeLost
  <2> QED
    BY <2>1, TablesSame
<1> QED
  BY <1>1, <1>2 DEF Round

\* The time of the next events.
Times == Clock \/ LateWriter

\* Every step but a restart and a change of the time lets the tables evolve.
LEMMA Steps ==
  ASSUME DataInv, RoundInv, [Next]_vars
  PROVE  DataStep \/ Times \/ \E r \in Replica : Restart(r)
<1>1. ASSUME NEW r \in Replica, ChangeLeader(r)
      PROVE  DataStep
  <2>1. UNCHANGED <<log, db, behind, stuck, now>> /\ leader' = r /\ r \notin behind
    BY <1>1 DEF ChangeLeader
  <2> QED
    BY <2>1, EvolvesSelf DEF DataStep, DataInv
<1>2. CASE UNCHANGED vars
  BY <1>2, TablesSame DEF vars
<1> QED
  BY <1>1, <1>2, RequestData, CatchUpData, RoundData DEF Next, Times

----------------------------------------------------------------------------
(* Rounds and cursors.                                                      *)

\* A reconciler reads its own feeds.
LEMMA FeedsAre ==
  ASSUME NEW g \in Goroutine
  PROVE  FeedsOf(g) \subseteq Feed /\ Feeds(g) \in Seq(FeedsOf(g))
<1>1. Feeds(g) \in Seq(Feed)
  <2>1. \/ Feeds(g) = <<"group", "member">> \/ Feeds(g) = <<"appt">>
        \/ Feeds(g) = <<"answer">> \/ Feeds(g) = <<"note">>
    BY DEF Feeds, Goroutine
  <2>2. {"group", "member", "appt", "answer", "note"} = Feed
    BY DEF Feed
  <2>3. <<"group", "member">> \in Seq(Feed)
    BY <2>2
  <2>4. /\ <<"appt">> \in Seq(Feed)
        /\ <<"answer">> \in Seq(Feed)
        /\ <<"note">> \in Seq(Feed)
    BY <2>2
  <2> QED
    BY <2>1, <2>3, <2>4
<1> HIDE DEF Feed
<1> QED
  BY <1>1 DEF FeedsOf

\* The local variables of a round.
LEMMA ScanFields ==
  ASSUME NEW r \in Replica, NEW g \in Goroutine, NEW s \in ScanOf(r, g)
  PROVE  /\ s \in Scans /\ s # Idle
         /\ s = [peers |-> s.peers, peer |-> s.peer, feeds |-> s.feeds,
                 todo |-> s.todo, max |-> s.max]
         /\ s.peers \subseteq Replica \ {r}
         /\ s.peer \in Replica /\ s.peer # r /\ s.peer # NoReplica
         /\ s.feeds \in Seq(FeedsOf(g))
         /\ s.todo \subseteq Event
         /\ \A e \in s.todo : FeedOf(e.item) \in FeedsOf(g)
         /\ s.max \in [FeedsOf(g) -> Nat]
<1>1. s \in Scans
  BY DEF Scans
<1>2. s.peer \in Replica \ {r} /\ Idle.peer = NoReplica
  BY DEF ScanOf, Idle
<1>3. s # Idle /\ s.peer # NoReplica
  BY <1>2, Items
<1> QED
  BY <1>1, <1>2, <1>3 DEF ScanOf

\* Goroutine g of r is where scan s says; the others stay.
LEMMA ScanSet ==
  ASSUME RoundInv, NEW r \in Replica, NEW g \in Goroutine,
         NEW s \in ScanOf(r, g) \cup {Idle},
         scan' = [scan EXCEPT ![r][g] = s]
  PROVE  /\ scan' \in [Replica -> [Goroutine -> Scans]]
         /\ scan'[r][g] = s
         /\ \A q \in Replica, h \in Goroutine :
               ~(q = r /\ h = g) => scan'[q][h] = scan[q][h]
         /\ \A q \in Replica, h \in Goroutine : scan'[q][h] \in ScanOf(q, h) \cup {Idle}
<1>1. s \in Scans
  BY ScanFields DEF Scans
<1>2. scan \in [Replica -> [Goroutine -> Scans]]
  BY DEF RoundInv
<1> HIDE DEF Scans
<1>3. /\ scan' \in [Replica -> [Goroutine -> Scans]]
      /\ scan'[r][g] = s
      /\ \A q \in Replica, h \in Goroutine :
            ~(q = r /\ h = g) => scan'[q][h] = scan[q][h]
  BY <1>1, <1>2
<1>4. \A q \in Replica, h \in Goroutine : scan[q][h] \in ScanOf(q, h) \cup {Idle}
  BY DEF RoundInv
<1> QED
  BY <1>3, <1>4

\* The goroutine goes on to a peer with nothing to do and no times yet, or ends.
LEMMA NextPeerIs ==
  ASSUME NEW r \in Replica, NEW g \in Goroutine, NEW P \in SUBSET (Replica \ {r}),
         NEW s \in NextPeer(g, P)
  PROVE  /\ s \in ScanOf(r, g) \cup {Idle}
         /\ s # Idle => s.todo = {} /\ \A f \in FeedsOf(g) : s.max[f] = 0
<1>1. CASE P = {}
  BY <1>1 DEF NextPeer
<1>2. CASE P # {}
  <2>1. PICK p \in P : s = [peers |-> P \ {p}, peer |-> p, feeds |-> Feeds(g), todo |-> {},
                            max |-> [f \in FeedsOf(g) |-> 0]]
    BY <1>2 DEF NextPeer
  <2>2. Feeds(g) \in Seq(FeedsOf(g))
    BY FeedsAre
  <2>3. s \in ScanOf(r, g)
    BY <2>1, <2>2 DEF ScanOf
  <2> QED
    BY <2>1, <2>3
<1> QED
  BY <1>1, <1>2

\* Covers and InTime, after a step.
CoversNext(r, g, s, p) ==
    /\ \A x \in db'[p].events :
          FeedOf(x.item) \in FeedsOf(g) /\ x.ts < s.max[FeedOf(x.item)] /\ ~x.late
             => x \in seen'[r][p]
    /\ \A x \in db'[p].events, e \in s.todo :
          FeedOf(x.item) = FeedOf(e.item) /\ x.ts < e.ts /\ ~x.late
             => x \in seen'[r][p] \cup s.todo

InTimeNext(g, s, p) ==
    /\ \A e \in s.todo : e.ts <= db'[p].last[FeedOf(e.item)]
    /\ \A f \in FeedsOf(g) : s.max[f] <= db'[p].last[f]

\* The latest stamps, of the feeds.
LEMMA LastTimes ==
  ASSUME NEW d, Sound(d)
  PROVE  \A f \in Feed : d.last[f] \in Nat /\ f \in Kinds
BY DEF Sound, Tables, Feed, Kinds

\* What a step may do to the tables leaves what was covered covered, as long as
\* nothing is forgotten: new events are late or not older than the others.
LEMMA CoversKept ==
  ASSUME NEW r, NEW g \in Goroutine, NEW s, NEW p \in Replica, Covers(r, g, s, p), InTime(g, s, p),
         Sound(db[p]), Evolves(db[p], db'[p]) \/ db'[p].events \subseteq db[p].events,
         \A e \in s.todo : e.ts \in Nat /\ FeedOf(e.item) \in FeedsOf(g),
         \A f \in FeedsOf(g) : s.max[f] \in Nat,
         seen[r][p] \subseteq seen'[r][p]
  PROVE  CoversNext(r, g, s, p)
<1>1. \A x \in db'[p].events : \/ x \in db[p].events
                               \/ x.late
                               \/ db[p].last[FeedOf(x.item)] <= x.ts /\ x.ts \in Nat
  BY DEF Evolves, Sound, Tables, Event
<1>2. \A f \in FeedsOf(g) : db[p].last[f] \in Nat
  BY FeedsAre, LastTimes
<1> QED
  BY <1>1, <1>2 DEF Covers, CoversNext, InTime

\* Nor does it take the latest stamps back.
LEMMA InTimeKept ==
  ASSUME NEW g \in Goroutine, NEW s, NEW p \in Replica, InTime(g, s, p), Evolves(db[p], db'[p]),
         \A e \in s.todo : e.ts \in Nat /\ FeedOf(e.item) \in FeedsOf(g),
         \A f \in FeedsOf(g) : s.max[f] \in Nat
  PROVE  InTimeNext(g, s, p)
<1>1. \A f \in Feed : f \in Kinds
  BY DEF Feed, Kinds
<1>2. \A f \in FeedsOf(g) : /\ db[p].last[f] \in Nat /\ db'[p].last[f] \in Nat
                            /\ db[p].last[f] <= db'[p].last[f]
  BY <1>1, FeedsAre DEF Evolves, Sound, Tables
<1> QED
  BY <1>2 DEF InTime, InTimeNext

\* The invariant without the log: what a step of the rounds has to keep.
Cursors == TimeInv /\ ScanInv /\ CursorPassesSeen

\* No event is stamped after the latest of its feed.
LEMMA EventTimes ==
  ASSUME DataInv, NEW p \in Replica
  PROVE  \A e \in db[p].events : /\ e \in Event /\ e.ts \in Nat /\ FeedOf(e.item) \in Feed
                                 /\ e.ts <= db[p].last[FeedOf(e.item)]
BY DEF DataInv, Sound, Tables, Event

\* Nor is a row in a round.
LEMMA ScanTimes ==
  ASSUME DataInv, RoundInv, TimeInv, NEW r \in Replica, NEW g \in Goroutine, scan[r][g] # Idle
  PROVE  /\ scan[r][g] \in ScanOf(r, g)
         /\ \A e \in scan[r][g].todo : e.ts \in Nat /\ FeedOf(e.item) \in FeedsOf(g)
         /\ \A f \in FeedsOf(g) : scan[r][g].max[f] \in Nat
         /\ InTime(g, scan[r][g], scan[r][g].peer)
<1>1. scan[r][g] \in ScanOf(r, g)
  BY DEF RoundInv
<1>2. /\ scan[r][g].todo \subseteq Event /\ scan[r][g].max \in [FeedsOf(g) -> Nat]
      /\ \A e \in scan[r][g].todo : FeedOf(e.item) \in FeedsOf(g)
  BY <1>1, ScanFields
<1>3. \A e \in Event : e.ts \in Nat
  BY DEF Event
<1> QED
  BY <1>1, <1>2, <1>3 DEF TimeInv

\* A scan that a step does not touch stays covered.
LEMMA OtherScans ==
  ASSUME DataInv, RoundInv, Cursors, DataStep, NEW r \in Replica, NEW g \in Goroutine,
         scan'[r][g] = scan[r][g], scan[r][g] # Idle,
         \A p \in Replica : seen[r][p] \subseteq seen'[r][p]
  PROVE  /\ CoversNext(r, g, scan'[r][g], scan'[r][g].peer)
         /\ InTimeNext(g, scan'[r][g], scan'[r][g].peer)
<1> DEFINE s == scan[r][g]
<1>1. /\ s \in ScanOf(r, g)
      /\ \A e \in s.todo : e.ts \in Nat /\ FeedOf(e.item) \in FeedsOf(g)
      /\ \A f \in FeedsOf(g) : s.max[f] \in Nat
      /\ InTime(g, s, s.peer)
  BY ScanTimes DEF Cursors
<1>2. s.peer \in Replica
  BY <1>1, ScanFields
<1>3. Covers(r, g, s, s.peer)
  BY DEF Cursors, ScanInv
<1>4. Sound(db[s.peer]) /\ Evolves(db[s.peer], db'[s.peer])
  BY <1>2 DEF DataStep, DataInv
<1> HIDE DEF s
<1>5. CoversNext(r, g, s, s.peer)
  BY <1>1, <1>2, <1>3, <1>4, CoversKept
<1>6. InTimeNext(g, s, s.peer)
  BY <1>1, <1>2, <1>4, InTimeKept
<1> QED
  BY <1>5, <1>6 DEF s

\* Cursors that stay where they are stay covered, and are not ahead.
LEMMA CursorsStay ==
  ASSUME DataInv, RoundInv, Cursors, DataStep, since' = since,
         \A r, p \in Replica : seen[r][p] \subseteq seen'[r][p]
  PROVE  /\ CursorPassesSeen'
         /\ \A r, p \in Replica, f \in Feed : since'[r][p][f] <= db'[p].last[f]
<1>1. ASSUME NEW r \in Replica, NEW p \in Replica, NEW f \in Feed
      PROVE  /\ since[r][p][f] \in Nat /\ db[p].last[f] \in Nat /\ db'[p].last[f] \in Nat
             /\ since[r][p][f] <= db[p].last[f] /\ db[p].last[f] <= db'[p].last[f]
  <2>1. Sound(db[p]) /\ Evolves(db[p], db'[p]) /\ f \in Kinds
    BY LastTimes DEF DataStep, DataInv
  <2>2. since[r][p][f] \in Nat /\ since[r][p][f] <= db[p].last[f]
    BY DEF RoundInv, Cursors, TimeInv
  <2> QED
    BY <2>1, <2>2 DEF Evolves, Sound, Tables
<1>2. ASSUME NEW r \in Replica, NEW p \in Replica, r # p, NEW e \in db'[p].events,
             e.ts < since[r][p][FeedOf(e.item)], ~e.late
      PROVE  e \in seen'[r][p]
  <2>1. Evolves(db[p], db'[p])
    BY DEF DataStep
  <2>2. FeedOf(e.item) \in Feed /\ e.ts \in Nat
    BY <2>1 DEF Evolves, Sound, Tables, Event
  <2>3. e \in db[p].events \/ db[p].last[FeedOf(e.item)] <= e.ts
    BY <1>2, <2>1 DEF Evolves
  <2>4. e \in db[p].events
    BY <1>1, <1>2, <2>2, <2>3
  <2> QED
    BY <1>2, <2>4 DEF Cursors, CursorPassesSeen
<1>3. CursorPassesSeen'
  BY <1>2 DEF CursorPassesSeen
<1>4. \A r, p \in Replica, f \in Feed : since'[r][p][f] <= db'[p].last[f]
  BY <1>1
<1> QED
  BY <1>3, <1>4

\* Requests, catching up and elections.
LEMMA DataCursors ==
  ASSUME DataInv, RoundInv, Cursors, DataStep, UNCHANGED <<since, scan, seen>>
  PROVE  Cursors'
<1>1. /\ CursorPassesSeen'
      /\ \A r, p \in Replica, f \in Feed : since'[r][p][f] <= db'[p].last[f]
  BY CursorsStay
<1>2. ASSUME NEW r \in Replica, NEW g \in Goroutine, scan'[r][g] # Idle
      PROVE  /\ CoversNext(r, g, scan'[r][g], scan'[r][g].peer)
             /\ InTimeNext(g, scan'[r][g], scan'[r][g].peer)
  <2>1. scan'[r][g] = scan[r][g] /\ seen' = seen
    OBVIOUS
  <2> QED
    BY <1>2, <2>1, OtherScans
<1>3. ScanInv' /\ TimeInv'
  BY <1>1, <1>2 DEF ScanInv, Covers, CoversNext, TimeInv, InTime, InTimeNext
<1> QED
  BY <1>1, <1>3 DEF Cursors

\* Goroutine g of r goes on with scan s.
LEMMA ScanPlaced ==
  ASSUME DataInv, RoundInv, Cursors, DataStep, NEW r \in Replica, NEW g \in Goroutine,
         NEW s \in ScanOf(r, g) \cup {Idle},
         scan' = [scan EXCEPT ![r][g] = s],
         \A q, p \in Replica : seen[q][p] \subseteq seen'[q][p],
         s # Idle => CoversNext(r, g, s, s.peer) /\ InTimeNext(g, s, s.peer)
  PROVE  /\ ScanInv'
         /\ \A q \in Replica, h \in Goroutine :
               scan'[q][h] # Idle => InTimeNext(h, scan'[q][h], scan'[q][h].peer)
<1>1. /\ scan'[r][g] = s
      /\ \A q \in Replica, h \in Goroutine :
            ~(q = r /\ h = g) => scan'[q][h] = scan[q][h]
  <2> HIDE DEF Scans
  <2>1. scan \in [Replica -> [Goroutine -> Scans]]
    BY DEF RoundInv
  <2> QED
    BY <2>1
<1>2. ASSUME NEW q \in Replica, NEW h \in Goroutine, scan'[q][h] # Idle
      PROVE  /\ CoversNext(q, h, scan'[q][h], scan'[q][h].peer)
             /\ InTimeNext(h, scan'[q][h], scan'[q][h].peer)
  <2>1. CASE q = r /\ h = g
    BY <1>1, <1>2, <2>1
  <2>2. CASE ~(q = r /\ h = g)
    <3>1. scan'[q][h] = scan[q][h]
      BY <1>1, <2>2
    <3>2. scan[q][h] # Idle
      BY <1>2, <3>1
    <3> QED
      BY <3>1, <3>2, OtherScans
  <2> QED
    BY <2>1, <2>2
<1>3. ScanInv'
  BY <1>2 DEF ScanInv, Covers, CoversNext
<1> QED
  BY <1>2, <1>3

\* A scan that has nothing to do at its peer yet.
LEMMA FreshScan ==
  ASSUME DataInv, DataStep, NEW r \in Replica, NEW g \in Goroutine,
         NEW P \in SUBSET (Replica \ {r}), NEW s \in NextPeer(g, P), s # Idle
  PROVE  CoversNext(r, g, s, s.peer) /\ InTimeNext(g, s, s.peer)
<1>1. s \in ScanOf(r, g) /\ s.todo = {} /\ \A f \in FeedsOf(g) : s.max[f] = 0
  BY NextPeerIs
<1>2. s.peer \in Replica
  BY <1>1, ScanFields
<1>3. Sound(db'[s.peer])
  BY <1>2 DEF DataStep, Evolves
<1>4. \A x \in db'[s.peer].events : x.ts \in Nat
  BY <1>3 DEF Sound, Tables, Event
<1>5. \A f \in FeedsOf(g) : db'[s.peer].last[f] \in Nat
  BY <1>3, FeedsAre, LastTimes
<1> QED
  BY <1>1, <1>4, <1>5 DEF CoversNext, InTimeNext

\* Starting a round.
LEMMA StartCursors ==
  ASSUME CursorInv, NEW r \in Replica, NEW g \in Goroutine, StartRound(r, g)
  PROVE  RoundInv' /\ Cursors'
<1>1. PICK s \in NextPeer(g, Replica \ {r}) : scan' = [scan EXCEPT ![r][g] = s]
  BY DEF StartRound
<1>2. /\ DataInv /\ RoundInv /\ Cursors
      /\ UNCHANGED <<leader, log, db, behind, stuck, since, seen, missed, now>>
  BY DEF StartRound, CursorInv, Cursors
<1>3. DataStep
  BY <1>2, TablesSame
<1>4. s \in ScanOf(r, g) \cup {Idle}
  BY NextPeerIs
<1>5. RoundInv'
  BY <1>1, <1>2, <1>4, ScanSet DEF RoundInv
<1>6. s # Idle => CoversNext(r, g, s, s.peer) /\ InTimeNext(g, s, s.peer)
  BY <1>2, <1>3, FreshScan
<1>7. /\ ScanInv'
      /\ \A q \in Replica, h \in Goroutine :
            scan'[q][h] # Idle => InTimeNext(h, scan'[q][h], scan'[q][h].peer)
  BY <1>1, <1>2, <1>3, <1>4, <1>6, ScanPlaced
<1>8. /\ CursorPassesSeen'
      /\ \A q, p \in Replica, f \in Feed : since'[q][p][f] <= db'[p].last[f]
  BY <1>2, <1>3, CursorsStay
<1>9. TimeInv'
  BY <1>7, <1>8 DEF TimeInv, InTime, InTimeNext
<1> QED
  BY <1>5, <1>7, <1>8, <1>9 DEF Cursors

\* The scans that the steps of a round lead to.
ScanWith(s, feeds, todo, max) ==
    [peers |-> s.peers, peer |-> s.peer, feeds |-> feeds, todo |-> todo, max |-> max]

\* A round with other feeds, rows and maxima.
LEMMA ScanWithIs ==
  ASSUME NEW r \in Replica, NEW g \in Goroutine, NEW s \in ScanOf(r, g),
         NEW F \in Seq(FeedsOf(g)), NEW S \in SUBSET Event,
         \A e \in S : FeedOf(e.item) \in FeedsOf(g),
         NEW m \in [FeedsOf(g) -> Nat]
  PROVE  /\ ScanWith(s, F, S, m) \in ScanOf(r, g)
         /\ ScanWith(s, F, S, m).peer = s.peer
         /\ ScanWith(s, F, S, m).todo = S
         /\ ScanWith(s, F, S, m).max = m
BY DEF ScanWith, ScanOf

\* How the actions write them.
SetFeeds(s, F) == [s EXCEPT !.feeds = F]
SetTodo(s, S) == [s EXCEPT !.todo = S]
SetMax(s, f, t) == [s EXCEPT !.max[f] = t]

\* The updates of a round, as such records.
LEMMA ScanExcept ==
  ASSUME NEW r \in Replica, NEW g \in Goroutine, NEW s \in ScanOf(r, g), NEW F, NEW S, NEW f, NEW t,
         NEW m, m = [s.max EXCEPT ![f] = t]
  PROVE  /\ SetFeeds(s, F) = ScanWith(s, F, s.todo, s.max)
         /\ SetTodo(SetFeeds(s, F), S) = ScanWith(s, F, S, s.max)
         /\ SetMax(SetTodo(s, S), f, t) = ScanWith(s, s.feeds, S, m)
<1>1. s = [peers |-> s.peers, peer |-> s.peer, feeds |-> s.feeds, todo |-> s.todo, max |-> s.max]
  BY ScanFields
<1>2. SetFeeds(s, F) = ScanWith(s, F, s.todo, s.max)
  BY <1>1 DEF ScanWith, SetFeeds
<1>3. SetTodo(s, S) = ScanWith(s, s.feeds, S, s.max)
  BY <1>1 DEF ScanWith, SetTodo
<1>4. SetTodo(ScanWith(s, F, s.todo, s.max), S) = ScanWith(s, F, S, s.max)
  BY DEF ScanWith, SetTodo
<1>5. SetMax(ScanWith(s, s.feeds, S, s.max), f, t) = ScanWith(s, s.feeds, S, m)
  BY DEF ScanWith, SetMax
<1> QED
  BY <1>2, <1>3, <1>4, <1>5, Zenon

FetchedInto(r, g, S) == scan' = [scan EXCEPT ![r][g].feeds = Tail(@), ![r][g].todo = S]
NotFetched(r, g) == scan' = [scan EXCEPT ![r][g].feeds = Tail(@)]

\* What fetching a feed does to the round.
LEMMA FetchSets ==
  ASSUME RoundInv, NEW r \in Replica, NEW g \in Goroutine, NEW S,
         NEW s \in ScanOf(r, g), s = scan[r][g],
         FetchedInto(r, g, S) \/ (NotFetched(r, g) /\ S = s.todo),
         NEW t, t = ScanWith(s, Tail(s.feeds), S, s.max)
  PROVE  scan' = [scan EXCEPT ![r][g] = t]
<1> DEFINE F == Tail(s.feeds)
<1>1. /\ SetFeeds(s, F) = ScanWith(s, F, s.todo, s.max)
      /\ SetTodo(SetFeeds(s, F), S) = ScanWith(s, F, S, s.max)
  BY ScanExcept, Zenon
<1>2. scan \in [Replica -> [Goroutine -> Scans]]
  BY DEF RoundInv
<1>3. CASE FetchedInto(r, g, S)
  <2>1. scan' = [scan EXCEPT ![r][g] = SetTodo(SetFeeds(s, F), S)]
    BY <1>2, <1>3 DEF SetTodo, SetFeeds, FetchedInto
  <2> QED
    BY <1>1, <2>1, Zenon
<1>4. CASE NotFetched(r, g) /\ S = s.todo
  <2>1. scan' = [scan EXCEPT ![r][g] = SetFeeds(s, F)]
    BY <1>2, <1>4 DEF SetFeeds, NotFetched
  <2> QED
    BY <1>1, <1>4, <2>1, Zenon
<1> QED
  BY <1>3, <1>4

\* What handling a row does to the round.
LEMMA AdvanceSets ==
  ASSUME RoundInv, NEW r \in Replica, NEW g \in Goroutine, NEW e, Advance(r, g, e),
         NEW s \in ScanOf(r, g), s = scan[r][g],
         NEW m, m = [s.max EXCEPT ![FeedOf(e.item)] = e.ts],
         NEW t, t = ScanWith(s, s.feeds, s.todo \ {e}, m)
  PROVE  scan' = [scan EXCEPT ![r][g] = t]
<1> DEFINE S == s.todo \ {e}
           f == FeedOf(e.item)
<1>1. SetMax(SetTodo(s, S), f, e.ts) = ScanWith(s, s.feeds, S, m)
  BY ScanExcept
<1>2. scan \in [Replica -> [Goroutine -> Scans]]
  BY DEF RoundInv
<1>3. scan' = [scan EXCEPT ![r][g] = SetMax(SetTodo(s, S), f, e.ts)]
  <2> DEFINE X == SetTodo(s, S)
             A == [scan EXCEPT ![r][g] = X]
  <2>1. [scan EXCEPT ![r][g].todo = s.todo \ {e}] = A
    BY <1>2 DEF SetTodo
  <2>2. scan' = [[scan EXCEPT ![r][g].todo = s.todo \ {e}]
                    EXCEPT ![r][g].max[FeedOf(e.item)] = e.ts]
    BY DEF Advance
  <2>3. scan' = [A EXCEPT ![r][g].max[f] = e.ts]
    BY <2>1, <2>2
  <2>4. A[r][g] = X
    BY <1>2
  <2> HIDE DEF X
  <2>5. [A EXCEPT ![r][g].max[f] = e.ts] = [A EXCEPT ![r][g] = SetMax(X, f, e.ts)]
    BY <1>2, <2>4 DEF SetMax
  <2>6. [A EXCEPT ![r][g] = SetMax(X, f, e.ts)] = [scan EXCEPT ![r][g] = SetMax(X, f, e.ts)]
    BY <1>2
  <2> QED
    BY <2>3, <2>5, <2>6, Zenon DEF X
<1> QED
  BY <1>1, <1>3, Zenon

\* The next list of events is fetched, or the request fails: what the list
\* leaves out is older than the cursor or not older than anything in it.
LEMMA FetchCursors ==
  ASSUME CursorInv, NEW r \in Replica, NEW g \in Goroutine, Fetch(r, g) \/ FetchFails(r, g)
  PROVE  RoundInv' /\ Cursors'
<1>1. /\ DataInv /\ RoundInv /\ Cursors /\ TimeInv
      /\ UNCHANGED <<leader, log, db, behind, stuck, since, seen, missed, now>>
      /\ FetchDue(r, g)
  BY DEF Fetch, FetchFails, CursorInv, Cursors
<1>2. DataStep
  BY <1>1, TablesSame
<1>3. scan[r][g] # Idle /\ scan[r][g].todo = {} /\ scan[r][g].feeds # <<>>
  BY <1>1 DEF FetchDue, Idle
<1>4. /\ scan[r][g] \in ScanOf(r, g)
      /\ InTime(g, scan[r][g], scan[r][g].peer)
  BY <1>1, <1>3, ScanTimes
<1>5. PICK s \in ScanOf(r, g) : s = scan[r][g]
  BY <1>4
<1>6. /\ s.feeds \in Seq(FeedsOf(g)) /\ s.peer \in Replica /\ s.peer # r
      /\ s.max \in [FeedsOf(g) -> Nat] /\ s.todo = {}
  BY <1>3, <1>5, ScanFields
<1> DEFINE f == Head(s.feeds)
<1>7. f \in FeedsOf(g) /\ f \in Feed /\ Tail(s.feeds) \in Seq(FeedsOf(g))
  <2>1. s.feeds # <<>>
    BY <1>3, <1>5
  <2> QED
    BY <1>6, <2>1, FeedsAre
<1>8. PICK S : /\ S \subseteq db[s.peer].events
               /\ \A e \in S : FeedOf(e.item) = f
               /\ \A x \in db[s.peer].events, e \in S :
                     FeedOf(x.item) = f /\ x.ts < e.ts /\ ~x.late => x \in seen[r][s.peer] \cup S
               /\ FetchedInto(r, g, S) \/ (NotFetched(r, g) /\ S = s.todo)
  <2>1. CASE Fetch(r, g)
    <3> DEFINE due == {e \in db[s.peer].events : FeedOf(e.item) = f /\ e.ts >= since[r][s.peer][f]}
    <3>1. PICK S \in ListEvents(s.peer, f, since[r][s.peer][f]) : FetchedInto(r, g, S)
      BY <1>5, <2>1 DEF Fetch, FetchedInto
    <3>2. S \subseteq due /\ \A e \in S, x \in due \ S : e.ts <= x.ts
      BY <3>1 DEF ListEvents, Oldest
    <3>3. ASSUME NEW x \in db[s.peer].events, NEW e \in S, FeedOf(x.item) = f, x.ts < e.ts,
                 ~x.late
          PROVE  x \in seen[r][s.peer] \cup S
      <4>1. x.ts \in Nat /\ e.ts \in Nat /\ since[r][s.peer][f] \in Nat
        BY <1>1, <1>6, <1>7, <3>2, EventTimes DEF RoundInv
      <4>2. CASE x.ts < since[r][s.peer][f]
        BY <1>1, <1>6, <3>3, <4>2 DEF Cursors, CursorPassesSeen
      <4>3. CASE ~(x.ts < since[r][s.peer][f])
        <5>1. x \in due
          BY <3>3, <4>1, <4>3
        <5>2. x \notin S => e.ts <= x.ts
          BY <3>2, <5>1
        <5> QED
          BY <3>3, <4>1, <5>2
      <4> QED
        BY <4>2, <4>3
    <3>4. S \subseteq db[s.peer].events /\ \A e \in S : FeedOf(e.item) = f
      BY <3>2
    <3> HIDE DEF due, f
    <3> QED
      BY <3>1, <3>3, <3>4
  <2>2. CASE FetchFails(r, g)
    <3>1. NotFetched(r, g) /\ s.todo = {}
      BY <1>6, <2>2 DEF FetchFails, NotFetched
    <3>2. {} \subseteq db[s.peer].events
      OBVIOUS
    <3> QED
      BY <3>1, <3>2
  <2> QED
    BY <1>1, <2>1, <2>2
<1> DEFINE t == ScanWith(s, Tail(s.feeds), S, s.max)
<1> HIDE DEF f
<1>9. scan' = [scan EXCEPT ![r][g] = t]
  BY <1>1, <1>5, <1>8, FetchSets
<1>10. /\ S \in SUBSET Event
       /\ \A e \in S : FeedOf(e.item) \in FeedsOf(g) /\ e.ts <= db[s.peer].last[FeedOf(e.item)]
  BY <1>1, <1>6, <1>7, <1>8, EventTimes
<1>11. t \in ScanOf(r, g) /\ t.peer = s.peer /\ t.todo = S /\ t.max = s.max
  <2>1. S \in SUBSET Event /\ \A e \in S : FeedOf(e.item) \in FeedsOf(g)
    BY <1>10
  <2> DEFINE F == Tail(s.feeds)
  <2>2. F \in Seq(FeedsOf(g))
    BY <1>7
  <2> HIDE DEF F
  <2>3. /\ ScanWith(s, F, S, s.max) \in ScanOf(r, g)
        /\ ScanWith(s, F, S, s.max).peer = s.peer
        /\ ScanWith(s, F, S, s.max).todo = S
        /\ ScanWith(s, F, S, s.max).max = s.max
    BY <1>6, <2>1, <2>2, ScanWithIs
  <2> QED
    BY <2>3 DEF F
<1> HIDE DEF t
<1>12. RoundInv'
  BY <1>1, <1>9, <1>11, ScanSet DEF RoundInv
<1>13. CoversNext(r, g, t, t.peer)
  <2>1. Covers(r, g, s, s.peer)
    BY <1>1, <1>3, <1>5 DEF Cursors, ScanInv
  <2> QED
    BY <1>1, <1>8, <1>11, <2>1 DEF Covers, CoversNext
<1>14. ScanInv' /\ TimeInv'
  <2>1. InTimeNext(g, t, t.peer)
    BY <1>1, <1>4, <1>5, <1>10, <1>11 DEF InTime, InTimeNext
  <2>2. /\ ScanInv'
        /\ \A q \in Replica, h \in Goroutine :
              scan'[q][h] # Idle => InTimeNext(h, scan'[q][h], scan'[q][h].peer)
    BY <1>1, <1>2, <1>9, <1>11, <1>13, <2>1, ScanPlaced
  <2>3. \A q, p \in Replica, h \in Feed : since'[q][p][h] <= db'[p].last[h]
    BY <1>1, <1>2, CursorsStay
  <2> QED
    BY <2>2, <2>3 DEF TimeInv, InTime, InTimeNext
<1>15. CursorPassesSeen'
  BY <1>1, <1>2, CursorsStay
<1> QED
  BY <1>12, <1>14, <1>15 DEF Cursors

\* An oldest event of the list is dealt with, whatever happens to the tables.
LEMMA AdvanceCursors ==
  ASSUME CursorInv, DataStep, NEW r \in Replica, NEW g \in Goroutine,
         NEW e \in scan[r][g].todo, Advance(r, g, e),
         since' = since, missed' \in [Replica -> SUBSET Item]
  PROVE  RoundInv' /\ Cursors'
<1>1. DataInv /\ RoundInv /\ Cursors /\ TimeInv
  BY DEF CursorInv, Cursors
<1>2. scan[r][g] # Idle
  BY DEF Idle
<1>3. /\ scan[r][g] \in ScanOf(r, g)
      /\ \A x \in scan[r][g].todo : x.ts \in Nat /\ FeedOf(x.item) \in FeedsOf(g)
      /\ \A f \in FeedsOf(g) : scan[r][g].max[f] \in Nat
      /\ InTime(g, scan[r][g], scan[r][g].peer)
  BY <1>1, <1>2, ScanTimes
<1>4. PICK s \in ScanOf(r, g) : s = scan[r][g]
  BY <1>3
<1>5. /\ s.feeds \in Seq(FeedsOf(g)) /\ s.peer \in Replica
      /\ s.max \in [FeedsOf(g) -> Nat] /\ s.todo \subseteq Event
      /\ \A x \in s.todo : FeedOf(x.item) \in FeedsOf(g)
  BY <1>4, ScanFields
<1> DEFINE f == FeedOf(e.item)
           S == s.todo \ {e}
           m == [s.max EXCEPT ![f] = e.ts]
           t == ScanWith(s, s.feeds, S, m)
<1>6. /\ \A x \in s.todo : e.ts <= x.ts
      /\ seen' = [seen EXCEPT ![r][s.peer] = @ \cup {e}]
  BY <1>4 DEF Advance
<1>7. /\ e \in Event /\ e.ts \in Nat /\ f \in FeedsOf(g)
      /\ e.ts <= db[s.peer].last[f]
  BY <1>3, <1>4, <1>5 DEF InTime
<1>8. scan' = [scan EXCEPT ![r][g] = t]
  <2> HIDE DEF t
  <2> QED  BY <1>1, <1>4, AdvanceSets DEF t
<1> HIDE DEF f
<1>9. m \in [FeedsOf(g) -> Nat] /\ \A h \in FeedsOf(g) : m[h] = IF h = f THEN e.ts ELSE s.max[h]
  BY <1>5, <1>7
<1> HIDE DEF m
<1>10. t \in ScanOf(r, g) /\ t.peer = s.peer /\ t.todo = S /\ t.max = m
  <2>1. S \in SUBSET Event /\ \A x \in S : FeedOf(x.item) \in FeedsOf(g)
    BY <1>5
  <2> HIDE DEF S
  <2> QED
    BY <1>5, <1>9, <2>1, ScanWithIs, SMTT(40)
<1> HIDE DEF t
<1>11. /\ seen' \in [Replica -> [Replica -> SUBSET Event]]
       /\ \A q, p \in Replica : seen[q][p] \subseteq seen'[q][p]
       /\ seen'[r][s.peer] = seen[r][s.peer] \cup {e}
  BY <1>1, <1>5, <1>6, <1>7 DEF RoundInv
<1>12. RoundInv'
  BY <1>1, <1>8, <1>10, <1>11, ScanSet DEF RoundInv
<1> DEFINE old == db[s.peer]
<1>13. /\ Evolves(old, db'[s.peer]) /\ Sound(old) /\ InTime(g, s, s.peer)
       /\ \A h \in FeedsOf(g) : old.last[h] \in Nat
  <2>1. Evolves(old, db'[s.peer]) /\ Sound(old)
    BY <1>1, <1>5 DEF DataStep, DataInv
  <2> QED
    BY <1>3, <1>4, <2>1, FeedsAre, LastTimes
<1>14. CoversNext(r, g, t, t.peer)
  <2>1. Covers(r, g, s, s.peer)
    BY <1>1, <1>2, <1>4 DEF Cursors, ScanInv
  <2>2. \A x \in db'[s.peer].events : \/ x \in old.events
                                      \/ x.late
                                      \/ old.last[FeedOf(x.item)] <= x.ts /\ x.ts \in Nat
    BY <1>13 DEF Evolves, Sound, Tables, Event
  <2>3. \A x \in old.events : x.ts \in Nat
    BY <1>1, <1>5, EventTimes
  <2>5. ASSUME NEW x \in db'[s.peer].events, NEW y \in s.todo,
               FeedOf(x.item) = FeedOf(y.item), x.ts < y.ts, ~x.late
        PROVE  x \in seen'[r][s.peer] \cup S
    <3>1. y.ts \in Nat /\ FeedOf(y.item) \in FeedsOf(g) /\ y.ts <= old.last[FeedOf(y.item)]
      BY <1>3, <1>4, <1>13 DEF InTime
    <3>2. x \in old.events
      BY <1>13, <2>2, <2>5, <3>1
    <3>3. x \in seen[r][s.peer] \cup s.todo
      BY <2>1, <2>5, <3>2 DEF Covers
    <3> QED
      BY <1>11, <3>3
  <2>6. ASSUME NEW x \in db'[s.peer].events, FeedOf(x.item) \in FeedsOf(g),
               x.ts < m[FeedOf(x.item)], ~x.late
        PROVE  x \in seen'[r][s.peer]
    <3>1. CASE FeedOf(x.item) = f
      <4>1. x.ts < e.ts
        BY <1>7, <1>9, <2>6, <3>1
      <4>2. x \in old.events
        BY <1>7, <1>13, <2>2, <2>6, <3>1, <4>1
      <4>3. x \in seen[r][s.peer] \cup s.todo
        BY <1>4, <2>1, <2>6, <3>1, <4>1, <4>2 DEF Covers, f
      <4>4. x \notin s.todo
        BY <1>6, <1>7, <2>3, <4>1, <4>2
      <4> QED
        BY <1>11, <4>3, <4>4
    <3>2. CASE FeedOf(x.item) # f
      <4>1. x.ts < s.max[FeedOf(x.item)]
        BY <1>9, <2>6, <3>2
      <4>2. /\ s.max[FeedOf(x.item)] \in Nat
            /\ s.max[FeedOf(x.item)] <= old.last[FeedOf(x.item)]
        BY <1>3, <1>4, <1>13, <2>6 DEF InTime
      <4>3. x \in old.events
        BY <1>13, <2>2, <2>6, <4>1, <4>2
      <4>4. x \in seen[r][s.peer]
        BY <2>1, <2>6, <4>1, <4>3 DEF Covers
      <4> QED
        BY <1>11, <4>4
    <3> QED
      BY <3>1, <3>2
  <2> QED
    BY <1>10, <2>5, <2>6 DEF CoversNext
<1>15. ScanInv' /\ TimeInv'
  <2>1. InTime(g, t, s.peer)
    BY <1>7, <1>9, <1>10, <1>13 DEF InTime
  <2>2. /\ \A x \in t.todo : x.ts \in Nat /\ FeedOf(x.item) \in FeedsOf(g)
        /\ \A h \in FeedsOf(g) : t.max[h] \in Nat
    BY <1>3, <1>4, <1>9, <1>10
  <2>3. InTimeNext(g, t, t.peer)
    BY <1>5, <1>10, <1>13, <2>1, <2>2, InTimeKept
  <2>4. /\ ScanInv'
        /\ \A q \in Replica, h \in Goroutine :
              scan'[q][h] # Idle => InTimeNext(h, scan'[q][h], scan'[q][h].peer)
    BY <1>1, <1>8, <1>10, <1>11, <1>14, <2>3, ScanPlaced
  <2>5. \A q, p \in Replica, h \in Feed : since'[q][p][h] <= db'[p].last[h]
    BY <1>1, <1>11, CursorsStay
  <2> QED
    BY <2>4, <2>5 DEF TimeInv, InTime, InTimeNext
<1>16. CursorPassesSeen'
  BY <1>1, <1>11, CursorsStay
<1> QED
  BY <1>12, <1>15, <1>16 DEF Cursors

\* The end of a peer: the cursors move to the times of the scan, which has left
\* behind nothing it did not look at.
LEMMA UpdateCursors ==
  ASSUME CursorInv, NEW r \in Replica, NEW g \in Goroutine, UpdateState(r, g)
  PROVE  RoundInv' /\ Cursors'
<1>1. /\ DataInv /\ RoundInv /\ Cursors /\ TimeInv
      /\ UNCHANGED <<leader, log, db, behind, stuck, seen, missed, now>>
  BY DEF UpdateState, CursorInv, Cursors
<1>2. DataStep
  BY <1>1, TablesSame
<1>3. scan[r][g] # Idle
  BY DEF UpdateState, Idle
<1>4. /\ scan[r][g] \in ScanOf(r, g)
      /\ InTime(g, scan[r][g], scan[r][g].peer)
  BY <1>1, <1>3, ScanTimes
<1>5. PICK s \in ScanOf(r, g) : s = scan[r][g]
  BY <1>4
<1>6. /\ s.peers \in SUBSET (Replica \ {r}) /\ s.peer \in Replica /\ s.peer # r
      /\ s.max \in [FeedsOf(g) -> Nat]
  BY <1>5, ScanFields
<1> DEFINE c == [f \in Feed |-> IF f \in DOMAIN s.max /\ s.max[f] > 0 THEN s.max[f]
                                ELSE since[r][s.peer][f]]
<1>7. since' = [since EXCEPT ![r][s.peer] = c]
  BY <1>5 DEF UpdateState
<1>8. PICK t \in NextPeer(g, s.peers) : scan' = [scan EXCEPT ![r][g] = t]
  BY <1>5 DEF UpdateState
<1>9. /\ c \in [Feed -> Nat]
      /\ \A f \in Feed : c[f] = IF f \in FeedsOf(g) /\ s.max[f] > 0 THEN s.max[f]
                                ELSE since[r][s.peer][f]
  BY <1>1, <1>6 DEF RoundInv
<1> HIDE DEF c
<1>10. /\ since' \in [Replica -> [Replica -> [Feed -> Nat]]]
       /\ \A q, p \in Replica : since'[q][p] = IF q = r /\ p = s.peer THEN c ELSE since[q][p]
  BY <1>1, <1>6, <1>7, <1>9 DEF RoundInv
<1>11. t \in ScanOf(r, g) \cup {Idle}
  BY <1>6, NextPeerIs
<1>12. RoundInv'
  BY <1>1, <1>8, <1>10, <1>11, ScanSet DEF RoundInv
<1>13. t # Idle => CoversNext(r, g, t, t.peer) /\ InTimeNext(g, t, t.peer)
  BY <1>1, <1>2, <1>6, FreshScan
<1>14. /\ ScanInv'
       /\ \A q \in Replica, h \in Goroutine :
             scan'[q][h] # Idle => InTimeNext(h, scan'[q][h], scan'[q][h].peer)
  BY <1>1, <1>2, <1>8, <1>11, <1>13, ScanPlaced
<1>15. \A q, p \in Replica, f \in Feed : since'[q][p][f] <= db'[p].last[f]
  <2> SUFFICES ASSUME NEW q \in Replica, NEW p \in Replica, NEW f \in Feed
               PROVE  since'[q][p][f] <= db'[p].last[f]
    OBVIOUS
  <2>1. /\ since[q][p][f] <= db'[p].last[f]
        /\ f \in FeedsOf(g) => s.max[f] <= db'[s.peer].last[f]
    BY <1>1, <1>4, <1>5 DEF TimeInv, InTime
  <2>2. since'[q][p] = IF q = r /\ p = s.peer THEN c ELSE since[q][p]
    BY <1>10
  <2> QED
    BY <1>9, <2>1, <2>2
<1>16. CursorPassesSeen'
  <2> SUFFICES ASSUME NEW q \in Replica, NEW p \in Replica, q # p,
                      NEW e \in db[p].events,
                      e.ts < since'[q][p][FeedOf(e.item)], ~e.late
               PROVE  e \in seen[q][p]
    BY <1>1 DEF CursorPassesSeen
  <2>1. FeedOf(e.item) \in Feed
    BY <1>1, EventTimes
  <2>2. CASE q = r /\ p = s.peer /\ FeedOf(e.item) \in FeedsOf(g) /\ s.max[FeedOf(e.item)] > 0
    <3>1. e.ts < s.max[FeedOf(e.item)]
      BY <1>9, <1>10, <2>1, <2>2
    <3>2. Covers(r, g, s, s.peer)
      BY <1>1, <1>3, <1>5 DEF Cursors, ScanInv
    <3> QED
      BY <2>2, <3>1, <3>2 DEF Covers
  <2>3. CASE ~(q = r /\ p = s.peer /\ FeedOf(e.item) \in FeedsOf(g) /\ s.max[FeedOf(e.item)] > 0)
    <3>1. e.ts < since[q][p][FeedOf(e.item)]
      BY <1>9, <1>10, <2>1, <2>3
    <3> QED
      BY <1>1, <3>1 DEF Cursors, CursorPassesSeen
  <2> QED
    BY <2>2, <2>3
<1> QED
  BY <1>1, <1>12, <1>14, <1>15, <1>16 DEF Cursors, TimeInv, InTime, InTimeNext

\* The clock, and a writer that took the time before.
LEMMA TimesCursors ==
  ASSUME CursorInv, Times
  PROVE  CursorInv'
<1>1. /\ now \in Nat /\ now' \in Nat
      /\ UNCHANGED <<leader, log, db, behind, stuck, since, scan, seen, missed>>
  BY DEF Times, Clock, LateWriter, CursorInv, DataInv
<1>2. DataInv'
  BY <1>1 DEF CursorInv, DataInv, Sound
<1>3. RoundInv'
  BY <1>1 DEF CursorInv, RoundInv
<1>4. TimeInv' /\ ScanInv' /\ CursorPassesSeen'
  BY <1>1 DEF CursorInv, TimeInv, InTime, ScanInv, Covers, CursorPassesSeen
<1> QED
  BY <1>2, <1>3, <1>4 DEF CursorInv

\* A restart with an empty database.
LEMMA RestartCursors ==
  ASSUME CursorInv, NEW r \in Replica, Restart(r)
  PROVE  CursorInv'
<1> DEFINE wiped == [NoTables EXCEPT !.last = db[r].last]
<1>1. /\ db' = [db EXCEPT ![r] = wiped]
      /\ behind' = behind \cup {r}
      /\ stuck' = {s \in stuck : s.replica # r}
      /\ since' = [since EXCEPT ![r] = [p \in Replica |-> [f \in Feed |-> 0]]]
      /\ scan' = [scan EXCEPT ![r] = [g \in Goroutine |-> Idle]]
      /\ seen' = [seen EXCEPT ![r] = [p \in Replica |-> {}]]
      /\ missed' = [missed EXCEPT ![r] = {}]
      /\ UNCHANGED <<leader, log, now>> /\ r # leader
  BY DEF Restart
<1>2. DataInv /\ RoundInv /\ TimeInv /\ ScanInv /\ CursorPassesSeen
  BY DEF CursorInv
<1>3. /\ wiped \in Tables /\ wiped.events = {} /\ wiped.gone = {}
      /\ wiped.last = db[r].last
  BY <1>2 DEF NoTables, Tables, DataInv
<1> HIDE DEF wiped
<1>4. \A q \in Replica : db'[q] = IF q = r THEN wiped ELSE db[q]
  BY <1>1, <1>2 DEF DataInv
<1>5. DataInv'
  <2>1. db' \in [Replica -> Tables]
    BY <1>1, <1>2, <1>3 DEF DataInv
  <2>2. \A q \in Replica : Sound(db[q])'
    BY <1>1, <1>2, <1>3, <1>4 DEF DataInv, Sound
  <2> QED
    BY <1>1, <1>2, <2>1, <2>2 DEF DataInv
<1>6. /\ since' \in [Replica -> [Replica -> [Feed -> Nat]]]
      /\ \A q \in Replica : q # r => since'[q] = since[q]
      /\ \A p \in Replica, f \in Feed : since'[r][p][f] = 0
  BY <1>1, <1>2 DEF RoundInv
<1>7. /\ scan' \in [Replica -> [Goroutine -> Scans]]
      /\ \A q \in Replica : q # r => scan'[q] = scan[q]
      /\ \A g \in Goroutine : scan'[r][g] = Idle
  <2>1. Idle \in Scans
    BY DEF Scans
  <2> HIDE DEF Scans
  <2> QED
    BY <1>1, <1>2, <2>1 DEF RoundInv
<1>8. /\ seen' \in [Replica -> [Replica -> SUBSET Event]]
      /\ \A q \in Replica : q # r => seen'[q] = seen[q]
  BY <1>1, <1>2 DEF RoundInv
<1>9. missed' \in [Replica -> SUBSET Item]
  BY <1>1, <1>2 DEF RoundInv
<1>10. RoundInv'
  BY <1>2, <1>6, <1>7, <1>8, <1>9 DEF RoundInv
<1>11. TimeInv'
  <2>1. \A q \in Replica : db'[q].last = db[q].last
    BY <1>3, <1>4
  <2>2. \A q, p \in Replica, f \in Feed : since'[q][p][f] <= db'[p].last[f]
    <3> SUFFICES ASSUME NEW q \in Replica, NEW p \in Replica, NEW f \in Feed
                 PROVE  since'[q][p][f] <= db'[p].last[f]
      OBVIOUS
    <3>1. db[p].last[f] \in Nat /\ since[q][p][f] <= db[p].last[f]
      BY <1>2, LastTimes DEF DataInv, TimeInv
    <3>2. since'[q][p][f] = IF q = r THEN 0 ELSE since[q][p][f]
      BY <1>6
    <3> QED
      BY <2>1, <3>1, <3>2
  <2>3. ASSUME NEW q \in Replica, NEW g \in Goroutine, scan'[q][g] # Idle
        PROVE  InTimeNext(g, scan'[q][g], scan'[q][g].peer)
    <3>1. q # r /\ scan'[q][g] = scan[q][g]
      BY <1>7, <2>3
    <3>2. scan[q][g] \in ScanOf(q, g) /\ InTime(g, scan[q][g], scan[q][g].peer)
      BY <1>2, <2>3, <3>1 DEF RoundInv, TimeInv
    <3>3. scan[q][g].peer \in Replica
      BY <3>2, ScanFields
    <3> QED
      BY <2>1, <3>1, <3>2, <3>3 DEF InTime, InTimeNext
  <2> QED
    BY <2>2, <2>3 DEF TimeInv, InTime, InTimeNext
<1>12. ScanInv'
  <2> SUFFICES ASSUME NEW q \in Replica, NEW g \in Goroutine, scan'[q][g] # Idle
               PROVE  CoversNext(q, g, scan'[q][g], scan'[q][g].peer)
    BY DEF ScanInv, Covers, CoversNext
  <2>1. q # r /\ scan'[q][g] = scan[q][g] /\ seen'[q] = seen[q]
    BY <1>7, <1>8
  <2>2. scan[q][g] \in ScanOf(q, g)
    BY <1>2, <2>1 DEF RoundInv
  <2>3. scan[q][g].peer \in Replica
    BY <2>2, ScanFields
  <2>4. db'[scan[q][g].peer].events \subseteq db[scan[q][g].peer].events
    BY <1>3, <1>4, <2>3
  <2>5. Covers(q, g, scan[q][g], scan[q][g].peer)
    BY <1>2, <2>1 DEF ScanInv
  <2> QED
    BY <2>1, <2>4, <2>5 DEF Covers, CoversNext
<1>13. CursorPassesSeen'
  <2> SUFFICES ASSUME NEW q \in Replica, NEW p \in Replica, q # p,
                      NEW e \in db'[p].events,
                      e.ts < since'[q][p][FeedOf(e.item)], ~e.late
               PROVE  e \in seen'[q][p]
    BY DEF CursorPassesSeen
  <2>1. p # r /\ e \in db[p].events
    BY <1>3, <1>4
  <2>2. e.ts \in Nat /\ FeedOf(e.item) \in Feed
    BY <1>2, <2>1, EventTimes
  <2>3. q # r
    BY <1>6, <2>2
  <2> QED
    BY <1>2, <1>6, <1>8, <2>1, <2>3 DEF CursorPassesSeen
<1> QED
  BY <1>5, <1>10, <1>11, <1>12, <1>13 DEF CursorInv

----------------------------------------------------------------------------
(* The invariant.                                                           *)

\* The invariants hold at first.
LEMMA InitInv == Init => CursorInv /\ SeenIsKnown /\ OnlyAnswersBlock
<1> SUFFICES ASSUME Init PROVE CursorInv /\ SeenIsKnown /\ OnlyAnswersBlock
  OBVIOUS
<1>1. now = 1 /\ leader \in Replica /\ behind = {} /\ stuck = {}
  BY Items DEF Init
<1>2. log \in Seq(Entry)
  <2>1. log = [n \in 1..Len(Stored) |-> [do |-> "apply", item |-> Stored[n], by |-> "client"]]
    BY DEF Init
  <2>2. Stored \in Seq(Item) /\ Len(Stored) \in Nat
    BY ConstantsAssumption
  <2>3. \A n \in 1..Len(Stored) : Stored[n] \in Item /\ Kind[Stored[n]] # "invite"
    BY <2>2, RolesAssumption
  <2>4. \A n \in 1..Len(Stored) : [do |-> "apply", item |-> Stored[n], by |-> "client"] \in Entry
    BY <2>3 DEF Entry
  <2> QED
    BY <2>1, <2>2, <2>4
<1>3. Sound(NoTables)
  BY DEF Sound, NoTables, Tables
<1>4. Reached(NoTables, Replay(NoTables, log))
  BY <1>1, <1>2, <1>3, ReplayReached
<1>5. db = [r \in Replica |-> Replay(NoTables, log).db]
  BY DEF Init
<1>6. \A r \in Replica : Sound(db[r])
  BY <1>4, <1>5 DEF Reached, Evolves
<1>7. DataInv
  BY <1>1, <1>2, <1>4, <1>5, <1>6 DEF DataInv, Reached
<1>8. /\ since = [r \in Replica |-> [p \in Replica |-> [f \in Feed |-> 0]]]
      /\ scan = [r \in Replica |-> [g \in Goroutine |-> Idle]]
      /\ seen = [r \in Replica |-> [p \in Replica |-> {}]]
      /\ missed = [r \in Replica |-> {}]
  BY DEF Init
<1>9. RoundInv
  <2>1. Idle \in Scans
    BY DEF Scans
  <2> HIDE DEF Scans
  <2> QED
    BY <1>8, <2>1 DEF RoundInv
<1>10. TimeInv /\ ScanInv
  <2>1. ASSUME NEW p \in Replica, NEW f \in Feed
        PROVE  db[p].last[f] \in Nat
    BY <1>6, LastTimes
  <2> QED
    BY <1>8, <2>1 DEF TimeInv, ScanInv
<1>11. CursorPassesSeen
  <2> SUFFICES ASSUME NEW r \in Replica, NEW p \in Replica, NEW e \in db[p].events,
                      e.ts < since[r][p][FeedOf(e.item)]
               PROVE  FALSE
    BY DEF CursorPassesSeen
  <2>1. e.ts \in Nat /\ FeedOf(e.item) \in Feed
    BY <1>7, EventTimes
  <2> QED
    BY <1>8, <2>1
<1>12. SeenIsKnown /\ OnlyAnswersBlock
  BY <1>1, <1>8 DEF SeenIsKnown, OnlyAnswersBlock
<1> QED
  BY <1>7, <1>9, <1>10, <1>11, <1>12 DEF CursorInv

\* What a data step leaves of the tables, the log and the clock.
LEMMA DataKept ==
  ASSUME DataInv, DataStep
  PROVE  DataInv'
<1>1. \A r \in Replica : Sound(db[r])'
  BY DEF DataStep, Evolves, Sound
<1> QED
  BY <1>1 DEF DataStep, DataInv

\* What is known stays known, as far as a step looks at no further event.
LEMMA KnownStays ==
  ASSUME SeenIsKnown, DataInv, DataStep, NEW r \in Replica, NEW p \in Replica, NEW e \in seen[r][p],
         missed[r] \subseteq missed'[r]
  PROVE  \/ Kind[e.item] \notin {"appt", "note"}
         \/ e.item \in db'[r].rows \cup db'[r].gone \cup missed'[r]
         \/ r \in Blocked'
<1>1. Blocked \subseteq Blocked'
  BY DEF Blocked, DataStep
<1>2. Evolves(db[r], db'[r])
  BY DEF DataStep
<1> QED
  BY <1>1, <1>2 DEF SeenIsKnown, Evolves

\* An event that a reconciler deals with is known, skipped or given up.
LEMMA EventKnown ==
  ASSUME DataInv, RoundInv, NEW r \in Replica, NEW g \in Goroutine, NEW e \in scan[r][g].todo,
         \/ SkipEvent(r, g, e) \/ ProposeRepair(r, g, e)
         \/ ProposeFails(r, g, e) \/ ProposeLost(r, g, e)
  PROVE  /\ Kind[e.item] \in {"appt", "note"}
              => e.item \in db'[r].rows \cup db'[r].gone \cup missed'[r]
         /\ missed' \in [Replica -> SUBSET Item]
         /\ \A q \in Replica : missed[q] \subseteq missed'[q]
<1>1. e.item \in Item /\ FeedOf(e.item) \in FeedsOf(g)
  <2>1. scan[r][g] \in ScanOf(r, g) \cup {Idle}
    BY DEF RoundInv
  <2>2. e \in Event /\ FeedOf(e.item) \in FeedsOf(g)
    BY <2>1 DEF ScanOf, Idle
  <2> QED
    BY <2>2 DEF Event
<1>2. missed \in [Replica -> SUBSET Item]
  BY DEF RoundInv
<1>3. CASE SkipEvent(r, g, e)
  BY <1>1, <1>2, <1>3 DEF SkipEvent, Present
<1>4. CASE ProposeFails(r, g, e) \/ ProposeLost(r, g, e)
  BY <1>1, <1>2, <1>4 DEF ProposeFails, ProposeLost
<1>5. CASE ProposeRepair(r, g, e)
  <2> DEFINE x == [do |-> "apply", item |-> e.item, by |-> "repair"]
  <2>1. /\ r = leader /\ leader \notin Blocked /\ Kind[e.item] # "groupappt"
        /\ Commit(x, NoItem) /\ UNCHANGED <<leader, now, missed>>
    BY <1>5 DEF ProposeRepair, Resolvable
  <2>2. Kind[e.item] # "invite"
    BY <1>1 DEF FeedOf, FeedsOf, Feeds, Goroutine
  <2>3. x \in Entry /\ x.do = "apply" /\ x.item = e.item
    BY <1>1, <2>1, <2>2 DEF Entry
  <2> HIDE DEF x
  <2>4. Kind[e.item] \in {"appt", "note"} => e.item \in db'[r].rows \cup db'[r].gone
    BY <2>1, <2>3, CommitStep, Items
  <2> QED
    BY <1>2, <2>1, <2>4
<1> QED
  BY <1>3, <1>4, <1>5

\* A step of a reconciler.
LEMMA RoundStep ==
  ASSUME CursorInv, SeenIsKnown, NEW r \in Replica, NEW g \in Goroutine, Round(r, g)
  PROVE  RoundInv' /\ Cursors' /\ SeenIsKnown'
<1>1. DataInv /\ RoundInv
  BY DEF CursorInv
<1>2. DataStep
  BY <1>1, RoundData
<1>3. CASE StartRound(r, g) \/ Fetch(r, g) \/ FetchFails(r, g) \/ UpdateState(r, g)
  <2>1. UNCHANGED <<seen, missed>>
    BY <1>3 DEF StartRound, Fetch, FetchFails, UpdateState
  <2>2. SeenIsKnown'
    BY <1>1, <1>2, <2>1, KnownStays DEF SeenIsKnown
  <2> QED
    BY <1>3, <2>2, StartCursors, FetchCursors, UpdateCursors
<1>4. ASSUME NEW e \in scan[r][g].todo,
             \/ SkipEvent(r, g, e) \/ ProposeRepair(r, g, e)
             \/ ProposeFails(r, g, e) \/ ProposeLost(r, g, e)
      PROVE  RoundInv' /\ Cursors' /\ SeenIsKnown'
  <2>1. Advance(r, g, e) /\ since' = since
    BY <1>4 DEF SkipEvent, ProposeRepair, ProposeFails, ProposeLost
  <2>2. /\ Kind[e.item] \in {"appt", "note"}
              => e.item \in db'[r].rows \cup db'[r].gone \cup missed'[r]
        /\ missed' \in [Replica -> SUBSET Item]
        /\ \A q \in Replica : missed[q] \subseteq missed'[q]
    BY <1>1, <1>4, EventKnown
  <2>3. RoundInv' /\ Cursors'
    BY <1>2, <2>1, <2>2, AdvanceCursors
  <2>4. seen \in [Replica -> [Replica -> SUBSET Event]]
        /\ seen' = [seen EXCEPT ![r][scan[r][g].peer] = @ \cup {e}]
    BY <1>1, <2>1 DEF RoundInv, Advance
  <2>5. \A q, p \in Replica : \A x \in seen'[q][p] : x \in seen[q][p] \/ (q = r /\ x = e)
    BY <2>4
  <2>6. SeenIsKnown'
    <3> SUFFICES ASSUME NEW q \in Replica, NEW p \in Replica, NEW x \in seen'[q][p]
                 PROVE  \/ Kind[x.item] \notin {"appt", "note"}
                        \/ x.item \in db'[q].rows \cup db'[q].gone \cup missed'[q]
                        \/ q \in Blocked'
      BY DEF SeenIsKnown
    <3>1. CASE x \in seen[q][p]
      BY <1>1, <1>2, <2>2, <3>1, KnownStays
    <3>2. CASE q = r /\ x = e
      BY <2>2, <3>2
    <3> QED
      BY <2>5, <3>1, <3>2
  <2> QED
    BY <2>3, <2>6
<1> QED
  BY <1>3, <1>4 DEF Round

\* Every step keeps the invariants.
LEMMA NextInv ==
  ASSUME CursorInv, SeenIsKnown, [Next]_vars
  PROVE  CursorInv' /\ SeenIsKnown'
<1>1. DataInv /\ RoundInv /\ Cursors
  BY DEF CursorInv, Cursors
<1>2. ASSUME DataStep, UNCHANGED <<since, scan, seen, missed>>
      PROVE  CursorInv' /\ SeenIsKnown'
  <2>1. DataInv' /\ Cursors'
    BY <1>1, <1>2, DataKept, DataCursors
  <2>2. RoundInv'
    BY <1>1, <1>2 DEF RoundInv
  <2>3. SeenIsKnown'
    BY <1>1, <1>2, KnownStays DEF SeenIsKnown
  <2> QED
    BY <2>1, <2>2, <2>3 DEF CursorInv, Cursors
<1>3. ASSUME NEW r \in Replica, NEW g \in Goroutine, Round(r, g)
      PROVE  CursorInv' /\ SeenIsKnown'
  <2>1. DataInv'
    BY <1>1, <1>3, RoundData, DataKept
  <2> QED
    BY <1>3, <2>1, RoundStep DEF CursorInv, Cursors
<1>4. CASE Times
  <2>1. SeenIsKnown'
    BY <1>4 DEF Times, Clock, LateWriter, SeenIsKnown, Blocked
  <2> QED
    BY <1>4, <2>1, TimesCursors
<1>5. ASSUME NEW r \in Replica, Restart(r)
      PROVE  CursorInv' /\ SeenIsKnown'
  <2>1. \A q \in Replica : /\ q # r => /\ db'[q] = db[q] /\ seen'[q] = seen[q]
                                       /\ missed'[q] = missed[q]
                                       /\ q \in Blocked => q \in Blocked'
                           /\ \A p \in Replica : seen'[r][p] = {}
    BY <1>1, <1>5 DEF Restart, DataInv, RoundInv, Blocked
  <2>2. SeenIsKnown'
    BY <2>1 DEF SeenIsKnown
  <2> QED
    BY <1>5, <2>2, RestartCursors
<1>6. ASSUME NEW r \in Replica, ChangeLeader(r)
      PROVE  CursorInv' /\ SeenIsKnown'
  <2>1. UNCHANGED <<since, scan, seen, missed, log, db, behind, stuck, now>>
        /\ leader' = r /\ r \notin behind
    BY <1>6 DEF ChangeLeader
  <2>2. DataStep
    BY <1>1, <2>1, EvolvesSelf DEF DataStep, DataInv
  <2> QED
    BY <1>2, <2>1, <2>2
<1>7. CASE UNCHANGED vars
  <2>1. UNCHANGED <<leader, log, db, behind, stuck, since, scan, seen, missed, now>>
    BY <1>7 DEF vars
  <2>2. DataStep
    BY <1>1, <2>1, TablesSame
  <2> QED
    BY <1>2, <2>1, <2>2
<1>8. CASE Request
  BY <1>1, <1>2, <1>8, RequestData
<1>9. ASSUME NEW r \in Replica, CatchUp(r)
      PROVE  CursorInv' /\ SeenIsKnown'
  BY <1>1, <1>2, <1>9, CatchUpData
<1> QED
  BY <1>3, <1>4, <1>5, <1>6, <1>7, <1>8, <1>9 DEF Next, Times

----------------------------------------------------------------------------
(* The theorems.                                                            *)

\* The invariant holds in every state.
THEOREM ReconcilerInvariant == Spec => [](CursorInv /\ SeenIsKnown)
<1>1. Init => CursorInv /\ SeenIsKnown
  BY InitInv
<1>2. CursorInv /\ SeenIsKnown /\ [Next]_vars => (CursorInv /\ SeenIsKnown)'
  BY NextInv
<1> QED
  BY <1>1, <1>2, PTL DEF Spec

\* No reconciler's cursor passes an event the reconciler has not looked at, unless
\* it was inserted after one with a later stamp: the events that are written to
\* the peer in the order of their stamps between a fetch and the end of the round,
\* those of the same second, those beyond the LIMIT and those of rounds cut short
\* are fetched again (UpdateState, Fetch).  That all events are fetched in the end
\* is not claimed: a late one behind the cursor never is (AppendEvent).
THEOREM CursorSkipsNothing == Spec => []CursorPassesSeen
<1>1. CursorInv /\ SeenIsKnown => CursorPassesSeen
  BY DEF CursorInv
<1> QED
  BY <1>1, ReconcilerInvariant, PTL

\* What a reconciler has looked at and neither skipped, nor failed to propose, nor
\* lost in the log to a proposal made at the same time (ProposeLost), is in its
\* tables or marked deleted there, unless its log is blocked.
THEOREM SeenKept == Spec => []SeenIsKnown
<1>1. CursorInv /\ SeenIsKnown => SeenIsKnown
  OBVIOUS
<1> QED
  BY <1>1, ReconcilerInvariant, PTL

\* Of the entries that reconcilers propose, only answers can block a log, even
\* in a replay on top of other tables (isIgnorableApplyError, CatchUp).
THEOREM RepairsBlockByAnswers == Spec => []OnlyAnswersBlock
<1>1. Init => OnlyAnswersBlock
  BY InitInv
<1>2. CursorInv /\ SeenIsKnown /\ OnlyAnswersBlock /\ [Next]_vars => OnlyAnswersBlock'
  <2> SUFFICES ASSUME CursorInv, OnlyAnswersBlock, [Next]_vars PROVE OnlyAnswersBlock'
    OBVIOUS
  <2>1. DataStep \/ Times \/ \E r \in Replica : Restart(r)
    BY Steps DEF CursorInv
  <2>2. stuck' \subseteq stuck \/ \A s \in stuck' \ stuck : s.by = "repair" => Kind[s.item] = "answer"
    BY <2>1 DEF DataStep, Times, Clock, LateWriter, Restart
  <2> QED
    BY <2>2 DEF OnlyAnswersBlock
<1> QED
  BY <1>1, <1>2, ReconcilerInvariant, PTL DEF Spec

\* A personal appointment marked deleted on a replica stays deleted there until
\* the replica restarts, whatever is proposed and replayed (storage.go: the
\* deterministic id of the deleted row makes the insert fail).
THEOREM DeletionsHold == Spec => DeletedStaysDeleted
<1>1. CursorInv /\ SeenIsKnown /\ [Next]_vars =>
        [\A r \in Replica : \A a \in db[r].gone :
            Kind[a] = "appt" /\ ~Restart(r)
               => a \in db'[r].gone /\ a \notin db'[r].rows]_vars
  <2> SUFFICES ASSUME CursorInv, [Next]_vars, NEW r \in Replica, NEW a \in db[r].gone,
                      Kind[a] = "appt", ~Restart(r)
               PROVE  a \in db'[r].gone /\ a \notin db'[r].rows
    OBVIOUS
  <2>1. DataStep \/ Times \/ \E q \in Replica : Restart(q)
    BY Steps DEF CursorInv
  <2>2. CASE DataStep
    BY <2>2 DEF DataStep, Evolves, Sound
  <2>3. CASE Times
    BY <2>3 DEF Times, Clock, LateWriter, CursorInv, DataInv, Sound
  <2>4. ASSUME NEW q \in Replica, Restart(q)
        PROVE  a \in db'[r].gone /\ a \notin db'[r].rows
    <3>1. q # r
      BY <2>4
    <3>2. db'[r] = db[r]
      BY <2>4, <3>1 DEF Restart, CursorInv, DataInv
    <3> QED
      BY <3>2 DEF CursorInv, DataInv, Sound
  <2> QED
    BY <2>1, <2>2, <2>3, <2>4
<1> QED
  BY <1>1, ReconcilerInvariant, PTL DEF Spec, DeletedStaysDeleted
=============================================================================
